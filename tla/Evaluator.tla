------------------------------ MODULE Evaluator -------------------------------
(***************************************************************************)
(* run/evaluator.cpp: the solution file is read line by line.  Wires mark  *)
(* the cells of the net at once, vias wait for the end of the net; then    *)
(* the via demand is counted, the vias mark their cells, and the marked    *)
(* cells are searched from the first pin.                                  *)
(*                                                                         *)
(* One array of marks serves all nets and is never cleared: a cell holds   *)
(* the net that came last, or that net plus the number of nets once the    *)
(* search has been there.  Demand is in halves of a track.                 *)
(***************************************************************************)
EXTENDS GridSize, RouteGrid

VARIABLES
  file,                        \* the nets of the solution: [pins, lines]
  net,                         \* the net being read; 0 before the first
  line,                        \* its lines read so far
  flag,                        \* cell -> the mark last left there, or -1
  wire_counter,                \* cell -> wires of any net that cross its edge
  stacked_via_counter,         \* cell -> halves of a track taken by vias
  via_loc,                     \* the vias of the net, in the order read
  verdicts                     \* nets judged -> "completed", "open" or "assert"

evaluatorVars ==
  <<file, net, line, flag, wire_counter, stacked_via_counter, via_loc, verdicts>>

GridX == 0 .. X - 1
GridY == 0 .. Y - 1
Metal == 0 .. L                \* metal 0 is no routing layer; metal z is layer z - 1
Gcell == {At3([x |-> x, y |-> y], z) : x \in GridX, y \in GridY, z \in Metal}

is_ver(z) == z > 0 /\ Vertical(z - 1)
is_hor(z) == z > 0 /\ ~Vertical(z - 1)

EvaluatorStart ==
  /\ file = <<>> /\ net = 0 /\ line = 0
  /\ flag = [c \in Gcell |-> -1]
  /\ wire_counter = [c \in Gcell |-> 0]
  /\ stacked_via_counter = [c \in Gcell |-> 0]
  /\ via_loc = <<>> /\ verdicts = <<>>

\* The name of the next net.  Marks count the nets from 0.
ReadName ==
  /\ net < Len(file) /\ (net = 0 \/ net = Len(verdicts))
  /\ net' = net + 1 /\ line' = 0
  /\ UNCHANGED <<file, flag, wire_counter, stacked_via_counter, via_loc, verdicts>>

Mark == net - 1
TracedMark == net - 1 + Len(file)

NextLine == file[net].lines[line + 1]
Reading == net > Len(verdicts) /\ line < Len(file[net].lines)

ReadVia ==
  /\ Reading
  /\ LET a == NextLine[1] b == NextLine[2] IN
       /\ a.l # b.l /\ a.x = b.x /\ a.y = b.y
       /\ via_loc' = via_loc \o [k \in 1 .. b.l - a.l |-> [a EXCEPT !.l = a.l + k - 1]]
  /\ line' = line + 1
  /\ UNCHANGED <<file, net, flag, wire_counter, stacked_via_counter, verdicts>>

\* The cells of a wire but for its upper end, which has no edge in it
WireEdges(a, b) ==
  IF is_hor(a.l) THEN {[a EXCEPT !.x = x] : x \in a.x .. b.x - 1}
  ELSE {[a EXCEPT !.y = y] : y \in a.y .. b.y - 1}

ProperWire(a, b) ==
  \/ is_hor(a.l) /\ b.x > a.x /\ b.y = a.y
  \/ is_ver(a.l) /\ b.y > a.y /\ b.x = a.x

ReadWire ==
  /\ Reading
  /\ LET a == NextLine[1] b == NextLine[2] IN
       /\ a.l = b.l /\ ProperWire(a, b)
       /\ flag' = [c \in Gcell |-> IF c \in WireEdges(a, b) \cup {b} THEN Mark ELSE flag[c]]
       /\ wire_counter' = [c \in Gcell |-> wire_counter[c] + IF c \in WireEdges(a, b) THEN 1 ELSE 0]
  /\ line' = line + 1
  /\ UNCHANGED <<file, net, stacked_via_counter, via_loc, verdicts>>

\* Any other line fails an assertion and ends the evaluator
AssertFails ==
  /\ Reading
  /\ LET a == NextLine[1] b == NextLine[2] IN
       IF a.l = b.l THEN ~ProperWire(a, b) ELSE a.x # b.x \/ a.y # b.y
  /\ verdicts' = Append(verdicts, "assert")
  /\ net' = Len(file)
  /\ UNCHANGED <<file, line, flag, wire_counter, stacked_via_counter, via_loc>>

\* layer_directions[z] = 1: along y.  Metal 0 has a direction too; the router reads
\* that of metal 1 and has them alternate.
AlongY(z) == Vertical(z - 1)

\* The two cells whose demand a via at c goes to; on the border one cell twice
ViaTargets(c) ==
  LET below == IF AlongY(c.l) THEN [c EXCEPT !.y = @ - 1] ELSE [c EXCEPT !.x = @ - 1]
      pos   == IF AlongY(c.l) THEN c.y ELSE c.x
      last  == IF AlongY(c.l) THEN Y - 1 ELSE X - 1
  IN  IF pos > 0 /\ pos < last THEN <<below, c>>
      ELSE IF pos > 0 THEN <<below, below>>
      ELSE IF pos < last THEN <<c, c>>
      ELSE <<>>

\* mutant: a via counts though a wire of its net passes there
CountEveryVia(c, marks) == TRUE

\* A via takes demand where its net has left no mark yet.
CountsVia(c, marks) == marks[c] # Mark

update_stacked_via_counter ==
  FoldLeft(LAMBDA acc, c :
             IF CountsVia(c, acc.marks)
             THEN [marks |-> [acc.marks EXCEPT ![c] = Mark],
                   count |-> FoldLeft(LAMBDA n, d : [n EXCEPT ![d] = @ + 1], acc.count, ViaTargets(c))]
             ELSE acc,
           [marks |-> flag, count |-> stacked_via_counter], via_loc)

\* The search goes along the layer, and up and down.
Adjacent(c, d) ==
  \/ is_hor(c.l) /\ d.l = c.l /\ d.y = c.y /\ d.x \in {c.x - 1, c.x + 1}
  \/ is_ver(c.l) /\ d.l = c.l /\ d.x = c.x /\ d.y \in {c.y - 1, c.y + 1}
  \/ d.x = c.x /\ d.y = c.y /\ d.l \in {c.l - 1, c.l + 1}

\* Cells with the mark of the net reached from those of start
check_connectivity(marks, start) ==
  LET marked == {c \in Gcell : marks[c] = Mark}
      trace[seen \in SUBSET marked] ==
        LET more == seen \cup {d \in marked : \E c \in seen : Adjacent(c, d)} IN
        IF more = seen THEN seen ELSE trace[more]
  IN  trace[start \cap marked]

EndOfNet ==
  /\ net > Len(verdicts) /\ line = Len(file[net].lines)
  /\ LET counted == update_stacked_via_counter
         viaCells == UNION {{c, [c EXCEPT !.l = @ + 1]} : c \in ToSet(via_loc)}
         marks == [c \in Gcell |-> IF c \in viaCells THEN Mark ELSE counted.marks[c]]
         traced == check_connectivity(marks, file[net].pins[1])
         open == \E i \in 2 .. Len(file[net].pins) : file[net].pins[i] \cap traced = {}
     IN  /\ stacked_via_counter' = counted.count
         /\ flag' = [c \in Gcell |-> IF c \in traced THEN TracedMark ELSE marks[c]]
         /\ verdicts' = Append(verdicts, IF open THEN "open" ELSE "completed")
         /\ net' = IF open THEN Len(file) ELSE net      \* exit(0)
  /\ via_loc' = <<>>
  /\ UNCHANGED <<file, line, wire_counter>>

EvaluatorStep == ReadName \/ ReadVia \/ ReadWire \/ AssertFails \/ EndOfNet

Evaluated == net = Len(file) /\ net > 0 /\ (Len(verdicts) = net \/ verdicts[Len(verdicts)] # "completed")
=============================================================================
