--------------------------- MODULE CongestionView -----------------------------
(***************************************************************************)
(* Between the stages (graph.hpp): extract_congestionView flattens the     *)
(* overflow of all layers into one map for either axis, two kernels turn   *)
(* the maps into prefix sums along their axis, and the host asks them      *)
(* whether an edge of a Steiner tree is congested (markCongestion).        *)
(* In between, ripup counts the full edges under the wires of every net.   *)
(*                                                                         *)
(* A thread of the first kernel is a layer and a cell.  Threads of several *)
(* layers read and write one cell of a map, without an atomic.  The scans  *)
(* are those of PrefixScan, a kernel each; the maps are allocated and      *)
(* never cleared.                                                          *)
(***************************************************************************)
EXTENDS GridMarks, Sequences, FiniteSets, FiniteSetsExt, SequencesExt

CONSTANTS
  L, DIR,                      \* layers; 1: the even ones run along y
  Loads,                       \* demand less capacity: layer -> cell -> number
  Leftovers,                   \* what the allocator hands out: axis -> cell -> number
  Routes,                      \* net_routes, as wires and vias <<layer, cell, cell>>
  of_threshold,                \* 0 in main()
  OF_COUNT                     \* 12: the full edges a net may keep

Layer  == 0 .. L - 1
Axis   == {"x", "y"}
Unread == -1
Thread == Layer \X GridCell

Vertical(l) == (l + DIR) % 2 = 1
IsEdge(l, c) == IF Vertical(l) THEN Row(c) + 1 < Y ELSE Col(c) + 1 < X

\* Demand is added to edges only.
ASSUME ViewAssumption ==
  /\ L \in Nat \ {0} /\ DIR \in {0, 1} /\ OF_COUNT \in Nat /\ of_threshold \in Int
  /\ \A load \in Loads : \A t \in Thread : ~IsEdge(t[1], t[2]) => load[t[1]][t[2]] <= 0
  /\ Leftovers \subseteq [Axis -> [GridCell -> Int]]

VARIABLES
  load,                        \* demand - capacity
  leftover,                    \* the maps before the first kernel
  kernel,                      \* the kernel launched next, or under way
  turn,                        \* thread -> the map it is at, or "done"
  seen,                        \* thread -> the value it has read, or Unread
  view,                        \* congestion_xsum and congestion_ysum
  of_edge_sum,
  is_of_net,                   \* the nets that are routed again
  host                         \* congestionView_xsum_cpu and _ysum_cpu, or NoView

viewVars == <<load, leftover, kernel, turn, seen, view, of_edge_sum, is_of_net, host>>

NoView == <<>>

ViewInit ==
  /\ load \in Loads /\ leftover \in Leftovers
  /\ view = leftover
  /\ kernel = "extract_congestionView"
  /\ turn = [t \in Thread |-> IF load[t[1]][t[2]] > 0 THEN "x" ELSE "done"]
  /\ seen = [t \in Thread |-> Unread]
  /\ of_edge_sum = [l \in Layer |-> [c \in GridCell |-> 0]]
  /\ is_of_net = {}
  /\ host = NoView
-----------------------------------------------------------------------------
\* max(congestion_xsum[x * Y + y], -resource): the read and the write
ReadView(t) ==
  /\ turn[t] # "done" /\ seen[t] = Unread
  /\ seen' = [seen EXCEPT ![t] = MaxOf(view[turn[t]][t[2]], load[t[1]][t[2]])]
  /\ UNCHANGED <<load, leftover, kernel, turn, view, of_edge_sum, is_of_net, host>>

WriteView(t) ==
  /\ turn[t] # "done" /\ seen[t] # Unread
  /\ view' = [view EXCEPT ![turn[t]][t[2]] = seen[t]]
  /\ seen' = [seen EXCEPT ![t] = Unread]
  /\ turn' = [turn EXCEPT ![t] = IF @ = "x" THEN "y" ELSE "done"]
  /\ UNCHANGED <<load, leftover, kernel, of_edge_sum, is_of_net, host>>

\* mutant: the scan counts the cell itself
UpTo(axis, c) ==
  IF axis = "x" THEN {k * Y + Row(c) : k \in 0 .. Col(c)} ELSE {Col(c) * Y + k : k \in 0 .. Row(c)}

\* The cells of its line before c
Below(axis, c) ==
  IF axis = "x" THEN {k * Y + Row(c) : k \in 0 .. Col(c) - 1}
  ELSE {Col(c) * Y + k : k \in 0 .. Row(c) - 1}

Scanned(axis, v) == [c \in GridCell |-> MapThenSumSet(LAMBDA b : v[b], Below(axis, c))]

\* The launches of one stream: a kernel begins when the one before it has ended.
InStream(this, next) == kernel = this /\ kernel' = next

extract_congestionView_xsum ==
  /\ InStream("extract_congestionView", "ysum") /\ \A t \in Thread : turn[t] = "done"
  /\ view' = [view EXCEPT !["x"] = Scanned("x", @)]
  /\ UNCHANGED <<load, leftover, turn, seen, of_edge_sum, is_of_net, host>>

extract_congestionView_ysum ==
  /\ InStream("ysum", "mark_overflow_edges")
  /\ view' = [view EXCEPT !["y"] = Scanned("y", @)]
  /\ UNCHANGED <<load, leftover, turn, seen, of_edge_sum, is_of_net, host>>

mark_overflow_edges ==
  /\ InStream("mark_overflow_edges", "compute_presum_general")
  /\ of_edge_sum' = [l \in Layer |-> [c \in GridCell |->
       IF IsEdge(l, c) /\ load[l][c] >= of_threshold THEN 1 ELSE 0]]
  /\ UNCHANGED <<load, leftover, turn, seen, view, is_of_net, host>>

compute_presum_general ==
  /\ InStream("compute_presum_general", "mark_overflow_nets")
  /\ of_edge_sum' = [l \in Layer |->
       Scanned(IF Vertical(l) THEN "y" ELSE "x", of_edge_sum[l])]
  /\ UNCHANGED <<load, leftover, turn, seen, view, is_of_net, host>>

\* The upper end less the lower one; a via has none.
Crossed(l, p, q) == of_edge_sum[l][MaxOf(p, q)] - of_edge_sum[l][MinOf(p, q)]

\* of_count after k wires of a net
OfCount(route, k) ==
  FoldLeft(LAMBDA n, w : IF w[2] = w[3] THEN n ELSE n + Crossed(w[1], w[2], w[3]),
           0, SubSeq(route, 1, k))

mark_overflow_nets ==
  /\ InStream("mark_overflow_nets", "copy")
  /\ is_of_net' = {r \in Routes : \E k \in DOMAIN r : OfCount(r, k) > OF_COUNT}
  /\ UNCHANGED <<load, leftover, turn, seen, view, of_edge_sum, host>>

\* Stage 2 copies the maps, unless there is nothing to route.
CopyToHost ==
  /\ InStream("copy", "done")
  /\ host' = IF is_of_net = {} THEN NoView ELSE view
  /\ UNCHANGED <<load, leftover, turn, seen, view, of_edge_sum, is_of_net>>

ViewNext ==
  \/ \E t \in Thread : ReadView(t) \/ WriteView(t)
  \/ extract_congestionView_xsum \/ extract_congestionView_ysum
  \/ mark_overflow_edges \/ compute_presum_general \/ mark_overflow_nets
  \/ CopyToHost
-----------------------------------------------------------------------------
(* markCongestion, over the host's copies of the maps                        *)

is_congestion_y(x, y0, y1) == host["y"][x * Y + MaxOf(y0, y1)] - host["y"][x * Y + MinOf(y0, y1)] > 0
is_congestion_x(y, x0, x1) == host["x"][MaxOf(x0, x1) * Y + y] - host["x"][MinOf(x0, x1) * Y + y] > 0

\* The direction of a congested tree edge, or -1: of a diagonal one both sides of
\* its box are asked, the vertical ones first.
dir(i, j) ==
  IF \E x \in {Col(i), Col(j)} : is_congestion_y(x, Row(i), Row(j)) THEN 1
  ELSE IF \E y \in {Row(i), Row(j)} : is_congestion_x(y, Col(i), Col(j)) THEN 0
  ELSE -1
-----------------------------------------------------------------------------
\* The cells of a side of the box of i and j, without its upper corner
Sides(axis, i, j) ==
  IF axis = "y"
  THEN {Col(c) * Y + k : c \in {i, j}, k \in MinOf(Row(i), Row(j)) .. MaxOf(Row(i), Row(j)) - 1}
  ELSE {k * Y + Row(c) : c \in {i, j}, k \in MinOf(Col(i), Col(j)) .. MaxOf(Col(i), Col(j)) - 1}

\* The threads of the layers overwrite one another's maximum, so how congested a cell
\* is may be lost; that it is congested never is.  Whatever their order, the host finds
\* an edge of the tree congested in a direction exactly when some layer overflows in a
\* cell of its sides, or memory that was not cleared held a positive number there.
\* With a negative one left over the sums hide an overflow; nothing in the code
\* excludes it, and this is about memory without.
CongestionIsSeen ==
  LET clean == \A axis \in Axis : \A c \in GridCell : leftover[axis][c] >= 0
      Congested(axis, i, j) ==
        \E c \in Sides(axis, i, j) : leftover[axis][c] > 0 \/ \E l \in Layer : load[l][c] > 0
  IN  host # NoView /\ clean =>
        \A i, j \in GridCell :
          dir(i, j) = IF Congested("y", i, j) THEN 1 ELSE IF Congested("x", i, j) THEN 0 ELSE -1

\* A net is ripped up exactly when its wires, whichever way each was written, cross
\* more than OF_COUNT edges whose demand has come up to their capacity; an edge under
\* two wires counts twice.
RipupCountsEdges ==
  LET Full(l, p, q) ==
        {c \in Sides("x", p, q) \cup Sides("y", p, q) : load[l][c] >= of_threshold}
      Total(route) ==
        FoldLeft(LAMBDA n, w : n + Cardinality(Full(w[1], w[2], w[3])), 0, route)
  IN  kernel = "copy" => is_of_net = {r \in Routes : Total(r) > OF_COUNT}

\* What goes from Stage 1 to Stage 2 is right however the layers raced and whichever
\* way a wire was written: the nets with too many full edges, and the tree edges to
\* lead around an overflow.
OverflowIsFound == RipupCountsEdges /\ CongestionIsSeen
=============================================================================
