------------------------------- MODULE RouteNet -------------------------------
(***************************************************************************)
(* One net from its access points to the verdict of the evaluator.  Its    *)
(* pins are selected when it is read (NetInit); the wire costs of the      *)
(* tracks are summed by compute_presum; Stage 1 routes the Steiner tree    *)
(* over ranges of layers; Stage 2 builds the augmented DAG and routes the  *)
(* net again over it; output_nets writes a solution, which the evaluator   *)
(* reads.                                                                  *)
(*                                                                         *)
(* Each kernel is a launch of its own, so a phase begins when the one      *)
(* before has ended.  Both routes of the net are put into the file, as two *)
(* nets with the same pins: either may be the one a run ends with.         *)
(***************************************************************************)
EXTENDS PrefixScan, StageOne, DagRoute, Evaluator, NetInit

CONSTANT Trees               \* the nets looked at: up, at, access_points

\* The nodes of a tree are in preorder; a pin of the file has an access point.
ASSUME TreesAssumption ==
  \A t \in Trees :
    /\ t.up \in Seq(Nat) /\ Len(t.up) > 1
    /\ \A i \in 2 .. Len(t.up) : t.up[i] \in 1 .. i - 1
    /\ t.at \in [1 .. Len(t.up) -> [x : 0 .. X - 1, y : 0 .. Y - 1]]
    /\ t.access_points \in Seq(Seq([x : 0 .. X - 1, y : 0 .. Y - 1, l : 0 .. L]) \ {<<>>})

routeVars == <<stageOneVars, vars, dagRouteVars>>
allVars == <<tree, table, scanVars, routeVars, evaluatorVars>>

Unread(t) ==
  [up |-> t.up, at |-> t.at, access_points |-> t.access_points,
   metal |-> <<>>, extra_routes |-> <<>>]

RouteInit ==
  /\ ScanInit
  /\ tree \in {Unread(t) : t \in Trees} /\ table \in DOMAIN Costs
  /\ StageOneStart
  /\ up = <<>> /\ at = <<>> /\ pin = <<>> /\ mark = <<>>
  /\ todo = <<>> /\ dag = <<>> /\ level = 0 /\ best_path = <<>> /\ reached = {}
  /\ DagRouteStart
  /\ EvaluatorStart

\* The file is read: the pins are selected, and the tree is one over them.
InitNet ==
  /\ tree.metal = <<>>
  /\ LET selected == init(tree.access_points)
         PinAt(p) == {a \in selected.pins : a.x = p.x /\ a.y = p.y}
     IN  tree' = [tree EXCEPT
           !.metal = [i \in TreeNode |-> Max({NoMetal} \cup {a.l : a \in PinAt(tree.at[i])})],
           !.extra_routes = SetToSeq(selected.extra_routes)]
  /\ UNCHANGED <<table, scanVars, routeVars, evaluatorVars>>

Scan == tree.metal # <<>> /\ ScanNext /\ UNCHANGED <<tree, table, routeVars, evaluatorVars>>

\* Tracks of every length are summed; what follows is looked at once, after the
\* longest of them.
PresumReady == scan_pc = "done" /\ cells = MaxN

Stage1 ==
  /\ PresumReady /\ StageOneStep
  /\ UNCHANGED <<tree, table, scanVars, vars, dagRouteVars, evaluatorVars>>

\* The net is in of_nets: extract_congestionView has been called, and its tree is
\* turned into a DAG.  Any edges may be congested.
StartStage2 ==
  /\ StageOneDone /\ up = <<>>
  /\ up' = tree.up /\ at' = tree.at /\ pin' = [x \in TreeNode |-> IsPin(x)]
  /\ mark' \in {f \in [TreeNode -> Dir \cup {None}] :
                  /\ f[Root] = None
                  /\ \A x \in TreeNode \ {Root} :
                       f[x] = None \/ f[x] \in EdgeDirs(tree.at[tree.up[x]], tree.at[x])}
  /\ todo' = <<[x |-> Root, node |-> 0, slot |-> 0, mirrors |-> [d \in Dir |-> <<>>]]>>
  /\ UNCHANGED <<tree, table, scanVars, stageOneVars, dag, level, best_path, reached>>
  /\ UNCHANGED <<dagRouteVars, evaluatorVars>>

Stage2 ==
  /\ DagRouteStep
  /\ UNCHANGED <<tree, table, scanVars, stageOneVars, evaluatorVars>>
-----------------------------------------------------------------------------
(* output_nets *)

Raised(p) == [p EXCEPT !.l = @ + 1]

\* pos0 > pos1: the layer counts before x and x before y
After(p, q) == \/ p.l > q.l
               \/ p.l = q.l /\ (p.x > q.x \/ (p.x = q.x /\ p.y > q.y))

\* swap(pos0, pos1)
LowFirst(g) == IF After(g[1], g[2]) THEN <<g[2], g[1]>> ELSE g

write_route(g) == LET o == LowFirst(g) IN <<Raised(o[1]), Raised(o[2])>>

\* A pin on metal 0 is joined to the lowest routing layer.
PinLines ==
  LET low == {i \in TreeNode : tree.metal[i] = 0} IN
  [k \in 1 .. Cardinality(low) |->
     Segment(tree.at[SetToSortSeq(low, <)[k]], 0, tree.at[SetToSortSeq(low, <)[k]], 1)]

\* The access points at one place are joined by a line of their own.
Written(routes) ==
  [pins |-> [i \in DOMAIN tree.access_points |-> ToSet(tree.access_points[i])],
   lines |-> PinLines \o tree.extra_routes \o [k \in DOMAIN routes |-> write_route(routes[k])]]

OutputNets ==
  /\ DagRouteDone /\ file = <<>>
  /\ file' = <<Written(s1_routes), Written(s2_routes)>>
  /\ UNCHANGED <<tree, table, scanVars, routeVars>>
  /\ UNCHANGED <<net, line, flag, wire_counter, stacked_via_counter, via_loc, verdicts>>

Evaluate == EvaluatorStep /\ UNCHANGED <<tree, table, scanVars, routeVars>>

RouteNext == InitNet \/ Scan \/ Stage1 \/ StartStage2 \/ Stage2 \/ OutputNets \/ Evaluate

RouteSpec == RouteInit /\ [][RouteNext]_allVars
-----------------------------------------------------------------------------
(* What the router has committed *)

\* Cells of a wire, those its demand goes to and the ones it leaves a stamp on
WireDemand(g) ==
  LET o == LowFirst(g) IN
  IF o[1].l # o[2].l THEN {}
  ELSE {At3([x |-> x, y |-> y], o[1].l) : x \in o[1].x .. o[2].x, y \in o[1].y .. o[2].y} \ {o[2]}

Stamped(routes) ==
  UNION {WireDemand(routes[k]) \cup {routes[k][1], routes[k][2]} :
           k \in {k \in DOMAIN routes : routes[k][1].l = routes[k][2].l}}

ViaCells(g) ==
  {[g[1] EXCEPT !.l = l] : l \in MinOf(g[1].l, g[2].l) .. MaxOf(g[1].l, g[2].l) - 1}

\* commit_via_demand, in halves of a track: where the demand of a via at c goes
ViaDemand(c, cell) ==
  LET below == IF Vertical(c.l) THEN [c EXCEPT !.y = @ - 1] ELSE [c EXCEPT !.x = @ - 1]
      pos   == IF Vertical(c.l) THEN c.y ELSE c.x
      last  == IF Vertical(c.l) THEN Y - 1 ELSE X - 1
  IN  IF pos = 0 THEN (IF cell = c THEN 2 ELSE 0)
      ELSE IF pos = last THEN (IF cell = below THEN 2 ELSE 0)
      ELSE IF cell \in {below, c} THEN 1 ELSE 0

\* The demand on a cell in halves of a track; each stack counts each of its vias.
CommittedDemand(routes, cell) ==
  LET stamped == Stamped(routes)
      Of(g) == (IF cell \in WireDemand(g) THEN 2 ELSE 0)
               + MapThenSumSet(LAMBDA c : ViaDemand(c, cell), ViaCells(g) \ stamped)
  IN  FoldLeft(LAMBDA n, g : n + Of(g), 0, routes)

\* What the lines between access points would add, in halves of a track, for one
\* of the two nets of the file
ExtraDemand(cell) ==
  LET Lowered(p) == [p EXCEPT !.l = @ - 1]
      Vias(g) == {c \in ViaCells(<<Lowered(g[1]), Lowered(g[2])>>) : c.l >= 0}
  IN  MapThenSumSet(LAMBDA g : MapThenSumSet(LAMBDA c : ViaDemand(c, cell), Vias(g)), ToSet(tree.extra_routes))

\* A via cell that two stacks of the route have in common
Overlap(routes) ==
  \E j, k \in DOMAIN routes : j < k /\ (ViaCells(routes[j]) \cap ViaCells(routes[k])) # {}
-----------------------------------------------------------------------------
\* The one pass over ranges of layers finds the best of all ways to give every
\* edge of the tree its layers and bend, although it looks at one edge at a
\* time: no assignment is cheaper than the cost the root is traced with, and
\* some assignment costs exactly that.
StageOneIsOptimal ==
  StageOneDone /\ up = <<>> => dist[1][layer_range[1]] = LeastAssigned

\* The wires and stacks the traceback writes are a cheapest route through the
\* DAG, unless a store of the dynamic program came late: the cost of the route
\* written, not only the entry of the table, is the least there is.
StageTwoIsOptimal ==
  DagRouteDone /\ file = <<>> /\ ~late => RouteCost(s2_routes) = LeastRouted

\* What comes out of both stages is a solution: the evaluator fails no assertion
\* on any line of the file and finds every net of it connected, whatever was
\* congested, wherever the mirrors stood and whichever store came late.
EvaluatorAccepts == \A k \in DOMAIN verdicts : verdicts[k] = "completed"

\* The router and the evaluator count the same demand, each in its own way: the
\* router by stamps of a batch and the evaluator by marks of a net.  The router
\* stamps wires only, and the evaluator vias as well, so the two part where the
\* stacks of a net overlap, and there the router never counts less.
DemandAgrees ==
  Evaluated /\ Len(verdicts) = 2 =>
    \A c \in {c \in Gcell : c.l > 0} :
      LET below == [c EXCEPT !.l = @ - 1]
          router == CommittedDemand(s1_routes, below) + CommittedDemand(s2_routes, below)
          evaluator == 2 * wire_counter[c] + stacked_via_counter[c]
      IN  /\ router + 2 * ExtraDemand(below) >= evaluator
          /\ tree.extra_routes = <<>> /\ ~Overlap(s1_routes) /\ ~Overlap(s2_routes)
               => router = evaluator
=============================================================================
