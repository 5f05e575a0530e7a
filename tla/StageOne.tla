------------------------------- MODULE StageOne -------------------------------
(***************************************************************************)
(* Lshape_route_cuda: one thread routes one net of the batch in Stage 1.   *)
(* The tree is given in preorder.  dist[i] holds, for every range of       *)
(* layers, what it costs to route all below node i when its via stack      *)
(* covers the range; an edge to the parent is a wire on one layer, or an L *)
(* over two layers of different direction with a stack at the bend.        *)
(* The nodes are taken last to first, each adding to its parent's table;   *)
(* the choices are then followed from the root.  Tables of different nets  *)
(* are disjoint, so one thread at a time is enough.                        *)
(***************************************************************************)
EXTENDS RouteGrid

VARIABLES
  dist,                        \* node -> layer range -> cost
  prev,                        \* node -> parent's layer range -> choice
  s1_node,                     \* the node the loop has come to
  layer_range,                 \* nodes traced -> their layer range
  s1_routes                    \* segments written to net_routes

stageOneVars == <<dist, prev, s1_node, layer_range, s1_routes>>

StackCosts(i) ==
  [r \in LayerRange |->
     IF ~IsPin(i) \/ Covers(r, PinLayer(i))
     THEN StackCost(table, r[1], r[2], tree.at[i]) ELSE Inf]

StageOneStart ==
  /\ dist = <<>> /\ prev = <<>> /\ s1_node = 0
  /\ layer_range = <<>> /\ s1_routes = <<>>

ViaCosts ==
  /\ s1_node = 0
  /\ dist' = [i \in TreeNode |-> StackCosts(i)]
  /\ prev' = [i \in TreeNode |-> [r \in LayerRange |-> <<>>]]
  /\ s1_node' = Len(tree.up)
  /\ UNCHANGED <<layer_range, s1_routes>>

\* The two bends of an L from p to q: where it turns when it leaves p on layer l
Corner(p, l, q) == IF Vertical(l) THEN [p EXCEPT !.y = q.y] ELSE [p EXCEPT !.x = q.x]

\* What the edge above i costs, leaving i on curl and reaching its parent on parl.
\* The stack at a bend is counted without its lowest via.
EdgeCost(i, curl, parl) ==
  LET p == tree.at[i]
      q == tree.at[tree.up[i]]
      c == Corner(p, curl, q)
  IN  IF Flat(p, q) THEN wire_segment_cost(table, curl, p, q)
      ELSE wire_segment_cost(table, curl, p, c)
           + StackCost(table, MinOf(curl, parl) + 1, MaxOf(curl, parl), c)
           + wire_segment_cost(table, parl, c, q)

\* The layers an edge may use, at i and at its parent
EdgeLayers(i) ==
  LET p == tree.at[i]
      q == tree.at[tree.up[i]]
  IN  IF Flat(p, q)
      THEN {<<l, l>> : l \in {l \in Layer : IF Vertical(l) THEN p.x = q.x ELSE p.y = q.y}}
      ELSE {e \in Layer \X Layer : e[1] % 2 # e[2] % 2}

\* min_cost_cur and cur_from: the cheapest range of i that its wire can leave from
RangeAt(i, curl) ==
  FirstCheapest({r \in LayerRange : Covers(r, curl)}, LAMBDA r : dist[i][r], Before)

\* The edges that reach the parent within the range; of two that cost the same the
\* one with the lower layer at the parent comes first.
EdgeChoices(i, r) ==
  {[curl |-> e[1], parl |-> e[2], range |-> RangeAt(i, e[1])] :
     e \in {e \in EdgeLayers(i) : Covers(r, e[2])}}

\* mutant: the edge is added without what lies below it
EdgeAlone(i, c) == EdgeCost(i, c.curl, c.parl)

ChoiceCost(i, c) == dist[i][c.range] + EdgeCost(i, c.curl, c.parl)

\* prev: what gives the least cost, the first of it
Choice(i, r) ==
  FirstCheapest(EdgeChoices(i, r), LAMBDA c : ChoiceCost(i, c),
    LAMBDA c, d : c.parl < d.parl \/ (c.parl = d.parl /\ c.curl < d.curl))

min_cost_par(i, r) == IF EdgeChoices(i, r) = {} THEN Inf ELSE ChoiceCost(i, Choice(i, r))

CostNode ==
  /\ s1_node > 1
  /\ LET i == s1_node IN
       /\ prev' = [prev EXCEPT ![i] =
                     [r \in LayerRange |-> IF EdgeChoices(i, r) = {} THEN <<>> ELSE Choice(i, r)]]
       /\ dist' = [dist EXCEPT ![tree.up[i]] = [r \in LayerRange |-> @[r] + min_cost_par(i, r)]]
  /\ s1_node' = s1_node - 1
  /\ UNCHANGED <<layer_range, s1_routes>>
-----------------------------------------------------------------------------
(* The trace from the root *)

Stack(p, r) == IF r[1] < r[2] THEN <<Segment(p, r[1], p, r[2])>> ELSE <<>>

EdgeRoute(i, curl, parl) ==
  LET p == tree.at[i]
      q == tree.at[tree.up[i]]
      c == Corner(p, curl, q)
  IN  IF Flat(p, q) THEN <<Segment(p, curl, q, curl)>>
      ELSE <<Segment(p, curl, c, curl), Segment(c, curl, c, parl), Segment(c, parl, q, parl)>>

TraceRoot ==
  /\ s1_node = 1 /\ layer_range = <<>>
  /\ LET r == FirstCheapest(LayerRange, LAMBDA s : dist[1][s], Before) IN
       /\ layer_range' = <<r>>
       /\ s1_routes' = Stack(tree.at[1], r)
  /\ UNCHANGED <<dist, prev, s1_node>>

TraceNode ==
  /\ layer_range # <<>> /\ Len(layer_range) < Len(tree.up)
  /\ LET i == Len(layer_range) + 1
         choice == prev[i][layer_range[tree.up[i]]]
     IN  /\ layer_range' = Append(layer_range, choice.range)
         /\ s1_routes' = s1_routes \o Stack(tree.at[i], choice.range)
                                   \o EdgeRoute(i, choice.curl, choice.parl)
  /\ UNCHANGED <<dist, prev, s1_node>>

StageOneStep == ViaCosts \/ CostNode \/ TraceRoot \/ TraceNode

StageOneDone == layer_range # <<>> /\ Len(layer_range) = Len(tree.up)
-----------------------------------------------------------------------------
\* What has to be joined at node i when the edges have the layers e
StackEnds(i, e) ==
  (IF IsPin(i) THEN {PinLayer(i)} ELSE {})
    \cup {e[c][1] : c \in {i} \cap DOMAIN e} \cup {e[c][2] : c \in {d \in DOMAIN e : tree.up[d] = i}}

\* What it costs to give every edge the layers e: each node's stack spans its
\* pin and the ends of its edges.
AssignedCost(e) ==
  Summed([i \in TreeNode |->
            StackCost(table, Min(StackEnds(i, e)), Max(StackEnds(i, e)), tree.at[i])
              + IF i = 1 THEN 0 ELSE EdgeCost(i, e[i][1], e[i][2])],
         1, Len(tree.up))

Assignments ==
  {e \in [TreeNode \ {1} -> Layer \X Layer] : \A i \in DOMAIN e : e[i] \in EdgeLayers(i)}

LeastAssigned == Min({AssignedCost(e) : e \in Assignments})
=============================================================================
