------------------------------- MODULE DagRoute -------------------------------
(***************************************************************************)
(* The layered dynamic program of Stage 2 over the DAG of one net.         *)
(*                                                                         *)
(* Lshape_route_node_cuda is launched once for each level, the deepest     *)
(* first; the nodes of a level run in parallel.  A node finds, for every   *)
(* layer its wire to a parent may lie on, the cheapest via stack that      *)
(* covers that layer and, for a pin, the layer of the pin, with the        *)
(* cheapest alternative of every slot on a layer of the stack.  It then    *)
(* offers itself to its parents: an atomic minimum of the cost, and a      *)
(* comparison and a plain store of its own index.                          *)
(*                                                                         *)
(* get_routing_tree_cuda walks the choices down again and writes wires and *)
(* stacks.  The layers of the program are 1 .. L, one above the routing    *)
(* layers.                                                                 *)
(***************************************************************************)
EXTENDS DetourDag, RouteGrid

VARIABLES
  dp_level,                    \* level the program comes to next, from the deepest
  costs,                       \* DAG node -> layer -> cost
  childCosts,                  \* DAG node -> slot -> layer -> cost
  childCosts_road,             \* DAG node -> slot -> layer -> the alternative, or None
  best_layered,                \* DAG node -> slot -> layer -> [node, layer]: best_path
  late,                        \* a store overwrote that of a cheaper alternative
  layer_output,                \* DAG nodes reached -> layer
  s2_routes                    \* segments written to net_routes

dagRouteVars ==
  <<dp_level, costs, childCosts, childCosts_road, best_layered, late, layer_output, s2_routes>>

DagLayer == 1 .. L

Depths == {dag[n].depth : n \in DOMAIN dag}

\* The nodes of a level: depth_node between two entries of depthID2nodeSequence
AtDepth(k) == {n \in DOMAIN dag : dag[n].depth = k}

HasPin(n) == dag[n].role \in {"node", "pin"} /\ IsPin(dag[n].of)

\* nodes[n] / X / Y, above the layers for mirrors, bends and Steiner nodes
NodeLayer(n) == IF HasPin(n) THEN PinLayer(dag[n].of) ELSE NoLayer

fixed_layer_low(n)  == 1 + NodeLayer(n)
fixed_layer_high(n) == IF fixed_layer_low(n) = L + 1 THEN 0 ELSE fixed_layer_low(n)

Slots(n) == 0 .. dag[n].slots - 1

DagRouteStart ==
  /\ dp_level = None /\ costs = <<>> /\ childCosts = <<>> /\ childCosts_road = <<>>
  /\ best_layered = <<>> /\ late = FALSE /\ layer_output = <<>> /\ s2_routes = <<>>

EachSlot(value) == [n \in DOMAIN dag |-> [s \in Slots(n) |-> [l \in DagLayer |-> value]]]

\* init_costs, init_min_child_costs and init_road, once the DAG is on the device
InitCosts ==
  /\ costs = <<>> /\ dag # <<>> /\ Built
  /\ costs' = [n \in DOMAIN dag |-> [l \in DagLayer |-> Inf]]
  /\ childCosts' = EachSlot(Inf)
  /\ childCosts_road' = EachSlot(None)
  /\ best_layered' = EachSlot(<<>>)
  /\ dp_level' = Max(Depths)
  /\ UNCHANGED <<late, layer_output, s2_routes>>
-----------------------------------------------------------------------------
(* Lshape_route_node_cuda *)

\* mutant: the pin of the node forgotten
StacksWithoutPin(n, l) == {r \in DagLayer \X DagLayer : Covers(r, l)}

\* The stacks a node may have when its wire is on layer l: lowLayerIndex goes no
\* higher than the pin, layerIndex no lower; the cheaper of two neighbouring
\* layers is handed down to the bottom of the stack.
Stacks(n, l) ==
  {r \in DagLayer \X DagLayer : /\ r[1] <= l /\ r[1] <= fixed_layer_low(n)
                                /\ l <= r[2] /\ fixed_layer_high(n) <= r[2]}

\* minChildCosts and bestPaths: the lowest layer of the stack with the least cost
ChildLayer(n, s, r) ==
  FirstCheapest(r[1] .. r[2], LAMBDA l : childCosts[n][s][l], <)

StackTotal(n, r) ==
  StackCost(table, r[1] - 1, r[2] - 1, dag[n].at)
    + MapThenSumSet(LAMBDA s : childCosts[n][s][ChildLayer(n, s, r)], Slots(n))

\* The first of the cheapest in the order of the loops, which compare strictly
BestStack(n, l) == FirstCheapest(Stacks(n, l), LAMBDA r : StackTotal(n, r), Before)

\* The layers on which a wire may join two DAG nodes
WireLayers(p, q) ==
  {l \in DagLayer : IF Vertical(l - 1) THEN p.x = q.x ELSE p.y = q.y}

\* What n offers its parent p on layer l
Offer(n, p, l) == costs'[n][l] + wire_segment_cost(table, l - 1, dag[n].at, dag[p].at)

\* mutant: the slot is not looked at
WritersOfAnySlot(p, s, l) ==
  {n \in AtDepth(dp_level) : /\ \E f \in ToSet(dag[n].from) : f[1] = p
                             /\ l \in WireLayers(dag[n].at, dag[p].at)}

\* The nodes of the level that write into a slot of p on layer l, and those of
\* them that may find their own cost there at the time they look.
Writers(p, s, l) ==
  {n \in AtDepth(dp_level) : <<p, s>> \in ToSet(dag[n].from)
                             /\ l \in WireLayers(dag[n].at, dag[p].at)}
Improving(p, s, l) == {n \in Writers(p, s, l) : Offer(n, p, l) <= childCosts[p][s][l]}

\* atomicMinDouble of all that is offered
LeastOffer(p, s, l) ==
  Min({childCosts[p][s][l]} \cup {Offer(n, p, l) : n \in Writers(p, s, l)})

SlotLayers == UNION {{p} \X Slots(p) \X DagLayer : p \in DOMAIN dag}

\* The store that a cheapest alternative makes and no other overwrites
ExpectedRoad(p, s, l) ==
  LET cheapest == {n \in Improving(p, s, l) : Offer(n, p, l) = LeastOffer(p, s, l)}
  IN  IF cheapest = {} THEN childCosts_road[p][s][l] ELSE Min(cheapest)

\* Between the comparison and the store of one alternative a cheaper one may do
\* both.  bound: at most one entry of a level comes out other than expected.
NodeLevel ==
  /\ dp_level \in Depths
  /\ LET now == AtDepth(dp_level)
         stack == [n \in now |-> [l \in DagLayer |-> BestStack(n, l)]]
     IN
       /\ costs' = [n \in DOMAIN dag |->
            IF n \in now THEN [l \in DagLayer |-> StackTotal(n, stack[n][l])] ELSE costs[n]]
       /\ best_layered' = [n \in DOMAIN dag |->
            IF n \in now
            THEN [s \in Slots(n) |-> [l \in DagLayer |->
                    LET k == ChildLayer(n, s, stack[n][l]) IN
                    [node |-> childCosts_road[n][s][k], layer |-> k]]]
            ELSE best_layered[n]]
  /\ childCosts' = [p \in DOMAIN dag |-> [s \in Slots(p) |-> [l \in DagLayer |-> LeastOffer(p, s, l)]]]
  /\ LET expected == [p \in DOMAIN dag |-> [s \in Slots(p) |-> [l \in DagLayer |-> ExpectedRoad(p, s, l)]]]
     IN  \/ childCosts_road' = expected /\ late' = late
         \/ \E e \in SlotLayers : \E n \in Improving(e[1], e[2], e[3]) :
              /\ n # expected[e[1]][e[2]][e[3]]
              /\ childCosts_road' = [expected EXCEPT ![e[1]][e[2]][e[3]] = n]
              /\ late' = (late \/ Offer(n, e[1], e[3]) > LeastOffer(e[1], e[2], e[3]))
  /\ dp_level' = dp_level - 1
  /\ UNCHANGED <<layer_output, s2_routes>>
-----------------------------------------------------------------------------
(* get_routing_tree_cuda *)

Costed == dp_level = None /\ costs # <<>>

\* The first reached parent of n, in the order of its parents, that chose n
ChoosingParent(n) ==
  LET chose(k) == LET f == dag[n].from[k] IN
                  f[1] \in reached /\ best_path[f[1]][f[2]] = n
  IN  dag[n].from[Min({k \in DOMAIN dag[n].from : chose(k)})]

OutputLayer(n) ==
  IF dag[n].from = <<>> THEN FirstCheapest(DagLayer, LAMBDA l : costs[n][l], <)
  ELSE LET f == ChoosingParent(n) IN best_layered[f[1]][f[2]][layer_output[f[1]]].layer

ChosenChild(n, s, l) == best_layered[n][s][l]

\* The wire to the parent, if they stand apart
Wire(n, l) ==
  IF dag[n].from = <<>> THEN <<>>
  ELSE LET p == dag[ChoosingParent(n)[1]].at IN
       IF p = dag[n].at THEN <<>> ELSE <<Segment(p, l - 1, dag[n].at, l - 1)>>

\* mutant: the layer of the pin forgotten
ChosenLayers(n, l) == {l} \cup {ChosenChild(n, s, l).layer : s \in Slots(n)}

StackLayers(n, l) ==
  {l} \cup {ChosenChild(n, s, l).layer : s \in Slots(n)}
      \cup (IF HasPin(n) THEN {fixed_layer_low(n)} ELSE {})

ViaStack(n, l) ==
  LET layers == StackLayers(n, l) IN
  IF Cardinality(layers) = 1 THEN <<>>
  ELSE <<Segment(dag[n].at, Min(layers) - 1, dag[n].at, Max(layers) - 1)>>

TraceLayered ==
  /\ Costed /\ \E n \in DOMAIN dag : dag[n].depth = level
  /\ LET now == {n \in AtDepth(level) : Chosen(n)}
         out == [n \in now |-> OutputLayer(n)]
     IN  /\ reached' = reached \cup now
         /\ layer_output' = layer_output @@ out
         /\ best_path' = best_path @@
              [n \in now |-> [s \in Slots(n) |-> ChosenChild(n, s, out[n]).node]]
         /\ s2_routes' = s2_routes \o FlattenSeq(
              [k \in 1 .. Cardinality(now) |->
                 LET n == SetToSortSeq(now, <)[k] IN Wire(n, out[n]) \o ViaStack(n, out[n])])
  /\ level' = level + 1
  /\ UNCHANGED <<netVars, todo, dag>>
  /\ UNCHANGED <<dp_level, costs, childCosts, childCosts_road, best_layered, late>>

DagRouteStep ==
  \/ (VisitRoot \/ Visit) /\ UNCHANGED dagRouteVars
  \/ (InitCosts \/ NodeLevel) /\ UNCHANGED vars
  \/ TraceLayered

DagRouteDone == Costed /\ Traced
-----------------------------------------------------------------------------
\* The least cost of a route below n that leaves n on layer l: any stack that
\* covers l and the pin, for every slot any alternative, on any layer of the
\* stack on which a wire may lead to it.
LeastBelow ==
  LET PinCovered(n, r) == HasPin(n) => Covers(r, PinLayer(dag[n].of) + 1)
      Reach(least, n, s, r) ==
        Min({Inf} \cup {least[e[1]][e[2]] + wire_segment_cost(table, e[2] - 1, dag[n].at, dag[e[1]].at) :
               e \in {a \in Alternatives(n, s) \X (r[1] .. r[2]) :
                        a[2] \in WireLayers(dag[n].at, dag[a[1]].at)}})
      Below(least, n) ==
        [l \in DagLayer |->
           Min({StackCost(table, r[1] - 1, r[2] - 1, dag[n].at)
                  + MapThenSumSet(LAMBDA s : Reach(least, n, s, r), Slots(n))
                : r \in {r \in DagLayer \X DagLayer : Covers(r, l) /\ PinCovered(n, r)}})]
  IN  FoldLeft(LAMBDA least, n : (n :> Below(least, n)) @@ least, <<>>, Reverse([n \in DOMAIN dag |-> n]))

RouteCost(routes) ==
  LET cost(g) == IF g[1].l = g[2].l THEN wire_segment_cost(table, g[1].l, g[1], g[2])
                 ELSE StackCost(table, MinOf(g[1].l, g[2].l), MaxOf(g[1].l, g[2].l), g[1])
  IN  FoldLeft(LAMBDA sum, g : sum + cost(g), 0, routes)

LeastRouted == Min({LeastBelow[1][l] : l \in DagLayer})

\* A late store spoils the cost and nothing else: cost and path of an entry may
\* belong to different alternatives, but what the kernels do with it is still a
\* walk down the DAG, one alternative for every slot, as DetourDag has it.
ImplementsDetourDag == [][VisitRoot \/ Visit \/ TraceLevel \/ Init']_vars
=============================================================================
