------------------------------ MODULE TreeCenter ------------------------------
(***************************************************************************)
(* The root of a net's routing DAG: rsmt_tree_center_peel strips the       *)
(* leaves of the Steiner tree in a queue and returns the node enqueued     *)
(* last.  The depth of the DAG is the eccentricity of its root, and every  *)
(* level of the DAG is a kernel launch, so the root ought to be a center.  *)
(* rsmt_depth_stats finds a center by two breadth-first searches; profile  *)
(* runs and the GPU path use it as the oracle.  select_root_net is the     *)
(* policy of before: the node the search from all leaves comes to last.    *)
(***************************************************************************)
EXTENDS Integers, Sequences, FiniteSets, FiniteSetsExt, Functions, SequencesExt

CONSTANT MaxNodes              \* bound: nodes of the trees looked at

VARIABLES
  rsmt,                        \* node -> its neighbours
  degree, order, head,         \* the scratch arrays and the queue's head
  center                       \* the node returned, or None

vars == <<rsmt, degree, order, head, center>>

Node == DOMAIN rsmt
None == -1
-----------------------------------------------------------------------------
(* Trees: nodes are numbered by position, so any node may have any number *)

Neighbours(n, edges) ==
  [u \in 0 .. n - 1 |-> {v \in 0 .. n - 1 : {u, v} \in edges}]

\* node -> hops from start
Hops(tree, start) ==
  LET within[k \in 0 .. Cardinality(DOMAIN tree)] ==
        IF k = 0 THEN {start}
        ELSE within[k - 1] \cup UNION {tree[u] : u \in within[k - 1]}
  IN  [v \in DOMAIN tree |->
         Min({Cardinality(DOMAIN tree)} \cup {k \in DOMAIN within : v \in within[k]})]

\* A tree is a parent for every node but node 0, such that all paths up end there.
Trees ==
  UNION {LET Edges(f) == {{v, f[v]} : v \in 1 .. n - 1}
             Above(f) == LET up[k \in 0 .. n, v \in 0 .. n - 1] ==
                               IF k = 0 \/ v = 0 THEN v ELSE up[k - 1, f[v]]
                         IN  up
         IN  {Neighbours(n, Edges(f)) :
                f \in {g \in [1 .. n - 1 -> 0 .. n - 1] : \A v \in 1 .. n - 1 : Above(g)[n, v] = 0}}
         : n \in 2 .. MaxNodes}

Eccentricity(v) == Max(Range(Hops(rsmt, v)))
Radius == Min({Eccentricity(v) : v \in Node})
-----------------------------------------------------------------------------
(* Leaf peeling *)

\* mutant: the queue starts with the first leaf only
FirstLeaf(tree) == <<Min({v \in DOMAIN tree : Cardinality(tree[v]) = 1})>>

Leaves(tree) == SetToSortSeq({v \in DOMAIN tree : Cardinality(tree[v]) = 1}, <)

Degrees(tree) == [v \in DOMAIN tree |-> Cardinality(tree[v])]

Init ==
  /\ rsmt \in Trees
  /\ degree = Degrees(rsmt)
  /\ order = Leaves(rsmt)
  /\ head = 1
  /\ center = None

\* A tree of at most two nodes is not peeled.
Trivial ==
  /\ center = None /\ Cardinality(Node) <= 2
  /\ center' = 0
  /\ UNCHANGED <<rsmt, degree, order, head>>

IsLeaf(left) == left = 1

\* One turn of the peeling loop
Peel ==
  /\ center = None /\ Cardinality(Node) > 2 /\ head <= Len(order)
  /\ LET u == order[head] IN
       /\ degree' = [v \in Node |-> degree[v] - (IF v \in rsmt[u] THEN 1 ELSE 0)]
       /\ order' = order \o SetToSortSeq({v \in rsmt[u] : IsLeaf(degree'[v])}, <)
  /\ head' = head + 1
  /\ UNCHANGED <<rsmt, center>>

Return ==
  /\ center = None /\ Cardinality(Node) > 2 /\ head > Len(order)
  /\ center' = Last(order)
  /\ UNCHANGED <<rsmt, degree, order, head>>

Next == Trivial \/ Peel \/ Return

Spec == Init /\ [][Next]_vars
-----------------------------------------------------------------------------
(* Double breadth-first search *)

\* The farthest node, the first of them in the order of the loop, which starts
\* at node 1: node 0 is the answer only for a search that starts there.
Farthest(start) ==
  LET dist == Hops(rsmt, start)
      seen == {start} \cup (Node \ {0})
      most == Max({dist[v] : v \in seen})
  IN  IF most = 0 THEN start ELSE Min({v \in seen : dist[v] = most})

endpoint0 == Farthest(0)
endpoint1 == Farthest(endpoint0)
diameter  == Hops(rsmt, endpoint0)[endpoint1]

\* path[k], counted from endpoint1 to endpoint0
PathNode(k) == CHOOSE v \in Node : /\ Hops(rsmt, endpoint1)[v] = k
                                   /\ Hops(rsmt, endpoint0)[v] = diameter - k

min_max_depth == (diameter + 1) \div 2
center0 == PathNode(diameter \div 2)
center1 == IF diameter % 2 = 1 THEN PathNode(diameter \div 2 + 1) ELSE center0
-----------------------------------------------------------------------------
(* select_root_net: a queue of <<node, node it is entered from>> *)

RECURSIVE LastPopped(_, _, _)
LastPopped(list, visited, select) ==
  IF list = <<>> THEN select
  ELSE LET u == Head(list)[1]
           entered == SetToSortSeq(rsmt[u] \ {Head(list)[2]}, <)
       IN  LastPopped(Tail(list) \o (IF u \in visited THEN <<>>
                                    ELSE [k \in DOMAIN entered |-> <<entered[k], u>>]),
                      visited \cup {u}, u)

select_root_net == LastPopped([k \in DOMAIN Leaves(rsmt) |-> <<Leaves(rsmt)[k], None>>], {}, None)
-----------------------------------------------------------------------------
\* No root gives the DAG fewer levels than the one peeling returns; order, which
\* has node_count places, holds every node of the tree once.
PeelFindsCenter ==
  /\ IsInjective(order)
  /\ center # None =>
       /\ Eccentricity(center) = Radius
       /\ Cardinality(Node) > 2 => ToSet(order) = Node

\* The comment in rsmt_depth_stats: the radius is half the diameter, rounded up,
\* and the middle nodes of a diameter are the roots that attain it.
OracleFindsCenter ==
  /\ min_max_depth = Radius
  /\ \A c \in {center0, center1} : Eccentricity(c) = Radius
=============================================================================
