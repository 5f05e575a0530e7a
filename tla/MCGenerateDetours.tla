-------------------------- MODULE MCGenerateDetours ---------------------------
(* Every labelled tree of two to six nodes, on a line in the order of their  *)
(* numbers; for the kernel also trees with branches at one place, where      *)
(* contraction closes a cycle, and launches of two trees.  For the view two   *)
(* layers, on which at most two edges are full or overflow by one or two; on  *)
(* two of the cells memory that was handed out may not be zero.               *)
EXTENDS GenerateDetours

LabelledTrees == INSTANCE TreeCenter WITH degree <- left

\* Branches with the place and the parent of each node
Branches(tree) ==
  LET root == Cardinality(DOMAIN tree) - 1
      hops == HopsFrom(tree, root)
  IN  [v \in DOMAIN tree |->
         [x |-> v, y |-> 0,
          n |-> IF v = root THEN v ELSE CHOOSE u \in tree[v] : hops[u] < hops[v]]]

B(x, y, n) == [x |-> x, y |-> y, n |-> n]
Tree4(a, b, c, d) == (0 :> a) @@ (1 :> b) @@ (2 :> c) @@ (3 :> d)

\* three pins whose Steiner point is a pin; two Steiner points at one place
Bent == Tree4(B(0, 1, 3), B(1, 0, 3), B(2, 0, 3), B(1, 0, 3))
\* contraction closes a cycle of three
Cycle == Tree4(B(1, 1, 1), B(0, 0, 2), B(1, 0, 3), B(1, 1, 3))
\* the same edge twice
Double == Tree4(B(0, 1, 2), B(1, 0, 3), B(1, 0, 3), B(0, 1, 3))
Pair == (0 :> B(0, 0, 1)) @@ (1 :> B(1, 1, 1))

MCLaunches ==
  {<<Branches(t)>> : t \in LabelledTrees!Trees}
  \cup {<<Bent>>, <<Cycle>>, <<Double>>, <<Pair, Bent>>, <<Bent, Pair>>, <<Double, Pair>>}

Room == [l \in Layer |-> [c \in GridCell |-> -1]]
Edge == {t \in Thread : IsEdge(t[1], t[2])}
Put(loads, t, v) == [loads EXCEPT ![t[1]][t[2]] = v]
MCLoads ==
  {Room} \cup {Put(Put(Room, t, v), u, w) : t \in Edge, v \in 0 .. 2, u \in Edge, w \in 0 .. 2}

Zeros == [axis \in Axis |-> [c \in GridCell |-> 0]]
MCLeftovers ==
  {Zeros} \cup {[Zeros EXCEPT ![axis][c] = v] : axis \in Axis, c \in {0, 3}, v \in {-1, 1}}

\* Layer 0 runs along y, layer 1 along x.  Wires both ways, a via, an edge taken
\* twice, the border of the grid; the last net goes over every edge and back, so
\* that wherever an edge is full there is a net to route again.
There == <<<<0, 0, 1>>, <<0, 2, 3>>, <<0, 4, 5>>, <<1, 0, 4>>, <<1, 1, 5>>>>
Back  == [k \in DOMAIN There |-> <<There[k][1], There[k][3], There[k][2]>>]
MCRoutes ==
  {<<<<0, 0, 1>>, <<0, 1, 1>>, <<1, 1, 5>>>>,
   <<<<1, 4, 0>>, <<0, 5, 4>>>>,
   <<<<0, 3, 2>>, <<0, 2, 3>>, <<1, 3, 1>>>>,
   There \o Back}
===============================================================================
