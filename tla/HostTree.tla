------------------------------- MODULE HostTree -------------------------------
(***************************************************************************)
(* From the branches of a FLUTE tree to the tree the router keeps:         *)
(* gpu_flute_tree_to_graph, and the second half of my_flute, which is the  *)
(* same statements.  Branches at one place become one node; Kruskal's      *)
(* algorithm drops an edge that closes a cycle.                            *)
(***************************************************************************)
EXTENDS Integers, Sequences, FiniteSets, FiniteSetsExt, Functions, SequencesExt

\* A tree is a function from the number of a branch to [x, y, n].
Place(tree, i) == <<tree[i].x, tree[i].y>>

\* The elements of a set in an order
Sorted(S, Before(_, _)) ==
  LET Insert(a, list) ==
        InsertAt(list, 1 + Cardinality({i \in DOMAIN list : Before(list[i], a)}), a)
  IN  FoldSet(Insert, <<>>, S)

LeftOf(p, q) == p[1] < q[1] \/ (p[1] = q[1] /\ p[2] < q[2])

\* nodes, sorted and without repetitions; numbered from 0
HostNodes(tree) == {Place(tree, i) : i \in DOMAIN tree}
NodeAt(tree, place) == Cardinality({q \in HostNodes(tree) : LeftOf(q, place)})

Distance(p, q) == LET Abs(k) == IF k < 0 THEN -k ELSE k
                  IN  Abs(p[1] - q[1]) + Abs(p[2] - q[2])

\* The edges by length, then by their ends
HostEdges(tree) ==
  LET Edge(i) == <<Distance(Place(tree, i), Place(tree, tree[i].n)),
                   NodeAt(tree, Place(tree, i)), NodeAt(tree, Place(tree, tree[i].n))>>
      Before(e, f) == e[1] < f[1] \/ (e[1] = f[1] /\ LeftOf(<<e[2], e[3]>>, <<f[2], f[3]>>))
  IN  Sorted({e \in {Edge(i) : i \in DOMAIN tree} : e[2] # e[3]}, Before)

\* Kruskal's algorithm: an edge that joins two parts is taken
HostGraph(tree) ==
  LET Nodes == 0 .. Cardinality(HostNodes(tree)) - 1
      Take(g, e) ==
        IF g.part[e[2]] = g.part[e[3]] THEN g
        ELSE [part |-> [v \in Nodes |-> IF g.part[v] = g.part[e[2]] THEN g.part[e[3]] ELSE g.part[v]],
              graph |-> [g.graph EXCEPT ![e[2]] = @ \cup {e[3]}, ![e[3]] = @ \cup {e[2]}]]
  IN  FoldLeft(Take, [part |-> [v \in Nodes |-> v], graph |-> [v \in Nodes |-> {}]],
               HostEdges(tree)).graph

\* rsmt_wirelength
rsmt_wirelength(tree) ==
  LET graph == HostGraph(tree)
      nodes == Sorted(HostNodes(tree), LeftOf)
      at(v) == nodes[v + 1]
  IN  MapThenSumSet(LAMBDA v : MapThenSumSet(LAMBDA u : Distance(at(u), at(v)),
                                             {u \in graph[v] : u < v}),
                    DOMAIN graph)

\* node -> hops from start
HopsFrom(graph, start) ==
  LET within[k \in 0 .. Cardinality(DOMAIN graph)] ==
        IF k = 0 THEN {start} ELSE within[k - 1] \cup UNION {graph[u] : u \in within[k - 1]}
  IN  [v \in DOMAIN graph |->
         Min({Cardinality(DOMAIN graph)} \cup {k \in DOMAIN within : v \in within[k]})]
=============================================================================
