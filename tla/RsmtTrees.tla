------------------------------- MODULE RsmtTrees -------------------------------
(***************************************************************************)
(* The first step of Stage 1 with its trees: the threads of RsmtBuild, the *)
(* levels of GpuFlute between their start and the rebuild, and flute for   *)
(* the nets of the OpenMP loop.  Both paths turn branches into the graph   *)
(* of HostTree.                                                            *)
(***************************************************************************)
EXTENDS RsmtBuild, GpuFlute

CONSTANT Designs               \* lists of nets; a net is its set of pins

VARIABLES
  pins,                        \* net -> its pins
  rsmt,                        \* net -> its nodes and their neighbours
  mismatches                   \* hanan_mismatch_count and mismatch_count

treeVars == <<vars, fluteVars, pins, rsmt, mismatches>>

NoTree == [nodes |-> {}, graph |-> <<>>]

\* INSTANTGR_GPU_FLUTE_MIN_DEGREE is unset or 2.
gpu_flute_takes_degree(min_degree, degree) == degree >= min_degree

TreesInit ==
  /\ pins \in Designs
  /\ \E min_degree \in {2, DEGREE + 1} :
       high = [i \in DOMAIN pins |-> gpu_flute_takes_degree(min_degree, Cardinality(pins[i]))]
  /\ Init /\ FluteInit
  /\ rsmt = [i \in DOMAIN pins |-> NoTree]
  /\ mismatches = [hanan |-> 0, length |-> 0]

Tree(branch) == [nodes |-> HostNodes(branch), graph |-> HostGraph(branch)]

\* construct_rsmt: my_flute on the projected pins
CpuTree(net) == Tree(flute(pins[net]).branch)

\* The number of a net among the roots of the solver
Root(net) == (CHOOSE i \in DOMAIN gpu_flute_nets : gpu_flute_nets[i] = net) - 1

\* rebuild: the branches of the net in the downloaded buffer
GpuTree(net) == Tree(TreeAt(levels[1], Root(net)).branch)

\* Two selection sorts, which take the first of the least, over points that carry
\* their x rank into the second
make_cpu_hanan(target) ==
  LET d == Cardinality(pins[target])
      Sort(list, Before(_, _)) ==
        LET Select(pt, i) ==
              LET best == Min({j \in i .. d : \A k \in i .. d : ~Before(pt[k], pt[j])})
              IN  [pt EXCEPT ![i] = pt[best], ![best] = pt[i]]
        IN  FoldLeft(Select, list, [i \in 1 .. d - 1 |-> i])
      byX == Sort(Sorted(pins[target], LeftOf),
                  LAMBDA p, q : p[1] < q[1] \/ (p[1] = q[1] /\ p[2] > q[2]))
      byY == Sort([i \in 1 .. d |-> [y |-> byX[i][2], rank |-> i - 1]], LAMBDA p, q : p.y < q.y)
  IN  [d |-> d, xs |-> [k \in 0 .. d - 1 |-> byX[k + 1][1]],
       ys |-> [k \in 0 .. d - 1 |-> byY[k + 1].y], s |-> [k \in 0 .. d - 1 |-> byY[k + 1].rank]]

\* rebuild with INSTANTGR_GPU_FLUTE_VALIDATE: the grid of the device is compared with
\* one of the host, and the length of the tree with that of the tree of my_flute.
Validated(net) ==
  LET One(b) == IF b THEN 1 ELSE 0
      gpu_length == rsmt_wirelength(TreeAt(levels[1], Root(net)).branch)
      cpu_length == rsmt_wirelength(flute(pins[net]).branch)
  IN  [hanan |-> mismatches.hanan
                   + One(SubnetAt(levels[1], Root(net)) # make_cpu_hanan(net)),
       length |-> mismatches.length + One(gpu_length # cpu_length)]

SolveHighDegree ==
  /\ gpu = "solve"
  /\ MakeHanan(pins, gpu_flute_nets) \/ FluteNext
  /\ UNCHANGED <<vars, pins, rsmt, mismatches>>

\* solve_high_degree has returned.
Solved ==
  /\ step = "host" /\ Solve
  /\ UNCHANGED <<fluteVars, pins, rsmt, mismatches>>

Build(t) ==
  /\ StoreLength(t)
  /\ rsmt' = [rsmt EXCEPT ![Head(todo[t])] =
                IF t \in GpuThreads THEN GpuTree(Head(todo[t])) ELSE CpuTree(Head(todo[t]))]
  /\ mismatches' = IF t \in GpuThreads THEN Validated(Head(todo[t])) ELSE mismatches
  /\ UNCHANGED <<fluteVars, pins>>

Threads ==
  /\ \/ \E t \in CpuThreads : StartIteration(t)
     \/ \E t \in GpuThreads : ClaimChunk(t)
     \/ \E t \in Thread : LoadLength(t)
     \/ EndLoop \/ EndRebuild \/ Join
  /\ UNCHANGED <<fluteVars, pins, rsmt, mismatches>>

TreesNext == Threads \/ SolveHighDegree \/ Solved \/ \E t \in Thread : Build(t)

TreesSpec == TreesInit /\ [][TreesNext]_treeVars
-----------------------------------------------------------------------------
\* "Subnet pin ranges are disjoint within a level" (gpu_flute.hpp): no two subnets
\* of a level share a place of its arrays, and behind the roots no place is left.
SlicesTile(k) ==
  LET level == levels[k]
      Slice(id) == level.nets[id].pin_offset
                     .. level.nets[id].pin_offset + level.nets[id].degree - 1
  IN  /\ \A id, other \in DOMAIN level.nets : id # other => Slice(id) \cap Slice(other) = {}
      /\ k > 1 => UNION {Slice(id) : id \in DOMAIN level.nets} = DOMAIN level.xs

\* The same branches; the two of a net of two pins come in either order.
SameBranches(branch, other) ==
  branch = other \/ (DOMAIN branch = {0, 1} /\ branch = [i \in {0, 1} |-> other[1 - i]])

\* "the trees stay identical" (gpu_flute.hpp): the slices of every level tile it, and
\* when the levels are merged, every net that is not sorted by Thrust has the tree,
\* branch by branch, that flute.hpp builds for it, which hands two pins on as they
\* come.  The validation of the rebuild counts a mismatch in none of these.
TreesMatchFlute ==
  /\ LET sorted == {i \in Net : high[i] /\ Cardinality(pins[i]) > kThrustSortDegree}
     IN  \A count \in {mismatches.hanan, mismatches.length} : count <= Cardinality(sorted)
  /\ gpu = "solve" =>
    /\ \A k \in DOMAIN levels : SlicesTile(k)
    /\ step = "host" =>
         \A i \in DOMAIN gpu_flute_nets :
           Cardinality(pins[gpu_flute_nets[i]]) <= kThrustSortDegree =>
             SameBranches(TreeAt(levels[1], i - 1).branch, flute(pins[gpu_flute_nets[i]]).branch)

\* The length of a shortest tree that connects places
SpanningLength(places) ==
  LET near[done \in SUBSET places] ==
        IF done = places THEN 0
        ELSE LET length == Min({Distance(p, q) : p \in done, q \in places \ done})
                 next == CHOOSE q \in places \ done : \E p \in done : Distance(p, q) = length
             IN  length + near[done \cup {next}]
  IN  near[{CHOOSE p \in places : TRUE}]

\* The length of a shortest Steiner tree of at most two extra points on the Hanan grid
SteinerLength(points) ==
  LET grid == {p[1] : p \in points} \X {p[2] : p \in points}
  IN  Min({SpanningLength(points \cup {a, b}) : a, b \in grid})

\* The length of the tree that was rebuilt, as it was counted on its branches
CountedLength(i) ==
  IF high[i] THEN TreeAt(levels[1], Root(i)).length
  ELSE flute(pins[i]).length

\* Whatever the path and the degree, what batch generation is given is a tree: its
\* graph is connected by one edge less than it has nodes, as the assertion after
\* Kruskal's algorithm demands, it contains every pin, and every leaf is a pin.  No
\* node has more neighbours than minChildCosts of Lshape_route_node_cuda has room for
\* children.  No edge that Kruskal's algorithm drops had a length that was counted, and
\* up to four pins no tree is shorter.
RsmtIsSteinerTree ==
  joined =>
    \A i \in Net :
      LET nodes == rsmt[i].nodes
          graph == rsmt[i].graph
          places == Sorted(nodes, LeftOf)
          at(v) == places[v + 1]
          length == MapThenSumSet(LAMBDA v : MapThenSumSet(LAMBDA u : Distance(at(u), at(v)),
                                                           {u \in graph[v] : u < v}),
                                  DOMAIN graph)
      IN  /\ pins[i] \subseteq nodes
          /\ MapThenSumSet(LAMBDA v : Cardinality(graph[v]), DOMAIN graph)
               = 2 * (Cardinality(nodes) - 1)
          /\ \A v \in DOMAIN graph : HopsFrom(graph, 0)[v] < Cardinality(nodes)
          /\ \A v \in DOMAIN graph : Cardinality(graph[v]) = 1 => at(v) \in pins[i]
          /\ \A v \in DOMAIN graph : Cardinality(graph[v]) <= 6
          /\ length = CountedLength(i)
          /\ Cardinality(pins[i]) <= 4 => length = SteinerLength(pins[i])
=============================================================================
