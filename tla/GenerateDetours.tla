--------------------------- MODULE GenerateDetours ----------------------------
(***************************************************************************)
(* net::generate_detours from the branches of a Steiner tree to its        *)
(* routing DAG: the device may look for a center, the host builds the      *)
(* tree, a root is selected by one of three policies, and the DAG is grown *)
(* from it.  A center found by the device is a place; validation falls     *)
(* back to the old policy when the oracle finds it too deep.               *)
(*                                                                         *)
(* Which edges of the tree are congested is any choice, or, for small      *)
(* trees, what the maps of CongestionView say, made after Stage 1.         *)
(***************************************************************************)
EXTENDS GpuCenter, CongestionView, BatchLayout

CONSTANTS
  MaxNodes,                    \* bound: nodes of the labelled trees
  MaxDeviceBranches,           \* bound: branches the kernel is shown
  MaxViewBranches,             \* bound: branches of the trees asked about congestion
  MaxDagNodes                  \* bound: nodes of the trees that get a DAG

ASSUME DetoursAssumption ==
  /\ MaxNodes \in Nat \ {0, 1} /\ MaxDagNodes \in Nat \ {0, 1}
  /\ MaxDeviceBranches \in Nat /\ MaxViewBranches \in Nat

VARIABLES
  policy,                      \* "cpu", "gpu" or "legacy"
  validate,                    \* gpu_flute_validation_enabled()
  rsmt, left, order, head, center,              \* the host's tree, and the peeling
  up, at, pin, mark, todo, dag, level, best_path, reached    \* the DAG

peelVars == <<rsmt, left, order, head, center>>
dagVars  == <<up, at, pin, mark, todo, dag, level, best_path, reached>>
vars == <<deviceVars, viewVars, policy, validate, peelVars, dagVars>>

Peeling == INSTANCE TreeCenter WITH degree <- left
Dag     == INSTANCE DetourDag WITH Shapes <- {}

\* The tree of this net is the last of the launch.
branches == trees[Len(trees)]

DagIdle ==
  /\ up = <<>> /\ at = <<>> /\ pin = <<>> /\ mark = <<>> /\ todo = <<>> /\ dag = <<>>
  /\ level = 0 /\ best_path = <<>> /\ reached = {}

\* Congestion is chosen and not computed.
NoExtraction ==
  /\ load = <<>> /\ leftover = <<>> /\ kernel = "none" /\ turn = <<>> /\ seen = <<>>
  /\ view = <<>> /\ of_edge_sum = <<>> /\ is_of_net = {} /\ host = NoView

Init ==
  /\ DeviceInit
  /\ policy \in {"cpu", "gpu", "legacy"}
  /\ policy = "gpu" => Cardinality(DOMAIN slot) <= MaxDeviceBranches
  /\ policy = "legacy" => Cardinality(DOMAIN slot) <= MaxDagNodes
  /\ policy # "gpu" => Len(trees) = 1 /\ degree = [a \in DOMAIN slot |-> Min(Garbage)]
  /\ validate \in BOOLEAN /\ (validate => policy = "gpu")
  /\ \/ NoExtraction
     \/ policy = "legacy" /\ Cardinality(DOMAIN slot) <= MaxViewBranches /\ ViewInit
  /\ rsmt = <<>> /\ left = <<>> /\ order = <<>> /\ head = 1 /\ center = None
  /\ DagIdle
-----------------------------------------------------------------------------
Kernel ==
  /\ policy = "gpu" /\ rsmt = <<>>
  /\ DeviceNext
  /\ UNCHANGED <<viewVars, policy, validate, peelVars, dagVars>>

TreeToGraph ==
  /\ rsmt = <<>> /\ policy # "done"
  /\ policy = "gpu" => \A b \in Block : pc[b] = "done"
  /\ rsmt' = HostGraph(branches)
  /\ left' = Peeling!Degrees(rsmt')
  /\ order' = Peeling!Leaves(rsmt')
  /\ UNCHANGED <<head, center>>
  /\ UNCHANGED <<deviceVars, viewVars, policy, validate, dagVars>>

PeelLeaves ==
  /\ policy = "cpu" /\ rsmt # <<>>
  /\ Peeling!Next
  /\ UNCHANGED <<deviceVars, viewVars, policy, validate, dagVars>>

\* The trees of Stage 1 are there by then.
ExtractView ==
  /\ rsmt # <<>>
  /\ kernel # "none" /\ ViewNext
  /\ UNCHANGED <<deviceVars, policy, validate, peelVars, dagVars>>

\* rsmt_node_for_2d_position
PositionOf(place) == NodeAt(branches, place)

TooDeep(v) == Peeling!Eccentricity(v) # Peeling!min_max_depth

select_root ==
  LET found == centers[Len(trees)] IN
  IF policy = "cpu" THEN center
  ELSE IF policy = "gpu" /\ found # NoCenter /\ ~(validate /\ TooDeep(PositionOf(found)))
  THEN PositionOf(found)
  ELSE Peeling!select_root_net

\* The tree from its root: parents come before children.
Rooted(root) ==
  LET hops == HopsFrom(rsmt, root)
      list == SetToSortSeq(DOMAIN rsmt, LAMBDA u, v : hops[u] < hops[v] \/ (hops[u] = hops[v] /\ u < v))
      Parent(v) == CHOOSE u \in rsmt[v] : hops[u] < hops[v]
  IN  [k \in DOMAIN list |-> IF list[k] = root THEN 0
                             ELSE CHOOSE j \in DOMAIN list : list[j] = Parent(list[k])]

\* The direction in which the edge above each node is congested
Marks(parents, places) ==
  LET Cell(v) == places[v].x * Y + places[v].y IN
  IF kernel = "none" THEN Dag!Congestions(parents, places)
  ELSE {[v \in DOMAIN parents |-> IF v = Dag!Root THEN None ELSE dir(Cell(parents[v]), Cell(v))]}

\* The root is selected and the walk over the tree begins, for a tree within the
\* bound; what the DAG is built from is kept, the rest is given up.
SelectRoot ==
  /\ rsmt # <<>>
  /\ policy = "cpu" => center # None
  /\ kernel = "none" \/ host # NoView
  /\ IF Cardinality(DOMAIN rsmt) > MaxDagNodes THEN UNCHANGED dagVars
     ELSE /\ up' = Rooted(select_root)
          /\ at' \in Dag!Placements(up')
          /\ pin' \in Dag!PinSets(up')
          /\ mark' \in Marks(up', at')
          /\ todo' = <<Dag!FirstCall>>
          /\ UNCHANGED <<dag, level, best_path, reached>>
  /\ policy' = "done" /\ validate' = FALSE
  /\ rsmt' = <<>> /\ left' = <<>> /\ order' = <<>> /\ head' = 1 /\ center' = None
  /\ trees' = <<>> /\ pc' = <<>> /\ slot' = <<>> /\ hash' = <<>> /\ canonical' = <<>>
  /\ degree' = <<>> /\ alive' = <<>> /\ frontier' = <<>> /\ bfs_start' = <<>> /\ centers' = <<>>
  /\ load' = <<>> /\ leftover' = <<>> /\ kernel' = "none" /\ turn' = <<>> /\ seen' = <<>>
  /\ view' = <<>> /\ of_edge_sum' = <<>> /\ is_of_net' = {} /\ host' = NoView

BuildAndTrace ==
  /\ policy = "done"
  /\ Dag!Next
  /\ UNCHANGED <<deviceVars, viewVars, policy, validate, peelVars>>

Next == Kernel \/ TreeToGraph \/ PeelLeaves \/ ExtractView \/ SelectRoot \/ BuildAndTrace

Spec == Init /\ [][Next]_vars
-----------------------------------------------------------------------------
\* Leaf peeling finds a center of the tree the host has built; see TreeCenter.
PeelFindsCenter == rsmt # <<>> => Peeling!PeelFindsCenter

\* The tree next to a net of one node and to itself, in two batches of Stage 1: the
\* parent the kernel reads for a node is an earlier node of the same net and its
\* neighbour in the tree (the kernel asserts par_nodes[i] < i), and the nets of a
\* batch share no part of dist, which is large enough.
StageOneFits(root) ==
  LET lone == <<[node |-> root, par |-> -1]>>
      tree == Preorder(rsmt, root, -1, -1, 0)
      batches == <<<<tree, lone, tree>>, <<lone, tree>>>>
      a == StageOneArrays(batches)
      size == max_num_nodes(a, batches)
      Node(id, k) == a.nodes[a.node_cnt_sum[id] + k]
      Parent(id, k) == a.par_nodes[a.node_cnt_sum[id] + k]
      In(i) == a.batch_cnt_sum[i] .. a.batch_cnt_sum[i + 1] - 1
  IN  \A i \in 0 .. 1 :
        /\ \A id \in In(i) :
             LET count == a.node_cnt_sum[id + 1] - a.node_cnt_sum[id] IN
             /\ {Node(id, k) : k \in 0 .. count - 1} \in {{root}, DOMAIN rsmt}
             /\ \A k \in 1 .. count - 1 :
                  Parent(id, k) \in 0 .. k - 1 /\ Node(id, Parent(id, k)) \in rsmt[Node(id, k)]
             /\ DistSlice(a, i, id) \subseteq 0 .. size - 1
        /\ \A one, two \in In(i) : one # two => DistSlice(a, i, one) \cap DistSlice(a, i, two) = {}

\* The DAG between two nets of two nodes, in a batch of Stage 2 that begins with a
\* net of one: the kernels read the parents, the slots and the number of children
\* of every node as they were made, each node is in the launch of its depth and in
\* no other, and the links and the slots of all nets fit what was allocated for
\* links.
StageTwoFits ==
  LET lone == <<[at |-> dag[1].at, slots |-> 0, from |-> <<>>, depth |-> 0]>>
      pair == <<[lone[1] EXCEPT !.slots = 1], [lone[1] EXCEPT !.from = <<<<1, 0>>>>, !.depth = 1]>>
      dags == <<lone, pair, dag, pair>>
      nets == LET two == NetArrays(pair) IN <<NetArrays(lone), two, NetArrays(dag), two>>
      b == StageTwoArrays(nets)
      total == b.node_cnt_sum[4]
      Made == {<<id, k>> \in (1 .. 4) \X (1 .. Len(dag) + 1) : k <= Len(dags[id])}
      Placed(m) == b.node_cnt_sum[m[1] - 1] + m[2] - 1
      InLaunch(d) == {Placed(m) : m \in {m \in Made : dags[m[1]][m[2]].depth = d}}
      Read(first, n, node) ==
        /\ b.nodes[n] = node.at
        /\ ParentsRead(b, n) = [j \in DOMAIN node.from |-> <<first + node.from[j][1] - 1, node.from[j][2]>>]
        /\ ChildrenRead(b, n) = node.slots
  IN  /\ \A m \in Made :
           /\ b.node_net_idx2[Placed(m)] = m[1] - 1
           /\ Read(Placed(<<m[1], 1>>), Placed(m), dags[m[1]][m[2]])
      /\ \A d \in 0 .. b.launches.cur_batch_depth - 1 :
           IsInjective(Launch(b, d)) /\ ToSet(Launch(b, d)) = InLaunch(d)
      /\ total + 1 <= node_cnt_estimate(<<nets>>)
      /\ DOMAIN b.par_nodes = 0 .. b.par_num_sum[total] - 1
      /\ \A count \in {b.par_num_sum[total], b.child_num_sum[total] + 1} :
           count <= parent_cnt_estimate(<<nets>>)

\* Whatever root the policies select, the DAG grown from it is sound (see
\* DetourDag) and comes out of the flat arrays of a batch as it went in, as does the
\* rooted tree of Stage 1.
DagIsSound ==
  /\ Dag!DagIsSound
  /\ dag # <<>> /\ todo = <<>> /\ level = 0 => StageTwoFits
  /\ rsmt # <<>> => StageOneFits(IF center = None THEN 0 ELSE center)

\* The traceback of the DAG is a tree; see DetourDag.
TracebackIsATree == Dag!TracebackIsATree
=============================================================================
