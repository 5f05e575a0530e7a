----------------------------- MODULE BatchLayout ------------------------------
(***************************************************************************)
(* How the nets of a batch lie side by side in the arrays of the device.   *)
(* Stage 1 packs the rooted trees of all batches (Lshape_route.hpp); Stage *)
(* 2 packs the DAGs of one batch, with an order of the nodes by depth, a   *)
(* launch for each (Lshape_route_detour.hpp).  Only sums of sizes tell the *)
(* nets apart.  Arrays are functions from 0 here, as in the code.          *)
(***************************************************************************)
EXTENDS Integers, Sequences, FiniteSets, FiniteSetsExt, SequencesExt

\* A function as a table: TLC computes each entry once.
Array(f) == f @@ <<>>

\* The sum of the first i of n sizes
Sums(size, n) ==
  LET list == FoldLeft(LAMBDA acc, i : Append(acc, Last(acc) + size[i - 1]), <<0>>, [i \in 1 .. n |-> i])
  IN  Array([i \in 0 .. n |-> list[i + 1]])

\* Which of the n ranges that sums divides holds k
RangeOf(sums, n, k) == CHOOSE i \in 0 .. n - 1 : sums[i] <= k /\ k < sums[i + 1]

Counted(list) == Array([i \in 0 .. Len(list) - 1 |-> list[i + 1]])
-----------------------------------------------------------------------------
(* Stage 1                                                                   *)

\* dfs: the nodes below x in preorder, each with the place of its parent in the
\* list; first is the place x will have.
RECURSIVE Preorder(_, _, _, _, _)
Preorder(graph, x, par, par_node_idx, first) ==
  FoldLeft(LAMBDA list, e : list \o Preorder(graph, e, x, first, first + Len(list)),
           <<[node |-> x, par |-> par_node_idx]>>,
           SetToSortSeq(graph[x] \ {par}, <))

\* Lshape_route: nets2route, batch after batch, and the arrays over all nodes; a
\* net is the list of its nodes in preorder.
StageOneArrays(batches) ==
  LET nets2route == FlattenSeq(batches)
      net_cnt == Len(nets2route)
      lists == FlattenSeq(nets2route)
  IN  [batch_cnt_sum |-> Sums([i \in 0 .. Len(batches) - 1 |-> Len(batches[i + 1])], Len(batches)),
       node_cnt_sum |-> Sums([id \in 0 .. net_cnt - 1 |-> Len(nets2route[id + 1])], net_cnt),
       nodes |-> Array([k \in 0 .. Len(lists) - 1 |-> lists[k + 1].node]),
       par_nodes |-> Array([k \in 0 .. Len(lists) - 1 |-> lists[k + 1].par])]

BatchNodes(a, i) == a.node_cnt_sum[a.batch_cnt_sum[i + 1]] - a.node_cnt_sum[a.batch_cnt_sum[i]]

\* What dist and from are allocated for
max_num_nodes(a, batches) == Max({0} \cup {BatchNodes(a, i) : i \in 0 .. Len(batches) - 1})

\* Lshape_route_cuda: where net number id of batch i works in dist, in nodes
DistSlice(a, i, id) ==
  LET first == a.node_cnt_sum[id] - a.node_cnt_sum[a.batch_cnt_sum[i]]
  IN  first .. first + a.node_cnt_sum[id + 1] - a.node_cnt_sum[id] - 1
-----------------------------------------------------------------------------
(* Stage 2: the arrays of one net                                            *)

NoNodes ==
  [nodes |-> <<>>, child_num |-> <<>>, node_depth |-> <<>>, par_num |-> <<>>,
   par_num_sum |-> <<0>>, par_nodes |-> <<>>, currentChildIDX |-> <<>>]

create_node(net, place, slots) ==
  [net EXCEPT !.nodes = Append(@, place), !.child_num = Append(@, slots),
              !.node_depth = Append(@, 0), !.par_num = Append(@, 0),
              !.par_num_sum = Append(@, 0), !.par_nodes = Append(@, 0)]

\* The place of a link is counted from the links of the nodes before.
connect_node(net, par, cur, slot) ==
  LET position == net.par_num_sum[cur + 1] + net.par_num[cur + 1] IN
  [net EXCEPT !.par_num[cur + 1] = @ + 1,
              !.node_depth[cur + 1] = Max({@, net.node_depth[par + 1] + 1}),
              !.par_nodes = [Append(@, 0) EXCEPT ![position + 1] = par],
              !.currentChildIDX = [Append(@, 0) EXCEPT ![position + 1] = slot]]

\* What dfs_detours adds once all parents of a node are connected
Closed(net, cur) ==
  [net EXCEPT !.par_num_sum[cur + 2] = @ + net.par_num[cur + 1] + net.par_num_sum[cur + 1]]

\* A DAG is a list of nodes in the order they are made in, with their parents and
\* the slots of the parents they are attached to.
NetArrays(dag) ==
  LET Connected(net, k) ==
        FoldLeft(LAMBDA acc, f : connect_node(acc, f[1] - 1, k - 1, f[2]), net, dag[k].from)
  IN  FoldLeft(LAMBDA net, k : Closed(Connected(create_node(net, dag[k].at, dag[k].slots), k), k - 1),
               NoNodes, [k \in DOMAIN dag |-> k])

node_index_cnt(net) == Len(net.nodes)
links(net) == net.par_num_sum[node_index_cnt(net) + 1]
-----------------------------------------------------------------------------
(* Stage 2: the arrays of a batch                                            *)

\* A value of each node of the batch, from the arrays of its net
OfNodes(nets, node_cnt_sum, get(_)) ==
  Array([k \in 0 .. node_cnt_sum[Len(nets)] - 1 |->
           LET id == RangeOf(node_cnt_sum, Len(nets), k)
           IN  get(nets[id + 1])[k - node_cnt_sum[id] + 1]])

\* The links of net id: where they go, the parent among the nodes of the batch, and
\* the slot, which shares a word with the number of the child.
LinkWrites(net, id, node_cnt_sum, par_num_sum) ==
  LET of_node == Sums(Counted(net.par_num), node_index_cnt(net))
      node_id(pid) == node_cnt_sum[id] + RangeOf(of_node, node_index_cnt(net), pid)
  IN  {[at |-> par_num_sum[node_cnt_sum[id]] + pid,
        par |-> net.par_nodes[pid + 1] + node_cnt_sum[id],
        child |-> net.currentChildIDX[pid + 1] + node_id(pid) * 10] : pid \in 0 .. links(net) - 1}

\* Counting sort: how many nodes are less deep than d, and the nodes in that order
ByDepth(node_depth) ==
  LET nodes == DOMAIN node_depth
      depth == Max({0} \cup {node_depth[k] + 1 : k \in nodes})
      before == Array([d \in 0 .. depth |-> Cardinality({k \in nodes : node_depth[k] < d})])
      place(k) == before[node_depth[k]]
                  + Cardinality({j \in nodes : j < k /\ node_depth[j] = node_depth[k]})
  IN  [depthID2nodeSequence |-> before, cur_batch_depth |-> depth,
       depth_node |-> Array([i \in nodes |-> CHOOSE k \in nodes : place(k) = i])]

\* Lshape_route_detour, for a batch of nets with their own arrays
StageTwoArrays(nets) ==
  LET net_cnt == Len(nets)
      node_cnt_sum == Sums([id \in 0 .. net_cnt - 1 |-> node_index_cnt(nets[id + 1])], net_cnt)
      total == node_cnt_sum[net_cnt]
      par_num_sum == Sums(OfNodes(nets, node_cnt_sum, LAMBDA net : net.par_num), total)
      writes == UNION {LinkWrites(nets[id + 1], id, node_cnt_sum, par_num_sum) : id \in 0 .. net_cnt - 1}
      Link(at) == CHOOSE w \in writes : w.at = at
  IN  [node_cnt_sum |-> node_cnt_sum, par_num_sum |-> par_num_sum,
       child_num_sum |-> Sums(OfNodes(nets, node_cnt_sum, LAMBDA net : net.child_num), total),
       nodes |-> OfNodes(nets, node_cnt_sum, LAMBDA net : net.nodes),
       node_net_idx2 |-> [k \in 0 .. total - 1 |-> RangeOf(node_cnt_sum, net_cnt, k)],
       par_nodes |-> Array([at \in {w.at : w \in writes} |-> Link(at).par]),
       currentChildIDX |-> Array([at \in {w.at : w \in writes} |-> Link(at).child]),
       launches |-> ByDepth(OfNodes(nets, node_cnt_sum, LAMBDA net : net.node_depth))]

\* Lshape_route_detour_wrap: the largest batch decides what is allocated.
node_cnt_estimate(batches) ==
  10 + Max({0} \cup {FoldLeft(LAMBDA n, net : n + node_index_cnt(net), 0, batches[i]) : i \in DOMAIN batches})
parent_cnt_estimate(batches) ==
  10 + Max({0} \cup {FoldLeft(LAMBDA n, net : n + links(net), 0, batches[i]) : i \in DOMAIN batches})
-----------------------------------------------------------------------------
(* What the kernels read                                                     *)

\* The nodes of a launch, as a list
Launch(b, d) ==
  [i \in 1 .. b.launches.depthID2nodeSequence[d + 1] - b.launches.depthID2nodeSequence[d] |->
     b.launches.depth_node[b.launches.depthID2nodeSequence[d] + i - 1]]

ParentsRead(b, n) ==
  [k \in 1 .. b.par_num_sum[n + 1] - b.par_num_sum[n] |->
     <<b.par_nodes[b.par_num_sum[n] + k - 1], b.currentChildIDX[b.par_num_sum[n] + k - 1] % 10>>]

ChildrenRead(b, n) == b.child_num_sum[n + 1] - b.child_num_sum[n]
=============================================================================
