# A TLA+ verification of the InstantGR router

`src/` of this repository is a GPU global router for the ISPD 2024 benchmarks: the upstream
InstantGR with a layer of runtime optimizations (parallel batch generation, incremental cost
refresh, GPU FLUTE, tree-center roots, overlapped parsing and output). The optimizations promise
to change the run time and not the routing. Most of that promise is about orders: of warps, of
host threads, of batches, of partial refreshes. That is what this project models.

Every module is a translation of the source; `PROJECT.json` (`map`) names the lines each
definition stands for. File names below are those under `src/src/`.

## 1. The system

`main()` reads the capacity file and the nets (`database.hpp`) while a second thread cuts large
nets into subnets (`database_cuda.hpp: build_nets_from_parse`). The subnets are then routed:

1. **Stage 1** (`Lshape_route.hpp`). Every subnet gets a Steiner tree, from CPU FLUTE in an OpenMP
   loop or, for high degrees, from GPU FLUTE on a thread of its own (`gpu_flute.hpp`). The trees
   are rooted, batches of subnets that do not disturb one another are generated
   (`gpu_batch_gen.hpp`, `database_cuda.hpp`), and batch after batch is routed with L shapes: the
   via costs and the prefix sums of the wire costs are refreshed (`graph.hpp`), a dynamic program
   chooses layers bottom-up and a traceback commits wires and vias to the shared demand grid.
2. **Rip-up** (`graph.hpp: mark_overflow_nets`). Subnets with too many overflowing edges are kept
   for Stage 2; those of the others are counted off, and nets that are complete go to the writer.
3. **Stage 2** (`Lshape_route_detour.hpp`, `net::generate_detours`). For each remaining subnet a
   DAG is built, which adds mirrors of the tree about congested regions, bends and Z shapes. Batch
   by batch the old routes are ripped up and the cheapest path through the DAG is committed.
4. **Output** (`graph.hpp: output_nets`). A writer thread runs beside each stage; the rest is
   written by `main()`.

| Component | State | Operations | What is hard | What makes it correct |
|---|---|---|---|---|
| GPU batch generation | pending list, wavefront, ring of bitmaps and sizes, owner map, per-net pick/scan/status | pick, commit, check, stamp, release; end of round, open batch, retune | warps of a launch in any order, the size race, joins to old batches, recycled slots | conflict-free batches in priority order, first fit, bounded, every net placed, ends |
| CPU batch generation and wrapper | batches and occupancy maps; the GPU result | first fit; replay, reject, compact, fall back | partial results, exceptions half-way | every net once, whichever path ran |
| Batch marks | segments and points of a tree | `finalize_rsmt`, `visit_marks`, `mark_3x3` | borders, written three times | the paths mark the same cells |
| Congestion view and rip-up | a map of the overflow for either axis, sums of full edges | flatten all layers, scan, ask about tree edges; count the full edges of a net | layers race for a cell, memory never cleared, differences of sums either way | overflow is seen; the right nets are ripped up |
| Demand and cost refresh | demand, `pre_demand`, via cost, prefix sums, dirty list, flags, timestamps | rip up, update, scan, route, commit | partial refresh in eight mixes of switches, a list that fills up | incremental equals full; demand is what the routes use |
| Block scan | one array in shared memory | load, rounds, barriers | in-place update by all threads | exact prefix sums |
| Parser and net split pipeline | three atomics, `db::nets`, `cudb::nets` | append, init, publish; read flag, read count, split | flag and count read at different times | only finished nets are cut, none is missed |
| Net splitting | groups of pins | join, list, link, emit | links add pins after the limit was tested | the subnets are one tree; bounded excess |
| Access points | points of a pin, pins of a net, extra routes | select by enumeration or distance, merge | points that meet at one place | nothing of the file is left open |
| Route flow and output | subnet routes, countdown per net, queue, file | `finish_nets`, `output_nets`, stages | no lock anywhere | only final routes, every net once |
| RSMT construction | list of high-degree nets, chunk counter, trees | loop, GPU thread, rebuild workers | two paths and a worker pool at once | every tree built once, the same on both paths |
| FLUTE and GPU FLUTE | Hanan grids, solution tables, levels of broken nets | look up, score, break, merge; offsets of the flat levels | the recursion becomes levels; ties of ranks | the same tree, and a Steiner tree |
| Tree center, host and GPU | degrees, peel order; hash table and frontier | leaf peeling; contraction by compare-and-swap, two searches | three ways to a center, tiny trees, places that coincide | a node of the tree, of minimal height |
| Stage 2 DAG | DAG nodes, slots, levels | mirrors, bends, Z shapes, pins; layout of a batch; traceback | regions continued by index, alternatives | no dead end; every pin reached once |
| Stage 1 and 2 dynamic programs | cost and choice per node and layer (range) | bottom-up minimum, traceback | atomic minimum with a separate store of the choice | the written route is the cheapest |
| Evaluator | marks and demand per cell | read, mark, count, search | marks that are never cleared | accepts what the router writes; counts its demand |

## 2. Modules

| Module | Models | State and actions against the code |
|---|---|---|
| `BatchPartition` | the abstract promise of batch generation | nets are placed one at a time, for ever, in order, conflict-free, bounded |
| `BatchGen` | `gpu_batch::generate` and its five kernels | a warp's work on one net is one action (`PickNet`, `CommitNet`, `CheckNet`, `StampNet`, `ReleaseNet`); `Launch` is the barrier between kernels; `EndRound` is the host's end of a round with `open_batch` and the wavefront's retuning |
| `BatchGen_proofs` | the theorems about `BatchGen` | section 5 |
| `FirstFit` | `generate_batches_rsmt_cpu` | one action places one net |
| `GridSize`, `GridMarks` | the grid; `finalize_rsmt`, `visit_marks`, `mark_3x3` | operators over cell numbers `x * Y + y` |
| `GenerateBatches` | `generate_batches_rsmt` | extends `FirstFit`; the GPU result is any conflict-free placement, complete or not; an exception may come at any step of the hand-over |
| `CostRefresh` | `graph.hpp` over batches of both stages | rip-up, `update_cost`, `compute_presum`, `finish_cost_refresh`, routing, `batch_wire_update`, `commit_via_demand`; each wire, via and track is an action of its own, in any order. A cost is the demand it was computed from, so that stale means different |
| `CostRefresh_proofs` | the theorems about `CostRefresh` | section 5 |
| `PrefixScan` | the scan in `compute_presum` | loads, stores and barriers of the threads of a block; `width` is the distance `1 << d` of a round; an instance of it runs in `RouteNet` |
| `CongestionView` | `extract_congestionView`, its scans, `markCongestion`; the kernels of `ripup` | the threads of the first kernel read and write one at a time, every later kernel is a step in the order of the stream; `dir` is what the host asks about a tree edge; runs before the root is selected in `GenerateDetours` |
| `Ascending`, `Ascending_proofs` | the indexes that pass the test of a loop, in order, and what such a list is | used by `CostRefresh`, `RsmtBuild` and `NetSplit` |
| `GenerateBatches_proofs` | the theorems about `GenerateBatches` and about the marks | section 5 |
| `NetPipeline` | `db::read` and `build_nets_from_parse` | each atomic load and store is an action |
| `RouteFlow` | `route()`, `finish_nets`, `output_nets`, the writers | extends `NetPipeline`: main() from first line read to last line written |
| `RouteFlow_proofs` | the theorems about `RouteFlow` | section 5 |
| `NetSplit` | the Kruskal sweeps that break one net | join, list, link, emit |
| `NetSplit_proofs` | the theorems about `NetSplit` | section 5 |
| `NetInit` | `db::net::init` | operators: the selected points, the pins made of them, the extra routes |
| `HostTree` | `gpu_flute_tree_to_graph`, second half of `my_flute` | operators: contraction of branches at one place, Kruskal |
| `Flute` | `flute.hpp` | operators over the tables `POWV` and `POST`: look-up, scores, breaking, merging, as recursive functions of the degree |
| `GpuFlute` | `solve_high_degree` | one action per step of the host: Hanan grids, estimate, break, look-up, merge, over the flat arrays of the levels |
| `RsmtBuild` | RSMT construction of Stage 1, `construct_rsmt_gpu` | loop iterations, chunks, joins; the addition to `TOT_RSMT_LENGTH` is a load and a store |
| `RsmtBuild_proofs` | the theorems about `RsmtBuild` | section 5 |
| `RsmtTrees` | both with their trees | extends `RsmtBuild` and `GpuFlute`: the device runs beside the loop, the rebuild makes the host's graph and the validation compares |
| `TreeCenter` | `rsmt_tree_center_peel`, `rsmt_bfs_dist` | one action takes one node off the queue; the oracle is an operator |
| `GpuCenter` | `tree_center_kernel` | the hash table one compare-and-swap at a time, the phases between barriers as steps, blocks in any order over global arrays |
| `BatchLayout` | the flat arrays of a batch, Stage 1 and Stage 2 | operators: packing by running sums, and reading back |
| `DetourDag` | `net::generate_detours`, `get_routing_tree_cuda` | one action is one call of `dfs_detours`, one a launch of the traceback |
| `GenerateDetours` | `generate_detours` from the branches on | the congestion view, kernel, host tree, peeling, choice among three root policies, then the DAG of `DetourDag` through the layout of `BatchLayout` |
| `Summation` | what a loop adds up | a recursive function, used by `RouteGrid`, `StageOne` and `NetInit` |
| `RouteGrid` | the costs both stages read | operators |
| `StageOne` | `Lshape_route_cuda` with its traceback | one action per node of the tree |
| `DagRoute` | `Lshape_route_node_cuda`, `get_routing_tree_cuda` with layers | extends `DetourDag`: one action per level; a store of the choice may come late |
| `Evaluator` | `run/evaluator.cpp` | one action per line read and per net judged |
| `RouteNet` | one net from its access points to the verdict | `NetInit`, `PrefixScan`, `StageOne`, `DagRoute` and `Evaluator` one after the other |
| `RouteNet_proofs` | the theorems about `RouteNet`: the scan and Stage 1 | section 5 |

The `MC*` modules give the constants their values.

Abstractions worth knowing:

- A net is its index in the order of priority. Footprints are sets of cells, in the runs computed
  by `GridMarks` from real tree edges.
- In `BatchGen` lanes of one warp are not interleaved: within a kernel they do commuting atomics
  or touch cells of their own net. Warps are interleaved freely.
- In `CostRefresh` costs are not numbers, and wires and vias of a route are any of a small set.
  Each cell's via cost is a copy of the demands it depends on.
- In `DetourDag` layers and costs are gone: every alternative may be the cheapest. Which edges are
  congested is any choice (`CongestionView` is how they are found); the regions that follow from
  it are computed as in the code; the displacement budget of `get_mirror_places` is any interval. `DagRoute` adds layers and costs and
  implements it (`ImplementsDetourDag`).
- In `DagRoute` the atomic minimum of a child's cost and the store of the child's index are apart:
  at most one entry of a level comes out with the index of another alternative.
- In `GpuFlute` a kernel is a step. Its threads write to slices of their own; that the slices tile
  each level is part of `TreesMatchFlute`.
- Scores, lengths and costs are exact. The scores of CPU FLUTE are doubles and those of GPU FLUTE
  floats; which way a near-tie goes is not modelled.
- In `NetPipeline` release/acquire atomics order the plain writes, so interleaving whole steps is
  enough. In `RouteFlow` no state is protected, and any overlap would show. `Enqueue` takes the
  nets in the order of their numbers, one step for each, as the loop of `route()` does.

## 3. Runs

| Run | Bounds | Shows |
|---|---|---|
| `batch_gen` | 6 nets of 4 shapes on a 4 by 4 grid, ring of 2, batches of 2, wavefront 1 to 3 | types, conflict freedom, no overtaking, first fit among the open batches, size bound, progress in every round, array bounds, a complete result, the inductive invariant, refinement of `BatchPartition`, termination |
| `generate_batches` | 3 nets of 4 shapes on a 3 by 4 grid, batches of 2, every edge of the grid | every net once on every path through the fallback; the CPU path refines `BatchPartition`; both paths mark the same cells |
| `cost_refresh` | 2 nets, 2 crossing tracks of 4 cells, 4 routes, list of 3 slots, both stages, 8 mixes of switches | incremental costs equal a full rebuild (`CostsFresh`); commits and rip-ups cancel and the scratch demand is clean (`DemandMatchesRoutes`) |
| `cost_refresh_drift` | the same with a via on another net's wire | violation: demand below zero (section 6) |
| `route_flow` | 1 to 3 nets of 0 to 2 subnets, any set of overflowing subnets | pipeline, output and stages together: nothing lost, one user of queue and file, only final routes, every net once, ends |
| `net_split` | `MAX_PIN_SIZE` 2, 4 to 8 pins | subnets form a tree; excess at most logarithmic |
| `rsmt_build` | 2 + 2 threads, chunks of 2, up to 5 nets; table up to 5 pins, Thrust's sort above 9; every order of 4 and 5 pins for several gaps, nets of 6 to 11 pins | each tree built once, on both paths the tree of `flute.hpp` branch by branch (two pins in either order), and a Steiner tree over the pins, the shortest up to four pins |
| `rsmt_build_total` | one thread on either path, 3 nets | violation: a length is lost between the two paths |
| `tree_center_oracle` | every labelled tree of 2 to 5 nodes | violation: the oracle misses node 0 |
| `detour_dag` | every labelled tree of 2 to 6 nodes; kernels of up to six branches, with coinciding places and two trees in a launch; DAGs of 2 and 3 nodes with all placements on a 3 by 2 grid, all pins and congestion marks, all mirror intervals; for the view 2 layers with up to two edges full or overflowing, one cell of a map not clean, 4 nets, `OF_COUNT` 1 | whatever the race of the layers leaves, overflow is found and the right nets are ripped up; peeling finds a center; the kernel contracts what the host contracts and returns a node of the tree; whatever root is chosen the DAG is sound in the arrays of a batch, and its traceback is a tree that fits its array |
| `gpu_center` | lines of 2 to 5 pins | violation: the kernel's center is not the middle |
| `route_net` | 5 nets of 2 to 4 nodes on a 3 by 2 grid of 3 layers, 3 cost maps, pins on metal 0 to 3, tracks of 2 to 7 cells for the scan | exact prefix sums, both dynamic programs optimal, the evaluator accepts and counts the demand of the router, the layered program implements `DetourDag` |

Why the bounds are enough to be interesting:

- `batch_gen`: with two open batches of two nets and six nets, batches are retired and their slots
  recycled twice; three warps in flight give the size race; two nets that cross in one order only
  tell priority from arrival. A wavefront that ignored its cap would need four nets left after a
  round of two, hence six.
- `cost_refresh`: tracks of four cells have a first, a last and two inner cells, which via demand
  treats differently; three slots fill up in some batches only. The via of the fourth route stands on
  the wire of the first, so that one edge is not `Uncrossed`; without that condition
  `DemandMatchesRoutes` is violated there.
- `route_flow`: nets with no, one and two subnets are the three ways through `finish_nets`. Bound
  names are `MaxNets` and `MaxParts`; the theorems do not depend on them.
- `rsmt_build`: nets are broken at one level and at two, with pins in line and with ties; five nets
  and chunks of two leave a short last chunk. The tables are the first groups of the real `POWV`
  and `POST` files. Threads are symmetric.
- `detour_dag`: three nodes are the least for a region that begins, continues and is left; three
  columns give mirrors on either side and a Z shape. For the view two layers over one another are
  enough to lose a maximum, and one cell that is not clean to hide or invent congestion; wires are
  written in both directions, and the last net runs over every edge and back, so that for every full
  edge some net is near the limit. The marks of a tree of two nodes then come from the maps; larger
  trees get any marks. Bound names are `X`, `Y`, `MaxNodes`, `MaxDeviceBranches`, `MaxViewBranches`,
  `MaxDagNodes`.
- `route_net`: three layers give both directions and a choice between two layers of one; among the
  nets are an L, a straight edge, a path through a bend, a fork with a Steiner node, and a net of
  five pins whose access points are chosen by distance. Bound name of the scan is `MaxN`; `Inf`, the
  `INF` of the kernels, is above every cost of the instance, as the code means it to be.

Deadlock is not checked, because the programs end.

Every property of a passing run has a mutant: a plausible wrong version of one mapped definition,
written before it in the module and marked `mutant`, under which the run fails.

**Fairness.** `BatchGen` and `GenerateBatches` assume weak fairness of the next-state relation:
the host waits for its kernels and the GPU runs what is launched. `RouteFlow` assumes weak
fairness of each thread, which an operating system gives. Nothing else assumes fairness, and no
liveness is claimed elsewhere.

## 4. What is checked where it may go wrong

`PROJECT.json` (`hazards`) lists the places of the source that are hard to test with the properties
that cover them. One has none: the upper end of the mirrors at `database_cuda.hpp:1343`, which the
code tests at the place it leaves and not at the one it moves to. `DetourDag` takes any interval, so
nothing but cost depends on it.

Observations that are neither a bug nor a property:

- `generate()` counts rounds that place nothing and gives up after four. `EveryRoundPlaces`, checked
  and proved, says that no round ever does: the best pending net always owns its points, and if it
  loses the race for the last place another net has won it. The comment at 411-414 is more careful
  than needed.
- The comment at `database_cuda.hpp:463-465` says that a batch of the GPU "can come out empty when
  the round that opened it lost every candidate to a net in another batch". It cannot:
  `gpu_batch_gen.hpp:426` opens a batch only when the newest one has a net, so at most the newest is
  empty, and line 441 does not count it. `ResultComplete`, checked and proved, says that no batch below
  `batch_count` is empty; the comment is contradicted, and the compaction at 466-471 drops nothing.
  It is harmless, and `GenerateBatches`, which takes any placement, checks it on empty batches too.
- The congestion maps are allocated (`database_cuda.hpp:1810-1812`) and never cleared before the
  maximum is taken with what they hold. Memory that is not zero would look congested where it is
  positive; where it is negative it would hide overflow elsewhere in a sum. `CongestionIsSeen`
  (a half of `OverflowIsFound`) is about maps that hold nothing negative.
- `ripup` counts the edges whose demand has come up to their capacity, the view those whose
  demand is above it. A net may be ripped up without any congestion for its DAG to avoid.
- `batches.clear()` before the CPU fallback is redundant: the fallback overwrites the vector.
- A net's subnets may have more than `MAX_PIN_SIZE` pins; the excess is logarithmic in the number
  of groups.
- On overflow of the dirty list the track flags are still set, and the prefix sums are rebuilt
  everywhere anyway.
- Nets with more than `kThrustSortDegree` pins are sorted by Thrust, whose stable order of ties is
  not that of the selection sort of `flute.hpp`. Tree and length may then differ from the CPU's,
  though the tree is still a Steiner tree (`RsmtIsSteinerTree` covers these nets, `TreesMatchFlute`
  does not). The comment at `gpu_flute.hpp:516` only asks for a legal permutation.
- The demand the router keeps leaves out the extra routes between access points at one place;
  the evaluator counts them. `DemandAgrees` allows exactly that difference, and overlapping stacks
  of one net.
- `Net::init` would take the number of points for a point if a pin of a small net had none. The
  reader begins a pin with its first point, so this does not happen.
- The slots of a batch fit `parent_cnt_estimate` because no slot is a dead end: each has a link.
- Tree nodes have room for six children at `Lshape_route_detour.hpp:319`; `RsmtIsSteinerTree` checks
  that no node of a built tree has more neighbours than that.

## 5. Theorems

Batch generation, for all nets, grids, footprints, ring sizes, batch sizes and wavefronts allowed by
`SizesAssumption` and `FootprintAssumption`:

| Theorem | States |
|---|---|
| `KernelInvariance` | the inductive part about wavefront, picks, owner map and stamped bitmaps |
| `TypeCorrect` | `TypeOK` |
| `BatchesAreConflictFree` | `ConflictFree` |
| `NeverOvertaken` | `NoOvertaking` |
| `Invariance` | all of `IInv` |
| `BatchesAreBounded` | `BatchSizeBound` |
| `NeverStalls` | `EveryRoundPlaces` |
| `BuffersSuffice` | `WavefrontFitsBuffers` |
| `FirstFitIsKept` | `FirstFitAmongOpen` |
| `ResultIsComplete` | `ResultComplete` |
| `PartitionRefined` | the kernels implement the safety part of `BatchPartition` |

`ConflictFree` is not inductive. Two nets may join one batch rounds apart, and two may join in the
same round with neither in the bitmap when the other was tested. The argument:

1. `WavefrontIsPrefix`: the nets in flight are the best pending ones, so a net out of flight and
   unplaced is worse than every net in flight.
2. `PicksAreFree`: until the bitmaps are written, what a net picked is open and leaves its points
   free; so a net that is placed meets no member of an earlier round.
3. `OwnersAreBest`: during `check` every cell belongs to a net no worse than any in flight that
   marks it. A net that owns all its points is therefore not covered by a better net in flight,
   placed in this round or not. That gives both `ConflictFree` within the round and
   `NoOvertaking`: a placed net is never covered by a better one that is still waiting.
4. `NoOvertaking` is what makes late joins safe: the better net that joins the batch of a worse
   one later leaves the worse one's points alone.
5. `MarksAreStamped` and `StatusAgrees` carry the members of one round over into the bitmaps of
   the next, and `TypeOK` bounds the ring, so that two open batches never share a slot.

The second half of `BatchGen_proofs` adds what the counters and scans mean. A size slot holds the number of members
of its batch as far as they have been counted, plus the increments of nets that came too late. The
increment past the bound is not undone: the slot may pass `cap`, and the members are the smaller of
the two (`CountsAgree`). Whatever a scan has passed stays closed or occupied for that net, so resuming at `scan_from`
skips nothing. In every round the best net of the wavefront owns all its points, or has lost the
last place of its batch to a net of the same round: either way a net is placed. The refinement maps
each commit of a check to one step of `BatchPartition` and every other action to a stutter.

The wrapper and the sequential path, for every number of nets, every set of footprints and every
bound on the batches (`FirstFitAssumption`):

| Theorem | States |
|---|---|
| `WrapInvariance` | the inductive invariant `WrapInv` |
| `EveryNetReturnedOnce` | `EveryNetOnce` |
| `ReplayIsAccepted` | `ReplayAccepts` |
| `CpuPathIsGreedy` | `PlacedInFirstFit`: the sequential path never leaves out an earlier batch that would take a net (no run checks it) |
| `CpuPathImplementsPartition` | `KeepsPartition`: a step of the sequential path is one of `BatchPartition` |

Both paths keep one predicate, `Lists(bs, n)`: the batches hold each net before `n` once, each batch
in ascending order and free of conflicts. `NetAppended` and `BatchAppended` show that the next net
may go to the end of a batch whose nets leave its points alone, or open a batch. The sequential path
adds that each occupancy map is the union of its nets' marks and that a net passed over every
earlier batch for a reason that stays true. The hand-over adds that `Compacted` numbers the batches
that are not empty from 0 on without gap (`CompactedNumbers`, a counting argument), so no batch
stays empty and the nets of two batches of the GPU never mix. Where an exception clears `out`, only
the invariant of the sequential path is needed. The module begins with what concerns one path and ends with the marks.

The marks, for every grid with at least one cell (`GridAssumption`) and every edge on it:

| Theorem | States |
|---|---|
| `MarksAgree` | `PathsAgreeOnMarks`: the three walks over the footprint of an edge test the same cells |

The walks step through cell numbers `x * Y + y`, by 1 along a column and by `Y` along a row; the
marks are cells on the grid. `CellParts` and `CellAt` go from one to the other, `HWalkCells` and
`VWalkCells` say what a walk visits, and `CrossIsMark3x3` and `WalksCoverBorder` compare the cells
with those of `mark_3x3` and of the border, at the edges of the grid too, where a number one off
would be a cell of the next column.

Route flow, for every number of nets and subnets and every set of overflowing subnets
(`PipelineAssumption`):

| Theorem | States |
|---|---|
| `FlowInvariance` | the inductive invariant `FlowInv` |
| `CutNetsAreReady` | `SplitsReadyNets` |
| `QueueHasOneUser` | `OneUser` |
| `RoutesWrittenAreFinal` | `WrittenIsFinal` |
| `DeliveryInvariance` | the invariant `DeliveryInv`, inductive where `FlowInv` holds |
| `EveryNetIsWritten` | `EveryNetWritten` |
| `ListedInvariance` | the invariants `Listed` and `Counted`, inductive where `FlowInv` holds |
| `InputIsComplete` | `NothingLost` |

`FlowInv` has five parts. `PipelineInv` orders the counters of the two threads (what is cut is taken,
what is taken is published, what is published is complete) and says what cutting has left in `nets`
and `subnets`. `Turns` says which writer lives in which phase, from which `OneUser` follows.
`Progress` says how far routing has come. `Countdown` is the heart: the count of a net is the number
of its subnets that `finish_nets` has not seen yet, among those listed and those that overflow; so
when it reaches zero during the first countdown, no subnet of the net overflows. `OutputIsFinal`
then carries this to every net in the queue, in the hands of a writer and in the file: no step to
come changes its routes, and the routes seen are those it has.

`DeliveryInv` counts instead of ordering: the consumer's last count is the length of the file, since
the flag it tests was read before the count and set after the last one (`NoneMissed`); a net is
queued, being written or written exactly when nothing of it is left to count, and in one of these
ways only (`Delivered`, `Once`). When the file is closed all counts are zero and the queue is empty.

`Listed` and `Counted` are about the input stage alone: the list of a net ascends and holds every
subnet made of it, subnets come in the order of the file, and the countdown starts at the length of
the list. At the end of the stage every net has been cut, which with `PipelineInv` gives
`NothingLost`.

Costs, for every number and length of tracks, every set of routes and nets, every mix of the switches
and every size of the dirty list (`CostAssumption`):

| Theorem | States |
|---|---|
| `CostInvariance` | the inductive invariant `CostInv` |
| `DpReadsFreshCosts` | `CostsFresh` |
| `CommitClearsScratch` | the scratch half of `DemandMatchesRoutes` |
| `BatchInvariance` | `CostInv`, `ScratchInv` and the invariant `BatchInv`, inductive where those hold |
| `DemandIsConserved` | `DemandMatchesRoutes` |
| `UncrossedNonNegative` | `DemandNonNegative`, provided that every edge is `Uncrossed` |

`CostsFresh` speaks of one moment and the demand moves at many others. `StaleIsRecorded` holds at all
of them: a cell whose via cost is older than the demand is on the dirty list or follows a listed
cell, or the list has overflowed, or the switch is off; and the same for tracks and their flags. Each
change of the demand keeps it because the cells it records are the ones it changes, and the cost of a
cell depends on its own demand and the one before it (`ListedIs`, `Recording`). `FreshSoFar` then
follows the refresh from kernel to kernel. `ScratchInv` says, for each kernel, that a track which is
not flagged has nothing in `pre_demand`; `commit_dirty_tracks` may therefore pass it over.

`DemandMatchesRoutes` too is about the end of a batch only; `BatchInv` says what holds in between.
`PlanInv`: in Stage 1 a waiting net has no route yet, and the items of a kernel belong to the batch.
`PreInv` says what `pre_demand` holds: while nets are traced the difference at a cell is the number
of the batch's wires that start there less those that end there; after the scan it is the number
that pass. `StampInv` says which cells are stamped at each point, so that when the vias come a via
cell is passed over exactly when a wire of the batch covers it. `DemandInv` then counts: the
demand is `DemandOf` the wires and via cells of the nets outside the batch, together with those of
the batch that the rip-up has not reached or the commit has. A wire adds or takes two halves on each of
its edges (`WiresCome`), a via cell one or two, and in the scan the sum of the differences
below a cell is the number of wires over it (`SumsAre`: the first cell where they differ follows one
where they agree).

`Uncrossed` is the condition of the first finding of section 6 turned into a predicate of an edge:
no via that counts there stands on a wire of another route without standing on one of its own. On
such an edge what a commit passes over is what every rip-up passes over, whatever the batches. The
code does not guarantee it, so the theorem is about edges and not about the grid; on a grid where all
edges have it, demand never falls below zero (`UncrossedNonNegative`), which locates the drift.
The nets, and the wires and vias of a route, are finitely many (`CostAssumption`): the code counts
them in arrays, and an infinite set has no demand.

The scan, for every length of a track:

| Theorem | States |
|---|---|
| `ScanInvariance` | the inductive invariant `ScanInv` |
| `ScanIsPrefixSum` | `PrefixSums`, of the scan alone |
| `RouteKeepsPrefixSums` | `PrefixSums`, of the scan inside `RouteNet` |

Before the round with distance `w` element `i` holds the cells from the one before its block of `w`
on (`Span(i, w)`). In the round an element whose bit is set adds the last element of the block below,
whose own bit is clear, so no thread writes what another one reads; `Doubling` says that two blocks
of `w` make one of `2 * w`, also when the last block is cut off by the end of the track.

Stage 1, for every set of trees in preorder, with any access points (`TreesAssumption`), every grid,
every number of layers from two on, both directions, every map of natural costs and every value of
`INF` (`RouteGridAssumption`, `GridAssumption`):

| Theorem | States |
|---|---|
| `StageOneInvariance` | the inductive invariant `Inv`: `NetInv` and `StageInv` |
| `StageOneFindsTheBest` | `StageOneIsOptimal`, provided that the root is traced with a cost below `INF` |

`StageOneIsOptimal` compares one entry of a table, after a pass that looks at one edge at a time,
with the best of all ways to give every edge of the tree its layers and its bend. The proviso is the
kernel's own assertion (`Lshape_route.hpp:122`); at a cost of `INF` the entry says only that no
range covers a pin.

Between the steps the loop over the nodes has folded some of them into their parents. A *plan* for
the first `k` nodes gives each a range of layers and each edge its layers, such that the ranges at
both ends cover the layers (`Fits`); it costs the table entries of its ranges and the costs of its
edges (`PlanCost`). `StageInv` says of the tables and of the node reached that no plan is worth less
than the best assignment unless it costs `INF` (`NoCheaper`), and that some plan is worth no more
(`Attained`).

- At the start (`StartNoCheaper`, `StartAttained`) a table holds the cost of the stack of vias over a
  range, or `INF` where the range leaves out the pin. A fitting range covers the ends of the node's
  edges and its pin, so its stack is no cheaper than the one from the lowest to the highest of them,
  which the assignment pays.
- A step of the loop takes off the last node and adds to its parent's entry the least, over the
  layers of their edge and the ranges of the node, of what they cost (`ParIs`, `CheapestIs`).
  `FoldNoCheaper` extends a plan of the nodes that are left by the choice that was least;
  `FoldAttained` restricts one to them. That the nodes are in preorder, with parents before children,
  is what makes each entry final when it is read.
- When the loop has come to the root, a plan is a range of the root, and the traceback starts at the
  cheapest.

`NetInv` says where the pins are: the layer of a pin is that of the access point selected for it, by
enumeration (`BestIs`; there is a first choice of least rating, `FirstTried`) or by distance
(`NearestIs`). It needs that a pin has a point at all, which the reader's way of beginning a pin with
its first point gives, and that the tree has two nodes, since subnets of one pin are left out
(`database_cuda.hpp:1639`).

The prover has no induction over numbers for formulas like these, so `ByStep` takes it from the least
element of a set of numbers (`LeastOf`), and `LoopRuns` shows from it that the recursive function of
`Summation` is what its equation says. `SummedSplit`, `SummedChange` and their neighbours are the
algebra of sums the rest needs.

Building the trees, for every number of threads on either side, every size of a chunk and every set
of high-degree nets (`BuildAssumption`):

| Theorem | States |
|---|---|
| `BuildInvariance` | the inductive invariant `BuildInv` |
| `EveryTreeOnce` | `EveryTreeBuiltOnce` |

`OwnersOK` says that a net in the hands of a thread was given out, is not built and is in no other
hands; `ProgressOK` that a net given out is in some hands or built, and only once. What is given out
is the set of claimed iterations for the loop, and the list up to the chunk counter for the workers.

Breaking a net, for every limit of at least two pins and every net that is larger
(`SplitAssumption`):

| Theorem | States |
|---|---|
| `SplitInvariance` | the inductive invariant `SplitInv` |
| `SubnetsAreATree` | `SubnetsFormATree` |
| `ExcessIsBounded` | `ExcessIsLogarithmic` |

`JoinOK` is about the first sweep: sizes count pins, and every pair looked at is in one group or
between two that are too large together. From this follows, once all pairs are taken, that of two
groups one has two pins (`LargeOK`), so that the second sweep never emits a list of one. `LinkOK`
is about the second sweep. `CountOK` counts places in lists: a link adds one pin and emits one list.
`ConnectedOK` says that a set of pins which no list cuts in two cuts no group in two; a link keeps
it because the pin it adds is in both lists. `WeightOK` is the doubling: the list that grows is the
smaller one, so when it passes the limit by one more pin, each of the two groups had met `2^k` others
(`TwoHeavy`; `PowersOfTwo` gets the powers from the subsets of an interval, since the prover has no
induction for them). When the second sweep ends every pair is in one group, so one list is left.

Each action has a step that preserves the invariant; the temporal steps are at the ends of the
modules.

Only model-checked:

- all liveness (`Terminates`, `Returns`, `Closes`), which the prover does not reach;
- the trees, the centers and the DAG (`TreesMatchFlute`, `RsmtIsSteinerTree`, `PeelFindsCenter`,
  `KernelAgreesWithHost`, `DagIsSound`, `TracebackIsATree`): their modules use `BatchLayout`, `Flute`,
  `TreeCenter` or `GpuCenter`, whose recursive operators the provers cannot take;
- the congestion view and the rip-up (`OverflowIsFound`), whose module shares the run of those;
- the dynamic program of Stage 2, the evaluator and the demand both count (`StageTwoIsOptimal`,
  `EvaluatorAccepts`, `DemandAgrees`), and that `DagRoute` implements `DetourDag`: nothing in them is
  beyond the provers, but they have no proof. What the traceback of Stage 1 writes is
  checked by the run through the evaluator; the theorem is about the cost it starts from.

## 6. Findings

- **Via demand drifts** (`graph.hpp:680`, run `cost_refresh_drift`). `commit_via_demand` passes over
  cells that a wire of the same batch has stamped. Batch generation lets a net of lower priority
  cross the points of one of higher priority, so such a via exists, and its demand is not added.
  Stage 2 generates other batches; when the net is ripped up without that wire, the demand is taken
  back although it was never added, and the cell ends up below zero.
  `docs/optimizations.md:127` describes the rip-up as removing the demand of the previous route.
- **The center oracle misses node 0** (`database_cuda.hpp:899`, run `tree_center_oracle`). The search
  for the farthest node looks at the start and at the nodes from 1 on. When node 0 is the end of the
  diameter, the radius and the centers of the statistics are wrong. The peeling that routing uses is
  right.
- **The total length is raced for** (`database_cuda.hpp:593` and `552`, run `rsmt_build_total`).
  `TOT_RSMT_LENGTH` is a plain `double` to which both paths add, the loop at 552 and the rebuild of
  the GPU path at 593. The comment at `Lshape_route.hpp:186-190` says that they "write disjoint net
  sets and share only read-only inputs". With one thread on either path the run shows one loading
  the total before the other stores it, and a length is missing after the join. (The threads of one
  path race in the same way.) Only a statistic is affected.
- **The GPU center is not a center** (`gpu_flute.hpp:461`, run `gpu_center`). The walk from the end of
  the diameter to its middle evaluates its bound at the node it has come to, whose distance shrinks
  with every step, and stops after a third of the way. Five pins on a line get a root of depth three
  where two is possible. The comment at 286-287 promises the middle node. The reads of `degree` in
  the loop also leave out the base of the block, so that every tree but the first of a launch
  compares with distances of another. The root is valid all the same and only the depth suffers;
  validation falls back to the old policy.

## 7. Not modelled

- The text of the input and output files; the score of the evaluator, which is arithmetic over what
  `Evaluator` counts; floating-point rounding.
- `get_mirror_places`: any interval stands for it. What it decides is how good a route is, and no
  order or guard depends on it.
- Nets of one batch side by side in the dynamic programs: their tables are disjoint slices, which
  `BatchLayout` covers; what they share, the demand, is the subject of `CostRefresh`.
- Tables of more than five pins: their look-up is the same code with larger tables.
- The hash map `robin_hood.h` (third-party), timing, NVTX and logging, the upstream `baseline/`,
  scripts and figures. Environment switches are initial choices of the modules they belong to.

## 8. What could come next

- `get_mirror_places`, computed from the regions, in place of any interval.
- The sums of `CongestionView`, proved along the lines of `ScanIsPrefixSum`.
