------------------------------ MODULE GpuCenter -------------------------------
(***************************************************************************)
(* tree_center_kernel: one block for each tree that GPU-FLUTE has built.   *)
(* A tree comes as branches, each with its place and the number of its     *)
(* parent; branches at one place are contracted, and two breadth-first     *)
(* searches look for the middle of a diameter.                             *)
(*                                                                         *)
(* The threads of a block race in the hash table that finds equal places,  *)
(* one compare-and-swap at a time; which branch comes to stand for a place *)
(* depends on it.  The phases after it are separated by barriers and what  *)
(* they compute does not depend on the order of their threads, so each is  *)
(* a step.  Blocks run in any order.  All arrays are global, a block's     *)
(* slice of them begins at base.                                           *)
(*                                                                         *)
(* HostTree has the tree that the host builds from the same branches.      *)
(***************************************************************************)
EXTENDS HostTree

CONSTANTS
  Launches,                    \* what the kernel is given: a sequence of trees,
                               \*   branch -> [x, y, n]
  Garbage                      \* what the memory held before

VARIABLES
  trees,                       \* the launch
  pc,                          \* block -> its phase
  slot,                        \* branch -> the slot it probes next
  hash,                        \* block -> slot -> branch, or None
  canonical,                   \* branch -> the branch that stands for its place
  degree,                      \* branch -> degree, then distance
  alive,                       \* branch -> its parent in the second search
  frontier,                    \* block -> current_queue
  bfs_start,                   \* block -> where its search begins
  centers                      \* block -> the place chosen, or NoCenter

deviceVars == <<trees, pc, slot, hash, canonical, degree, alive, frontier, bfs_start, centers>>

None == -1
NoCenter == <<-1, -1>>

Block == DOMAIN trees
branch_count(b) == Cardinality(DOMAIN trees[b])
base(b) == FoldLeft(LAMBDA n, c : n + branch_count(c), 0, [c \in 1 .. b - 1 |-> c])
Slice(b) == base(b) .. base(b) + branch_count(b) - 1
hash_count(b) == 2 * branch_count(b)
PlaceOf(b, a) == Place(trees[b], a - base(b))

\* Any function of the place would do; this one lets places collide.
tree_center_hash(place) == place[1] + place[2]

DeviceInit ==
  /\ trees \in Launches
  /\ pc = [b \in Block |-> "start"]
  /\ hash = [b \in Block |-> [k \in 0 .. hash_count(b) - 1 |-> None]]
  /\ slot = [a \in UNION {Slice(b) : b \in Block} |-> 0]
  /\ canonical = [a \in DOMAIN slot |-> None]
  /\ degree \in {[a \in DOMAIN slot |-> g] : g \in Garbage}
  /\ alive = [a \in DOMAIN slot |-> None]
  /\ frontier = [b \in Block |-> {}]
  /\ bfs_start = [b \in Block |-> None]
  /\ centers = [b \in Block |-> NoCenter]
-----------------------------------------------------------------------------
Begin(b) ==
  /\ pc[b] = "start"
  /\ pc' = [pc EXCEPT ![b] = "dedup"]
  /\ degree' = [a \in DOMAIN degree |-> IF a \in Slice(b) THEN 0 ELSE degree[a]]
  /\ slot' = [a \in DOMAIN slot |->
                IF a \in Slice(b) THEN tree_center_hash(PlaceOf(b, a)) % hash_count(b) ELSE slot[a]]
  /\ UNCHANGED <<trees, hash, canonical, alive, frontier, bfs_start, centers>>

\* One atomicCAS of the thread that looks after branch a
Probe(b, a) ==
  /\ pc[b] = "dedup" /\ canonical[a] = None
  /\ LET prior == hash[b][slot[a]] IN
       \/ /\ prior = None
          /\ hash' = [hash EXCEPT ![b][slot[a]] = a]
          /\ canonical' = [canonical EXCEPT ![a] = a]
          /\ UNCHANGED slot
       \/ /\ prior # None /\ PlaceOf(b, prior) = PlaceOf(b, a)
          /\ canonical' = [canonical EXCEPT ![a] = prior]
          /\ UNCHANGED <<hash, slot>>
       \/ /\ prior # None /\ PlaceOf(b, prior) # PlaceOf(b, a)
          /\ slot' = [slot EXCEPT ![a] = (@ + 1) % hash_count(b)]
          /\ UNCHANGED <<hash, canonical>>
  /\ UNCHANGED <<trees, pc, degree, alive, frontier, bfs_start, centers>>

Representatives(b) == {a \in Slice(b) : canonical[a] = a}

\* <<u, v>> of each branch that joins two places
Links(b) ==
  LET Ends(i) == <<canonical[base(b) + i], canonical[base(b) + trees[b][i].n]>>
  IN  {<<i, Ends(i)>> : i \in {j \in DOMAIN trees[b] : Ends(j)[1] # Ends(j)[2]}}

Adjacent(b, u) == {v \in Representatives(b) : \E e \in Links(b) : e[2] \in {<<u, v>>, <<v, u>>}}

CountDegrees(b) ==
  /\ pc[b] = "dedup" /\ \A a \in Slice(b) : canonical[a] # None
  /\ pc' = [pc EXCEPT ![b] = "contract"]
  /\ degree' = [a \in DOMAIN degree |->
                  IF a \in Slice(b) THEN Cardinality({e \in Links(b) : a \in ToSet(e[2])})
                  ELSE degree[a]]
  /\ UNCHANGED <<trees, slot, hash, canonical, alive, frontier, bfs_start, centers>>

\* mutant: a graph with one edge too many passes for a tree
AtMostOneCycle(b) ==
  LET node_count == Cardinality(Representatives(b)) IN
  MapThenSumSet(LAMBDA a : degree[a], Representatives(b)) <= 2 * node_count

is_contracted_tree(b) ==
  MapThenSumSet(LAMBDA a : degree[a], Representatives(b))
    = 2 * (Cardinality(Representatives(b)) - 1)

\* The distances of block b before a search from start
Cleared(b, start) ==
  [a \in DOMAIN degree |->
     IF a \notin Representatives(b) THEN degree[a] ELSE IF a = start THEN 0 ELSE -1]

Contract(b) ==
  /\ pc[b] = "contract"
  /\ IF is_contracted_tree(b)
     THEN LET start == Min(Representatives(b)) IN
          /\ bfs_start' = [bfs_start EXCEPT ![b] = start]
          /\ degree' = Cleared(b, start)
          /\ frontier' = [frontier EXCEPT ![b] = {start}]
          /\ pc' = [pc EXCEPT ![b] = "away"]
     ELSE /\ pc' = [pc EXCEPT ![b] = "done"]
          /\ UNCHANGED <<bfs_start, degree, frontier>>
  /\ UNCHANGED <<trees, slot, hash, canonical, alive, centers>>

\* One round of either search; the second keeps the parents.
SearchLevel(b) ==
  /\ pc[b] \in {"away", "back"} /\ frontier[b] # {}
  /\ LET found == {v \in Representatives(b) :
                     degree[v] = -1 /\ Adjacent(b, v) \cap frontier[b] # {}}
         from(v) == CHOOSE u \in frontier[b] : u \in Adjacent(b, v)
     IN  /\ degree' = [a \in DOMAIN degree |->
                         IF a \in found THEN degree[from(a)] + 1 ELSE degree[a]]
         /\ frontier' = [frontier EXCEPT ![b] = found]
         /\ alive' = [a \in DOMAIN alive |->
                        IF pc[b] = "back" /\ a \in found THEN from(a) ELSE alive[a]]
  /\ UNCHANGED <<trees, pc, slot, hash, canonical, bfs_start, centers>>

\* The first search has ended: the second begins at the farthest node.
TurnBack(b) ==
  /\ pc[b] = "away" /\ frontier[b] = {}
  /\ LET most == Max({degree[a] : a \in Representatives(b)})
         start == Min({a \in Representatives(b) : degree[a] = most})
     IN  /\ bfs_start' = [bfs_start EXCEPT ![b] = start]
         /\ degree' = Cleared(b, start)
         /\ alive' = [a \in DOMAIN alive |-> IF a = start THEN start ELSE alive[a]]
         /\ frontier' = [frontier EXCEPT ![b] = {start}]
  /\ pc' = [pc EXCEPT ![b] = "back"]
  /\ UNCHANGED <<trees, slot, hash, canonical, centers>>

\* The other end of the diameter; endpoint counts from the block's base, but
\* degree[endpoint] from the beginning of the array.
FarEnd(b) ==
  FoldLeft(LAMBDA endpoint, i :
             IF base(b) + i \in Representatives(b) /\ degree[base(b) + i] > degree[endpoint]
             THEN i ELSE endpoint,
           bfs_start[b] - base(b), [i \in 1 .. branch_count(b) |-> i - 1])

\* The walk towards the middle: its condition is evaluated at the node it is at.
RECURSIVE Walked(_, _, _)
Walked(b, endpoint, step) ==
  IF step < degree[endpoint] \div 2
  THEN Walked(b, alive[base(b) + endpoint] - base(b), step + 1) ELSE endpoint

Middle(b) ==
  /\ pc[b] = "back" /\ frontier[b] = {}
  /\ centers' = [centers EXCEPT ![b] = Place(trees[b], Walked(b, FarEnd(b), 0))]
  /\ pc' = [pc EXCEPT ![b] = "done"]
  /\ UNCHANGED <<trees, slot, hash, canonical, degree, alive, frontier, bfs_start>>

DeviceNext ==
  \E b \in Block :
    \/ Begin(b) \/ CountDegrees(b) \/ Contract(b) \/ SearchLevel(b) \/ TurnBack(b) \/ Middle(b)
    \/ \E a \in Slice(b) : Probe(b, a)

DeviceSpec == DeviceInit /\ [][DeviceNext]_deviceVars
-----------------------------------------------------------------------------
\* "equal-coordinate FLUTE branches are contracted exactly as
\* gpu_flute_tree_to_graph() does on the host": whatever the order of the
\* compare-and-swaps and of the blocks, one branch stands for each place, the
\* graph searched has the edges of the host's tree, and the place returned is a
\* node of it, which construct_rsmt_gpu asserts; no center is returned only where
\* contraction closes a cycle, where the host leaves out an edge.
KernelAgreesWithHost ==
  \A b \in Block :
    LET host == HostGraph(trees[b])
        node(a) == NodeAt(trees[b], PlaceOf(b, a))
        cyclic == 2 * Cardinality(Links(b)) # MapThenSumSet(LAMBDA v : Cardinality(host[v]), DOMAIN host)
    IN  /\ pc[b] = "contract" =>
             \A a, c \in Slice(b) : canonical[a] = canonical[c] <=> PlaceOf(b, a) = PlaceOf(b, c)
        /\ pc[b] = "done" => (cyclic <=> centers[b] = NoCenter)
        /\ pc[b] = "done" /\ centers[b] # NoCenter =>
             /\ centers[b] \in HostNodes(trees[b])
             /\ \A u \in Representatives(b) : {node(v) : v \in Adjacent(b, u)} = host[node(u)]

\* The comment on the kernel: the middle node of a diameter "minimizes the maximum
\* RSMT edge-hop depth", so no other node of the tree is closer to its farthest.
CenterMinimizesDepth ==
  \A b \in Block :
    pc[b] = "done" /\ centers[b] # NoCenter =>
      LET host == HostGraph(trees[b])
          Depth(v) == Max(Range(HopsFrom(host, v)))
      IN  \A v \in DOMAIN host : Depth(NodeAt(trees[b], centers[b])) <= Depth(v)
=============================================================================
