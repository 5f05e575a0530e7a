------------------------------- MODULE FirstFit -------------------------------
(***************************************************************************)
(* Sequential batch generation on the CPU: generate_batches_rsmt_cpu.      *)
(* The nets are placed in priority order, each in the first batch that has *)
(* room and whose occupancy map leaves the net's points free, or in a new  *)
(* one.  One step places one net.                                          *)
(***************************************************************************)
EXTENDS Integers, Sequences, FiniteSets

CONSTANTS NetCnt,         \* number of nets
          Footprints,     \* the possible nets: records of points and marks
          MAX_BATCH_SIZE

ASSUME FirstFitAssumption == NetCnt \in Nat /\ MAX_BATCH_SIZE \in Nat \ {0}

Net == 0 .. NetCnt - 1

VARIABLES footprint,      \* the nets in the caller's order; never changes
          batches,        \* the nets of every batch
          batch_vis,      \* the occupancy map of every batch
          next            \* the net the loop handles

cpu == <<batches, batch_vis, next>>

FirstFitInit == batches = <<>> /\ batch_vis = <<>> /\ next = 0

\* batches the loop over i may stop at
Candidates(n) ==
  {i \in DOMAIN batches : /\ Len(batches[i]) < MAX_BATCH_SIZE
                          /\ footprint[n].points \cap batch_vis[i] = {}}

\* mutant: the first batch whose map fits, however full
IgnoreSize(n) ==
  LET free == {i \in DOMAIN batches : footprint[n].points \cap batch_vis[i] = {}}
  IN  IF free = {} THEN Len(batches) + 1 ELSE CHOOSE i \in free : \A j \in free : i <= j

\* the batch for net n; one past the last when it needs a new one
BatchFor(n) ==
  IF Candidates(n) = {} THEN Len(batches) + 1
  ELSE CHOOSE i \in Candidates(n) : \A j \in Candidates(n) : i <= j

FirstFitStep ==
  LET i     == BatchFor(next)
      fresh == i = Len(batches) + 1
      marks == footprint[next].marks
  IN  /\ next < NetCnt
      /\ batches' = IF fresh THEN Append(batches, <<next>>)
                             ELSE [batches EXCEPT ![i] = Append(@, next)]
      /\ batch_vis' = IF fresh THEN Append(batch_vis, marks)
                               ELSE [batch_vis EXCEPT ![i] = @ \cup marks]
      /\ next' = next + 1

-----------------------------------------------------------------------------
Elems(s) == {s[k] : k \in DOMAIN s}

\* Greedy: no placed net would have fitted an earlier batch, neither when it was
\* placed nor with that batch as it is now.
PlacedInFirstFit ==
  \A i, j \in DOMAIN batches : \A n \in Elems(batches[j]) :
    i < j => \/ Cardinality({m \in Elems(batches[i]) : m < n}) >= MAX_BATCH_SIZE
             \/ \E m \in Elems(batches[i]) :
                  m < n /\ footprint[m].marks \cap footprint[n].points # {}

BatchOf(n) ==
  IF n >= next THEN -1 ELSE (CHOOSE i \in DOMAIN batches : n \in Elems(batches[i])) - 1

\* The sequential path keeps the same promise as the GPU: one net at a time, for
\* ever in one batch, in order, conflict-free and bounded.
Partition == INSTANCE BatchPartition WITH Cap <- MAX_BATCH_SIZE,
                                          batch_of_net <- [n \in Net |-> BatchOf(n)]
KeepsPartition == Partition!Init /\ [][Partition!Next]_<<footprint, cpu>>
=============================================================================
