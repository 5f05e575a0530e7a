------------------------------ MODULE RsmtBuild -------------------------------
(***************************************************************************)
(* The first step of Stage 1: every subnet gets its Steiner tree.  Nets    *)
(* whose degree GPU-FLUTE takes go to construct_rsmt_gpu, on a thread of   *)
(* its own while the others are built by an OpenMP loop, or before the     *)
(* loop when the overlap is off.  What the device returns is rebuilt on    *)
(* the host by workers that claim chunks of the list with fetch_add.       *)
(*                                                                         *)
(* Building a tree, on either path, adds its length to the plain double    *)
(* TOT_RSMT_LENGTH: a load, an addition and a store.  Every length is 1.   *)
(***************************************************************************)
EXTENDS Ascending, FiniteSetsExt, SequencesExt

CONSTANTS
  CpuThreads, GpuThreads,      \* the OpenMP team; the rebuild workers
  CHUNK, MaxNets               \* chunk of a worker; bound on the nets

ASSUME BuildAssumption ==
  /\ CpuThreads \cap GpuThreads = {} /\ IsFiniteSet(CpuThreads \cup GpuThreads)
  /\ CHUNK \in Nat \ {0} /\ MaxNets \in Nat \ {0}

VARIABLES
  high,                        \* net -> gpu_flute_takes_degree of it
  overlap,                     \* flute_overlap_enabled()
  cpu,                         \* the loop: "wait", "run", "done"
  gpu,                         \* construct_rsmt_gpu: "solve", "rebuild", "done"
  joined,                      \* gpu_flute_thread.join() has returned
  claimed,                     \* iterations the OpenMP team has started
  next_chunk,
  todo,                        \* thread -> its iterations, in order
  seen,                        \* thread -> TOT_RSMT_LENGTH as loaded, or None
  built,                       \* net -> times it was built
  TOT_RSMT_LENGTH

vars == <<high, overlap, cpu, gpu, joined, claimed, next_chunk, todo, seen, built,
          TOT_RSMT_LENGTH>>

Thread == CpuThreads \cup GpuThreads
Net    == DOMAIN high
None   == -1

\* gpu_flute_nets, in the order of nets2route
gpu_flute_nets == Ascending({i \in Net : high[i]})

Init ==
  /\ high \in UNION {[1 .. n -> BOOLEAN] : n \in 1 .. MaxNets}
  /\ overlap \in BOOLEAN
  /\ cpu = IF overlap \/ gpu_flute_nets = <<>> THEN "run" ELSE "wait"
  /\ gpu = IF gpu_flute_nets = <<>> THEN "done" ELSE "solve"
  /\ joined = FALSE
  /\ claimed = {} /\ next_chunk = 0
  /\ todo = [t \in Thread |-> <<>>]
  /\ seen = [t \in Thread |-> None]
  /\ built = [i \in Net |-> 0]
  /\ TOT_RSMT_LENGTH = 0
-----------------------------------------------------------------------------
\* An iteration of the parallel loop, given to a thread of the team
StartIteration(t) ==
  /\ cpu = "run" /\ todo[t] = <<>>
  /\ \E i \in Net \ claimed :
       /\ claimed' = claimed \cup {i}
       /\ todo' = [todo EXCEPT ![t] = IF high[i] THEN <<>> ELSE <<i>>]
  /\ UNCHANGED <<high, overlap, cpu, gpu, joined, next_chunk, seen, built, TOT_RSMT_LENGTH>>

\* The barrier at the end of the loop
EndLoop ==
  /\ cpu = "run" /\ claimed = Net /\ \A t \in CpuThreads : todo[t] = <<>>
  /\ cpu' = "done"
  /\ UNCHANGED <<high, overlap, gpu, joined, claimed, next_chunk, todo, seen, built, TOT_RSMT_LENGTH>>

\* gpu_flute::solve_high_degree, on the device
Solve ==
  /\ gpu = "solve"
  /\ gpu' = "rebuild"
  /\ UNCHANGED <<high, overlap, cpu, joined, claimed, next_chunk, todo, seen, built, TOT_RSMT_LENGTH>>

\* mutant: chunks overlap by one
StepShort == CHUNK - 1

ChunkStep == CHUNK

\* next_chunk.fetch_add(CHUNK), for a chunk that is not beyond the list
ClaimChunk(t) ==
  /\ gpu = "rebuild" /\ todo[t] = <<>>
  /\ next_chunk < Len(gpu_flute_nets)
  /\ next_chunk' = next_chunk + ChunkStep
  /\ todo' = [todo EXCEPT ![t] =
                SubSeq(gpu_flute_nets, next_chunk + 1,
                       Min({next_chunk + CHUNK, Len(gpu_flute_nets)}))]
  /\ UNCHANGED <<high, overlap, cpu, gpu, joined, claimed, seen, built, TOT_RSMT_LENGTH>>

\* The workers have left their loops and are joined.
EndRebuild ==
  /\ gpu = "rebuild"
  /\ next_chunk >= Len(gpu_flute_nets) /\ \A t \in GpuThreads : todo[t] = <<>>
  /\ gpu' = "done"
  /\ cpu' = IF cpu = "wait" THEN "run" ELSE cpu
  /\ UNCHANGED <<high, overlap, joined, claimed, next_chunk, todo, seen, built, TOT_RSMT_LENGTH>>

BothEnded == cpu = "done" /\ gpu = "done"

Join ==
  /\ ~joined /\ BothEnded
  /\ joined' = TRUE
  /\ UNCHANGED <<high, overlap, cpu, gpu, claimed, next_chunk, todo, seen, built, TOT_RSMT_LENGTH>>

\* TOT_RSMT_LENGTH += the length of the tree
LoadLength(t) ==
  /\ todo[t] # <<>> /\ seen[t] = None
  /\ seen' = [seen EXCEPT ![t] = TOT_RSMT_LENGTH]
  /\ UNCHANGED <<high, overlap, cpu, gpu, joined, claimed, next_chunk, todo, built, TOT_RSMT_LENGTH>>

StoreLength(t) ==
  /\ todo[t] # <<>> /\ seen[t] # None
  /\ TOT_RSMT_LENGTH' = seen[t] + 1
  /\ seen' = [seen EXCEPT ![t] = None]
  /\ built' = [built EXCEPT ![Head(todo[t])] = @ + 1]
  /\ todo' = [todo EXCEPT ![t] = Tail(@)]
  /\ UNCHANGED <<high, overlap, cpu, gpu, joined, claimed, next_chunk>>

Next ==
  \/ \E t \in CpuThreads : StartIteration(t)
  \/ \E t \in GpuThreads : ClaimChunk(t)
  \/ \E t \in Thread : LoadLength(t) \/ StoreLength(t)
  \/ EndLoop \/ Solve \/ EndRebuild \/ Join

Spec == Init /\ [][Next]_vars
-----------------------------------------------------------------------------
\* "The two paths write disjoint net sets" and "Nets are disjoint": no net is in
\* the hands of two threads, so its tree is written without a lock, and after the
\* join, when batch generation starts, every net has been given one tree, whichever
\* path it took and however the list falls into chunks.
EveryTreeBuiltOnce ==
  /\ \A t, u \in Thread : t # u => ToSet(todo[t]) \cap ToSet(todo[u]) = {}
  /\ joined => \A i \in Net : built[i] = 1

\* The comment at Lshape_route.hpp:186-190 has the two paths "share only read-only
\* inputs", "so the join is the only synchronization needed": once the threads are
\* joined the total length would be the sum of the lengths, with one thread on
\* either path at least.
TotalIsSum == joined => TOT_RSMT_LENGTH = Cardinality(Net)
=============================================================================
