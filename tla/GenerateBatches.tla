---------------------------- MODULE GenerateBatches ----------------------------
(***************************************************************************)
(* generate_batches_rsmt: the GPU path with its checks, and the fallback   *)
(* to the CPU path when the GPU cannot take the job, throws, or leaves a   *)
(* net unplaced.  The host can run out of memory in every step up to the   *)
(* hand-over, and whatever was built by then must not reach the router.    *)
(*                                                                         *)
(* What gpu_batch::generate writes is any conflict-free placement,         *)
(* complete or not and with empty batches or without: the function itself  *)
(* re-counts the nets and drops the batches without any.  (The placements  *)
(* of module BatchGen are complete and have no empty batch.)               *)
(***************************************************************************)
EXTENDS FirstFit

VARIABLES stage,          \* "collect", "generate", "place", "fill", "cpu", "done"
          gpu_result,     \* gpu_batch::Result: batch_of_net and batch_count
          batch_index,    \* batch of the result -> batch handed over, -1 if empty
          at,             \* the loop variable of the hand-over
          out             \* the batches returned

wrapper == <<stage, gpu_result, batch_index, at, out>>
allvars == <<footprint, cpu, wrapper>>

NoResult == [batch_of_net |-> <<>>, batch_count |-> 0]

GpuResults ==
  {r \in [batch_of_net : [Net -> -1 .. NetCnt - 1], batch_count : 0 .. NetCnt] :
     \A a, c \in Net :
       a < c /\ r.batch_of_net[a] = r.batch_of_net[c] /\ r.batch_of_net[a] >= 0
         => footprint[a].marks \cap footprint[c].points = {}}

WrapInit ==
  /\ footprint \in [Net -> Footprints] /\ FirstFitInit
  /\ stage = "collect" /\ gpu_result = NoResult
  /\ batch_index = <<>> /\ at = 0 /\ out = <<>>

\* INSTANTGR_GPU_BATCH_GEN, then collect_batch_marks
CollectMarks ==
  /\ stage = "collect"
  /\ stage' \in {"generate", "cpu"}
  /\ UNCHANGED <<footprint, cpu, gpu_result, batch_index, at, out>>

\* FALSE leaves the result reset; TRUE fills it
Generate ==
  /\ stage = "generate"
  /\ \/ stage' = "cpu" /\ gpu_result' = NoResult
     \/ stage' = "place" /\ gpu_result' \in GpuResults
  /\ UNCHANGED <<footprint, cpu, batch_index, at, out>>

InBatch(b) == {n \in Net : gpu_result.batch_of_net[n] = b}

PlacedCount == Cardinality({n \in Net : gpu_result.batch_of_net[n] \in
                                          0 .. gpu_result.batch_count - 1})

\* mutant: empty batches are kept
IndexWithHoles == [b \in 0 .. gpu_result.batch_count - 1 |-> b]

AllPlaced == PlacedCount = NetCnt

\* batch_index: the batches that are not empty, numbered in order
Compacted ==
  [b \in 0 .. gpu_result.batch_count - 1 |->
     IF InBatch(b) = {} THEN -1
     ELSE Cardinality({lower \in 0 .. b - 1 : InBatch(lower) # {}})]

PlaceBatches ==
  /\ stage = "place"
  /\ IF AllPlaced
     THEN /\ stage' = "fill" /\ batch_index' = Compacted
          /\ out' = [k \in 1 .. Cardinality({b \in DOMAIN batch_index' :
                                               batch_index'[b] >= 0}) |-> <<>>]
     ELSE stage' = "cpu" /\ UNCHANGED <<batch_index, out>>
  /\ UNCHANGED <<footprint, cpu, gpu_result, at>>

\* mutant: nets are put in front
PrependNet ==
  /\ stage = "fill" /\ at < NetCnt
  /\ out' = [out EXCEPT ![batch_index[gpu_result.batch_of_net[at]] + 1] = <<at>> \o @]
  /\ at' = at + 1
  /\ UNCHANGED <<footprint, cpu, stage, gpu_result, batch_index>>

FillNet ==
  /\ stage = "fill" /\ at < NetCnt
  /\ out' = [out EXCEPT ![batch_index[gpu_result.batch_of_net[at]] + 1] = Append(@, at)]
  /\ at' = at + 1
  /\ UNCHANGED <<footprint, cpu, stage, gpu_result, batch_index>>

FillEnds ==
  /\ stage = "fill" /\ at = NetCnt
  /\ stage' = "done"
  /\ UNCHANGED <<footprint, cpu, gpu_result, batch_index, at, out>>

\* mutant: nobody catches it
DieOnThrow ==
  /\ stage \in {"place", "fill"}
  /\ stage' = "dead" /\ out' = <<>>
  /\ UNCHANGED <<footprint, cpu, gpu_result, batch_index, at>>

\* std::bad_alloc while the batches are built: the handler clears them
Throw ==
  /\ stage \in {"place", "fill"}
  /\ stage' = "cpu" /\ out' = <<>>
  /\ UNCHANGED <<footprint, cpu, gpu_result, batch_index, at>>

CpuStep == stage = "cpu" /\ FirstFitStep /\ UNCHANGED <<footprint, wrapper>>

CpuEnds ==
  /\ stage = "cpu" /\ next = NetCnt
  /\ stage' = "done" /\ out' = batches
  /\ UNCHANGED <<footprint, cpu, gpu_result, batch_index, at>>

WrapNext == \/ CollectMarks \/ Generate \/ PlaceBatches \/ FillNet \/ FillEnds
            \/ Throw \/ CpuStep \/ CpuEnds

WrapSpec == WrapInit /\ [][WrapNext]_allvars /\ WF_allvars(WrapNext)
-----------------------------------------------------------------------------
\* Whichever path produced them, the batches hold every net exactly once and none
\* is empty: an unplaced net must not vanish between the two paths, and a throw
\* half-way through the hand-over must not leave nets in twice.
EveryNetOnce ==
  stage = "done" =>
    /\ \A n \in Net : Cardinality({ik \in (DOMAIN out) \X (1 .. NetCnt) :
                         ik[2] \in DOMAIN out[ik[1]] /\ out[ik[1]][ik[2]] = n}) = 1
    /\ \A i \in DOMAIN out : out[i] # <<>>

\* batches_are_conflict_free accepts the result: replayed in the order of each
\* batch, no net finds its points covered by a net before it.
ReplayAccepts ==
  stage = "done" =>
    \A i \in DOMAIN out : \A k \in DOMAIN out[i] :
      footprint[out[i][k]].points \cap
        UNION {footprint[out[i][before]].marks : before \in 1 .. k - 1} = {}

\* The router is never left without batches: every failure ends in the CPU path.
Returns == <>(stage = "done")
=============================================================================
