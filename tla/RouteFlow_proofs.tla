--------------------------- MODULE RouteFlow_proofs ----------------------------
(***************************************************************************)
(* Proofs about RouteFlow: the consumer cuts finished nets only and misses *)
(* none, the queue and the output file have one user, what is written is   *)
(* final, and the closed file holds every net once with all of its         *)
(* subnets, for every number of nets and of subnets and every set of       *)
(* overflowing ones.                                                       *)
(***************************************************************************)
EXTENDS RouteFlow, FiniteSetTheorems, SequenceTheorems, WellFoundedInduction, TLAPS

(* The input stage: what the two threads have published and taken over.       *)

PipelineTypes ==
  /\ Len(parts) \in Nat \ {0} /\ parts \in [FileNets -> Nat]
  /\ ppc \in {"cap", "append", "failed", "init", "publish", "finish", "join", "built"}
  /\ cpc \in {"cap", "flag", "count", "test", "split", "done"}
  /\ db_cap_parsed \in BOOLEAN
  /\ db_nets \in Seq({"named", "ready"}) /\ db_parsed_net_count \in Nat
  /\ available \in Nat /\ consumed \in Nat /\ db_net_id \in Nat
  /\ nets \in Seq(Nat)
  /\ subnets \in [FileNets -> Seq(Nat)] /\ unfinished \in [FileNets -> Int]

\* entries below db_parsed_net_count are complete, the one being read is the next
Published ==
  /\ Len(db_nets) <= Len(parts) /\ db_parsed_net_count <= Len(db_nets)
  /\ \A i \in 1 .. db_parsed_net_count : db_nets[i] = "ready"
  /\ ppc \in {"cap", "append"} => /\ Len(db_nets) = db_parsed_net_count
                                  /\ Len(db_nets) < Len(parts)
  /\ ppc \in {"init", "publish"} => Len(db_nets) = db_parsed_net_count + 1
  /\ ppc = "publish" => db_nets[Len(db_nets)] = "ready"
  /\ db_cap_parsed => grid = "read"

\* what the consumer has seen and done
Taken ==
  /\ cpc # "cap" => cuda_grid = "read"
  /\ available <= db_parsed_net_count
  /\ consumed <= db_net_id /\ db_net_id <= available
  /\ cpc # "split" => db_net_id = consumed

\* the subnets of the nets cut so far
Cut ==
  /\ \A i \in FileNets : Len(subnets[i]) = IF i <= db_net_id THEN parts[i] ELSE 0
  /\ \A i \in FileNets : \A k \in 1 .. Len(subnets[i]) :
       subnets[i][k] \in 1 .. Len(nets) /\ nets[subnets[i][k]] = i
  /\ \A s \in 1 .. Len(nets) : nets[s] \in 1 .. db_net_id /\ parts[nets[s]] > 0

PipelineInv == PipelineTypes /\ Published /\ Taken /\ Cut

(* The stages.                                                                *)

Phase == {"input", "enqueue", "stage1", "ripup", "finish_rest", "stage2",
          "finish_of", "output", "closed"}

\* main() and the writers take turns
Turns ==
  /\ mpc \in Phase
  /\ mpc # "input" => ppc = "built"
  /\ ppc = "built" => cpc = "done"
  /\ writer \in [Thread -> {"none", "test", "write", "ended"}]
  /\ mpc \in {"input", "enqueue"} => writer["writer1"] = "none"
  /\ mpc \in Phase \ {"input", "enqueue", "stage1"} => writer["writer1"] = "ended"
  /\ mpc \in Phase \ {"stage2", "finish_of", "output", "closed"}
     => writer["writer2"] = "none"
  /\ mpc \in {"finish_of", "output", "closed"} => writer["writer2"] = "ended"
  /\ mpc \notin {"output", "closed"} => writer["main"] = "none"
  /\ mpc = "closed" => writer["main"] = "ended"

\* how far the subnets have been routed
Progress ==
  /\ mpc # "input" => routes \in [Subnet -> {0, 1, 2, Moving}]
  /\ of_nets \subseteq Subnet
  /\ mpc \in {"ripup", "finish_rest"} => \A s \in Subnet : routes[s] = 1
  /\ mpc = "stage2" => \A s \in Subnet \ of_nets : routes[s] = 1
  /\ mpc \in {"finish_of", "output", "closed"} => \A s \in Subnet : routes[s] > 0

\* the subnets that still count against their net
Uncounted ==
  CASE mpc = "finish_rest" -> unlisted \cup of_nets
    [] mpc = "stage2" -> of_nets
    [] mpc = "finish_of" -> unlisted
    [] mpc \in {"output", "closed"} -> {}
    [] OTHER -> Subnet

Countdown ==
  /\ mpc = "enqueue" => unlisted \subseteq FileNets
  /\ mpc \in {"finish_rest", "finish_of"} => unlisted \subseteq Subnet
  /\ mpc = "finish_rest" => unlisted \cap of_nets = {}
  /\ \A i \in FileNets : unfinished[i] = Cardinality({s \in Uncounted : nets[s] = i})

\* no step to come changes a route of net i
Final(i) ==
  /\ i \in FileNets /\ mpc # "input"
  /\ \A k \in 1 .. Len(subnets[i]) :
       /\ mpc \in {"finish_rest", "stage2", "finish_of", "output", "closed"}
       /\ mpc \in {"finish_rest", "stage2"} => subnets[i][k] \notin of_nets

\* the routes seen so far are those of net i
Seen(i, seen) ==
  /\ seen \in Seq(Int) /\ Len(seen) <= Len(subnets[i])
  /\ \A k \in 1 .. Len(seen) : seen[k] = routes[subnets[i][k]]

OutputIsFinal ==
  /\ nets2output \in Seq(Nat) /\ out_file \in Seq(Nat \X Seq(Int))
  /\ front \in [Thread -> Nat] /\ written \in [Thread -> Seq(Int)]
  /\ \A q \in 1 .. Len(nets2output) : Final(nets2output[q])
  /\ \A t \in Thread : writer[t] = "write" => Final(front[t]) /\ Seen(front[t], written[t])
  /\ \A k \in 1 .. Len(out_file) :
       Final(out_file[k][1]) /\ Seen(out_file[k][1], out_file[k][2])

FlowInv == PipelineInv /\ Turns /\ Progress /\ Countdown /\ OutputIsFinal
-----------------------------------------------------------------------------
LEMMA MinIsElement ==
  ASSUME NEW S \in SUBSET Nat, S # {}
  PROVE  Min(S) \in S
<1>1. IsWellFoundedOn(OpToRel(<, Nat), Nat)
  BY NatLessThanWellFounded
<1>2. PICK x \in S : \A y \in S : ~ (<<y, x>> \in OpToRel(<, Nat))
  BY <1>1, WFMin
<1>3. \A y \in S : ~ (y < x)
  BY <1>2 DEF OpToRel
<1>4. \A y \in S : x <= y
  BY <1>3
<1> QED BY <1>4 DEF Min

LEMMA BlockIsASeq ==
  ASSUME NEW n \in Nat, NEW m \in Nat
  PROVE  /\ [k \in 1 .. n |-> m + k] \in Seq(Nat) /\ Len([k \in 1 .. n |-> m + k]) = n
         /\ [k \in 1 .. n |-> m] \in Seq(Nat) /\ Len([k \in 1 .. n |-> m]) = n
  OBVIOUS

LEMMA SubsetIsFinite ==
  ASSUME NEW n \in Nat, NEW S \in SUBSET (1 .. n)
  PROVE  IsFiniteSet(S)
<1>1. IsFiniteSet(1 .. n)
  BY FS_Interval
<1> QED BY <1>1, FS_Subset

LEMMA InitFlow == Init => FlowInv
<1> SUFFICES ASSUME Init PROVE FlowInv
  OBVIOUS
<1>1. PICK n \in 1 .. MaxNets : parts \in [1 .. n -> 0 .. MaxParts]
  BY DEF Init, PipelineInit
<1>2. n \in Nat \ {0} /\ Len(parts) = n /\ FileNets = 1 .. n
  BY <1>1, PipelineAssumption DEF FileNets
<1>3. parts \in [FileNets -> Nat]
  BY <1>1, <1>2, PipelineAssumption
<1>4. subnets \in [FileNets -> Seq(Nat)] /\ \A i \in FileNets : Len(subnets[i]) = 0
  BY DEF Init, PipelineInit
<1>5. Len(db_nets) = 0 /\ Len(nets) = 0 /\ db_nets \in Seq({"named", "ready"})
      /\ nets \in Seq(Nat) /\ Subnet = {}
  BY DEF Init, PipelineInit, Subnet
<1>6. PipelineInv
  <2>1. /\ ppc = "cap" /\ cpc = "cap" /\ db_cap_parsed = FALSE
        /\ db_parsed_net_count = 0 /\ available = 0 /\ consumed = 0 /\ db_net_id = 0
        /\ unfinished \in [FileNets -> Int]
    BY DEF Init, PipelineInit
  <2>2. PipelineTypes
    BY <1>2, <1>3, <1>4, <1>5, <2>1 DEF PipelineTypes
  <2>3. Published /\ Taken
    BY <1>2, <1>5, <2>1 DEF Published, Taken
  <2>4. Cut
    BY <1>2, <1>4, <1>5, <2>1 DEF Cut
  <2> QED BY <2>2, <2>3, <2>4 DEF PipelineInv
<1>7. Turns /\ Progress
  BY DEF Init, PipelineInit, Turns, Progress, Phase, Thread
<1>8. Countdown
  <2>1. \A i \in FileNets : unfinished[i] = 0 /\ {s \in Uncounted : nets[s] = i} = {}
    BY <1>5 DEF Init, PipelineInit, Uncounted
  <2> QED BY <2>1, FS_EmptySet DEF Countdown, Init
<1>9. OutputIsFinal
  BY DEF Init, OutputIsFinal, Thread
<1> QED BY <1>6, <1>7, <1>8, <1>9 DEF FlowInv

-----------------------------------------------------------------------------
(* The input stage. Only main() in route() ends it.                           *)

LEMMA ParserPreserves ==
  ASSUME PipelineInv, Parser
  PROVE  PipelineInv'
<1>1. PipelineTypes /\ Published /\ Taken /\ Cut
  BY DEF PipelineInv
<1>2. /\ UNCHANGED <<parts, cpc, parse_done, available, consumed, db_net_id, hpwl_done,
                     cuda_grid, nets, subnets, unfinished>>
      /\ FileNets' = FileNets
  BY DEF Parser, loopVars, splitVars, FileNets
<1>3. Cut'
  BY <1>1, <1>2 DEF Cut
<1>4. \A e \in {"named", "ready"} :
        /\ Append(db_nets, e) \in Seq({"named", "ready"})
        /\ Len(Append(db_nets, e)) = Len(db_nets) + 1
        /\ \A i \in 1 .. Len(db_nets) : Append(db_nets, e)[i] = db_nets[i]
  BY <1>1, AppendProperties DEF PipelineTypes
<1>5. PipelineTypes' /\ Published' /\ db_parsed_net_count <= db_parsed_net_count'
  <2>1. CASE ParseCap
    BY <1>1, <1>2, <2>1 DEF ParseCap, PipelineTypes, Published
  <2>2. CASE OpenFails
    BY <1>1, <1>2, <2>2 DEF OpenFails, PipelineTypes, Published
  <2>3. CASE AppendNet
    BY <1>1, <1>2, <1>4, <2>3 DEF AppendNet, CountAfterAppend, PipelineTypes, Published
  <2>4. CASE InitNet
    <3>1. /\ db_nets' = [db_nets EXCEPT ![Len(db_nets)] = "ready"]
          /\ Len(db_nets) \in 1 .. Len(db_nets)
      BY <1>1, <2>4 DEF InitNet, PipelineTypes, Published
    <3>2. /\ db_nets' \in Seq({"named", "ready"}) /\ Len(db_nets') = Len(db_nets)
          /\ \A i \in 1 .. Len(db_nets) :
               db_nets'[i] = IF i = Len(db_nets) THEN "ready" ELSE db_nets[i]
      BY <1>1, <3>1, ExceptSeq DEF PipelineTypes
    <3> QED BY <1>1, <1>2, <2>4, <3>2 DEF InitNet, PipelineTypes, Published
  <2>5. CASE PublishNet
    BY <1>1, <1>2, <2>5 DEF PublishNet, PipelineTypes, Published
  <2>6. CASE FinishParse
    BY <1>1, <1>2, <2>6 DEF FinishParse, PipelineTypes, Published
  <2>7. CASE Join
    BY <1>1, <1>2, <2>7 DEF Join, PipelineTypes, Published
  <2> QED BY <2>1, <2>2, <2>3, <2>4, <2>5, <2>6, <2>7 DEF Parser
<1>6. Taken'
  BY <1>1, <1>2, <1>5 DEF Taken, PipelineTypes
<1> QED BY <1>3, <1>5, <1>6 DEF PipelineInv

(* Cutting a net appends its subnets to nets and lists them at the net.        *)
(* The subnets of the next net go to the end of the list.                     *)
LEMMA SplitAppends ==
  ASSUME PipelineInv, SplitNet, UNCHANGED <<parts, parserVars>>
  PROVE  LET c    == db_net_id + 1
             size == parts[c]
         IN
         /\ c \in FileNets /\ c \in Nat /\ c <= available /\ size \in Nat
         /\ cpc = "split" /\ db_net_id' = c /\ FileNets' = FileNets
         /\ UNCHANGED <<parts, cpc, parse_done, available, consumed, hpwl_done, cuda_grid,
                        ppc, grid, db_nets, db_cap_parsed, db_parsed_net_count,
                        db_parse_finished>>
         /\ nets' \in Seq(Nat) /\ Len(nets') = Len(nets) + size
         /\ \A s \in 1 .. Len(nets') : nets'[s] = IF s <= Len(nets) THEN nets[s] ELSE c
         /\ subnets' \in [FileNets -> Seq(Nat)]
         /\ Len(subnets'[c]) = size /\ \A k \in 1 .. size : subnets'[c][k] = Len(nets) + k
         /\ \A i \in FileNets : i # c => subnets'[i] = subnets[i]
         /\ unfinished' \in [FileNets -> Int] /\ unfinished'[c] = size
         /\ \A i \in FileNets : i # c => unfinished'[i] = unfinished[i]
<1> DEFINE c     == db_net_id + 1
           size  == parts[c]
           block == [k \in 1 .. Parts(c) |-> c]
<1>1. PipelineTypes /\ Published /\ Taken /\ Cut
  BY DEF PipelineInv
<1>2. /\ cpc = "split" /\ db_net_id < available
      /\ nets' = nets \o block
      /\ subnets' = [subnets EXCEPT ![c] = [k \in 1 .. Parts(c) |-> Len(nets) + k]]
      /\ unfinished' = [unfinished EXCEPT ![c] = Parts(c)]
      /\ db_net_id' = c
      /\ UNCHANGED <<parts, cpc, parse_done, available, consumed, hpwl_done, cuda_grid, ppc,
                     grid, db_nets, db_cap_parsed, db_parsed_net_count, db_parse_finished>>
      /\ FileNets' = FileNets
  BY DEF SplitNet, parserVars, FileNets
<1>3. c \in FileNets /\ db_nets[c] = "ready" /\ c \in Nat /\ c <= available
  BY <1>1, <1>2 DEF PipelineTypes, Published, Taken, FileNets
<1>4. Parts(c) = size /\ size \in Nat
  BY <1>1, <1>3 DEF Parts, PipelineTypes
<1>5. block \in Seq(Nat) /\ Len(block) = size /\ \A k \in 1 .. size : block[k] = c
  BY <1>3, <1>4, BlockIsASeq
<1>6. /\ nets' \in Seq(Nat) /\ Len(nets') = Len(nets) + size
      /\ \A s \in 1 .. Len(nets') : nets'[s] = IF s <= Len(nets) THEN nets[s] ELSE c
  <2>1. nets \in Seq(Nat) /\ Len(nets) \in Nat
    BY <1>1 DEF PipelineTypes
  <2> HIDE DEF block, size
  <2>2. /\ nets' \in Seq(Nat) /\ Len(nets') = Len(nets) + size
        /\ \A s \in 1 .. Len(nets) + size :
             nets'[s] = IF s <= Len(nets) THEN nets[s] ELSE block[s - Len(nets)]
    BY <1>2, <1>5, <2>1, ConcatProperties
  <2>3. ASSUME NEW s \in 1 .. Len(nets'), ~ (s <= Len(nets))
        PROVE  nets'[s] = c
    <3>1. s - Len(nets) \in 1 .. size /\ s \in 1 .. Len(nets) + size
      BY <1>4, <2>1, <2>2, <2>3
    <3> QED BY <1>5, <2>2, <2>3, <3>1
  <2> QED BY <2>2, <2>3
<1>7. /\ subnets' \in [FileNets -> Seq(Nat)]
      /\ Len(subnets'[c]) = size /\ \A k \in 1 .. size : subnets'[c][k] = Len(nets) + k
      /\ \A i \in FileNets : i # c => subnets'[i] = subnets[i]
  <2>1. [k \in 1 .. size |-> Len(nets) + k] \in Seq(Nat)
        /\ Len([k \in 1 .. size |-> Len(nets) + k]) = size
    BY <1>1, <1>4, BlockIsASeq, LenProperties DEF PipelineTypes
  <2> QED BY <1>1, <1>2, <1>3, <1>4, <2>1 DEF PipelineTypes
<1>8. unfinished' \in [FileNets -> Int] /\ unfinished'[c] = size
      /\ \A i \in FileNets : i # c => unfinished'[i] = unfinished[i]
  BY <1>1, <1>2, <1>3, <1>4 DEF PipelineTypes
<1> HIDE DEF block, size
<1> QED BY <1>2, <1>3, <1>4, <1>6, <1>7, <1>8 DEF size

LEMMA SplitPreserves ==
  ASSUME PipelineInv, SplitNet, UNCHANGED <<parts, parserVars>>
  PROVE  /\ PipelineInv' /\ Subnet \subseteq Subnet'
         /\ (\A i \in FileNets : unfinished[i] = Cardinality({s \in Subnet : nets[s] = i}))
            => \A i \in FileNets' :
                 unfinished'[i] = Cardinality({s \in Subnet' : nets'[s] = i})
<1> DEFINE c    == db_net_id + 1
           size == parts[c]
<1>1. PipelineTypes /\ Published /\ Taken /\ Cut
  BY DEF PipelineInv
<1>2. /\ c \in FileNets /\ c \in Nat /\ c <= available /\ size \in Nat
      /\ cpc = "split" /\ db_net_id' = c /\ FileNets' = FileNets
      /\ UNCHANGED <<parts, cpc, parse_done, available, consumed, hpwl_done, cuda_grid,
                     ppc, grid, db_nets, db_cap_parsed, db_parsed_net_count,
                     db_parse_finished>>
  BY SplitAppends
<1>3. /\ nets' \in Seq(Nat) /\ Len(nets') = Len(nets) + size
      /\ \A s \in 1 .. Len(nets') : nets'[s] = IF s <= Len(nets) THEN nets[s] ELSE c
  BY SplitAppends
<1>4. /\ subnets' \in [FileNets -> Seq(Nat)]
      /\ Len(subnets'[c]) = size /\ \A k \in 1 .. size : subnets'[c][k] = Len(nets) + k
      /\ \A i \in FileNets : i # c => subnets'[i] = subnets[i]
  BY SplitAppends
<1>5. /\ unfinished' \in [FileNets -> Int] /\ unfinished'[c] = size
      /\ \A i \in FileNets : i # c => unfinished'[i] = unfinished[i]
  BY SplitAppends
<1> HIDE DEF size
<1>6. Len(nets) \in Nat /\ Subnet = 1 .. Len(nets) /\ Subnet' = 1 .. Len(nets')
  BY <1>1, <1>3 DEF PipelineTypes, Subnet
<1>7. PipelineTypes' /\ Published' /\ Taken'
  BY <1>1, <1>2, <1>3, <1>4, <1>5 DEF PipelineTypes, Published, Taken
<1>8. Cut'
  <2>1. \A i \in FileNets : Len(subnets'[i]) = IF i <= c THEN parts[i] ELSE 0
    BY <1>1, <1>2, <1>4 DEF Cut, FileNets, size, PipelineTypes
  <2>2. \A i \in FileNets : \A k \in 1 .. Len(subnets'[i]) :
          subnets'[i][k] \in 1 .. Len(nets') /\ nets'[subnets'[i][k]] = i
    <3>1. SUFFICES ASSUME NEW i \in FileNets, NEW k \in 1 .. Len(subnets'[i])
                   PROVE  subnets'[i][k] \in 1 .. Len(nets') /\ nets'[subnets'[i][k]] = i
      OBVIOUS
    <3>2. CASE i = c
      <4>1. k \in 1 .. size /\ subnets'[i][k] = Len(nets) + k
        BY <1>4, <3>2
      <4>2. Len(nets) + k \in 1 .. Len(nets') /\ ~ (Len(nets) + k <= Len(nets))
        BY <1>2, <1>3, <1>6, <4>1
      <4> QED BY <1>3, <3>2, <4>1, <4>2
    <3>3. CASE i # c
      <4>1. subnets'[i][k] = subnets[i][k] /\ subnets[i][k] \in 1 .. Len(nets)
            /\ nets[subnets[i][k]] = i
        BY <1>1, <1>4, <3>3 DEF Cut
      <4>2. subnets[i][k] \in 1 .. Len(nets') /\ subnets[i][k] <= Len(nets)
        BY <1>2, <1>3, <1>6, <4>1
      <4> QED BY <1>3, <4>1, <4>2
    <3> QED BY <3>2, <3>3
  <2>3. \A s \in 1 .. Len(nets') : nets'[s] \in 1 .. c /\ parts[nets'[s]] > 0
    <3>1. SUFFICES ASSUME NEW s \in 1 .. Len(nets')
                   PROVE  nets'[s] \in 1 .. c /\ parts[nets'[s]] > 0
      OBVIOUS
    <3>2. CASE s <= Len(nets)
      <4>1. s \in 1 .. Len(nets)
        BY <1>2, <1>3, <1>6, <3>2
      <4>2. nets[s] \in 1 .. db_net_id /\ db_net_id \in Nat /\ parts[nets[s]] > 0
        BY <1>1, <4>1 DEF Cut, PipelineTypes
      <4> QED BY <1>3, <3>2, <4>2
    <3>3. CASE ~ (s <= Len(nets))
      <4>1. nets'[s] = c /\ c \in 1 .. c
        BY <1>1, <1>3, <3>3 DEF PipelineTypes
      <4>2. size > 0
        BY <1>2, <1>3, <1>6, <3>3
      <4> QED BY <4>1, <4>2 DEF size
    <3> QED BY <3>2, <3>3
  <2> QED BY <1>2, <2>1, <2>2, <2>3 DEF Cut
<1>9. Subnet \subseteq Subnet'
  BY <1>2, <1>3, <1>6
<1>10. ASSUME \A i \in FileNets : unfinished[i] = Cardinality({s \in Subnet : nets[s] = i}),
              NEW i \in FileNets
       PROVE  unfinished'[i] = Cardinality({s \in Subnet' : nets'[s] = i})
  <2>1. CASE i = c
    <3>1. {s \in Subnet' : nets'[s] = i} = Len(nets) + 1 .. Len(nets) + size
      <4>1. ASSUME NEW s \in 1 .. Len(nets'), s <= Len(nets) PROVE nets'[s] # c
        <5>1. s \in 1 .. Len(nets)
          BY <1>2, <1>3, <1>6, <4>1
        <5>2. nets[s] \in 1 .. db_net_id /\ db_net_id \in Nat
          BY <1>1, <5>1 DEF Cut, PipelineTypes
        <5> QED BY <1>3, <4>1, <5>2
      <4>2. \A s \in 1 .. Len(nets') : nets'[s] = c <=> ~ (s <= Len(nets))
        BY <1>3, <4>1
      <4>3. \A s : s \in Len(nets) + 1 .. Len(nets) + size
                    <=> s \in 1 .. Len(nets') /\ ~ (s <= Len(nets))
        BY <1>2, <1>3, <1>6
      <4> QED BY <1>6, <2>1, <4>2, <4>3
    <3>2. Cardinality(Len(nets) + 1 .. Len(nets) + size) = size
      BY <1>2, <1>6, FS_Interval
    <3> QED BY <1>5, <2>1, <3>1, <3>2
  <2>2. CASE i # c
    <3>1. {s \in Subnet' : nets'[s] = i} = {s \in Subnet : nets[s] = i}
      BY <1>2, <1>3, <1>6, <2>2
    <3> QED BY <1>5, <1>10, <2>2, <3>1
  <2> QED BY <2>1, <2>2
<1> QED BY <1>2, <1>7, <1>8, <1>9, <1>10 DEF PipelineInv

LEMMA ConsumerPreserves ==
  ASSUME PipelineInv, Consumer
  PROVE  /\ PipelineInv' /\ Subnet \subseteq Subnet'
         /\ (\A i \in FileNets : unfinished[i] = Cardinality({s \in Subnet : nets[s] = i}))
            => \A i \in FileNets' :
                 unfinished'[i] = Cardinality({s \in Subnet' : nets'[s] = i})
<1>1. UNCHANGED <<parts, parserVars>>
  BY DEF Consumer
<1>2. CASE SplitNet
  BY <1>1, <1>2, SplitPreserves
<1>3. CASE AwaitCap \/ ReadFlag \/ ReadCount \/ Test \/ CalcHpwl
  <2>1. UNCHANGED <<parts, ppc, grid, db_nets, db_cap_parsed, db_parsed_net_count,
                    db_parse_finished, nets, subnets, unfinished>>
    BY <1>1, <1>3 DEF parserVars, splitVars, AwaitCap, ReadFlag, ReadCount, Test, CalcHpwl
  <2>2. FileNets' = FileNets /\ Subnet' = Subnet
    BY <2>1 DEF FileNets, Subnet
  <2>3. PipelineTypes /\ Published /\ Taken /\ Cut
    BY DEF PipelineInv
  <2>4. Published'
    BY <2>1, <2>3 DEF Published
  <2>5. PipelineTypes' /\ Taken' /\ db_net_id' = IF Test THEN consumed ELSE db_net_id
    <3>1. CASE AwaitCap
      BY <2>1, <2>2, <2>3, <3>1 DEF AwaitCap, Test, PipelineTypes, Taken, Published
    <3>2. CASE ReadFlag
      BY <2>1, <2>2, <2>3, <3>2 DEF ReadFlag, Test, PipelineTypes, Taken, splitVars
    <3>3. CASE ReadCount
      BY <2>1, <2>2, <2>3, <3>3 DEF ReadCount, Test, PipelineTypes, Taken, splitVars
    <3>4. CASE Test
      BY <2>1, <2>2, <2>3, <3>4 DEF Test, PipelineTypes, Taken, splitVars
    <3>5. CASE CalcHpwl
      BY <2>1, <2>2, <2>3, <3>5 DEF CalcHpwl, Test, PipelineTypes, Taken, splitVars
    <3> QED BY <1>3, <3>1, <3>2, <3>3, <3>4, <3>5
  <2>6. db_net_id' = db_net_id
    BY <2>3, <2>5 DEF Test, Taken
  <2>7. Cut'
    BY <2>1, <2>2, <2>3, <2>6 DEF Cut
  <2> QED BY <2>1, <2>2, <2>4, <2>5, <2>7 DEF PipelineInv
<1> QED BY <1>2, <1>3 DEF Consumer

(* The input stage leaves the other conjuncts alone: route() has not begun.   *)
LEMMA PipelineStep ==
  ASSUME FlowInv, PipelineNext, UNCHANGED routeVars
  PROVE  FlowInv'
<1>1. PipelineInv /\ Turns /\ Progress /\ Countdown /\ OutputIsFinal
  BY DEF FlowInv
<1>2. UNCHANGED <<mpc, unlisted, of_nets, routes, nets2output, writer, front, written,
                  out_file>>
  BY DEF routeVars, stageVars, outputVars
<1>3. mpc = "input" /\ ppc # "built"
  BY <1>1 DEF PipelineNext, Parser, Consumer, ParseCap, OpenFails, AppendNet, InitNet,
     PublishNet, FinishParse, Join, AwaitCap, ReadFlag, ReadCount, Test, SplitNet, CalcHpwl,
     Turns
<1>4. /\ PipelineInv' /\ Subnet \subseteq Subnet'
      /\ (\A i \in FileNets : unfinished[i] = Cardinality({s \in Subnet : nets[s] = i}))
         => \A i \in FileNets' :
              unfinished'[i] = Cardinality({s \in Subnet' : nets'[s] = i})
  <2>1. CASE Parser
    <3>1. UNCHANGED <<parts, nets, subnets, unfinished>>
      BY <2>1 DEF Parser, splitVars
    <3>2. FileNets' = FileNets /\ Subnet' = Subnet
      BY <3>1 DEF FileNets, Subnet
    <3>3. PipelineInv'
      BY <1>1, <2>1, ParserPreserves
    <3> QED BY <3>1, <3>2, <3>3
  <2>2. CASE Consumer
    BY <1>1, <2>2, ConsumerPreserves
  <2> QED BY <2>1, <2>2 DEF PipelineNext
<1>5. ppc' = "built" => cpc' = "done"
  BY <1>1, <1>3 DEF PipelineNext, Parser, Consumer, ParseCap, OpenFails, AppendNet, InitNet,
     PublishNet, FinishParse, Join, parserVars, loopVars
<1>6. Turns'
  BY <1>1, <1>2, <1>3, <1>5 DEF Turns
<1>7. Progress'
  BY <1>1, <1>2, <1>3, <1>4 DEF Progress
<1>8. Countdown'
  BY <1>1, <1>2, <1>3, <1>4 DEF Countdown, Uncounted
<1>9. OutputIsFinal'
  BY <1>1, <1>2, <1>3 DEF OutputIsFinal, Final, Turns
<1> QED BY <1>4, <1>6, <1>7, <1>8, <1>9 DEF FlowInv

-----------------------------------------------------------------------------
(* route(): the subnets are fixed.                                            *)

LEMMA InputIsFixed ==
  ASSUME PipelineInv, UNCHANGED inputVars, unfinished' \in [FileNets -> Int]
  PROVE  /\ PipelineInv'
         /\ UNCHANGED <<parts, ppc, cpc, nets, subnets>>
         /\ FileNets' = FileNets /\ Subnet' = Subnet
<1>1. /\ UNCHANGED <<parts, ppc, grid, db_nets, db_cap_parsed, db_parsed_net_count,
                     db_parse_finished, cpc, parse_done, available, consumed, db_net_id,
                     hpwl_done, cuda_grid, nets, subnets>>
      /\ FileNets' = FileNets /\ Subnet' = Subnet
  BY DEF inputVars, parserVars, loopVars, splitVars, FileNets, Subnet
<1>2. PipelineTypes'
  BY <1>1 DEF PipelineInv, PipelineTypes
<1>3. Published' /\ Taken' /\ Cut'
  BY <1>1 DEF PipelineInv, Published, Taken, Cut
<1> QED BY <1>1, <1>2, <1>3 DEF PipelineInv

(* A step that writes nothing keeps what is written final.                    *)
LEMMA OutputKept ==
  ASSUME OutputIsFinal, UNCHANGED <<subnets, nets2output, front, written, out_file>>,
         \A t \in Thread : writer'[t] = "write" => writer[t] = "write",
         \A i : Final(i) => Final(i)',
         \A i : Final(i) => \A k \in 1 .. Len(subnets[i]) :
                              routes'[subnets[i][k]] = routes[subnets[i][k]]
  PROVE  OutputIsFinal'
<1>1. ASSUME NEW i, NEW seen, Final(i), Seen(i, seen)
      PROVE  Final(i)' /\ Seen(i, seen)'
  <2>1. Seen(i, seen)'
    <3>1. \A k \in 1 .. Len(seen) : k \in 1 .. Len(subnets[i])
      BY <1>1 DEF Seen
    <3> QED BY <1>1, <3>1 DEF Seen
  <2> QED BY <1>1, <2>1
<1>2. \A q \in 1 .. Len(nets2output) : Final(nets2output[q])'
  BY DEF OutputIsFinal
<1>3. \A t \in Thread :
        writer'[t] = "write" => Final(front[t])' /\ Seen(front[t], written[t])'
  BY <1>1 DEF OutputIsFinal
<1>4. \A k \in 1 .. Len(out_file) :
        Final(out_file[k][1])' /\ Seen(out_file[k][1], out_file[k][2])'
  BY <1>1 DEF OutputIsFinal
<1> QED BY <1>2, <1>3, <1>4 DEF OutputIsFinal

LEMMA WriterStep ==
  ASSUME FlowInv, NEW t \in Thread, Writer(t)
  PROVE  FlowInv'
<1>1. PipelineInv /\ Turns /\ Progress /\ Countdown /\ OutputIsFinal
  BY DEF FlowInv
<1>2. /\ output_nets(t)
      /\ UNCHANGED <<inputVars, unfinished, mpc, unlisted, of_nets, routes>>
  BY DEF Writer, output_nets, TakeNet, WriteSubnet, EndNet, stageVars
<1>3. /\ PipelineInv' /\ UNCHANGED <<parts, ppc, cpc, nets, subnets>>
      /\ FileNets' = FileNets /\ Subnet' = Subnet
  BY <1>1, <1>2, InputIsFixed DEF PipelineInv, PipelineTypes
<1>4. writer[t] \in {"test", "write"}
      /\ \E w \in {"test", "write", "ended"} : writer' = [writer EXCEPT ![t] = w]
  <2>1. writer = [writer EXCEPT ![t] = writer[t]]
    BY <1>1 DEF Turns
  <2> QED BY <1>2, <2>1 DEF output_nets, TakeNet, WriteSubnet, EndNet, EndsWriter
<1>5. Turns'
  BY <1>1, <1>2, <1>3, <1>4 DEF Turns, Thread, Phase
<1>6. Progress' /\ Countdown'
  BY <1>1, <1>2, <1>3 DEF Progress, Countdown, Uncounted
<1>7. \A i : Final(i)' <=> Final(i)
  BY <1>2, <1>3 DEF Final
<1>8. \A i, seen : Seen(i, seen)' <=> Seen(i, seen)
  BY <1>2, <1>3 DEF Seen
<1>9. /\ nets2output \in Seq(Nat) /\ out_file \in Seq(Nat \X Seq(Int))
      /\ front \in [Thread -> Nat] /\ written \in [Thread -> Seq(Int)]
      /\ \A q \in 1 .. Len(nets2output) : Final(nets2output[q])
      /\ \A u \in Thread :
           writer[u] = "write" => Final(front[u]) /\ Seen(front[u], written[u])
      /\ \A k \in 1 .. Len(out_file) :
           Final(out_file[k][1]) /\ Seen(out_file[k][1], out_file[k][2])
  BY <1>1 DEF OutputIsFinal
<1>10. CASE TakeNet(t) /\ nets2output = <<>>
  <2>1. UNCHANGED <<nets2output, front, written, out_file>>
    BY <1>10 DEF TakeNet
  <2>2. \A u \in Thread : writer'[u] = "write" => writer[u] = "write"
    BY <1>1, <1>10 DEF TakeNet, EndsWriter, Turns
  <2>3. OutputIsFinal'
    BY <1>1, <1>2, <1>3, <1>7, <2>1, <2>2, OutputKept
  <2> QED BY <1>3, <1>5, <1>6, <2>3 DEF FlowInv
<1>11. CASE TakeNet(t) /\ nets2output # <<>>
  <2>1. /\ writer' = [writer EXCEPT ![t] = "write"]
        /\ front' = [front EXCEPT ![t] = Head(nets2output)]
        /\ written' = [written EXCEPT ![t] = <<>>]
        /\ nets2output' = Tail(nets2output) /\ out_file' = out_file
    BY <1>11 DEF TakeNet
  <2>2. /\ nets2output' \in Seq(Nat) /\ Len(nets2output') = Len(nets2output) - 1
        /\ \A q \in 1 .. Len(nets2output') : nets2output'[q] = nets2output[q + 1]
        /\ Head(nets2output) \in Nat /\ Head(nets2output) = nets2output[1]
        /\ Len(nets2output) \in Nat \ {0}
    BY <1>9, <1>11, <2>1, HeadTailProperties, EmptySeq
  <2>3. \A q \in 1 .. Len(nets2output') : Final(nets2output'[q])
    <3>1. \A q \in 1 .. Len(nets2output') : q + 1 \in 1 .. Len(nets2output)
      BY <2>2
    <3> QED BY <1>9, <2>2, <3>1
  <2>4. Final(Head(nets2output))
    BY <1>9, <2>2
  <2>5. Head(nets2output) \in FileNets /\ subnets[Head(nets2output)] \in Seq(Nat)
    BY <1>1, <2>4 DEF Final, PipelineInv, PipelineTypes
  <2>6. Seen(Head(nets2output), <<>>)
    BY <2>5, LenProperties DEF Seen
  <2>7. \A u \in Thread :
          writer'[u] = "write" => Final(front'[u]) /\ Seen(front'[u], written'[u])
    <3>1. ASSUME NEW u \in Thread, writer'[u] = "write"
          PROVE  Final(front'[u]) /\ Seen(front'[u], written'[u])
      <4>1. CASE u = t
        BY <1>9, <2>1, <2>4, <2>6, <4>1
      <4>2. CASE u # t
        <5>1. writer[u] = "write" /\ front'[u] = front[u] /\ written'[u] = written[u]
          BY <1>1, <1>9, <2>1, <3>1, <4>2 DEF Turns
        <5> QED BY <1>9, <5>1
      <4> QED BY <4>1, <4>2
    <3> QED BY <3>1
  <2>8. front' \in [Thread -> Nat] /\ written' \in [Thread -> Seq(Int)]
    BY <1>9, <2>1, <2>2
  <2>9. OutputIsFinal'
    BY <1>7, <1>8, <1>9, <2>1, <2>2, <2>3, <2>7, <2>8 DEF OutputIsFinal
  <2> QED BY <1>3, <1>5, <1>6, <2>9 DEF FlowInv
<1>12. CASE WriteSubnet(t)
  <2> DEFINE i == front[t]
             k == Len(written[t]) + 1
             r == routes[subnets[i][k]]
  <2>1. /\ writer[t] = "write" /\ Len(written[t]) < Len(subnets[i])
        /\ written' = [written EXCEPT ![t] = Append(written[t], r)]
        /\ UNCHANGED <<nets2output, writer, front, out_file>>
    BY <1>12 DEF WriteSubnet
  <2>2. Final(i) /\ Seen(i, written[t]) /\ written[t] \in Seq(Int)
    BY <1>9, <2>1
  <2>3. Len(written[t]) \in Nat /\ k \in 1 .. Len(subnets[i]) /\ i \in FileNets
    <3>1. i \in FileNets /\ subnets[i] \in Seq(Nat)
      BY <1>1, <2>2 DEF Final, PipelineInv, PipelineTypes
    <3> QED BY <2>1, <2>2, <3>1, LenProperties
  <2>4. r \in Int
    <3>1. subnets[i][k] \in Subnet
      BY <1>1, <2>3, LenProperties DEF PipelineInv, PipelineTypes, Cut, Subnet
    <3>2. routes \in [Subnet -> {0, 1, 2, Moving}]
      BY <1>1, <2>2 DEF Progress, Final
    <3> QED BY <3>1, <3>2 DEF Moving
  <2>5. /\ Append(written[t], r) \in Seq(Int) /\ Len(Append(written[t], r)) = k
        /\ \A m \in 1 .. Len(written[t]) : Append(written[t], r)[m] = written[t][m]
        /\ Append(written[t], r)[k] = r
    BY <2>2, <2>4, AppendProperties
  <2>6. Seen(i, Append(written[t], r))
    BY <2>2, <2>3, <2>5 DEF Seen
  <2>7. written' \in [Thread -> Seq(Int)]
        /\ \A u \in Thread : writer[u] = "write" => Seen(front[u], written'[u])
    BY <1>9, <2>1, <2>5, <2>6
  <2>8. OutputIsFinal'
    BY <1>7, <1>8, <1>9, <2>1, <2>7 DEF OutputIsFinal
  <2> QED BY <1>3, <1>5, <1>6, <2>8 DEF FlowInv
<1>13. CASE EndNet(t)
  <2> DEFINE line == <<front[t], written[t]>>
  <2>1. /\ writer[t] = "write" /\ out_file' = Append(out_file, line)
        /\ writer' = [writer EXCEPT ![t] = "test"]
        /\ UNCHANGED <<nets2output, front, written>>
    BY <1>13 DEF EndNet
  <2>2. line \in Nat \X Seq(Int) /\ line[1] = front[t] /\ line[2] = written[t]
    BY <1>9
  <2> HIDE DEF line
  <2>3. /\ out_file' \in Seq(Nat \X Seq(Int)) /\ Len(out_file') = Len(out_file) + 1
        /\ \A k \in 1 .. Len(out_file) : out_file'[k] = out_file[k]
        /\ out_file'[Len(out_file) + 1] = line /\ Len(out_file) \in Nat
    BY <1>9, <2>1, <2>2, AppendProperties, LenProperties
  <2>4. Final(line[1]) /\ Seen(line[1], line[2])
    BY <1>9, <2>1, <2>2
  <2>5. \A k \in 1 .. Len(out_file') :
          Final(out_file'[k][1]) /\ Seen(out_file'[k][1], out_file'[k][2])
    <3>1. \A k \in 1 .. Len(out_file') : k \in 1 .. Len(out_file) \/ k = Len(out_file) + 1
      BY <2>3
    <3> QED BY <1>9, <2>3, <2>4, <3>1
  <2>6. \A u \in Thread : writer'[u] = "write" => writer[u] = "write"
    BY <1>1, <2>1 DEF Turns
  <2>7. OutputIsFinal'
    BY <1>7, <1>8, <1>9, <2>1, <2>3, <2>5, <2>6 DEF OutputIsFinal
  <2> QED BY <1>3, <1>5, <1>6, <2>7 DEF FlowInv
<1> QED BY <1>2, <1>10, <1>11, <1>12, <1>13 DEF output_nets

(* finish_nets: a net is queued when nothing of it is left to count.          *)
LEMMA FinishStep ==
  ASSUME FlowInv, FinishRest \/ FinishOf, UNCHANGED inputVars
  PROVE  FlowInv'
<1>1. PipelineInv /\ Turns /\ Progress /\ Countdown /\ OutputIsFinal
  BY DEF FlowInv
<1>2. PICK s \in unlisted : FinishNet(s) /\ mpc \in {"finish_rest", "finish_of"}
                            /\ unlisted \subseteq Subnet
  <2>1. CASE FinishRest
    <3>1. unlisted \subseteq Subnet /\ unlisted # {} /\ Subnet \subseteq Nat
      BY <1>1, <2>1, LenProperties
         DEF FinishRest, Countdown, Subnet, PipelineInv, PipelineTypes
    <3>2. Min(unlisted) \in unlisted
      BY <3>1, MinIsElement
    <3> QED BY <2>1, <3>1, <3>2 DEF FinishRest
  <2>2. CASE FinishOf
    BY <1>1, <2>2 DEF FinishOf, Countdown
  <2> QED BY <2>1, <2>2
<1> DEFINE i == nets[s]
<1>3. /\ unfinished' = [unfinished EXCEPT ![i] = @ - 1]
      /\ nets2output' = IF unfinished'[i] = 0 THEN Append(nets2output, i) ELSE nets2output
      /\ unlisted' = unlisted \ {s}
      /\ UNCHANGED <<mpc, of_nets, routes, writer, front, written, out_file>>
  BY <1>2 DEF FinishNet, LastFinished, stageVars, outputVars
<1>4. /\ nets \in Seq(Nat) /\ Subnet = 1 .. Len(nets) /\ Len(nets) \in Nat
      /\ s \in Subnet /\ i \in FileNets /\ i \in Nat
  <2>1. nets \in Seq(Nat) /\ Subnet = 1 .. Len(nets) /\ Len(nets) \in Nat
    BY <1>1, LenProperties DEF PipelineInv, PipelineTypes, Subnet
  <2>2. s \in Subnet /\ i \in 1 .. db_net_id
    BY <1>1, <1>2, <2>1 DEF PipelineInv, Cut
  <2>3. db_net_id <= Len(parts) /\ db_net_id \in Nat /\ Len(parts) \in Nat
    BY <1>1 DEF PipelineInv, PipelineTypes, Published, Taken
  <2> QED BY <2>1, <2>2, <2>3 DEF FileNets
<1>5. unfinished \in [FileNets -> Int]
  BY <1>1 DEF PipelineInv, PipelineTypes
<1>6. unfinished' \in [FileNets -> Int] /\ unfinished'[i] = unfinished[i] - 1
      /\ \A j \in FileNets : j # i => unfinished'[j] = unfinished[j]
  BY <1>3, <1>4, <1>5
<1>7. /\ PipelineInv' /\ UNCHANGED <<parts, ppc, cpc, nets, subnets>>
      /\ FileNets' = FileNets /\ Subnet' = Subnet
  BY <1>1, <1>6, InputIsFixed
<1>8. Turns' /\ Progress'
  BY <1>1, <1>3, <1>7 DEF Turns, Progress
<1> DEFINE later == IF mpc = "finish_rest" THEN of_nets ELSE {}
<1>9. /\ Uncounted = unlisted \cup later /\ Uncounted' = unlisted' \cup later
      /\ unlisted \cap later = {} /\ later \subseteq Subnet
  BY <1>1, <1>2, <1>3 DEF Uncounted, Countdown, Progress
<1> HIDE DEF later
<1>10. \A j \in FileNets :
        unfinished'[j] = Cardinality({u \in unlisted' \cup later : nets[u] = j})
  <2>1. SUFFICES ASSUME NEW j \in FileNets
                 PROVE  unfinished'[j] = Cardinality({u \in unlisted' \cup later : nets[u] = j})
    OBVIOUS
  <2> DEFINE Old == {u \in unlisted \cup later : nets[u] = j}
             New == {u \in unlisted' \cup later : nets[u] = j}
  <2>2. unfinished[j] = Cardinality(Old)
    BY <1>1, <1>9 DEF Countdown
  <2>3. CASE j = i
    <3>1. s \in Old /\ New = Old \ {s}
      BY <1>2, <1>3, <1>9, <2>3
    <3>2. IsFiniteSet(Old)
      <4>1. Old \subseteq Subnet
        BY <1>2, <1>9
      <4> QED BY <1>4, <4>1, SubsetIsFinite
    <3>3. Cardinality(New) = Cardinality(Old) - 1
      BY <3>1, <3>2, FS_RemoveElement
    <3> QED BY <1>6, <2>2, <2>3, <3>3
  <2>4. CASE j # i
    <3>1. New = Old
      BY <1>3, <2>4
    <3> QED BY <1>6, <2>2, <2>4, <3>1
  <2> QED BY <2>3, <2>4
<1>11. Countdown'
  BY <1>1, <1>2, <1>3, <1>7, <1>10, <1>9 DEF Countdown
<1>12. \A j : Final(j)' <=> Final(j)
  BY <1>3, <1>7 DEF Final
<1>13. \A j, seen : Seen(j, seen)' <=> Seen(j, seen)
  BY <1>3, <1>7 DEF Seen
<1>14. unfinished'[i] = 0 => Final(i)
  <2>1. SUFFICES ASSUME unfinished'[i] = 0, mpc = "finish_rest",
                        NEW k \in 1 .. Len(subnets[i]), subnets[i][k] \in of_nets
                 PROVE  FALSE
    BY <1>2, <1>4 DEF Final
  <2>2. nets[subnets[i][k]] = i
    BY <1>1, <1>4 DEF PipelineInv, Cut
  <2> DEFINE New == {u \in unlisted' \cup later : nets[u] = i}
  <2>3. Cardinality(New) = 0
    BY <1>4, <1>10, <2>1
  <2>4. IsFiniteSet(New)
    <3>1. New \subseteq Subnet
      BY <1>2, <1>3, <1>9
    <3> QED BY <1>4, <3>1, SubsetIsFinite
  <2>5. New = {}
    BY <2>3, <2>4, FS_EmptySet
  <2> QED BY <2>1, <2>2, <2>5 DEF later
<1>15. nets2output' \in Seq(Nat) /\ \A q \in 1 .. Len(nets2output') : Final(nets2output'[q])
  <2>1. nets2output \in Seq(Nat) /\ \A q \in 1 .. Len(nets2output) : Final(nets2output[q])
    BY <1>1 DEF OutputIsFinal
  <2>2. CASE unfinished'[i] = 0
    <3>1. /\ nets2output' \in Seq(Nat) /\ Len(nets2output') = Len(nets2output) + 1
          /\ \A q \in 1 .. Len(nets2output) : nets2output'[q] = nets2output[q]
          /\ nets2output'[Len(nets2output) + 1] = i /\ Len(nets2output) \in Nat
      BY <1>3, <1>4, <2>1, <2>2, AppendProperties, LenProperties
    <3>2. \A q \in 1 .. Len(nets2output') : q \in 1 .. Len(nets2output)
                                             \/ q = Len(nets2output) + 1
      BY <3>1
    <3> QED BY <1>14, <2>1, <2>2, <3>1, <3>2
  <2>3. CASE unfinished'[i] # 0
    BY <1>3, <2>1, <2>3
  <2> QED BY <2>2, <2>3
<1>16. OutputIsFinal'
  BY <1>1, <1>3, <1>12, <1>13, <1>15 DEF OutputIsFinal
<1> QED BY <1>7, <1>8, <1>11, <1>16 DEF FlowInv

LEMMA EnqueueStep ==
  ASSUME FlowInv, Enqueue, UNCHANGED <<inputVars, unfinished>>
  PROVE  FlowInv'
<1>1. PipelineInv /\ Turns /\ Progress /\ Countdown /\ OutputIsFinal
  BY DEF FlowInv
<1> DEFINE i == Min(unlisted)
<1>2. /\ mpc = "enqueue" /\ unlisted # {}
      /\ nets2output' = IF parts[i] = 0 THEN Append(nets2output, i) ELSE nets2output
      /\ unlisted' = unlisted \ {i}
      /\ UNCHANGED <<mpc, of_nets, routes, writer, front, written, out_file>>
  BY DEF Enqueue, stageVars, outputVars
<1>3. i \in FileNets /\ i \in Nat
  <2>1. unlisted \subseteq FileNets /\ FileNets \subseteq Nat
    BY <1>1, <1>2 DEF Countdown, FileNets, PipelineInv, PipelineTypes
  <2>2. i \in unlisted
    BY <1>2, <2>1, MinIsElement
  <2> QED BY <2>1, <2>2
<1> HIDE DEF i
<1>4. /\ PipelineInv' /\ UNCHANGED <<parts, ppc, cpc, nets, subnets, unfinished>>
      /\ FileNets' = FileNets /\ Subnet' = Subnet
  BY <1>1, InputIsFixed DEF PipelineInv, PipelineTypes
<1>5. Turns' /\ Progress' /\ Countdown'
  BY <1>1, <1>2, <1>4 DEF Turns, Progress, Countdown, Uncounted
<1>6. \A j : Final(j)' <=> Final(j)
  BY <1>2, <1>4 DEF Final
<1>7. \A j, seen : Seen(j, seen)' <=> Seen(j, seen)
  BY <1>2, <1>4 DEF Seen
<1>8. parts[i] = 0 => Final(i)
  <2>1. parts[i] = 0 => Len(subnets[i]) = 0
    BY <1>1, <1>3 DEF PipelineInv, Cut
  <2> QED BY <1>2, <1>3, <2>1 DEF Final
<1>9. nets2output' \in Seq(Nat) /\ \A q \in 1 .. Len(nets2output') : Final(nets2output'[q])
  <2>1. nets2output \in Seq(Nat) /\ \A q \in 1 .. Len(nets2output) : Final(nets2output[q])
    BY <1>1 DEF OutputIsFinal
  <2>2. CASE parts[i] = 0
    <3>1. /\ nets2output' \in Seq(Nat) /\ Len(nets2output') = Len(nets2output) + 1
          /\ \A q \in 1 .. Len(nets2output) : nets2output'[q] = nets2output[q]
          /\ nets2output'[Len(nets2output) + 1] = i /\ Len(nets2output) \in Nat
      BY <1>2, <1>3, <2>1, <2>2, AppendProperties, LenProperties
    <3>2. \A q \in 1 .. Len(nets2output') : q \in 1 .. Len(nets2output)
                                             \/ q = Len(nets2output) + 1
      BY <3>1
    <3> QED BY <1>8, <2>1, <2>2, <3>1, <3>2
  <2>3. CASE parts[i] # 0
    BY <1>2, <2>1, <2>3
  <2> QED BY <2>2, <2>3
<1>10. OutputIsFinal'
  BY <1>1, <1>2, <1>6, <1>7, <1>9 DEF OutputIsFinal
<1> QED BY <1>4, <1>5, <1>10 DEF FlowInv

(* The other steps of route() queue and write nothing.                        *)
LEMMA RouterStep ==
  ASSUME FlowInv, Router, ~Enqueue, UNCHANGED <<inputVars, unfinished>>
  PROVE  FlowInv'
<1>1. PipelineInv /\ Turns /\ Progress /\ Countdown /\ OutputIsFinal
  BY DEF FlowInv
<1>2. /\ PipelineInv' /\ UNCHANGED <<parts, ppc, cpc, nets, subnets, unfinished>>
      /\ FileNets' = FileNets /\ Subnet' = Subnet
  BY <1>1, InputIsFixed DEF PipelineInv, PipelineTypes
<1>3. \A i \in FileNets : \A k \in 1 .. Len(subnets[i]) : subnets[i][k] \in Subnet
  BY <1>1, LenProperties DEF PipelineInv, PipelineTypes, Cut, Subnet
<1>4. /\ UNCHANGED <<nets2output, front, written, out_file>>
      /\ \A t \in Thread : writer'[t] = "write" => writer[t] = "write"
  <2>1. writer' = writer \/ \E t \in Thread : writer' = Started(t)
    BY DEF Router, BuildDatabase, StartWriter1, EndStage1, Ripup, StartWriter2, EndStage2,
       StartOutput, Close, Route, Rip, Reroute, outputVars, Thread
  <2>2. UNCHANGED <<nets2output, front, written, out_file>>
    BY DEF Router, BuildDatabase, StartWriter1, EndStage1, Ripup, StartWriter2, EndStage2,
       StartOutput, Close, Route, Rip, Reroute, outputVars
  <2> QED BY <1>1, <2>1, <2>2 DEF Started, Turns
<1>5. SUFFICES /\ Turns' /\ Progress' /\ Countdown'
               /\ \A i : Final(i) => Final(i)'
               /\ \A i : Final(i) => \A k \in 1 .. Len(subnets[i]) :
                                       routes'[subnets[i][k]] = routes[subnets[i][k]]
  <2>1. ASSUME \A i : Final(i) => Final(i)',
               \A i : Final(i) => \A k \in 1 .. Len(subnets[i]) :
                                    routes'[subnets[i][k]] = routes[subnets[i][k]]
        PROVE  OutputIsFinal'
    BY <1>1, <1>2, <1>4, <2>1, OutputKept
  <2> QED BY <1>2, <2>1 DEF FlowInv
<1>6. CASE BuildDatabase
  <2>1. Turns'
    BY <1>1, <1>2, <1>6 DEF BuildDatabase, outputVars, Turns, Phase
  <2>2. Progress'
    BY <1>1, <1>2, <1>6 DEF BuildDatabase, Progress
  <2>3. Countdown'
    BY <1>1, <1>2, <1>6 DEF BuildDatabase, Countdown, Uncounted
  <2> QED BY <1>6, <2>1, <2>2, <2>3 DEF BuildDatabase, Final
<1>7. CASE StartWriter1 \/ EndStage1
  <2>1. UNCHANGED <<of_nets, routes>>
    BY <1>7 DEF StartWriter1, EndStage1, stageVars
  <2>2. Turns'
    BY <1>1, <1>2, <1>7
       DEF StartWriter1, EndStage1, Started, Joinable, outputVars, Turns, Phase, Thread
  <2>3. Progress'
    BY <1>1, <1>2, <1>7, <2>1 DEF StartWriter1, EndStage1, Progress
  <2>4. Countdown'
    BY <1>1, <1>2, <1>7, <2>1 DEF StartWriter1, EndStage1, Countdown, Uncounted
  <2> QED BY <1>2, <1>7, <2>1, <2>2, <2>3, <2>4 DEF StartWriter1, EndStage1, Final
<1>8. CASE Ripup
  <2>1. Turns' /\ Progress'
    BY <1>1, <1>2, <1>8 DEF Ripup, outputVars, Turns, Phase, Progress
  <2>2. Uncounted' = Uncounted
    BY <1>2, <1>8 DEF Ripup, Uncounted
  <2>3. Countdown'
    BY <1>1, <1>2, <1>8, <2>2 DEF Ripup, Countdown
  <2> QED BY <1>2, <1>8, <2>1, <2>3 DEF Ripup, Final
<1>9. CASE StartWriter2 \/ EndStage2 \/ StartOutput \/ Close
  <2>1. UNCHANGED <<of_nets, routes>>
    BY <1>9 DEF StartWriter2, EndStage2, StartOutput, Close, stageVars
  <2>2. Turns'
    BY <1>1, <1>2, <1>9 DEF StartWriter2, EndStage2, StartOutput, Close, Started, Joinable,
       outputVars, Turns, Phase, Thread
  <2>3. Progress'
    BY <1>1, <1>2, <1>9, <2>1 DEF StartWriter2, EndStage2, StartOutput, Close, Progress
  <2>4. Uncounted' = Uncounted
    BY <1>2, <1>9, <2>1 DEF StartWriter2, EndStage2, StartOutput, Close, Uncounted
  <2>5. Countdown'
    BY <1>1, <1>2, <1>9, <2>1, <2>4
       DEF StartWriter2, EndStage2, StartOutput, Close, Countdown, Progress
  <2> QED BY <1>2, <1>9, <2>1, <2>2, <2>3, <2>5
          DEF StartWriter2, EndStage2, StartOutput, Close, Final
<1>10. CASE \E s \in Subnet : Route(s) \/ Rip(s) \/ Reroute(s)
  <2>1. PICK s \in Subnet : Route(s) \/ Rip(s) \/ Reroute(s)
    BY <1>10
  <2>2. /\ UNCHANGED <<mpc, unlisted, of_nets, writer>>
        /\ mpc \in {"stage1", "stage2"} /\ (mpc = "stage2" => s \in of_nets)
        /\ \E r \in {1, 2, Moving} : routes' = [routes EXCEPT ![s] = r]
    BY <2>1 DEF Route, Rip, Reroute, outputVars
  <2>3. Turns' /\ Progress' /\ Countdown'
    BY <1>1, <1>2, <2>2 DEF Turns, Progress, Countdown, Uncounted
  <2>4. ASSUME NEW i, Final(i), NEW k \in 1 .. Len(subnets[i])
        PROVE  routes'[subnets[i][k]] = routes[subnets[i][k]]
    <3>1. subnets[i][k] # s /\ subnets[i][k] \in Subnet
      BY <1>3, <2>2, <2>4 DEF Final
    <3> QED BY <1>1, <2>2, <3>1 DEF Progress
  <2> QED BY <1>2, <2>2, <2>3, <2>4 DEF Final
<1> QED BY <1>6, <1>7, <1>8, <1>9, <1>10 DEF Router

-----------------------------------------------------------------------------
(* FlowInv is inductive.                                                      *)
THEOREM FlowInvariance == Spec => []FlowInv
<1>1. Init => FlowInv
  BY InitFlow
<1>2. FlowInv /\ [Next]_vars => FlowInv'
  <2> SUFFICES ASSUME FlowInv, [Next]_vars PROVE FlowInv'
    OBVIOUS
  <2>1. CASE PipelineNext /\ UNCHANGED routeVars
    BY <2>1, PipelineStep
  <2>2. CASE Router /\ UNCHANGED <<inputVars, unfinished>>
    BY <2>2, EnqueueStep, RouterStep
  <2>3. CASE (FinishRest \/ FinishOf) /\ UNCHANGED inputVars
    BY <2>3, FinishStep
  <2>4. CASE \E t \in Thread : Writer(t)
    BY <2>4, WriterStep
  <2>5. CASE UNCHANGED vars
    <3>1. UNCHANGED <<inputVars, unfinished, mpc, unlisted, of_nets, routes, nets2output,
                      writer, front, written, out_file>>
      BY <2>5 DEF vars, pipelineVars, inputVars, routeVars, stageVars, outputVars
    <3>2. /\ PipelineInv' /\ UNCHANGED <<parts, ppc, cpc, nets, subnets, unfinished>>
          /\ FileNets' = FileNets /\ Subnet' = Subnet
      BY <3>1, InputIsFixed DEF FlowInv, PipelineInv, PipelineTypes
    <3>3. Turns' /\ Progress' /\ Countdown' /\ OutputIsFinal'
      BY <3>1, <3>2 DEF FlowInv, Turns, Progress, Countdown, Uncounted, OutputIsFinal, Final,
         Seen
    <3> QED BY <3>2, <3>3 DEF FlowInv
  <2> QED BY <2>1, <2>2, <2>3, <2>4, <2>5 DEF Next, Main
<1> QED BY <1>1, <1>2, PTL DEF Spec

(* However the parser and the consumer interleave, every net that has been cut *)
(* was complete, and was cut on the grid of the capacity file.                 *)
THEOREM CutNetsAreReady == Spec => []SplitsReadyNets
<1>1. FlowInv => SplitsReadyNets
  <2> SUFFICES ASSUME FlowInv PROVE SplitsReadyNets
    OBVIOUS
  <2>1. PipelineTypes /\ Published /\ Taken /\ Cut
    BY DEF FlowInv, PipelineInv
  <2>2. ASSUME NEW i \in 1 .. db_net_id
        PROVE  db_nets[i] = "ready" /\ (subnets[i] # <<>> <=> parts[i] > 0)
    <3>1. i \in 1 .. db_parsed_net_count /\ i \in FileNets /\ i <= db_net_id
      BY <2>1 DEF PipelineTypes, Published, Taken, FileNets
    <3>2. db_nets[i] = "ready" /\ Len(subnets[i]) = parts[i]
      BY <2>1, <3>1 DEF Published, Cut
    <3>3. subnets[i] \in Seq(Nat) /\ parts[i] \in Nat
      BY <2>1, <3>1 DEF PipelineTypes
    <3> QED BY <3>2, <3>3, EmptySeq
  <2> QED BY <2>1, <2>2 DEF SplitsReadyNets, Taken
<1> QED BY <1>1, FlowInvariance, PTL

(* Neither the queue nor the output file ever has two users, though no lock    *)
(* protects them.                                                              *)
THEOREM QueueHasOneUser == Spec => []OneUser
<1>1. FlowInv => OneUser
  <2> SUFFICES ASSUME FlowInv PROVE OneUser
    OBVIOUS
  <2> DEFINE Users == {t \in Thread : writer[t] \in {"test", "write"}}
  <2>1. Turns
    BY DEF FlowInv
  <2>2. Fills => Users = {}
    BY <2>1 DEF Fills, Turns, Thread, Phase
  <2>3. \E t \in Thread : Users \subseteq {t}
    BY <2>1 DEF Turns, Thread, Phase
  <2>4. Cardinality(Users) \in {0, 1} /\ (Users = {} => Cardinality(Users) = 0)
    <3>1. PICK t \in Thread : Users = {} \/ Users = {t}
      BY <2>3
    <3> QED BY <3>1, FS_EmptySet, FS_Singleton
  <2> QED BY <2>2, <2>4 DEF OneUser
<1> QED BY <1>1, FlowInvariance, PTL

(* The writers read routes while Stage 2 rips up and routes others: what they  *)
(* have written is final.                                                      *)
THEOREM RoutesWrittenAreFinal == Spec => []WrittenIsFinal
<1>1. FlowInv => WrittenIsFinal
  <2> SUFFICES ASSUME FlowInv PROVE WrittenIsFinal
    OBVIOUS
  <2>1. PipelineInv /\ Progress /\ OutputIsFinal
    BY DEF FlowInv
  <2>2. ASSUME NEW i, NEW seen, Final(i), Seen(i, seen)
        PROVE  \A k \in DOMAIN seen : seen[k] > 0 /\ seen[k] = routes[subnets[i][k]]
    <3>1. SUFFICES ASSUME NEW k \in DOMAIN seen
                   PROVE  seen[k] > 0 /\ seen[k] = routes[subnets[i][k]]
      OBVIOUS
    <3>2. i \in FileNets /\ subnets[i] \in Seq(Nat)
      BY <2>1, <2>2 DEF Final, PipelineInv, PipelineTypes
    <3>3. k \in 1 .. Len(seen) /\ k \in 1 .. Len(subnets[i])
      BY <2>2, <3>2, LenProperties DEF Seen
    <3>4. seen[k] = routes[subnets[i][k]]
      BY <2>2, <3>3 DEF Seen
    <3>5. subnets[i][k] \in Subnet
      BY <2>1, <3>2, <3>3, LenProperties DEF PipelineInv, PipelineTypes, Cut, Subnet
    <3>6. routes[subnets[i][k]] > 0
      BY <2>1, <2>2, <3>3, <3>5 DEF Final, Progress
    <3> QED BY <3>4, <3>6
  <2>3. \A k \in DOMAIN out_file : k \in 1 .. Len(out_file)
    BY <2>1, LenProperties DEF OutputIsFinal
  <2> QED BY <2>1, <2>2, <2>3 DEF WrittenIsFinal, OutputIsFinal
<1> QED BY <1>1, FlowInvariance, PTL
-----------------------------------------------------------------------------
(* Delivery: no net is missed, and each one reaches the file once.            *)

\* the flag is set after the last count, and the consumer reads it first
NoneMissed ==
  /\ ppc \in {"finish", "join", "built"} => db_parsed_net_count = Len(parts)
  /\ db_parse_finished => ppc \in {"join", "built"}
  /\ parse_done => db_parse_finished
  /\ parse_done /\ cpc \in {"test", "split", "done"} => available = Len(parts)
  /\ cpc = "done" => parse_done /\ consumed = available

Queued(i)  == \E q \in 1 .. Len(nets2output) : nets2output[q] = i
Writing(i) == \E t \in Thread : writer[t] = "write" /\ front[t] = i
Written(i) == \E k \in 1 .. Len(out_file) : out_file[k][1] = i

\* a net is queued, being written or written, and only once
Once ==
  /\ \A q, r \in 1 .. Len(nets2output) : q # r => nets2output[q] # nets2output[r]
  /\ \A k, l \in 1 .. Len(out_file) : k # l => out_file[k][1] # out_file[l][1]
  /\ \A i : /\ ~ (Queued(i) /\ Writing(i))
            /\ ~ (Queued(i) /\ Written(i))
            /\ ~ (Writing(i) /\ Written(i))

\* nothing of net i is left to count, and the first loop has passed it
Due(i) == /\ mpc # "input" /\ unfinished[i] = 0
          /\ ~ (mpc = "enqueue" /\ i \in unlisted)

\* a net is on its way to the file when it is due, and a line is complete
Delivered ==
  /\ \A i \in FileNets : (Queued(i) \/ Writing(i) \/ Written(i)) <=> Due(i)
  /\ \A k \in 1 .. Len(out_file) : Len(out_file[k][2]) = Len(subnets[out_file[k][1]])
  /\ writer["main"] = "ended" => nets2output = <<>>

DeliveryInv == NoneMissed /\ Once /\ Delivered
-----------------------------------------------------------------------------
LEMMA InitDelivery == Init => DeliveryInv
<1> SUFFICES ASSUME Init PROVE DeliveryInv
  OBVIOUS
<1>1. NoneMissed
  BY DEF Init, PipelineInit, NoneMissed
<1>2. Len(nets2output) = 0 /\ Len(out_file) = 0 /\ \A t \in Thread : writer[t] = "none"
  BY DEF Init
<1>3. \A i : ~Queued(i) /\ ~Writing(i) /\ ~Written(i)
  BY <1>2 DEF Queued, Writing, Written
<1>4. Once
  BY <1>2, <1>3 DEF Once
<1>5. Delivered
  BY <1>2, <1>3 DEF Delivered, Due, Init, Thread
<1> QED BY <1>1, <1>4, <1>5 DEF DeliveryInv

LEMMA PipelineDelivery ==
  ASSUME FlowInv, DeliveryInv, PipelineNext, UNCHANGED routeVars
  PROVE  DeliveryInv'
<1>1. /\ PipelineTypes /\ Published /\ Taken /\ Turns /\ OutputIsFinal
      /\ NoneMissed /\ Once /\ Delivered
  BY DEF FlowInv, PipelineInv, DeliveryInv
<1>2. UNCHANGED <<mpc, unlisted, of_nets, routes, nets2output, writer, front, written,
                  out_file>>
  BY DEF routeVars, stageVars, outputVars
<1>3. mpc = "input" /\ ppc # "built" /\ parts' = parts
  BY <1>1 DEF PipelineNext, Parser, Consumer, ParseCap, OpenFails, AppendNet, InitNet,
     PublishNet, FinishParse, Join, AwaitCap, ReadFlag, ReadCount, Test, SplitNet, CalcHpwl,
     Turns
<1>4. NoneMissed'
  <2>1. CASE Parser
    <3>1. UNCHANGED <<cpc, parse_done, available, consumed, db_net_id>>
      BY <2>1 DEF Parser, loopVars
    <3>2. CASE ParseCap \/ OpenFails \/ AppendNet \/ InitNet
      BY <1>1, <1>3, <3>1, <3>2
         DEF ParseCap, OpenFails, AppendNet, InitNet, NoneMissed
    <3>3. CASE PublishNet \/ FinishParse \/ Join
      BY <1>1, <1>3, <3>1, <3>3 DEF PublishNet, FinishParse, Join, NoneMissed
    <3> QED BY <2>1, <3>2, <3>3 DEF Parser
  <2>2. CASE Consumer
    <3>1. UNCHANGED <<ppc, db_parsed_net_count, db_parse_finished>>
      BY <2>2 DEF Consumer, parserVars
    <3>2. CASE AwaitCap \/ ReadFlag \/ ReadCount
      BY <1>1, <1>3, <3>1, <3>2 DEF AwaitCap, ReadFlag, ReadCount, NoneMissed
    <3>3. CASE Test
      BY <1>1, <1>3, <3>1, <3>3 DEF Test, NoMore, NoneMissed, PipelineTypes, Taken
    <3>4. CASE SplitNet \/ CalcHpwl
      BY <1>1, <1>3, <3>1, <3>4 DEF SplitNet, CalcHpwl, NoneMissed
    <3> QED BY <2>2, <3>2, <3>3, <3>4 DEF Consumer
  <2> QED BY <2>1, <2>2 DEF PipelineNext
<1>5. Once'
  BY <1>1, <1>2 DEF Once, Queued, Writing, Written
<1>6. Delivered'
  <2>1. \A k \in 1 .. Len(out_file) : FALSE
    BY <1>1, <1>3 DEF OutputIsFinal, Final
  <2>2. FileNets' = FileNets
    BY <1>3 DEF FileNets
  <2>3. \A i \in FileNets : ~ (Queued(i) \/ Writing(i) \/ Written(i))
    BY <1>1, <1>3 DEF Delivered, Due
  <2>4. \A i \in FileNets : ~ (Queued(i)' \/ Writing(i)' \/ Written(i)')
    BY <1>2, <2>3 DEF Queued, Writing, Written
  <2> QED BY <1>1, <1>2, <1>3, <2>1, <2>2, <2>4 DEF Delivered, Due
<1> QED BY <1>4, <1>5, <1>6 DEF DeliveryInv

LEMMA InputIsTaken == ASSUME NoneMissed, UNCHANGED inputVars PROVE NoneMissed'
  BY DEF NoneMissed, inputVars, parserVars, loopVars

(* Once route() has begun every net of the file is cut.                       *)
LEMMA AllCut ==
  ASSUME FlowInv, NoneMissed, mpc # "input"
  PROVE  /\ \A i \in FileNets : Len(subnets[i]) = parts[i]
         /\ \A i \in FileNets : parts[i] = 0 <=> {s \in Subnet : nets[s] = i} = {}
<1>1. PipelineTypes /\ Taken /\ Cut /\ Turns
  BY DEF FlowInv, PipelineInv
<1>2. db_net_id = Len(parts)
  BY <1>1 DEF Turns, Taken, NoneMissed
<1>3. \A i \in FileNets : Len(subnets[i]) = parts[i]
  BY <1>1, <1>2 DEF Cut, FileNets
<1>4. nets \in Seq(Nat) /\ Subnet = 1 .. Len(nets)
  BY <1>1, LenProperties DEF PipelineTypes, Subnet
<1>5. ASSUME NEW i \in FileNets, parts[i] # 0
      PROVE  subnets[i][1] \in Subnet /\ nets[subnets[i][1]] = i
  <2>1. 1 \in 1 .. Len(subnets[i])
    BY <1>1, <1>3, <1>5 DEF PipelineTypes
  <2> QED BY <1>1, <1>4, <2>1 DEF Cut
<1>6. ASSUME NEW i \in FileNets, parts[i] = 0, NEW s \in Subnet, nets[s] = i
      PROVE  FALSE
  BY <1>1, <1>4, <1>6 DEF Cut
<1> QED BY <1>3, <1>5, <1>6

-----------------------------------------------------------------------------
(* A step that changes neither queue nor file, nor which net is being written. *)
LEMMA NothingMoved ==
  ASSUME Once, Delivered, UNCHANGED <<parts, subnets, nets2output, front, out_file>>,
         \A t \in Thread : writer'[t] = "write" <=> writer[t] = "write",
         writer'["main"] = "ended" => writer["main"] = "ended" \/ nets2output = <<>>,
         \A i \in FileNets : Due(i)' <=> Due(i)
  PROVE  Once' /\ Delivered'
<1>1. \A i : /\ Queued(i)' <=> Queued(i)
             /\ Writing(i)' <=> Writing(i)
             /\ Written(i)' <=> Written(i)
  BY DEF Queued, Writing, Written
<1>2. FileNets' = FileNets
  BY DEF FileNets
<1>3. Once'
  BY <1>1 DEF Once
<1>4. Delivered'
  BY <1>1, <1>2 DEF Delivered
<1> QED BY <1>3, <1>4

LEMMA RouterDelivery ==
  ASSUME FlowInv, DeliveryInv, Router, ~Enqueue, UNCHANGED <<inputVars, unfinished>>
  PROVE  DeliveryInv'
<1>1. Turns /\ Countdown /\ Once /\ Delivered /\ NoneMissed /\ PipelineInv
  BY DEF FlowInv, DeliveryInv
<1>2. UNCHANGED <<parts, subnets, unfinished>> /\ FileNets' = FileNets
  BY DEF inputVars, splitVars, FileNets
<1>3. UNCHANGED <<nets2output, front, out_file>>
  BY DEF Router, BuildDatabase, StartWriter1, EndStage1, Ripup, StartWriter2, EndStage2,
     StartOutput, Close, Route, Rip, Reroute, outputVars
<1>4. \/ writer' = writer
      \/ StartWriter1 /\ writer' = Started("writer1") /\ writer["writer1"] = "none"
      \/ StartWriter2 /\ writer' = Started("writer2") /\ writer["writer2"] = "none"
      \/ StartOutput /\ writer' = Started("main") /\ writer["main"] = "none"
  BY <1>1 DEF Router, BuildDatabase, StartWriter1, EndStage1, Ripup, StartWriter2, EndStage2,
     StartOutput, Close, Route, Rip, Reroute, outputVars, Turns, Phase
<1>5. /\ \A t \in Thread : writer'[t] = "write" <=> writer[t] = "write"
      /\ writer'["main"] = "ended" => writer["main"] = "ended"
  BY <1>1, <1>4 DEF Started, Turns, Thread
<1>6. \A i \in FileNets : Due(i)' <=> Due(i)
  BY <1>1, <1>2 DEF Router, BuildDatabase, StartWriter1, EndStage1, Ripup, StartWriter2,
     EndStage2, StartOutput, Close, Route, Rip, Reroute, Due
<1>7. Once' /\ Delivered'
  BY <1>1, <1>2, <1>3, <1>5, <1>6, NothingMoved
<1> QED BY <1>1, <1>7, InputIsTaken DEF DeliveryInv

LEMMA WriterDelivery ==
  ASSUME FlowInv, DeliveryInv, NEW t \in Thread, Writer(t)
  PROVE  DeliveryInv'
<1>1. Turns /\ Once /\ Delivered /\ NoneMissed /\ OutputIsFinal
  BY DEF FlowInv, DeliveryInv
<1>2. /\ UNCHANGED <<inputVars, unfinished, mpc, unlisted>>
      /\ UNCHANGED <<parts, subnets>> /\ FileNets' = FileNets
  BY DEF Writer, output_nets, TakeNet, WriteSubnet, EndNet, inputVars, splitVars, FileNets
<1>3. NoneMissed'
  BY <1>1, <1>2, InputIsTaken
<1>4. \A i : Due(i)' <=> Due(i)
  BY <1>2 DEF Due
<1>5. /\ nets2output \in Seq(Nat) /\ out_file \in Seq(Nat \X Seq(Int))
      /\ front \in [Thread -> Nat] /\ written \in [Thread -> Seq(Int)]
      /\ writer \in [Thread -> {"none", "test", "write", "ended"}]
  BY <1>1 DEF OutputIsFinal, Turns
<1>6. \A u \in Thread : writer[u] \in {"test", "write"} /\ writer[t] \in {"test", "write"}
                        => u = t
  BY <1>1 DEF Turns, Thread, Phase
<1>7. CASE TakeNet(t) /\ nets2output = <<>>
  <2>1. /\ writer[t] = "test" /\ writer' = [writer EXCEPT ![t] = "ended"]
        /\ UNCHANGED <<nets2output, front, out_file>>
    BY <1>7 DEF TakeNet, EndsWriter
  <2>2. \A u \in Thread : writer'[u] = "write" <=> writer[u] = "write"
    BY <1>5, <2>1
  <2>3. Once' /\ Delivered'
    BY <1>1, <1>2, <1>4, <1>7, <2>1, <2>2, NothingMoved
  <2> QED BY <1>3, <2>3 DEF DeliveryInv
<1>8. CASE TakeNet(t) /\ nets2output # <<>>
  <2> DEFINE h == Head(nets2output)
  <2>1. /\ writer[t] = "test" /\ writer' = [writer EXCEPT ![t] = "write"]
        /\ front' = [front EXCEPT ![t] = h]
        /\ nets2output' = Tail(nets2output) /\ out_file' = out_file
    BY <1>8 DEF TakeNet
  <2>2. /\ Len(nets2output') = Len(nets2output) - 1
        /\ \A q \in 1 .. Len(nets2output') : nets2output'[q] = nets2output[q + 1]
        /\ h = nets2output[1] /\ h \in Nat /\ Len(nets2output) \in Nat \ {0}
    BY <1>5, <1>8, <2>1, HeadTailProperties, EmptySeq
  <2> HIDE DEF h
  <2>3. \A i : Queued(i)' <=> Queued(i) /\ i # h
    <3>1. ASSUME NEW i, Queued(i)' PROVE Queued(i) /\ i # h
      <4>1. PICK q \in 1 .. Len(nets2output') : nets2output'[q] = i
        BY <3>1 DEF Queued
      <4>2. q + 1 \in 1 .. Len(nets2output) /\ 1 \in 1 .. Len(nets2output) /\ q + 1 # 1
        BY <2>2
      <4> QED BY <1>1, <2>2, <4>1, <4>2 DEF Queued, Once
    <3>2. ASSUME NEW i, Queued(i), i # h PROVE Queued(i)'
      <4>1. PICK q \in 1 .. Len(nets2output) : nets2output[q] = i
        BY <3>2 DEF Queued
      <4>2. q - 1 \in 1 .. Len(nets2output') /\ nets2output'[q - 1] = nets2output[q - 1 + 1]
            /\ q - 1 + 1 = q
        BY <2>2, <3>2, <4>1
      <4> QED BY <4>1, <4>2 DEF Queued
    <3> QED BY <3>1, <3>2
  <2>4. Queued(h)
    BY <2>2 DEF Queued
  <2>5. \A i : Writing(i)' <=> Writing(i) \/ i = h
    BY <1>5, <1>6, <2>1 DEF Writing
  <2>6. \A i : Written(i)' <=> Written(i)
    BY <2>1 DEF Written
  <2>7. Once'
    <3>1. \A q, r \in 1 .. Len(nets2output') : q # r => nets2output'[q] # nets2output'[r]
      <4>1. SUFFICES ASSUME NEW q \in 1 .. Len(nets2output'), NEW r \in 1 .. Len(nets2output'),
                            q # r
                     PROVE  nets2output'[q] # nets2output'[r]
        OBVIOUS
      <4>2. q + 1 \in 1 .. Len(nets2output) /\ r + 1 \in 1 .. Len(nets2output)
            /\ q + 1 # r + 1
        BY <2>2, <4>1
      <4> QED BY <1>1, <2>2, <4>2 DEF Once
    <3>2. \A i : /\ ~ (Queued(i)' /\ Writing(i)')
                 /\ ~ (Queued(i)' /\ Written(i)')
                 /\ ~ (Writing(i)' /\ Written(i)')
      BY <1>1, <2>3, <2>4, <2>5, <2>6 DEF Once
    <3> QED BY <1>1, <2>1, <3>1, <3>2 DEF Once
  <2>8. writer'["main"] # "ended"
    BY <1>1, <1>5, <1>8, <2>1 DEF Delivered, Thread
  <2>9. \A i : (Queued(i)' \/ Writing(i)' \/ Written(i)')
               <=> (Queued(i) \/ Writing(i) \/ Written(i))
    BY <2>3, <2>4, <2>5, <2>6
  <2>10. Delivered'
    BY <1>1, <1>2, <1>4, <2>1, <2>8, <2>9 DEF Delivered
  <2> QED BY <1>3, <2>7, <2>10 DEF DeliveryInv
<1>9. CASE WriteSubnet(t)
  <2>1. UNCHANGED <<nets2output, writer, front, out_file>>
    BY <1>9 DEF WriteSubnet
  <2>2. Once' /\ Delivered'
    BY <1>1, <1>2, <1>4, <2>1, NothingMoved
  <2> QED BY <1>3, <2>2 DEF DeliveryInv
<1>10. CASE EndNet(t)
  <2> DEFINE i    == front[t]
             line == <<i, written[t]>>
             last == Len(out_file) + 1
  <2>1. /\ writer[t] = "write" /\ writer' = [writer EXCEPT ![t] = "test"]
        /\ Len(written[t]) = Len(subnets[i])
        /\ out_file' = Append(out_file, line) /\ UNCHANGED <<nets2output, front>>
    BY <1>10 DEF EndNet
  <2>2. line \in Nat \X Seq(Int) /\ line[1] = i /\ line[2] = written[t]
    BY <1>5
  <2> HIDE DEF line
  <2>3. /\ Len(out_file') = last /\ \A k \in 1 .. Len(out_file) : out_file'[k] = out_file[k]
        /\ out_file'[last] = line /\ Len(out_file) \in Nat
    BY <1>5, <2>1, <2>2, AppendProperties, LenProperties
  <2>4. \A k \in 1 .. last : k \in 1 .. Len(out_file) \/ k = last
    BY <2>3
  <2>5. last \in 1 .. last /\ 1 .. Len(out_file) \subseteq 1 .. last
    BY <2>3
  <2> HIDE DEF i, last
  <2>6. Writing(i)
    BY <2>1 DEF Writing, i
  <2>7. \A j : Queued(j)' <=> Queued(j)
    BY <2>1 DEF Queued
  <2>8. \A j : Writing(j)' <=> Writing(j) /\ j # i
    BY <1>5, <1>6, <2>1 DEF Writing, i
  <2>9. \A j : Written(j)' <=> Written(j) \/ j = i
    BY <2>2, <2>3, <2>4, <2>5 DEF Written
  <2>10. ~Written(i)
    BY <1>1, <2>6 DEF Once
  <2>11. Once'
    <3>1. \A k, l \in 1 .. Len(out_file') : k # l => out_file'[k][1] # out_file'[l][1]
      <4>1. \A k \in 1 .. Len(out_file) : out_file[k][1] # i
        BY <2>10 DEF Written
      <4>2. SUFFICES ASSUME NEW k \in 1 .. last, NEW l \in 1 .. last, k # l
                     PROVE  out_file'[k][1] # out_file'[l][1]
        BY <2>3
      <4>3. CASE k = last \/ l = last
        BY <2>2, <2>3, <2>4, <4>1, <4>2, <4>3
      <4>4. CASE k # last /\ l # last
        <5>1. k \in 1 .. Len(out_file) /\ l \in 1 .. Len(out_file)
          BY <2>4, <4>4
        <5> QED BY <1>1, <2>3, <4>2, <5>1 DEF Once
      <4> QED BY <4>3, <4>4
    <3>2. \A j : /\ ~ (Queued(j)' /\ Writing(j)')
                 /\ ~ (Queued(j)' /\ Written(j)')
                 /\ ~ (Writing(j)' /\ Written(j)')
      BY <1>1, <2>6, <2>7, <2>8, <2>9 DEF Once
    <3> QED BY <1>1, <2>1, <3>1, <3>2 DEF Once
  <2>12. \A k \in 1 .. Len(out_file') : Len(out_file'[k][2]) = Len(subnets[out_file'[k][1]])
    BY <1>1, <2>1, <2>2, <2>3, <2>4 DEF Delivered
  <2>13. writer'["main"] = "ended" => writer["main"] = "ended"
    BY <1>5, <2>1 DEF Thread
  <2>14. \A j : (Queued(j)' \/ Writing(j)' \/ Written(j)')
                <=> (Queued(j) \/ Writing(j) \/ Written(j))
    BY <2>6, <2>7, <2>8, <2>9
  <2>15. Delivered'
    BY <1>1, <1>2, <1>4, <2>1, <2>12, <2>13, <2>14 DEF Delivered
  <2> QED BY <1>3, <2>11, <2>15 DEF DeliveryInv
<1> QED BY <1>7, <1>8, <1>9, <1>10 DEF Writer, output_nets
-----------------------------------------------------------------------------
(* A net that becomes due enters the queue.                                    *)
LEMMA NetQueued ==
  ASSUME FlowInv, Once, Delivered, NEW i \in FileNets, ~Due(i), writer["main"] = "none",
         nets2output' = Append(nets2output, i),
         UNCHANGED <<parts, subnets, writer, front, out_file>>,
         \A j \in FileNets : Due(j)' <=> Due(j) \/ j = i
  PROVE  Once' /\ Delivered'
<1> DEFINE last == Len(nets2output) + 1
<1>1. nets2output \in Seq(Nat) /\ i \in Nat /\ FileNets' = FileNets
  BY DEF FlowInv, OutputIsFinal, FileNets
<1>2. /\ Len(nets2output') = last /\ nets2output'[last] = i /\ Len(nets2output) \in Nat
      /\ \A q \in 1 .. Len(nets2output) : nets2output'[q] = nets2output[q]
  BY <1>1, AppendProperties, LenProperties
<1>3. \A q \in 1 .. last : q \in 1 .. Len(nets2output) \/ q = last
  BY <1>2
<1>4. last \in 1 .. last /\ 1 .. Len(nets2output) \subseteq 1 .. last
  BY <1>2
<1> HIDE DEF last
<1>5. ~Queued(i) /\ ~Writing(i) /\ ~Written(i)
  BY DEF Delivered
<1>6. \A j : Queued(j)' <=> Queued(j) \/ j = i
  BY <1>2, <1>3, <1>4 DEF Queued
<1>7. \A j : (Writing(j)' <=> Writing(j)) /\ (Written(j)' <=> Written(j))
  BY DEF Writing, Written
<1>8. Once'
  <2>1. \A q \in 1 .. Len(nets2output) : nets2output[q] # i
    BY <1>5 DEF Queued
  <2>2. ASSUME NEW q \in 1 .. last, NEW r \in 1 .. last, q # r
        PROVE  nets2output'[q] # nets2output'[r]
    <3>1. CASE q = last \/ r = last
      BY <1>2, <1>3, <2>1, <2>2, <3>1
    <3>2. CASE q # last /\ r # last
      <4>1. q \in 1 .. Len(nets2output) /\ r \in 1 .. Len(nets2output)
        BY <1>3, <3>2
      <4> QED BY <1>2, <2>2, <4>1 DEF Once
    <3> QED BY <3>1, <3>2
  <2> QED BY <1>2, <1>5, <1>6, <1>7, <2>2 DEF Once
<1>9. Delivered'
  BY <1>1, <1>6, <1>7 DEF Delivered
<1> QED BY <1>8, <1>9

LEMMA EnqueueDelivery ==
  ASSUME FlowInv, DeliveryInv, Enqueue, UNCHANGED <<inputVars, unfinished>>
  PROVE  DeliveryInv'
<1>1. PipelineInv /\ Turns /\ Countdown /\ Once /\ Delivered /\ NoneMissed
  BY DEF FlowInv, DeliveryInv
<1>2. PipelineTypes
  BY <1>1 DEF PipelineInv
<1> DEFINE i == Min(unlisted)
<1>3. /\ mpc = "enqueue" /\ unlisted # {}
      /\ nets2output' = IF parts[i] = 0 THEN Append(nets2output, i) ELSE nets2output
      /\ unlisted' = unlisted \ {i}
      /\ UNCHANGED <<mpc, writer, front, out_file, parts, subnets, unfinished>>
  BY DEF Enqueue, outputVars, inputVars, splitVars
<1>4. i \in unlisted /\ i \in FileNets
  <2>1. unlisted \subseteq FileNets /\ FileNets \subseteq Nat
    BY <1>1, <1>2, <1>3 DEF Countdown, FileNets, PipelineTypes
  <2> QED BY <1>3, <2>1, MinIsElement
<1> HIDE DEF i
<1>5. unfinished[i] = 0 <=> parts[i] = 0
  <2> DEFINE Mine == {s \in Subnet : nets[s] = i}
  <2>1. unfinished[i] = Cardinality(Mine)
    BY <1>1, <1>3, <1>4 DEF Countdown, Uncounted
  <2>2. IsFiniteSet(Mine)
    <3>1. Subnet = 1 .. Len(nets) /\ Len(nets) \in Nat
      BY <1>2, LenProperties DEF PipelineTypes, Subnet
    <3> QED BY <3>1, SubsetIsFinite
  <2>3. parts[i] = 0 <=> Mine = {}
    BY <1>1, <1>3, <1>4, AllCut
  <2> QED BY <2>1, <2>2, <2>3, FS_EmptySet
<1>6. ~Due(i) /\ \A j \in FileNets : Due(j)' <=> Due(j) \/ (j = i /\ parts[i] = 0)
  BY <1>3, <1>4, <1>5 DEF Due
<1>7. writer["main"] = "none"
  BY <1>1, <1>3 DEF Turns
<1>8. Once' /\ Delivered'
  <2>1. CASE parts[i] = 0
    BY <1>1, <1>3, <1>4, <1>6, <1>7, <2>1, NetQueued
  <2>2. CASE parts[i] # 0
    BY <1>1, <1>3, <1>6, <1>7, <2>2, NothingMoved
  <2> QED BY <2>1, <2>2
<1> QED BY <1>1, <1>8, InputIsTaken DEF DeliveryInv

(* The last subnet to be counted makes its net due.                            *)
LEMMA FinishDelivery ==
  ASSUME FlowInv, DeliveryInv, FinishRest \/ FinishOf, UNCHANGED inputVars
  PROVE  DeliveryInv'
<1>1. PipelineInv /\ Turns /\ Countdown /\ Once /\ Delivered /\ NoneMissed
  BY DEF FlowInv, DeliveryInv
<1>2. PipelineTypes /\ Published /\ Taken /\ Cut
  BY <1>1 DEF PipelineInv
<1>3. nets \in Seq(Nat) /\ Subnet = 1 .. Len(nets) /\ Len(nets) \in Nat
  BY <1>2, LenProperties DEF PipelineTypes, Subnet
<1>4. PICK s \in unlisted : /\ FinishNet(s) /\ mpc \in {"finish_rest", "finish_of"}
                            /\ unlisted \subseteq Subnet
  <2>1. CASE FinishRest
    <3>1. unlisted \subseteq Subnet /\ unlisted # {} /\ Subnet \subseteq Nat
      BY <1>1, <1>3, <2>1 DEF FinishRest, Countdown
    <3>2. Min(unlisted) \in unlisted
      BY <3>1, MinIsElement
    <3> QED BY <2>1, <3>1, <3>2 DEF FinishRest
  <2>2. CASE FinishOf
    BY <1>1, <2>2 DEF FinishOf, Countdown
  <2> QED BY <2>1, <2>2
<1> DEFINE i == nets[s]
<1>5. /\ unfinished' = [unfinished EXCEPT ![i] = @ - 1]
      /\ nets2output' = IF unfinished'[i] = 0 THEN Append(nets2output, i) ELSE nets2output
      /\ UNCHANGED <<mpc, writer, front, out_file, parts, subnets>>
  BY <1>4 DEF FinishNet, LastFinished, outputVars, inputVars, splitVars
<1>6. i \in FileNets
  <2>1. i \in 1 .. db_net_id
    BY <1>2, <1>3, <1>4 DEF Cut
  <2> QED BY <1>2, <2>1 DEF PipelineTypes, Published, Taken, FileNets
<1>7. unfinished[i] # 0
  <2> DEFINE Mine == {u \in Uncounted : nets[u] = i}
  <2>1. unfinished[i] = Cardinality(Mine)
    BY <1>1, <1>6 DEF Countdown
  <2>2. s \in Mine
    BY <1>4 DEF Uncounted
  <2>3. IsFiniteSet(Mine)
    <3>1. of_nets \subseteq Subnet
      BY DEF FlowInv, Progress
    <3>2. Mine \subseteq Subnet
      BY <1>4, <3>1 DEF Uncounted
    <3> QED BY <1>3, <3>2, SubsetIsFinite
  <2> QED BY <2>1, <2>2, <2>3, FS_EmptySet
<1>8. /\ unfinished \in [FileNets -> Int]
      /\ \A j \in FileNets : j # i => unfinished'[j] = unfinished[j]
  BY <1>2, <1>5, <1>6 DEF PipelineTypes
<1> HIDE DEF i
<1>9. ~Due(i) /\ \A j \in FileNets : Due(j)' <=> Due(j) \/ (j = i /\ unfinished'[i] = 0)
  BY <1>4, <1>5, <1>6, <1>7, <1>8 DEF Due
<1>10. writer["main"] = "none"
  BY <1>1, <1>4 DEF Turns
<1>11. Once' /\ Delivered'
  <2>1. CASE unfinished'[i] = 0
    BY <1>1, <1>5, <1>6, <1>9, <1>10, <2>1, NetQueued
  <2>2. CASE unfinished'[i] # 0
    BY <1>1, <1>5, <1>9, <1>10, <2>2, NothingMoved
  <2> QED BY <2>1, <2>2
<1> QED BY <1>1, <1>11, InputIsTaken DEF DeliveryInv

-----------------------------------------------------------------------------
(* DeliveryInv is inductive where FlowInv holds.                               *)
THEOREM DeliveryInvariance == Spec => []DeliveryInv
<1>1. Init => DeliveryInv
  BY InitDelivery
<1>2. FlowInv /\ DeliveryInv /\ [Next]_vars => DeliveryInv'
  <2> SUFFICES ASSUME FlowInv, DeliveryInv, [Next]_vars PROVE DeliveryInv'
    OBVIOUS
  <2>1. CASE PipelineNext /\ UNCHANGED routeVars
    BY <2>1, PipelineDelivery
  <2>2. CASE Router /\ UNCHANGED <<inputVars, unfinished>>
    BY <2>2, EnqueueDelivery, RouterDelivery
  <2>3. CASE (FinishRest \/ FinishOf) /\ UNCHANGED inputVars
    BY <2>3, FinishDelivery
  <2>4. CASE \E t \in Thread : Writer(t)
    BY <2>4, WriterDelivery
  <2>5. CASE UNCHANGED vars
    <3>1. /\ UNCHANGED inputVars
          /\ UNCHANGED <<unfinished, mpc, unlisted, nets2output, writer, front, out_file,
                         parts, subnets>>
      BY <2>5 DEF vars, pipelineVars, inputVars, splitVars, routeVars, stageVars, outputVars
    <3>2. NoneMissed'
      BY <3>1, InputIsTaken DEF DeliveryInv
    <3>3. Once' /\ Delivered'
      BY <3>1, NothingMoved DEF DeliveryInv, Due
    <3> QED BY <3>2, <3>3 DEF DeliveryInv
  <2> QED BY <2>1, <2>2, <2>3, <2>4, <2>5 DEF Next, Main
<1> QED BY <1>1, <1>2, FlowInvariance, PTL DEF Spec

(* The closed file holds every net once, with all of its subnets, wherever     *)
(* they overflowed and however the writers and the router interleaved.         *)
THEOREM EveryNetIsWritten == Spec => []EveryNetWritten
<1>1. FlowInv /\ DeliveryInv => EveryNetWritten
  <2> SUFFICES ASSUME FlowInv, DeliveryInv, mpc = "closed", NEW i \in FileNets
               PROVE  /\ Cardinality({k \in DOMAIN out_file : out_file[k][1] = i}) = 1
                      /\ \A k \in DOMAIN out_file :
                           out_file[k][1] = i => Len(out_file[k][2]) = parts[i]
    BY DEF EveryNetWritten
  <2>1. /\ PipelineInv /\ Turns /\ Countdown /\ OutputIsFinal
        /\ Once /\ Delivered /\ NoneMissed
    BY DEF FlowInv, DeliveryInv
  <2>2. DOMAIN out_file = 1 .. Len(out_file)
    BY <2>1, LenProperties DEF OutputIsFinal
  <2>3. Len(subnets[i]) = parts[i]
    BY <2>1, AllCut
  <2>4. Due(i)
    <3>1. unfinished[i] = Cardinality({s \in {} : nets[s] = i})
      BY <2>1 DEF Countdown, Uncounted
    <3>2. {s \in {} : nets[s] = i} = {}
      OBVIOUS
    <3> QED BY <3>1, <3>2, FS_EmptySet DEF Due
  <2>5. ~Queued(i) /\ ~Writing(i)
    <3>1. \A t \in Thread : writer[t] # "write"
      BY <2>1 DEF Turns, Thread, Phase
    <3>2. writer["main"] = "ended"
      BY <2>1 DEF Turns
    <3>3. Len(nets2output) = 0
      BY <2>1, <3>2 DEF Delivered
    <3> QED BY <3>1, <3>3 DEF Queued, Writing
  <2>6. PICK k \in 1 .. Len(out_file) : out_file[k][1] = i
    BY <2>1, <2>4, <2>5 DEF Delivered, Written
  <2>7. {l \in DOMAIN out_file : out_file[l][1] = i} = {k}
    BY <2>1, <2>2, <2>6 DEF Once
  <2>8. Cardinality({l \in DOMAIN out_file : out_file[l][1] = i}) = 1
    BY <2>7, FS_Singleton
  <2>9. \A l \in DOMAIN out_file : out_file[l][1] = i => Len(out_file[l][2]) = parts[i]
    BY <2>1, <2>2, <2>3 DEF Delivered
  <2> QED BY <2>8, <2>9
<1> QED BY <1>1, FlowInvariance, DeliveryInvariance, PTL
-----------------------------------------------------------------------------
(* What the input stage hands over: the nets list the subnets made of them,   *)
(* in the order they were made, with their number and half-perimeters.        *)
Listed ==
  /\ \A i \in FileNets : \A k, l \in 1 .. Len(subnets[i]) :
       k < l => subnets[i][k] < subnets[i][l]
  /\ \A s \in 1 .. Len(nets) : \E k \in 1 .. Len(subnets[nets[s]]) : subnets[nets[s]][k] = s
  /\ \A s, u \in 1 .. Len(nets) : s < u => nets[s] <= nets[u]

Counted ==
  /\ mpc = "input" => \A i \in FileNets : unfinished[i] = Len(subnets[i])
  /\ cpc # "split" => hpwl_done = Len(nets)

LEMMA SplitIsListed ==
  ASSUME PipelineInv, Listed, Counted, SplitNet, UNCHANGED <<parts, parserVars, mpc>>
  PROVE  Listed' /\ Counted'
<1> DEFINE c    == db_net_id + 1
           size == parts[c]
<1>1. PipelineTypes /\ Taken /\ Cut
  BY DEF PipelineInv
<1>2. /\ c \in FileNets /\ c \in Nat /\ size \in Nat /\ FileNets' = FileNets
      /\ cpc' = "split" /\ nets' \in Seq(Nat) /\ Len(nets') = Len(nets) + size
      /\ \A s \in 1 .. Len(nets') : nets'[s] = IF s <= Len(nets) THEN nets[s] ELSE c
      /\ Len(subnets'[c]) = size /\ \A k \in 1 .. size : subnets'[c][k] = Len(nets) + k
      /\ \A i \in FileNets : i # c => subnets'[i] = subnets[i]
      /\ unfinished'[c] = size
      /\ \A i \in FileNets : i # c => unfinished'[i] = unfinished[i]
  BY SplitAppends
<1>3. Len(nets) \in Nat /\ \A s \in 1 .. Len(nets) : nets[s] \in 1 .. c /\ nets[s] # c
                                                     /\ nets[s] \in FileNets
  <2>1. Len(nets) \in Nat /\ db_net_id \in Nat /\ Len(parts) \in Nat /\ c <= Len(parts)
    BY <1>1, <1>2 DEF PipelineTypes, FileNets
  <2>2. \A s \in 1 .. Len(nets) : nets[s] \in 1 .. db_net_id
    BY <1>1 DEF Cut
  <2> QED BY <2>1, <2>2 DEF FileNets
<1> HIDE DEF c, size
<1>4. \A i \in FileNets : \A k, l \in 1 .. Len(subnets'[i]) :
        k < l => subnets'[i][k] < subnets'[i][l]
  <2>1. \A k, l \in 1 .. size : k < l => subnets'[c][k] < subnets'[c][l]
    BY <1>2, <1>3
  <2> QED BY <1>2, <2>1 DEF Listed
<1>5. ASSUME NEW s \in 1 .. Len(nets')
      PROVE  /\ s <= Len(nets) => s \in 1 .. Len(nets) /\ nets'[s] = nets[s]
             /\ ~ (s <= Len(nets)) => s - Len(nets) \in 1 .. size /\ nets'[s] = c
  BY <1>2, <1>3
<1>6. ASSUME NEW s \in 1 .. Len(nets')
      PROVE  \E k \in 1 .. Len(subnets'[nets'[s]]) : subnets'[nets'[s]][k] = s
  <2>1. CASE s <= Len(nets)
    <3>1. subnets'[nets'[s]] = subnets[nets[s]] /\ s \in 1 .. Len(nets)
      BY <1>2, <1>3, <1>5, <2>1
    <3> QED BY <3>1 DEF Listed
  <2>2. CASE ~ (s <= Len(nets))
    <3>1. Len(nets) + (s - Len(nets)) = s
      BY <1>2, <1>3
    <3> QED BY <1>2, <1>5, <2>2, <3>1
  <2> QED BY <2>1, <2>2
<1>7. ASSUME NEW s \in 1 .. Len(nets'), NEW u \in 1 .. Len(nets'), s < u
      PROVE  nets'[s] <= nets'[u]
  <2>1. CASE u <= Len(nets)
    <3>1. s <= Len(nets)
      BY <1>3, <1>7, <2>1
    <3> QED BY <1>5, <1>7, <2>1, <3>1 DEF Listed
  <2>2. CASE ~ (u <= Len(nets))
    <3>1. nets'[u] = c
      BY <1>5, <2>2
    <3>2. nets'[s] \in 1 .. c
      <4>1. CASE s <= Len(nets)
        BY <1>3, <1>5, <4>1
      <4>2. CASE ~ (s <= Len(nets))
        BY <1>2, <1>5, <4>2 DEF FileNets
      <4> QED BY <4>1, <4>2
    <3> QED BY <1>2, <3>1, <3>2
  <2> QED BY <2>1, <2>2
<1>8. Listed'
  BY <1>2, <1>4, <1>6, <1>7 DEF Listed
<1>9. Counted'
  BY <1>2 DEF Counted
<1> QED BY <1>8, <1>9

THEOREM ListedInvariance == Spec => [](Listed /\ Counted)
<1>1. Init => Listed /\ Counted
  <2> SUFFICES ASSUME Init PROVE Listed /\ Counted
    OBVIOUS
  <2>1. /\ nets = <<>> /\ hpwl_done = 0
        /\ \A i \in FileNets : subnets[i] = <<>> /\ unfinished[i] = 0
    BY DEF Init, PipelineInit
  <2>2. Len(<<>>) = 0
    OBVIOUS
  <2> QED BY <2>1, <2>2 DEF Listed, Counted
<1>2. FlowInv /\ Listed /\ Counted /\ [Next]_vars => Listed' /\ Counted'
  <2> SUFFICES ASSUME FlowInv, Listed, Counted, [Next]_vars PROVE Listed' /\ Counted'
    OBVIOUS
  <2>1. CASE SplitNet /\ UNCHANGED <<parts, parserVars, mpc>>
    BY <2>1, SplitIsListed DEF FlowInv
  <2>2. CASE /\ UNCHANGED <<parts, nets, subnets>>
             /\ cpc' # "split" => hpwl_done' = Len(nets)
             /\ mpc' = "input" => mpc = "input" /\ unfinished' = unfinished
    <3>1. FileNets' = FileNets
      BY <2>2 DEF FileNets
    <3>2. Listed'
      BY <2>2, <3>1 DEF Listed
    <3>3. Counted'
      BY <2>2, <3>1 DEF Counted
    <3> QED BY <3>2, <3>3
  <2>3. CASE PipelineNext /\ UNCHANGED routeVars
    <3>1. mpc' = mpc
      BY <2>3 DEF routeVars
    <3>2. CASE Parser
      <4>1. UNCHANGED <<parts, nets, subnets, cpc, hpwl_done, unfinished>>
        BY <3>2 DEF Parser, loopVars, splitVars
      <4> QED BY <2>2, <3>1, <4>1 DEF Counted
    <3>3. CASE Consumer
      <4>1. CASE SplitNet
        BY <2>1, <3>1, <3>3, <4>1 DEF Consumer
      <4>2. CASE AwaitCap \/ ReadFlag \/ ReadCount \/ Test \/ CalcHpwl
        <5>1. UNCHANGED <<parts, nets, subnets, unfinished>>
          BY <3>3, <4>2 DEF Consumer, AwaitCap, ReadFlag, ReadCount, Test, CalcHpwl, splitVars
        <5>2. cpc' # "split" => hpwl_done' = Len(nets)
          BY <4>2 DEF AwaitCap, ReadFlag, ReadCount, Test, CalcHpwl, Counted
        <5> QED BY <2>2, <3>1, <5>1, <5>2
      <4> QED BY <3>3, <4>1, <4>2 DEF Consumer
    <3> QED BY <2>3, <3>2, <3>3 DEF PipelineNext
  <2>4. CASE Main \/ (\E t \in Thread : Writer(t))
    <3>1. UNCHANGED <<parts, nets, subnets, cpc, hpwl_done>>
      BY <2>4 DEF Main, Writer, inputVars, loopVars, splitVars
    <3>2. mpc' = "input" => mpc = "input" /\ unfinished' = unfinished
      <4>1. CASE Router /\ UNCHANGED unfinished
        BY <4>1 DEF Router, BuildDatabase, Enqueue, StartWriter1, EndStage1, Ripup,
           StartWriter2, EndStage2, StartOutput, Close, Route, Rip, Reroute
      <4>2. CASE FinishRest \/ FinishOf
        BY <4>2 DEF FinishRest, FinishOf, FinishNet
      <4>3. CASE \E t \in Thread : Writer(t)
        BY <4>3 DEF Writer, output_nets, TakeNet, WriteSubnet, EndNet
      <4> QED BY <2>4, <4>1, <4>2, <4>3 DEF Main
    <3> QED BY <2>2, <3>1, <3>2 DEF Counted
  <2>5. CASE UNCHANGED vars
    <3>1. UNCHANGED <<parts, nets, subnets, cpc, hpwl_done, mpc, unfinished>>
      BY <2>5 DEF vars, pipelineVars, loopVars, splitVars, routeVars
    <3> QED BY <2>2, <3>1 DEF Counted
  <2> QED BY <2>3, <2>4, <2>5 DEF Next
<1> QED BY <1>1, <1>2, FlowInvariance, PTL DEF Spec

(* However the parser and the consumer interleave, and whatever the number of  *)
(* nets and of subnets, route() starts from every net of the file, cut once:   *)
(* its subnets are listed and counted, and no other subnet exists.             *)
THEOREM InputIsComplete == Spec => []NothingLost
<1>1. FlowInv /\ DeliveryInv /\ Listed /\ Counted => NothingLost
  <2> SUFFICES ASSUME FlowInv, DeliveryInv, Listed, Counted, ppc = "built", mpc = "input"
               PROVE  EveryNetSplit
    BY DEF NothingLost
  <2>1. PipelineTypes /\ Published /\ Taken /\ Cut /\ Turns /\ NoneMissed
    BY DEF FlowInv, PipelineInv, DeliveryInv
  <2>2. db_net_id = Len(parts) /\ cpc = "done"
    BY <2>1 DEF Turns, Taken, NoneMissed
  <2>3. \A i \in FileNets : Len(subnets[i]) = parts[i] /\ unfinished[i] = parts[i]
    BY <2>1, <2>2 DEF Cut, FileNets, Counted
  <2>4. DOMAIN nets = 1 .. Len(nets)
        /\ \A i \in FileNets : DOMAIN subnets[i] = 1 .. Len(subnets[i])
    BY <2>1, LenProperties DEF PipelineTypes
  <2>5. \A s \in 1 .. Len(nets) : nets[s] \in FileNets
    BY <2>1, <2>2 DEF Cut, FileNets
  <2>6. \A s \in 1 .. Len(nets) : s \in ToSet(subnets[nets[s]])
    BY <2>4, <2>5 DEF Listed, ToSet
  <2>7. hpwl_done = Len(nets)
    BY <2>2 DEF Counted
  <2> QED BY <2>1, <2>3, <2>4, <2>5, <2>6, <2>7 DEF EveryNetSplit, Cut, Listed
<1> QED BY <1>1, FlowInvariance, DeliveryInvariance, ListedInvariance, PTL
=============================================================================
