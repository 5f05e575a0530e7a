----------------------------- MODULE NetPipeline ------------------------------
(***************************************************************************)
(* The input stage: main() reads the capacity file and the nets (db::read) *)
(* while a second thread, build_nets_from_parse, cuts the nets that are    *)
(* ready into the subnets the router works on.  Three atomics are all the  *)
(* two share: db_cap_parsed, db_parsed_net_count and db_parse_finished.    *)
(* They are stored with release and loaded with acquire, so what a thread  *)
(* wrote before its store is seen by the thread that reads the new value;  *)
(* the interleaving of whole steps is what is left to explore.             *)
(*                                                                         *)
(* How a net with too many pins is cut is the subject of NetSplit; here    *)
(* the number of subnets is part of the file.                              *)
(***************************************************************************)
EXTENDS Integers, Sequences, SequencesExt

CONSTANTS MaxNets, MaxParts    \* bounds on the file: nets, subnets of a net

ASSUME PipelineAssumption == MaxNets \in Nat \ {0} /\ MaxParts \in Nat \ {0}

VARIABLES
  parts,                       \* the net file: subnets of each net, 0 for one pin
  ppc,                         \* the parser, main()
  grid,                        \* db::L, X, Y: "unset" or "read"
  db_nets,                     \* each net read so far: "named" or "ready"
  db_cap_parsed, db_parsed_net_count, db_parse_finished,
  cpc,                         \* the consumer, net_split_thread
  cuda_grid,                   \* L, X, Y as the consumer copied them
  parse_done, available, consumed, db_net_id, hpwl_done,
  nets,                        \* original_net_id of each subnet
  subnets, unfinished          \* of each db net: its subnets, their number

parserVars == <<ppc, grid, db_nets, db_cap_parsed, db_parsed_net_count,
                db_parse_finished>>
splitVars  == <<cuda_grid, nets, subnets>>
loopVars   == <<cpc, parse_done, available, consumed, db_net_id, hpwl_done>>

FileNets == 1 .. Len(parts)

PipelineInit ==
  /\ parts \in UNION {[1 .. n -> 0 .. MaxParts] : n \in 1 .. MaxNets}
  /\ ppc = "cap" /\ grid = "unset" /\ db_nets = <<>>
  /\ db_cap_parsed = FALSE /\ db_parsed_net_count = 0 /\ db_parse_finished = FALSE
  /\ cpc = "cap" /\ cuda_grid = "unset"
  /\ parse_done = FALSE /\ available = 0 /\ consumed = 0 /\ db_net_id = 0 /\ hpwl_done = 0
  /\ nets = <<>>
  /\ subnets = [i \in FileNets |-> <<>>] /\ unfinished = [i \in FileNets |-> 0]
-----------------------------------------------------------------------------
(* The parser *)

ParseCap ==
  /\ ppc = "cap"
  /\ grid' = "read" /\ db_cap_parsed' = TRUE
  /\ ppc' = "append"
  /\ UNCHANGED <<db_nets, db_parsed_net_count, db_parse_finished>>

\* The net file does not open: the exception leaves main() and the process ends.
\* (A capacity file that does not open is only reported, and read all the same.)
OpenFails ==
  /\ ppc = "append" /\ db_nets = <<>>
  /\ ppc' = "failed"
  /\ UNCHANGED <<grid, db_nets, db_cap_parsed, db_parsed_net_count, db_parse_finished>>

\* mutant: the count is what the vector holds
CountAppended == Len(db_nets) + 1

\* emplace_back leaves the count alone
CountAfterAppend == db_parsed_net_count

AppendNet ==
  /\ ppc = "append"
  /\ db_nets' = Append(db_nets, "named")
  /\ db_parsed_net_count' = CountAfterAppend
  /\ ppc' = "init"
  /\ UNCHANGED <<grid, db_cap_parsed, db_parse_finished>>

InitNet ==
  /\ ppc = "init"
  /\ db_nets' = [db_nets EXCEPT ![Len(db_nets)] = "ready"]
  /\ ppc' = "publish"
  /\ UNCHANGED <<grid, db_cap_parsed, db_parsed_net_count, db_parse_finished>>

PublishNet ==
  /\ ppc = "publish"
  /\ db_parsed_net_count' = Len(db_nets)
  /\ ppc' = IF Len(db_nets) = Len(parts) THEN "finish" ELSE "append"
  /\ UNCHANGED <<grid, db_nets, db_cap_parsed, db_parse_finished>>

FinishParse ==
  /\ ppc = "finish"
  /\ db_parse_finished' = TRUE
  /\ ppc' = "join"
  /\ UNCHANGED <<grid, db_nets, db_cap_parsed, db_parsed_net_count>>

\* net_split_thread.join()
Join ==
  /\ ppc = "join" /\ cpc = "done"
  /\ ppc' = "built"
  /\ UNCHANGED <<grid, db_nets, db_cap_parsed, db_parsed_net_count, db_parse_finished>>

Parser ==
  /\ ParseCap \/ OpenFails \/ AppendNet \/ InitNet \/ PublishNet \/ FinishParse \/ Join
  /\ UNCHANGED <<parts, loopVars, splitVars, unfinished>>
-----------------------------------------------------------------------------
(* The consumer *)

AwaitCap ==
  /\ cpc = "cap" /\ db_cap_parsed
  /\ cuda_grid' = grid
  /\ cpc' = "flag"
  /\ UNCHANGED <<parse_done, available, consumed, db_net_id, hpwl_done, nets, subnets, unfinished>>

ReadFlag ==
  /\ cpc = "flag"
  /\ parse_done' = db_parse_finished
  /\ cpc' = "count"
  /\ UNCHANGED <<available, consumed, db_net_id, hpwl_done, splitVars, unfinished>>

ReadCount ==
  /\ cpc = "count"
  /\ available' = db_parsed_net_count
  /\ cpc' = "test"
  /\ UNCHANGED <<parse_done, consumed, db_net_id, hpwl_done, splitVars, unfinished>>

\* mutant: the flag is read after the count
FlagNow == db_parse_finished
NoMore == parse_done

Test ==
  /\ cpc = "test"
  /\ db_net_id' = consumed
  /\ cpc' = IF consumed < available THEN "split" ELSE IF NoMore THEN "done" ELSE "flag"
  /\ UNCHANGED <<parse_done, available, consumed, hpwl_done, splitVars, unfinished>>

\* The subnets made of a net.  A net that is only named has no pins yet and
\* would pass as a small net.
Parts(i) == IF db_nets[i] = "ready" THEN parts[i] ELSE 1

SplitNet ==
  /\ cpc = "split" /\ db_net_id < available
  /\ LET i == db_net_id + 1 IN
       /\ nets' = nets \o [k \in 1 .. Parts(i) |-> i]
       /\ subnets' = [subnets EXCEPT ![i] = [k \in 1 .. Parts(i) |-> Len(nets) + k]]
       /\ unfinished' = [unfinished EXCEPT ![i] = Parts(i)]
       /\ db_net_id' = i
  /\ UNCHANGED <<cpc, parse_done, available, consumed, hpwl_done, cuda_grid>>

CalcHpwl ==
  /\ cpc = "split" /\ db_net_id = available
  /\ hpwl_done' = Len(nets)
  /\ consumed' = available
  /\ cpc' = "flag"
  /\ UNCHANGED <<parse_done, available, db_net_id, splitVars, unfinished>>

Consumer ==
  /\ ppc # "failed"
  /\ AwaitCap \/ ReadFlag \/ ReadCount \/ Test \/ SplitNet \/ CalcHpwl
  /\ UNCHANGED <<parts, parserVars>>
-----------------------------------------------------------------------------
pipelineVars == <<parts, parserVars, loopVars, splitVars, unfinished>>

PipelineNext == Parser \/ Consumer

-----------------------------------------------------------------------------
\* The comment in global.h promises that entries below db_parsed_net_count can be
\* read without a lock: whatever the consumer has cut was complete when it did,
\* and it was cut on the grid of the capacity file.
SplitsReadyNets ==
  /\ cpc # "cap" => cuda_grid = "read"
  /\ \A i \in 1 .. db_net_id : /\ db_nets[i] = "ready"
                               /\ subnets[i] # <<>> <=> parts[i] > 0

\* What build_nets_from_parse owes the router: each net lists the subnets of the
\* file, in the order in which they were made, and there are no others; the nets
\* are in the order of the file, and every half-perimeter is known.
EveryNetSplit ==
  /\ \A i \in FileNets :
       /\ Len(subnets[i]) = parts[i] /\ unfinished[i] = parts[i]
       /\ \A k \in DOMAIN subnets[i] : /\ subnets[i][k] \in DOMAIN nets
                                       /\ nets[subnets[i][k]] = i
       /\ \A k, l \in DOMAIN subnets[i] : k < l => subnets[i][k] < subnets[i][l]
  /\ \A s \in DOMAIN nets : nets[s] \in FileNets /\ s \in ToSet(subnets[nets[s]])
  /\ \A s, u \in DOMAIN nets : s < u => nets[s] <= nets[u]
  /\ hpwl_done = Len(nets)
=============================================================================
