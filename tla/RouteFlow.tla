------------------------------ MODULE RouteFlow -------------------------------
(***************************************************************************)
(* main() from the input stage to the last line of the output file.  The   *)
(* subnets are routed (Stage 1), those that overflow are ripped up and     *)
(* routed again (Stage 2), and while a stage runs a writer thread writes   *)
(* the nets that are final already: those of one pin during Stage 1, those *)
(* with no overflowing subnet during Stage 2.  The rest is written at the  *)
(* end by main() itself.                                                   *)
(*                                                                         *)
(* nets2output is a plain std::queue and out_file is written with          *)
(* putc_unlocked: nothing but the order of the steps protects them, nor    *)
(* the routes a writer reads while the router changes others.              *)
(***************************************************************************)
EXTENDS NetPipeline, FiniteSets

VARIABLES
  mpc,                         \* where main() is in route()
  unlisted,                    \* subnets finish_nets has still to count; before
                               \* Stage 1 the nets not yet looked at
  of_nets,                     \* subnets that overflow; the others do not
  routes,                      \* subnet -> times it has been routed, or Moving
  nets2output,
  writer,                      \* thread -> "none", "test", "write", "ended"
  front,                       \* thread -> the net it writes
  written,                     \* thread -> subnets of that net written so far
  out_file                     \* lines <<net, subnet -> its route then>>

stageVars  == <<of_nets, routes>>
outputVars == <<writer, front, written, out_file>>
routeVars  == <<mpc, unlisted, stageVars, nets2output, outputVars>>
inputVars  == <<parts, parserVars, loopVars, splitVars>>

Thread == {"writer1", "writer2", "main"}
Moving == -1
Subnet == DOMAIN nets

Init ==
  /\ PipelineInit
  /\ mpc = "input" /\ unlisted = {}
  /\ of_nets = {} /\ routes = <<>>
  /\ nets2output = <<>>
  /\ writer = [t \in Thread |-> "none"] /\ front = [t \in Thread |-> 0]
  /\ written = [t \in Thread |-> <<>>] /\ out_file = <<>>
-----------------------------------------------------------------------------
(* output_nets *)

Started(t) == [writer EXCEPT ![t] = "test"]

\* mutant: the writer waits for more
KeepsWaiting(t) == UNCHANGED writer

EndsWriter(t) == writer' = [writer EXCEPT ![t] = "ended"]

\* nets2output.empty(), front() and pop()
TakeNet(t) ==
  /\ writer[t] = "test"
  /\ IF nets2output = <<>>
     THEN /\ EndsWriter(t)
          /\ UNCHANGED <<nets2output, front, written>>
     ELSE /\ writer' = [writer EXCEPT ![t] = "write"]
          /\ front' = [front EXCEPT ![t] = Head(nets2output)]
          /\ written' = [written EXCEPT ![t] = <<>>]
          /\ nets2output' = Tail(nets2output)
  /\ UNCHANGED <<mpc, unlisted, stageVars, out_file>>

WriteSubnet(t) ==
  /\ writer[t] = "write" /\ Len(written[t]) < Len(subnets[front[t]])
  /\ written' = [written EXCEPT ![t] =
                   Append(@, routes[subnets[front[t]][Len(@) + 1]])]
  /\ UNCHANGED <<mpc, unlisted, stageVars, nets2output, writer, front, out_file>>

EndNet(t) ==
  /\ writer[t] = "write" /\ Len(written[t]) = Len(subnets[front[t]])
  /\ out_file' = Append(out_file, <<front[t], written[t]>>)
  /\ writer' = [writer EXCEPT ![t] = "test"]
  /\ UNCHANGED <<mpc, unlisted, stageVars, nets2output, front, written>>

output_nets(t) == TakeNet(t) \/ WriteSubnet(t) \/ EndNet(t)
-----------------------------------------------------------------------------
(* route() *)

BuildDatabase ==
  /\ mpc = "input" /\ ppc = "built"
  /\ routes' = [s \in Subnet |-> 0]
  /\ mpc' = "enqueue" /\ unlisted' = FileNets
  /\ UNCHANGED <<of_nets, nets2output, outputVars>>

\* The nets of one pin are in the queue before the first writer starts.
Enqueue ==
  /\ mpc = "enqueue" /\ unlisted # {}
  /\ LET i == Min(unlisted) IN
       /\ nets2output' = IF parts[i] = 0 THEN Append(nets2output, i) ELSE nets2output
       /\ unlisted' = unlisted \ {i}
  /\ UNCHANGED <<mpc, stageVars, outputVars>>

StartWriter1 ==
  /\ mpc = "enqueue" /\ unlisted = {}
  /\ writer' = Started("writer1")
  /\ mpc' = "stage1"
  /\ UNCHANGED <<unlisted, stageVars, nets2output, front, written, out_file>>

\* Subnets are routed in some order of batches.
Route(s) ==
  /\ mpc = "stage1" /\ routes[s] = 0
  /\ routes' = [routes EXCEPT ![s] = 1]
  /\ UNCHANGED <<mpc, unlisted, of_nets, nets2output, outputVars>>

\* mutant: the writer is left alone
Detached(t) == writer[t] # "none"

Joinable(t) == writer[t] = "ended"

\* The end of Stage 1 and output_thread1.join()
EndStage1 ==
  /\ mpc = "stage1" /\ \A s \in Subnet : routes[s] = 1
  /\ Joinable("writer1")
  /\ mpc' = "ripup"
  /\ UNCHANGED <<unlisted, stageVars, nets2output, outputVars>>

\* Any subnet may have more than twelve overflowing edges.
Ripup ==
  /\ mpc = "ripup"
  /\ of_nets' \in SUBSET Subnet
  /\ mpc' = "finish_rest" /\ unlisted' = Subnet \ of_nets'
  /\ UNCHANGED <<routes, nets2output, outputVars>>

\* mutants: the first subnet to be finished releases its net; the count is
\* tested before it is lowered
AnyFinished(left) == TRUE
TestedBefore(left) == left = 1

LastFinished(left) == left = 0

\* One turn of finish_nets: the count of the net of s goes down.
FinishNet(s) ==
  LET i == nets[s] IN
  /\ unfinished' = [unfinished EXCEPT ![i] = @ - 1]
  /\ nets2output' = IF LastFinished(unfinished'[i])
                     THEN Append(nets2output, i) ELSE nets2output
  /\ unlisted' = unlisted \ {s}
  /\ UNCHANGED <<mpc, stageVars, outputVars>>

\* of_nets.second is in the order of the ids
FinishRest == mpc = "finish_rest" /\ unlisted # {} /\ FinishNet(Min(unlisted))

StartWriter2 ==
  /\ mpc = "finish_rest" /\ unlisted = {}
  /\ writer' = Started("writer2")
  /\ mpc' = "stage2"
  /\ UNCHANGED <<unlisted, stageVars, nets2output, front, written, out_file>>

\* The batch of s takes its demand back and routes it anew, over the old route.
Rip(s) ==
  /\ mpc = "stage2" /\ s \in of_nets /\ routes[s] = 1
  /\ routes' = [routes EXCEPT ![s] = Moving]
  /\ UNCHANGED <<mpc, unlisted, of_nets, nets2output, outputVars>>

Reroute(s) ==
  /\ mpc = "stage2" /\ s \in of_nets /\ routes[s] = Moving
  /\ routes' = [routes EXCEPT ![s] = 2]
  /\ UNCHANGED <<mpc, unlisted, of_nets, nets2output, outputVars>>

\* The end of Stage 2 (at once when nothing overflows) and output_thread2.join()
EndStage2 ==
  /\ mpc = "stage2" /\ \A s \in of_nets : routes[s] = 2
  /\ Joinable("writer2")
  /\ mpc' = "finish_of" /\ unlisted' = of_nets
  /\ UNCHANGED <<stageVars, nets2output, outputVars>>

\* of_nets.first: the wrapper has sorted it by half-perimeter
FinishOf == mpc = "finish_of" /\ \E s \in unlisted : FinishNet(s)

StartOutput ==
  /\ mpc = "finish_of" /\ unlisted = {}
  /\ writer' = Started("main")
  /\ mpc' = "output"
  /\ UNCHANGED <<unlisted, stageVars, nets2output, front, written, out_file>>

Close ==
  /\ mpc = "output" /\ writer["main"] = "ended"
  /\ mpc' = "closed"
  /\ UNCHANGED <<unlisted, stageVars, nets2output, outputVars>>

Router ==
  \/ BuildDatabase \/ Enqueue \/ StartWriter1 \/ EndStage1 \/ Ripup \/ StartWriter2
  \/ EndStage2 \/ StartOutput \/ Close
  \/ \E s \in Subnet : Route(s) \/ Rip(s) \/ Reroute(s)

Main == \/ Router /\ UNCHANGED <<inputVars, unfinished>>
        \/ (FinishRest \/ FinishOf) /\ UNCHANGED inputVars

Writer(t) == output_nets(t) /\ UNCHANGED <<inputVars, unfinished>>

vars == <<pipelineVars, routeVars>>

Next == \/ PipelineNext /\ UNCHANGED routeVars
        \/ Main
        \/ \E t \in Thread : Writer(t)

\* Every thread keeps running.
Spec ==
  /\ Init /\ [][Next]_vars
  /\ WF_vars(Parser /\ UNCHANGED routeVars)
  /\ WF_vars(Consumer /\ UNCHANGED routeVars)
  /\ WF_vars(Main)
  /\ \A t \in Thread : WF_vars(Writer(t))
-----------------------------------------------------------------------------
\* When the two threads have joined, no net has been missed at the end of the
\* file: the subnets are those of the file, in its order, each listed by its net
\* with the count finish_nets will run down, and each has its half-perimeter.
NothingLost == ppc = "built" /\ mpc = "input" => EveryNetSplit

\* The queue and the file are used by one thread at a time: a writer by itself,
\* or main() while it fills the queue.
Fills == mpc \in {"enqueue", "finish_rest", "finish_of"}
OneUser ==
  LET Users == {t \in Thread : writer[t] \in {"test", "write"}}
  IN  Cardinality(Users) + (IF Fills THEN 1 ELSE 0) <= 1

\* What a writer writes is final: it never reads a route that Stage 2 has ripped
\* up or will route again, although it reads them while Stage 2 runs.
WrittenIsFinal ==
  LET Settled(i, seen) ==
        \A k \in DOMAIN seen : /\ seen[k] > 0
                               /\ seen[k] = routes[subnets[i][k]]
  IN  /\ \A k \in DOMAIN out_file : Settled(out_file[k][1], out_file[k][2])
      /\ \A t \in Thread : writer[t] = "write" => Settled(front[t], written[t])

\* When the file is closed every net of the input is in it once, with all of its
\* subnets, whatever the number of subnets and wherever they overflowed.
EveryNetWritten ==
  mpc = "closed" =>
    \A i \in FileNets :
      /\ Cardinality({k \in DOMAIN out_file : out_file[k][1] = i}) = 1
      /\ \A k \in DOMAIN out_file :
           out_file[k][1] = i => Len(out_file[k][2]) = parts[i]

\* The threads never wait for one another for ever.
Closes == <>(mpc = "closed" \/ ppc = "failed")
=============================================================================
