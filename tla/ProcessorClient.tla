-------------------------- MODULE ProcessorClient ---------------------------
(***************************************************************************)
(* Polyglot.ProcessorClient (lib/polyglot/processor_client.ex): a caller   *)
(* asks the circuit breaker to run GRPCClient.process_event.  The caller in*)
(* lib/ is the Task that EventPipeline.push_event starts per event         *)
(* (event_pipeline.ex:23-27), so an event stands for its caller too; what  *)
(* the Task does with the result is not modelled.  The module composes the *)
(* breaker with the client that runs inside its process.  A function       *)
(* survives its caller's timeout; `funs' holds those of the requests in    *)
(* the breaker's mailbox.                                                  *)
(*                                                                         *)
(* process_event returns {:error, _} for whatever it catches, and nothing  *)
(* in it exits: the breaker does not crash here, sees no failure and stays *)
(* closed.  So Breaker!Reject is not among the steps.                      *)
(***************************************************************************)
EXTENDS GRPCClient, Sequences

CONSTANTS
    Gone,         \* sender of a request whose caller has given up
    FailureThreshold, RecoveryTimeout, CallTimeout,   \* of the breaker
    HttpReliable  \* events in whose calls the HTTP port answers in time

ASSUME CompositionAssumption ==
    /\ Gone \notin Events \cup {NoEvent}
    /\ {FailureThreshold, RecoveryTimeout, CallTimeout} \subseteq Nat \ {0}

VARIABLES
    up, state, failures, sinceFailure, mailbox, serving,    \* of the breaker
    caller, waited, started, streak, raises, quiet,
    funs,    \* the event of each request in the mailbox
    errors   \* history: calls of process_event in a row that ended in {:error, _}

breaker == <<up, state, failures, sinceFailure, mailbox, serving,
             caller, waited, started, streak, raises, quiet>>
vars == <<breaker, client, funs, errors>>

Breaker == INSTANCE CircuitBreaker WITH
               Callers <- Events, NoOne <- NoEvent, MailboxBound <- Cardinality(Events)

Init ==
    /\ Breaker!Init
    /\ ClientInit
    /\ funs = <<>>
    /\ errors = 0

-----------------------------------------------------------------------------
\* process_event: CircuitBreaker.call with a function for e.
ProcessEvent(e) ==
    /\ caller[e] = "idle"
    /\ Breaker!Post(e, "call")
    /\ funs' = Append(funs, e)
    /\ UNCHANGED <<client, errors>>

GiveUp(e) ==
    /\ Breaker!GiveUp(e)
    /\ UNCHANGED <<client, funs, errors>>

\* Fault variant of FunOfRequest: the function of the latest request.
FunOfRequestLatest == funs[Len(funs)]

\* The function that came with the request the breaker takes.
FunOfRequest == Head(funs)

\* The breaker runs the function: GRPCClient.process_event begins.
StartFun ==
    /\ Breaker!StartFun
    /\ Begin(FunOfRequest)
    /\ funs' = Tail(funs)
    /\ UNCHANGED errors

\* process_event has returned, {:error, _} included: so has the function.
FunEnds(result) == Breaker!FunReturns

\* The client works inside the breaker's process.
ClientStep ==
    /\ \/ GrpcStep
       \/ SendHttp \/ HttpReply
       \/ event \notin HttpReliable /\ HttpFails
    /\ IF stage' = "idle"
       THEN /\ FunEnds(verdict'[event])
            /\ errors' = IF verdict'[event] = "error"
                         THEN Breaker!Bounded(errors, FailureThreshold) ELSE 0
       ELSE UNCHANGED <<breaker, errors>>
    /\ UNCHANGED funs

ProcessorExecutes(r) ==
    /\ Execute(r)
    /\ UNCHANGED <<breaker, funs, errors>>

RequestLost(r) ==
    /\ r[3] = "rpc" \/ r[1] \notin HttpReliable
    /\ Lose(r)
    /\ UNCHANGED <<breaker, funs, errors>>

Tick ==
    /\ Breaker!Tick
    /\ UNCHANGED <<client, funs, errors>>

Next ==
    \/ \E e \in Events : ProcessEvent(e) \/ GiveUp(e)
    \/ StartFun \/ ClientStep
    \/ \E r \in pending : ProcessorExecutes(r) \/ RequestLost(r)
    \/ Tick

Spec == Init /\ [][Next]_vars

\* The breaker and the client run on; requests over a reliable port are executed.
FairSpec ==
    /\ Spec
    /\ WF_vars(StartFun)
    /\ WF_vars(ClientStep)
    /\ WF_vars(\E r \in pending : r[3] = "http" /\ r[1] \in HttpReliable /\ ProcessorExecutes(r))

-----------------------------------------------------------------------------
(* Properties.                                                             *)

\* Every request in the breaker's mailbox keeps its own function, and the one being
\* served is answered with the result of its own event, although callers that gave
\* up leave their functions behind (processor_client.ex:22-26).
OwnReply ==
    /\ Len(funs) = Len(mailbox)
    /\ \A i \in 1 .. Len(funs) : mailbox[i].from \in {funs[i], Gone}
    /\ serving # NoEvent => serving \in {event, Gone}
    /\ \A e \in Events : caller[e] = "ok" => verdict[e] # "none"

\* benchmarks/chaos/README.md:26: "Circuit breaker should open after 5 consecutive
\* failures", here FailureThreshold of them.
OpensAfterFailures == errors >= FailureThreshold => state # "closed"

\* Under FairSpec: every event handed to the breaker that finds the HTTP port
\* reliable is executed by the processor, even if gRPC fails throughout, other
\* events fail on both ways and its caller gives up first:
\* benchmarks/chaos/README.md:173, "No request loss".
NoRequestLoss ==
    \A e \in HttpReliable :
        caller[e] = "waiting" ~> \E r \in handled \cup refused : r[1] = e
=============================================================================
