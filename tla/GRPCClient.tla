----------------------------- MODULE GRPCClient -----------------------------
(***************************************************************************)
(* Polyglot.GRPCClient (lib/polyglot/grpc_client.ex): process_event tries  *)
(* gRPC up to @retry_count times and then posts the event once over HTTP.  *)
(* Calls come one after the other: their only caller runs them inside the  *)
(* circuit breaker's process (processor_client.ex:22-26).                  *)
(*                                                                         *)
(* The client is at one of these points:                                   *)
(*   idle     no call                                                      *)
(*   connect  about to make a gRPC call: get_channel                       *)
(*   rpc      waiting for the answer of Stub.process                       *)
(*   sleep    Process.sleep between attempts                               *)
(*   post     about to post over HTTP                                      *)
(*   http     waiting for the answer of HTTPoison.post                     *)
(* A request whose answer the client has stopped waiting for may still be  *)
(* executed by the Go processor, at any later time, or never.              *)
(* ProcessorClient composes the client with the breaker that runs it.      *)
(***************************************************************************)
EXTENDS Naturals, FiniteSets

CONSTANTS
    Events,       \* the calls of process_event, one value each
    NoEvent,      \* value of `event' when there is no call
    RetryCount,   \* @retry_count
    UseGrpc,      \* @use_grpc
    StubDefined,  \* does the module Polyglot.Pb.Processor.Stub exist?
    Convertible,  \* events event_to_pb converts; it raises on the others
    Unfit         \* events the C++ driver may fail on

ASSUME ClientAssumption ==
    /\ NoEvent \notin Events
    /\ RetryCount \in Nat \ {0}
    /\ UseGrpc \in BOOLEAN
    /\ StubDefined \in BOOLEAN
    /\ Convertible \subseteq Events
    /\ Unfit \subseteq Events

VARIABLES
    event,     \* argument of the current call
    stage,     \* where the client is
    attempt,   \* argument of try_grpc_process
    sent,      \* number of requests sent for each event
    pending,   \* requests on their way to the processor or being executed
    handled,   \* requests executed, processEvent returned nil
    refused,   \* requests executed, processEvent returned an error
    verdict    \* result of each call: {:ok, _} or {:error, _}

server == <<pending, handled, refused>>
callVars == <<event, stage, attempt, sent, verdict>>
client == <<callVars, server>>

\* The n-th request sent for an event, over gRPC or HTTP.
Request == Events \X (1 .. RetryCount + 1) \X {"rpc", "http"}

ClientTypeOK ==
    /\ event \in Events \cup {NoEvent}
    /\ stage \in {"idle", "connect", "rpc", "sleep", "post", "http"}
    /\ attempt \in 1 .. RetryCount
    /\ sent \in [Events -> 0 .. RetryCount + 1]
    /\ pending \subseteq Request
    /\ handled \subseteq Request
    /\ refused \subseteq Request
    /\ verdict \in [Events -> {"none", "ok", "error"}]

ClientInit ==
    /\ event = NoEvent
    /\ stage = "idle"
    /\ attempt = 1
    /\ sent = [e \in Events |-> 0]
    /\ pending = {}
    /\ handled = {}
    /\ refused = {}
    /\ verdict = [e \in Events |-> "none"]

\* The request whose answer is awaited.
Current == <<event, sent[event], stage>>

-----------------------------------------------------------------------------
(* The client.                                                             *)

\* call_processor: gRPC if it is switched on; an event that cannot be converted
\* raises in event_to_pb, and `rescue' posts it over HTTP.
Begin(e) ==
    /\ stage = "idle"
    /\ verdict[e] = "none"
    /\ event' = e
    /\ attempt' = 1
    /\ stage' = IF UseGrpc /\ e \in Convertible THEN "connect" ELSE "post"
    /\ UNCHANGED <<sent, verdict, server>>

\* A request leaves for the processor.
Send(via) ==
    /\ sent' = [sent EXCEPT ![event] = @ + 1]
    /\ pending' = pending \cup {<<event, sent[event] + 1, via>>}
    /\ stage' = via
    /\ UNCHANGED <<event, attempt, handled, refused, verdict>>

\* Fault variant of MoreAttempts: off by one.
MoreAttemptsLate == attempt <= RetryCount

\* attempt < @retry_count.
MoreAttempts == attempt < RetryCount

\* Fault variant of GrpcError: no fallback.
GrpcErrorFinal ==
    /\ stage' = IF MoreAttempts THEN "sleep" ELSE "idle"
    /\ verdict' = IF MoreAttempts THEN verdict ELSE [verdict EXCEPT ![event] = "error"]
    /\ UNCHANGED <<event, attempt, sent, server>>

\* call_grpc returned {:error, _}: sleep and retry, or fall back to HTTP.
GrpcError ==
    /\ stage' = IF MoreAttempts THEN "sleep" ELSE "post"
    /\ UNCHANGED <<event, attempt, sent, verdict, server>>

\* No connection, or Stub.process is undefined and the call raises.
ConnectFails ==
    /\ stage = "connect"
    /\ GrpcError

SendRpc ==
    /\ stage = "connect"
    /\ StubDefined
    /\ Send("rpc")

\* Timeout, or the connection breaks, whatever the processor does.
RpcFails ==
    /\ stage = "rpc"
    /\ GrpcError

\* After the sleep, one attempt more.
Retry ==
    /\ stage = "sleep"
    /\ attempt' = attempt + 1
    /\ stage' = "connect"
    /\ UNCHANGED <<event, sent, verdict, server>>

\* The call ends.
End(result) ==
    /\ verdict' = [verdict EXCEPT ![event] = result]
    /\ event' = NoEvent
    /\ stage' = "idle"
    /\ UNCHANGED <<attempt, sent, server>>

\* {:ok, response}, processed or not.
RpcReply ==
    /\ stage = "rpc"
    /\ Current \in handled \cup refused
    /\ End("ok")

SendHttp ==
    /\ stage = "post"
    /\ Send("http")

\* Fault variant of HttpVerdict: the status code is not looked at.
HttpVerdictBlind == "ok"

\* Status 200 is {:ok, _}, any other {:error, :processor_error}.
HttpVerdict == IF Current \in handled THEN "ok" ELSE "error"

HttpReply ==
    /\ stage = "http"
    /\ Current \in handled \cup refused
    /\ End(HttpVerdict)

\* Connection refused (from "post"), timeout or broken connection.
HttpFails ==
    /\ stage \in {"post", "http"}
    /\ End("error")

-----------------------------------------------------------------------------
(* The Go processor, and the network to it.                                *)

\* processEvent of an event for the C++ driver may fail.
Execute(r) ==
    /\ r \in pending
    /\ pending' = pending \ {r}
    /\ \/ handled' = handled \cup {r} /\ UNCHANGED refused
       \/ r[1] \in Unfit /\ refused' = refused \cup {r} /\ UNCHANGED handled
    /\ UNCHANGED callVars

\* The request never arrives, or the processor dies with it.
Lose(r) ==
    /\ r \in pending
    /\ pending' = pending \ {r}
    /\ UNCHANGED <<callVars, handled, refused>>

GrpcStep == ConnectFails \/ SendRpc \/ RpcFails \/ RpcReply \/ Retry

HttpStep == SendHttp \/ HttpReply \/ HttpFails

ServerStep == \E r \in pending : Execute(r) \/ Lose(r)

ClientNext == (\E e \in Events : Begin(e)) \/ GrpcStep \/ HttpStep \/ ServerStep

ClientSpec == ClientInit /\ [][ClientNext]_client

-----------------------------------------------------------------------------
(* Properties.                                                             *)

\* {:ok, _} is only told of an event that the processor has executed, by a request
\* of this call, and on the HTTP path, where failure has a status code, only of one
\* it processed (grpc_client.ex:66-69, 120-124).
OkIsTruthful ==
    \A e \in Events :
        verdict[e] = "ok" =>
            \E n \in 1 .. sent[e] :
                <<e, n, "rpc">> \in handled \cup refused \/ <<e, n, "http">> \in handled

\* An event reaches the processor at most once for each gRPC attempt and once over
\* HTTP; no request is executed twice (grpc_client.ex:62-85).
DeliveriesBounded ==
    \A e \in Events :
        LET executed == {r \in handled \cup refused : r[1] = e} IN
        /\ Cardinality({r \in executed : r[3] = "rpc"}) <= RetryCount
        /\ Cardinality({r \in executed : r[3] = "http"}) <= 1
=============================================================================
