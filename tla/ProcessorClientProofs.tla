----------------------- MODULE ProcessorClientProofs ------------------------
(***************************************************************************)
(* Proofs about GRPCClient, for any set of events and number of retries,   *)
(* and about ProcessorClient, its composition with the breaker, to which   *)
(* what is proved of the breaker alone carries over.                       *)
(***************************************************************************)
EXTENDS ProcessorClient, FiniteSetTheorems, TLAPS

\* What is proved of the breaker on its own.
BreakerProofs == INSTANCE CircuitBreakerProofs WITH
                     Callers <- Events, NoOne <- NoEvent, MailboxBound <- Cardinality(Events)

-----------------------------------------------------------------------------
(* The client alone.                                                       *)

\* There is an event while the client is not idle; an event that has no verdict and
\* is not the current one has not been sent.
CallsInOrder ==
    /\ event = NoEvent <=> stage = "idle"
    /\ event # NoEvent => verdict[event] = "none"
    /\ \A e \in Events : verdict[e] = "none" /\ e # event => sent[e] = 0

\* No more requests than attempts, before the one over HTTP.
SentInAttempts ==
    /\ stage = "connect" => sent[event] < attempt
    /\ stage \in {"rpc", "sleep", "post"} => sent[event] <= attempt
    /\ stage = "sleep" => attempt < RetryCount

\* The requests of an event are numbered as they are sent; the one over HTTP is
\* the last.
RequestsNumbered ==
    \A r \in pending \cup handled \cup refused :
        /\ r[2] <= sent[r[1]]
        /\ r[3] = "rpc" => r[2] <= RetryCount
        /\ r[3] = "http" => r[2] = sent[r[1]] /\ (r[1] = event => stage = "http")

ClientInv ==
    /\ ClientTypeOK
    /\ CallsInOrder
    /\ SentInAttempts
    /\ RequestsNumbered
    /\ OkIsTruthful

LEMMA ClientInitInv == ClientInit => ClientInv
  BY ClientAssumption
     DEF ClientInit, ClientInv, ClientTypeOK, CallsInOrder, SentInAttempts,
         RequestsNumbered, OkIsTruthful

\* A call begins with an event that has not been sent: no request is its own.
LEMMA BeginInv == ASSUME ClientInv, NEW e \in Events, Begin(e) PROVE ClientInv'
<1> USE ClientAssumption DEF ClientInv, Begin, server
<1>1. ClientTypeOK'
  BY DEF ClientTypeOK
<1>2. CallsInOrder' /\ SentInAttempts'
  BY DEF CallsInOrder, SentInAttempts, ClientTypeOK
<1>3. sent[e] = 0
  BY DEF CallsInOrder
<1>4. \A r \in pending \cup handled \cup refused : r[1] # e
  BY <1>3 DEF RequestsNumbered, ClientTypeOK, Request
<1>5. RequestsNumbered'
  BY <1>4 DEF RequestsNumbered
<1>6. OkIsTruthful'
  BY DEF OkIsTruthful
<1> QED BY <1>1, <1>2, <1>5, <1>6

\* A request is sent from `connect' or `post', where none has gone over HTTP yet.
LEMMA SendInv ==
    ASSUME ClientInv, NEW via \in {"rpc", "http"}, Send(via),
           stage = IF via = "rpc" THEN "connect" ELSE "post"
    PROVE  ClientInv'
<1> USE ClientAssumption DEF ClientInv, Send
<1>1. event \in Events /\ event # NoEvent
  BY DEF CallsInOrder, ClientTypeOK
<1>2. /\ sent[event] \in 0 .. RetryCount
      /\ via = "rpc" => sent[event] + 1 <= attempt
      /\ attempt \in 1 .. RetryCount
  BY <1>1 DEF SentInAttempts, ClientTypeOK
<1>3. /\ sent' \in [Events -> 0 .. RetryCount + 1]
      /\ sent'[event] = sent[event] + 1
      /\ \A e \in Events : e # event => sent'[e] = sent[e]
  BY <1>1, <1>2 DEF ClientTypeOK
<1>4. <<event, sent[event] + 1, via>> \in Request
  BY <1>1, <1>2 DEF Request
<1>5. ClientTypeOK'
  BY <1>3, <1>4 DEF ClientTypeOK
<1>6. CallsInOrder'
  BY <1>1, <1>3 DEF CallsInOrder
<1>7. SentInAttempts'
  BY <1>1, <1>2, <1>3 DEF SentInAttempts
<1>8. RequestsNumbered'
  <2> SUFFICES ASSUME NEW r \in pending' \cup handled' \cup refused'
               PROVE  /\ r[2] <= sent'[r[1]]
                      /\ r[3] = "rpc" => r[2] <= RetryCount
                      /\ r[3] = "http" => r[2] = sent'[r[1]] /\ (r[1] = event' => stage' = "http")
    BY DEF RequestsNumbered
  <2>1. CASE r = <<event, sent[event] + 1, via>>
    BY <2>1, <1>2, <1>3
  <2>2. CASE r \in pending \cup handled \cup refused
    <3>1. r \in Request
      BY <2>2 DEF ClientTypeOK
    <3>2. r[1] \in Events /\ r[2] \in Nat
      BY <3>1, <1>2 DEF Request
    <3>3. /\ r[2] <= sent[r[1]]
          /\ r[3] = "rpc" => r[2] <= RetryCount
          /\ r[3] = "http" => r[2] = sent[r[1]] /\ r[1] # event
      BY <2>2 DEF RequestsNumbered
    <3> QED BY <1>2, <1>3, <3>2, <3>3
  <2> QED BY <2>1, <2>2
<1>9. OkIsTruthful'
  BY <1>1, <1>2, <1>3 DEF OkIsTruthful, CallsInOrder
<1> QED BY <1>5, <1>6, <1>7, <1>8, <1>9

\* The client moves on without sending: to another attempt, or to HTTP.
LEMMA GrpcErrorInv ==
    ASSUME ClientInv, stage \in {"connect", "rpc"}, GrpcError
    PROVE  ClientInv'
<1> USE ClientAssumption DEF ClientInv, GrpcError, MoreAttempts, server
<1>0. event \in Events /\ sent[event] \in Nat
  BY DEF CallsInOrder, ClientTypeOK
<1>1. ClientTypeOK' /\ CallsInOrder'
  BY DEF ClientTypeOK, CallsInOrder
<1>2. SentInAttempts'
  BY <1>0 DEF SentInAttempts, ClientTypeOK
<1>3. RequestsNumbered' /\ OkIsTruthful'
  BY DEF RequestsNumbered, OkIsTruthful
<1> QED BY <1>1, <1>2, <1>3

LEMMA RetryInv == ASSUME ClientInv, Retry PROVE ClientInv'
<1> USE ClientAssumption DEF ClientInv, Retry, server
<1>0. event \in Events /\ sent[event] \in Nat
  BY DEF CallsInOrder, ClientTypeOK
<1>1. ClientTypeOK' /\ CallsInOrder'
  BY DEF ClientTypeOK, CallsInOrder, SentInAttempts
<1>2. SentInAttempts'
  BY <1>0 DEF SentInAttempts, ClientTypeOK
<1>3. RequestsNumbered' /\ OkIsTruthful'
  BY DEF RequestsNumbered, OkIsTruthful
<1> QED BY <1>1, <1>2, <1>3

\* The call ends; {:ok, _} only if its last request was executed.
LEMMA EndInv ==
    ASSUME ClientInv, stage # "idle", NEW result \in {"ok", "error"}, End(result),
           result = "ok" => \/ <<event, sent[event], "rpc">> \in handled \cup refused
                            \/ <<event, sent[event], "http">> \in handled
    PROVE  ClientInv'
<1> USE ClientAssumption DEF ClientInv, End, server
<1>0. event \in Events
  BY DEF CallsInOrder, ClientTypeOK
<1>1. ClientTypeOK'
  BY <1>0 DEF ClientTypeOK
<1>2. CallsInOrder' /\ SentInAttempts'
  BY <1>0 DEF CallsInOrder, SentInAttempts, ClientTypeOK
<1>3. RequestsNumbered'
  BY DEF RequestsNumbered, ClientTypeOK, Request
<1>4. OkIsTruthful'
  <2>1. result = "ok" => sent[event] \in 1 .. sent[event]
    BY DEF ClientTypeOK, Request
  <2> QED BY <1>0, <2>1 DEF OkIsTruthful, ClientTypeOK
<1> QED BY <1>1, <1>2, <1>3, <1>4

\* The processor and the network only move requests.
LEMMA ServerInv ==
    ASSUME ClientInv, NEW r \in pending, Execute(r) \/ Lose(r)
    PROVE  ClientInv'
<1> USE DEF ClientInv, Execute, Lose, callVars
<1>1. ClientTypeOK' /\ CallsInOrder' /\ SentInAttempts'
  BY DEF ClientTypeOK, CallsInOrder, SentInAttempts
<1>2. /\ pending' \cup handled' \cup refused' \subseteq pending \cup handled \cup refused
      /\ handled \subseteq handled' /\ refused \subseteq refused'
  OBVIOUS
<1>3. RequestsNumbered' /\ OkIsTruthful'
  BY <1>2 DEF RequestsNumbered, OkIsTruthful
<1> QED BY <1>1, <1>3

LEMMA ClientStepInv == ClientInv /\ [ClientNext]_client => ClientInv'
<1> SUFFICES ASSUME ClientInv, [ClientNext]_client PROVE ClientInv'
  OBVIOUS
<1>1. CASE \E e \in Events : Begin(e)
  BY <1>1, BeginInv
<1>2. CASE ConnectFails \/ RpcFails
  BY <1>2, GrpcErrorInv DEF ConnectFails, RpcFails
<1>3. CASE SendRpc
  BY <1>3, SendInv DEF SendRpc
<1>4. CASE RpcReply
  BY <1>4, EndInv DEF RpcReply, Current
<1>5. CASE Retry
  BY <1>5, RetryInv
<1>6. CASE SendHttp
  BY <1>6, SendInv DEF SendHttp
<1>7. CASE HttpReply
  BY <1>7, EndInv DEF HttpReply, HttpVerdict, Current
<1>8. CASE HttpFails
  BY <1>8, EndInv DEF HttpFails
<1>9. CASE ServerStep
  BY <1>9, ServerInv DEF ServerStep
<1>10. CASE UNCHANGED client
  BY <1>10 DEF client, callVars, server, ClientInv, ClientTypeOK, CallsInOrder,
     SentInAttempts, RequestsNumbered, OkIsTruthful
<1> QED
  BY <1>1, <1>2, <1>3, <1>4, <1>5, <1>6, <1>7, <1>8, <1>9, <1>10
     DEF ClientNext, GrpcStep, HttpStep

\* The client alone keeps its invariant (grpc_client.ex:16-144).
THEOREM ClientInvariance == ClientSpec => []ClientInv
  BY ClientInitInv, ClientStepInv, PTL DEF ClientSpec

\* Requests of one kind with numbers in S are no more than S has numbers.
LEMMA CountByNumber ==
    ASSUME NEW R, NEW S, IsFiniteSet(S),
           \A r \in R : r[2] \in S,
           \A r, q \in R : r[2] = q[2] => r = q
    PROVE  Cardinality(R) <= Cardinality(S)
<1> DEFINE number == [r \in R |-> r[2]]
<1>1. number \in Injection(R, S)
  BY DEF Injection, IsInjective
<1> QED BY <1>1, FS_Injection

LEMMA Bounded == ClientInv => DeliveriesBounded
<1> SUFFICES ASSUME ClientInv, NEW e \in Events
             PROVE  LET executed == {r \in handled \cup refused : r[1] = e} IN
                    /\ Cardinality({r \in executed : r[3] = "rpc"}) <= RetryCount
                    /\ Cardinality({r \in executed : r[3] = "http"}) <= 1
  BY DEF DeliveriesBounded
<1> DEFINE executed == {r \in handled \cup refused : r[1] = e}
           attempts == {r \in executed : r[3] = "rpc"}
           posts == {r \in executed : r[3] = "http"}
<1>1. \A r \in executed :
          /\ r = <<r[1], r[2], r[3]>> /\ r[1] = e
          /\ r[2] \in Nat \ {0}
  BY ClientAssumption DEF ClientInv, ClientTypeOK, Request
<1>2. \A r \in executed :
          /\ r[3] = "rpc" => r[2] <= RetryCount
          /\ r[3] = "http" => r[2] = sent[e]
  BY DEF ClientInv, RequestsNumbered
<1>3. Cardinality(attempts) <= RetryCount
  <2>1. IsFiniteSet(1 .. RetryCount) /\ Cardinality(1 .. RetryCount) = RetryCount
    BY FS_Interval, ClientAssumption
  <2>2. \A r \in attempts : r[2] \in 1 .. RetryCount
    BY <1>1, <1>2, ClientAssumption
  <2>3. \A r, q \in attempts : r[2] = q[2] => r = q
    BY <1>1
  <2> HIDE DEF attempts
  <2>4. Cardinality(attempts) <= Cardinality(1 .. RetryCount)
    BY <2>1, <2>2, <2>3, CountByNumber
  <2> QED BY <2>1, <2>4
<1>4. Cardinality(posts) <= 1
  <2>1. \A r \in posts : r[2] \in {sent[e]}
    BY <1>2
  <2>2. \A r, q \in posts : r[2] = q[2] => r = q
    BY <1>1
  <2>3. IsFiniteSet({sent[e]}) /\ Cardinality({sent[e]}) = 1
    BY FS_Singleton
  <2> HIDE DEF posts
  <2>4. Cardinality(posts) <= Cardinality({sent[e]})
    BY <2>1, <2>2, <2>3, CountByNumber
  <2> QED BY <2>3, <2>4
<1> QED BY <1>3, <1>4

-----------------------------------------------------------------------------
(* The composition.                                                        *)


\* Functions and requests are paired in the mailbox; the client works exactly while
\* the breaker serves; a caller told {:ok, _} is one whose event has a verdict.
Pairing ==
    /\ mailbox \in Seq(Breaker!Request)
    /\ funs \in Seq(Events)
    /\ serving # NoEvent <=> stage # "idle"
    /\ OwnReply

CompositionInv == ClientInv /\ Pairing

LEMMA CompositionInitInv == Init => CompositionInv
<1> SUFFICES ASSUME Init PROVE CompositionInv
  OBVIOUS
<1>1. ClientInv
  BY ClientInitInv DEF Init
<1>2. Pairing
  BY DEF Init, Breaker!Init, ClientInit, Pairing, OwnReply
<1> QED BY <1>1, <1>2 DEF CompositionInv

LEMMA ProcessEventInv ==
    ASSUME CompositionInv, NEW e \in Events, ProcessEvent(e)
    PROVE  CompositionInv'
<1> USE DEF CompositionInv, ProcessEvent, Breaker!Post, client, callVars, server
<1> DEFINE request == [from |-> e, kind |-> "call"]
<1>1. ClientInv'
  BY DEF ClientInv, ClientTypeOK, CallsInOrder, SentInAttempts, RequestsNumbered, OkIsTruthful
<1>2. request \in Breaker!Request
  BY DEF Breaker!Request
<1>3. mailbox' \in Seq(Breaker!Request) /\ funs' \in Seq(Events)
  BY <1>2 DEF Pairing
<1>4. Len(funs') = Len(mailbox')
  BY <1>2 DEF Pairing, OwnReply
<1>5. \A i \in 1 .. Len(funs') : mailbox'[i].from \in {funs'[i], Gone}
  BY <1>2 DEF Pairing, OwnReply
<1>6. Pairing'
  BY <1>3, <1>4, <1>5 DEF Pairing, OwnReply
<1> QED BY <1>1, <1>6

\* A request that has lost its sender is still a request.
LEMMA DisownedRequest ==
    ASSUME NEW r \in Breaker!Request
    PROVE  /\ [r EXCEPT !.from = Gone] \in Breaker!Request
           /\ [r EXCEPT !.from = Gone].from = Gone
BY DEF Breaker!Request

LEMMA GiveUpInv == ASSUME CompositionInv, NEW e \in Events, GiveUp(e) PROVE CompositionInv'
<1> USE CompositionAssumption, ClientAssumption
    DEF CompositionAssumption, CompositionInv, GiveUp, Breaker!GiveUp, client, callVars, server
<1>1. ClientInv'
  BY DEF ClientInv, ClientTypeOK, CallsInOrder, SentInAttempts, RequestsNumbered, OkIsTruthful
<1>2. \A i \in 1 .. Len(mailbox) :
          /\ mailbox[i] \in Breaker!Request
          /\ [mailbox[i] EXCEPT !.from = Gone] \in Breaker!Request
          /\ [mailbox[i] EXCEPT !.from = Gone].from = Gone
  <2> SUFFICES ASSUME NEW i \in 1 .. Len(mailbox)
               PROVE  /\ mailbox[i] \in Breaker!Request
                      /\ [mailbox[i] EXCEPT !.from = Gone] \in Breaker!Request
                      /\ [mailbox[i] EXCEPT !.from = Gone].from = Gone
    OBVIOUS
  <2>1. mailbox[i] \in Breaker!Request
    BY DEF Pairing
  <2> QED BY <2>1, DisownedRequest
<1>3. /\ mailbox' \in Seq(Breaker!Request) /\ Len(mailbox') = Len(mailbox)
      /\ \A i \in 1 .. Len(mailbox) : mailbox'[i].from \in {mailbox[i].from, Gone}
  BY <1>2 DEF Pairing, Breaker!Disown
<1>4. serving' # NoEvent <=> serving # NoEvent
  OBVIOUS
<1>5. OwnReply'
  <2>1. Len(funs') = Len(mailbox') /\ funs' = funs /\ Len(funs) = Len(mailbox)
    BY <1>3 DEF Pairing, OwnReply
  <2>2. \A i \in 1 .. Len(funs') : mailbox'[i].from \in {funs'[i], Gone}
    BY <1>3, <2>1 DEF Pairing, OwnReply
  <2>3. serving' # NoEvent => serving' \in {event', Gone}
    BY DEF Pairing, OwnReply
  <2>4. \A c \in Events : caller'[c] = "ok" => verdict'[c] # "none"
    BY DEF Pairing, OwnReply, ClientInv, ClientTypeOK
  <2> QED BY <2>1, <2>2, <2>3, <2>4 DEF OwnReply
<1>6. Pairing'
  BY <1>3, <1>4, <1>5 DEF Pairing
<1> QED BY <1>1, <1>6

\* The request and the function that are taken belong together.
LEMMA StartFunInv == ASSUME CompositionInv, StartFun PROVE CompositionInv'
<1> USE CompositionAssumption, ClientAssumption
    DEF CompositionAssumption, CompositionInv, StartFun, Breaker!StartFun, Breaker!NextIs, FunOfRequest
<1>1. /\ mailbox # <<>> /\ funs # <<>>
      /\ Head(mailbox) = mailbox[1] /\ Head(funs) = funs[1]
      /\ Head(mailbox) \in Breaker!Request /\ Head(funs) \in Events
  BY DEF Pairing, OwnReply
<1>2. ClientInv'
  BY <1>1, BeginInv
<1>3. /\ mailbox' \in Seq(Breaker!Request) /\ funs' \in Seq(Events)
      /\ Len(mailbox') = Len(mailbox) - 1 /\ Len(funs') = Len(funs) - 1
      /\ \A i \in 1 .. Len(funs') : mailbox'[i] = mailbox[i + 1] /\ funs'[i] = funs[i + 1]
  BY <1>1 DEF Pairing, OwnReply
<1>4. serving' \in {funs[1], Gone} /\ event' = funs[1]
  BY <1>1 DEF Pairing, OwnReply, Begin
<1>5. serving' # NoEvent /\ stage' # "idle"
  BY <1>1, <1>4 DEF Begin
<1>6. OwnReply'
  <2>1. Len(funs') = Len(mailbox')
    BY <1>3 DEF Pairing, OwnReply
  <2>2. ASSUME NEW i \in 1 .. Len(funs') PROVE mailbox'[i].from \in {funs'[i], Gone}
    <3>1. i + 1 \in 1 .. Len(funs)
      BY <1>3 DEF Pairing
    <3>2. mailbox[i + 1].from \in {funs[i + 1], Gone}
      BY <3>1 DEF Pairing, OwnReply
    <3> QED BY <3>2, <1>3
  <2>3. \A e \in Events : caller'[e] = "ok" => verdict'[e] # "none"
    BY DEF Pairing, OwnReply, Begin
  <2> QED BY <2>1, <2>2, <2>3, <1>4 DEF OwnReply
<1> QED BY <1>2, <1>3, <1>5, <1>6 DEF Pairing

\* A step inside the function, or its end: the caller is answered with the result of
\* its own event.
LEMMA ClientWorksInv == ASSUME CompositionInv, ClientStep PROVE CompositionInv'
<1> USE CompositionAssumption, ClientAssumption
    DEF CompositionAssumption, CompositionInv, ClientStep
<1>1. ClientInv'
  BY ClientStepInv DEF ClientNext, HttpStep
<1>2. stage # "idle"
  BY DEF GrpcStep, ConnectFails, SendRpc, RpcFails, RpcReply, Retry, SendHttp, HttpReply, HttpFails
<1>3. CASE stage' = "idle"
  <2>1. PICK result \in {"ok", "error"} : End(result)
    BY <1>2, <1>3 DEF GrpcStep, ConnectFails, SendRpc, RpcFails, RpcReply, Retry, GrpcError,
       SendHttp, HttpReply, HttpFails, HttpVerdict, Send
  <2>2. event \in Events /\ verdict'[event] = result
    BY <1>2, <2>1 DEF End, ClientInv, ClientTypeOK, CallsInOrder
  <2>3. Breaker!FunReturns
    BY <1>3, <2>2 DEF FunEnds
  <2>4. \A e \in Events : caller'[e] = "ok" => verdict'[e] # "none"
    <3>1. \A e \in Events : verdict[e] # "none" => verdict'[e] # "none"
      BY <2>1, <2>2 DEF End, ClientInv, ClientTypeOK
    <3>2. \A e \in Events : e = serving => e = event
      BY <2>3 DEF Breaker!FunReturns, Pairing, OwnReply
    <3> QED BY <2>2, <2>3, <3>1, <3>2 DEF Breaker!FunReturns, Breaker!Answer, Pairing, OwnReply
  <2> QED BY <1>1, <1>3, <2>3, <2>4 DEF Breaker!FunReturns, Pairing, OwnReply
<1>4. CASE stage' # "idle"
  <2>1. UNCHANGED <<event, verdict>>
    BY <1>2, <1>4 DEF GrpcStep, ConnectFails, SendRpc, RpcFails, RpcReply, Retry, GrpcError,
       SendHttp, HttpReply, HttpFails, Send, End
  <2> QED BY <1>1, <1>2, <1>4, <2>1 DEF breaker, Pairing, OwnReply
<1> QED BY <1>3, <1>4

LEMMA CompositionStepInv == CompositionInv /\ [Next]_vars => CompositionInv'
<1> SUFFICES ASSUME CompositionInv, [Next]_vars PROVE CompositionInv'
  OBVIOUS
<1>1. CASE \E e \in Events : ProcessEvent(e) \/ GiveUp(e)
  BY <1>1, ProcessEventInv, GiveUpInv
<1>2. CASE StartFun \/ ClientStep
  BY <1>2, StartFunInv, ClientWorksInv
<1>3. CASE \E r \in pending : ProcessorExecutes(r) \/ RequestLost(r)
  <2>1. ClientInv'
    BY <1>3, ServerInv DEF CompositionInv, ProcessorExecutes, RequestLost
  <2>2. UNCHANGED <<breaker, funs, callVars>>
    BY <1>3 DEF ProcessorExecutes, RequestLost, Execute, Lose
  <2> QED BY <2>1, <2>2 DEF CompositionInv, Pairing, OwnReply, breaker, callVars
<1>4. CASE Tick
  <2>1. ClientInv'
    BY <1>4, ClientStepInv DEF Tick, CompositionInv
  <2> QED BY <1>4, <2>1 DEF Tick, Breaker!Tick, client, callVars, CompositionInv, Pairing, OwnReply
<1>5. CASE UNCHANGED vars
  <2>1. ClientInv'
    BY <1>5, ClientStepInv DEF vars, CompositionInv
  <2> QED BY <1>5, <2>1 DEF vars, breaker, client, callVars, CompositionInv, Pairing, OwnReply
<1> QED BY <1>1, <1>2, <1>3, <1>4, <1>5 DEF Next

\* The composition keeps the client's invariant and the pairing of functions and
\* requests (processor_client.ex:14-26).
THEOREM CompositionInvariance == Spec => []CompositionInv
  BY CompositionInitInv, CompositionStepInv, PTL DEF Spec

\* For any events, retries and breaker, functions, requests and replies stay paired
\* (processor_client.ex:22-26).
THEOREM Paired == Spec => []OwnReply
<1>1. CompositionInv => OwnReply
  BY DEF CompositionInv, Pairing
<1> QED BY <1>1, CompositionInvariance, PTL

\* For any number of retries, {:ok, _} is only told of an executed event
\* (grpc_client.ex:66-69, 120-124).
THEOREM Truthful == Spec => []OkIsTruthful
<1>1. CompositionInv => OkIsTruthful
  BY DEF CompositionInv, ClientInv
<1> QED BY <1>1, CompositionInvariance, PTL

\* For any number of retries, an event is executed at most once for each gRPC
\* attempt and once for HTTP (grpc_client.ex:62-85).
THEOREM FewDeliveries == Spec => []DeliveriesBounded
<1>1. CompositionInv => DeliveriesBounded
  BY Bounded DEF CompositionInv
<1> QED BY <1>1, CompositionInvariance, PTL

\* Whatever the breaker and its callers do, the client inside behaves as GRPCClient
\* specifies (processor_client.ex:22-26).
THEOREM ComposesClient == Spec => ClientSpec
<1>1. Init => ClientInit
  BY DEF Init
<1>2. CompositionInv /\ [Next]_vars => [ClientNext]_client
  <2> SUFFICES ASSUME CompositionInv, [Next]_vars PROVE [ClientNext]_client
    OBVIOUS
  <2>1. CASE \E e \in Events : ProcessEvent(e) \/ GiveUp(e)
    BY <2>1 DEF ProcessEvent, GiveUp
  <2>2. CASE StartFun
    <3>1. FunOfRequest \in Events
      BY <2>2 DEF StartFun, Breaker!StartFun, Breaker!NextIs, FunOfRequest, CompositionInv,
         Pairing, OwnReply
    <3> QED BY <2>2, <3>1 DEF StartFun, ClientNext
  <2>3. CASE ClientStep
    BY <2>3 DEF ClientStep, ClientNext, HttpStep
  <2>4. CASE \E r \in pending : ProcessorExecutes(r) \/ RequestLost(r)
    BY <2>4 DEF ProcessorExecutes, RequestLost, ClientNext, ServerStep
  <2>5. CASE Tick \/ UNCHANGED vars
    BY <2>5 DEF Tick, vars
  <2> QED BY <2>1, <2>2, <2>3, <2>4, <2>5 DEF Next
<1> QED BY <1>1, <1>2, CompositionInvariance, PTL DEF Spec, ClientSpec

\* And the breaker around it as CircuitBreaker specifies, without its status calls,
\* raises, exits and restarts (processor_client.ex:22-26).
THEOREM ComposesBreaker == Spec => Breaker!Spec
<1>1. Init => Breaker!Init
  BY DEF Init
<1>2. [Next]_vars => [Breaker!Next]_(Breaker!vars)
  <2> SUFFICES ASSUME [Next]_vars PROVE [Breaker!Next]_(Breaker!vars)
    OBVIOUS
  <2>1. breaker' = breaker => UNCHANGED Breaker!vars
    BY DEF breaker, Breaker!vars, Breaker!server, Breaker!history
  <2>2. CASE \E e \in Events : ProcessEvent(e) \/ GiveUp(e)
    BY <2>2 DEF ProcessEvent, GiveUp, Breaker!Next, Breaker!CallerStep
  <2>3. CASE StartFun
    BY <2>3 DEF StartFun, Breaker!Next, Breaker!ServerStep
  <2>4. CASE ClientStep
    BY <2>1, <2>4 DEF ClientStep, FunEnds, Breaker!Next, Breaker!ServerStep, Breaker!FunEnds
  <2>5. CASE \E r \in pending : ProcessorExecutes(r) \/ RequestLost(r)
    BY <2>1, <2>5 DEF ProcessorExecutes, RequestLost
  <2>6. CASE Tick
    BY <2>6 DEF Tick, Breaker!Next
  <2>7. CASE UNCHANGED vars
    BY <2>1, <2>7 DEF vars
  <2> QED BY <2>2, <2>3, <2>4, <2>5, <2>6, <2>7 DEF Next
<1> QED BY <1>1, <1>2, PTL DEF Spec, Breaker!Spec

-----------------------------------------------------------------------------
(* What is proved of the breaker alone, carried over to the composition.    *)

\* The two instances of the breaker are the same.
LEMMA SameBreaker ==
    /\ Breaker!Init <=> BreakerProofs!Init
    /\ [Breaker!Next]_(Breaker!vars) <=> [BreakerProofs!Next]_(BreakerProofs!vars)
<1> USE DEF Breaker!server, Breaker!history, Breaker!Answer, Breaker!Bounded, Breaker!NextIs,
        BreakerProofs!server, BreakerProofs!history, BreakerProofs!Answer,
        BreakerProofs!Bounded, BreakerProofs!NextIs
<1>1. Breaker!Init <=> BreakerProofs!Init
  BY DEF Breaker!Init, BreakerProofs!Init
<1>2. UNCHANGED Breaker!vars <=> UNCHANGED BreakerProofs!vars
  BY DEF Breaker!vars, BreakerProofs!vars
<1>3. Breaker!CallerStep <=> BreakerProofs!CallerStep
  BY DEF Breaker!CallerStep, Breaker!Post, Breaker!PostToNobody, Breaker!GiveUp, Breaker!Disown,
     BreakerProofs!CallerStep, BreakerProofs!Post, BreakerProofs!PostToNobody,
     BreakerProofs!GiveUp, BreakerProofs!Disown
<1>4. Breaker!FunEnds <=> BreakerProofs!FunEnds
  BY DEF Breaker!FunEnds, Breaker!FunReturns, Breaker!FunRaises, Breaker!FunExits,
     Breaker!TooMany,
     BreakerProofs!FunEnds, BreakerProofs!FunReturns, BreakerProofs!FunRaises,
     BreakerProofs!FunExits, BreakerProofs!TooMany
<1>5. Breaker!ServerStep <=> BreakerProofs!ServerStep
  BY <1>4 DEF Breaker!ServerStep, Breaker!StartFun, Breaker!Reject, Breaker!RecoveryElapsed,
     Breaker!TellStatus, Breaker!Restart,
     BreakerProofs!ServerStep, BreakerProofs!StartFun, BreakerProofs!Reject,
     BreakerProofs!RecoveryElapsed, BreakerProofs!TellStatus, BreakerProofs!Restart
<1>6. Breaker!Tick <=> BreakerProofs!Tick
  BY DEF Breaker!Tick, BreakerProofs!Tick
<1>7. Breaker!Next <=> BreakerProofs!Next
  BY <1>3, <1>5, <1>6 DEF Breaker!Next, BreakerProofs!Next
<1> QED BY <1>1, <1>2, <1>7

\* The composition is a breaker for which everything proved of breakers holds.
LEMMA BreakerInvariance == Spec => []BreakerProofs!IInv
<1>1. BreakerProofs!BreakerAssumption
  BY CompositionAssumption, ClientAssumption
     DEF CompositionAssumption, BreakerProofs!BreakerAssumption
<1>2. BreakerProofs!Spec => []BreakerProofs!IInv
  BY <1>1, BreakerProofs!Invariance
<1>3. Breaker!Spec => BreakerProofs!Spec
  BY SameBreaker, PTL DEF Breaker!Spec, BreakerProofs!Spec
<1> QED BY <1>2, <1>3, ComposesBreaker, PTL

\* Around the client too, a caller is told what became of the function of its present
\* call, and of nothing else (circuit_breaker.ex:21-67, processor_client.ex:22-26).
THEOREM CallersAnsweredTruly == Spec => []Breaker!CallsAnsweredTruly
<1>1. BreakerProofs!IInv => Breaker!CallsAnsweredTruly
  BY DEF BreakerProofs!IInv, BreakerProofs!RepliesAreRouted, BreakerProofs!AnswerIsTruthful,
     BreakerProofs!Queued,
     Breaker!CallsAnsweredTruly, Breaker!RepliesAreRouted, Breaker!AnswerIsTruthful,
     Breaker!Queued
<1> QED BY <1>1, BreakerInvariance, PTL

\* A caller that waits is never forgotten: the client is at work on its event, or its
\* function is in the mailbox, with the request that will be answered to it, and with
\* no other (processor_client.ex:22-26, circuit_breaker.ex:21-67).
FunctionIsThere ==
    \A e \in Events : caller[e] = "waiting" =>
        \/ serving = e /\ event = e
        \/ \E i \in 1 .. Len(funs) :
              /\ funs[i] = e /\ mailbox[i].from = e
              /\ \A k \in 1 .. Len(funs) : mailbox[k].from = e => k = i

\* For any events, retries and callers that give up at any time, no caller that waits is
\* forgotten and none is answered twice (processor_client.ex:22-26).
THEOREM WaitingIsServed == Spec => []FunctionIsThere
<1>1. CompositionInv /\ Breaker!CallsAnsweredTruly => FunctionIsThere
  <2> SUFFICES ASSUME CompositionInv, Breaker!CallsAnsweredTruly,
                      NEW e \in Events, caller[e] = "waiting"
               PROVE  \/ serving = e /\ event = e
                      \/ \E i \in 1 .. Len(funs) :
                            /\ funs[i] = e /\ mailbox[i].from = e
                            /\ \A k \in 1 .. Len(funs) : mailbox[k].from = e => k = i
    BY DEF FunctionIsThere
  <2>1. e # Gone /\ e # NoEvent
    BY CompositionAssumption, ClientAssumption DEF CompositionAssumption
  <2>2. OwnReply
    BY DEF CompositionInv, Pairing
  <2>3. serving = e \/ \E i \in Breaker!Queued(e) : TRUE
    BY DEF Breaker!CallsAnsweredTruly, Breaker!RepliesAreRouted
  <2>4. CASE serving = e
    BY <2>1, <2>2, <2>4 DEF OwnReply
  <2>5. ASSUME NEW i \in Breaker!Queued(e)
        PROVE  /\ i \in 1 .. Len(funs) /\ funs[i] = e /\ mailbox[i].from = e
               /\ \A k \in 1 .. Len(funs) : mailbox[k].from = e => k = i
    <3>1. i \in 1 .. Len(funs) /\ mailbox[i].from = e
      BY <2>2 DEF OwnReply, Breaker!Queued
    <3>2. funs[i] = e
      BY <2>1, <2>2, <3>1 DEF OwnReply
    <3>3. ASSUME NEW k \in 1 .. Len(funs), mailbox[k].from = e PROVE k = i
      <4>1. k \in Breaker!Queued(e)
        BY <2>2, <3>3 DEF OwnReply, Breaker!Queued
      <4> QED BY <4>1 DEF Breaker!CallsAnsweredTruly, Breaker!RepliesAreRouted
    <3> QED BY <3>1, <3>2, <3>3
  <2> QED BY <2>3, <2>4, <2>5
<1> QED BY <1>1, CompositionInvariance, CallersAnsweredTruly, PTL

\* Whatever process_event answers, how often and in which order, the breaker around it
\* never counts a failure, never opens and never dies: for no threshold is a call
\* rejected (circuit_breaker.ex:26-31, grpc_client.ex:71-142).
StaysClosed == up /\ state = "closed" /\ failures = 0

\* For any events, retries and failure threshold, no call of process_event is rejected
\* by the breaker, though all of them may fail (circuit_breaker.ex:26-31).
THEOREM NeverOpens == Spec => []StaysClosed
<1>1. Init => StaysClosed
  BY DEF Init, Breaker!Init, StaysClosed
<1>2. StaysClosed /\ [Next]_vars => StaysClosed'
  <2> SUFFICES ASSUME StaysClosed, [Next]_vars PROVE StaysClosed'
    OBVIOUS
  <2> USE DEF StaysClosed
  <2>1. CASE \E e \in Events : ProcessEvent(e) \/ GiveUp(e)
    BY <2>1 DEF ProcessEvent, Breaker!Post, GiveUp, Breaker!GiveUp
  <2>2. CASE StartFun \/ Tick
    BY <2>2 DEF StartFun, Breaker!StartFun, Tick, Breaker!Tick
  <2>3. CASE ClientStep
    BY <2>3 DEF ClientStep, FunEnds, Breaker!FunReturns, breaker
  <2>4. CASE \E r \in pending : ProcessorExecutes(r) \/ RequestLost(r)
    BY <2>4 DEF ProcessorExecutes, RequestLost, breaker
  <2>5. CASE UNCHANGED vars
    BY <2>5 DEF vars, breaker
  <2> QED BY <2>1, <2>2, <2>3, <2>4, <2>5 DEF Next
<1> QED BY <1>1, <1>2, PTL DEF Spec
=============================================================================
