---------------------------- MODULE GoProcessor -----------------------------
(***************************************************************************)
(* The Go processor (go_processor/main.go, server.go): HTTP and gRPC       *)
(* handlers, each in a goroutine of its own, that process single events    *)
(* and batches and offer what they processed to the analytics sink.  The   *)
(* module composes ProcessorStart, the handlers and ClickHouseSink in one  *)
(* OS process, which may end at any time: main leaves through log.Fatal,   *)
(* or a signal ends it.  Neither runs the deferred Close of the sink.      *)
(*                                                                         *)
(* BatchSize and QueueSize are what BatchSizeOf and QueueSizeOf yield for  *)
(* the environments of an instance that name ClickHouse and let the writer *)
(* run.                                                                    *)
(***************************************************************************)
EXTENDS ProcessorStart, Sequences, Functions, FiniteSets

CONSTANTS
    Requests,    \* requests the processor gets
    Batched,     \* those to /process-batch or ProcessBatch
    Batch,       \* the events of each request, in order; <<>> if it has none
    Events,      \* all events; no two requests share one
    Unfit,       \* events on ticker: and match: channels, which the C++ driver may fail on
    BatchSize, QueueSize   \* of the sink

VARIABLES
    queue, batch, pc, ticked, stopped, closer, rows, landing,
    offered, accepted, handed, acceptedAtClose,               \* of the sink
    phase,      \* of each request: "new", "work", "reply", "answered"
    processed,  \* events of the request processed without an error
    failed,     \* events of the request processEvent failed on
    answer      \* what the client of the request was told

sinkVars == <<queue, batch, pc, ticked, stopped, closer, rows, landing,
              offered, accepted, handed, acceptedAtClose>>
vars == <<startVars, sinkVars, phase, processed, failed, answer>>

Sink == INSTANCE ClickHouseSink

ASSUME ProcessorAssumption ==
    /\ \A r \in Requests :
          /\ Batch[r] \in Seq(Events) /\ IsInjective(Batch[r])
          /\ r \notin Batched => Len(Batch[r]) <= 1
    /\ \A r, q \in Requests : r # q => Range(Batch[r]) \cap Range(Batch[q]) = {}
    /\ Unfit \subseteq Events
    /\ BatchSize \in Nat \ {0} /\ QueueSize \in Nat \ {0}

TypeOK ==
    /\ StartTypeOK
    /\ Sink!TypeOK
    /\ phase \in [Requests -> {"new", "work", "reply", "answered"}]
    /\ processed \in [Requests -> Nat]
    /\ failed \in [Requests -> Nat]
    /\ \A r \in Requests : processed[r] + failed[r] <= Len(Batch[r])
    /\ answer \in [Requests -> {"none", "ok", "error", "counts", "rejected"}]

Init ==
    /\ StartInit
    /\ Sink!Init
    /\ phase = [r \in Requests |-> "new"]
    /\ processed = [r \in Requests |-> 0]
    /\ failed = [r \in Requests |-> 0]
    /\ answer = [r \in Requests |-> "none"]

-----------------------------------------------------------------------------
(* The handlers.                                                           *)

Conclude(r, told) ==
    /\ phase' = [phase EXCEPT ![r] = "answered"]
    /\ answer' = [answer EXCEPT ![r] = told]
    /\ UNCHANGED <<startVars, sinkVars, processed, failed>>

\* Requests reach the handlers once the server of their port listens.
Accepting(via) == IF via = "http" THEN main = "serving" ELSE grpc = "listening"

\* A request is decoded.
Receive(r) ==
    /\ phase[r] = "new" /\ Batch[r] # <<>>
    /\ \E via \in {"http", "grpc"} : Accepting(via)
    /\ phase' = [phase EXCEPT ![r] = "work"]
    /\ UNCHANGED <<startVars, sinkVars, processed, failed, answer>>

\* Over HTTP another method, bad JSON and an empty batch are refused; /health answers.
ReceiveNothingHttp(r) ==
    /\ phase[r] = "new" /\ Batch[r] = <<>>
    /\ Accepting("http")
    /\ \E told \in {"rejected", "ok"} : Conclude(r, told)

\* Over gRPC a missing event is an error, an empty batch is counted; Health answers.
ReceiveNothingGrpc(r) ==
    /\ phase[r] = "new" /\ Batch[r] = <<>>
    /\ Accepting("grpc")
    /\ \E told \in {"error", "counts", "ok"} : Conclude(r, told)

\* The next event of the request.
At(r) == processed[r] + failed[r] + 1

\* Fault variant of MayOffer: the error of the driver is ignored.
MayOfferAlways(e, failure) == TRUE

\* processEvent returns before WriteEvent if there was an error.
MayOffer(e, failure) == ~failure

\* WriteEvent of the sink in use.
WriteEvent(e) == IF kind = "clickhouse" THEN Sink!WriteEvent(e) ELSE UNCHANGED sinkVars

\* processEvent of the next event: the C++ driver may fail on an event of a
\* high-frequency channel; any other event is offered to the sink.
ProcessNext(r) ==
    /\ phase[r] = "work"
    /\ LET e == Batch[r][At(r)] IN
       \E failure \in BOOLEAN :
          /\ failure => e \in Unfit
          /\ IF MayOffer(e, failure) THEN WriteEvent(e) ELSE UNCHANGED sinkVars
          /\ IF failure
             THEN failed' = [failed EXCEPT ![r] = @ + 1] /\ UNCHANGED processed
             ELSE processed' = [processed EXCEPT ![r] = @ + 1] /\ UNCHANGED failed
    /\ phase' = [phase EXCEPT ![r] = IF At(r) = Len(Batch[r]) THEN "reply" ELSE "work"]
    /\ UNCHANGED <<startVars, answer>>

\* A single event is answered with its outcome, a batch with its counts.
Reply(r) ==
    /\ phase[r] = "reply"
    /\ Conclude(r, IF r \in Batched THEN "counts" ELSE IF failed[r] = 0 THEN "ok" ELSE "error")

Handler(r) ==
    /\ alive
    /\ Receive(r) \/ ReceiveNothingHttp(r) \/ ReceiveNothingGrpc(r) \/ ProcessNext(r) \/ Reply(r)

-----------------------------------------------------------------------------
(* The process.                                                            *)

Start == StartNext /\ UNCHANGED <<sinkVars, phase, processed, failed, answer>>

\* The goroutine of the sink and its ticker.
SinkStep ==
    /\ alive /\ writer = "running"
    /\ Sink!TakeEvent \/ Sink!TakeTick \/ Sink!FlushEnds \/ Sink!TickerFires
    /\ UNCHANGED <<startVars, phase, processed, failed, answer>>

\* The database carries out an insert that was given up.
Land ==
    /\ Sink!Land
    /\ UNCHANGED <<startVars, phase, processed, failed, answer>>

\* log.Fatal, which calls os.Exit, or a signal: no deferred function runs.
Exit ==
    /\ alive
    /\ alive' = FALSE
    /\ UNCHANGED <<env, main, kind, writer, grpc, tables, sinkVars,
                   phase, processed, failed, answer>>

Next == Start \/ (\E r \in Requests : Handler(r)) \/ SinkStep \/ Land \/ Exit

Spec == Init /\ [][Next]_vars

\* main runs on, its request to the database has a timeout, and so do handlers as
\* long as the process lives; nothing is assumed of the sink.
FairSpec ==
    /\ Spec
    /\ WF_vars(alive /\ MainStep /\ Start)
    /\ \A r \in Requests : WF_vars(Handler(r))

-----------------------------------------------------------------------------
(* Properties.                                                             *)

\* ClickHouse was offered exactly the events that were processed without error, each
\* one once, whichever sink the process ended up with: the counts of concurrent
\* batches do not mix, an event that failed is never recorded, and none is processed
\* before the sink is there (main.go:31-53, 81-98, 152-169; server.go:76-103).
OfferedAsCounted ==
    \A r \in Requests :
        /\ Cardinality(offered \cap Range(Batch[r])) =
              IF kind = "clickhouse" THEN processed[r] ELSE 0
        /\ phase[r] = "answered" /\ Batch[r] # <<>> =>
              processed[r] + failed[r] = Len(Batch[r])
        /\ answer[r] = "ok" /\ kind = "clickhouse" => Range(Batch[r]) \subseteq offered

\* The table holds no more rows of a request than its answer counts as processed, for
\* no event two, although batches mix in the channel, an insert that was reported as
\* failed may be carried out later, and the process may end in between
\* (main.go:31-53, 152-169; clickhouse_sink.go:76-131).
RowsAsCounted ==
    \A r \in Requests :
        Cardinality({i \in DOMAIN rows : rows[i] \in Range(Batch[r])}) <=
            IF kind = "clickhouse" THEN processed[r] ELSE 0

\* When the process has ended, nothing that was accepted waits in the channel or the
\* batch, as `defer analyticsSink.Close()' (main.go:86) intends.
ExitClosesSink == ~alive => queue = <<>> /\ batch = <<>>

\* Under FairSpec: every request is answered while the process lives, even if the
\* sink's writer hangs and its channel is full (clickhouse_sink.go:76-82).
RequestsAnswered == \A r \in Requests : phase[r] = "work" ~> phase[r] = "answered" \/ ~alive

\* Under FairSpec: the processor comes to serve HTTP, with whatever sink, although the
\* database may not answer and the gRPC server may not start (main.go:81-98, 178-179).
ComesUp == main = "sink" ~> main = "serving" \/ ~alive
=============================================================================
