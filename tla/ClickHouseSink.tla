--------------------------- MODULE ClickHouseSink ---------------------------
(***************************************************************************)
(* ClickHouseSink (go_processor/clickhouse_sink.go): a bounded channel     *)
(* that request handlers fill without ever blocking, and one writer        *)
(* goroutine that collects events into a batch and inserts it over HTTP.   *)
(*                                                                         *)
(* The writer is at one of these points:                                   *)
(*   select  the select of the main loop                                   *)
(*   flush   executeQuery, called from the main loop                       *)
(*   drain   the inner select, after `stop' was seen                       *)
(*   final   executeQuery, called from the inner select                    *)
(*   done    returned                                                      *)
(* An insert that the client reports as failed may have been refused, or   *)
(* be still on its way (the 5 s timeout of the HTTP client): `landing'     *)
(* holds the batches of the second kind, which the database may store at   *)
(* any later time or never.                                                *)
(***************************************************************************)
EXTENDS Naturals, Sequences, Functions

CONSTANTS
    Events,      \* the calls of WriteEvent, one value each
    BatchSize,   \* batchSize
    QueueSize    \* capacity of the channel `queue'

\* NewClickHouseSinkFromEnv raises smaller values to a minimum of at least 1.
ASSUME SinkAssumption ==
    /\ BatchSize \in Nat \ {0}
    /\ QueueSize \in Nat \ {0}

VARIABLES
    queue,      \* contents of the channel
    batch,      \* the writer's batch
    pc,         \* where the writer is
    ticked,     \* the ticker's channel holds a tick
    stopped,    \* the channel `stop' is closed
    closer,     \* the goroutine that calls Close: "none", "waiting", "returned"
    rows,       \* rows of the table, in order of insertion
    landing,    \* batches of failed inserts the database may still store
    offered,    \* history: events WriteEvent was called with
    accepted,   \* history: events put into the channel, in order
    handed,     \* history: events of the inserts that were tried, in order
    acceptedAtClose  \* history: value of `accepted' when Close was called

writerVars == <<batch, pc>>
dbVars == <<rows, landing>>
closeVars == <<stopped, closer, acceptedAtClose>>
vars == <<queue, writerVars, ticked, closeVars, dbVars, offered, accepted, handed>>

TypeOK ==
    /\ queue \in Seq(Events) /\ Len(queue) <= QueueSize
    /\ batch \in Seq(Events)
    /\ pc \in {"select", "flush", "drain", "final", "done"}
    /\ ticked \in BOOLEAN
    /\ stopped \in BOOLEAN
    /\ closer \in {"none", "waiting", "returned"}
    /\ rows \in Seq(Events)
    /\ landing \subseteq Seq(Events)
    /\ offered \subseteq Events
    /\ accepted \in Seq(Events)
    /\ handed \in Seq(Events)
    /\ acceptedAtClose \in Seq(Events)

-----------------------------------------------------------------------------
\* NewClickHouseSinkFromEnv: empty channel, the writer started.
Init ==
    /\ queue = <<>>
    /\ batch = <<>>
    /\ pc = "select"
    /\ ticked = FALSE
    /\ stopped = FALSE
    /\ closer = "none"
    /\ rows = <<>>
    /\ landing = {}
    /\ offered = {}
    /\ accepted = <<>>
    /\ handed = <<>>
    /\ acceptedAtClose = <<>>

-----------------------------------------------------------------------------
(* The goroutines that use the sink.                                       *)

\* Fault variant of HasRoom: off by one.
HasRoomLate == Len(queue) <= QueueSize

\* The channel takes another event without blocking.
HasRoom == Len(queue) < QueueSize

\* Fault variant of WriteEvent: a plain send, which waits for room.
WriteEventBlocking(e) ==
    /\ e \notin offered
    /\ HasRoom
    /\ offered' = offered \cup {e}
    /\ queue' = Append(queue, e)
    /\ accepted' = Append(accepted, e)
    /\ UNCHANGED <<writerVars, ticked, closeVars, dbVars, handed>>

\* WriteEvent: the event goes into the channel, or is dropped if it is full.
WriteEvent(e) ==
    /\ e \notin offered
    /\ offered' = offered \cup {e}
    /\ \/ /\ HasRoom
          /\ queue' = Append(queue, e)
          /\ accepted' = Append(accepted, e)
       \/ /\ ~HasRoom
          /\ UNCHANGED <<queue, accepted>>
    /\ UNCHANGED <<writerVars, ticked, closeVars, dbVars, handed>>

\* Fault variant of Close: it waits for the writer without telling it.
CloseWithoutSignal ==
    /\ closer = "none"
    /\ closer' = "waiting"
    /\ acceptedAtClose' = accepted
    /\ UNCHANGED <<queue, writerVars, ticked, stopped, dbVars, offered, accepted, handed>>

\* Close: closes `stop' and waits for the writer.
Close ==
    /\ closer = "none"
    /\ stopped' = TRUE
    /\ closer' = "waiting"
    /\ acceptedAtClose' = accepted
    /\ UNCHANGED <<queue, writerVars, ticked, dbVars, offered, accepted, handed>>

\* wg.Wait returns when the writer has.
CloseReturns ==
    /\ closer = "waiting"
    /\ pc = "done"
    /\ closer' = "returned"
    /\ UNCHANGED <<queue, writerVars, ticked, stopped, acceptedAtClose, dbVars,
                   offered, accepted, handed>>

-----------------------------------------------------------------------------
(* The writer: runWriter.  Its select takes any case that is ready.        *)

\* The batch must be flushed now.
BatchFull(b) == Len(b) >= BatchSize

\* `case event := <-s.queue': a full batch is flushed at once.
TakeEvent ==
    /\ pc = "select"
    /\ queue # <<>>
    /\ queue' = Tail(queue)
    /\ batch' = Append(batch, Head(queue))
    /\ pc' = IF BatchFull(batch') THEN "flush" ELSE "select"
    /\ UNCHANGED <<ticked, closeVars, dbVars, offered, accepted, handed>>

\* Fault variant of TakeTick: only full batches are flushed.
TakeTickIdle ==
    /\ pc = "select"
    /\ ticked
    /\ ticked' = FALSE
    /\ UNCHANGED <<queue, writerVars, closeVars, dbVars, offered, accepted, handed>>

\* `case <-ticker.C': whatever has been collected is flushed.
TakeTick ==
    /\ pc = "select"
    /\ ticked
    /\ ticked' = FALSE
    /\ pc' = IF batch = <<>> THEN "select" ELSE "flush"
    /\ UNCHANGED <<queue, batch, closeVars, dbVars, offered, accepted, handed>>

\* `case <-s.stop': the writer starts to empty the channel.
TakeStop ==
    /\ pc = "select"
    /\ stopped
    /\ pc' = "drain"
    /\ UNCHANGED <<queue, batch, ticked, closeVars, dbVars, offered, accepted, handed>>

\* Inner select, an event is ready: collected, the batch size ignored.
DrainEvent ==
    /\ pc = "drain"
    /\ queue # <<>>
    /\ queue' = Tail(queue)
    /\ batch' = Append(batch, Head(queue))
    /\ UNCHANGED <<pc, ticked, closeVars, dbVars, offered, accepted, handed>>

\* Fault variant of DrainEnd: what is left in the channel is abandoned.
DrainEndEarly ==
    /\ pc = "drain"
    /\ pc' = IF batch = <<>> THEN "done" ELSE "final"
    /\ UNCHANGED <<queue, batch, ticked, closeVars, dbVars, offered, accepted, handed>>

\* Inner select, nothing is ready: a last flush, then return.
DrainEnd ==
    /\ pc = "drain"
    /\ queue = <<>>
    /\ pc' = IF batch = <<>> THEN "done" ELSE "final"
    /\ UNCHANGED <<queue, batch, ticked, closeVars, dbVars, offered, accepted, handed>>

\* Fault variant of BatchAfter: a batch that failed is kept for a retry.
BatchAfterRetry(inserted) == IF inserted THEN <<>> ELSE batch

\* What flush() leaves in the batch: nothing, whatever executeQuery said.
BatchAfter(inserted) == <<>>

\* executeQuery comes back and flush() ends: the rows are inserted, or the
\* insert was refused, or nobody knows yet.
FlushEnds ==
    /\ pc \in {"flush", "final"}
    /\ \/ rows' = rows \o batch /\ batch' = BatchAfter(TRUE) /\ UNCHANGED landing
       \/ batch' = BatchAfter(FALSE) /\ UNCHANGED dbVars
       \/ /\ landing' = landing \cup {batch}
          /\ batch' = BatchAfter(FALSE)
          /\ UNCHANGED rows
    /\ handed' = handed \o batch
    /\ pc' = IF pc = "flush" THEN "select" ELSE "done"
    /\ UNCHANGED <<queue, ticked, closeVars, offered, accepted>>

-----------------------------------------------------------------------------
(* The ticker and the database.                                            *)

\* The ticker fires; its channel holds one tick.
TickerFires ==
    /\ ~ticked
    /\ ticked' = TRUE
    /\ UNCHANGED <<queue, writerVars, closeVars, dbVars, offered, accepted, handed>>

\* An insert the client has given up is carried out after all, or never.
Land ==
    /\ \E b \in landing :
          /\ landing' = landing \ {b}
          /\ rows' \in {rows, rows \o b}
    /\ UNCHANGED <<queue, writerVars, ticked, closeVars, offered, accepted, handed>>

WriterStep == TakeEvent \/ TakeTick \/ TakeStop \/ DrainEvent \/ DrainEnd \/ FlushEnds

Next ==
    \/ \E e \in Events : WriteEvent(e)
    \/ Close \/ CloseReturns
    \/ WriterStep
    \/ TickerFires \/ Land

Spec == Init /\ [][Next]_vars

\* The writer is scheduled and its inserts end (client timeout); the ticker
\* keeps firing; the select, which chooses uniformly among the ready cases,
\* passes over none of them for ever.
Fairness ==
    /\ WF_vars(WriterStep)
    /\ SF_vars(TakeEvent)
    /\ SF_vars(TakeTick)
    /\ SF_vars(TakeStop)
    /\ WF_vars(TickerFires)
    /\ WF_vars(CloseReturns)

FairSpec == Spec /\ Fairness

-----------------------------------------------------------------------------
(* Safety.                                                                 *)

\* No accepted event is skipped, repeated or overtaken on its way through the
\* channel and the batch: what was accepted is what inserts were tried with,
\* followed by what the writer and the channel hold (clickhouse_sink.go:76-131).
Conservation == accepted = handed \o batch \o queue

\* An event becomes at most one row, although an insert reported as failed may
\* be carried out later: a failed batch is never tried again
\* (clickhouse_sink.go:97-106).
AtMostOneRow ==
    /\ IsInjective(rows)
    /\ \A b \in landing : Range(b) \cap Range(rows) = {}
    /\ \A b, d \in landing : b # d => Range(b) \cap Range(d) = {}

\* The main loop never selects with a full batch nor inserts more than
\* BatchSize rows; only the last insert after Close may be larger, because
\* handlers can keep writing while the writer drains (clickhouse_sink.go:110-128).
BatchWithinSize ==
    /\ pc = "select" => Len(batch) < BatchSize
    /\ pc = "flush" => Len(batch) \in 1 .. BatchSize

\* When Close has returned, an insert was tried for every event accepted
\* before Close was called (clickhouse_sink.go:84-88, 119-127).
CloseHandsOver ==
    closer = "returned" =>
        /\ batch = <<>>
        /\ Len(acceptedAtClose) <= Len(handed)
        /\ SubSeq(handed, 1, Len(acceptedAtClose)) = acceptedAtClose

\* The sink delivers as AnalyticsDelivery promises.
Delivery == INSTANCE AnalyticsDelivery WITH stored <- Range(rows)

DeliversAsPromised == Delivery!Spec

-----------------------------------------------------------------------------
(* Liveness, under FairSpec.                                               *)

\* While the sink is not closed, an event in the channel is handed to the
\* database, full batch or not (clickhouse_sink.go:116-117); an event written
\* after the writer has returned stays in the channel for ever.
QueuedIsHandedOver ==
    \A e \in Events :
        e \in Range(queue) ~> e \in Range(handed) \/ pc = "done"

\* Close returns (clickhouse_sink.go:84-88).
CloseTerminates == closer = "waiting" ~> closer = "returned"
=============================================================================
