--------------------------- MODULE ProcessorStart ---------------------------
(***************************************************************************)
(* How the Go processor starts (go_processor/main.go, analytics_sink.go,   *)
(* clickhouse_sink.go, server.go): main makes the analytics sink that the  *)
(* environment asks for, starts the gRPC server in a goroutine and serves  *)
(* HTTP.  GoProcessor adds the handlers and the sink's own steps.          *)
(*                                                                         *)
(* main is at one of these points:                                         *)
(*   sink     NewAnalyticsSinkFromEnv                                      *)
(*   ensure   ensureTable, waiting for the database                        *)
(*   listen   about to listen on the HTTP port                             *)
(*   serving  in ListenAndServe                                            *)
(* A sink that cannot be made is replaced by one that does nothing, for as *)
(* long as the process lives.  Panics, in main or in the goroutine of the  *)
(* writer, and a failing ListenAndServe end the process.                   *)
(***************************************************************************)
EXTENDS Integers

CONSTANTS
    Environments,   \* what the process may find in its environment
    Unset,          \* an integer setting that is empty or does not parse
    Identifiers,    \* table names clickHouseIdentifierRegex accepts
    DefaultTable,   \* "event_analytics"
    DefaultBatch, DefaultQueue, DefaultFlush,   \* 500, 10000, 2000
    MinBatch, MinQueue, MinFlush,               \* 1, 100, 100
    Milli,          \* time.Millisecond
    MaxInteger,     \* the largest int, and the largest time.Duration
    MaxCapacity     \* the most events make can reserve room for

Setting == (-MaxInteger - 1 .. MaxInteger) \cup {Unset}

ASSUME StartAssumption ==
    /\ \A e \in Environments :
          /\ e.backend \in {"none", "clickhouse", "unsupported"}
          /\ e.autoCreate \in {"unset", "yes", "no"}
          /\ {e.batch, e.queue, e.flush} \subseteq Setting
    /\ Unset \notin Int
    /\ MinBatch \in Nat \ {0} /\ MinQueue \in Nat \ {0} /\ MinFlush \in Nat \ {0}
    /\ {DefaultBatch, DefaultQueue, DefaultFlush, Milli, MaxInteger, MaxCapacity} \subseteq Nat

VARIABLES
    env,      \* the environment of this process
    main,     \* where main is
    kind,     \* the sink in use: "none" yet, "noop" or "clickhouse"
    writer,   \* the goroutine runWriter: "off", "starting", "running"
    grpc,     \* the goroutine of the gRPC server
    tables,   \* the tables of the database
    alive     \* the OS process runs

startVars == <<env, main, kind, writer, grpc, tables, alive>>

-----------------------------------------------------------------------------
(* The settings.                                                           *)

EnvInt(value, default) == IF value = Unset THEN default ELSE value

\* "1", "true", "yes" and "on" are "yes", other words "no".
EnvBool(value, default) == IF value = "unset" THEN default ELSE value = "yes"

\* Fault variant of AtLeast: no minimum.
AtLeastNothing(value, minimum) == value

\* maxInt.
AtLeast(value, minimum) == IF value < minimum THEN minimum ELSE value

SanitizeIdentifier(raw, fallback) == IF raw \in Identifiers THEN raw ELSE fallback

\* Multiplication of a time.Duration overflows silently.
Wrap(n) == ((n + MaxInteger + 1) % (2 * (MaxInteger + 1))) - (MaxInteger + 1)

BatchSizeOf(e) == AtLeast(EnvInt(e.batch, DefaultBatch), MinBatch)
QueueSizeOf(e) == AtLeast(EnvInt(e.queue, DefaultQueue), MinQueue)
FlushIntervalOf(e) == Wrap(AtLeast(EnvInt(e.flush, DefaultFlush), MinFlush) * Milli)
TableOf(e) == SanitizeIdentifier(e.table, DefaultTable)
AutoCreate(e) == EnvBool(e.autoCreate, TRUE)

StartTypeOK ==
    /\ env \in Environments
    /\ main \in {"sink", "ensure", "listen", "serving"}
    /\ kind \in {"none", "noop", "clickhouse"}
    /\ writer \in {"off", "starting", "running"}
    /\ grpc \in {"off", "starting", "listening", "failed"}
    /\ tables \subseteq {TableOf(env)}
    /\ alive \in BOOLEAN

-----------------------------------------------------------------------------
(* main.                                                                   *)

\* The database has no table yet, or one of an earlier process.
StartInit ==
    /\ env \in Environments
    /\ main = "sink"
    /\ kind = "none"
    /\ writer = "off"
    /\ grpc = "off"
    /\ tables \in {{}, {TableOf(env)}}
    /\ alive = TRUE

\* The sink is made, the gRPC goroutine starts, and main goes on to HTTP.
UseSink(sink) ==
    /\ kind' = sink
    /\ writer' = IF sink = "clickhouse" THEN "starting" ELSE "off"
    /\ grpc' = "starting"
    /\ main' = "listen"

\* No backend is asked for, or an unsupported one, which is an error.
NewNoopSink ==
    /\ main = "sink" /\ env.backend # "clickhouse"
    /\ UseSink("noop")
    /\ UNCHANGED <<env, tables, alive>>

\* NewClickHouseSinkFromEnv makes the channel, and the table if it should.
NewClickHouseSink ==
    /\ main = "sink" /\ env.backend = "clickhouse"
    /\ QueueSizeOf(env) <= MaxCapacity
    /\ IF AutoCreate(env)
       THEN main' = "ensure" /\ UNCHANGED <<kind, writer, grpc>>
       ELSE UseSink("clickhouse")
    /\ UNCHANGED <<env, tables, alive>>

\* make(chan Event, n) panics.
QueueTooLarge ==
    /\ main = "sink" /\ env.backend = "clickhouse"
    /\ QueueSizeOf(env) > MaxCapacity
    /\ alive' = FALSE
    /\ UNCHANGED <<env, main, kind, writer, grpc, tables>>

\* Fault variant of SinkAfter: the error is logged and forgotten.
SinkAfterAnyway(ensured) == "clickhouse"

\* The sink main uses after ensureTable.
SinkAfter(ensured) == IF ensured THEN "clickhouse" ELSE "noop"

\* ensureTable comes back: done, or refused, or given up after the client's
\* timeout, when the database may have made the table all the same.
EnsureTable ==
    /\ main = "ensure"
    /\ \/ tables' = tables \cup {TableOf(env)} /\ UseSink(SinkAfter(TRUE))
       \/ tables' \in {tables, tables \cup {TableOf(env)}} /\ UseSink(SinkAfter(FALSE))
    /\ UNCHANGED <<env, alive>>

\* Fault variant of MayListen: without `go', main waits for the gRPC server.
MayListenAfterGrpc == grpc = "failed"

\* main does not wait for the gRPC server.
MayListen == TRUE

\* ListenAndServe; where the port is taken, log.Fatal ends the process.
HttpStarts ==
    /\ main = "listen"
    /\ MayListen
    /\ \/ main' = "serving" /\ UNCHANGED alive
       \/ alive' = FALSE /\ UNCHANGED main
    /\ UNCHANGED <<env, kind, writer, grpc, tables>>

MainStep == NewNoopSink \/ NewClickHouseSink \/ QueueTooLarge \/ EnsureTable \/ HttpStarts

-----------------------------------------------------------------------------
(* The goroutines.                                                         *)

\* runWriter begins: NewTicker panics unless the interval is positive, make if the
\* batch is too large.
WriterStarts ==
    /\ writer = "starting"
    /\ IF FlushIntervalOf(env) > 0 /\ BatchSizeOf(env) <= MaxCapacity
       THEN writer' = "running" /\ UNCHANGED alive
       ELSE alive' = FALSE /\ UNCHANGED writer
    /\ UNCHANGED <<env, main, kind, grpc, tables>>

GrpcListens ==
    /\ grpc = "starting"
    /\ grpc' = "listening"
    /\ UNCHANGED <<env, main, kind, writer, tables, alive>>

\* Listen or Serve fails; the error is logged.
GrpcFails ==
    /\ grpc \in {"starting", "listening"}
    /\ grpc' = "failed"
    /\ UNCHANGED <<env, main, kind, writer, tables, alive>>

StartNext == alive /\ (MainStep \/ WriterStarts \/ GrpcListens \/ GrpcFails)

StartSpec == StartInit /\ [][StartNext]_startVars

-----------------------------------------------------------------------------
(* Properties.                                                             *)

\* A writer only runs on a table that exists, unless the environment says not to
\* create it: a CREATE TABLE that failed, or that nobody knows the outcome of,
\* leaves the process without the sink (clickhouse_sink.go:63-70, main.go:81-85).
WriterHasTable ==
    writer # "off" => kind = "clickhouse" /\ (AutoCreate(env) => TableOf(env) \in tables)

\* Whatever integers the environment holds, a writer runs with a batch of at least
\* one event, a channel of the least size and a ticker that ticks; where the flush
\* interval overflows to something negative, it does not run (clickhouse_sink.go:
\* 45-47, 93-96).
LegalSizes ==
    writer = "running" =>
        /\ BatchSizeOf(env) \in MinBatch .. MaxCapacity
        /\ QueueSizeOf(env) \in MinQueue .. MaxCapacity
        /\ FlushIntervalOf(env) \in 1 .. MaxInteger
=============================================================================
