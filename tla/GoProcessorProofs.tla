-------------------------- MODULE GoProcessorProofs --------------------------
(***************************************************************************)
(* Proofs about GoProcessor, for any environments, settings, requests and  *)
(* batches: the start-up leaves a writer only where it can run, what       *)
(* ClickHouse is offered is what the handlers counted, and the sink in the *)
(* process behaves as ClickHouseSink specifies.                            *)
(***************************************************************************)
EXTENDS GoProcessor, FiniteSetTheorems, TLAPS

\* What is proved of the sink on its own.
SinkProofs == INSTANCE ClickHouseSinkProofs

-----------------------------------------------------------------------------
(* The settings.                                                           *)

LEMMA AtLeastMinimum ==
    ASSUME NEW v \in Setting, NEW default \in Nat, NEW minimum \in Nat \ {0}
    PROVE  /\ AtLeast(EnvInt(v, default), minimum) \in Nat
           /\ minimum <= AtLeast(EnvInt(v, default), minimum)
<1>1. EnvInt(v, default) \in Int
  BY StartAssumption DEF StartAssumption, Setting, EnvInt
<1> QED BY <1>1 DEF AtLeast

LEMMA Wrapped == ASSUME NEW n \in Int PROVE Wrap(n) \in Int /\ Wrap(n) <= MaxInteger
<1>1. MaxInteger \in Nat
  BY StartAssumption DEF StartAssumption
<1>2. PICK m \in Nat \ {0} : m = 2 * (MaxInteger + 1)
  BY <1>1
<1>3. (n + MaxInteger + 1) % m \in 0 .. m - 1
  BY <1>1, <1>2
<1> QED BY <1>1, <1>2, <1>3 DEF Wrap

\* Whatever the environment, the sizes and the interval are integers above their
\* minimums, the interval as far as it fits.
LEMMA Sizes ==
    ASSUME NEW e \in Environments
    PROVE  /\ BatchSizeOf(e) \in Nat /\ MinBatch <= BatchSizeOf(e)
           /\ QueueSizeOf(e) \in Nat /\ MinQueue <= QueueSizeOf(e)
           /\ FlushIntervalOf(e) \in Int /\ FlushIntervalOf(e) <= MaxInteger
           /\ MaxCapacity \in Nat /\ {MinBatch, MinQueue} \subseteq Nat
<1>1. /\ {e.batch, e.queue, e.flush} \subseteq Setting
      /\ MinBatch \in Nat \ {0} /\ MinQueue \in Nat \ {0} /\ MinFlush \in Nat \ {0}
      /\ DefaultBatch \in Nat /\ DefaultQueue \in Nat /\ DefaultFlush \in Nat
      /\ Milli \in Nat /\ MaxCapacity \in Nat
  BY StartAssumption DEF StartAssumption
<1>2. BatchSizeOf(e) \in Nat /\ MinBatch <= BatchSizeOf(e)
  BY <1>1, AtLeastMinimum DEF BatchSizeOf
<1>3. QueueSizeOf(e) \in Nat /\ MinQueue <= QueueSizeOf(e)
  BY <1>1, AtLeastMinimum DEF QueueSizeOf
<1>4. AtLeast(EnvInt(e.flush, DefaultFlush), MinFlush) * Milli \in Int
  BY <1>1, AtLeastMinimum
<1>5. FlushIntervalOf(e) \in Int /\ FlushIntervalOf(e) <= MaxInteger
  BY <1>4, Wrapped DEF FlushIntervalOf
<1> QED BY <1>1, <1>2, <1>3, <1>5

-----------------------------------------------------------------------------
(* The start.                                                              *)

\* No sink is in use before main has left NewAnalyticsSinkFromEnv, and none of the
\* goroutines runs; a channel that could not be made has no writer.
Sequenced ==
    /\ main \in {"sink", "ensure"} <=> kind = "none"
    /\ main \in {"sink", "ensure"} => writer = "off" /\ grpc = "off"
    /\ main = "ensure" =>
          env.backend = "clickhouse" /\ AutoCreate(env) /\ QueueSizeOf(env) <= MaxCapacity
    /\ writer # "off" => QueueSizeOf(env) <= MaxCapacity

StartInv == StartTypeOK /\ Sequenced /\ WriterHasTable /\ LegalSizes

LEMMA StartInitInv == StartInit => StartInv
  BY DEF StartInit, StartInv, StartTypeOK, Sequenced, WriterHasTable, LegalSizes

LEMMA MainInv == ASSUME StartInv, MainStep PROVE StartInv'
<1> USE DEF StartInv, StartTypeOK, Sequenced, WriterHasTable, UseSink
<1>1. env' = env
  BY DEF MainStep, NewNoopSink, NewClickHouseSink, QueueTooLarge, EnsureTable, HttpStarts
<1>2. /\ AutoCreate(env') = AutoCreate(env) /\ TableOf(env') = TableOf(env)
      /\ QueueSizeOf(env') = QueueSizeOf(env) /\ BatchSizeOf(env') = BatchSizeOf(env)
      /\ FlushIntervalOf(env') = FlushIntervalOf(env)
  BY <1>1
<1>3. LegalSizes'
  BY <1>1, <1>2 DEF LegalSizes, MainStep, NewNoopSink, NewClickHouseSink, QueueTooLarge,
     EnsureTable, HttpStarts
<1>4. CASE NewNoopSink
  BY <1>2, <1>3, <1>4 DEF NewNoopSink
<1>5. CASE NewClickHouseSink
  BY <1>2, <1>3, <1>5 DEF NewClickHouseSink
<1>6. CASE QueueTooLarge
  BY <1>2, <1>3, <1>6 DEF QueueTooLarge
<1>7. CASE EnsureTable
  BY <1>2, <1>3, <1>7 DEF EnsureTable, SinkAfter
<1>8. CASE HttpStarts
  BY <1>2, <1>3, <1>8 DEF HttpStarts
<1> QED BY <1>4, <1>5, <1>6, <1>7, <1>8 DEF MainStep

LEMMA GoroutineInv == ASSUME StartInv, WriterStarts \/ GrpcListens \/ GrpcFails PROVE StartInv'
<1> USE DEF StartInv, StartTypeOK, Sequenced, WriterHasTable
<1>1. env' = env
  BY DEF WriterStarts, GrpcListens, GrpcFails
<1>2. /\ AutoCreate(env') = AutoCreate(env) /\ TableOf(env') = TableOf(env)
      /\ QueueSizeOf(env') = QueueSizeOf(env) /\ BatchSizeOf(env') = BatchSizeOf(env)
      /\ FlushIntervalOf(env') = FlushIntervalOf(env)
  BY <1>1
<1>3. LegalSizes'
  BY <1>1, <1>2, Sizes DEF LegalSizes, WriterStarts, GrpcListens, GrpcFails
<1> QED BY <1>2, <1>3 DEF WriterStarts, GrpcListens, GrpcFails

LEMMA StartStill == ASSUME StartInv, UNCHANGED <<env, main, kind, writer, grpc, tables>>,
                           alive' \in BOOLEAN
                    PROVE  StartInv'
  BY DEF StartInv, StartTypeOK, Sequenced, WriterHasTable, LegalSizes

LEMMA StartStepInv == StartInv /\ [Next]_vars => StartInv'
<1> SUFFICES ASSUME StartInv, [Next]_vars PROVE StartInv'
  OBVIOUS
<1>1. CASE Start
  BY <1>1, MainInv, GoroutineInv DEF Start, StartNext
<1>2. CASE Exit
  BY <1>2, StartStill DEF Exit
<1>3. CASE UNCHANGED startVars
  BY <1>3, StartStill DEF startVars, StartInv, StartTypeOK
<1>4. ASSUME NEW r \in Requests, Handler(r) PROVE UNCHANGED startVars
  BY <1>4 DEF Handler, Receive, ReceiveNothingHttp, ReceiveNothingGrpc, ProcessNext, Reply,
     Conclude
<1> QED BY <1>1, <1>2, <1>3, <1>4 DEF Next, SinkStep, Land, vars

-----------------------------------------------------------------------------
(* The handlers.                                                           *)

HandlerTypes ==
    /\ phase \in [Requests -> {"new", "work", "reply", "answered"}]
    /\ processed \in [Requests -> Nat]
    /\ failed \in [Requests -> Nat]
    /\ answer \in [Requests -> {"none", "ok", "error", "counts", "rejected"}]

\* Requests are only received when there is a sink, and every event of one is
\* processed before it is answered.
Counted(r) ==
    /\ phase[r] \in {"work", "reply"} => kind # "none" /\ Batch[r] # <<>>
    /\ phase[r] = "new" => processed[r] = 0 /\ failed[r] = 0
    /\ phase[r] = "work" => processed[r] + failed[r] < Len(Batch[r])
    /\ phase[r] = "reply" => processed[r] + failed[r] = Len(Batch[r])
    /\ phase[r] = "answered" /\ Batch[r] # <<>> =>
          kind # "none" /\ processed[r] + failed[r] = Len(Batch[r])
    /\ phase[r] = "answered" /\ Batch[r] = <<>> => processed[r] = 0 /\ failed[r] = 0
    /\ answer[r] = "ok" => phase[r] = "answered" /\ failed[r] = 0

\* The events of r that ClickHouse was offered.
Offered(r) == offered \cap Range(Batch[r])

\* They are among those the handler has been through, as many as it processed, and
\* all of those where none failed.
Recorded(r) ==
    /\ Offered(r) \subseteq {Batch[r][i] : i \in 1 .. processed[r] + failed[r]}
    /\ IsFiniteSet(Offered(r))
    /\ Cardinality(Offered(r)) = IF kind = "clickhouse" THEN processed[r] ELSE 0
    /\ kind = "clickhouse" /\ failed[r] = 0 => \A i \in 1 .. processed[r] : Batch[r][i] \in offered

HandlerInv == HandlerTypes /\ \A r \in Requests : Counted(r) /\ Recorded(r)

LEMMA HandlerInitInv == Init => HandlerInv
<1> SUFFICES ASSUME Init PROVE HandlerInv
  OBVIOUS
<1>1. HandlerTypes /\ offered = {} /\ kind = "none"
  BY DEF Init, HandlerTypes, StartInit, Sink!Init
<1>2. ASSUME NEW r \in Requests PROVE Counted(r) /\ Recorded(r)
  <2>1. phase[r] = "new" /\ processed[r] = 0 /\ failed[r] = 0 /\ answer[r] = "none"
    BY DEF Init
  <2>2. Offered(r) = {}
    BY <1>1 DEF Offered
  <2> QED BY <1>1, <2>1, <2>2, FS_EmptySet DEF Counted, Recorded
<1> QED BY <1>1, <1>2 DEF HandlerInv

\* A step of others that offers nothing and keeps the sink.
LEMMA HandlerStill ==
    ASSUME HandlerInv, UNCHANGED <<phase, processed, failed, answer, offered>>,
           kind' = kind \/ (kind = "none" /\ kind' \in {"noop", "clickhouse"})
    PROVE  HandlerInv'
<1>1. HandlerTypes'
  BY DEF HandlerInv, HandlerTypes
<1>2. ASSUME NEW r \in Requests PROVE Counted(r)' /\ Recorded(r)'
  <2>1. Counted(r) /\ Recorded(r)
    BY DEF HandlerInv
  <2>2. Offered(r)' = Offered(r)
    BY DEF Offered
  <2>3. kind = "none" => processed[r] = 0
    BY <2>1 DEF HandlerInv, HandlerTypes, Counted
  <2>4. Counted(r)'
    BY <2>1 DEF Counted
  <2>5. Recorded(r)'
    BY <2>1, <2>2, <2>3 DEF Recorded
  <2> QED BY <2>4, <2>5
<1> QED BY <1>1, <1>2 DEF HandlerInv

\* The requests are over before anything is offered of them.
LEMMA Concluded ==
    ASSUME HandlerInv, NEW r \in Requests, NEW told \in {"ok", "error", "counts", "rejected"},
           Conclude(r, told), kind # "none" \/ Batch[r] = <<>>,
           phase[r] = "reply" \/ (phase[r] = "new" /\ Batch[r] = <<>>),
           told = "ok" => failed[r] = 0
    PROVE  HandlerInv'
<1> USE DEF Conclude, startVars, sinkVars
<1>1. HandlerTypes'
  BY DEF HandlerInv, HandlerTypes
<1>2. ASSUME NEW q \in Requests PROVE Counted(q)' /\ Recorded(q)'
  <2>1. Counted(q) /\ Recorded(q) /\ Counted(r)
    BY DEF HandlerInv
  <2>2. Recorded(q)'
    BY <2>1 DEF Recorded, Offered
  <2>3. CASE q = r
    BY <2>1, <2>2, <2>3 DEF Counted, HandlerInv, HandlerTypes
  <2>4. CASE q # r
    BY <2>1, <2>2, <2>4 DEF Counted, HandlerInv, HandlerTypes
  <2> QED BY <2>3, <2>4
<1> QED BY <1>1, <1>2 DEF HandlerInv

LEMMA ReceiveInv == ASSUME StartInv, HandlerInv, NEW r \in Requests, Receive(r) PROVE HandlerInv'
<1> USE DEF Receive, startVars, sinkVars
<1>1. kind # "none"
  <2>1. main = "serving" \/ grpc = "listening"
    BY DEF Accepting
  <2> QED BY <2>1 DEF StartInv, Sequenced
<1>2. HandlerTypes'
  BY DEF HandlerInv, HandlerTypes
<1>3. Batch[r] \in Seq(Events)
  BY ProcessorAssumption DEF ProcessorAssumption
<1>4. Len(Batch[r]) \in Nat /\ Len(Batch[r]) > 0
  BY <1>3
<1>5. ASSUME NEW q \in Requests PROVE Counted(q)' /\ Recorded(q)'
  <2>1. Counted(q) /\ Recorded(q)
    BY DEF HandlerInv
  <2>2. Recorded(q)'
    BY <2>1 DEF Recorded, Offered
  <2>3. CASE q = r
    BY <1>1, <1>4, <2>1, <2>2, <2>3 DEF Counted, HandlerInv, HandlerTypes
  <2>4. CASE q # r
    BY <2>1, <2>2, <2>4 DEF Counted, HandlerInv, HandlerTypes
  <2> QED BY <2>3, <2>4
<1> QED BY <1>2, <1>5 DEF HandlerInv

\* An event goes into the history of its own request and of no other.
LEMMA OfferedGrows ==
    ASSUME HandlerInv, NEW r \in Requests, phase[r] = "work",
           NEW e, e = Batch[r][At(r)], offered' = offered \cup {e}
    PROVE  /\ e \in Events /\ Offered(r)' = Offered(r) \cup {e}
           /\ \A q \in Requests \ {r} : Offered(q)' = Offered(q)
<1>1. Batch[r] \in Seq(Events) /\ DOMAIN Batch[r] = 1 .. Len(Batch[r])
  BY ProcessorAssumption DEF ProcessorAssumption
<1>2. At(r) \in 1 .. Len(Batch[r])
  BY <1>1 DEF HandlerInv, HandlerTypes, Counted, At
<1>3. e \in Range(Batch[r]) /\ e \in Events
  BY <1>1, <1>2 DEF Range
<1>4. \A q \in Requests \ {r} : e \notin Range(Batch[q])
  BY <1>3, ProcessorAssumption DEF ProcessorAssumption
<1> QED BY <1>3, <1>4 DEF Offered

LEMMA ProcessInv == ASSUME HandlerInv, NEW r \in Requests, ProcessNext(r) PROVE HandlerInv'
<1>1. Counted(r) /\ Recorded(r) /\ HandlerTypes /\ phase[r] = "work"
  BY DEF HandlerInv, ProcessNext
<1>2. PICK p \in Nat, f \in Nat : p = processed[r] /\ f = failed[r]
  BY <1>1 DEF HandlerTypes
<1>3. PICK e : e = Batch[r][At(r)]
  OBVIOUS
<1>4. /\ Batch[r] \in Seq(Events) /\ Len(Batch[r]) \in Nat /\ kind # "none" /\ Batch[r] # <<>>
      /\ p + f < Len(Batch[r]) /\ At(r) = p + f + 1
  BY <1>1, <1>2, ProcessorAssumption DEF ProcessorAssumption, Counted, At
<1>5. /\ phase' = [phase EXCEPT ![r] = IF At(r) = Len(Batch[r]) THEN "reply" ELSE "work"]
      /\ UNCHANGED <<kind, answer>>
  BY DEF ProcessNext, startVars
<1>6. \/ /\ UNCHANGED <<offered, processed>>
         /\ failed' = [failed EXCEPT ![r] = @ + 1]
      \/ /\ UNCHANGED failed
         /\ processed' = [processed EXCEPT ![r] = @ + 1]
         /\ IF kind = "clickhouse" THEN e \notin offered /\ offered' = offered \cup {e}
                                   ELSE UNCHANGED offered
  BY <1>3 DEF ProcessNext, MayOffer, WriteEvent, Sink!WriteEvent, sinkVars
<1>7. HandlerTypes'
  <2>1. phase' \in [Requests -> {"new", "work", "reply", "answered"}]
    BY <1>1, <1>5 DEF HandlerTypes
  <2>2. processed' \in [Requests -> Nat] /\ failed' \in [Requests -> Nat]
    BY <1>1, <1>6 DEF HandlerTypes
  <2> QED BY <1>1, <1>5, <2>1, <2>2 DEF HandlerTypes
<1>8. \A q \in Requests \ {r} :
          /\ phase'[q] = phase[q] /\ processed'[q] = processed[q] /\ failed'[q] = failed[q]
          /\ Offered(q)' = Offered(q)
  <2>1. \A q \in Requests \ {r} :
          /\ phase'[q] = phase[q] /\ processed'[q] = processed[q] /\ failed'[q] = failed[q]
    BY <1>1, <1>5, <1>6 DEF HandlerTypes
  <2>2. UNCHANGED offered => \A q \in Requests : Offered(q)' = Offered(q)
    BY DEF Offered
  <2> QED BY <1>1, <1>3, <1>6, <2>1, <2>2, OfferedGrows
<1>9. ASSUME NEW q \in Requests \ {r} PROVE Counted(q)' /\ Recorded(q)'
  <2>1. Counted(q) /\ Recorded(q)
    BY DEF HandlerInv
  <2>2. \A i : Batch[q][i] \in offered => Batch[q][i] \in offered'
    BY <1>6
  <2> QED BY <1>5, <1>8, <2>1, <2>2 DEF Counted, Recorded
<1>10. /\ phase'[r] = IF p + f + 1 = Len(Batch[r]) THEN "reply" ELSE "work"
       /\ \/ processed'[r] = p /\ failed'[r] = f + 1
          \/ processed'[r] = p + 1 /\ failed'[r] = f
  BY <1>1, <1>2, <1>4, <1>5, <1>6 DEF HandlerTypes
<1>11. Counted(r)'
  <2>1. /\ answer'[r] = answer[r] /\ kind' = kind /\ kind # "none" /\ Batch[r] # <<>>
        /\ phase[r] = "work"
    BY <1>1, <1>4, <1>5
  <2>2. answer'[r] # "ok"
    BY <1>1, <2>1 DEF Counted
  <2>3. CASE p + f + 1 = Len(Batch[r])
    <3>1. phase'[r] = "reply" /\ processed'[r] + failed'[r] = Len(Batch[r])
      BY <1>10, <2>3
    <3> QED BY <1>1, <2>1, <2>2, <3>1 DEF Counted
  <2>4. CASE p + f + 1 # Len(Batch[r])
    <3>1. phase'[r] = "work" /\ processed'[r] + failed'[r] < Len(Batch[r])
      BY <1>4, <1>10, <2>4
    <3> QED BY <1>1, <2>1, <2>2, <3>1 DEF Counted
  <2> QED BY <2>3, <2>4
<1>12. Recorded(r)'
  <2>1. /\ Offered(r) \subseteq {Batch[r][i] : i \in 1 .. p + f}
        /\ IsFiniteSet(Offered(r))
        /\ Cardinality(Offered(r)) = IF kind = "clickhouse" THEN p ELSE 0
        /\ kind = "clickhouse" /\ f = 0 => \A i \in 1 .. p : Batch[r][i] \in offered
    BY <1>1, <1>2 DEF Recorded
  <2>2. processed'[r] + failed'[r] = p + f + 1
    BY <1>10
  <2>3. /\ {Batch[r][i] : i \in 1 .. p + f} \subseteq {Batch[r][i] : i \in 1 .. p + f + 1}
        /\ e \in {Batch[r][i] : i \in 1 .. p + f + 1}
    BY <1>3, <1>4
  <2>4. CASE UNCHANGED offered /\ (kind # "clickhouse" \/ processed' = processed)
    <3>1. Offered(r)' = Offered(r)
      BY <2>4 DEF Offered
    <3>2. kind = "clickhouse" => processed'[r] = p /\ failed'[r] = f + 1 /\ f + 1 # 0
      BY <1>2, <1>10, <2>4
    <3> QED BY <1>5, <2>1, <2>2, <2>3, <3>1, <3>2 DEF Recorded
  <2>5. CASE kind = "clickhouse" /\ e \notin offered /\ offered' = offered \cup {e}
             /\ processed'[r] = p + 1 /\ failed'[r] = f
    <3>1. Offered(r)' = Offered(r) \cup {e} /\ e \notin Offered(r)
      BY <1>1, <1>3, <2>5, OfferedGrows DEF Offered
    <3>2. IsFiniteSet(Offered(r)') /\ Cardinality(Offered(r)') = p + 1
      BY <2>1, <2>5, <3>1, FS_AddElement
    <3>3. ASSUME f = 0, NEW i \in 1 .. p + 1 PROVE Batch[r][i] \in offered'
      <4>1. i \in 1 .. p \/ i = At(r)
        BY <1>4, <3>3
      <4> QED BY <1>3, <2>1, <2>5, <3>3, <4>1
    <3> QED BY <1>5, <2>1, <2>2, <2>3, <2>5, <3>1, <3>2, <3>3 DEF Recorded
  <2>6. \/ UNCHANGED <<offered, processed>>
        \/ kind # "clickhouse" /\ UNCHANGED offered
        \/ kind = "clickhouse" /\ e \notin offered /\ offered' = offered \cup {e}
           /\ processed'[r] = p + 1 /\ failed'[r] = f
    BY <1>1, <1>2, <1>6 DEF HandlerTypes
  <2> QED BY <2>4, <2>5, <2>6
<1> QED BY <1>7, <1>9, <1>11, <1>12 DEF HandlerInv

LEMMA HandlerStepInv == StartInv /\ HandlerInv /\ [Next]_vars => HandlerInv'
<1> SUFFICES ASSUME StartInv, HandlerInv, [Next]_vars PROVE HandlerInv'
  OBVIOUS
<1>1. CASE Start
  <2>1. kind' = kind \/ (kind = "none" /\ kind' \in {"noop", "clickhouse"})
    BY <1>1 DEF Start, StartNext, MainStep, NewNoopSink, NewClickHouseSink, QueueTooLarge,
       EnsureTable, HttpStarts, WriterStarts, GrpcListens, GrpcFails, UseSink, SinkAfter,
       StartInv, Sequenced
  <2> QED BY <1>1, <2>1, HandlerStill DEF Start, sinkVars
<1>2. ASSUME NEW r \in Requests, Handler(r) PROVE HandlerInv'
  <2>1. Counted(r)
    BY DEF HandlerInv
  <2>2. CASE Receive(r)
    BY <2>2, ReceiveInv
  <2>3. CASE ReceiveNothingHttp(r) \/ ReceiveNothingGrpc(r)
    BY <2>1, <2>3, Concluded DEF ReceiveNothingHttp, ReceiveNothingGrpc, Counted
  <2>4. CASE ProcessNext(r)
    BY <2>4, ProcessInv
  <2>5. CASE Reply(r)
    BY <2>1, <2>5, Concluded DEF Reply, Counted
  <2> QED BY <1>2, <2>2, <2>3, <2>4, <2>5 DEF Handler
<1>3. CASE SinkStep \/ Land \/ Exit \/ UNCHANGED vars
  BY <1>3, HandlerStill DEF SinkStep, Land, Exit, vars, startVars, sinkVars, Sink!TakeEvent,
     Sink!TakeTick, Sink!FlushEnds, Sink!TickerFires, Sink!Land
<1> QED BY <1>1, <1>2, <1>3 DEF Next

-----------------------------------------------------------------------------
\* The inductive invariant holds throughout (main.go:80-180).
THEOREM Invariance == Spec => [](StartInv /\ HandlerInv)
<1>1. Init => StartInv /\ HandlerInv
  BY StartInitInv, HandlerInitInv DEF Init
<1> QED BY <1>1, StartStepInv, HandlerStepInv, PTL DEF Spec

\* For any environments, a writer that runs has a table, unless the environment says
\* not to create it (clickhouse_sink.go:63-70, main.go:81-85).
THEOREM TableBeforeWriter == Spec => []WriterHasTable
<1>1. StartInv => WriterHasTable
  BY DEF StartInv
<1> QED BY <1>1, Invariance, PTL

\* For any integers in the environment and any width, a writer only runs with sizes
\* and an interval in bounds (clickhouse_sink.go:45-47, 93-96).
THEOREM SizesInBounds == Spec => []LegalSizes
<1>1. StartInv => LegalSizes
  BY DEF StartInv
<1> QED BY <1>1, Invariance, PTL

\* For any requests and batches in any interleaving, what ClickHouse was offered is
\* what was counted as processed (main.go:152-169, server.go:76-103).
THEOREM CountsAreRight == Spec => []OfferedAsCounted
<1>1. StartInv /\ HandlerInv => OfferedAsCounted
  <2> SUFFICES ASSUME StartInv, HandlerInv, NEW r \in Requests
               PROVE  /\ Cardinality(offered \cap Range(Batch[r])) =
                             IF kind = "clickhouse" THEN processed[r] ELSE 0
                      /\ phase[r] = "answered" /\ Batch[r] # <<>> =>
                             processed[r] + failed[r] = Len(Batch[r])
                      /\ answer[r] = "ok" /\ kind = "clickhouse" => Range(Batch[r]) \subseteq offered
    BY DEF OfferedAsCounted
  <2>1. Counted(r) /\ Recorded(r) /\ processed[r] \in Nat
    BY DEF HandlerInv, HandlerTypes
  <2>2. Batch[r] \in Seq(Events) /\ DOMAIN Batch[r] = 1 .. Len(Batch[r])
    BY ProcessorAssumption DEF ProcessorAssumption
  <2>3. ASSUME answer[r] = "ok", kind = "clickhouse" PROVE Range(Batch[r]) \subseteq offered
    <3>1. failed[r] = 0 /\ (Batch[r] # <<>> => processed[r] = Len(Batch[r]))
      BY <2>1, <2>3 DEF Counted
    <3>2. \A i \in DOMAIN Batch[r] : Batch[r][i] \in offered
      BY <2>1, <2>2, <2>3, <3>1 DEF Recorded
    <3> QED BY <3>2 DEF Range
  <2> QED BY <2>1, <2>3 DEF Counted, Recorded, Offered
<1> QED BY <1>1, Invariance, PTL

\* Whatever the start, the handlers and the end of the process do, the sink behaves
\* as ClickHouseSink specifies, so what is proved of it holds in the processor
\* (main.go:81-98, 152-169).
THEOREM ComposesSink == Spec => Sink!Spec
<1>1. Init => Sink!Init
  BY DEF Init
<1>2. HandlerInv /\ [Next]_vars => [Sink!Next]_Sink!vars
  <2> SUFFICES ASSUME HandlerInv, [Next]_vars PROVE [Sink!Next]_Sink!vars
    OBVIOUS
  <2>1. UNCHANGED sinkVars => UNCHANGED Sink!vars
    BY DEF sinkVars, Sink!vars, Sink!writerVars, Sink!closeVars, Sink!dbVars
  <2>2. CASE SinkStep \/ Land
    BY <2>2 DEF SinkStep, Land, Sink!Next, Sink!WriterStep
  <2>3. ASSUME NEW r \in Requests, ProcessNext(r) PROVE [Sink!Next]_Sink!vars
    <3>1. PICK e : e = Batch[r][At(r)]
      OBVIOUS
    <3>2. UNCHANGED sinkVars \/ Sink!WriteEvent(e)
      BY <2>3, <3>1 DEF ProcessNext, WriteEvent
    <3>3. CASE Sink!WriteEvent(e)
      <4>1. phase[r] = "work" /\ offered' = offered \cup {e}
        BY <2>3, <3>3 DEF ProcessNext, Sink!WriteEvent
      <4>2. e \in Events
        BY <3>1, <4>1, OfferedGrows
      <4> QED BY <3>3, <4>2 DEF Sink!Next
    <3> QED BY <2>1, <3>2, <3>3
  <2>4. ASSUME NEW r \in Requests, Handler(r), ~ProcessNext(r) PROVE UNCHANGED sinkVars
    BY <2>4 DEF Handler, Receive, ReceiveNothingHttp, ReceiveNothingGrpc, Reply, Conclude
  <2>5. CASE Start \/ Exit \/ UNCHANGED vars
    BY <2>1, <2>5 DEF Start, Exit, vars
  <2> QED BY <2>1, <2>2, <2>3, <2>4, <2>5 DEF Next
<1> QED BY <1>1, <1>2, Invariance, PTL DEF Spec, Sink!Spec

-----------------------------------------------------------------------------
(* What is proved of the sink alone, carried over to the processor.        *)

\* The two instances of the sink are the same.
LEMMA SameSink ==
    /\ Sink!Init <=> SinkProofs!Init
    /\ [Sink!Next]_(Sink!vars) <=> [SinkProofs!Next]_(SinkProofs!vars)
<1> USE DEF Sink!writerVars, Sink!closeVars, Sink!dbVars,
        SinkProofs!writerVars, SinkProofs!closeVars, SinkProofs!dbVars
<1>1. Sink!Init <=> SinkProofs!Init
  BY DEF Sink!Init, SinkProofs!Init
<1>2. UNCHANGED Sink!vars <=> UNCHANGED SinkProofs!vars
  BY DEF Sink!vars, SinkProofs!vars
<1>3. Sink!WriterStep <=> SinkProofs!WriterStep
  BY DEF Sink!WriterStep, SinkProofs!WriterStep,
     Sink!TakeEvent, Sink!TakeTick, Sink!TakeStop, Sink!DrainEvent, Sink!DrainEnd,
     Sink!FlushEnds, Sink!BatchFull, Sink!BatchAfter,
     SinkProofs!TakeEvent, SinkProofs!TakeTick, SinkProofs!TakeStop, SinkProofs!DrainEvent,
     SinkProofs!DrainEnd, SinkProofs!FlushEnds, SinkProofs!BatchFull, SinkProofs!BatchAfter
<1>4. Sink!Next <=> SinkProofs!Next
  BY <1>3 DEF Sink!Next, SinkProofs!Next,
     Sink!WriteEvent, Sink!HasRoom, Sink!Close, Sink!CloseReturns, Sink!TickerFires, Sink!Land,
     SinkProofs!WriteEvent, SinkProofs!HasRoom, SinkProofs!Close, SinkProofs!CloseReturns,
     SinkProofs!TickerFires, SinkProofs!Land
<1> QED BY <1>1, <1>2, <1>4

\* The processor is a sink for which everything proved of sinks holds.
LEMMA SinkInvariance == Spec => []SinkProofs!IInv
<1>1. SinkProofs!SinkAssumption
  BY ProcessorAssumption DEF ProcessorAssumption, SinkProofs!SinkAssumption
<1>2. SinkProofs!Spec => []SinkProofs!IInv
  BY <1>1, SinkProofs!Invariance
<1>3. Sink!Spec => SinkProofs!Spec
  BY SameSink, PTL DEF Sink!Spec, SinkProofs!Spec
<1> QED BY <1>2, <1>3, ComposesSink, PTL

\* Every variable of the processor keeps its type: the start's, the handlers' and those
\* of the sink, whose channel never holds more than it has room for (main.go:31-169,
\* clickhouse_sink.go:76-131).
THEOREM TypeCorrect == Spec => []TypeOK
<1>1. SinkProofs!IInv => Sink!TypeOK
  BY DEF SinkProofs!IInv, SinkProofs!TypeOK, Sink!TypeOK
<1>2. HandlerInv => \A r \in Requests : processed[r] + failed[r] <= Len(Batch[r])
  <2> SUFFICES ASSUME HandlerInv, NEW r \in Requests
               PROVE  processed[r] + failed[r] <= Len(Batch[r])
    OBVIOUS
  <2>1. /\ Counted(r) /\ processed[r] \in Nat /\ failed[r] \in Nat
        /\ phase[r] \in {"new", "work", "reply", "answered"}
    BY DEF HandlerInv, HandlerTypes
  <2>2. Len(Batch[r]) \in Nat
    BY ProcessorAssumption DEF ProcessorAssumption
  <2> QED BY <2>1, <2>2 DEF Counted
<1>3. StartInv /\ HandlerInv /\ SinkProofs!IInv => TypeOK
  BY <1>1, <1>2 DEF StartInv, HandlerInv, HandlerTypes, TypeOK
<1> QED BY <1>3, Invariance, SinkInvariance, PTL

\* What handlers, the writer and the end of the process do in between notwithstanding,
\* nothing that was accepted is skipped, repeated or overtaken on its way to the
\* database (main.go:31-53, clickhouse_sink.go:76-131).
THEOREM ProcessConserves == Spec => []Sink!Conservation
<1>1. SinkProofs!IInv => Sink!Conservation
  BY DEF SinkProofs!IInv, SinkProofs!Conservation, Sink!Conservation
<1> QED BY <1>1, SinkInvariance, PTL

\* For any requests, batches and sizes, the table has at most as many rows of a request as
\* were counted as processed, however inserts time out and land late (main.go:31-53,
\* 152-169; clickhouse_sink.go:76-131).
THEOREM RowsAreCounted == Spec => []RowsAsCounted
<1>1. SinkProofs!IInv => Range(rows) \subseteq offered /\ IsInjective(rows)
  <2> SUFFICES ASSUME SinkProofs!IInv PROVE Range(rows) \subseteq offered /\ IsInjective(rows)
    OBVIOUS
  <2>1. SinkProofs!SinkAssumption
    BY ProcessorAssumption DEF ProcessorAssumption, SinkProofs!SinkAssumption
  <2>2. SinkProofs!Range(rows) \subseteq offered
    BY <2>1, SinkProofs!RowsWereOffered
  <2>3. SinkProofs!IsInjective(rows)
    BY DEF SinkProofs!IInv, SinkProofs!AtMostOneRow
  <2> QED BY <2>2, <2>3 DEF SinkProofs!Range, SinkProofs!IsInjective, Range, IsInjective
<1>2. HandlerInv /\ SinkProofs!IInv => RowsAsCounted
  <2> SUFFICES ASSUME HandlerInv, SinkProofs!IInv, NEW r \in Requests
               PROVE  Cardinality({i \in DOMAIN rows : rows[i] \in Range(Batch[r])}) <=
                          IF kind = "clickhouse" THEN processed[r] ELSE 0
    BY DEF RowsAsCounted
  <2> DEFINE ofRequest == {i \in DOMAIN rows : rows[i] \in Range(Batch[r])}
             event == [i \in ofRequest |-> rows[i]]
  <2>1. \A i \in ofRequest : rows[i] \in Offered(r)
    BY <1>1 DEF Offered, Range
  <2>2. event \in Injection(ofRequest, Offered(r))
    BY <1>1, <2>1 DEF Injection, IsInjective
  <2>3. /\ IsFiniteSet(Offered(r))
        /\ Cardinality(Offered(r)) = IF kind = "clickhouse" THEN processed[r] ELSE 0
    BY DEF HandlerInv, Recorded
  <2> HIDE DEF ofRequest, event
  <2>4. Cardinality(ofRequest) <= Cardinality(Offered(r))
    BY <2>2, <2>3, FS_Injection
  <2> QED BY <2>3, <2>4 DEF ofRequest
<1> QED BY <1>2, Invariance, SinkInvariance, PTL

\* The processor as a whole delivers as AnalyticsDelivery promises, from whatever
\* environment it starts and wherever it ends (main.go:80-98, clickhouse_sink.go:76-131).
THEOREM ProcessDelivers == Spec => Sink!DeliversAsPromised
<1>1. SinkProofs!SinkAssumption
  BY ProcessorAssumption DEF ProcessorAssumption, SinkProofs!SinkAssumption
<1>2. SinkProofs!Spec => SinkProofs!DeliversAsPromised
  BY <1>1, SinkProofs!Refinement
<1>3. Sink!Spec => SinkProofs!Spec
  BY SameSink, PTL DEF Sink!Spec, SinkProofs!Spec
<1>4. /\ SinkProofs!Delivery!Init <=> Sink!Delivery!Init
      /\ [SinkProofs!Delivery!Next]_(SinkProofs!Delivery!vars)
           <=> [Sink!Delivery!Next]_(Sink!Delivery!vars)
  <2>1. \A f : SinkProofs!Range(f) = Range(f) /\ SinkProofs!Delivery!Range(f) = Range(f)
               /\ Sink!Range(f) = Range(f) /\ Sink!Delivery!Range(f) = Range(f)
    BY DEF SinkProofs!Range, SinkProofs!Delivery!Range, Sink!Range, Sink!Delivery!Range, Range
  <2>2. SinkProofs!Range(rows)' = Range(rows)' /\ Sink!Range(rows)' = Range(rows)'
    BY DEF SinkProofs!Range, Sink!Range, Range
  <2>3. SinkProofs!Delivery!Init <=> Sink!Delivery!Init
    BY <2>1 DEF SinkProofs!Delivery!Init, Sink!Delivery!Init
  <2>4. SinkProofs!Delivery!Next <=> Sink!Delivery!Next
    BY <2>1, <2>2 DEF SinkProofs!Delivery!Next, Sink!Delivery!Next,
       SinkProofs!Delivery!Accept, Sink!Delivery!Accept,
       SinkProofs!Delivery!Deliver, Sink!Delivery!Deliver
  <2>5. UNCHANGED SinkProofs!Delivery!vars <=> UNCHANGED Sink!Delivery!vars
    BY <2>1, <2>2 DEF SinkProofs!Delivery!vars, Sink!Delivery!vars
  <2> QED BY <2>3, <2>4, <2>5
<1>5. SinkProofs!DeliversAsPromised => Sink!DeliversAsPromised
  BY <1>4, PTL DEF SinkProofs!DeliversAsPromised, Sink!DeliversAsPromised,
     SinkProofs!Delivery!Spec, Sink!Delivery!Spec
<1> QED BY <1>2, <1>3, <1>5, ComposesSink, PTL
=============================================================================
