# Verification of Polyglot

Polyglot is a realtime engine: Elixir gateways take events over HTTP and
WebSocket, push them to the subscribers of a topic, keep a short history in
Redis, and hand events to a Go processor that records them in ClickHouse. This
directory holds TLA+ models of its core, the TLC configurations that check them
and proofs that the TLA+ proof system checks. Paths below are relative to the
repository; `main.go` alone means `go_processor/main.go`.

## Running it

    tlc -workers 2 -config ClickHouseSink.cfg ClickHouseSink    # one run
    tlapm ClickHouseSinkProofs.tla                              # one proof module

`PROJECT.json` lists the runs, what mutant each property must catch, the source
lines of every definition, the findings and the theorems.

## The system

| Part | Source | State | Operations | Hard because |
|---|---|---|---|---|
| Gateway | `lib/polyglot/gateway/router.ex`, `*_channel.ex` | subscriptions, mailboxes of channel processes | HTTP publish, socket publish, join, push, history | a broadcast is a loop over subscribers that come and go; two ways to publish; several nodes |
| Storage | `lib/polyglot/storage.ex` | a Redis list per channel, an ETS table per node | `store_event`, `get_history` | three commands without a transaction, from several nodes, with timeouts, disconnections and a fallback |
| Circuit breaker | `lib/polyglot/circuit_breaker.ex` | one GenServer: state, failure count, time of the last failure | `call`, `status` | callers give up but their functions run on; crash and restart; time |
| Processor client | `lib/polyglot/processor_client.ex`, `grpc_client.ex` | attempts of one call | `process_event`, `process_batch`, `health_check` | retry, fallback and late execution |
| Go processor | `go_processor/main.go`, `server.go` | requests in progress, how far the start is | start, `/process`, `/process-batch`, `Process`, `ProcessBatch`, `Health` | concurrent handlers, one shared sink, a start that depends on the environment and the database, the end of the process |
| Analytics sink | `go_processor/clickhouse_sink.go`, `analytics_sink.go` | a bounded channel, a batch, a ticker | `WriteEvent`, `Close`, the writer goroutine | selects that take any ready case, inserts of unknown outcome, shutdown |
| Event pipeline | `lib/polyglot/event_pipeline.ex` | none | `push_event` | its Task has no clause for what `process_event` returns; nothing calls it |
| WebSocket proxy | `websocket_proxy/main.go` | a hub of clients, a send channel and a poller each | register, unregister, publish, poll | a poller that outlives its client's channel |
| JavaScript client | `clients/js/src/polyglot.ts` | socket, timer, channels, promises | connect, join, leave, emit | reconnection against disconnection, replies matched by topic only |
| Auth, sessions, presence | `lib/polyglot/auth.ex`, `session_store.ex`, `gateway/socket.ex` | Redis keys with expiry | issue and verify tokens, connect | read, then renewal |
| Health check | `lib/polyglot/health_check.ex` | last results | probe, status | slow probes in the process that answers |
| Others | `priv/static/client.js`, `clustering.ex`, `redis_cluster.ex`, `cpp_driver.ex`, `operational/`, plugs, endpoint, `polyglot.ex` | none of their own | | see "Not modelled" |

How they interact:

- A publish by HTTP (`router.ex:168`) runs in a process of its own: it calls
  `Storage.store_event`, starts a Task that posts the event to `/process`
  (directly, not through the processor client), broadcasts to the channel
  processes of its node and answers. A publish on a socket
  (`room_channel.ex:10`) runs in the publisher's channel process and only
  broadcasts.
- `ProcessorClient` sends the breaker a function; the breaker runs it in its own
  process, and the function is `GRPCClient.process_event`: gRPC up to three
  times, then HTTP. The only caller in `lib/` is `EventPipeline`.
- The Go processor's handlers share one sink. `WriteEvent` never blocks; the
  writer goroutine moves events from the channel to a batch and the batch to
  ClickHouse.

What each part must get right is in `PROJECT.json` under `hazards`, each at its
line, with the properties that guard it. In short: replies and results go to the
call they belong to; counters trip exactly at their thresholds; nothing accepted
is skipped, doubled or overtaken; nobody waits for ever; histories stay within
bounds and expire; subscribers miss nothing and see no reordering.

## Modules

| Module | Models | Remarks |
|---|---|---|
| `CircuitBreaker` | the breaker, its mailbox and its callers | |
| `AnalyticsDelivery` | what the sink promises: accept once, deliver at most once | abstract specification |
| `ClickHouseSink` | the sink | implements `AnalyticsDelivery` |
| `EventHistory` | what a history promises to those that read it: an event is added once and as a whole | abstract specification |
| `Storage` | history of one channel in Redis and ETS | implements `EventHistory` on the Redis side |
| `GRPCClient` | `process_event` and the processor at the other end | |
| `ProcessorClient` | `GRPCClient` inside `CircuitBreaker` | implements both |
| `ProcessorStart` | how the Go processor comes up | |
| `GoProcessor`, `MCGoProcessor` | `ProcessorStart`, the handlers and `ClickHouseSink` in one process | implements `ClickHouseSink` |
| `Topic` | what a topic promises: an event reaches each subscriber within reach once, all who were there by its answer, nobody afterwards | abstract specification |
| `Gateway`, `MCGateway` | publishing, broadcasting, subscribing | implements `Topic` |
| `WebsocketProxy` | the proxy's hub, pumps and pollers | |
| `PolyglotSocket` | the JavaScript client and one of its channels | |
| `<Module>Proofs` | the theorems about a module, for `CircuitBreaker`, `ClickHouseSink`, `Storage`, `ProcessorClient`, `GoProcessor`, `Gateway`, `WebsocketProxy` and `PolyglotSocket` | |

A comment "Fault variant of X" marks an operator that no specification uses: it
is X with a plausible bug, and the mutant that puts it in X's place must violate
the property `PROJECT.json` pairs it with.

### CircuitBreaker

`state`, `failures`, `sinceFailure` are the GenServer's state, the last one as
an age that stops at the timeout (the code only compares it). `mailbox` and
`serving` are the process: `StartFun` takes a call and begins its function,
`FunReturns`, `FunRaises` and `FunExits` end it as `handle_call` does for a
value, an exception, and an exit or throw, which `rescue` does not catch.
`Reject` and `TellStatus` are the other clauses. `GiveUp` is the timeout of
`GenServer.call`: the request loses its sender and stays. `Restart` is the
supervisor. `started`, `streak`, `raises` and `quiet` are history for the properties:
`streak` counts the failures since the last success, `raises` those since the last
probe that succeeded or the last restart. `OpensOnFailures` bounds the breaker by both,
and is silent on failures that are separated by a success of a closed breaker.

### ClickHouseSink

`queue`, `batch`, `pc` are the channel, the slice and the place of the writer;
`TakeEvent`, `TakeTick`, `TakeStop` are the cases of the first select,
`DrainEvent` and `DrainEnd` those of the second. `FlushEnds` is an insert with
any of its outcomes: stored, failed, or given up and perhaps carried out later
(`landing`, `Land`). `Close` closes `stop` and waits. `AnalyticsDelivery` sees
`accepted` and the set of stored rows only.

### Storage

The state of Redis (`list`, `ttl`, `done`), of each gateway's connection (`link`,
`wire`), and of each call (`op`). A pipeline sits on the wire until Redis has
executed its three commands, one at a time and mixed with those of other
gateways. `PipelineTimeout` leaves it there; `LinkDown` moves it to `loose`,
where Redis may still execute any prefix. `RedisHistory` and `EtsHistory` are the
two sides of `get_history`. `EventHistory` sees the newest `MaxEvents` of the list,
which are all that `LRANGE` ever answers, and which events have been pushed. Redis and Redix are external and modelled by their
documented behaviour.

### GRPCClient and ProcessorClient

`stage` is where `process_event` stands; a request is an event, a number and a
transport. `Execute` and `Lose` are the processor and the network: a request
whose answer nobody awaits may still be executed. `StubDefined` says whether the
generated `Stub` module exists. It does not in the repository
(`pb/processor.pb.ex` only defines the service), so there every gRPC attempt
raises; with `StubDefined = TRUE` these behaviours are included, since
`ConnectFails` is always possible. `ProcessorClient` extends `GRPCClient`, shares
the variables of `CircuitBreaker` and adds `funs`, the functions in the breaker's
mailbox: `StartFun` is the breaker's and begins a client call, and the end of the
client call is `FunReturns` of the breaker. Its steps are steps of both parts, which
`ProcessorClientProofs` proves.

### ProcessorStart and GoProcessor

`main` is where the function of that name stands. The environment names a backend
or none, whether to create the table, and the sizes: `NewClickHouseSink` reads them
with their defaults and minimums, `QueueTooLarge` and `WriterStarts` are the panics
of `make` and `NewTicker`, the latter also for an interval whose multiplication by
`time.Millisecond` overflows (`Wrap`). `EnsureTable` is the request that creates the
table, which may fail or be given up after the database has carried it out: then
`main` goes on with a sink that does nothing. The gRPC server starts in a goroutine
and may fail; nobody waits for it. In `GoProcessor` each request runs in its
goroutine: `Receive` decodes it, `ProcessNext` is one `processEvent` with its offer
to the sink, `Reply` writes the answer; the requests without events are refused over
HTTP and counted over gRPC (`ReceiveNothingHttp`, `ReceiveNothingGrpc`). `Exit` ends
the process at any time, since `main` only leaves through `log.Fatal` and handles no
signal.

### Gateway

`Request`, `Store`, `Publish`, `Visit`, `Answer` are the steps of
`handle_publish`, `Refuse` is the other way through the route and `HandleIn` the steps
of a channel's `handle_in`. `Visit` comes to one subscriber of the publisher's node and
sends if it has joined: looking up each subscriber when its turn comes includes every
way `Registry` takes its snapshot. `Leave` and `Abort` end channel and request processes
at any time, in the middle of a broadcast too.

Of the storage the module has what decides whether a reader sees an event. `history` is
the Redis list that all nodes share and `ets` the table of each node. `Lpush` is Redis
executing an LPUSH: before `store_event` returns, later, or never (an outage, a timeout).
`Store` inserts the row, as `store_event` always does. `Forget` drops the oldest of the
list, which the trim does on behalf of events the model does not name, or all of them,
which the expiry does; `Wipe` loses a table with its owner. `FetchHistory` is the
endpoint's answer, from Redis, empty or not, or from the table of the node that is asked,
cut anywhere, since the limit is the client's and unnamed events count too. What it
showed, what its store had taken but it did not show, and what had been stored without
Redis having it, are recorded in `fetched`. `NoGap` says that these are the only ways to
miss an event of one's own node: the storage may lose it, but joining between the storing
and the broadcast does not.

`Topic` sees an event from the start of its broadcast to its answer and what each
subscriber has been sent, handled or not. It promises an event to those the publisher
reaches, which here are the subscribers of its node, and lets it go further or not.

### WebsocketProxy

`handler`, `reader`, `writer` and `todo` are where the goroutines of a connection
stand; `clients` and `closed` are the hub's map and the `send` channels it has
closed. `Fetch` is a poll whose response holds events, in either order, since
`get_history` answers oldest first from Redis and newest first from ETS; `PassOver`
and `Offer` are the two ways through the loop. `Offer` on a closed channel ends the
process (`alive`), which is what Go does. Numbers of events come in any order:
`System.unique_integer` promises none. `floor`, `missed` and `overflowed` are
history for the properties.

### PolyglotSocket

JavaScript runs one callback at a time, so an action is a whole callback or a whole
call of the application. `sockets` are the WebSockets that are not closed and
`this.ws`, each with the messages on their way; `timer` is `reconnectTimer`, which
the code leaves set after it has fired. `Join`, `Leave`, `Emit` and `Disconnect` are
the application's, and so are `OffAllJoin` and `OffAllError`: `off("join")` and
`off("error")` without a callback, which delete the channel's own listeners of pending
joins too. `muted` remembers for which promises; `PendingListens` says that nothing else
takes a listener from a pending promise. `Opens`, `Breaks`, `Closes` and `Receive` are
the callbacks, `Serve` and `Broadcast` the server, which is external: the client's
messages match neither a Phoenix channel nor the proxy. `Called` and `Skipped` are what `forEach` does to
listeners that remove themselves while it walks: every second one is passed over.
`JoinListWithout` is what `off` with a callback leaves after an error, as a recursive
function. `asked` says whether the application has called `disconnect` on `this.ws`.

## Runs

| Run | What it asks | Distinct states |
|---|---|---|
| `breaker` | routing of replies, tripping, probing, ends of calls | 40,122 |
| `sink` | order, no repetition, batch size, shutdown, refinement, progress | 21,514 |
| `storage` | window, bound, expiry set, nothing lost, histories expire, refinement | 63,836 |
| `storage_backends` | finding | |
| `client` | pairing of requests, functions and replies; truthful results, bounded deliveries; no loss | 547,343 |
| `client_breaker` | finding | |
| `go` | start in each environment, counts against offers and rows, answers with a hanging sink | 203,004 |
| `go_exit` | finding | |
| `gateway` | duplicates, order, members, gaps that are not the storage's, answers, refinement | 625,804 |
| `proxy` | who the hub holds, order, arrival, ends of connections | 90,004 |
| `proxy_skips` | finding | |
| `socket` | one connection, joins against acceptance, promises against listeners, reconnection | 860,856 |

**Bounds.** `breaker`: two callers that call again and again, a mailbox of three,
so that requests of callers that gave up wait before and behind live ones; a
threshold of two, the least where failures have to add up; a recovery of two
ticks, so that failures come while it runs. `sink`: three events, a batch of two
and a channel of two: full batches, a partial one, and a full channel that drops.
`storage`: two gateways, two events and a limit of one, so that the trim of one
gateway comes between the push and the trim of the other, and that a pipeline is
cut off before, between and after the commands of the other.
`client`: two attempts instead of three, the least with a retry, to leave room for
two events and callers that time out; the theorems hold for any number of attempts.
`go`: a single event, a batch of two and a request without events, with a channel of
one, and six environments: the defaults, a size below and one above what is allowed
(16 is more than `MaxCapacity`, for the batch and for the channel), a flush interval
(13) whose product with `Milli` overflows to something negative, no backend and an unsupported one. `gateway`: two nodes with a subscriber each,
one event by HTTP, one on a socket and one that is refused: the properties relate
two events at most. One client reads the history (`Readers`): readings do not affect each
other. The other events of the channel, which push this one beyond the trim or the limit,
are in `Forget` and in where `FetchHistory` cuts. `proxy`: one connection and three events, so that polls overlap
and numbers come in any order; connections only meet in the gateway's history, to
which `PublishElsewhere` adds for all others, and in the end of the process.
`socket`: three joins, so that two listeners are called and one between them is
skipped, and two messages in transit each way, so that the replies to a join and a leave
are under way together.
`CHECK_DEADLOCK FALSE` stands where the system comes to rest
once its events are used up.

**Fairness.** Only steps that the code takes without waiting for anyone else, or
for which it sets a timer. `breaker`: the server is scheduled, the functions it
runs end (the client's waits all have timeouts) and the supervisor restarts it; nothing is assumed of callers or of
the clock, so calls end even if no caller ever gives up. `sink`: Go's select
chooses at random among ready cases, hence strong fairness of each case of the
first select; the writer is scheduled and its inserts end by the HTTP client's
timeout; the ticker fires; `Close` notices that the writer has returned.
`storage`: Redis works on what it has received and expires keys; nothing of the
connections and gateways. `client`: the
breaker and the client run on, and the processor executes what is posted over a
port that is assumed reliable for the events in `HttpReliable`; nothing is
assumed of gRPC or of the other events. `go`: `main` and the handlers run as long as the process lives, and the
request that makes the table ends by its client's timeout; nothing is assumed of the
gRPC server or of the sink, so the writer may hang. `gateway`:
publishers and channel processes run; nothing is assumed of the processor. `proxy`:
goroutines are scheduled, the poller's ticker fires, reading from a closed
connection fails, and the gateway answers (`PublishAnswered` of `Gateway`); nothing
is assumed of the peer, of pings or of publishers. `socket`: timeouts expire, and a
WebSocket that is closing has its close event; nothing is assumed of the server or
of the application, which may disconnect at any time.

**Findings.** Four runs state what a document, a test or a comment says and show
that the code does otherwise; `PROJECT.json` quotes both sides.

- `storage_backends`: an event stored in ETS during an outage disappears from the
  history as soon as Redis is back, because an empty Redis list is an answer and
  no reason to fall back.
- `client_breaker`: the breaker never opens, however many calls fail, because the
  client turns every failure into a value.
- `go_exit`: the deferred `Close` of the sink never runs.
- `proxy_skips`: of several events between two polls the proxy sends only the
  newest, because it raises `lastEventNum` before it looks at the others.

Divergences met on the way, without a run. Three of them concern behaviour that a
property is about; each property is stated so that it says nothing for or against the
case in question:

- A success resets the breaker's failure count, where
  `test/circuit_breaker_recovery_test.exs:108` expects it to stay. `OpensOnFailures`
  asks that the breaker is open after as many failures in a row as the threshold, and not
  before as many in all, which either reading promises.
- Nothing connects the gateways' nodes (`Recipients` of `Gateway` are local), so
  `config/config.exs:64`, "Distributed PubSub with Redis for scaling across multiple
  nodes", does not hold. `Topic` promises delivery within a publisher's reach and allows
  it beyond; `MembersReached` and `NoGap` are about subscribers of the publisher's node.
- `disconnect` of the JavaScript client on an open connection is followed by a
  reconnection, because the close event schedules one (`polyglot.ts:60` and `:81`),
  although `clients/js/README.md:58` says "Close the connection". `Reconnects` excludes
  connections that `disconnect` has ended.

The others: a poller that outlives its client panics on the closed channel at the next
event and takes the whole proxy with it (`Offer`; `main.go:302` of the proxy, whose other
branch only covers a full channel); `storage.ex:65` expects the atom `:ok` in reply to
LTRIM where Redix answers `"OK"`, so every event also goes to ETS; `get_history` answers
oldest first where `test/storage_resilience_test.exs:261` says most recent first; the
tests of the breaker expect `status/1` to return `{:ok, status}`, and so does
`ProcessorClient.breaker_is_open?`, which is therefore always false; an ok reply to a
leave resolves a join made after it, and a reply that refuses a join settles no promise,
since only `join` and `error` have listeners; `off("join")` without a callback leaves a
pending join that only an error can settle, and with `off("error")` one that nothing can.

## Proofs

For every value of the constants allowed by the named assumptions (`...Assumption`
in each module, which the runs evaluate):

| Theorem | Establishes |
|---|---|
| `CircuitBreakerProofs!TypeCorrect` | `TypeOK` |
| `CircuitBreakerProofs!Routing` | `CallsAnsweredTruly` |
| `CircuitBreakerProofs!Tripping` | `OpensOnFailures` |
| `CircuitBreakerProofs!Probing` | `ProbeAfterQuietPeriod` |
| `ClickHouseSinkProofs!TypeCorrect` | `TypeOK` |
| `ClickHouseSinkProofs!Conserved` | `Conservation` |
| `ClickHouseSinkProofs!StoredOnce` | `AtMostOneRow` |
| `ClickHouseSinkProofs!BatchBounded` | `BatchWithinSize` |
| `ClickHouseSinkProofs!CloseComplete` | `CloseHandsOver` |
| `ClickHouseSinkProofs!Refinement` | `DeliversAsPromised`: the sink implements `AnalyticsDelivery` |
| `StorageProofs!ListIsWindow` | `HistoryIsWindow` |
| `StorageProofs!NothingVanishes` | `StoredIsKept` |
| `StorageProofs!ImplementsHistory` | `KeepsHistory`: Redis implements `EventHistory` |
| `StorageProofs!ReadersSeeLatest` | `read_from_redis` answers the latest events of that history |
| `ProcessorClientProofs!Paired` | `OwnReply` |
| `ProcessorClientProofs!Truthful` | `OkIsTruthful` |
| `ProcessorClientProofs!FewDeliveries` | `DeliveriesBounded` |
| `ProcessorClientProofs!ComposesClient` | the composition implements `GRPCClient` |
| `ProcessorClientProofs!ComposesBreaker` | the composition implements `CircuitBreaker` |
| `ProcessorClientProofs!CallersAnsweredTruly` | `CallsAnsweredTruly` of the breaker, in the composition |
| `ProcessorClientProofs!WaitingIsServed` | a caller that waits has its function in the mailbox or at work |
| `ProcessorClientProofs!NeverOpens` | the breaker stays up and closed, without a failure counted |
| `GoProcessorProofs!TableBeforeWriter` | `WriterHasTable` |
| `GoProcessorProofs!SizesInBounds` | `LegalSizes` |
| `GoProcessorProofs!CountsAreRight` | `OfferedAsCounted` |
| `GoProcessorProofs!TypeCorrect` | `TypeOK` of the processor, its sink included |
| `GoProcessorProofs!ComposesSink` | the processor implements `ClickHouseSink`'s safety |
| `GoProcessorProofs!ProcessConserves` | `Conservation` of the sink, in the processor |
| `GoProcessorProofs!RowsAreCounted` | `RowsAsCounted` |
| `GoProcessorProofs!ProcessDelivers` | the processor implements `AnalyticsDelivery` |
| `GatewayProofs!TypeCorrect` | `TypeOK` |
| `GatewayProofs!NoDuplicates` | `SentOnce` |
| `GatewayProofs!OrderKept` | `AnsweredOrder` |
| `GatewayProofs!AllMembersReached` | `MembersReached` |
| `GatewayProofs!NothingMissed` | `NoGap` |
| `GatewayProofs!ImplementsTopic` | `KeepsTopic`: the gateways implement `Topic` |
| `WebsocketProxyProofs!TypeCorrect` | `TypeOK` |
| `WebsocketProxyProofs!HubHoldsTheServed` | `HeldWhileServed` |
| `WebsocketProxyProofs!Growing` | `NeverBackwards` |
| `PolyglotSocketProofs!OneConnectionOnly` | `OneConnection` |
| `PolyglotSocketProofs!NoJoinUnaccepted` | `JoinedAfterAccepted` |
| `PolyglotSocketProofs!PendingAreHeard` | `PendingListens` |

*The breaker.* The invariant is the conjunction of the invariants of the
run with `Bookkeeping`, because none of them is inductive alone. An answer is
truthful only if a request in the mailbox has not been run and one being served
has; a function that raises finds the server up, which makes its state closed or
half open; and a server that becomes half open has been quiet for a whole period
only if, while open, the age of `last_failure` is the age of the last raise. These
three facts, and that a dead server holds no request, are `Bookkeeping`. For
`OpensOnFailures`, `CountIsStreak` ties the code's own count to the two of the property. Lemmas about the mailbox (`QueuedAppend`, `QueuedTail`,
`QueuedDisown`, `TakeFirst`) say who has a request in it after each operation;
then one lemma per action.

*The sink.* `Conservation` says that what was accepted is what inserts were tried
with, then the batch, then the channel. For `CloseHandsOver` it is strengthened by
`ClosingOrder`: the writer drains only after Close was called; the events accepted
before Close are a prefix of all accepted ones; and a writer that has left the
inner loop has them all handed over or in its batch, which is empty once it has
returned. For `AtMostOneRow`, `NoRepeats` and `RowsWereHanded`: an
event is accepted once, hence handed over once, and only rows of inserts that were
tried exist, on time or late. Lemmas about concatenation and injectivity of
sequences carry the steps. The refinement maps `stored` to the range of `rows` and
maps every step to `Accept`, `Deliver` or a stutter.

*The history.* `HistoryIsWindow` is restated index by index (`Window`), next to two
facts that make it inductive: what is in the list has had its LPUSH executed
(`Executed`), so no event is pushed twice, and the bound counts the events whose
own LTRIM is still to come (`Untrimmed`), a set that grows by one with every push.
Connections, timeouts and crashes do not touch the list, which is why the theorem
needs nothing of them. `StoredIsKept` holds because Redix never answers what
`storage.ex:65` expects, so that a call only ends through ETS (`NeverValid`).
`ImplementsHistory` follows from what each command does to the newest `MaxEvents` of the
list: an LPUSH adds one in front and drops what is over (`TrimmedPrepended`), an LTRIM
changes nothing a reader can see (`TrimmedTwice`), an expiry empties it. That an LPUSH
adds a new event is `Executed` again. Steps of connections and gateways stutter.

*The processor client.* `ClientInv` adds to the results and deliveries that an event
without a verdict is the current one or has not been sent (`CallsInOrder`), that no
more requests were sent than attempts made (`SentInAttempts`), and that requests are
numbered as they were sent, the one over HTTP last (`RequestsNumbered`). `OwnReply`
pairs `funs` with the mailbox position by position. Each action of `ProcessorClient`
is an action or a stutter of either part, which proves the two compositions. The
theorems of the breaker then hold of the composition: `CircuitBreakerProofs` is
instantiated with the events as callers, and the two instances of `CircuitBreaker` say
the same (`SameBreaker`). `WaitingIsServed` joins the breaker's routing to the client's
pairing. `NeverOpens` needs no strengthening: the only end of a function that the client
has is `FunReturns`.

*The Go processor.* A first invariant says in which order `main` does things
(`Sequenced`): no handler or writer runs before the sink is chosen. With it, the
number of processed events of a request is the number of its events that were offered
(`Counted`, `Recorded`), which other requests cannot disturb because they share no
event. The sink's theorems are carried over by an instance of its proof module, as above
(`SameSink`), and give the processor `Conservation`, `AtMostOneRow` and the refinement.
`RowsAreCounted` puts the two sides together: a row is of an event that was offered, no
two rows are of one event, so that rows of a request inject into its offered events.

*The gateway.* All five invariants rest on `Book`: a broadcast comes to a subscriber
once and not before it begins (`Unsent`); what is broadcast by HTTP was admitted
and stored: Redis has taken it or is late, and the publisher's table has had its row
(`Kept`), which no loss of a store undoes (`StillTaken`), so that every reading has an
account of it; an answer is for good (`EarlierAnswered`), so an event that is still being
broadcast precedes none; and whoever is owed an event has been sent it or is still to be
come to (`AudienceServed`); the same holds of readers, unless what they read accounts
for the event (`ReadersServed`, `Accounted`). `SentStep` reduces a step to three cases:
what a subscriber has been sent stays, is cut, or gets one event of a broadcast that
had not come to it. For `ImplementsTopic`, one lemma per action names the step of `Topic`
it is, or shows that it is none: `Unsent` gives `Send` its guard, `AudienceServed` gives
`Confirm` its own, and `Kept` shows that only events of the topic are broadcast.

*The proxy.* `HeldWhileServed` needs that only a registered client has pumps;
`NeverBackwards` that `lastEventNum` bounds what has been written and what waits
(`BelowLast`).

*The JavaScript client.* It never remembers two WebSockets (`OneSocket`), because
`connect` only runs from the timer and the timer is only pending when the last
WebSocket has closed. Before the server has accepted a join, no message in transit says
otherwise (`NothingAccepted`). `PendingListens` needs that no promise has two
listeners for `join` (`ListenersOnce`), and that what `off` deletes is remembered until
the promise settles (`OffListens`, `Settled`). A listener that leaves the list while it is
walked makes the walk pass over the next one: each listener is either called, and its
promise settled, or passed over, and still there (`CalledOrSkipped`). What the `filter`
after an error keeps is a recursive function of the list. Its result is found without induction:
if some prefix were kept wrongly there would be a least one (`LeastNat`), and the step
before it was right (`KeptExists`, `KeptGrows`, `KeptAreOthers`).

Only model-checked: every liveness property (the prover has no fairness or
ENABLED) and the findings, which are counterexamples, though `NeverOpens` proves the
one of `client_breaker` for all constants. Every invariant and every refinement
that a run checks is a theorem. The types of the breaker, the processor and the gateway
are theorems that no run repeats.

*Assumptions.* No theorem is about a bound of the model only: the breaker's theorems hold
for any `MailboxBound`, those of the processor for any environment, sizes from one up
and any width of integers (`ProcessorAssumption`), those of the composition for any
thresholds and timeouts that are positive (`CompositionAssumption`).

## Plan

Done: the core (breaker, sink, storage, clients, handlers, gateway, proxy), the start
of the processor, the JavaScript client, the composition theorems, the safety
theorems of every module, the refinements of sink, history and topic. Left:

1. `Sessions`: tokens, sessions and presence with expiry, read and then renewed
   without a transaction.

## Not modelled

- *Event pipeline*: nothing calls `push_event`; its call of the processor client is
  the one `ProcessorClient` models.
- *Sessions*: planned above. *Browser client*: serves the test pages; the published
  client has the same parts.
- *Health check*: one process that probes three services in turn with timeouts and
  answers status between probes; its results feed nothing.
- *Growth*: the ETS table is never trimmed and never expires, unlike the Redis list, so
  it grows with every event that falls back, which is every event (see above). Memory
  has no bound in the model.
- *Rows*: how the sink builds a row of an event, column by column
  (`clickhouse_sink.go:211-256`), is abstracted to the event.
- *`process_batch` of the Elixir client*: the same control as `process_event`, on a
  list.
- *Clustering*: never started. *RedisCluster, CppDriver, Operational, Repo*: single
  commands, queries and pure functions without state of their own. *Plugs and
  endpoint*: headers and parsing; `RateLimit` is in no pipeline. *`Polyglot.publish`*:
  called by one test; the steps of `Gateway` without the store.
- Event contents, encodings, log messages, page templates, benchmarks and generated
  protobuf code. An encoding that can fail is a set of events for which it does
  (`Encodable`, `Convertible`).
- The supervisor's limit on restarts, and memory exhaustion.
