--------------------------- MODULE WebsocketProxy ---------------------------
(***************************************************************************)
(* The WebSocket proxy (websocket_proxy/main.go): for each connection one  *)
(* goroutine that reads, one that writes and one that polls the history of *)
(* the gateway, and a hub that knows the clients.                          *)
(*                                                                         *)
(* Hub and pumps meet on channels without a buffer, so a rendezvous is one *)
(* step.  The hub's `broadcast' is left out: nothing sends on it.  The     *)
(* poller has no way out: it runs on when its client has left.             *)
(*                                                                         *)
(* Events are their numbers, as the poller reads them from `evt_<n>'.  The *)
(* gateway takes them from System.unique_integer, which gives no order, so *)
(* history may hold them in any.  All clients are on one channel, whose    *)
(* name makes a valid URL.                                                 *)
(***************************************************************************)
EXTENDS Naturals, SequencesExt

CONSTANTS
    Clients,    \* connections, one Client each
    Numbers,    \* numbers the gateway may give to events
    SendSize    \* capacity of the channel `send'

ASSUME ProxyAssumption ==
    /\ Numbers \subseteq Nat \ {0}
    /\ SendSize \in Nat \ {0}

VARIABLES
    alive,      \* the process runs
    handler,    \* handleWS of each connection
    clients,    \* hub.clients
    open,       \* connections that the proxy has not closed
    reader,     \* readPump
    writer,     \* writePump
    send,       \* contents of the channel `send'
    closed,     \* clients whose channel `send' is closed
    polling,    \* clients that have a poller
    todo,       \* the part of the response pollMessages has not looked at
    last,       \* lastEventNum
    history,    \* the gateway's history, oldest first
    given,      \* numbers the gateway has given
    received,   \* history: events written to the connection, in order
    overflowed, \* history: events that met a full channel
    floor,      \* history: lastEventNum when the response came
    missed      \* history: events above floor the poller has passed over

gateway == <<history, given>>
pumps == <<reader, writer, open>>
hub == <<clients, closed>>
poller == <<polling, todo, last, floor, missed>>
vars == <<alive, handler, hub, pumps, send, received, overflowed, poller, gateway>>

\* Contents of a channel, a response, or what a connection was written.
Messages == Seq(Numbers)

TypeOK ==
    /\ alive \in BOOLEAN
    /\ handler \in [Clients -> {"none", "upgraded", "registered"}]
    /\ clients \subseteq Clients
    /\ open \subseteq Clients
    /\ reader \in [Clients -> {"off", "reading", "publishing", "leaving", "closing", "ended"}]
    /\ writer \in [Clients -> {"off", "running", "ended"}]
    /\ closed \subseteq Clients
    /\ polling \subseteq Clients
    /\ last \in [Clients -> Numbers \cup {0}]
    /\ floor \in [Clients -> Numbers \cup {0}]
    /\ send \in [Clients -> Messages]
    /\ \A c \in Clients : Len(send[c]) <= SendSize
    /\ todo \in [Clients -> Messages]
    /\ received \in [Clients -> Messages]
    /\ history \in Messages
    /\ given \subseteq Numbers
    /\ overflowed \subseteq Clients \X Numbers
    /\ missed \subseteq Clients \X Numbers

Init ==
    /\ alive = TRUE
    /\ handler = [c \in Clients |-> "none"]
    /\ clients = {} /\ open = {} /\ closed = {} /\ polling = {}
    /\ reader = [c \in Clients |-> "off"]
    /\ writer = [c \in Clients |-> "off"]
    /\ send = [c \in Clients |-> <<>>]
    /\ todo = [c \in Clients |-> <<>>]
    /\ last = [c \in Clients |-> 0]
    /\ floor = [c \in Clients |-> 0]
    /\ received = [c \in Clients |-> <<>>]
    /\ history = <<>> /\ given = {}
    /\ overflowed = {} /\ missed = {}

-----------------------------------------------------------------------------
(* The gateway.                                                            *)

\* An event is stored under a number not given before.
Publish(n) ==
    /\ n \notin given
    /\ given' = given \cup {n}
    /\ history' = Append(history, n)

\* Some other publisher's event.
PublishElsewhere ==
    /\ \E n \in Numbers : Publish(n)
    /\ UNCHANGED <<alive, handler, hub, pumps, send, received, overflowed, poller>>

\* The oldest event is trimmed.
Forget ==
    /\ history # <<>>
    /\ history' = Tail(history)
    /\ UNCHANGED <<alive, handler, hub, pumps, send, received, overflowed, poller, given>>

-----------------------------------------------------------------------------
(* handleWS.                                                               *)

Upgrade(c) ==
    /\ handler[c] = "none"
    /\ handler' = [handler EXCEPT ![c] = "upgraded"]
    /\ open' = open \cup {c}
    /\ UNCHANGED <<alive, hub, reader, writer, send, received, overflowed, poller, gateway>>

\* hub.register <- client.
Register(c) ==
    /\ handler[c] = "upgraded"
    /\ handler' = [handler EXCEPT ![c] = "registered"]
    /\ clients' = clients \cup {c}
    /\ UNCHANGED <<alive, closed, pumps, send, received, overflowed, poller, gateway>>

\* Fault variant of MayStart: the goroutines are started before the registration.
MayStartEarly(c) == handler[c] # "none"

MayStart(c) == handler[c] = "registered"

\* The three goroutines start.
StartPumps(c) ==
    /\ MayStart(c)
    /\ reader[c] = "off"
    /\ reader' = [reader EXCEPT ![c] = "reading"]
    /\ writer' = [writer EXCEPT ![c] = "running"]
    /\ polling' = polling \cup {c}
    /\ UNCHANGED <<alive, handler, hub, open, send, received, overflowed, todo, last,
                   floor, missed, gateway>>

-----------------------------------------------------------------------------
(* readPump.                                                               *)

\* A message of the client to publish; all others are ignored.
ReadMessage(c) ==
    /\ reader[c] = "reading"
    /\ c \in open
    /\ reader' = [reader EXCEPT ![c] = "publishing"]
    /\ UNCHANGED <<alive, handler, hub, open, writer, send, received, overflowed, poller, gateway>>

\* publishEvent comes back: the gateway has stored the event, or has not.
PublishEnds(c) ==
    /\ reader[c] = "publishing"
    /\ reader' = [reader EXCEPT ![c] = "reading"]
    /\ (\E n \in Numbers : Publish(n)) \/ UNCHANGED gateway
    /\ UNCHANGED <<alive, handler, hub, open, writer, send, received, overflowed, poller>>

\* Fault variant of ReadFails: the deferred function does not unregister.
ReadFailsForgetting(c) ==
    /\ reader[c] = "reading"
    /\ reader' = [reader EXCEPT ![c] = "closing"]
    /\ UNCHANGED <<alive, handler, hub, open, writer, send, received, overflowed, poller, gateway>>

\* The peer has closed or gone, the pong is late, or the proxy has closed.
ReadFails(c) ==
    /\ reader[c] = "reading"
    /\ reader' = [reader EXCEPT ![c] = "leaving"]
    /\ UNCHANGED <<alive, handler, hub, open, writer, send, received, overflowed, poller, gateway>>

\* hub.unregister <- c: a client the hub knows is forgotten and its channel closed.
Unregister(c) ==
    /\ reader[c] = "leaving"
    /\ reader' = [reader EXCEPT ![c] = "closing"]
    /\ clients' = clients \ {c}
    /\ closed' = closed \cup ({c} \cap clients)
    /\ UNCHANGED <<alive, handler, open, writer, send, received, overflowed, poller, gateway>>

\* c.conn.Close().
ReaderCloses(c) ==
    /\ reader[c] = "closing"
    /\ reader' = [reader EXCEPT ![c] = "ended"]
    /\ open' = open \ {c}
    /\ UNCHANGED <<alive, handler, hub, writer, send, received, overflowed, poller, gateway>>

-----------------------------------------------------------------------------
(* writePump.                                                              *)

\* The pump returns, its deferred function closes the connection.
WriterReturns(c) ==
    /\ writer' = [writer EXCEPT ![c] = "ended"]
    /\ open' = open \ {c}

\* A message from the channel is written, or the write fails.
WriteMessage(c) ==
    /\ writer[c] = "running"
    /\ send[c] # <<>>
    /\ send' = [send EXCEPT ![c] = Tail(@)]
    /\ \/ /\ c \in open
          /\ received' = [received EXCEPT ![c] = Append(@, Head(send[c]))]
          /\ UNCHANGED <<writer, open>>
       \/ WriterReturns(c) /\ UNCHANGED received
    /\ UNCHANGED <<alive, handler, hub, reader, overflowed, poller, gateway>>

\* The channel is closed and empty.
WriteClose(c) ==
    /\ writer[c] = "running"
    /\ c \in closed
    /\ send[c] = <<>>
    /\ WriterReturns(c)
    /\ UNCHANGED <<alive, handler, hub, reader, send, received, overflowed, poller, gateway>>

\* A ping that succeeds changes nothing.
PingFails(c) ==
    /\ writer[c] = "running"
    /\ WriterReturns(c)
    /\ UNCHANGED <<alive, handler, hub, reader, send, received, overflowed, poller, gateway>>

-----------------------------------------------------------------------------
(* pollMessages.                                                           *)

\* What the history endpoint answers: oldest first from Redis, newest first from ETS.
Responses == {history, Reverse(history)}

\* Fault variant of Fetch: after a failed request the poller returns.
FetchOrReturn(c) ==
    /\ c \in polling /\ todo[c] = <<>>
    /\ \/ /\ history # <<>>
          /\ \E response \in Responses : todo' = [todo EXCEPT ![c] = response]
          /\ floor' = [floor EXCEPT ![c] = last[c]]
          /\ UNCHANGED polling
       \/ polling' = polling \ {c} /\ UNCHANGED <<todo, floor>>
    /\ UNCHANGED <<alive, handler, hub, pumps, send, received, overflowed, last, missed, gateway>>

\* A tick, and a response with events; any other leaves all as it is.
Fetch(c) ==
    /\ c \in polling /\ todo[c] = <<>>
    /\ history # <<>>
    /\ \E response \in Responses : todo' = [todo EXCEPT ![c] = response]
    /\ floor' = [floor EXCEPT ![c] = last[c]]
    /\ UNCHANGED <<alive, handler, hub, pumps, send, received, overflowed, polling, last,
                   missed, gateway>>

\* Fault variant of Seen: off by one.
SeenLate(c, n) == n < last[c]

\* eventNum <= lastEventNum.
Seen(c, n) == n <= last[c]

\* The loop goes from the end of the response to its front.
Pending(c) == Last(todo[c])

PassOver(c) ==
    /\ todo[c] # <<>> /\ Seen(c, Pending(c))
    /\ todo' = [todo EXCEPT ![c] = Front(@)]
    /\ missed' = IF Pending(c) > floor[c] THEN missed \cup {<<c, Pending(c)>>} ELSE missed
    /\ UNCHANGED <<alive, handler, hub, pumps, send, received, overflowed, polling, last,
                   floor, gateway>>

\* Fault variant of HasRoom: off by one.
HasRoomLate(c) == Len(send[c]) <= SendSize

HasRoom(c) == Len(send[c]) < SendSize

\* select with default: sent, skipped, or a panic that ends the process.
Offer(c) ==
    /\ todo[c] # <<>> /\ ~Seen(c, Pending(c))
    /\ todo' = [todo EXCEPT ![c] = Front(@)]
    /\ last' = [last EXCEPT ![c] = Pending(c)]
    /\ \/ c \in closed /\ alive' = FALSE /\ UNCHANGED <<send, overflowed>>
       \/ /\ c \notin closed /\ HasRoom(c)
          /\ send' = [send EXCEPT ![c] = Append(@, Pending(c))]
          /\ UNCHANGED <<alive, overflowed>>
       \/ /\ c \notin closed /\ ~HasRoom(c)
          /\ overflowed' = overflowed \cup {<<c, Pending(c)>>}
          /\ UNCHANGED <<alive, send>>
    /\ UNCHANGED <<handler, hub, pumps, received, polling, floor, missed, gateway>>

-----------------------------------------------------------------------------
Connect(c) == Upgrade(c) \/ Register(c) \/ StartPumps(c)

Leave(c) == ReadFails(c) \/ Unregister(c) \/ ReaderCloses(c)

Write(c) == WriteMessage(c) \/ WriteClose(c) \/ PingFails(c)

Poll(c) == Fetch(c) \/ PassOver(c) \/ Offer(c)

Next ==
    \/ PublishElsewhere \/ Forget
    \/ /\ alive
       /\ \E c \in Clients :
             Connect(c) \/ ReadMessage(c) \/ PublishEnds(c) \/ Leave(c) \/ Write(c) \/ Poll(c)

Spec == Init /\ [][Next]_vars

\* Goroutines are scheduled, reading from a closed connection fails, the ticker
\* of the poller fires, and the gateway answers.
FairSpec ==
    /\ Spec
    /\ \A c \in Clients :
          /\ WF_vars(alive /\ c \notin open /\ ReadFails(c))
          /\ WF_vars(alive /\ (Unregister(c) \/ ReaderCloses(c)))
          /\ WF_vars(alive /\ PublishEnds(c))
          /\ WF_vars(alive /\ (WriteMessage(c) \/ WriteClose(c)))
          /\ WF_vars(alive /\ Poll(c))

-----------------------------------------------------------------------------
(* Properties.                                                             *)

\* The hub holds a client from its registration until its reader has left, and
\* closes its channel once, when it lets go of it: a client that leaves at once
\* does not stay behind in the hub (main.go:72-83, 102-105, 249-253).
HeldWhileServed ==
    \A c \in Clients :
        /\ c \in clients <=> handler[c] = "registered" /\ reader[c] \notin {"closing", "ended"}
        /\ c \in closed <=> reader[c] \in {"closing", "ended"}

\* A client is written no event twice and none after one with a larger number,
\* although polls overlap in what they return (main.go:286-290).
NeverBackwards ==
    \A c \in Clients :
        LET s == received[c] \o send[c] IN
        \A i, j \in 1 .. Len(s) : i < j => s[i] < s[j]

\* main.go:274: "Process in reverse order (newest first) and stop at last seen":
\* only events seen in an earlier poll are passed over.
PollsToLastSeen == missed = {}

Served(c) ==
    c \in clients /\ c \in polling /\ writer[c] = "running" /\ reader[c] \in {"reading", "publishing"}

\* Under FairSpec: an event in the history is written to every client, unless it
\* leaves, a larger number has come first, or its channel was full
\* (main.go:262-309).
EventArrives ==
    \A c \in Clients, n \in Numbers :
        (handler[c] = "registered" /\ n \in Range(history)) ~>
            \/ n \in Range(received[c]) \/ n < last[c] \/ <<c, n>> \in overflowed
            \/ n \notin Range(history)
            \/ writer[c] = "ended" \/ reader[c] \notin {"reading", "publishing"}
            \/ ~alive

\* Under FairSpec: when one of the pumps has returned, the other returns too and
\* the hub forgets the client (main.go:102-105, 141-156).
ClientForgotten ==
    \A c \in Clients :
        (reader[c] = "ended" \/ writer[c] = "ended") ~>
            (reader[c] = "ended" /\ writer[c] = "ended" /\ c \notin clients) \/ ~alive
=============================================================================
