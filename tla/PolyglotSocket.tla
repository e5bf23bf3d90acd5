--------------------------- MODULE PolyglotSocket ---------------------------
(***************************************************************************)
(* The JavaScript client (clients/js/src/polyglot.ts): a Socket with its   *)
(* reconnection timer, and one PolyglotChannel of it.  JavaScript runs one *)
(* callback at a time, so each action is a whole call of the application,  *)
(* a whole callback of a WebSocket or one of a timer.                      *)
(*                                                                         *)
(* Replies are matched by topic only: any ok reply emits `join' on the     *)
(* channel, and emitting calls listeners that remove themselves from the   *)
(* list that is being walked.  The WebSocket library and the server are    *)
(* external; the server answers, or does not, as the client's code allows. *)
(***************************************************************************)
EXTENDS Naturals, Sequences

CONSTANTS
    Joins,     \* calls of join, one promise each
    MaxWire    \* bound on messages in transit, each way

ASSUME SocketAssumption == MaxWire \in Nat \ {0}

VARIABLES
    reconnect,   \* options.reconnect
    throws,      \* does the constructor of WebSocket throw on this url?
    sockets,     \* WebSockets that are not closed, and this.ws, which is the last
    connected,   \* the flag of that name
    timer,       \* reconnectTimer: "null", or its timeout "pending" or "fired"
    joined,      \* the flag of the channel
    joinList,    \* listeners of the channel for `join', by promise
    errorList,   \* listeners of the channel for `error', by promise
    promise,     \* state of each promise
    accepted,    \* history: has the server ever accepted a phx_join?
    dismissed,   \* history: has disconnect been called while the timer was pending?
    asked,       \* history: has disconnect been called on this.ws?
    muted        \* history: pending promises whose listener off(event) has deleted

connection == <<reconnect, throws, connected, timer, dismissed, asked>>
channel == <<joined, joinList, errorList, promise, muted>>
vars == <<connection, sockets, channel, accepted>>

\* Messages to the server, and what the client makes of those from it.
Requests == Seq({"phx_join", "phx_leave", "push"})
Replies == Seq({"ok", "refused", "error"})

\* A WebSocket, with the messages on their way to the server and back; `member'
\* is the server's view of the channel.
WebSocket ==
    [state : {"connecting", "open", "closing", "closed"},
     up : Requests, down : Replies, member : BOOLEAN]

NewWebSocket == [state |-> "connecting", up |-> <<>>, down |-> <<>>, member |-> FALSE]

IsLive(w) == w.state # "closed"

\* The state of this.ws.
ThisState == IF sockets = <<>> THEN "closed" ELSE sockets[Len(sockets)].state

\* this.ws is replaced: the one it was is remembered unless it has closed.
Replaced ==
    Append(IF ThisState = "closed" THEN SubSeq(sockets, 1, Len(sockets) - 1) ELSE sockets,
           NewWebSocket)

TypeOK ==
    /\ reconnect \in BOOLEAN /\ throws \in BOOLEAN
    /\ sockets \in Seq(WebSocket)
    /\ connected \in BOOLEAN
    /\ timer \in {"null", "pending", "fired"}
    /\ joined \in BOOLEAN
    /\ joinList \in Seq(Joins) /\ errorList \in Seq(Joins)
    /\ promise \in [Joins -> {"none", "pending", "resolved", "rejected"}]
    /\ accepted \in BOOLEAN /\ dismissed \in BOOLEAN /\ asked \in BOOLEAN
    /\ muted \in [join : SUBSET Joins, error : SUBSET Joins]

-----------------------------------------------------------------------------
(* Connection.                                                             *)

\* Fault variant of ScheduleReconnect: not if reconnectTimer is set already.
ScheduleReconnectOnce == timer' = IF timer = "null" THEN "pending" ELSE timer

\* scheduleReconnect: an earlier timeout is cleared.
ScheduleReconnect == timer' = "pending"

\* The constructor of Socket calls connect.
Init ==
    /\ reconnect \in BOOLEAN /\ throws \in BOOLEAN
    /\ sockets = IF throws THEN <<>> ELSE <<NewWebSocket>>
    /\ timer = IF throws THEN "pending" ELSE "null"
    /\ connected = FALSE
    /\ joined = FALSE /\ joinList = <<>> /\ errorList = <<>>
    /\ promise = [j \in Joins |-> "none"]
    /\ accepted = FALSE /\ dismissed = FALSE /\ asked = FALSE
    /\ muted = [join |-> {}, error |-> {}]

\* connect, from the timeout; where the constructor throws, it is scheduled again
\* whatever the options say.
TimerFires ==
    /\ timer = "pending"
    /\ IF throws
       THEN ScheduleReconnect /\ UNCHANGED <<sockets, asked>>
       ELSE /\ timer' = "fired"
            /\ sockets' = Replaced
            /\ asked' = FALSE
    /\ UNCHANGED <<reconnect, throws, connected, channel, accepted, dismissed>>

Opens(i) ==
    /\ sockets[i].state = "connecting"
    /\ sockets' = [sockets EXCEPT ![i].state = "open"]
    /\ connected' = TRUE
    /\ UNCHANGED <<reconnect, throws, timer, channel, accepted, dismissed, asked>>

\* Fault variant of OnError: reconnect at once.
OnErrorSchedules == ScheduleReconnect

\* The error event only tells the application.
OnError == UNCHANGED timer

\* The connection cannot be made or breaks; its close event follows.
Breaks(i) ==
    /\ sockets[i].state \in {"connecting", "open"}
    /\ sockets' = [sockets EXCEPT ![i].state = "closing"]
    /\ OnError
    /\ UNCHANGED <<reconnect, throws, connected, channel, accepted, dismissed, asked>>

\* The close event; either side may have closed. What was in transit is lost.
Closes(i) ==
    /\ sockets[i].state \in {"open", "closing"}
    /\ sockets' = [sockets EXCEPT ![i] = [NewWebSocket EXCEPT !.state = "closed"]]
    /\ connected' = FALSE
    /\ IF reconnect THEN ScheduleReconnect ELSE UNCHANGED timer
    /\ UNCHANGED <<reconnect, throws, channel, accepted, dismissed, asked>>

\* disconnect: clear the timeout, then close this.ws. A WebSocket that was not
\* closed will have its close event.
Disconnect ==
    /\ timer' = "null"
    /\ sockets' = [i \in DOMAIN sockets |->
                     IF i = Len(sockets) /\ IsLive(sockets[i])
                     THEN [sockets[i] EXCEPT !.state = "closing"] ELSE sockets[i]]
    /\ dismissed' = (dismissed \/ timer = "pending")
    /\ asked' = (sockets # <<>>)
    /\ UNCHANGED <<reconnect, throws, connected, channel, accepted>>

-----------------------------------------------------------------------------
(* The channel.                                                            *)

\* Socket.send: dropped silently unless connected; a closing WebSocket drops it too.
Send(message) ==
    sockets' = [i \in DOMAIN sockets |->
                  IF i = Len(sockets) /\ connected /\ sockets[i].state = "open"
                  THEN [sockets[i] EXCEPT !.up = Append(@, message)] ELSE sockets[i]]

\* join: the listeners are registered, and phx_join is sent if it can be.
Join(j) ==
    /\ promise[j] = "none"
    /\ promise' = [promise EXCEPT ![j] = "pending"]
    /\ joinList' = Append(joinList, j)
    /\ errorList' = Append(errorList, j)
    /\ Send("phx_join")
    /\ UNCHANGED <<connection, joined, muted, accepted>>

\* Fault variant of MayLeave: phx_leave is sent in any case.
MayLeaveAlways == TRUE

\* leave does nothing unless joined.
MayLeave == joined

\* MaxWire bounds the messages in transit.
RoomUp == \A i \in DOMAIN sockets : Len(sockets[i].up) < MaxWire

Leave ==
    /\ MayLeave /\ RoomUp
    /\ Send("phx_leave")
    /\ joined' = FALSE
    /\ UNCHANGED <<connection, joinList, errorList, promise, muted, accepted>>

\* emit of an application's event; nothing is sent unless joined.
Emit ==
    /\ joined /\ RoomUp
    /\ Send("push")
    /\ UNCHANGED <<connection, channel, accepted>>

\* forEach over listeners that each remove themselves: every second one is skipped.
Called(list) == [i \in 1 .. (Len(list) + 1) \div 2 |-> list[2 * i - 1]]
Skipped(list) == [i \in 1 .. Len(list) \div 2 |-> list[2 * i]]

Listens(list, j) == \E i \in DOMAIN list : list[i] = j

\* The pending promises that listen in a list.
Waiting(list) == {j \in Joins : promise[j] = "pending" /\ Listens(list, j)}

\* They settle, and need no listener any more.
Settle(list, result) ==
    /\ promise' = [j \in Joins |-> IF j \in Waiting(list) THEN result ELSE promise[j]]
    /\ muted' = [muted EXCEPT !.join = @ \ Waiting(list), !.error = @ \ Waiting(list)]

\* The join listeners that are called: joined, and each removes itself.
EmitJoin ==
    /\ joined' = (joined \/ joinList # <<>>)
    /\ Settle(Called(joinList), "resolved")
    /\ joinList' = Skipped(joinList)
    /\ UNCHANGED errorList

\* Fault variant of JoinListWithout: errorCallback only removes itself.
JoinListWithoutNone(rejected) == joinList

\* errorCallback removes the join listener of its promise too; kept[n] is what is left
\* of the first n.
JoinListWithout(rejected) ==
    LET kept[n \in 0 .. Len(joinList)] ==
            IF n = 0 THEN <<>>
            ELSE IF Listens(rejected, joinList[n]) THEN kept[n - 1]
            ELSE Append(kept[n - 1], joinList[n])
    IN kept[Len(joinList)]

\* The error listeners that are called, those of promises resolved before included.
EmitError ==
    /\ Settle(Called(errorList), "rejected")
    /\ joinList' = JoinListWithout(Called(errorList))
    /\ errorList' = Skipped(errorList)
    /\ UNCHANGED joined

\* off(event) without a callback deletes the listeners of the event, those of pending
\* joins included; the other list keeps them.
OffAllJoin ==
    /\ joinList # <<>>
    /\ joinList' = <<>>
    /\ muted' = [muted EXCEPT !.join = @ \cup Waiting(joinList)]
    /\ UNCHANGED <<connection, sockets, joined, errorList, promise, accepted>>

OffAllError ==
    /\ errorList # <<>>
    /\ errorList' = <<>>
    /\ muted' = [muted EXCEPT !.error = @ \cup Waiting(errorList)]
    /\ UNCHANGED <<connection, sockets, joined, joinList, promise, accepted>>

\* handleMessage: an ok reply, an event `error', or a reply that is not ok, for which
\* nobody listens.
Receive(i) ==
    /\ sockets[i].state \in {"open", "closing"} /\ sockets[i].down # <<>>
    /\ CASE Head(sockets[i].down) = "ok" -> EmitJoin
         [] Head(sockets[i].down) = "error" -> EmitError
         [] OTHER -> UNCHANGED channel
    /\ sockets' = [sockets EXCEPT ![i].down = Tail(@)]
    /\ UNCHANGED <<connection, accepted>>

-----------------------------------------------------------------------------
(* The server.                                                             *)

\* The server takes a message, changes its view of the channel and may reply.
Answer(i, member, reply) ==
    sockets' = [sockets EXCEPT ![i].up = Tail(@), ![i].member = member, ![i].down = @ \o reply]

\* It accepts or refuses a join, grants a leave, answers an event of a member as it
\* likes and one of a stranger with an error at most.
Serve(i) ==
    /\ sockets[i].state \in {"open", "closing"} /\ sockets[i].up # <<>>
    /\ Len(sockets[i].down) < MaxWire
    /\ LET message == Head(sockets[i].up)
           member == sockets[i].member
       IN \/ /\ message = "phx_join"
             /\ Answer(i, TRUE, <<"ok">>)
             /\ accepted' = TRUE
          \/ /\ \/ message = "phx_leave" /\ Answer(i, FALSE, <<"ok">>)
                \/ message = "push" /\ member /\ Answer(i, TRUE, <<"ok">>)
                \/ /\ message # "phx_leave"
                   /\ \E reply \in {<<>>, <<"refused">>} : Answer(i, member, reply)
             /\ UNCHANGED accepted
    /\ UNCHANGED <<connection, channel>>

\* An event named `error' is sent to the members.
Broadcast(i) ==
    /\ sockets[i].state \in {"open", "closing"} /\ sockets[i].member
    /\ Len(sockets[i].down) < MaxWire
    /\ sockets' = [sockets EXCEPT ![i].down = Append(@, "error")]
    /\ UNCHANGED <<connection, channel, accepted>>

-----------------------------------------------------------------------------
Application ==
    (\E j \in Joins : Join(j)) \/ Leave \/ Emit \/ OffAllJoin \/ OffAllError \/ Disconnect

WebSocketEvent ==
    \E i \in DOMAIN sockets : Opens(i) \/ Breaks(i) \/ Closes(i) \/ Receive(i)

Server == \E i \in DOMAIN sockets : Serve(i) \/ Broadcast(i)

Next == Application \/ TimerFires \/ WebSocketEvent \/ Server

Spec == Init /\ [][Next]_vars

\* Timeouts expire, and a WebSocket that is closing closes.
FairSpec ==
    /\ Spec
    /\ WF_vars(TimerFires)
    /\ WF_vars(\E i \in DOMAIN sockets : sockets[i].state = "closing" /\ Closes(i))

-----------------------------------------------------------------------------
(* Properties.                                                             *)

\* The client never holds two connections, never waits to reconnect while it has one,
\* and takes itself for connected only while its own WebSocket is there; a disconnect
\* that finds it waiting is final. No close event, error, timeout or call of
\* disconnect comes in an order that breaks this (polyglot.ts:46-66, 79-84, 135-143).
OneConnection ==
    /\ \A i, k \in DOMAIN sockets : IsLive(sockets[i]) /\ IsLive(sockets[k]) => i = k
    /\ timer = "pending" => \A i \in DOMAIN sockets : ~IsLive(sockets[i])
    /\ connected => ThisState \in {"open", "closing"}
    /\ dismissed => timer = "null" /\ \A i \in DOMAIN sockets : ~IsLive(sockets[i])

\* join is only reported done, and the channel only taken for joined, after the server
\* has accepted a join of it: though any ok reply will do, leave and emit send nothing
\* before (polyglot.ts:89-94, 172-197, 219-223).
JoinedAfterAccepted == joined \/ (\E j \in Joins : promise[j] = "resolved") => accepted

\* No promise is lost by listeners that leave the list while it is walked, and none is
\* settled twice: those that listen for `join' are pending, and a pending one listens for
\* either outcome, unless the application itself has deleted its listener with an off
\* that names no callback, for the outcome it named only (polyglot.ts:172-191, 207-217,
\* 225-228).
PendingListens ==
    \A j \in Joins :
        /\ Listens(joinList, j) => promise[j] = "pending"
        /\ promise[j] = "pending" => Listens(joinList, j) \/ j \in muted.join
        /\ promise[j] = "pending" => Listens(errorList, j) \/ j \in muted.error

\* Under FairSpec: a connection that ends by itself is made again, unless the client is
\* told not to reconnect or the application disconnects first (polyglot.ts:60-66, 79-84).
\* Whether one that disconnect ends is made again is left open: README.md of the client
\* has it closed for good.
Reconnects ==
    ThisState = "closing" /\ reconnect /\ ~asked ~> asked \/ ThisState = "connecting"
=============================================================================
