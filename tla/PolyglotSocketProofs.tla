------------------------ MODULE PolyglotSocketProofs -------------------------
(***************************************************************************)
(* Proofs about PolyglotSocket, for any number of joins and any bound on   *)
(* the messages in transit: the client has one connection at most, takes   *)
(* itself for joined only after the server has accepted it, and loses no   *)
(* promise whose listeners the application has not deleted.                *)
(***************************************************************************)
EXTENDS PolyglotSocket, WellFoundedInduction, TLAPS

\* The client never remembers two WebSockets, even closed ones.
OneSocket ==
    /\ sockets = <<>> \/ \E w \in WebSocket : sockets = <<w>>
    /\ timer \in {"null", "pending", "fired"}
    /\ connected \in BOOLEAN /\ dismissed \in BOOLEAN

\* A WebSocket over which no join was accepted.
Innocent(w) ==
    /\ ~w.member
    /\ \A k \in DOMAIN w.up : w.up[k] = "phx_join"
    /\ \A k \in DOMAIN w.down : w.down[k] # "ok"

\* Before the server has accepted a join, nothing the client has seen or sent says
\* otherwise.
NothingAccepted ==
    accepted \/ (/\ ~joined /\ \A j \in Joins : promise[j] # "resolved"
                 /\ \A i \in DOMAIN sockets : Innocent(sockets[i]))

IInv == OneSocket /\ OneConnection /\ NothingAccepted

-----------------------------------------------------------------------------
(* Single WebSockets.                                                      *)

LEMMA One ==
    ASSUME NEW w
    PROVE  /\ DOMAIN <<w>> = {1} /\ Len(<<w>>) = 1 /\ <<w>>[1] = w /\ <<w>> # <<>>
           /\ \A v : [<<w>> EXCEPT ![1] = v] = <<v>>
           /\ \A v : [i \in {1} |-> v] = <<v>>
<1>1. DOMAIN <<w>> = {1} /\ Len(<<w>>) = 1 /\ <<w>>[1] = w /\ <<w>> # <<>>
  OBVIOUS
<1>2. ASSUME NEW v PROVE [<<w>> EXCEPT ![1] = v] = <<v>>
  OBVIOUS
<1>3. ASSUME NEW v PROVE [i \in {1} |-> v] = <<v>>
  OBVIOUS
<1> QED BY <1>1, <1>2, <1>3

LEMMA StateChanges ==
    ASSUME NEW w \in WebSocket, NEW s \in {"connecting", "open", "closing", "closed"}
    PROVE  /\ [w EXCEPT !.state = s] \in WebSocket /\ [w EXCEPT !.state = s].state = s
           /\ Innocent(w) => Innocent([w EXCEPT !.state = s])
  BY DEF WebSocket, Innocent

LEMMA NewIsWebSocket ==
    /\ NewWebSocket \in WebSocket
    /\ [NewWebSocket EXCEPT !.state = "closed"] \in WebSocket
    /\ Innocent(NewWebSocket) /\ Innocent([NewWebSocket EXCEPT !.state = "closed"])
<1>1. <<>> \in Requests /\ <<>> \in Replies
  BY DEF Requests, Replies
<1>2. NewWebSocket \in WebSocket /\ Innocent(NewWebSocket)
  BY <1>1 DEF NewWebSocket, WebSocket, Innocent
<1> QED BY <1>2, StateChanges

LEMMA Sent ==
    ASSUME NEW w \in WebSocket, NEW m \in {"phx_join", "phx_leave", "push"}
    PROVE  /\ [w EXCEPT !.up = Append(w.up, m)] \in WebSocket
           /\ [w EXCEPT !.up = Append(w.up, m)].state = w.state
           /\ Innocent(w) /\ m = "phx_join" => Innocent([w EXCEPT !.up = Append(w.up, m)])
<1>1. w.up \in Requests
  BY DEF WebSocket
<1>2. /\ Append(w.up, m) \in Requests
      /\ \A k \in DOMAIN Append(w.up, m) :
            \/ k \in DOMAIN w.up /\ Append(w.up, m)[k] = w.up[k]
            \/ Append(w.up, m)[k] = m
  BY <1>1 DEF Requests
<1> QED BY <1>2 DEF WebSocket, Innocent

\* A WebSocket of which the server has taken a message.
Answered(w, member, reply) ==
    [w EXCEPT !.up = Tail(w.up), !.member = member, !.down = w.down \o reply]

LEMMA TakenUp ==
    ASSUME NEW w \in WebSocket, w.up # <<>>, NEW member \in BOOLEAN,
           NEW reply \in {<<>>, <<"ok">>, <<"refused">>}
    PROVE  /\ Answered(w, member, reply) \in WebSocket
           /\ Answered(w, member, reply).state = w.state
           /\ Head(w.up) = w.up[1] /\ 1 \in DOMAIN w.up
           /\ Innocent(w) /\ ~member /\ reply # <<"ok">> =>
                 Innocent(Answered(w, member, reply))
<1>1. w.up \in Requests /\ w.down \in Replies
  BY DEF WebSocket
<1>2. /\ Tail(w.up) \in Requests /\ Head(w.up) = w.up[1] /\ 1 \in DOMAIN w.up
      /\ \A k \in DOMAIN Tail(w.up) : k + 1 \in DOMAIN w.up /\ Tail(w.up)[k] = w.up[k + 1]
  BY <1>1 DEF Requests
<1>3. /\ w.down \o reply \in Replies
      /\ \A k \in DOMAIN (w.down \o reply) :
            \/ k \in DOMAIN w.down /\ (w.down \o reply)[k] = w.down[k]
            \/ reply # <<"ok">> /\ (w.down \o reply)[k] = "refused"
            \/ reply = <<"ok">>
  <2>1. CASE reply = <<>>
    <3>1. w.down \o reply = w.down
      BY <1>1, <2>1 DEF Replies
    <3> QED BY <1>1, <3>1
  <2>2. CASE reply \in {<<"ok">>, <<"refused">>}
    <3>1. PICK m \in {"ok", "refused"} : reply = <<m>>
      BY <2>2
    <3>2. w.down \o reply = Append(w.down, m)
      BY <1>1, <3>1 DEF Replies
    <3>3. /\ Append(w.down, m) \in Replies
          /\ \A k \in DOMAIN Append(w.down, m) :
                \/ k \in DOMAIN w.down /\ Append(w.down, m)[k] = w.down[k]
                \/ Append(w.down, m)[k] = m
      BY <1>1 DEF Replies
    <3>4. m = "ok" => reply = <<"ok">>
      BY <3>1
    <3>5. m = "refused" => reply # <<"ok">>
      BY <3>1
    <3> QED BY <3>2, <3>3, <3>4, <3>5
  <2> QED BY <2>1, <2>2
<1> QED BY <1>2, <1>3 DEF Answered, WebSocket, Innocent

LEMMA TakenDown ==
    ASSUME NEW w \in WebSocket, w.down # <<>>
    PROVE  /\ [w EXCEPT !.down = Tail(w.down)] \in WebSocket
           /\ [w EXCEPT !.down = Tail(w.down)].state = w.state
           /\ Innocent(w) => Innocent([w EXCEPT !.down = Tail(w.down)]) /\ Head(w.down) # "ok"
<1>1. w.down \in Replies
  BY DEF WebSocket
<1>2. /\ Tail(w.down) \in Replies /\ Head(w.down) = w.down[1] /\ 1 \in DOMAIN w.down
      /\ \A k \in DOMAIN Tail(w.down) :
            k + 1 \in DOMAIN w.down /\ Tail(w.down)[k] = w.down[k + 1]
  BY <1>1 DEF Replies
<1>3. /\ [w EXCEPT !.down = Tail(w.down)] \in WebSocket
      /\ [w EXCEPT !.down = Tail(w.down)].state = w.state
  BY <1>2 DEF WebSocket
<1>4. ASSUME Innocent(w)
      PROVE  Innocent([w EXCEPT !.down = Tail(w.down)]) /\ Head(w.down) # "ok"
  BY <1>2, <1>4 DEF WebSocket, Innocent
<1> QED BY <1>3, <1>4

LEMMA ErrorSent ==
    ASSUME NEW w \in WebSocket
    PROVE  /\ [w EXCEPT !.down = Append(w.down, "error")] \in WebSocket
           /\ [w EXCEPT !.down = Append(w.down, "error")].state = w.state
           /\ Innocent(w) => Innocent([w EXCEPT !.down = Append(w.down, "error")])
<1>1. w.down \in Replies
  BY DEF WebSocket
<1>2. /\ Append(w.down, "error") \in Replies
      /\ \A k \in DOMAIN Append(w.down, "error") :
            \/ k \in DOMAIN w.down /\ Append(w.down, "error")[k] = w.down[k]
            \/ Append(w.down, "error")[k] = "error"
  BY <1>1 DEF Replies
<1> QED BY <1>2 DEF WebSocket, Innocent

-----------------------------------------------------------------------------
(* What the invariant says of the only WebSocket, before and after a step. *)

LEMMA Before ==
    ASSUME IInv, NEW i \in DOMAIN sockets
    PROVE  \E w \in WebSocket :
              /\ sockets = <<w>> /\ i = 1 /\ sockets[1] = w /\ DOMAIN sockets = {1}
              /\ Len(sockets) = 1 /\ ThisState = w.state
              /\ timer = "pending" => w.state = "closed"
              /\ connected => w.state \in {"open", "closing"}
              /\ dismissed => timer = "null" /\ w.state = "closed"
              /\ ~accepted => Innocent(w)
<1>1. PICK w \in WebSocket : sockets = <<w>>
  BY DEF IInv, OneSocket
<1>2. /\ DOMAIN sockets = {1} /\ Len(sockets) = 1 /\ sockets[1] = w /\ sockets # <<>>
      /\ i = 1 /\ ThisState = w.state
  BY <1>1, One DEF ThisState
<1>3. /\ timer = "pending" => w.state = "closed"
      /\ connected => w.state \in {"open", "closing"}
      /\ dismissed => timer = "null" /\ w.state = "closed"
      /\ ~accepted => Innocent(w)
  BY <1>2 DEF IInv, OneConnection, IsLive, NothingAccepted
<1> QED BY <1>1, <1>2, <1>3

LEMMA After ==
    ASSUME NEW v \in WebSocket, sockets' = <<v>>,
           timer' \in {"null", "pending", "fired"},
           connected' \in BOOLEAN, dismissed' \in BOOLEAN,
           timer' = "pending" => v.state = "closed",
           connected' => v.state \in {"open", "closing"},
           dismissed' => timer' = "null" /\ v.state = "closed",
           accepted' \/ (~joined' /\ (\A j \in Joins : promise'[j] # "resolved") /\ Innocent(v))
    PROVE  IInv'
<1>1. /\ DOMAIN sockets' = {1} /\ Len(sockets') = 1 /\ sockets'[1] = v /\ sockets' # <<>>
      /\ ThisState' = v.state
  BY One DEF ThisState
<1>2. OneSocket'
  BY DEF OneSocket
<1>3. OneConnection'
  BY <1>1 DEF OneConnection, IsLive
<1>4. NothingAccepted'
  BY <1>1 DEF NothingAccepted
<1> QED BY <1>2, <1>3, <1>4 DEF IInv

\* A step that leaves the WebSockets and the connection alone.
LEMMA Unmoved ==
    ASSUME IInv, UNCHANGED <<sockets, connection, accepted>>,
           ~accepted => ~joined' /\ \A j \in Joins : promise'[j] # "resolved"
    PROVE  IInv'
  BY DEF IInv, OneSocket, OneConnection, NothingAccepted, connection, ThisState

\* Everything but the WebSockets that NothingAccepted speaks of.
Quiet == accepted \/ (~joined /\ \A j \in Joins : promise[j] # "resolved")

LEMMA InvIsQuiet == IInv => Quiet /\ OneSocket
  BY DEF IInv, NothingAccepted, Quiet

-----------------------------------------------------------------------------
(* The steps.                                                              *)

LEMMA InitInv == Init => IInv
<1> SUFFICES ASSUME Init PROVE IInv
  OBVIOUS
<1>1. ~joined /\ \A j \in Joins : promise[j] # "resolved"
  BY DEF Init
<1>2. CASE sockets = <<>>
  <2>1. OneSocket
    BY <1>2 DEF Init, OneSocket
  <2>2. OneConnection
    BY <1>2 DEF Init, OneConnection
  <2>3. NothingAccepted
    BY <1>1, <1>2 DEF NothingAccepted
  <2> QED BY <2>1, <2>2, <2>3 DEF IInv
<1>3. CASE sockets = <<NewWebSocket>>
  <2>1. DOMAIN sockets = {1} /\ sockets[1] = NewWebSocket /\ timer # "pending"
    BY <1>3, One DEF Init, NewWebSocket
  <2>2. timer = "null" /\ connected = FALSE /\ dismissed = FALSE
    BY <2>1 DEF Init
  <2>3. OneSocket
    <3>1. \E w \in WebSocket : sockets = <<w>>
      BY <1>3, NewIsWebSocket
    <3> QED BY <2>2, <3>1 DEF OneSocket
  <2>4. OneConnection
    BY <2>1, <2>2 DEF OneConnection
  <2>5. NothingAccepted
    BY <1>1, <2>1, NewIsWebSocket DEF NothingAccepted
  <2> QED BY <2>3, <2>4, <2>5 DEF IInv
<1> QED BY <1>2, <1>3 DEF Init

LEMMA TimerStep == ASSUME IInv, TimerFires PROVE IInv'
<1> USE DEF TimerFires, channel
<1>1. Quiet /\ OneSocket
  BY InvIsQuiet
<1>2. CASE throws
  BY <1>2, Unmoved, <1>1 DEF ScheduleReconnect, connection, Quiet
<1>3. CASE ~throws
  <2>1. ThisState = "closed" /\ ~dismissed
    <3>1. CASE sockets = <<>>
      BY <3>1 DEF ThisState, IInv, OneConnection
    <3>2. CASE sockets # <<>>
      <4>1. 1 \in DOMAIN sockets
        BY <1>1, <3>2, One DEF OneSocket
      <4> QED BY <4>1, Before
    <3> QED BY <3>1, <3>2
  <2>2. sockets' = <<NewWebSocket>>
    <3>1. SubSeq(sockets, 1, Len(sockets) - 1) = <<>>
      <4>1. CASE sockets = <<>>
        BY <4>1
      <4>2. CASE sockets # <<>>
        <5>1. PICK w \in WebSocket : sockets = <<w>>
          BY <1>1, <4>2 DEF OneSocket
        <5>2. SubSeq(<<w>>, 1, 0) = <<>>
          OBVIOUS
        <5>3. Len(sockets) - 1 = 0
          BY <5>1
        <5> QED BY <5>1, <5>2, <5>3
      <4> QED BY <4>1, <4>2
    <3> QED BY <1>3, <2>1, <3>1 DEF Replaced
  <2>3. ~connected
    <3>1. connected => ThisState \in {"open", "closing"}
      BY DEF IInv, OneConnection
    <3> QED BY <2>1, <3>1, <1>1 DEF OneSocket
  <2> QED BY <1>1, <1>3, <2>1, <2>2, <2>3, NewIsWebSocket, After DEF Quiet, OneSocket
<1> QED BY <1>2, <1>3

LEMMA SocketStep ==
    ASSUME IInv, NEW i \in DOMAIN sockets, Opens(i) \/ Breaks(i) \/ Closes(i) PROVE IInv'
<1>1. Quiet /\ OneSocket
  BY InvIsQuiet
<1>2. PICK w \in WebSocket :
              /\ sockets = <<w>> /\ i = 1 /\ sockets[1] = w /\ DOMAIN sockets = {1}
              /\ Len(sockets) = 1 /\ ThisState = w.state
              /\ timer = "pending" => w.state = "closed"
              /\ connected => w.state \in {"open", "closing"}
              /\ dismissed => timer = "null" /\ w.state = "closed"
              /\ ~accepted => Innocent(w)
  BY Before
<1>3. CASE Opens(i)
  <2>1. sockets' = <<[w EXCEPT !.state = "open"]>>
    BY <1>2, <1>3, One DEF Opens
  <2>2. w.state = "connecting" /\ timer' = timer /\ connected' = TRUE /\ dismissed' = dismissed
        /\ UNCHANGED <<joined, promise, accepted>>
    BY <1>2, <1>3 DEF Opens, channel
  <2> QED BY <1>1, <1>2, <2>1, <2>2, StateChanges, After DEF Quiet, OneSocket
<1>4. CASE Breaks(i)
  <2>1. sockets' = <<[w EXCEPT !.state = "closing"]>>
    BY <1>2, <1>4, One DEF Breaks
  <2>2. /\ w.state \in {"connecting", "open"} /\ timer' = timer /\ connected' = connected
        /\ dismissed' = dismissed /\ UNCHANGED <<joined, promise, accepted>>
    BY <1>2, <1>4 DEF Breaks, OnError, channel
  <2> QED BY <1>1, <1>2, <2>1, <2>2, StateChanges, After DEF Quiet, OneSocket
<1>5. CASE Closes(i)
  <2>1. sockets' = <<[NewWebSocket EXCEPT !.state = "closed"]>>
    BY <1>2, <1>5, One DEF Closes
  <2>2. /\ w.state \in {"open", "closing"} /\ timer' \in {timer, "pending"} /\ connected' = FALSE
        /\ dismissed' = dismissed /\ UNCHANGED <<joined, promise, accepted>>
    BY <1>2, <1>5 DEF Closes, ScheduleReconnect, channel
  <2> QED BY <1>1, <1>2, <2>1, <2>2, NewIsWebSocket, StateChanges, After DEF Quiet, OneSocket
<1> QED BY <1>3, <1>4, <1>5

LEMMA DisconnectStep == ASSUME IInv, Disconnect PROVE IInv'
<1>1. Quiet /\ OneSocket
  BY InvIsQuiet
<1>2. /\ timer' = "null" /\ connected' = connected /\ UNCHANGED <<joined, promise, accepted>>
      /\ dismissed' = (dismissed \/ timer = "pending")
  BY DEF Disconnect, channel
<1>3. CASE sockets = <<>>
  <2>1. sockets' = <<>>
    BY <1>3 DEF Disconnect
  <2> QED BY <1>1, <1>2, <1>3, <2>1
          DEF IInv, OneSocket, OneConnection, NothingAccepted, ThisState, Quiet
<1>4. CASE sockets # <<>>
  <2>1. 1 \in DOMAIN sockets
    BY <1>1, <1>4, One DEF OneSocket
  <2>2. PICK w \in WebSocket :
              /\ sockets = <<w>> /\ sockets[1] = w /\ DOMAIN sockets = {1}
              /\ Len(sockets) = 1 /\ ThisState = w.state
              /\ timer = "pending" => w.state = "closed"
              /\ connected => w.state \in {"open", "closing"}
              /\ dismissed => timer = "null" /\ w.state = "closed"
              /\ ~accepted => Innocent(w)
    BY <2>1, Before
  <2> DEFINE v == IF IsLive(w) THEN [w EXCEPT !.state = "closing"] ELSE w
  <2>3. sockets' = <<v>>
    <3>1. sockets' = [i \in {1} |-> v]
      BY <2>2 DEF Disconnect
    <3> HIDE DEF v
    <3> QED BY <3>1, One
  <2>4. /\ v \in WebSocket
        /\ Innocent(w) => Innocent(v)
        /\ w.state = "closed" => v.state = "closed"
        /\ w.state # "closed" => v.state = "closing"
    BY StateChanges DEF IsLive
  <2> HIDE DEF v
  <2> QED BY <1>1, <1>2, <2>2, <2>3, <2>4, After DEF Quiet, OneSocket
<1> QED BY <1>3, <1>4

\* send puts a message on the only WebSocket, or on none.
LEMMA SendStep ==
    ASSUME IInv, NEW m \in {"phx_join", "phx_leave", "push"}, Send(m),
           UNCHANGED <<connection, accepted>>, accepted \/ m = "phx_join",
           Quiet'
    PROVE  IInv'
<1>1. Quiet /\ OneSocket
  BY InvIsQuiet
<1>2. CASE sockets = <<>>
  <2>1. sockets' = <<>>
    BY <1>2 DEF Send
  <2> QED BY <1>1, <1>2, <2>1
          DEF IInv, OneSocket, OneConnection, NothingAccepted, ThisState, Quiet, connection
<1>3. CASE sockets # <<>>
  <2>1. 1 \in DOMAIN sockets
    BY <1>1, <1>3, One DEF OneSocket
  <2>2. PICK w \in WebSocket :
              /\ sockets = <<w>> /\ sockets[1] = w /\ DOMAIN sockets = {1}
              /\ Len(sockets) = 1 /\ ThisState = w.state
              /\ timer = "pending" => w.state = "closed"
              /\ connected => w.state \in {"open", "closing"}
              /\ dismissed => timer = "null" /\ w.state = "closed"
              /\ ~accepted => Innocent(w)
    BY <2>1, Before
  <2> DEFINE v == IF connected /\ w.state = "open" THEN [w EXCEPT !.up = Append(w.up, m)] ELSE w
  <2>3. sockets' = <<v>>
    <3>1. sockets' = [i \in {1} |-> v]
      BY <2>2 DEF Send
    <3> HIDE DEF v
    <3> QED BY <3>1, One
  <2>4. v \in WebSocket /\ v.state = w.state /\ (Innocent(w) /\ m = "phx_join" => Innocent(v))
    BY Sent
  <2> HIDE DEF v
  <2> QED BY <1>1, <2>2, <2>3, <2>4, After DEF Quiet, OneSocket, connection
<1> QED BY <1>2, <1>3

LEMMA ChannelStep ==
    ASSUME IInv, (\E j \in Joins : Join(j)) \/ Leave \/ Emit \/ OffAllJoin \/ OffAllError
    PROVE  IInv'
<1>1. Quiet /\ OneSocket
  BY InvIsQuiet
<1>2. ASSUME NEW j \in Joins, Join(j) PROVE IInv'
  <2>1. Quiet'
    BY <1>1, <1>2 DEF Quiet, Join
  <2> QED BY <1>2, <2>1, SendStep DEF Join
<1>3. CASE Leave
  <2>1. accepted /\ Quiet'
    BY <1>1, <1>3 DEF Quiet, Leave, MayLeave
  <2> QED BY <1>3, <2>1, SendStep DEF Leave
<1>4. CASE Emit
  <2>1. accepted /\ Quiet'
    BY <1>1, <1>4 DEF Quiet, Emit, channel
  <2> QED BY <1>4, <2>1, SendStep DEF Emit
<1>5. CASE OffAllJoin \/ OffAllError
  BY <1>1, <1>5, Unmoved DEF OffAllJoin, OffAllError, Quiet
<1> QED BY <1>2, <1>3, <1>4, <1>5

LEMMA WireStep ==
    ASSUME IInv, NEW i \in DOMAIN sockets, Receive(i) \/ Serve(i) \/ Broadcast(i) PROVE IInv'
<1>1. Quiet /\ OneSocket
  BY InvIsQuiet
<1>2. PICK w \in WebSocket :
              /\ sockets = <<w>> /\ i = 1 /\ sockets[1] = w /\ DOMAIN sockets = {1}
              /\ Len(sockets) = 1 /\ ThisState = w.state
              /\ timer = "pending" => w.state = "closed"
              /\ connected => w.state \in {"open", "closing"}
              /\ dismissed => timer = "null" /\ w.state = "closed"
              /\ ~accepted => Innocent(w)
  BY Before
<1>3. UNCHANGED connection
  BY DEF Receive, Serve, Broadcast
<1>4. CASE Receive(i)
  <2> DEFINE v == [w EXCEPT !.down = Tail(w.down)]
  <2>1. sockets' = <<v>> /\ w.down # <<>> /\ accepted' = accepted
    BY <1>2, <1>4, One DEF Receive
  <2>2. v \in WebSocket /\ v.state = w.state /\ (Innocent(w) => Innocent(v) /\ Head(w.down) # "ok")
    BY <2>1, TakenDown
  <2>3. ~accepted => ~joined' /\ \A j \in Joins : promise'[j] # "resolved"
    <3> SUFFICES ASSUME ~accepted PROVE ~joined' /\ \A j \in Joins : promise'[j] # "resolved"
      OBVIOUS
    <3>1. Head(w.down) # "ok"
      BY <1>2, <2>2
    <3>2. EmitError \/ UNCHANGED channel
      BY <1>2, <1>4, <3>1 DEF Receive
    <3> QED BY <1>1, <3>2 DEF EmitError, Settle, channel, Quiet
  <2> HIDE DEF v
  <2> QED BY <1>1, <1>2, <1>3, <2>1, <2>2, <2>3, After DEF OneSocket, connection
<1>5. CASE Serve(i)
  <2>1. PICK member \in BOOLEAN, reply \in {<<>>, <<"ok">>, <<"refused">>} :
            /\ Answer(i, member, reply) /\ w.up # <<>>
            /\ \/ accepted'
               \/ /\ accepted' = accepted
                  /\ \/ ~member /\ reply # <<"ok">>
                     \/ w.member
                     \/ Head(w.up) = "phx_leave"
    <3>1. w.member \in BOOLEAN /\ w.up # <<>>
      BY <1>2, <1>5 DEF Serve, WebSocket
    <3> QED BY <1>2, <1>5, <3>1 DEF Serve
  <2> DEFINE v == Answered(w, member, reply)
  <2>2. sockets' = <<v>> /\ UNCHANGED channel
    BY <1>2, <1>5, <2>1, One DEF Answer, Answered, Serve
  <2>3. /\ v \in WebSocket /\ v.state = w.state
        /\ Head(w.up) = w.up[1] /\ 1 \in DOMAIN w.up
        /\ Innocent(w) /\ ~member /\ reply # <<"ok">> => Innocent(v)
    BY <2>1, TakenUp
  <2>4. accepted' \/ (~accepted /\ Innocent(v))
    BY <1>2, <2>1, <2>3 DEF Innocent
  <2> HIDE DEF v
  <2> QED BY <1>1, <1>2, <1>3, <2>2, <2>3, <2>4, After DEF OneSocket, connection, channel, Quiet
<1>6. CASE Broadcast(i)
  <2> DEFINE v == [w EXCEPT !.down = Append(w.down, "error")]
  <2>1. sockets' = <<v>> /\ UNCHANGED <<channel, accepted>>
    <3>1. sockets' = [<<w>> EXCEPT ![1] = v]
      BY <1>2, <1>6 DEF Broadcast
    <3> HIDE DEF v
    <3>2. sockets' = <<v>>
      BY <3>1, One
    <3> QED BY <1>6, <3>2 DEF Broadcast
  <2>2. /\ v \in WebSocket /\ v.state = w.state
        /\ Innocent(w) => Innocent(v)
    BY ErrorSent
  <2> HIDE DEF v
  <2> QED BY <1>1, <1>2, <1>3, <2>1, <2>2, After DEF OneSocket, connection, channel, Quiet
<1> QED BY <1>4, <1>5, <1>6

LEMMA NextStep == IInv /\ [Next]_vars => IInv'
<1> SUFFICES ASSUME IInv, [Next]_vars PROVE IInv'
  OBVIOUS
<1>1. CASE UNCHANGED vars
  BY <1>1, InvIsQuiet, Unmoved DEF vars, channel, Quiet
<1> QED BY <1>1, TimerStep, SocketStep, DisconnectStep, ChannelStep, WireStep
        DEF Next, Application, WebSocketEvent, Server

-----------------------------------------------------------------------------
(* The lists of listeners.  Each promise listens once for `join'; with that, *)
(* what is called and what is skipped are the two halves of a list.          *)

ListenersOnce ==
    /\ joinList \in Seq(Joins) /\ errorList \in Seq(Joins)
    /\ promise \in [Joins -> {"none", "pending", "resolved", "rejected"}]
    /\ muted \in [join : SUBSET Joins, error : SUBSET Joins]
    /\ \A i, k \in DOMAIN joinList : joinList[i] = joinList[k] => i = k

ListInv == ListenersOnce /\ PendingListens

\* A set of naturals that is not empty has a least element.
LEMMA LeastNat ==
    ASSUME NEW T, T \subseteq Nat, T # {}
    PROVE  \E n \in T : \A m \in T : n <= m
<1>1. PICK n \in T : \A m \in T : <<m, n>> \notin OpToRel(<, Nat)
  BY NatLessThanWellFounded, WFMin
<1>2. \A m \in T : ~(m < n)
  BY <1>1 DEF OpToRel
<1> QED BY <1>2

\* What errorCallback leaves of the first n listeners, by recursion on n.
KeptStep(list, gone, f, n) ==
    IF n = 0 THEN <<>>
    ELSE IF Listens(gone, list[n]) THEN f[n - 1]
    ELSE Append(f[n - 1], list[n])

IsKept(list, gone, f, m) == f = [n \in 0 .. m |-> KeptStep(list, gone, f, n)]

LEMMA KeptExists ==
    ASSUME NEW list, NEW gone, NEW m \in Nat
    PROVE  \E f : IsKept(list, gone, f, m)
<1> DEFINE Missing == {n \in Nat : ~ \E f : IsKept(list, gone, f, n)}
<1> SUFFICES ASSUME Missing # {} PROVE FALSE
  OBVIOUS
<1>1. PICK n \in Missing : \A k \in Missing : n <= k
  <2>1. Missing \subseteq Nat
    OBVIOUS
  <2> HIDE DEF Missing
  <2> QED BY <2>1, LeastNat, Zenon
<1>2. n \in Nat /\ ~ \E f : IsKept(list, gone, f, n)
  OBVIOUS
<1>3. CASE n = 0
  <2> DEFINE g == [k \in 0 .. 0 |-> <<>>]
  <2>1. g = [k \in 0 .. 0 |-> KeptStep(list, gone, g, k)]
    BY DEF KeptStep
  <2> QED BY <1>2, <1>3, <2>1 DEF IsKept
<1>4. CASE n # 0
  <2>1. n - 1 \in Nat /\ n - 1 \notin Missing
    BY <1>1, <1>2, <1>4
  <2>2. PICK f : IsKept(list, gone, f, n - 1)
    BY <2>1
  <2> DEFINE g == [k \in 0 .. n |-> IF k = n THEN KeptStep(list, gone, f, n) ELSE f[k]]
  <2>3. \A k \in 0 .. n - 1 : g[k] = f[k] /\ f[k] = KeptStep(list, gone, f, k)
    BY <1>2, <2>2 DEF IsKept
  <2>4. \A k \in 0 .. n : KeptStep(list, gone, g, k) = KeptStep(list, gone, f, k)
    <3> SUFFICES ASSUME NEW k \in 0 .. n, k # 0 PROVE g[k - 1] = f[k - 1]
      BY DEF KeptStep
    <3>1. k - 1 \in 0 .. n - 1
      BY <1>2
    <3> HIDE DEF g
    <3> QED BY <2>3, <3>1
  <2>5. g = [k \in 0 .. n |-> KeptStep(list, gone, g, k)]
    <3>1. \A k \in 0 .. n : g[k] = KeptStep(list, gone, f, k)
      <4>1. g[n] = KeptStep(list, gone, f, n)
        BY <1>2
      <4>2. \A k \in 0 .. n : k = n \/ k \in 0 .. n - 1
        BY <1>2
      <4> HIDE DEF g
      <4> QED BY <2>3, <4>1, <4>2
    <3>2. g = [k \in 0 .. n |-> g[k]]
      OBVIOUS
    <3> HIDE DEF g
    <3> QED BY <2>4, <3>1, <3>2
  <2> HIDE DEF g
  <2> QED BY <1>2, <2>5 DEF IsKept
<1> QED BY <1>3, <1>4

\* What a list kept of the first n has to be.
KeptWell(list, gone, kept, n) ==
    /\ kept \in Seq(Joins)
    /\ \A i, k \in DOMAIN kept : kept[i] = kept[k] => i = k
    /\ \A j \in Joins :
          Listens(kept, j) <=> ~Listens(gone, j) /\ \E i \in 1 .. n : list[i] = j

LEMMA KeptGrows ==
    ASSUME NEW list \in Seq(Joins), NEW gone, NEW s, NEW n \in 1 .. Len(list),
           \A i, k \in DOMAIN list : list[i] = list[k] => i = k,
           KeptWell(list, gone, s, n - 1)
    PROVE  KeptWell(list, gone,
                    IF Listens(gone, list[n]) THEN s ELSE Append(s, list[n]), n)
<1>1. /\ n \in Nat /\ n # 0 /\ DOMAIN list = 1 .. Len(list) /\ Len(list) \in Nat
      /\ list[n] \in Joins
      /\ 1 .. n = (1 .. (n - 1)) \cup {n} /\ 1 .. n \subseteq DOMAIN list
  OBVIOUS
<1>2. CASE Listens(gone, list[n])
  BY <1>1, <1>2 DEF KeptWell
<1>3. CASE ~Listens(gone, list[n])
  <2>1. PICK v : v = list[n]
    OBVIOUS
  <2>2. PICK t : t = Append(s, v)
    OBVIOUS
  <2>3. /\ s \in Seq(Joins) /\ v \in Joins
        /\ \A i, k \in DOMAIN s : s[i] = s[k] => i = k
    BY <1>1, <2>1 DEF KeptWell
  <2>4. /\ t \in Seq(Joins) /\ DOMAIN t = 1 .. Len(s) + 1 /\ Len(s) \in Nat
        /\ DOMAIN s = 1 .. Len(s)
        /\ t[Len(s) + 1] = v /\ \A i \in 1 .. Len(s) : t[i] = s[i]
    BY <2>2, <2>3
  <2>5. \A i \in DOMAIN t : (i \in DOMAIN s /\ t[i] = s[i]) \/ (i = Len(s) + 1 /\ t[i] = v)
    BY <2>4
  <2>6. ~Listens(s, v)
    <3>1. ~ \E i \in 1 .. n - 1 : list[i] = v
      BY <1>1, <2>1
    <3> QED BY <2>3, <3>1 DEF KeptWell
  <2>7. \A i, k \in DOMAIN t : t[i] = t[k] => i = k
    BY <2>3, <2>5, <2>6 DEF Listens
  <2>8. \A j : Listens(t, j) <=> Listens(s, j) \/ j = v
    <3>1. ASSUME NEW j, Listens(s, j) PROVE Listens(t, j)
      BY <2>4, <3>1 DEF Listens
    <3>2. Listens(t, v)
      BY <2>4 DEF Listens
    <3>3. ASSUME NEW j, Listens(t, j) PROVE Listens(s, j) \/ j = v
      BY <2>5, <3>3 DEF Listens
    <3> QED BY <3>1, <3>2, <3>3
  <2>9. ASSUME NEW j \in Joins
        PROVE  Listens(t, j) <=> ~Listens(gone, j) /\ \E i \in 1 .. n : list[i] = j
    BY <1>1, <1>3, <2>1, <2>8 DEF KeptWell
  <2> QED BY <1>3, <2>1, <2>2, <2>4, <2>7, <2>9 DEF KeptWell
<1> QED BY <1>2, <1>3

\* errorCallback keeps the join listeners of the promises that are not rejected,
\* each of them once.
LEMMA KeptAreOthers ==
    ASSUME ListenersOnce, NEW rejected
    PROVE  KeptWell(joinList, rejected, JoinListWithout(rejected), Len(joinList))
<1>1. /\ joinList \in Seq(Joins) /\ Len(joinList) \in Nat
      /\ \A i, k \in DOMAIN joinList : joinList[i] = joinList[k] => i = k
  BY DEF ListenersOnce
<1> DEFINE kept == CHOOSE f : IsKept(joinList, rejected, f, Len(joinList))
<1>2. JoinListWithout(rejected) = kept[Len(joinList)]
  BY DEF JoinListWithout, IsKept, KeptStep
<1>3. IsKept(joinList, rejected, kept, Len(joinList))
  BY <1>1, KeptExists
<1> HIDE DEF kept
<1>4. \A n \in 0 .. Len(joinList) : kept[n] = KeptStep(joinList, rejected, kept, n)
  BY <1>3 DEF IsKept
<1> DEFINE Bad == {n \in 0 .. Len(joinList) : ~KeptWell(joinList, rejected, kept[n], n)}
<1>5. ASSUME Bad # {} PROVE FALSE
  <2>1. PICK n \in Bad : \A m \in Bad : n <= m
    <3>1. Bad \subseteq Nat
      OBVIOUS
    <3> HIDE DEF Bad
    <3> QED BY <1>5, <3>1, LeastNat, Zenon
  <2>2. n \in 0 .. Len(joinList) /\ ~KeptWell(joinList, rejected, kept[n], n)
    OBVIOUS
  <2>3. CASE n = 0
    <3>1. kept[n] = <<>>
      BY <1>1, <1>4, <2>3 DEF KeptStep
    <3>2. <<>> \in Seq(Joins) /\ DOMAIN <<>> = {} /\ 1 .. 0 = {}
      OBVIOUS
    <3>3. KeptWell(joinList, rejected, <<>>, 0)
      BY <3>2 DEF KeptWell, Listens
    <3> QED BY <2>2, <2>3, <3>1, <3>3
  <2>4. CASE n # 0
    <3>1. n \in 1 .. Len(joinList) /\ n - 1 \in 0 .. Len(joinList) /\ n - 1 \notin Bad
      BY <1>1, <2>1, <2>2, <2>4
    <3>2. KeptWell(joinList, rejected, kept[n - 1], n - 1)
      BY <3>1
    <3>3. kept[n] = IF Listens(rejected, joinList[n]) THEN kept[n - 1]
                    ELSE Append(kept[n - 1], joinList[n])
      BY <1>4, <2>2, <2>4 DEF KeptStep
    <3> QED BY <1>1, <2>2, <3>1, <3>2, <3>3, KeptGrows
  <2> QED BY <2>3, <2>4
<1>6. Len(joinList) \in 0 .. Len(joinList)
  BY <1>1
<1> QED BY <1>2, <1>5, <1>6

\* Every listener of a list is either called or skipped; one that listens once, not both.
LEMMA CalledOrSkipped ==
    ASSUME NEW list \in Seq(Joins)
    PROVE  /\ Skipped(list) \in Seq(Joins)
           /\ \A j : Listens(list, j) <=> Listens(Called(list), j) \/ Listens(Skipped(list), j)
           /\ (\A i, k \in DOMAIN list : list[i] = list[k] => i = k) =>
                 /\ \A j : ~(Listens(Called(list), j) /\ Listens(Skipped(list), j))
                 /\ \A i, k \in DOMAIN Skipped(list) :
                       Skipped(list)[i] = Skipped(list)[k] => i = k
<1>1. /\ Len(list) \in Nat /\ DOMAIN list = 1 .. Len(list)
      /\ \A i \in DOMAIN list : list[i] \in Joins
  OBVIOUS
<1>2. /\ DOMAIN Skipped(list) = 1 .. Len(list) \div 2
      /\ \A i \in DOMAIN Skipped(list) :
            i \in Nat /\ 2 * i \in DOMAIN list /\ Skipped(list)[i] = list[2 * i]
  BY <1>1 DEF Skipped
<1>3. /\ DOMAIN Called(list) = 1 .. (Len(list) + 1) \div 2
      /\ \A i \in DOMAIN Called(list) :
            i \in Nat /\ 2 * i - 1 \in DOMAIN list /\ Called(list)[i] = list[2 * i - 1]
  BY <1>1 DEF Called
<1>4. Skipped(list) \in Seq(Joins)
  <2>1. Len(list) \div 2 \in Nat
    BY <1>1
  <2>2. \A i \in 1 .. Len(list) \div 2 : list[2 * i] \in Joins
    BY <1>1, <1>2
  <2> QED BY <2>1, <2>2 DEF Skipped
<1>5. ASSUME NEW j, Listens(list, j)
      PROVE  Listens(Called(list), j) \/ Listens(Skipped(list), j)
  <2>1. PICK i \in DOMAIN list : list[i] = j
    BY <1>5 DEF Listens
  <2>2. PICK h \in Nat : i = 2 * h \/ i = 2 * h + 1
    <3>1. i \div 2 \in Nat /\ (i = 2 * (i \div 2) \/ i = 2 * (i \div 2) + 1)
      BY <1>1
    <3> QED BY <3>1
  <2>3. CASE i = 2 * h
    <3>1. h \in DOMAIN Skipped(list)
      BY <1>1, <1>2, <2>3
    <3> QED BY <1>2, <2>1, <2>3, <3>1 DEF Listens
  <2>4. CASE i = 2 * h + 1
    <3>1. h + 1 \in DOMAIN Called(list) /\ 2 * (h + 1) - 1 = i
      BY <1>1, <1>3, <2>4
    <3> QED BY <1>3, <2>1, <3>1 DEF Listens
  <2> QED BY <2>2, <2>3, <2>4
<1>6. ASSUME NEW j, Listens(Called(list), j) \/ Listens(Skipped(list), j)
      PROVE  Listens(list, j)
  BY <1>2, <1>3, <1>6 DEF Listens
<1>7. ASSUME \A i, k \in DOMAIN list : list[i] = list[k] => i = k
      PROVE  /\ \A j : ~(Listens(Called(list), j) /\ Listens(Skipped(list), j))
             /\ \A i, k \in DOMAIN Skipped(list) :
                   Skipped(list)[i] = Skipped(list)[k] => i = k
  <2>1. ASSUME NEW i \in DOMAIN Skipped(list), NEW k \in DOMAIN Skipped(list),
               Skipped(list)[i] = Skipped(list)[k]
        PROVE  i = k
    <3>1. 2 * i = 2 * k
      BY <1>2, <1>7, <2>1
    <3> QED BY <1>2, <3>1
  <2>2. ASSUME NEW i \in DOMAIN Called(list), NEW k \in DOMAIN Skipped(list),
               Called(list)[i] = Skipped(list)[k]
        PROVE  FALSE
    <3>1. 2 * i - 1 = 2 * k
      BY <1>2, <1>3, <1>7, <2>2
    <3> QED BY <1>2, <1>3, <3>1
  <2> QED BY <2>1, <2>2 DEF Listens
<1> QED BY <1>4, <1>5, <1>6, <1>7

LEMMA JoinListens ==
    ASSUME ListInv, NEW p \in Joins, Join(p) PROVE ListInv'
<1>1. PICK s : s = joinList
  OBVIOUS
<1>2. PICK e : e = errorList
  OBVIOUS
<1>3. s \in Seq(Joins) /\ e \in Seq(Joins) /\ joinList' = Append(s, p) /\ errorList' = Append(e, p)
  BY <1>1, <1>2 DEF ListInv, ListenersOnce, Join
<1>4. /\ Append(s, p) \in Seq(Joins) /\ Append(e, p) \in Seq(Joins)
      /\ \A j : Listens(Append(s, p), j) <=> Listens(s, j) \/ j = p
      /\ \A j : Listens(Append(e, p), j) <=> Listens(e, j) \/ j = p
      /\ \A i \in DOMAIN Append(s, p) :
            \/ i \in DOMAIN s /\ Append(s, p)[i] = s[i]
            \/ i = Len(s) + 1 /\ Append(s, p)[i] = p
  <2>1. ASSUME NEW t \in Seq(Joins)
        PROVE  /\ Append(t, p) \in Seq(Joins)
               /\ \A j : Listens(Append(t, p), j) <=> Listens(t, j) \/ j = p
               /\ \A i \in DOMAIN Append(t, p) :
                     \/ i \in DOMAIN t /\ Append(t, p)[i] = t[i]
                     \/ i = Len(t) + 1 /\ Append(t, p)[i] = p
    <3>1. PICK u : u = Append(t, p)
      OBVIOUS
    <3>2. /\ u \in Seq(Joins) /\ DOMAIN u = 1 .. Len(t) + 1 /\ Len(t) \in Nat
          /\ DOMAIN t = 1 .. Len(t)
          /\ u[Len(t) + 1] = p /\ \A i \in 1 .. Len(t) : u[i] = t[i]
      BY <3>1
    <3>3. \A i \in DOMAIN u : (i \in DOMAIN t /\ u[i] = t[i]) \/ (i = Len(t) + 1 /\ u[i] = p)
      BY <3>2
    <3>4. \A j : Listens(u, j) <=> Listens(t, j) \/ j = p
      <4>1. ASSUME NEW j, Listens(t, j) PROVE Listens(u, j)
        BY <3>2, <4>1 DEF Listens
      <4>2. Listens(u, p)
        BY <3>2 DEF Listens
      <4>3. ASSUME NEW j, Listens(u, j) PROVE Listens(t, j) \/ j = p
        BY <3>3, <4>3 DEF Listens
      <4> QED BY <4>1, <4>2, <4>3
    <3> QED BY <3>1, <3>2, <3>3, <3>4
  <2> QED BY <1>3, <2>1
<1>5. /\ promise[p] = "none" /\ promise' = [promise EXCEPT ![p] = "pending"]
      /\ promise \in [Joins -> {"none", "pending", "resolved", "rejected"}]
      /\ \A j \in Joins : promise'[j] = IF j = p THEN "pending" ELSE promise[j]
  BY DEF ListInv, ListenersOnce, Join
<1>9. muted' = muted
  BY DEF Join
<1>6. ~Listens(s, p)
  BY <1>1, <1>5 DEF ListInv, PendingListens
<1>7. ListenersOnce'
  <2>1. \A i, k \in DOMAIN Append(s, p) : Append(s, p)[i] = Append(s, p)[k] => i = k
    BY <1>1, <1>4, <1>6 DEF Listens, ListInv, ListenersOnce
  <2>2. promise' \in [Joins -> {"none", "pending", "resolved", "rejected"}]
    BY <1>5
  <2> QED BY <1>3, <1>4, <1>9, <2>1, <2>2 DEF ListInv, ListenersOnce
<1>8. PendingListens'
  BY <1>1, <1>2, <1>3, <1>4, <1>5, <1>9 DEF ListInv, PendingListens
<1> QED BY <1>7, <1>8 DEF ListInv

\* Which promises are pending after some have settled.
LEMMA Settled ==
    ASSUME ListenersOnce, NEW list, NEW r \in {"resolved", "rejected"}, Settle(list, r)
    PROVE  /\ promise' \in [Joins -> {"none", "pending", "resolved", "rejected"}]
           /\ \A j \in Joins :
                 /\ promise'[j] = "pending" <=> promise[j] = "pending" /\ ~Listens(list, j)
                 /\ promise'[j] = "pending" =>
                       /\ j \in muted.join => j \in muted'.join
                       /\ j \in muted.error => j \in muted'.error
           /\ muted' \in [join : SUBSET Joins, error : SUBSET Joins]
<1>1. promise' = [j \in Joins |-> IF j \in Waiting(list) THEN r ELSE promise[j]]
  BY DEF Settle
<1>2. \A j \in Joins : j \in Waiting(list) <=> promise[j] = "pending" /\ Listens(list, j)
  BY DEF Waiting
<1>3. /\ muted'.join = muted.join \ Waiting(list)
      /\ muted'.error = muted.error \ Waiting(list)
      /\ muted' \in [join : SUBSET Joins, error : SUBSET Joins]
  BY DEF Settle, ListenersOnce
<1> HIDE DEF Waiting
<1> QED BY <1>1, <1>2, <1>3 DEF ListenersOnce

LEMMA EmitListens ==
    ASSUME ListInv, EmitJoin \/ EmitError PROVE ListInv'
<1>1. ListenersOnce /\ PendingListens /\ joinList \in Seq(Joins) /\ errorList \in Seq(Joins)
  BY DEF ListInv, ListenersOnce
<1>2. CASE EmitJoin
  <2>1. /\ Settle(Called(joinList), "resolved")
        /\ joinList' = Skipped(joinList) /\ errorList' = errorList
    BY <1>2 DEF EmitJoin
  <2>2. /\ promise' \in [Joins -> {"none", "pending", "resolved", "rejected"}]
        /\ \A j \in Joins :
              /\ promise'[j] = "pending" <=>
                    promise[j] = "pending" /\ ~Listens(Called(joinList), j)
              /\ promise'[j] = "pending" =>
                    /\ j \in muted.join => j \in muted'.join
                    /\ j \in muted.error => j \in muted'.error
        /\ muted' \in [join : SUBSET Joins, error : SUBSET Joins]
    BY <1>1, <2>1, Settled
  <2>3. /\ Skipped(joinList) \in Seq(Joins)
        /\ \A j : Listens(joinList, j) <=>
              Listens(Called(joinList), j) \/ Listens(Skipped(joinList), j)
        /\ \A j : ~(Listens(Called(joinList), j) /\ Listens(Skipped(joinList), j))
        /\ \A i, k \in DOMAIN Skipped(joinList) :
              Skipped(joinList)[i] = Skipped(joinList)[k] => i = k
    BY <1>1, CalledOrSkipped DEF ListenersOnce
  <2>4. ListenersOnce'
    BY <1>1, <2>1, <2>2, <2>3 DEF ListenersOnce
  <2>5. PendingListens'
    BY <1>1, <2>1, <2>2, <2>3 DEF PendingListens
  <2> QED BY <2>4, <2>5 DEF ListInv
<1>3. CASE EmitError
  <2>1. PICK rejected : rejected = Called(errorList)
    OBVIOUS
  <2>2. /\ Settle(rejected, "rejected")
        /\ joinList' = JoinListWithout(rejected) /\ errorList' = Skipped(errorList)
    BY <1>3, <2>1 DEF EmitError
  <2>3. /\ promise' \in [Joins -> {"none", "pending", "resolved", "rejected"}]
        /\ \A j \in Joins :
              /\ promise'[j] = "pending" <=> promise[j] = "pending" /\ ~Listens(rejected, j)
              /\ promise'[j] = "pending" =>
                    /\ j \in muted.join => j \in muted'.join
                    /\ j \in muted.error => j \in muted'.error
        /\ muted' \in [join : SUBSET Joins, error : SUBSET Joins]
    BY <1>1, <2>2, Settled
  <2>4. KeptWell(joinList, rejected, joinList', Len(joinList))
    BY <1>1, <2>2, KeptAreOthers
  <2>5. \A j : Listens(joinList, j) <=> \E i \in 1 .. Len(joinList) : joinList[i] = j
    BY <1>1 DEF Listens
  <2>6. /\ Skipped(errorList) \in Seq(Joins)
        /\ \A j : Listens(errorList, j) <=> Listens(rejected, j) \/ Listens(Skipped(errorList), j)
    BY <1>1, <2>1, CalledOrSkipped
  <2>7. ListenersOnce'
    BY <2>2, <2>3, <2>4, <2>6 DEF ListenersOnce, KeptWell
  <2>8. PendingListens'
    BY <1>1, <2>2, <2>3, <2>4, <2>5, <2>6 DEF PendingListens, KeptWell
  <2> QED BY <2>7, <2>8 DEF ListInv
<1> QED BY <1>2, <1>3

\* An off without a callback: whose listener it deletes is remembered.
LEMMA OffListens ==
    ASSUME ListInv, OffAllJoin \/ OffAllError PROVE ListInv'
<1>1. ListenersOnce /\ PendingListens /\ muted \in [join : SUBSET Joins, error : SUBSET Joins]
  BY DEF ListInv, ListenersOnce
<1>2. <<>> \in Seq(Joins) /\ DOMAIN <<>> = {} /\ \A j : ~Listens(<<>>, j)
  BY DEF Listens
<1>3. CASE OffAllJoin
  <2>1. /\ joinList' = <<>> /\ errorList' = errorList /\ promise' = promise
        /\ muted' = [muted EXCEPT !.join = muted.join \cup Waiting(joinList)]
    BY <1>3 DEF OffAllJoin
  <2>2. /\ muted'.join = muted.join \cup Waiting(joinList) /\ muted'.error = muted.error
        /\ muted' \in [join : SUBSET Joins, error : SUBSET Joins]
    BY <1>1, <2>1 DEF Waiting
  <2>3. ListenersOnce'
    BY <1>1, <1>2, <2>1, <2>2 DEF ListenersOnce
  <2>4. PendingListens'
    BY <1>1, <1>2, <2>1, <2>2 DEF PendingListens, Waiting
  <2> QED BY <2>3, <2>4 DEF ListInv
<1>4. CASE OffAllError
  <2>1. /\ errorList' = <<>> /\ joinList' = joinList /\ promise' = promise
        /\ muted' = [muted EXCEPT !.error = muted.error \cup Waiting(errorList)]
    BY <1>4 DEF OffAllError
  <2>2. /\ muted'.error = muted.error \cup Waiting(errorList) /\ muted'.join = muted.join
        /\ muted' \in [join : SUBSET Joins, error : SUBSET Joins]
    BY <1>1, <2>1 DEF Waiting
  <2>3. ListenersOnce'
    BY <1>1, <1>2, <2>1, <2>2 DEF ListenersOnce
  <2>4. PendingListens'
    BY <1>1, <1>2, <2>1, <2>2 DEF PendingListens, Waiting
  <2> QED BY <2>3, <2>4 DEF ListInv
<1> QED BY <1>3, <1>4

LEMMA ListStep == ListInv /\ [Next]_vars => ListInv'
<1> SUFFICES ASSUME ListInv, [Next]_vars PROVE ListInv'
  OBVIOUS
<1>1. CASE UNCHANGED <<joinList, errorList, promise, muted>>
  BY <1>1 DEF ListInv, ListenersOnce, PendingListens, Listens
<1>2. \/ UNCHANGED <<joinList, errorList, promise, muted>>
      \/ \E p \in Joins : Join(p)
      \/ EmitJoin \/ EmitError \/ OffAllJoin \/ OffAllError
  BY DEF Next, Application, WebSocketEvent, Server, vars, channel, TimerFires, Opens, Breaks,
         Closes, Receive, Disconnect, Leave, Emit, Serve, Broadcast
<1> QED BY <1>1, <1>2, JoinListens, EmitListens, OffListens

LEMMA ListInit == Init => ListInv
<1> SUFFICES ASSUME Init PROVE ListInv
  OBVIOUS
<1>1. /\ joinList = <<>> /\ errorList = <<>> /\ promise = [j \in Joins |-> "none"]
      /\ muted = [join |-> {}, error |-> {}]
  BY DEF Init
<1>2. <<>> \in Seq(Joins) /\ DOMAIN <<>> = {}
  OBVIOUS
<1> QED BY <1>1, <1>2 DEF ListInv, ListenersOnce, PendingListens, Listens

\* The inductive invariant holds throughout (polyglot.ts:18-228).
THEOREM Invariance == Spec => []IInv
  BY InitInv, NextStep, PTL DEF Spec

\* Whatever the order of timeouts, close events and calls of disconnect, there is one
\* connection or one timer, and a disconnect that finds the client waiting is final
\* (polyglot.ts:37-84, 135-143).
THEOREM OneConnectionOnly == Spec => []OneConnection
<1>1. IInv => OneConnection
  BY DEF IInv
<1> QED BY <1>1, Invariance, PTL

\* For any number of joins and any bound on the messages in transit, no join is
\* reported done before the server has accepted one (polyglot.ts:89-94, 172-197,
\* 219-223).
THEOREM NoJoinUnaccepted == Spec => []JoinedAfterAccepted
<1>1. IInv => JoinedAfterAccepted
  BY DEF IInv, NothingAccepted, JoinedAfterAccepted
<1> QED BY <1>1, Invariance, PTL

\* For any number of joins and any order of replies, no promise is lost, and none is
\* settled twice, by listeners that leave the list while it is walked: who listens for
\* `join' is pending, and who is pending still listens for either outcome but those
\* whose listeners the application has deleted (polyglot.ts:172-191, 207-217, 225-228).
THEOREM PendingAreHeard == Spec => []PendingListens
<1>1. ListInv => PendingListens
  BY DEF ListInv
<1> QED BY <1>1, ListInit, ListStep, PTL DEF Spec
=============================================================================
