------------------------ MODULE WebsocketProxyProofs -------------------------
(***************************************************************************)
(* Proofs about WebsocketProxy, for any set of connections and events and  *)
(* any capacity of the channels: the types, the hub's book-keeping, and    *)
(* the order in which a client is written events.                          *)
(***************************************************************************)
EXTENDS WebsocketProxy, SequenceTheorems, TLAPS

\* Only a registered client has pumps.
PumpsOfRegistered == \A c \in Clients : reader[c] # "off" => handler[c] = "registered"

\* What a client has been written and will be: the order of NeverBackwards needs
\* that lastEventNum bounds it.
Stream(c) == received[c] \o send[c]

BelowLast == \A c \in Clients : \A i \in 1 .. Len(Stream(c)) : Stream(c)[i] <= last[c]

IInv == TypeOK /\ HeldWhileServed /\ PumpsOfRegistered /\ BelowLast /\ NeverBackwards

-----------------------------------------------------------------------------
(* Types.                                                                  *)

LEMMA NumbersAreNat == Numbers \subseteq Nat /\ Numbers \cup {0} \subseteq Nat
  BY ProxyAssumption DEF ProxyAssumption

LEMMA AppendedMessages ==
    ASSUME NEW s \in Messages, NEW n \in Numbers
    PROVE  Append(s, n) \in Messages /\ Len(s) \in Nat /\ Len(Append(s, n)) = Len(s) + 1
  BY DEF Messages

LEMMA TakenMessages ==
    ASSUME NEW s \in Messages, s # <<>>
    PROVE  /\ Head(s) \in Numbers /\ Tail(s) \in Messages /\ Len(Tail(s)) = Len(s) - 1
           /\ Last(s) \in Numbers /\ Front(s) \in Messages /\ Len(s) \in Nat
  BY DEF Messages, Front, Last

LEMMA ReversedMessages == ASSUME NEW s \in Messages PROVE Reverse(s) \in Messages
<1>1. \A i \in 1 .. Len(s) : (Len(s) - i) + 1 \in 1 .. Len(s)
  BY DEF Messages
<1> QED BY <1>1 DEF Reverse, Messages

LEMMA TypeInit == Init => TypeOK
  BY ProxyAssumption DEF ProxyAssumption, Init, TypeOK, Messages

LEMMA PublishType == ASSUME history \in Messages, given \subseteq Numbers,
                            NEW n \in Numbers, Publish(n)
                     PROVE  history' \in Messages /\ given' \subseteq Numbers
  BY AppendedMessages DEF Publish

LEMMA ForgetType == ASSUME history \in Messages, Forget
                    PROVE  history' \in Messages /\ given' = given
  BY TakenMessages DEF Forget

LEMMA TypeStep == TypeOK /\ [Next]_vars => TypeOK'
<1> SUFFICES ASSUME TypeOK, [Next]_vars PROVE TypeOK'
  OBVIOUS
<1> USE ProxyAssumption DEF ProxyAssumption, TypeOK, gateway, pumps, hub, poller
<1>1. CASE PublishElsewhere \/ Forget
  <2>1. history' \in Messages /\ given' \subseteq Numbers
    BY <1>1, PublishType, ForgetType DEF PublishElsewhere
  <2>2. UNCHANGED <<alive, handler, hub, pumps, send, received, overflowed, poller>>
    BY <1>1 DEF PublishElsewhere, Forget
  <2> QED BY <2>1, <2>2
<1>2. ASSUME NEW c \in Clients, Connect(c) PROVE TypeOK'
  BY <1>2 DEF Connect, Upgrade, Register, StartPumps
<1>3. ASSUME NEW c \in Clients, ReadMessage(c) \/ PublishEnds(c) PROVE TypeOK'
  <2>1. history' \in Messages /\ given' \subseteq Numbers
    BY <1>3, PublishType DEF ReadMessage, PublishEnds
  <2>2. /\ reader' \in [Clients -> {"off", "reading", "publishing", "leaving", "closing", "ended"}]
        /\ UNCHANGED <<alive, handler, hub, open, writer, send, received, overflowed, poller>>
    BY <1>3 DEF ReadMessage, PublishEnds
  <2> QED BY <2>1, <2>2
<1>4. ASSUME NEW c \in Clients, Leave(c) PROVE TypeOK'
  BY <1>4 DEF Leave, ReadFails, Unregister, ReaderCloses
<1>5. ASSUME NEW c \in Clients, WriteMessage(c) PROVE TypeOK'
  <2>1. /\ Head(send[c]) \in Numbers /\ Tail(send[c]) \in Messages
        /\ Len(Tail(send[c])) <= SendSize
    BY <1>5, TakenMessages DEF WriteMessage
  <2>2. /\ send' \in [Clients -> Messages]
        /\ \A d \in Clients : Len(send'[d]) <= SendSize
    BY <1>5, <2>1 DEF WriteMessage
  <2>3. received' \in [Clients -> Messages]
    <3>1. Append(received[c], Head(send[c])) \in Messages
      BY <2>1, AppendedMessages
    <3>2. \/ received' = received
          \/ received' = [received EXCEPT ![c] = Append(received[c], Head(send[c]))]
      BY <1>5 DEF WriteMessage
    <3> QED BY <3>1, <3>2
  <2>4. writer' \in [Clients -> {"off", "running", "ended"}] /\ open' \subseteq Clients
    BY <1>5 DEF WriteMessage, WriterReturns
  <2>5. UNCHANGED <<alive, handler, hub, reader, overflowed, poller, gateway>>
    BY <1>5 DEF WriteMessage
  <2> QED BY <2>2, <2>3, <2>4, <2>5
<1>6. ASSUME NEW c \in Clients, WriteClose(c) \/ PingFails(c) PROVE TypeOK'
  BY <1>6 DEF WriteClose, PingFails, WriterReturns
<1>7. ASSUME NEW c \in Clients, Fetch(c) PROVE TypeOK'
  <2>1. Responses \subseteq Messages
    BY ReversedMessages DEF Responses
  <2> QED BY <1>7, <2>1 DEF Fetch
<1>8. ASSUME NEW c \in Clients, PassOver(c) PROVE TypeOK'
  <2>1. Front(todo[c]) \in Messages /\ Pending(c) \in Numbers
    BY <1>8, TakenMessages DEF PassOver, Pending
  <2> QED BY <1>8, <2>1 DEF PassOver
<1>9. ASSUME NEW c \in Clients, Offer(c) PROVE TypeOK'
  <2>1. Front(todo[c]) \in Messages /\ Pending(c) \in Numbers
    BY <1>9, TakenMessages DEF Offer, Pending
  <2>2. HasRoom(c) => Append(send[c], Pending(c)) \in Messages
                      /\ Len(Append(send[c], Pending(c))) <= SendSize
    <3>1. send[c] \in Messages /\ SendSize \in Nat
      OBVIOUS
    <3>2. /\ Append(send[c], Pending(c)) \in Messages /\ Len(send[c]) \in Nat
          /\ Len(Append(send[c], Pending(c))) = Len(send[c]) + 1
      BY <2>1, <3>1, AppendedMessages
    <3> QED BY <3>1, <3>2 DEF HasRoom
  <2>3. /\ send' \in [Clients -> Messages]
        /\ \A d \in Clients : Len(send'[d]) <= SendSize
    <3>1. \/ send' = send
          \/ HasRoom(c) /\ send' = [send EXCEPT ![c] = Append(send[c], Pending(c))]
      BY <1>9 DEF Offer
    <3>2. CASE send' = send
      BY <3>2
    <3>3. CASE HasRoom(c) /\ send' = [send EXCEPT ![c] = Append(send[c], Pending(c))]
      BY <2>2, <3>3
    <3> QED BY <3>1, <3>2, <3>3
  <2>4. todo' \in [Clients -> Messages] /\ last' \in [Clients -> Numbers \cup {0}]
    BY <1>9, <2>1 DEF Offer
  <2>5. overflowed' \subseteq Clients \X Numbers /\ alive' \in BOOLEAN
    <3>1. overflowed' \in {overflowed, overflowed \cup {<<c, Pending(c)>>}}
      BY <1>9 DEF Offer
    <3>2. alive' \in BOOLEAN
      BY <1>9 DEF Offer
    <3> QED BY <2>1, <3>1, <3>2
  <2>6. UNCHANGED <<handler, hub, pumps, received, polling, floor, missed, gateway>>
    BY <1>9 DEF Offer
  <2> QED BY <2>3, <2>4, <2>5, <2>6
<1>10. CASE UNCHANGED vars
  BY <1>10 DEF vars
<1> QED BY <1>1, <1>2, <1>3, <1>4, <1>5, <1>6, <1>7, <1>8, <1>9, <1>10 DEF Next, Write, Poll

-----------------------------------------------------------------------------
(* The hub.                                                                *)

Held == HeldWhileServed /\ PumpsOfRegistered

LEMMA HeldStep == TypeOK /\ Held /\ [Next]_vars => Held'
<1> SUFFICES ASSUME TypeOK, Held, [Next]_vars PROVE Held'
  OBVIOUS
<1> USE DEF TypeOK, Held, HeldWhileServed, PumpsOfRegistered, gateway, pumps, hub, poller
<1>1. CASE PublishElsewhere \/ Forget
  BY <1>1 DEF PublishElsewhere, Forget
<1>2. ASSUME NEW c \in Clients, Connect(c) PROVE Held'
  BY <1>2 DEF Connect, Upgrade, Register, StartPumps, MayStart
<1>3. ASSUME NEW c \in Clients, ReadMessage(c) \/ PublishEnds(c) PROVE Held'
  BY <1>3 DEF ReadMessage, PublishEnds
<1>4. ASSUME NEW c \in Clients, Leave(c) PROVE Held'
  BY <1>4 DEF Leave, ReadFails, Unregister, ReaderCloses
<1>5. ASSUME NEW c \in Clients, Write(c) \/ Poll(c) PROVE Held'
  BY <1>5 DEF Write, WriteMessage, WriteClose, PingFails, WriterReturns,
     Poll, Fetch, PassOver, Offer
<1>6. CASE UNCHANGED vars
  BY <1>6 DEF vars
<1> QED BY <1>1, <1>2, <1>3, <1>4, <1>5, <1>6 DEF Next

-----------------------------------------------------------------------------
(* The order of the events.                                                *)

Ordered == BelowLast /\ NeverBackwards

\* What was sent and is received next keeps its place.
LEMMA HandedOver ==
    ASSUME NEW r \in Seq(Numbers), NEW s \in Seq(Numbers), s # <<>>
    PROVE  Append(r, Head(s)) \o Tail(s) = r \o s
  OBVIOUS

\* What is dropped when a write fails takes nothing out of order.
LEMMA Dropped ==
    ASSUME NEW r \in Seq(Numbers), NEW s \in Seq(Numbers), s # <<>>
    PROVE  /\ Len(r \o Tail(s)) = Len(r \o s) - 1
           /\ \A i \in 1 .. Len(r \o Tail(s)) :
                 (r \o Tail(s))[i] = (r \o s)[IF i <= Len(r) THEN i ELSE i + 1]
  OBVIOUS

LEMMA Appended ==
    ASSUME NEW r \in Seq(Numbers), NEW s \in Seq(Numbers), NEW n \in Numbers
    PROVE  r \o Append(s, n) = Append(r \o s, n)
  OBVIOUS

LEMMA AppendedRises ==
    ASSUME NEW s \in Seq(Numbers), NEW n \in Numbers,
           \A i \in 1 .. Len(s) : s[i] < n,
           \A i, j \in 1 .. Len(s) : i < j => s[i] < s[j]
    PROVE  \A i, j \in 1 .. Len(Append(s, n)) : i < j => Append(s, n)[i] < Append(s, n)[j]
  OBVIOUS

\* The streams of the others stay, and their order with them.
LEMMA OneStream ==
    ASSUME TypeOK, TypeOK', Ordered, NEW c \in Clients,
           \A d \in Clients \ {c} : /\ received'[d] = received[d] /\ send'[d] = send[d]
                                    /\ last'[d] = last[d],
           \A i \in 1 .. Len(Stream(c)') : Stream(c)'[i] <= last'[c],
           \A i, j \in 1 .. Len(Stream(c)') : i < j => Stream(c)'[i] < Stream(c)'[j]
    PROVE  Ordered'
  BY DEF Ordered, BelowLast, NeverBackwards, Stream

LEMMA OrderedStep == TypeOK /\ Ordered /\ [Next]_vars => Ordered'
<1> SUFFICES ASSUME TypeOK, Ordered, [Next]_vars PROVE Ordered'
  OBVIOUS
<1> TypeOK'
  BY TypeStep
<1>1. ASSUME NEW c \in Clients, WriteMessage(c) PROVE Ordered'
  <2>0. /\ received[c] \in Seq(Numbers) /\ send[c] \in Seq(Numbers)
        /\ Stream(c) \in Seq(Numbers)
    BY DEF TypeOK, Stream, Messages
  <2>1. /\ send[c] # <<>> /\ send'[c] = Tail(send[c]) /\ last' = last
        /\ \A d \in Clients \ {c} : received'[d] = received[d] /\ send'[d] = send[d]
    BY <1>1 DEF WriteMessage, TypeOK, poller
  <2>2. CASE received'[c] = Append(received[c], Head(send[c]))
    <3>1. Stream(c)' = Stream(c)
      BY <2>0, <2>1, <2>2, HandedOver DEF Stream
    <3> QED BY <2>1, <3>1, OneStream DEF Ordered, BelowLast, NeverBackwards, Stream
  <2>3. CASE received'[c] = received[c]
    <3> DEFINE from(i) == IF i <= Len(received[c]) THEN i ELSE i + 1
    <3>1. /\ Len(Stream(c)') = Len(Stream(c)) - 1
          /\ \A i \in 1 .. Len(Stream(c)') : Stream(c)'[i] = Stream(c)[from(i)]
      <4>1. Stream(c)' = received[c] \o Tail(send[c])
        BY <2>1, <2>3 DEF Stream
      <4>2. Stream(c) = received[c] \o send[c]
        BY DEF Stream
      <4> HIDE DEF from
      <4>3. /\ Len(received[c] \o Tail(send[c])) = Len(received[c] \o send[c]) - 1
            /\ \A i \in 1 .. Len(received[c] \o Tail(send[c])) :
                  (received[c] \o Tail(send[c]))[i] = (received[c] \o send[c])[from(i)]
        BY <2>0, <2>1, Dropped DEF from
      <4> QED BY <4>1, <4>2, <4>3
    <3>2. Len(Stream(c)) \in Nat /\ Len(received[c]) \in Nat
      BY <2>0
    <3>3. \A i \in 1 .. Len(Stream(c)') : from(i) \in 1 .. Len(Stream(c))
      BY <3>1, <3>2
    <3>4. \A i, j \in 1 .. Len(Stream(c)') : i < j => from(i) < from(j)
      BY <3>1, <3>2
    <3> HIDE DEF from
    <3>5. \A i \in 1 .. Len(Stream(c)') : Stream(c)'[i] <= last'[c]
      BY <2>1, <3>1, <3>3 DEF Ordered, BelowLast
    <3>6. \A i, j \in 1 .. Len(Stream(c)') : i < j => Stream(c)'[i] < Stream(c)'[j]
      BY <3>1, <3>3, <3>4 DEF Ordered, NeverBackwards, Stream
    <3> QED BY <2>1, <3>5, <3>6, OneStream
  <2> QED BY <1>1, <2>2, <2>3 DEF WriteMessage, TypeOK
<1>2. ASSUME NEW c \in Clients, Offer(c) PROVE Ordered'
  <2> PICK n : n = Pending(c)
    OBVIOUS
  <2>1. /\ n \in Numbers /\ last[c] \in Numbers \cup {0} /\ last[c] < n
        /\ received[c] \in Seq(Numbers) /\ send[c] \in Seq(Numbers)
    <3>1. n \in Numbers
      BY <1>2, TakenMessages DEF Offer, Pending, TypeOK
    <3>2. last[c] \in Numbers \cup {0}
      BY DEF TypeOK
    <3>3. ~(n <= last[c])
      BY <1>2 DEF Offer, Seen
    <3>4. n \in Nat
      BY <3>1, NumbersAreNat
    <3>6. last[c] \in Nat
      BY <3>2, NumbersAreNat
    <3>5. received[c] \in Seq(Numbers) /\ send[c] \in Seq(Numbers)
      BY DEF TypeOK, Messages
    <3> QED BY <3>1, <3>2, <3>3, <3>4, <3>5, <3>6
  <2>2. last'[c] = n /\ received' = received
        /\ \A d \in Clients \ {c} : send'[d] = send[d] /\ last'[d] = last[d]
    BY <1>2 DEF Offer, TypeOK
  <2>3. send'[c] = send[c] \/ send'[c] = Append(send[c], n)
    BY <1>2 DEF Offer, TypeOK
  <2>4. Stream(c) \in Seq(Numbers)
    BY <2>1 DEF Stream
  <2>5. Stream(c)' = Stream(c) \/ Stream(c)' = Append(Stream(c), n)
    BY <2>1, <2>2, <2>3, Appended DEF Stream
  <2>6. \A i \in 1 .. Len(Stream(c)) : Stream(c)[i] \in Nat /\ Stream(c)[i] < n
    <3> SUFFICES ASSUME NEW i \in 1 .. Len(Stream(c))
                 PROVE  Stream(c)[i] \in Nat /\ Stream(c)[i] < n
      OBVIOUS
    <3>1. Stream(c)[i] \in Numbers
      BY <2>4
    <3>2. Stream(c)[i] <= last[c]
      BY DEF Ordered, BelowLast
    <3>3. Stream(c)[i] \in Nat /\ n \in Nat /\ last[c] \in Nat
      BY <3>1, <2>1, NumbersAreNat
    <3>4. last[c] < n
      BY <2>1
    <3> QED BY <3>2, <3>3, <3>4
  <2>7. \A i, j \in 1 .. Len(Stream(c)) : i < j => Stream(c)[i] < Stream(c)[j]
    BY DEF Ordered, NeverBackwards, Stream
  <2>8. \A i \in 1 .. Len(Stream(c)') : Stream(c)'[i] <= last'[c]
    BY <2>1, <2>2, <2>4, <2>5, <2>6, ProxyAssumption DEF ProxyAssumption
  <2>9. \A i, j \in 1 .. Len(Stream(c)') : i < j => Stream(c)'[i] < Stream(c)'[j]
    BY <2>1, <2>4, <2>5, <2>6, <2>7, AppendedRises
  <2> QED BY <2>2, <2>8, <2>9, OneStream
<1>3. CASE UNCHANGED <<received, send, last>>
  BY <1>3 DEF Ordered, BelowLast, NeverBackwards, Stream
<1>4. CASE PublishElsewhere \/ Forget \/ UNCHANGED vars
  BY <1>3, <1>4 DEF PublishElsewhere, Forget, vars, poller
<1>5. ASSUME NEW c \in Clients,
             Connect(c) \/ ReadMessage(c) \/ PublishEnds(c) \/ Leave(c) PROVE Ordered'
  BY <1>3, <1>5 DEF Connect, Upgrade, Register, StartPumps, ReadMessage, PublishEnds,
     Leave, ReadFails, Unregister, ReaderCloses, poller
<1>6. ASSUME NEW c \in Clients, WriteClose(c) \/ PingFails(c) \/ Fetch(c) \/ PassOver(c)
      PROVE Ordered'
  BY <1>3, <1>6 DEF WriteClose, PingFails, Fetch, PassOver, poller
<1> QED BY <1>1, <1>2, <1>4, <1>5, <1>6 DEF Next, Write, Poll

-----------------------------------------------------------------------------
\* The inductive invariant holds throughout (main.go:61-309).
THEOREM Invariance == Spec => []IInv
<1>1. Init => IInv
  BY TypeInit, ProxyAssumption DEF ProxyAssumption, Init, IInv, HeldWhileServed, PumpsOfRegistered, BelowLast, NeverBackwards,
     Stream
<1>2. IInv /\ [Next]_vars => IInv'
  BY TypeStep, HeldStep, OrderedStep DEF IInv, Held, Ordered
<1> QED BY <1>1, <1>2, PTL DEF Spec

\* For any connections and events every variable keeps its type; in particular no
\* channel ever holds more than its capacity (main.go:297-305).
THEOREM TypeCorrect == Spec => []TypeOK
<1>1. IInv => TypeOK
  BY DEF IInv
<1> QED BY <1>1, Invariance, PTL

\* For any number of connections, the hub holds a client exactly from its
\* registration until its reader leaves, and closes its channel only then
\* (main.go:72-83, 102-105, 249-253).
THEOREM HubHoldsTheServed == Spec => []HeldWhileServed
<1>1. IInv => HeldWhileServed
  BY DEF IInv
<1> QED BY <1>1, Invariance, PTL

\* For any events, capacity and order of the responses, a client is written
\* events with growing numbers only (main.go:286-290).
THEOREM Growing == Spec => []NeverBackwards
<1>1. IInv => NeverBackwards
  BY DEF IInv
<1> QED BY <1>1, Invariance, PTL
=============================================================================
