---------------------------- MODULE GatewayProofs ----------------------------
(***************************************************************************)
(* Proofs about Gateway, for any sets of nodes, subscribers and events: a  *)
(* subscriber is sent no event twice and sees no reordering across         *)
(* answers; an answered event has reached its audience; whoever joins and  *)
(* then reads the history misses nothing but by the storage; the whole     *)
(* implements Topic.                                                       *)
(***************************************************************************)
EXTENDS Gateway, SequenceTheorems, TLAPS

\* A broadcast comes to a subscriber once, and not before it has begun.
Unsent ==
    \A e \in Events, s \in Subscribers :
        s \in rest[e] \/ phase[e] \in {"new", "storing", "stored", "rejected"}
            => ~Reached(s, e)

\* What is worked on was admitted, and what is broadcast by HTTP was stored: Redis has
\* taken it or is late, and the table of its node had its row.
Kept ==
    \A e \in Events :
        /\ phase[e] \in {"storing", "stored"} => e \in Admissible
        /\ e \in HttpEvents /\ phase[e] \notin {"new", "rejected"} => e \in Admissible
        /\ e \in HttpEvents /\ (phase[e] = "stored" \/ Begun(e)) =>
              /\ e \in added \cup late
              /\ e \in Range(ets[at[e]]) \cup wiped

\* Answers are for good.
EarlierAnswered == \A e \in Events : earlier[e] \subseteq Answered

\* MembersReached, with what the broadcast still has to do.
AudienceServed ==
    \A e \in Events : \A s \in audience[e] :
        /\ member[s] = "joined"
        /\ Begun(e) /\ NodeOf[s] = at[e] => Reached(s, e) \/ s \in rest[e]

\* What a reading shows, or the storage accounts for its not showing.
Accounted(e, r) ==
    e \in r.shown \cup r.gone \cup r.late \/ r.from \in Nodes \ {at[e]}

\* NoGap, with what the broadcast still has to do.
ReadersServed ==
    \A s \in Subscribers, e \in HttpEvents :
        member[s] = "joined" /\ fetched[s] # Http /\ Begun(e) /\ at[e] = NodeOf[s] =>
            Reached(s, e) \/ s \in rest[e] \/ Accounted(e, fetched[s])

Book == Unsent /\ Kept /\ EarlierAnswered /\ AudienceServed /\ ReadersServed

IInv == TypeOK /\ Book /\ SentOnce /\ AnsweredOrder

-----------------------------------------------------------------------------
(* Sequences.                                                              *)

LEMMA Appended ==
    ASSUME NEW q \in Messages, NEW e \in Events
    PROVE  /\ Append(q, e) \in Messages
           /\ Range(Append(q, e)) = Range(q) \cup {e}
           /\ IsInjective(q) /\ e \notin Range(q) => IsInjective(Append(q, e))
<1>1. /\ Append(q, e) \in Messages
      /\ Len(q) \in Nat /\ DOMAIN q = 1 .. Len(q)
      /\ DOMAIN Append(q, e) = 1 .. Len(q) + 1
      /\ \A i \in 1 .. Len(q) : Append(q, e)[i] = q[i]
      /\ Append(q, e)[Len(q) + 1] = e
  BY DEF Messages
<1>2. Range(Append(q, e)) = Range(q) \cup {e}
  BY <1>1 DEF Range
<1>3. ASSUME IsInjective(q), e \notin Range(q) PROVE IsInjective(Append(q, e))
  BY <1>1, <1>3 DEF Range, IsInjective
<1> QED BY <1>1, <1>2, <1>3

\* What the stores hold: a row at the end, an event in front, or the first of them.
LEMMA StoredOne ==
    ASSUME NEW q \in Histories, NEW e \in Admissible
    PROVE  /\ Append(q, e) \in Histories /\ Range(Append(q, e)) = Range(q) \cup {e}
           /\ <<e>> \o q \in Histories /\ Range(q) \subseteq Admissible
<1>1. /\ Append(q, e) \in Histories
      /\ Len(q) \in Nat /\ DOMAIN q = 1 .. Len(q)
      /\ DOMAIN Append(q, e) = 1 .. Len(q) + 1
      /\ \A i \in 1 .. Len(q) : Append(q, e)[i] = q[i] /\ q[i] \in Admissible
      /\ Append(q, e)[Len(q) + 1] = e
      /\ <<e>> \o q \in Histories
  BY DEF Histories
<1> QED BY <1>1 DEF Range

LEMMA FirstOnes ==
    ASSUME NEW q \in Histories, NEW k \in 0 .. Len(q)
    PROVE  SubSeq(q, 1, k) \in Histories /\ Range(SubSeq(q, 1, k)) \subseteq Admissible
<1>1. SubSeq(q, 1, k) \in Histories
  BY DEF Histories
<1>2. \A i \in DOMAIN SubSeq(q, 1, k) : SubSeq(q, 1, k)[i] \in Admissible
  BY <1>1 DEF Histories
<1> QED BY <1>1, <1>2 DEF Range

LEMMA Concatenated ==
    ASSUME NEW p \in Messages, NEW q \in Messages
    PROVE  /\ p \o q \in Messages
           /\ \A e \in Events : p \o Append(q, e) = Append(p \o q, e)
           /\ p \o <<>> = p
           /\ q # <<>> => /\ Head(q) \in Events /\ Tail(q) \in Messages
                          /\ Append(p, Head(q)) \in Messages
                          /\ Append(p, Head(q)) \o Tail(q) = p \o q
<1>1. /\ p \o q \in Messages
      /\ p \o <<>> = p
  BY ConcatProperties, ConcatEmptySeq DEF Messages
<1>2. ASSUME NEW e \in Events PROVE p \o Append(q, e) = Append(p \o q, e)
  <2>1. <<e>> \in Seq(Events)
    OBVIOUS
  <2>2. Append(q, e) = q \o <<e>> /\ Append(p \o q, e) = (p \o q) \o <<e>>
    BY <1>1, AppendIsConcat DEF Messages
  <2>3. (p \o q) \o <<e>> = p \o (q \o <<e>>)
    BY <2>1, ConcatAssociative DEF Messages
  <2> QED BY <2>2, <2>3
<1>3. ASSUME q # <<>>
      PROVE  /\ Head(q) \in Events /\ Tail(q) \in Messages
             /\ Append(p, Head(q)) \in Messages
             /\ Append(p, Head(q)) \o Tail(q) = p \o q
  <2>1. Head(q) \in Events /\ Tail(q) \in Messages /\ Append(p, Head(q)) \in Messages
    BY <1>3 DEF Messages
  <2>2. q = <<Head(q)>> \o Tail(q)
    BY <1>3 DEF Messages
  <2>3. Append(p, Head(q)) = p \o <<Head(q)>>
    BY <2>1 DEF Messages
  <2>4. (p \o <<Head(q)>>) \o Tail(q) = p \o (<<Head(q)>> \o Tail(q))
    BY <2>1, ConcatAssociative DEF Messages
  <2> QED BY <2>1, <2>2, <2>3, <2>4
<1> QED BY <1>1, <1>2, <1>3

LEMMA Prefix ==
    ASSUME NEW p \in Messages, NEW q \in Messages
    PROVE  /\ DOMAIN p \subseteq DOMAIN (p \o q)
           /\ \A i \in DOMAIN p : (p \o q)[i] = p[i]
           /\ Range(p) \subseteq Range(p \o q)
           /\ IsInjective(p \o q) => IsInjective(p)
<1>1. DOMAIN p \subseteq DOMAIN (p \o q) /\ \A i \in DOMAIN p : (p \o q)[i] = p[i]
  BY DEF Messages
<1> QED BY <1>1 DEF Range, IsInjective

-----------------------------------------------------------------------------
(* Types.                                                                  *)

LEMMA InitInv == Init => IInv
<1> SUFFICES ASSUME Init PROVE IInv
  OBVIOUS
<1>1. \A e \in Events : e \in HttpEvents \/ e \in SocketEvents
  BY DEF Events
<1>2. ASSUME NEW s \in Subscribers PROVE Sent(s) = <<>>
  BY DEF Init, Sent
<1>3. \A s \in Subscribers, e \in Events : ~Reached(s, e)
  BY <1>2 DEF Reached, Range
<1>4. ASSUME NEW e \in Events PROVE at[e] \in Nodes
  <2>1. at[e] = (CHOOSE n \in Nodes : TRUE)
    BY DEF Init
  <2>2. (CHOOSE n \in Nodes : TRUE) \in Nodes
    BY GatewayAssumption DEF GatewayAssumption
  <2> QED BY <2>1, <2>2
<1>5. TypeOK
  BY <1>4 DEF Init, TypeOK, Messages, Histories
<1>6. Book
  BY <1>3 DEF Init, Book, Unsent, Kept, EarlierAnswered, AudienceServed, ReadersServed,
              Begun, Answered, Joined, Events
<1>7. SentOnce /\ AnsweredOrder
  BY <1>2 DEF SentOnce, AnsweredOrder, IsInjective
<1> QED BY <1>5, <1>6, <1>7 DEF IInv

LEMMA TypeStep == TypeOK /\ Kept /\ [Next]_vars => TypeOK'
<1> SUFFICES ASSUME TypeOK, Kept, [Next]_vars PROVE TypeOK'
  OBVIOUS
<1>0. \A s \in Subscribers : NodeOf[s] \in Nodes
  BY GatewayAssumption DEF GatewayAssumption
<1> USE DEF TypeOK, subscribers, publishers
<1>1. ASSUME NEW e \in Events, NEW n \in Nodes, Request(e, n) PROVE TypeOK'
  <2>1. e \notin SocketEvents /\ e \in Admissible
    BY <1>1, GatewayAssumption DEF Request, GatewayAssumption
  <2>2. /\ phase' \in [Events -> {"new", "storing", "stored", "broadcasting",
                                  "answered", "rejected", "aborted"}]
        /\ at' \in [Events -> Nodes] /\ earlier' \in [Events -> SUBSET Events]
        /\ UNCHANGED <<member, mailbox, pushed, fetched, by, rest, audience, storage, forward>>
    BY <1>1 DEF Request, Answered
  <2>3. \A f \in Events : f # e => phase'[f] = phase[f] /\ at'[f] = at[f]
    BY <1>1 DEF Request
  <2>4. rest[e] = {} /\ phase'[e] # "broadcasting"
    BY <1>1 DEF Request
  <2> QED BY <2>1, <2>2, <2>3, <2>4 DEF storage
<1>a. ASSUME NEW e \in Events, Refuse(e) PROVE TypeOK'
  <2>1. e \notin SocketEvents
    BY <1>a, GatewayAssumption DEF Refuse, GatewayAssumption
  <2> QED BY <1>a, <2>1 DEF Refuse, storage
<1>h. ASSUME NEW e \in Events, Store(e) PROVE e \in HttpEvents /\ e \in Admissible
  BY <1>h, GatewayAssumption DEF Store, Kept, GatewayAssumption
<1>2. ASSUME NEW e \in Events, Store(e) PROVE TypeOK'
  <2>1. Append(ets[at[e]], e) \in Histories
    BY <1>2, <1>h, StoredOne
  <2>2. ets' \in [Nodes -> Histories] /\ late' \subseteq Admissible
    BY <1>2, <1>h, <2>1 DEF Store
  <2> QED BY <1>2, <2>2 DEF Store
<1>b. ASSUME NEW e \in Events, Lpush(e) PROVE TypeOK'
  <2>1. e \in Admissible
    BY <1>b DEF Lpush, Kept, Events
  <2>2. <<e>> \o history \in Histories
    BY <2>1, StoredOne
  <2> QED BY <1>b, <2>1, <2>2 DEF Lpush
<1>c. ASSUME Forget PROVE TypeOK'
  <2>1. PICK k \in 0 .. Len(history) - 1 : history' = SubSeq(history, 1, k)
    BY <1>c DEF Forget
  <2>2. Len(history) \in Nat
    BY DEF Histories
  <2>3. history' \in Histories
    BY <2>1, <2>2, FirstOnes
  <2> QED BY <1>c, <2>3 DEF Forget
<1>d. ASSUME NEW n \in Nodes, Wipe(n) PROVE TypeOK'
  <2>1. Range(ets[n]) \subseteq Admissible /\ <<>> \in Histories
    <3>1. \A i \in DOMAIN ets[n] : ets[n][i] \in Admissible
      BY DEF Histories
    <3> QED BY <3>1 DEF Range, Histories
  <2>2. ets' \in [Nodes -> Histories] /\ wiped' \subseteq Admissible
    BY <1>d, <2>1 DEF Wipe
  <2> QED BY <1>d, <2>2 DEF Wipe
<1>3. ASSUME NEW e \in Events, Publish(e) PROVE TypeOK'
  <2>1. Recipients(at[e], Http) \subseteq Local(at[e]) /\ Joined \subseteq Subscribers
    BY DEF Recipients, Joined
  <2>2. \A f \in Events : rest'[f] \subseteq Local(at[f])
    BY <1>3, <2>1 DEF Publish, BeginBroadcast
  <2>3. e \in SocketEvents => by[e] # Http /\ at[e] = NodeOf[by[e]]
    BY <1>3 DEF Publish
  <2>4. /\ phase' \in [Events -> {"new", "storing", "stored", "broadcasting",
                                  "answered", "rejected", "aborted"}]
        /\ rest' \in [Events -> SUBSET Subscribers]
        /\ audience' \in [Events -> SUBSET Subscribers]
        /\ forward' \in [Events -> {"none", "running", "ended"}]
    BY <1>3, <2>1 DEF Publish, BeginBroadcast, Local
  <2> QED BY <1>3, <2>2, <2>3, <2>4 DEF Publish, BeginBroadcast, storage
<1>4. ASSUME NEW e \in Events, ForwardEnds(e) PROVE TypeOK'
  BY <1>4 DEF ForwardEnds, storage
<1>5. ASSUME NEW e \in Events, Answer(e) \/ Abort(e) PROVE TypeOK'
  BY <1>5 DEF Answer, Abort, storage
<1>6. ASSUME NEW e \in Events, NEW s \in Subscribers, HandleIn(e, s) PROVE TypeOK'
  <2>1. Recipients(NodeOf[s], s) \subseteq Local(NodeOf[s]) /\ Joined \subseteq Subscribers
    BY DEF Recipients, Joined
  <2>2. \A f \in Events : rest'[f] \subseteq Local(at'[f])
    BY <1>0, <1>6, <2>1 DEF HandleIn, BeginBroadcast
  <2>3. /\ phase' \in [Events -> {"new", "storing", "stored", "broadcasting",
                                  "answered", "rejected", "aborted"}]
        /\ audience' \in [Events -> SUBSET Subscribers]
        /\ earlier' \in [Events -> SUBSET Events]
        /\ at' \in [Events -> Nodes] /\ by' \in [Events -> Subscribers \cup {Http}]
    BY <1>0, <1>6, <2>1 DEF HandleIn, BeginBroadcast, Answered
  <2>4. s # Http
    BY GatewayAssumption DEF GatewayAssumption
  <2>5. rest' \in [Events -> SUBSET Subscribers]
    BY <1>6, <2>1 DEF HandleIn, BeginBroadcast, Local
  <2>6. \A f \in Events :
          /\ phase'[f] # "broadcasting" => rest'[f] = {}
          /\ f \in SocketEvents /\ phase'[f] # "new" =>
                by'[f] # Http /\ at'[f] = NodeOf[by'[f]]
    BY <1>6, <2>4 DEF HandleIn, BeginBroadcast
  <2>7. UNCHANGED <<subscribers, storage, forward>>
    BY <1>6 DEF HandleIn
  <2> QED BY <2>2, <2>3, <2>5, <2>6, <2>7 DEF storage
<1>7. ASSUME NEW e \in Events, NEW s \in Subscribers, Visit(e, s) PROVE TypeOK'
  <2>1. mailbox' \in [Subscribers -> Messages]
        /\ \A t \in Subscribers : member[t] # "joined" => mailbox'[t] = <<>>
    BY <1>7, Appended DEF Visit
  <2> QED BY <1>7, <2>1 DEF Visit, storage
<1>8. ASSUME NEW s \in Subscribers, Join(s) PROVE TypeOK'
  BY <1>8 DEF Join, storage
<1>e. ASSUME NEW s \in Subscribers, NEW b \in Nodes \cup {Redis}, FetchHistory(s, b) PROVE TypeOK'
  <2>1. Held(b) \in Histories /\ Taken(b) \subseteq Admissible
    <3>1. \A n \in Nodes : Range(ets[n]) \subseteq Admissible
      <4>1. \A n \in Nodes : \A i \in DOMAIN ets[n] : ets[n][i] \in Admissible
        BY DEF Histories
      <4> QED BY <4>1 DEF Range
    <3> QED BY <3>1 DEF Held, Taken
  <2>2. PICK k \in 0 .. Len(Held(b)) :
          fetched' = [fetched EXCEPT ![s] =
                         [from |-> b, shown |-> Range(SubSeq(Held(b), 1, k)),
                          gone |-> Taken(b) \ Range(SubSeq(Held(b), 1, k)),
                          late |-> IF b = Redis THEN late ELSE {}]]
    BY <1>e DEF FetchHistory
  <2>3. Range(SubSeq(Held(b), 1, k)) \subseteq Admissible
    BY <2>1, FirstOnes
  <2>4. fetched' \in [Subscribers -> Reading \cup {Http}]
    BY <2>1, <2>2, <2>3 DEF Reading
  <2>5. /\ member[s] = "joined"
        /\ \A t \in Subscribers : t # s => fetched'[t] = fetched[t]
        /\ UNCHANGED <<member, mailbox, pushed, publishers, storage, forward>>
    BY <1>e, <2>2 DEF FetchHistory
  <2> QED BY <2>4, <2>5 DEF storage
<1>9. ASSUME NEW s \in Subscribers, Leave(s) PROVE TypeOK'
  <2>1. <<>> \in Messages
    BY DEF Messages
  <2>2. /\ member' \in [Subscribers -> {"new", "joined", "left"}]
        /\ mailbox' \in [Subscribers -> Messages]
        /\ \A t \in Subscribers :
              /\ member'[t] # "joined" => mailbox'[t] = <<>>
              /\ member'[t] = "new" => member[t] = "new"
    BY <1>9, <2>1 DEF Leave
  <2>3. /\ phase' \in [Events -> {"new", "storing", "stored", "broadcasting",
                                  "answered", "rejected", "aborted"}]
        /\ audience' \in [Events -> SUBSET Subscribers]
        /\ \A f \in Events :
              /\ rest'[f] \subseteq rest[f]
              /\ phase'[f] # "broadcasting" => rest'[f] = {}
              /\ phase'[f] # "new" => phase[f] # "new"
    BY <1>9 DEF Leave
  <2> QED BY <1>9, <2>2, <2>3 DEF Leave, storage
<1>10. ASSUME NEW s \in Subscribers, HandleInfo(s) PROVE TypeOK'
  <2>1. /\ Tail(mailbox[s]) \in Messages /\ Append(pushed[s], Head(mailbox[s])) \in Messages
        /\ member[s] = "joined"
    BY <1>10, Concatenated DEF HandleInfo
  <2>2. /\ pushed' = [pushed EXCEPT ![s] = Append(pushed[s], Head(mailbox[s]))]
        /\ mailbox' = [mailbox EXCEPT ![s] = Tail(mailbox[s])]
        /\ UNCHANGED <<member, fetched, publishers, storage, forward>>
    BY <1>10 DEF HandleInfo
  <2> QED BY <2>1, <2>2 DEF storage
<1>11. CASE UNCHANGED vars
  BY <1>11 DEF vars, storage
<1> QED
  BY <1>1, <1>2, <1>3, <1>4, <1>5, <1>6, <1>7, <1>8, <1>9, <1>10, <1>11,
     <1>a, <1>b, <1>c, <1>d, <1>e DEF Next

-----------------------------------------------------------------------------
(* What a step does to what subscribers have been sent.                    *)

Still == \A s \in Subscribers : Sent(s)' = Sent(s)

LEMMA StillReached ==
    ASSUME Still
    PROVE  \A s \in Subscribers, e \in Events : Reached(s, e)' <=> Reached(s, e)
  BY DEF Still, Reached

LEMMA UnchangedSent == ASSUME UNCHANGED <<mailbox, pushed>> PROVE Still
  BY DEF Still, Sent

LEMMA InfoSent == ASSUME TypeOK, NEW s \in Subscribers, HandleInfo(s) PROVE Still
<1>1. /\ pushed' = [pushed EXCEPT ![s] = Append(pushed[s], Head(mailbox[s]))]
      /\ mailbox' = [mailbox EXCEPT ![s] = Tail(mailbox[s])]
      /\ mailbox[s] # <<>>
  BY DEF HandleInfo
<1>2. ASSUME NEW t \in Subscribers PROVE Sent(t)' = Sent(t)
  <2>1. CASE t = s
    <3>1. Sent(s)' = Append(pushed[s], Head(mailbox[s])) \o Tail(mailbox[s])
      BY <1>1 DEF Sent, TypeOK
    <3>2. Append(pushed[s], Head(mailbox[s])) \o Tail(mailbox[s]) = pushed[s] \o mailbox[s]
      BY <1>1, Concatenated DEF TypeOK
    <3> QED BY <2>1, <3>1, <3>2 DEF Sent
  <2>2. CASE t # s
    BY <1>1, <2>2 DEF Sent, TypeOK
  <2> QED BY <2>1, <2>2
<1> QED BY <1>2 DEF Still

LEMMA SentType == ASSUME TypeOK, NEW s \in Subscribers PROVE Sent(s) \in Messages
  BY Concatenated DEF TypeOK, Sent

LEMMA VisitSent ==
    ASSUME TypeOK, NEW e \in Events, NEW s \in Subscribers, Visit(e, s)
    PROVE  /\ \A t \in Subscribers \ {s} : Sent(t)' = Sent(t)
           /\ Sent(s)' = IF member[s] = "joined" THEN Append(Sent(s), e) ELSE Sent(s)
<1>1. mailbox' = IF member[s] = "joined"
                 THEN [mailbox EXCEPT ![s] = Append(mailbox[s], e)] ELSE mailbox
  BY DEF Visit
<1>2. pushed' = pushed
  BY DEF Visit
<1>3. \A t \in Subscribers \ {s} : Sent(t)' = Sent(t)
  BY <1>1, <1>2 DEF TypeOK, Sent
<1>4. CASE member[s] = "joined"
  <2>1. Sent(s)' = pushed[s] \o Append(mailbox[s], e)
    BY <1>1, <1>2, <1>4 DEF TypeOK, Sent
  <2>2. pushed[s] \o Append(mailbox[s], e) = Append(pushed[s] \o mailbox[s], e)
    BY Concatenated DEF TypeOK
  <2> QED BY <1>3, <1>4, <2>1, <2>2 DEF Sent
<1>5. CASE member[s] # "joined"
  BY <1>1, <1>2, <1>3, <1>5 DEF Sent
<1> QED BY <1>4, <1>5

LEMMA VisitReached ==
    ASSUME TypeOK, NEW e \in Events, NEW s \in Subscribers, Visit(e, s)
    PROVE  \A t \in Subscribers, f \in Events :
              Reached(t, f)' <=> \/ Reached(t, f)
                                 \/ t = s /\ f = e /\ member[s] = "joined"
<1> SUFFICES ASSUME NEW t \in Subscribers, NEW f \in Events
             PROVE  Reached(t, f)' <=> \/ Reached(t, f)
                                       \/ t = s /\ f = e /\ member[s] = "joined"
  OBVIOUS
<1>1. Range(Append(Sent(s), e)) = Range(Sent(s)) \cup {e}
  BY SentType, Appended
<1> QED BY <1>1, VisitSent DEF Reached

\* The mailbox of a channel process goes with it.
LEMMA LeaveSent ==
    ASSUME TypeOK, NEW s \in Subscribers, Leave(s)
    PROVE  /\ \A t \in Subscribers \ {s} : Sent(t)' = Sent(t)
           /\ Sent(s)' = pushed[s]
           /\ \A e \in Events : Reached(s, e)' => Reached(s, e)
<1>1. mailbox' = [mailbox EXCEPT ![s] = <<>>] /\ pushed' = pushed
  BY DEF Leave
<1>2. \A t \in Subscribers \ {s} : Sent(t)' = Sent(t)
  BY <1>1 DEF TypeOK, Sent
<1>3. Sent(s)' = pushed[s]
  <2>1. Sent(s)' = pushed[s] \o <<>>
    BY <1>1 DEF TypeOK, Sent
  <2> QED BY <2>1, Concatenated DEF TypeOK
<1>4. Range(pushed[s]) \subseteq Range(Sent(s))
  BY Prefix DEF TypeOK, Sent
<1> QED BY <1>2, <1>3, <1>4 DEF Reached

-----------------------------------------------------------------------------
(* The book-keeping.                                                       *)

\* A publisher's own steps that begin no broadcast.
Moves(e, n) == Request(e, n) \/ Refuse(e) \/ Store(e) \/ Answer(e) \/ Abort(e)

\* What the stores have taken they keep or have lost.
StillTaken ==
    /\ added \cup late \subseteq added' \cup late'
    /\ \A n \in Nodes : Range(ets[n]) \cup wiped \subseteq Range(ets'[n]) \cup wiped'

LEMMA PublisherBook ==
    ASSUME TypeOK, Book, NEW e \in Events, NEW n \in Nodes, Moves(e, n)
    PROVE  Book'
<1> USE DEF TypeOK, Book, subscribers, Moves
<1>0. \A s \in Subscribers, f \in Events : Reached(s, f)' <=> Reached(s, f)
  BY UnchangedSent, StillReached DEF Request, Refuse, Store, Answer, Abort
<1>1. /\ UNCHANGED <<member, fetched, audience>>
      /\ \A f \in Events \ {e} : /\ phase'[f] = phase[f] /\ at'[f] = at[f]
                                 /\ rest'[f] = rest[f] /\ earlier'[f] = earlier[f]
  BY DEF Request, Refuse, Store, Answer, Abort
<1>2. rest'[e] = {}
  BY DEF Request, Refuse, Store, Answer, Abort
<1>3. /\ phase'[e] \in {"new", "storing", "stored", "rejected"}
            => phase[e] \in {"new", "storing", "stored", "rejected"}
      /\ Begun(e)' => Begun(e) /\ rest[e] = {} /\ at'[e] = at[e]
      /\ phase'[e] = "storing" => e \in Admissible
      /\ phase'[e] = "stored" => phase[e] = "storing"
      /\ phase[e] # "answered"
  BY DEF Request, Refuse, Store, Answer, Abort, Begun
<1>4. Unsent'
  BY <1>0, <1>1, <1>2, <1>3 DEF Unsent
<1>5. Kept'
  <2>1. /\ StillTaken
        /\ phase'[e] = "stored" => e \in added' \cup late' /\ e \in Range(ets'[at[e]])
    <3>1. CASE Store(e)
      <4>1. e \in Admissible /\ at[e] \in Nodes
        BY <3>1 DEF Store, Kept
      <4>2. Range(Append(ets[at[e]], e)) = Range(ets[at[e]]) \cup {e}
        BY <4>1, StoredOne
      <4> QED BY <3>1, <4>1, <4>2 DEF Store, StillTaken
    <3>2. CASE ~Store(e)
      BY <3>2 DEF Request, Refuse, Answer, Abort, storage, StillTaken
    <3> QED BY <3>1, <3>2
  <2>2. /\ phase'[e] = "stored" => at'[e] = at[e]
        /\ phase'[e] \notin {"new", "rejected"} => phase[e] \notin {"new", "rejected"} \/ e \in Admissible
    BY DEF Request, Refuse, Store, Answer, Abort
  <2>3. \A f \in Events \ {e} :
           /\ f \in HttpEvents /\ (phase'[f] = "stored" \/ Begun(f)') =>
                 f \in added' \cup late' /\ f \in Range(ets'[at'[f]]) \cup wiped'
           /\ phase'[f] = phase[f]
    BY <1>1, <2>1 DEF Kept, Begun, StillTaken
  <2>4. e \in HttpEvents /\ (phase'[e] = "stored" \/ Begun(e)') =>
           e \in added' \cup late' /\ e \in Range(ets'[at'[e]]) \cup wiped'
    BY <1>3, <2>1, <2>2 DEF Kept, StillTaken
  <2>5. \A f \in Events :
           /\ phase'[f] \in {"storing", "stored"} => f \in Admissible
           /\ f \in HttpEvents /\ phase'[f] \notin {"new", "rejected"} => f \in Admissible
    BY <1>1, <1>3, <2>2 DEF Kept
  <2> QED BY <2>3, <2>4, <2>5 DEF Kept
<1>6. EarlierAnswered'
  <2>1. Answered \subseteq Answered'
    BY <1>1, <1>3 DEF Answered
  <2>2. earlier'[e] \in {earlier[e], Answered}
    BY DEF Request, Refuse, Store, Answer, Abort
  <2> QED BY <1>1, <2>1, <2>2 DEF EarlierAnswered
<1>7. AudienceServed'
  BY <1>0, <1>1, <1>3 DEF AudienceServed, Begun
<1>8. ReadersServed'
  BY <1>0, <1>1, <1>3 DEF ReadersServed, Accounted, Begun, Events
<1> QED BY <1>4, <1>5, <1>6, <1>7, <1>8

\* A broadcast begins: it has its whole audience, and every reader, to come to.
Begins(e, n, p) ==
    /\ phase[e] \in {"new", "stored"}
    /\ e \in HttpEvents => phase[e] = "stored" /\ at[e] = n
    /\ BeginBroadcast(e, n, p)
    /\ UNCHANGED <<subscribers, storage>>
    /\ at' = [at EXCEPT ![e] = n]
    /\ earlier' \in {earlier, [earlier EXCEPT ![e] = Answered]}

LEMMA PublishBegins ==
    ASSUME TypeOK, NEW e \in Events, Publish(e) PROVE Begins(e, at[e], Http)
  BY DEF Begins, Publish, TypeOK

LEMMA BeginBook ==
    ASSUME TypeOK, Book, NEW e \in Events, NEW n \in Nodes, NEW p, Begins(e, n, p)
    PROVE  Book'
<1> USE DEF TypeOK, Book, subscribers, Begins
<1>0. \A s \in Subscribers, f \in Events : Reached(s, f)' <=> Reached(s, f)
  BY UnchangedSent, StillReached
<1>1. /\ UNCHANGED <<member, fetched, storage>>
      /\ \A f \in Events \ {e} : /\ phase'[f] = phase[f] /\ at'[f] = at[f]
                                 /\ rest'[f] = rest[f] /\ audience'[f] = audience[f]
  BY DEF BeginBroadcast
<1>2. /\ phase'[e] = "broadcasting" /\ at'[e] = n
      /\ rest'[e] = Local(n) /\ audience'[e] = Joined
  BY DEF BeginBroadcast, Recipients
<1>3. Unsent'
  BY <1>0, <1>1, <1>2 DEF Unsent
<1>4. Kept'
  <2>1. /\ e \notin HttpEvents => phase[e] # "storing"
        /\ UNCHANGED <<added, late, ets, wiped>>
    BY <1>1 DEF storage
  <2>2. e \in HttpEvents => /\ e \in Admissible /\ e \in added \cup late
                            /\ e \in Range(ets[n]) \cup wiped
    BY DEF Kept
  <2>3. ASSUME NEW f \in Events, f # e
        PROVE  /\ phase'[f] \in {"storing", "stored"} => f \in Admissible
               /\ f \in HttpEvents /\ phase'[f] \notin {"new", "rejected"} => f \in Admissible
               /\ f \in HttpEvents /\ (phase'[f] = "stored" \/ Begun(f)') =>
                     f \in added' \cup late' /\ f \in Range(ets'[at'[f]]) \cup wiped'
    <3>1. phase'[f] = phase[f] /\ at'[f] = at[f]
      BY <1>1, <2>3
    <3> QED BY <2>1, <3>1 DEF Kept, Begun
  <2> QED BY <1>2, <2>1, <2>2, <2>3 DEF Kept
<1>5. EarlierAnswered'
  <2>1. Answered \subseteq Answered'
    BY <1>1, <1>2 DEF Answered
  <2>2. \A f \in Events : earlier'[f] \in {earlier[f], Answered}
    OBVIOUS
  <2> QED BY <2>1, <2>2 DEF EarlierAnswered
<1>6. AudienceServed'
  BY <1>0, <1>1, <1>2 DEF AudienceServed, Begun, Local, Joined
<1>7. ReadersServed'
  BY <1>0, <1>1, <1>2 DEF ReadersServed, Accounted, Begun, Local, Events
<1> QED BY <1>3, <1>4, <1>5, <1>6, <1>7

LEMMA VisitBook ==
    ASSUME TypeOK, Book, NEW e \in Events, NEW s \in Subscribers, Visit(e, s)
    PROVE  Book'
<1> USE DEF TypeOK, Book
<1>0. \A t \in Subscribers, f \in Events :
          Reached(t, f)' <=> Reached(t, f) \/ (t = s /\ f = e /\ member[s] = "joined")
  BY VisitReached
<1>1. /\ UNCHANGED <<member, fetched, phase, at, earlier, audience, storage>>
      /\ s \in rest[e] /\ rest'[e] = rest[e] \ {s}
      /\ \A f \in Events \ {e} : rest'[f] = rest[f]
      /\ phase[e] = "broadcasting"
  BY DEF Visit
<1>2. Unsent'
  BY <1>0, <1>1 DEF Unsent
<1>3. Kept' /\ EarlierAnswered'
  BY <1>1 DEF Kept, EarlierAnswered, Begun, Answered, storage
<1>4. AudienceServed'
  BY <1>0, <1>1 DEF AudienceServed, Begun
<1>5. ReadersServed'
  BY <1>0, <1>1 DEF ReadersServed, Accounted, Begun, Events
<1> QED BY <1>2, <1>3, <1>4, <1>5

LEMMA LeaveBook ==
    ASSUME TypeOK, Book, NEW s \in Subscribers, Leave(s) PROVE Book'
<1> USE DEF TypeOK, Book
<1>0. /\ \A t \in Subscribers \ {s}, f \in Events : Reached(t, f)' <=> Reached(t, f)
      /\ \A f \in Events : Reached(s, f)' => Reached(s, f)
  BY LeaveSent DEF Reached
<1>1. /\ UNCHANGED <<fetched, at, earlier, storage>>
      /\ member' = [member EXCEPT ![s] = "left"]
      /\ \A f \in Events :
            /\ audience'[f] = audience[f] \ {s}
            /\ \/ phase'[f] = phase[f] /\ rest'[f] = rest[f]
               \/ phase'[f] = "aborted" /\ rest'[f] = {} /\ phase[f] = "broadcasting"
  BY DEF Leave
<1>2. Unsent'
  BY <1>0, <1>1 DEF Unsent
<1>3. Kept'
  BY <1>1 DEF Kept, Begun, storage
<1>4. EarlierAnswered'
  BY <1>1 DEF EarlierAnswered, Answered
<1>5. AudienceServed'
  BY <1>0, <1>1 DEF AudienceServed, Begun
<1>6. ReadersServed'
  BY <1>0, <1>1 DEF ReadersServed, Accounted, Begun, Events
<1> QED BY <1>2, <1>3, <1>4, <1>5, <1>6

LEMMA SubscriberBook ==
    ASSUME TypeOK, Book, NEW s \in Subscribers,
           Join(s) \/ HandleInfo(s) \/ \E b \in Nodes \cup {Redis} : FetchHistory(s, b)
    PROVE  Book'
<1> USE DEF TypeOK, Book, publishers
<1>0. \A t \in Subscribers, f \in Events : Reached(t, f)' <=> Reached(t, f)
  BY UnchangedSent, InfoSent, StillReached DEF Join, FetchHistory
<1>1. UNCHANGED <<phase, at, rest, earlier, audience, storage>>
  BY DEF Join, HandleInfo, FetchHistory
<1>2. Unsent' /\ Kept' /\ EarlierAnswered'
  BY <1>0, <1>1 DEF Unsent, Kept, EarlierAnswered, Begun, Answered, storage
<1>3. AudienceServed'
  <2>1. \A t \in Subscribers : member[t] = "joined" => member'[t] = "joined"
    BY DEF Join, HandleInfo, FetchHistory
  <2> QED BY <1>0, <1>1, <2>1 DEF AudienceServed, Begun
<1>4. ReadersServed'
  <2>1. ASSUME NEW b \in Nodes \cup {Redis}, FetchHistory(s, b), NEW e \in HttpEvents, Begun(e)
        PROVE  Accounted(e, fetched'[s])
    <3>1. e \in Events /\ e \in added \cup late /\ e \in Range(ets[at[e]]) \cup wiped
      BY <2>1 DEF Kept, Events
    <3>a. PICK k \in 0 .. Len(Held(b)) :
            fetched' = [fetched EXCEPT ![s] =
                           [from |-> b, shown |-> Range(SubSeq(Held(b), 1, k)),
                            gone |-> Taken(b) \ Range(SubSeq(Held(b), 1, k)),
                            late |-> IF b = Redis THEN late ELSE {}]]
      BY <2>1 DEF FetchHistory
    <3>2. fetched'[s] = [from |-> b, shown |-> Range(SubSeq(Held(b), 1, k)),
                         gone |-> Taken(b) \ Range(SubSeq(Held(b), 1, k)),
                         late |-> IF b = Redis THEN late ELSE {}]
      BY <3>a
    <3>3. b = Redis => e \in Taken(b) \cup late
      BY <3>1 DEF Taken
    <3>4. b = at[e] => b # Redis /\ e \in Taken(b)
      BY <3>1, GatewayAssumption DEF Taken, GatewayAssumption
    <3> QED BY <3>2, <3>3, <3>4 DEF Accounted
  <2>2. ASSUME NEW t \in Subscribers, member'[t] = "joined", fetched'[t] # Http
        PROVE  \/ member[t] = "joined" /\ fetched[t] # Http /\ fetched'[t] = fetched[t]
               \/ t = s /\ \E b \in Nodes \cup {Redis} : FetchHistory(s, b)
    BY <2>2 DEF Join, HandleInfo, FetchHistory
  <2>3. ASSUME NEW t \in Subscribers, NEW e \in HttpEvents, member'[t] = "joined",
               fetched'[t] # Http, Begun(e)', at'[e] = NodeOf[t]
        PROVE  Reached(t, e)' \/ t \in rest'[e] \/ Accounted(e, fetched[t])'
    <3>1. e \in Events /\ Begun(e) /\ at'[e] = at[e] /\ rest'[e] = rest[e]
      BY <1>1, <2>3 DEF Begun, Events
    <3>2. CASE member[t] = "joined" /\ fetched[t] # Http /\ fetched'[t] = fetched[t]
      BY <1>0, <2>3, <3>1, <3>2 DEF ReadersServed, Accounted
    <3>3. ASSUME t = s, NEW b \in Nodes \cup {Redis}, FetchHistory(s, b)
          PROVE  Accounted(e, fetched[t])'
      BY <2>1, <3>1, <3>3 DEF Accounted
    <3> QED BY <2>2, <2>3, <3>2, <3>3
  <2> QED BY <2>3 DEF ReadersServed
<1> QED BY <1>2, <1>3, <1>4

\* What Redis and the tables do by themselves.
Keeps == (\E e \in Events : Lpush(e)) \/ Forget \/ \E n \in Nodes : Wipe(n)

LEMMA StorageBook == ASSUME TypeOK, Book, Keeps PROVE Book'
<1> USE DEF TypeOK, Book
<1>1. UNCHANGED <<subscribers, publishers>>
  BY DEF Keeps, Lpush, Forget, Wipe
<1>2. \A s \in Subscribers, f \in Events : Reached(s, f)' <=> Reached(s, f)
  BY <1>1, UnchangedSent, StillReached DEF subscribers
<1>3. StillTaken
  <2>1. ASSUME NEW n \in Nodes, Wipe(n) PROVE StillTaken
    BY <2>1 DEF Wipe, StillTaken
  <2> QED BY <2>1 DEF Keeps, Lpush, Forget, StillTaken
<1>4. UNCHANGED <<member, fetched, phase, at, rest, earlier, audience>>
  BY <1>1 DEF subscribers, publishers
<1>5. Unsent' /\ EarlierAnswered'
  BY <1>2, <1>4 DEF Unsent, EarlierAnswered, Answered
<1>6. Kept'
  BY <1>3, <1>4 DEF Kept, Begun, StillTaken
<1>7. AudienceServed'
  <2>1. \A f \in Events : audience[f] \subseteq Subscribers
    OBVIOUS
  <2> QED BY <1>2, <1>4, <2>1 DEF AudienceServed, Begun
<1>8. ReadersServed'
  BY <1>2, <1>4 DEF ReadersServed, Accounted, Begun, Events
<1> QED BY <1>5, <1>6, <1>7, <1>8

LEMMA BookStep == TypeOK /\ Book /\ [Next]_vars => Book'
<1> SUFFICES ASSUME TypeOK, Book, [Next]_vars PROVE Book'
  OBVIOUS
<1>1. ASSUME NEW e \in Events, NEW n \in Nodes, Request(e, n) PROVE Book'
  <2>1. Moves(e, n)
    BY <1>1 DEF Moves
  <2> QED BY <2>1, PublisherBook
<1>2. ASSUME NEW e \in Events, Refuse(e) \/ Store(e) \/ Answer(e) \/ Abort(e) PROVE Book'
  <2>1. PICK n \in Nodes : n = at[e]
    BY DEF TypeOK
  <2>2. Moves(e, n)
    BY <1>2 DEF Moves
  <2> QED BY <2>2, PublisherBook
<1>3. ASSUME NEW e \in Events, Publish(e) PROVE Book'
  <2>1. at[e] \in Nodes
    BY DEF TypeOK
  <2>2. Begins(e, at[e], Http)
    BY <1>3, PublishBegins
  <2> QED BY <2>1, <2>2, BeginBook
<1>4. ASSUME NEW e \in Events, NEW s \in Subscribers, HandleIn(e, s) PROVE Book'
  <2>1. PICK n \in Nodes : n = NodeOf[s]
    BY GatewayAssumption DEF GatewayAssumption
  <2>2. Begins(e, n, s)
    BY <1>4, <2>1, GatewayAssumption DEF Begins, HandleIn, GatewayAssumption
  <2> QED BY <2>2, BeginBook
<1>5. ASSUME NEW e \in Events, NEW s \in Subscribers, Visit(e, s) PROVE Book'
  BY <1>5, VisitBook
<1>6. ASSUME NEW s \in Subscribers,
             Join(s) \/ HandleInfo(s) \/ \E b \in Nodes \cup {Redis} : FetchHistory(s, b)
      PROVE  Book'
  BY <1>6, SubscriberBook
<1>9. CASE Keeps
  BY <1>9, StorageBook
<1>7. ASSUME NEW s \in Subscribers, Leave(s) PROVE Book'
  BY <1>7, LeaveBook
<1>8. CASE (\E e \in Events : ForwardEnds(e)) \/ UNCHANGED vars
  <2>1. UNCHANGED <<subscribers, publishers, storage>>
    BY <1>8 DEF ForwardEnds, vars
  <2>2. \A s \in Subscribers, f \in Events : Reached(s, f)' <=> Reached(s, f)
    BY <2>1, UnchangedSent, StillReached DEF subscribers
  <2>3. UNCHANGED <<member, fetched, phase, at, rest, earlier, audience, storage>>
    BY <2>1 DEF subscribers, publishers
  <2>4. Unsent' /\ Kept' /\ EarlierAnswered'
    BY <2>2, <2>3 DEF Book, Unsent, Kept, EarlierAnswered, Begun, Answered, storage
  <2>5. AudienceServed'
    <3>1. \A f \in Events : audience[f] \subseteq Subscribers
      BY DEF TypeOK
    <3> QED BY <2>2, <2>3, <3>1 DEF Book, AudienceServed, Begun
  <2>6. ReadersServed'
    BY <2>2, <2>3 DEF Book, ReadersServed, Accounted, Begun, Events
  <2> QED BY <2>4, <2>5, <2>6 DEF Book
<1> QED BY <1>1, <1>2, <1>3, <1>4, <1>5, <1>6, <1>7, <1>8, <1>9 DEF Next, Keeps

-----------------------------------------------------------------------------
(* What subscribers see.                                                   *)

\* A step leaves what a subscriber has been sent, cuts it, or adds an event of a
\* broadcast that had not come to it.
LEMMA SentStep ==
    ASSUME TypeOK, Book, [Next]_vars, NEW s \in Subscribers
    PROVE  \/ Sent(s)' = Sent(s)
           \/ Sent(s) = Sent(s)' \o mailbox[s] /\ Sent(s)' \in Messages
           \/ \E e \in Events : /\ ~Reached(s, e) /\ phase[e] = "broadcasting"
                               /\ Sent(s)' = Append(Sent(s), e)
<1>1. ASSUME NEW e \in Events, NEW t \in Subscribers, Visit(e, t)
      PROVE  \/ Sent(s)' = Sent(s)
             \/ /\ ~Reached(s, e) /\ phase[e] = "broadcasting"
                /\ Sent(s)' = Append(Sent(s), e)
  <2>1. t \in rest[e] /\ phase[e] = "broadcasting" /\ ~Reached(t, e)
    BY <1>1 DEF Visit, TypeOK, Book, Unsent
  <2> QED BY <1>1, <2>1, VisitSent
<1>2. ASSUME NEW t \in Subscribers, Leave(t)
      PROVE  Sent(s)' = Sent(s) \/ (Sent(s) = Sent(s)' \o mailbox[s] /\ Sent(s)' \in Messages)
  <2>1. CASE t = s
    <3>1. Sent(s)' = pushed[s] /\ pushed[s] \in Messages
      BY <1>2, <2>1, LeaveSent DEF TypeOK
    <3> QED BY <3>1 DEF Sent
  <2>2. CASE t # s
    BY <1>2, <2>2, LeaveSent
  <2> QED BY <2>1, <2>2
<1>3. ASSUME NEW t \in Subscribers,
             Join(t) \/ \E b \in Nodes \cup {Redis} : FetchHistory(t, b)
      PROVE  Sent(s)' = Sent(s)
  <2>1. UNCHANGED <<mailbox, pushed>>
    BY <1>3 DEF Join, FetchHistory
  <2> QED BY <2>1, UnchangedSent DEF Still
<1>4. ASSUME NEW t \in Subscribers, HandleInfo(t) PROVE Sent(s)' = Sent(s)
  BY <1>4, InfoSent DEF Still
<1>5. ASSUME NEW e \in Events, NEW n \in Nodes, Request(e, n) PROVE Sent(s)' = Sent(s)
  <2>1. UNCHANGED <<mailbox, pushed>>
    BY <1>5 DEF Request, subscribers
  <2> QED BY <2>1, UnchangedSent DEF Still
<1>6. ASSUME NEW e \in Events, NEW t \in Subscribers, HandleIn(e, t) PROVE Sent(s)' = Sent(s)
  <2>1. UNCHANGED <<mailbox, pushed>>
    BY <1>6 DEF HandleIn, subscribers
  <2> QED BY <2>1, UnchangedSent DEF Still
<1>7. ASSUME NEW e \in Events,
             Refuse(e) \/ Store(e) \/ Publish(e) \/ ForwardEnds(e) \/ Answer(e) \/ Abort(e)
      PROVE  Sent(s)' = Sent(s)
  <2>1. UNCHANGED <<mailbox, pushed>>
    BY <1>7 DEF Refuse, Store, Publish, ForwardEnds, Answer, Abort, subscribers
  <2> QED BY <2>1, UnchangedSent DEF Still
<1>9. CASE Keeps
  <2>1. UNCHANGED <<mailbox, pushed>>
    BY <1>9 DEF Keeps, Lpush, Forget, Wipe, subscribers
  <2> QED BY <2>1, UnchangedSent DEF Still
<1>8. CASE UNCHANGED vars
  BY <1>8, UnchangedSent DEF vars, subscribers, Still
<1> QED BY <1>1, <1>2, <1>3, <1>4, <1>5, <1>6, <1>7, <1>8, <1>9 DEF Next, Keeps

LEMMA OnceStep == TypeOK /\ Book /\ SentOnce /\ [Next]_vars => SentOnce'
<1> SUFFICES ASSUME TypeOK, Book, SentOnce, [Next]_vars, NEW s \in Subscribers
             PROVE  IsInjective(Sent(s)')
  BY DEF SentOnce
<1>1. IsInjective(Sent(s)) /\ Sent(s) \in Messages /\ mailbox[s] \in Messages
  BY SentType DEF SentOnce, TypeOK
<1>2. CASE Sent(s)' = Sent(s)
  BY <1>1, <1>2
<1>3. CASE Sent(s) = Sent(s)' \o mailbox[s] /\ Sent(s)' \in Messages
  BY <1>1, <1>3, Prefix
<1>4. ASSUME NEW e \in Events, ~Reached(s, e), Sent(s)' = Append(Sent(s), e)
      PROVE  IsInjective(Sent(s)')
  BY <1>1, <1>4, Appended DEF Reached
<1> QED BY <1>2, <1>3, <1>4, SentStep

\* The publisher of an event that has been sent does not begin again.
LEMMA EarlierStep ==
    ASSUME TypeOK, Book, [Next]_vars, NEW s \in Subscribers, NEW e \in Events, Reached(s, e)
    PROVE  earlier'[e] = earlier[e]
<1>1. phase[e] # "new"
  BY DEF Book, Unsent
<1> QED
  BY <1>1 DEF Next, vars, publishers, Request, Refuse, HandleIn, Store, Publish, ForwardEnds,
              Answer, Abort, Lpush, Forget, Wipe, Visit, Join, Leave, HandleInfo, FetchHistory,
              TypeOK

LEMMA OrderStep == TypeOK /\ Book /\ AnsweredOrder /\ [Next]_vars => AnsweredOrder'
<1> SUFFICES ASSUME TypeOK, Book, AnsweredOrder, [Next]_vars, NEW s \in Subscribers,
                    NEW i \in DOMAIN (Sent(s)'), NEW j \in DOMAIN (Sent(s)'),
                    Sent(s)'[i] \in earlier'[Sent(s)'[j]]
             PROVE  i < j
  BY DEF AnsweredOrder
<1>1. /\ Sent(s) \in Messages /\ mailbox[s] \in Messages
      /\ \A k \in DOMAIN Sent(s) : Sent(s)[k] \in Events /\ Reached(s, Sent(s)[k])
  BY SentType DEF TypeOK, Messages, Reached, Range
<1>2. \A k \in DOMAIN Sent(s) : earlier'[Sent(s)[k]] = earlier[Sent(s)[k]]
  BY <1>1, EarlierStep
<1>3. CASE Sent(s)' = Sent(s)
  BY <1>2, <1>3 DEF AnsweredOrder
<1>4. CASE Sent(s) = Sent(s)' \o mailbox[s] /\ Sent(s)' \in Messages
  <2>1. /\ i \in DOMAIN Sent(s) /\ j \in DOMAIN Sent(s)
        /\ Sent(s)[i] = Sent(s)'[i] /\ Sent(s)[j] = Sent(s)'[j]
    BY <1>1, <1>4, Prefix
  <2> QED BY <1>2, <2>1 DEF AnsweredOrder
<1>5. ASSUME NEW e \in Events, phase[e] = "broadcasting", Sent(s)' = Append(Sent(s), e)
      PROVE  i < j
  <2>1. /\ Len(Sent(s)) \in Nat /\ DOMAIN Sent(s) = 1 .. Len(Sent(s))
        /\ DOMAIN (Sent(s)') = 1 .. Len(Sent(s)) + 1
        /\ \A k \in 1 .. Len(Sent(s)) : Sent(s)'[k] = Sent(s)[k]
        /\ Sent(s)'[Len(Sent(s)) + 1] = e
    BY <1>1, <1>5 DEF Messages
  <2>2. \A f \in Events : e \notin earlier[f]
    BY <1>5 DEF Book, EarlierAnswered, Answered
  <2>3. earlier'[e] = earlier[e]
    BY <1>5 DEF Next, vars, publishers, Request, Refuse, HandleIn, Store, Publish,
                ForwardEnds, Answer, Abort, Lpush, Forget, Wipe, Visit, Join, Leave, HandleInfo,
                FetchHistory, TypeOK
  <2>4. i # Len(Sent(s)) + 1
    <3>1. CASE j = Len(Sent(s)) + 1
      BY <1>5, <2>1, <2>2, <2>3, <3>1
    <3>2. CASE j \in 1 .. Len(Sent(s))
      BY <1>1, <1>2, <2>1, <2>2, <3>2
    <3> QED BY <2>1, <3>1, <3>2
  <2>5. CASE j = Len(Sent(s)) + 1
    BY <2>1, <2>4, <2>5
  <2>6. CASE j \in 1 .. Len(Sent(s))
    <3>1. i \in 1 .. Len(Sent(s))
      BY <2>1, <2>4
    <3>2. Sent(s)[i] \in earlier[Sent(s)[j]]
      BY <1>2, <2>1, <2>6, <3>1
    <3> QED BY <2>1, <2>6, <3>1, <3>2 DEF AnsweredOrder
  <2> QED BY <2>1, <2>5, <2>6
<1> QED BY <1>3, <1>4, <1>5, SentStep

-----------------------------------------------------------------------------
(* Theorems.                                                               *)

\* IInv holds in every reachable state (router.ex:33-52, 168-188,
\* room_channel.ex:4-30).
THEOREM Invariance == Spec => []IInv
<1>1. IInv /\ [Next]_vars => IInv'
  BY TypeStep, BookStep, OnceStep, OrderStep DEF IInv, Book
<1> QED BY InitInv, <1>1, PTL DEF Spec

\* The variables keep their types, for any nodes, subscribers and events: what is
\* stored was admitted, a channel process takes its mailbox with it, and a
\* broadcast only has subscribers of its own node to come to (router.ex:33-45,
\* room_channel.ex:4-30).
THEOREM TypeCorrect == Spec => []TypeOK
<1>1. IInv => TypeOK
  BY DEF IInv
<1> QED BY Invariance, <1>1, PTL

\* No subscriber is sent an event twice, however broadcasts, joins and leaves
\* mix (router.ex:178, room_channel.ex:23).
THEOREM NoDuplicates == Spec => []SentOnce
<1>1. IInv => SentOnce
  BY DEF IInv
<1> QED BY Invariance, <1>1, PTL

\* Who waits for an answer before publishing again sees no reordering, on any
\* number of nodes and ways to publish (router.ex:178-188, room_channel.ex:23-25).
THEOREM OrderKept == Spec => []AnsweredOrder
<1>1. IInv => AnsweredOrder
  BY DEF IInv
<1> QED BY Invariance, <1>1, PTL

\* An answered event has been sent to every member of its node that was there
\* when its broadcast began and still is (router.ex:178-180, room_channel.ex:23-25).
THEOREM AllMembersReached == Spec => []MembersReached
<1>1. IInv => MembersReached
  BY DEF IInv, TypeOK, Book, AudienceServed, MembersReached, Answered, Begun
<1> QED BY Invariance, <1>1, PTL

\* A client that joins, then reads the history, misses an answered event of its node
\* only by the storage, which had dropped it, cut it off, or kept it where the read did
\* not look: never for having joined between the storing and the broadcast, which
\* handle_publish begins only when store_event has returned (router.ex:55-71, 168-178,
\* storage.ex:14-28).
THEOREM NothingMissed == Spec => []NoGap
<1>1. IInv => NoGap
  BY DEF IInv, TypeOK, Book, ReadersServed, Accounted, NoGap, Answered, Begun, Joined, Events
<1> QED BY Invariance, <1>1, PTL

-----------------------------------------------------------------------------
(* One topic: the steps of the gateways as steps of Topic.                 *)

\* Topic's variables, as the state of the gateways shows them.
StageView == [e \in Publishable |-> Stage(e)]
OwedView == [e \in Publishable |-> IF Begun(e) THEN audience[e] \cap Local(at[e]) ELSE {}]
LogView == [s \in Subscribers |-> Sent(s)]

\* Only events of the topic get as far as being stored or broadcast.
LEMMA WorkedOnIsPublishable ==
    ASSUME TypeOK, Kept, NEW e \in Events,
           phase[e] \in {"storing", "stored", "broadcasting"}
    PROVE  e \in Publishable
  BY DEF Kept, Publishable, Events

LEMMA PublishableIsEvent == ASSUME NEW e \in Publishable PROVE e \in Events
  BY GatewayAssumption DEF GatewayAssumption, Publishable, Events

LEMMA HasReached ==
    ASSUME TypeOK, NEW s \in Subscribers, NEW e
    PROVE  Abstract!Has(s, e) <=> Reached(s, e)
  BY DEF Abstract!Has, Reached, Range

LEMMA StillLog == ASSUME Still PROVE LogView' = LogView
  BY DEF Still, LogView

\* Topic stutters when an event keeps its stage and its place.
LEMMA SamePublishing ==
    ASSUME UNCHANGED <<member, phase, at, audience>>, Still
    PROVE  UNCHANGED Abstract!vars
<1>1. UNCHANGED <<StageView, OwedView>>
  BY PublishableIsEvent DEF StageView, OwedView, Stage, Begun
<1> QED BY <1>1, StillLog DEF Abstract!vars, StageView, OwedView, LogView

\* A request that is taken up, refused or stored is nothing to subscribers yet.
LEMMA TakenUpStutters ==
    ASSUME TypeOK, NEW e \in Events, Refuse(e) \/ Store(e) \/ \E n \in Nodes : Request(e, n)
    PROVE  UNCHANGED Abstract!vars
<1>1. \A f \in Events : /\ Stage(f)' = Stage(f) /\ Begun(f)' = Begun(f)
                        /\ Begun(f) => at'[f] = at[f]
  BY DEF Refuse, Store, Request, TypeOK, Stage, Begun
<1>2. UNCHANGED <<member, mailbox, pushed, audience>>
  BY DEF Refuse, Store, Request, subscribers
<1>3. UNCHANGED <<StageView, OwedView>>
  BY <1>1, <1>2, PublishableIsEvent DEF StageView, OwedView
<1> QED
  BY <1>2, <1>3, UnchangedSent, StillLog
     DEF Abstract!vars, StageView, OwedView, LogView

\* A broadcast opens its event to the subscribers of the publisher's node.
LEMMA BeginOpens ==
    ASSUME TypeOK, NEW e \in Publishable, NEW n \in Nodes, NEW p, Begins(e, n, p)
    PROVE  Abstract!Open(e, Local(n))
<1>1. /\ phase[e] \in {"new", "stored"}
      /\ phase' = [phase EXCEPT ![e] = "broadcasting"]
      /\ at' = [at EXCEPT ![e] = n]
      /\ audience' = [audience EXCEPT ![e] = Joined]
      /\ UNCHANGED <<member, mailbox, pushed>>
  BY DEF Begins, BeginBroadcast, subscribers
<1>2. StageView[e] = "unpublished" /\ StageView' = [StageView EXCEPT ![e] = "open"]
  BY <1>1, PublishableIsEvent DEF StageView, Stage, TypeOK
<1>4. Joined \cap Local(n) = {s \in Local(n) : member[s] = "joined"}
  BY DEF Joined, Local
<1>5. OwedView' = [OwedView EXCEPT ![e] = {s \in Local(n) : member[s] = "joined"}]
  BY <1>1, <1>4, PublishableIsEvent DEF OwedView, Begun, TypeOK
<1> QED
  BY <1>1, <1>2, <1>5, UnchangedSent, StillLog
     DEF Abstract!Open, StageView, OwedView, LogView

LEMMA VisitSends ==
    ASSUME TypeOK, Book, NEW e \in Publishable, NEW s \in Subscribers, Visit(e, s)
    PROVE  Abstract!Send(e, s) \/ UNCHANGED Abstract!vars
<1>1. UNCHANGED <<member, phase, at, audience>>
  BY DEF Visit
<1>2. UNCHANGED <<StageView, OwedView>>
  BY <1>1 DEF StageView, OwedView, Stage, Begun
<1>e. e \in Events
  BY PublishableIsEvent
<1>3. CASE member[s] = "joined"
  <2>1. StageView[e] = "open"
    BY <1>e DEF Visit, TypeOK, StageView, Stage
  <2>2. ~Abstract!Has(s, e)
    BY <1>e, HasReached DEF Visit, Book, Unsent
  <2>3. LogView' = [LogView EXCEPT ![s] = Append(@, e)]
    BY <1>e, <1>3, VisitSent DEF LogView
  <2> QED
    BY <1>1, <1>2, <1>3, <2>1, <2>2, <2>3
       DEF Abstract!Send, StageView, OwedView, LogView
<1>4. CASE member[s] # "joined"
  BY <1>e, <1>1, <1>4, VisitSent, SamePublishing DEF Still
<1> QED BY <1>3, <1>4

LEMMA AnswerConfirms ==
    ASSUME TypeOK, Book, NEW e \in Publishable, Answer(e) PROVE Abstract!Confirm(e)
<1>1. /\ phase[e] = "broadcasting" /\ rest[e] = {}
      /\ phase' = [phase EXCEPT ![e] = "answered"]
      /\ UNCHANGED <<member, mailbox, pushed, at, audience>>
  BY DEF Answer, subscribers
<1>2. \A s \in OwedView[e] : Abstract!Has(s, e)
  <2> SUFFICES ASSUME NEW s \in OwedView[e] PROVE Abstract!Has(s, e)
    OBVIOUS
  <2>1. s \in audience[e] /\ s \in Local(at[e])
    BY <1>1 DEF OwedView, Begun
  <2>2. s \in Subscribers /\ Reached(s, e)
    BY <1>1, <2>1, PublishableIsEvent DEF Book, AudienceServed, Begun, Local
  <2> QED BY <2>2, HasReached
<1>3. StageView[e] = "open" /\ StageView' = [StageView EXCEPT ![e] = "confirmed"]
  BY <1>1, PublishableIsEvent DEF StageView, Stage, TypeOK
<1>4. UNCHANGED OwedView
  BY <1>1, PublishableIsEvent DEF OwedView, Begun, TypeOK
<1> QED
  BY <1>1, <1>2, <1>3, <1>4, UnchangedSent, StillLog
     DEF Abstract!Confirm, StageView, OwedView, LogView

LEMMA AbortDrops ==
    ASSUME TypeOK, NEW e \in Publishable, Abort(e) PROVE Abstract!Drop(e)
<1>1. /\ phase[e] \in {"storing", "stored", "broadcasting"}
      /\ phase' = [phase EXCEPT ![e] = "aborted"]
      /\ UNCHANGED <<member, mailbox, pushed, at, audience>>
  BY DEF Abort, subscribers
<1>2. StageView[e] \in {"unpublished", "open"}
  BY <1>1 DEF StageView, Stage
<1>3. /\ StageView' = [f \in Publishable |-> IF f \in {e} THEN "dropped" ELSE StageView[f]]
      /\ OwedView' = [f \in Publishable |-> IF f \in {e} THEN {} ELSE OwedView[f] \ {}]
  BY <1>1, PublishableIsEvent DEF StageView, OwedView, Stage, Begun, TypeOK
<1> QED
  BY <1>1, <1>2, <1>3, UnchangedSent, StillLog
     DEF Abstract!Drop, Abstract!Abandon, StageView, OwedView, LogView

LEMMA JoinJoins == ASSUME NEW s \in Subscribers, Join(s) PROVE Abstract!Join(s)
<1>1. UNCHANGED <<mailbox, pushed, phase, at, audience>>
  BY DEF Join, publishers
<1>2. UNCHANGED <<StageView, OwedView>>
  BY <1>1 DEF StageView, OwedView, Stage, Begun
<1> QED
  BY <1>1, <1>2, UnchangedSent, StillLog
     DEF Join, Abstract!Join, StageView, OwedView, LogView

\* The first of two sequences is the front of their concatenation.
IsFront(p, q) == Len(p) \in 0 .. Len(p \o q) /\ p = SubSeq(p \o q, 1, Len(p))

LEMMA FrontOfConcat == ASSUME NEW p \in Messages, NEW q \in Messages PROVE IsFront(p, q)
<1>1. p \o q \in Messages
  BY Concatenated
<1>2. Len(p) \in Nat /\ Len(q) \in Nat /\ Len(p \o q) = Len(p) + Len(q)
  BY DEF Messages
<1>3. SubSeq(p \o q, 1, Len(p)) = p
  BY DEF Messages
<1> QED BY <1>2, <1>3 DEF IsFront

LEMMA LeaveLeaves == ASSUME TypeOK, NEW s \in Subscribers, Leave(s) PROVE Abstract!Leave(s)
<1> DEFINE lost == {e \in SocketEvents : by[e] = s /\ phase[e] = "broadcasting"}
<1>1. /\ member[s] = "joined"
      /\ member' = [member EXCEPT ![s] = "left"]
      /\ phase' = [e \in Events |-> IF e \in lost THEN "aborted" ELSE phase[e]]
      /\ audience' = [e \in Events |-> audience[e] \ {s}]
      /\ at' = at
  BY DEF Leave
<1>2. lost \in SUBSET {e \in Publishable : StageView[e] = "open"}
  BY DEF StageView, Stage, Publishable
<1>3. \A e \in lost : phase[e] = "broadcasting"
  OBVIOUS
<1> HIDE DEF lost
<1>4. /\ StageView' = [e \in Publishable |-> IF e \in lost THEN "dropped" ELSE StageView[e]]
      /\ OwedView' = [e \in Publishable |-> IF e \in lost THEN {} ELSE OwedView[e] \ {s}]
  BY <1>1, <1>3, PublishableIsEvent DEF StageView, OwedView, Stage, Begun
<1>5. PICK n \in 0 .. Len(Sent(s)) : pushed[s] = SubSeq(Sent(s), 1, n)
  <2>1. pushed[s] \in Messages /\ mailbox[s] \in Messages
    BY DEF TypeOK
  <2>2. IsFront(pushed[s], mailbox[s])
    BY <2>1, FrontOfConcat
  <2> QED BY <2>2 DEF IsFront, Sent
<1>6. LogView' = [LogView EXCEPT ![s] = SubSeq(@, 1, n)] /\ n \in 0 .. Len(LogView[s])
  BY <1>5, LeaveSent DEF LogView
<1>7. Abstract!Abandon(lost, {s})
  BY <1>4 DEF Abstract!Abandon, StageView, OwedView
<1> QED BY <1>1, <1>2, <1>6, <1>7 DEF Abstract!Leave, StageView, LogView

LEMMA TopicStep == IInv /\ [Next]_vars => [Abstract!Next]_(Abstract!vars)
<1> SUFFICES ASSUME TypeOK, Book, [Next]_vars PROVE [Abstract!Next]_(Abstract!vars)
  BY DEF IInv
<1>1. ASSUME NEW e \in Events, Refuse(e) \/ Store(e) \/ \E n \in Nodes : Request(e, n)
      PROVE  UNCHANGED Abstract!vars
  BY <1>1, TakenUpStutters
<1>0. ASSUME NEW e \in Events, phase[e] \in {"storing", "stored", "broadcasting"}
      PROVE  e \in Publishable
  BY <1>0, WorkedOnIsPublishable DEF Book
<1>2. ASSUME NEW e \in Publishable, NEW n \in Nodes, NEW p, Begins(e, n, p)
      PROVE  Abstract!Next
  BY <1>2, BeginOpens DEF Abstract!Next
<1>3. ASSUME NEW e \in Events, Publish(e) PROVE Abstract!Next
  <2>1. at[e] \in Nodes
    BY DEF TypeOK
  <2>2. Begins(e, at[e], Http)
    BY <1>3, PublishBegins
  <2>3. e \in Publishable
    BY <1>0, <1>3 DEF Publish
  <2> QED BY <1>2, <2>1, <2>2, <2>3
<1>4. ASSUME NEW e \in Events, NEW s \in Subscribers, HandleIn(e, s) PROVE Abstract!Next
  <2>1. NodeOf[s] \in Nodes
    BY GatewayAssumption DEF GatewayAssumption
  <2>2. Begins(e, NodeOf[s], s)
    BY <1>4, GatewayAssumption DEF Begins, HandleIn, GatewayAssumption
  <2>3. e \in Publishable
    BY <1>4 DEF HandleIn, Publishable
  <2> QED BY <1>2, <2>1, <2>2, <2>3
<1>5. ASSUME NEW e \in Events, NEW s \in Subscribers, Visit(e, s)
      PROVE  [Abstract!Next]_(Abstract!vars)
  <2>1. e \in Publishable
    BY <1>0, <1>5 DEF Visit, TypeOK
  <2> QED BY <1>5, <2>1, VisitSends DEF Abstract!Next
<1>6. ASSUME NEW e \in Events, Answer(e) \/ Abort(e) PROVE Abstract!Next
  <2>1. e \in Publishable
    BY <1>0, <1>6 DEF Answer, Abort
  <2> QED BY <1>6, <2>1, AnswerConfirms, AbortDrops DEF Abstract!Next
<1>7. ASSUME NEW s \in Subscribers, Join(s) \/ Leave(s) PROVE Abstract!Next
  BY <1>7, JoinJoins, LeaveLeaves DEF Abstract!Next
<1>8. ASSUME NEW s \in Subscribers,
             HandleInfo(s) \/ \E b \in Nodes \cup {Redis} : FetchHistory(s, b)
      PROVE  UNCHANGED Abstract!vars
  <2>1. UNCHANGED <<member, phase, at, audience>>
    BY <1>8 DEF HandleInfo, FetchHistory, publishers
  <2>2. Still
    BY <1>8, InfoSent, UnchangedSent DEF FetchHistory
  <2> QED BY <2>1, <2>2, SamePublishing
<1>9. CASE (\E e \in Events : ForwardEnds(e)) \/ Keeps \/ UNCHANGED vars
  <2>1. UNCHANGED <<member, mailbox, pushed, phase, at, audience>>
    BY <1>9 DEF ForwardEnds, Keeps, Lpush, Forget, Wipe, vars, subscribers, publishers
  <2> QED BY <2>1, UnchangedSent, SamePublishing
<1> QED
  BY <1>1, <1>3, <1>4, <1>5, <1>6, <1>7, <1>8, <1>9 DEF Next, Keeps

\* For any nodes, subscribers and events, the gateways together are one topic, whose
\* broadcasts, mailboxes and two ways to publish nobody can tell from sending each event
\* to one subscriber after the other (router.ex:33-52, 168-188, room_channel.ex:4-30).
THEOREM ImplementsTopic == Spec => KeepsTopic
<1>1. Init => Abstract!Init
  BY PublishableIsEvent DEF Init, Abstract!Init, Stage, Begun, Sent
<1> QED BY <1>1, TopicStep, Invariance, PTL DEF Spec, KeepsTopic, Abstract!Spec
=============================================================================
