---------------------------- MODULE StorageProofs ----------------------------
(***************************************************************************)
(* Proofs about Storage, for any gateways, events and history_max_events:  *)
(* the list in Redis is a window of the latest pushes within its bound,    *)
(* what store_event has stored is accounted for, and those that read the   *)
(* list see the history EventHistory promises.                             *)
(***************************************************************************)
EXTENDS Storage, FiniteSetTheorems, SequenceTheorems, TLAPS

\* Events whose own LTRIM has yet to come.
Untrimmed == {e \in Range(list) : done[e] < 2}

\* A pipeline is executed from its first command on, and not again.
Executed == \A e \in Range(list) : done[e] >= 1

\* HistoryIsWindow, index by index.
Window ==
    /\ Len(list) <= Len(pushed)
    /\ \A i \in 1 .. Len(list) : list[i] = pushed[(Len(pushed) - i) + 1]

Bounds ==
    /\ Len(list) >= Lesser(Len(pushed), MaxEvents)
    /\ Len(list) <= MaxEvents + Cardinality(Untrimmed)

HistoryInv == Executed /\ Window /\ IsInjective(list) /\ Bounds

-----------------------------------------------------------------------------
(* Sequences.                                                              *)

LEMMA Appended ==
    ASSUME NEW q \in Sequence, NEW e \in Events
    PROVE  /\ Append(q, e) \in Sequence
           /\ Range(Append(q, e)) = Range(q) \cup {e}
           /\ Len(q) \in Nat /\ Len(Append(q, e)) = Len(q) + 1
           /\ \A i \in 1 .. Len(q) : Append(q, e)[i] = q[i]
           /\ Append(q, e)[Len(q) + 1] = e
<1>1. /\ Append(q, e) \in Sequence
      /\ Len(q) \in Nat /\ DOMAIN q = 1 .. Len(q)
      /\ Len(Append(q, e)) = Len(q) + 1 /\ DOMAIN Append(q, e) = 1 .. Len(q) + 1
      /\ \A i \in 1 .. Len(q) : Append(q, e)[i] = q[i]
      /\ Append(q, e)[Len(q) + 1] = e
  BY DEF Sequence
<1> QED BY <1>1 DEF Range

LEMMA Prepended ==
    ASSUME NEW q \in Sequence, NEW e \in Events
    PROVE  /\ <<e>> \o q \in Sequence
           /\ Range(<<e>> \o q) = Range(q) \cup {e}
           /\ Len(q) \in Nat /\ Len(<<e>> \o q) = Len(q) + 1
           /\ DOMAIN q = 1 .. Len(q) /\ DOMAIN (<<e>> \o q) = 1 .. Len(q) + 1
           /\ (<<e>> \o q)[1] = e
           /\ \A i \in 2 .. Len(q) + 1 : (<<e>> \o q)[i] = q[i - 1]
<1>1. /\ <<e>> \o q \in Sequence
      /\ Len(q) \in Nat /\ Len(<<e>> \o q) = Len(q) + 1
      /\ DOMAIN q = 1 .. Len(q) /\ DOMAIN (<<e>> \o q) = 1 .. Len(q) + 1
      /\ (<<e>> \o q)[1] = e
      /\ \A i \in 2 .. Len(q) + 1 : (<<e>> \o q)[i] = q[i - 1]
  <2>1. <<e>> \in Seq(Events) /\ Len(<<e>>) = 1 /\ <<e>>[1] = e
    OBVIOUS
  <2>2. /\ <<e>> \o q \in Seq(Events)
        /\ Len(<<e>> \o q) = Len(<<e>>) + Len(q)
        /\ \A i \in 1 .. Len(<<e>>) + Len(q) :
              (<<e>> \o q)[i] = IF i <= Len(<<e>>) THEN <<e>>[i] ELSE q[i - Len(<<e>>)]
    BY <2>1, ConcatProperties DEF Sequence
  <2>3. Len(q) \in Nat /\ DOMAIN q = 1 .. Len(q) /\ DOMAIN (<<e>> \o q) = 1 .. Len(<<e>> \o q)
    BY <2>2 DEF Sequence
  <2> QED BY <2>1, <2>2, <2>3 DEF Sequence
<1>2. \A i \in 1 .. Len(q) : i + 1 \in 2 .. Len(q) + 1 /\ (<<e>> \o q)[i + 1] = q[i]
  BY <1>1
<1>3. \A i \in 2 .. Len(q) + 1 : i - 1 \in 1 .. Len(q)
  BY <1>1
<1>4. \A i \in 1 .. Len(q) + 1 : i = 1 \/ i \in 2 .. Len(q) + 1
  BY <1>1
<1>5. PICK r : r = <<e>> \o q
  OBVIOUS
<1>6. /\ DOMAIN r = 1 .. Len(q) + 1 /\ DOMAIN q = 1 .. Len(q) /\ Len(q) \in Nat
      /\ r[1] = e /\ \A i \in 2 .. Len(q) + 1 : r[i] = q[i - 1]
      /\ \A i \in 1 .. Len(q) : r[i + 1] = q[i]
  BY <1>1, <1>2, <1>5
<1>7. Range(r) \subseteq Range(q) \cup {e}
  BY <1>3, <1>4, <1>6 DEF Range
<1>8. Range(q) \cup {e} \subseteq Range(r)
  <2>1. 1 \in DOMAIN r /\ \A i \in DOMAIN q : i + 1 \in DOMAIN r
    BY <1>6
  <2> QED BY <1>6, <2>1 DEF Range
<1> QED BY <1>1, <1>5, <1>7, <1>8

\* LTRIM keeps the front of the list.
LEMMA TrimmedFront ==
    ASSUME NEW q \in Sequence
    PROVE  /\ Trimmed(q) \in Sequence
           /\ Len(q) \in Nat /\ DOMAIN q = 1 .. Len(q)
           /\ Len(Trimmed(q)) = Lesser(Len(q), MaxEvents)
           /\ DOMAIN Trimmed(q) = 1 .. Len(Trimmed(q))
           /\ \A i \in 1 .. Len(Trimmed(q)) : Trimmed(q)[i] = q[i]
           /\ Range(Trimmed(q)) \subseteq Range(q)
<1>1. Len(q) \in Nat /\ DOMAIN q = 1 .. Len(q) /\ \A i \in 1 .. Len(q) : q[i] \in Events
  BY DEF Sequence
<1>2. PICK n \in Nat : n = Lesser(Len(q), MaxEvents) /\ n <= Len(q)
  <2>1. Lesser(Len(q), MaxEvents) \in Nat /\ Lesser(Len(q), MaxEvents) <= Len(q)
    BY <1>1, StorageAssumption DEF Lesser, StorageAssumption
  <2> QED BY <2>1
<1>3. Trimmed(q) = SubSeq(q, 1, n)
  BY <1>2 DEF Trimmed
<1>4. /\ SubSeq(q, 1, n) \in Seq(Events) /\ Len(SubSeq(q, 1, n)) = n
      /\ DOMAIN SubSeq(q, 1, n) = 1 .. n
      /\ \A i \in 1 .. n : SubSeq(q, 1, n)[i] = q[i]
  BY <1>1, <1>2 DEF Sequence
<1> QED BY <1>1, <1>2, <1>3, <1>4 DEF Range, Sequence

LEMMA FiniteRange == ASSUME NEW q \in Sequence PROVE IsFiniteSet(Range(q))
<1>1. Len(q) \in Nat /\ DOMAIN q = 1 .. Len(q) /\ q \in [1 .. Len(q) -> Range(q)]
  BY DEF Sequence, Range
<1>2. q \in Surjection(1 .. Len(q), Range(q))
  BY <1>1 DEF Surjection, Range
<1>3. IsFiniteSet(1 .. Len(q))
  BY <1>1, FS_Interval
<1> QED BY <1>2, <1>3, FS_Surjection

LEMMA FiniteUntrimmed ==
    ASSUME list \in Sequence
    PROVE  IsFiniteSet(Untrimmed) /\ Cardinality(Untrimmed) \in Nat
<1>1. Untrimmed \subseteq Range(list)
  BY DEF Untrimmed
<1> QED BY <1>1, FiniteRange, FS_Subset, FS_CardinalityType

-----------------------------------------------------------------------------
(* Types.                                                                  *)

LEMMA TypeInit == Init => TypeOK
<1> SUFFICES ASSUME Init PROVE TypeOK
  OBVIOUS
<1>1. home \in [Events -> Nodes]
  BY DEF Init
<1>2. <<>> \in Sequence
  BY DEF Sequence
<1>3. /\ link \in [Nodes -> BOOLEAN] /\ ttl \in BOOLEAN
      /\ wire \in [Nodes -> Sequence] /\ ets \in [Nodes -> Sequence]
      /\ list \in Sequence /\ pushed \in Sequence
  BY <1>2 DEF Init
<1>4. /\ loose \subseteq Events /\ dropped \subseteq Events
      /\ done \in [Events -> 0 .. 3]
      /\ op \in [Events -> {"idle", "sent", "fallback", "stored", "crashed"}]
  BY DEF Init
<1> QED BY <1>1, <1>3, <1>4 DEF TypeOK

\* The three commands, with what they do to the key.
LEMMA RedisType ==
    ASSUME TypeOK, NEW e \in Events, Lpush(e) \/ Ltrim(e) \/ SetExpire(e)
    PROVE  TypeOK'
<1> USE DEF TypeOK, connection
<1>1. /\ UNCHANGED <<link, wire, loose, op, home, ets>>
      /\ done' \in [Events -> 0 .. 3]
  <2>1. PICK k \in 0 .. 2 : Executes(e, k)
    BY DEF Lpush, Ltrim, SetExpire, Position
  <2>2. k + 1 \in 0 .. 3
    OBVIOUS
  <2> QED BY <2>1, <2>2 DEF Executes
<1>2. list' \in Sequence /\ pushed' \in Sequence /\ dropped' \subseteq Events
  <2>1. CASE Lpush(e)
    BY <2>1, Prepended, Appended DEF Lpush
  <2>2. CASE Ltrim(e)
    <3>1. Range(list) \subseteq Events
      BY DEF Sequence, Range
    <3> QED BY <2>2, <3>1, TrimmedFront DEF Ltrim
  <2>3. CASE SetExpire(e)
    BY <2>3 DEF SetExpire
  <2> QED BY <2>1, <2>2, <2>3
<1>3. ttl' \in BOOLEAN
  BY DEF Lpush, Ltrim, SetExpire
<1> QED BY <1>1, <1>2, <1>3

LEMMA TypeStep == TypeOK /\ [Next]_vars => TypeOK'
<1> SUFFICES ASSUME TypeOK, [Next]_vars PROVE TypeOK'
  OBVIOUS
<1>0. <<>> \in Sequence /\ \A q \in Sequence : q # <<>> => Head(q) \in Events /\ Tail(q) \in Sequence
  BY DEF Sequence
<1>r. \A q \in Sequence : Range(q) \subseteq Events
  BY DEF Sequence, Range
<1> USE DEF TypeOK, connection, redis
<1>1. ASSUME NEW e \in Events, NEW n \in Nodes, StoreEvent(e, n) PROVE TypeOK'
  <2>1. wire' \in [Nodes -> Sequence]
    <3>1. Append(wire[n], e) \in Sequence
      BY Appended
    <3>2. wire' = wire \/ wire' = [wire EXCEPT ![n] = Append(wire[n], e)]
      BY <1>1 DEF StoreEvent
    <3> QED BY <3>1, <3>2
  <2> QED BY <1>1, <2>1 DEF StoreEvent
<1>2. ASSUME NEW e \in Events, PipelineTimeout(e) \/ CutOff(e) PROVE TypeOK'
  BY <1>2 DEF PipelineTimeout, CutOff
<1>3. ASSUME NEW e \in Events, EtsInsert(e) PROVE TypeOK'
  <2>1. ets' = [ets EXCEPT ![home[e]] = Append(ets[home[e]], e)]
    BY <1>3 DEF EtsInsert, EtsRows
  <2>2. ets' \in [Nodes -> Sequence]
    BY <2>1, Appended
  <2> QED BY <1>3, <2>2 DEF EtsInsert
<1>4. ASSUME NEW n \in Nodes, PipelineReply(n) PROVE TypeOK'
  <2>1. wire' \in [Nodes -> Sequence]
    BY <1>0, <1>4 DEF PipelineReply
  <2>2. op' \in [Events -> {"idle", "sent", "fallback", "stored", "crashed"}]
    BY <1>0, <1>4 DEF PipelineReply
  <2> QED BY <1>4, <2>1, <2>2 DEF PipelineReply
<1>5. ASSUME NEW n \in Nodes, LinkDown(n) \/ LinkUp(n) \/ NodeCrash(n) PROVE TypeOK'
  <2>1. Unfinished(n) \subseteq Events
    BY <1>r DEF Unfinished
  <2>2. link' \in [Nodes -> BOOLEAN]
    BY <1>5 DEF LinkDown, LinkUp, NodeCrash
  <2>3. wire' \in [Nodes -> Sequence] /\ ets' \in [Nodes -> Sequence]
    <3>1. \/ wire' = wire
          \/ wire' = [wire EXCEPT ![n] = <<>>]
      BY <1>5 DEF LinkDown, LinkUp, NodeCrash
    <3>2. ets' = ets \/ ets' = [ets EXCEPT ![n] = <<>>]
      BY <1>5 DEF LinkDown, LinkUp, NodeCrash
    <3> QED BY <1>0, <3>1, <3>2
  <2>4. loose' \subseteq Events /\ dropped' \subseteq Events
    BY <1>r, <1>5, <2>1 DEF LinkDown, LinkUp, NodeCrash
  <2>5. op' \in [Events -> {"idle", "sent", "fallback", "stored", "crashed"}]
    BY <1>5 DEF LinkDown, LinkUp, NodeCrash
  <2>6. UNCHANGED <<home, done, list, ttl, pushed>>
    BY <1>5 DEF LinkDown, LinkUp, NodeCrash
  <2> QED BY <2>2, <2>3, <2>4, <2>5, <2>6
<1>6. CASE Expire
  BY <1>0, <1>r, <1>6 DEF Expire
<1>7. CASE RedisStep
  BY <1>7, RedisType DEF RedisStep
<1>8. CASE UNCHANGED vars
  BY <1>8 DEF vars
<1> QED BY <1>1, <1>2, <1>3, <1>4, <1>5, <1>6, <1>7, <1>8 DEF Next

-----------------------------------------------------------------------------
(* The list.                                                               *)

LEMMA HistoryInit == Init => HistoryInv
<1> SUFFICES ASSUME Init PROVE HistoryInv
  OBVIOUS
<1>1. /\ list = <<>> /\ pushed = <<>> /\ list \in Sequence /\ Len(list) = 0 /\ Len(pushed) = 0
  BY DEF Init, Sequence
<1>2. Range(list) = {}
  BY <1>1 DEF Range
<1>3. Bounds
  BY <1>1, FiniteUntrimmed, StorageAssumption DEF Bounds, Lesser, StorageAssumption
<1> QED BY <1>1, <1>2, <1>3 DEF HistoryInv, Executed, Window, IsInjective

LEMMA LpushHistory ==
    ASSUME TypeOK, HistoryInv, NEW e \in Events, Lpush(e)
    PROVE  HistoryInv'
<1> USE DEF TypeOK
<1>1. /\ list' = <<e>> \o list /\ pushed' = Append(pushed, e)
      /\ done[e] = 0 /\ done' = [done EXCEPT ![e] = 1]
  BY DEF Lpush, Executes, Position
<1>2. e \notin Range(list)
  BY <1>1 DEF HistoryInv, Executed
<1>3. /\ Len(list) \in Nat /\ Len(list') = Len(list) + 1
      /\ DOMAIN list = 1 .. Len(list) /\ DOMAIN list' = 1 .. Len(list) + 1
      /\ list'[1] = e /\ \A i \in 2 .. Len(list) + 1 : list'[i] = list[i - 1]
      /\ Range(list') = Range(list) \cup {e} /\ list' \in Sequence
  <2>1. PICK r : r = <<e>> \o list
    OBVIOUS
  <2>2. /\ Len(list) \in Nat /\ Len(r) = Len(list) + 1
        /\ DOMAIN list = 1 .. Len(list) /\ DOMAIN r = 1 .. Len(list) + 1
        /\ r[1] = e /\ \A i \in 2 .. Len(list) + 1 : r[i] = list[i - 1]
        /\ Range(r) = Range(list) \cup {e} /\ r \in Sequence
    BY <2>1, Prepended, Zenon
  <2> QED BY <1>1, <2>1, <2>2, Zenon
<1>4. /\ Len(pushed) \in Nat /\ Len(pushed') = Len(pushed) + 1
      /\ \A i \in 1 .. Len(pushed) : pushed'[i] = pushed[i]
      /\ pushed'[Len(pushed) + 1] = e
  BY <1>1, Appended
<1>5. Executed'
  <2>1. Range(list) \subseteq Events
    BY DEF Sequence, Range
  <2> QED BY <1>1, <1>3, <2>1 DEF HistoryInv, Executed
<1>6. Window'
  <2>1. Len(list) <= Len(pushed)
        /\ \A i \in 1 .. Len(list) : list[i] = pushed[(Len(pushed) - i) + 1]
    BY DEF HistoryInv, Window
  <2>2. ASSUME NEW i \in 1 .. Len(list) + 1 PROVE list'[i] = pushed'[(Len(pushed') - i) + 1]
    <3>1. CASE i = 1
      BY <1>3, <1>4, <3>1
    <3>2. CASE i # 1
      <4>1. i \in 2 .. Len(list) + 1 /\ i - 1 \in 1 .. Len(list)
        BY <1>3, <3>2
      <4>2. list'[i] = pushed[(Len(pushed) - (i - 1)) + 1]
        BY <1>3, <2>1, <4>1
      <4>3. /\ (Len(pushed) - (i - 1)) + 1 \in 1 .. Len(pushed)
            /\ (Len(pushed') - i) + 1 = (Len(pushed) - (i - 1)) + 1
        BY <1>3, <1>4, <2>1, <4>1
      <4> QED BY <1>4, <4>2, <4>3
    <3> QED BY <3>1, <3>2
  <2> QED BY <1>3, <1>4, <2>1, <2>2 DEF Window
<1>7. IsInjective(list)'
  <2>1. \A i \in 1 .. Len(list) : list[i] # e
    BY <1>2, <1>3 DEF Range
  <2>2. \A i \in 2 .. Len(list) + 1 : i - 1 \in 1 .. Len(list)
    BY <1>3
  <2>3. \A i \in 1 .. Len(list) + 1 : i = 1 \/ i \in 2 .. Len(list) + 1
    BY <1>3
  <2>4. ASSUME NEW i \in 1 .. Len(list) + 1, NEW j \in 1 .. Len(list) + 1, list'[i] = list'[j]
        PROVE  i = j
    <3>1. CASE i = 1 \/ j = 1
      BY <1>3, <2>1, <2>2, <2>3, <2>4, <3>1
    <3>2. CASE i \in 2 .. Len(list) + 1 /\ j \in 2 .. Len(list) + 1
      <4>1. list[i - 1] = list[j - 1]
        BY <1>3, <2>4, <3>2
      <4>2. i - 1 = j - 1
        BY <1>3, <2>2, <3>2, <4>1 DEF HistoryInv, IsInjective
      <4> QED BY <1>3, <4>2
    <3> QED BY <2>3, <3>1, <3>2
  <2> QED BY <1>3, <2>4 DEF IsInjective
<1>8. Bounds'
  <2>1. Untrimmed' = Untrimmed \cup {e} /\ e \notin Untrimmed
    <3>1. Range(list) \subseteq Events
      BY DEF Sequence, Range
    <3> QED BY <1>1, <1>2, <1>3, <3>1 DEF Untrimmed
  <2>2. IsFiniteSet(Untrimmed) /\ Cardinality(Untrimmed) \in Nat
    BY FiniteUntrimmed
  <2>3. Cardinality(Untrimmed') = Cardinality(Untrimmed) + 1
    BY <2>1, <2>2, FS_AddElement
  <2>4. MaxEvents \in Nat
    BY StorageAssumption DEF StorageAssumption
  <2> QED BY <1>3, <1>4, <2>2, <2>3, <2>4 DEF HistoryInv, Bounds, Lesser
<1> QED BY <1>5, <1>6, <1>7, <1>8 DEF HistoryInv

LEMMA LtrimHistory ==
    ASSUME TypeOK, HistoryInv, NEW e \in Events, Ltrim(e)
    PROVE  HistoryInv'
<1> USE DEF TypeOK
<1>1. /\ list' = Trimmed(list) /\ pushed' = pushed
      /\ done[e] = 1 /\ done' = [done EXCEPT ![e] = 2]
  BY DEF Ltrim, Executes, Position
<1>2. /\ list' \in Sequence /\ Len(list) \in Nat /\ DOMAIN list = 1 .. Len(list)
      /\ Len(list') = Lesser(Len(list), MaxEvents) /\ DOMAIN list' = 1 .. Len(list')
      /\ \A i \in 1 .. Len(list') : list'[i] = list[i]
      /\ Range(list') \subseteq Range(list) /\ Range(list) \subseteq Events
  <2>1. Range(list) \subseteq Events
    BY DEF Sequence, Range
  <2>2. PICK r : r = Trimmed(list)
    OBVIOUS
  <2>3. /\ r \in Sequence /\ Len(list) \in Nat /\ DOMAIN list = 1 .. Len(list)
        /\ Len(r) = Lesser(Len(list), MaxEvents) /\ DOMAIN r = 1 .. Len(r)
        /\ \A i \in 1 .. Len(r) : r[i] = list[i]
        /\ Range(r) \subseteq Range(list)
    BY <2>2, TrimmedFront, Zenon
  <2> QED BY <1>1, <2>1, <2>2, <2>3, Zenon
<1>3. MaxEvents \in Nat /\ Len(pushed) \in Nat
  BY StorageAssumption DEF StorageAssumption, Sequence
<1>4. Len(list') \in Nat /\ Len(list') <= Len(list) /\ Len(list') <= MaxEvents
  BY <1>2, <1>3 DEF Lesser
<1>5. Executed'
  BY <1>1, <1>2 DEF HistoryInv, Executed
<1>6. Window'
  <2>1. \A i \in 1 .. Len(list') : i \in 1 .. Len(list)
    BY <1>2, <1>4
  <2> QED BY <1>1, <1>2, <1>3, <1>4, <2>1 DEF HistoryInv, Window
<1>7. IsInjective(list)'
  <2>1. \A i \in 1 .. Len(list') : i \in 1 .. Len(list)
    BY <1>2, <1>4
  <2> QED BY <1>2, <2>1 DEF HistoryInv, IsInjective
<1>8. Bounds'
  <2>1. Cardinality(Untrimmed') \in Nat
    <3>1. Untrimmed' \subseteq Range(list')
      BY DEF Untrimmed
    <3> QED BY <1>2, <3>1, FiniteRange, FS_Subset, FS_CardinalityType
  <2>2. Len(list') <= MaxEvents + Cardinality(Untrimmed')
    BY <1>3, <1>4, <2>1
  <2>3. Len(list') >= Lesser(Len(pushed), MaxEvents)
    BY <1>2, <1>3 DEF HistoryInv, Bounds, Lesser
  <2> QED BY <1>1, <2>2, <2>3 DEF Bounds
<1> QED BY <1>5, <1>6, <1>7, <1>8 DEF HistoryInv

\* Steps that leave the list and the pushes alone and no LTRIM behind.
LEMMA ListStays ==
    ASSUME TypeOK, HistoryInv, UNCHANGED <<list, pushed>>,
           \A e \in Events : done'[e] >= 1 <=> done[e] >= 1,
           \A e \in Events : done'[e] < 2 <=> done[e] < 2
    PROVE  HistoryInv'
<1>1. Range(list) \subseteq Events
  BY DEF TypeOK, Sequence, Range
<1>2. Executed'
  BY <1>1 DEF HistoryInv, Executed
<1>3. Untrimmed' = Untrimmed
  BY <1>1 DEF Untrimmed
<1>4. Window' /\ IsInjective(list)'
  BY DEF HistoryInv, Window
<1>5. Bounds'
  BY <1>3 DEF HistoryInv, Bounds
<1> QED BY <1>2, <1>4, <1>5 DEF HistoryInv

LEMMA HistoryStep == TypeOK /\ HistoryInv /\ [Next]_vars => HistoryInv'
<1> SUFFICES ASSUME TypeOK, HistoryInv, [Next]_vars PROVE HistoryInv'
  OBVIOUS
<1>1. ASSUME NEW e \in Events, SetExpire(e) PROVE HistoryInv'
  <2>1. UNCHANGED <<list, pushed>> /\ done[e] = 2 /\ done' = [done EXCEPT ![e] = 3]
    BY <1>1 DEF SetExpire, Executes, Position
  <2>2. \A f \in Events : (done'[f] >= 1 <=> done[f] >= 1) /\ (done'[f] < 2 <=> done[f] < 2)
    BY <2>1 DEF TypeOK
  <2> QED BY <2>1, <2>2, ListStays
<1>2. CASE Expire
  <2>1. /\ list' = <<>> /\ pushed' = <<>> /\ Len(list') = 0 /\ Len(pushed') = 0
        /\ list' \in Sequence
    BY <1>2 DEF Expire, Sequence
  <2>2. Range(list') = {} /\ Untrimmed' = {}
    BY <2>1 DEF Range, Untrimmed
  <2>3. Bounds'
    BY <2>1, <2>2, FS_EmptySet, StorageAssumption DEF Bounds, Lesser, StorageAssumption
  <2> QED BY <2>1, <2>2, <2>3 DEF HistoryInv, Executed, Window, IsInjective
<1>3. CASE UNCHANGED <<done, list, pushed>>
  BY <1>3, ListStays
<1>4. ASSUME NEW e \in Events,
             \/ \E n \in Nodes : StoreEvent(e, n)
             \/ PipelineTimeout(e) \/ EtsInsert(e) \/ CutOff(e)
      PROVE  UNCHANGED <<done, list, pushed>>
  BY <1>4 DEF StoreEvent, PipelineTimeout, EtsInsert, CutOff, redis
<1>5. ASSUME NEW n \in Nodes,
             PipelineReply(n) \/ LinkDown(n) \/ LinkUp(n) \/ NodeCrash(n)
      PROVE  UNCHANGED <<done, list, pushed>>
  BY <1>5 DEF PipelineReply, LinkDown, LinkUp, NodeCrash, redis
<1>6. CASE RedisStep
  BY <1>1, <1>6, LpushHistory, LtrimHistory DEF RedisStep
<1>7. CASE UNCHANGED vars
  BY <1>3, <1>7 DEF vars, redis
<1> QED BY <1>2, <1>3, <1>4, <1>5, <1>6, <1>7 DEF Next

\* Index by index is what HistoryIsWindow says.
LEMMA WindowIsSuffix == TypeOK /\ HistoryInv => HistoryIsWindow
<1> SUFFICES ASSUME TypeOK, HistoryInv PROVE HistoryIsWindow
  OBVIOUS
<1>1. /\ Len(list) \in Nat /\ Len(pushed) \in Nat /\ Len(list) <= Len(pushed)
      /\ \A i \in 1 .. Len(list) : list[i] = pushed[(Len(pushed) - i) + 1]
      /\ \A i \in 1 .. Len(pushed) : pushed[i] \in Events
      /\ \A i \in 1 .. Len(list) : list[i] \in Events
  BY DEF TypeOK, HistoryInv, Window, Sequence
<1>2. PICK m \in Int : m = (Len(pushed) - Len(list)) + 1 /\ m >= 1
  <2>1. (Len(pushed) - Len(list)) + 1 \in Int /\ (Len(pushed) - Len(list)) + 1 >= 1
    BY <1>1
  <2> QED BY <2>1
<1>3. /\ SubSeq(pushed, m, Len(pushed)) \in Seq(Events)
      /\ Len(SubSeq(pushed, m, Len(pushed))) = Len(list)
      /\ \A i \in 1 .. Len(list) : SubSeq(pushed, m, Len(pushed))[i] = pushed[(m + i) - 1]
  <2>1. \A i \in m .. Len(pushed) : pushed[i] \in Events
    BY <1>1, <1>2
  <2>2. /\ SubSeq(pushed, m, Len(pushed)) \in Seq(Events)
        /\ Len(SubSeq(pushed, m, Len(pushed))) =
              IF m <= Len(pushed) THEN Len(pushed) - m + 1 ELSE 0
    BY <1>1, <1>2, <2>1, SubSeqProperties
  <2>3. Len(SubSeq(pushed, m, Len(pushed))) = Len(list)
    BY <1>1, <1>2, <2>2
  <2> QED BY <1>1, <1>2, <2>2, <2>3
<1>4. /\ Reverse(list) \in Seq(Events) /\ Len(Reverse(list)) = Len(list)
      /\ \A i \in 1 .. Len(list) : Reverse(list)[i] = list[(Len(list) - i) + 1]
  <2>1. \A i \in 1 .. Len(list) : (Len(list) - i) + 1 \in 1 .. Len(list)
    BY <1>1
  <2> QED BY <1>1, <2>1 DEF Reverse
<1>5. ASSUME NEW i \in 1 .. Len(list)
      PROVE  Reverse(list)[i] = SubSeq(pushed, m, Len(pushed))[i]
  <2>1. /\ (Len(list) - i) + 1 \in 1 .. Len(list)
        /\ (Len(pushed) - ((Len(list) - i) + 1)) + 1 = (m + i) - 1
    BY <1>1, <1>2
  <2> QED BY <1>1, <1>3, <1>4, <2>1
<1>6. Reverse(list) = SubSeq(pushed, m, Len(pushed))
  BY <1>3, <1>4, <1>5, SeqEqual
<1>7. Untrimmed = {e \in Range(list) : done[e] < 2}
  BY DEF Untrimmed
<1> QED BY <1>2, <1>6, <1>7 DEF HistoryIsWindow, HistoryInv, Bounds

-----------------------------------------------------------------------------
(* What is stored.                                                         *)

\* Redix never answers what the code expects, so only ETS makes a call end.
LEMMA NeverValid == ~ValidatePipelineResponses(LtrimReply)
  BY DEF ValidatePipelineResponses, LtrimReply

\* StoredIsKept, where it really comes from: the gateway's own table.
InTable ==
    \A e \in Events : op[e] = "stored" => e \in Range(ets[home[e]]) \cup dropped

LEMMA TableStep == TypeOK /\ InTable /\ [Next]_vars => InTable'
<1> SUFFICES ASSUME TypeOK, InTable, [Next]_vars PROVE InTable'
  OBVIOUS
<1> USE DEF TypeOK, InTable, connection, redis
<1>1. ASSUME NEW e \in Events, NEW n \in Nodes, StoreEvent(e, n) PROVE InTable'
  <2>1. /\ \A f \in Events : op'[f] = "stored" => f # e /\ op[f] = "stored"
        /\ \A f \in Events \ {e} : home'[f] = home[f]
        /\ ets' = ets /\ dropped' = dropped
    BY <1>1 DEF StoreEvent
  <2> QED BY <2>1
<1>2. ASSUME NEW e \in Events, PipelineTimeout(e) \/ CutOff(e) PROVE InTable'
  BY <1>2 DEF PipelineTimeout, CutOff
<1>3. ASSUME NEW e \in Events, EtsInsert(e) PROVE InTable'
  <2>1. /\ ets' = [ets EXCEPT ![home[e]] = Append(ets[home[e]], e)]
        /\ op' = [op EXCEPT ![e] = "stored"] /\ home' = home /\ dropped' = dropped
    BY <1>3 DEF EtsInsert, EtsRows
  <2>2. Range(Append(ets[home[e]], e)) = Range(ets[home[e]]) \cup {e}
    BY Appended
  <2>3. \A n \in Nodes : Range(ets[n]) \subseteq Range(ets'[n])
    BY <2>1, <2>2
  <2>4. e \in Range(ets'[home[e]])
    BY <2>1, <2>2
  <2> QED BY <2>1, <2>3, <2>4
<1>4. ASSUME NEW n \in Nodes, PipelineReply(n) PROVE InTable'
  <2>1. \A f \in Events : op'[f] = "stored" => op[f] = "stored"
    BY <1>4, NeverValid DEF PipelineReply
  <2> QED BY <1>4, <2>1 DEF PipelineReply
<1>5. ASSUME NEW n \in Nodes, LinkDown(n) \/ LinkUp(n) PROVE InTable'
  BY <1>5 DEF LinkDown, LinkUp
<1>6. ASSUME NEW n \in Nodes, NodeCrash(n) PROVE InTable'
  <2>1. /\ \A f \in Events : op'[f] = "stored" => op[f] = "stored"
        /\ home' = home /\ dropped' = dropped \cup Range(ets[n])
        /\ \A m \in Nodes \ {n} : ets'[m] = ets[m]
    BY <1>6 DEF NodeCrash
  <2> QED BY <2>1
<1>7. CASE RedisStep \/ Expire
  <2>1. UNCHANGED <<op, home, ets>> /\ dropped \subseteq dropped'
    BY <1>7 DEF RedisStep, Lpush, Ltrim, SetExpire, Executes, Expire
  <2> QED BY <2>1
<1>8. CASE UNCHANGED vars
  BY <1>8 DEF vars
<1> QED BY <1>1, <1>2, <1>3, <1>4, <1>5, <1>6, <1>7, <1>8 DEF Next

-----------------------------------------------------------------------------
(* What readers see.                                                       *)

\* The front of the front, and the front of a list to which an event is added.
LEMMA FrontOfTrimmed ==
    ASSUME NEW q \in Sequence, NEW n \in Nat
    PROVE  Abstract!Front(Trimmed(q), n) = SubSeq(q, 1, Lesser(Len(q), Lesser(n, MaxEvents)))
<1>1. PICK t : t = Trimmed(q)
  OBVIOUS
<1>2. /\ t \in Sequence /\ Len(q) \in Nat /\ DOMAIN q = 1 .. Len(q)
      /\ Len(t) = Lesser(Len(q), MaxEvents)
      /\ \A i \in 1 .. Len(t) : t[i] = q[i]
      /\ \A i \in 1 .. Len(q) : q[i] \in Events
  <2>1. \A i \in 1 .. Len(q) : q[i] \in Events
    BY DEF Sequence
  <2> QED BY <1>1, <2>1, TrimmedFront, Zenon
<1>3. MaxEvents \in Nat
  BY StorageAssumption DEF StorageAssumption
<1>4. PICK m \in Nat : /\ m = Lesser(Len(t), n) /\ m = Lesser(Len(q), Lesser(n, MaxEvents))
                       /\ m <= Len(t) /\ m <= Len(q)
  <2>1. /\ Lesser(Len(t), n) \in Nat /\ Lesser(Len(t), n) <= Len(t) /\ Len(t) <= Len(q)
        /\ Lesser(Len(t), n) = Lesser(Len(q), Lesser(n, MaxEvents))
    BY <1>2, <1>3 DEF Lesser
  <2> QED BY <1>2, <2>1
<1>5. ASSUME NEW r \in Sequence, m <= Len(r)
      PROVE  /\ SubSeq(r, 1, m) \in Seq(Events) /\ Len(SubSeq(r, 1, m)) = m
             /\ \A i \in 1 .. m : SubSeq(r, 1, m)[i] = r[i]
  BY <1>4, <1>5 DEF Sequence
<1>6. SubSeq(t, 1, m) = SubSeq(q, 1, m)
  <2>1. \A i \in 1 .. m : SubSeq(t, 1, m)[i] = SubSeq(q, 1, m)[i]
    <3>1. ASSUME NEW i \in 1 .. m PROVE i \in 1 .. Len(t)
      BY <1>2, <1>4
    <3> QED BY <1>2, <1>4, <1>5, <3>1
  <2> QED BY <1>2, <1>4, <1>5, <2>1, SeqEqual
<1>7. Abstract!Front(t, n) = SubSeq(t, 1, m)
  BY <1>4 DEF Abstract!Front, Lesser
<1> QED BY <1>1, <1>4, <1>6, <1>7

LEMMA TrimmedPrepended ==
    ASSUME NEW q \in Sequence, NEW e \in Events
    PROVE  Trimmed(<<e>> \o q) = Abstract!Front(<<e>> \o Trimmed(q), MaxEvents)
<1>1. PICK t : t = Trimmed(q)
  OBVIOUS
<1>2. PICK r : r = <<e>> \o q
  OBVIOUS
<1>3. PICK u : u = <<e>> \o t
  OBVIOUS
<1>4. /\ t \in Sequence /\ Len(q) \in Nat /\ Len(t) = Lesser(Len(q), MaxEvents)
      /\ \A i \in 1 .. Len(t) : t[i] = q[i]
  BY <1>1, TrimmedFront, Zenon
<1>5. /\ r \in Sequence /\ Len(r) = Len(q) + 1 /\ r[1] = e
      /\ \A i \in 2 .. Len(q) + 1 : r[i] = q[i - 1]
  BY <1>2, Prepended, Zenon
<1>6. /\ u \in Sequence /\ Len(u) = Len(t) + 1 /\ u[1] = e
      /\ \A i \in 2 .. Len(t) + 1 : u[i] = t[i - 1]
  BY <1>3, <1>4, Prepended, Zenon
<1>7. MaxEvents \in Nat
  BY StorageAssumption DEF StorageAssumption
<1>8. PICK m \in Nat : /\ m = Lesser(Len(r), MaxEvents) /\ m = Lesser(Len(u), MaxEvents)
                       /\ m <= Len(r) /\ m <= Len(u)
  <2>1. /\ Lesser(Len(r), MaxEvents) \in Nat /\ Lesser(Len(r), MaxEvents) <= Len(r)
        /\ Lesser(Len(r), MaxEvents) = Lesser(Len(u), MaxEvents)
        /\ Lesser(Len(r), MaxEvents) <= Len(u)
    BY <1>4, <1>5, <1>6, <1>7 DEF Lesser
  <2> QED BY <2>1
<1>9. ASSUME NEW s \in Sequence, m <= Len(s)
      PROVE  /\ SubSeq(s, 1, m) \in Seq(Events) /\ Len(SubSeq(s, 1, m)) = m
             /\ \A i \in 1 .. m : SubSeq(s, 1, m)[i] = s[i]
  BY <1>8, <1>9 DEF Sequence
<1>10. \A i \in 1 .. m : r[i] = u[i]
  <2>1. ASSUME NEW i \in 1 .. m, i # 1 PROVE r[i] = u[i]
    <3>1. i \in 2 .. Len(t) + 1 /\ i \in 2 .. Len(q) + 1 /\ i - 1 \in 1 .. Len(t)
      BY <1>4, <1>5, <1>6, <1>8, <2>1
    <3> QED BY <1>4, <1>5, <1>6, <3>1
  <2> QED BY <1>5, <1>6, <2>1
<1>11. SubSeq(r, 1, m) = SubSeq(u, 1, m)
  BY <1>5, <1>6, <1>8, <1>9, <1>10, SeqEqual
<1>12. Trimmed(r) = SubSeq(r, 1, m) /\ Abstract!Front(u, MaxEvents) = SubSeq(u, 1, m)
  BY <1>8 DEF Trimmed, Abstract!Front, Lesser
<1> QED BY <1>1, <1>2, <1>3, <1>11, <1>12

LEMMA TrimmedTwice == ASSUME NEW q \in Sequence PROVE Trimmed(Trimmed(q)) = Trimmed(q)
<1>1. MaxEvents \in Nat /\ Len(q) \in Nat
  BY StorageAssumption DEF StorageAssumption, Sequence
<1>2. Trimmed(Trimmed(q)) = Abstract!Front(Trimmed(q), MaxEvents)
  BY DEF Trimmed, Abstract!Front, Lesser
<1>3. Lesser(Len(q), Lesser(MaxEvents, MaxEvents)) = Lesser(Len(q), MaxEvents)
  BY <1>1 DEF Lesser
<1> QED BY <1>1, <1>2, <1>3, FrontOfTrimmed DEF Trimmed

\* The events that have been added.
Added == {e \in Events : done[e] > 0}

\* An LPUSH adds its event to what readers see; an LTRIM changes nothing of it.
LEMMA RedisRefines ==
    ASSUME TypeOK, NEW e \in Events, Lpush(e) \/ Ltrim(e) \/ SetExpire(e)
    PROVE  \/ /\ e \notin Added /\ Added' = Added \cup {e}
              /\ Trimmed(list)' = Abstract!Front(<<e>> \o Trimmed(list), MaxEvents)
           \/ Added' = Added /\ Trimmed(list)' = Trimmed(list)
<1> USE DEF TypeOK
<1>1. CASE Lpush(e)
  <2>1. list' = <<e>> \o list /\ done[e] = 0 /\ done' = [done EXCEPT ![e] = 1]
    BY <1>1 DEF Lpush, Executes, Position
  <2>2. e \notin Added /\ Added' = Added \cup {e}
    BY <2>1 DEF Added
  <2>3. Trimmed(<<e>> \o list) = Abstract!Front(<<e>> \o Trimmed(list), MaxEvents)
    BY TrimmedPrepended
  <2>4. Trimmed(list)' = Trimmed(<<e>> \o list)
    BY <2>1 DEF Trimmed
  <2> QED BY <2>2, <2>3, <2>4
<1>2. CASE Ltrim(e)
  <2>1. list' = Trimmed(list) /\ done[e] = 1 /\ done' = [done EXCEPT ![e] = 2]
    BY <1>2 DEF Ltrim, Executes, Position
  <2>2. Added' = Added
    BY <2>1 DEF Added
  <2>3. Trimmed(list)' = Trimmed(Trimmed(list))
    BY <2>1 DEF Trimmed
  <2> QED BY <2>2, <2>3, TrimmedTwice
<1>3. CASE SetExpire(e)
  <2>1. list' = list /\ done[e] = 2 /\ done' = [done EXCEPT ![e] = 3]
    BY <1>3 DEF SetExpire, Executes, Position
  <2>2. Added' = Added
    BY <2>1 DEF Added
  <2> QED BY <2>1, <2>2 DEF Trimmed
<1> QED BY <1>1, <1>2, <1>3

LEMMA EmptyTrimmed == Trimmed(<<>>) = <<>>
<1>1. <<>> \in Seq(Events) /\ Len(<<>>) = 0
  OBVIOUS
<1>2. Lesser(0, MaxEvents) = 0
  BY StorageAssumption DEF StorageAssumption, Lesser
<1>3. SubSeq(<<>>, 1, 0) = <<>>
  OBVIOUS
<1> QED BY <1>1, <1>2, <1>3 DEF Trimmed

LEMMA StepRefines == TypeOK /\ [Next]_vars => [Abstract!Next]_(Abstract!vars)
<1> SUFFICES ASSUME TypeOK, [Next]_vars PROVE [Abstract!Next]_(Abstract!vars)
  OBVIOUS
<1> DEFINE Stays == Added' = Added /\ Trimmed(list)' = Trimmed(list)
<1>1. Stays => [Abstract!Next]_(Abstract!vars)
  BY DEF Abstract!vars, Added, Trimmed
<1>2. CASE RedisStep
  <2>1. PICK e \in Events : Lpush(e) \/ Ltrim(e) \/ SetExpire(e)
    BY <1>2 DEF RedisStep
  <2>2. CASE /\ e \notin Added /\ Added' = Added \cup {e}
             /\ Trimmed(list)' = Abstract!Front(<<e>> \o Trimmed(list), MaxEvents)
    <3>1. Abstract!Add(e)
      BY <2>2 DEF Abstract!Add, Added, Trimmed
    <3> QED BY <3>1 DEF Abstract!Next
  <2> QED BY <1>1, <2>1, <2>2, RedisRefines
<1>3. CASE Expire
  <2>1. list' = <<>> /\ done' = done
    BY <1>3 DEF Expire
  <2>2. Trimmed(list)' = <<>> /\ Added' = Added
    BY <2>1, EmptyTrimmed DEF Trimmed, Added
  <2>3. Abstract!Forget
    BY <2>2 DEF Abstract!Forget, Added, Trimmed
  <2> QED BY <2>3 DEF Abstract!Next
<1>4. CASE UNCHANGED <<done, list>>
  <2>1. Stays
    BY <1>4 DEF Added, Trimmed
  <2> QED BY <1>1, <2>1
<1>5. ASSUME NEW e \in Events,
             \/ \E n \in Nodes : StoreEvent(e, n)
             \/ PipelineTimeout(e) \/ EtsInsert(e) \/ CutOff(e)
      PROVE  UNCHANGED <<done, list>>
  BY <1>5 DEF StoreEvent, PipelineTimeout, EtsInsert, CutOff, redis
<1>6. ASSUME NEW n \in Nodes,
             PipelineReply(n) \/ LinkDown(n) \/ LinkUp(n) \/ NodeCrash(n)
      PROVE  UNCHANGED <<done, list>>
  BY <1>6 DEF PipelineReply, LinkDown, LinkUp, NodeCrash, redis
<1>7. CASE UNCHANGED vars
  BY <1>4, <1>7 DEF vars, redis
<1> QED BY <1>2, <1>3, <1>4, <1>5, <1>6, <1>7 DEF Next

-----------------------------------------------------------------------------
(* Theorems.                                                               *)

\* The types, the shape of the list and the tables hold in every reachable state
\* (storage.ex:9-59).
THEOREM Invariance == Spec => [](TypeOK /\ HistoryInv /\ InTable)
<1>1. Init => TypeOK /\ HistoryInv /\ InTable
  BY TypeInit, HistoryInit DEF Init, InTable
<1>2. TypeOK /\ HistoryInv /\ InTable /\ [Next]_vars => (TypeOK /\ HistoryInv /\ InTable)'
  BY TypeStep, HistoryStep, TableStep
<1> QED BY <1>1, <1>2, PTL DEF Spec

\* For any number of gateways, events and any history_max_events, the list is an
\* unbroken run of the latest pushes, each once, and exceeds its bound by no more
\* than the pipelines that are between LPUSH and LTRIM (storage.ex:36-40).
THEOREM ListIsWindow == Spec => []HistoryIsWindow
<1>1. TypeOK /\ HistoryInv => HistoryIsWindow
  BY WindowIsSuffix
<1> QED BY Invariance, <1>1, PTL

\* For any number of gateways and events, what store_event has stored is in Redis
\* or its gateway's table unless trimming, expiry or a crash took it
\* (storage.ex:14-21).
THEOREM NothingVanishes == Spec => []StoredIsKept
<1>1. InTable => StoredIsKept
  BY DEF InTable, StoredIsKept
<1> QED BY Invariance, <1>1, PTL

\* For any gateways, events and history_max_events, pipelines that mix, time out or
\* break implement a history in which events are added one at a time and as a whole
\* (storage.ex:36-40).
THEOREM ImplementsHistory == Spec => KeepsHistory
<1>1. Init => Abstract!Init
  <2> SUFFICES ASSUME Init PROVE Abstract!Init
    OBVIOUS
  <2>1. list = <<>> /\ \A e \in Events : done[e] = 0
    BY DEF Init
  <2>2. Trimmed(list) = <<>> /\ Added = {}
    BY <2>1, EmptyTrimmed DEF Added
  <2> QED BY <2>2 DEF Abstract!Init, Added, Trimmed
<1> QED BY <1>1, Invariance, StepRefines, PTL DEF Spec, Abstract!Spec, KeepsHistory

\* Whatever the limit a reader gives, read_from_redis answers what the abstract history
\* remembers, oldest first: events that an LTRIM has yet to remove are not among them
\* (storage.ex:103-118).
THEOREM ReadersSeeLatest ==
    Spec => [](\A limit \in Int :
                  RedisHistory(limit) =
                      Reverse(Abstract!Latest(IF limit < 1 THEN 1 ELSE limit)))
<1>1. ASSUME TypeOK, NEW limit \in Int
      PROVE  RedisHistory(limit) = Reverse(Abstract!Latest(IF limit < 1 THEN 1 ELSE limit))
  <2>1. PICK n \in Nat : n = IF limit < 1 THEN 1 ELSE limit
    OBVIOUS
  <2>2. list \in Sequence
    BY <1>1 DEF TypeOK
  <2>3. Abstract!Latest(n) = Abstract!Front(Trimmed(list), n)
    BY DEF Abstract!Latest, Trimmed
  <2>4. Abstract!Latest(n) = SubSeq(list, 1, Lesser(Len(list), Lesser(n, MaxEvents)))
    BY <2>2, <2>3, FrontOfTrimmed
  <2> QED BY <2>1, <2>4 DEF RedisHistory
<1>2. TypeOK => \A limit \in Int :
                   RedisHistory(limit) =
                       Reverse(Abstract!Latest(IF limit < 1 THEN 1 ELSE limit))
  BY <1>1
<1> QED BY <1>2, Invariance, PTL
=============================================================================
