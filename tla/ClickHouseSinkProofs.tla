------------------------ MODULE ClickHouseSinkProofs ------------------------
(***************************************************************************)
(* Proofs about ClickHouseSink for any set of events, batch size and queue *)
(* capacity: types, the path of the events through channel and batch,      *)
(* Close, and the refinement of AnalyticsDelivery.                         *)
(***************************************************************************)
EXTENDS ClickHouseSink, SequenceTheorems, TLAPS

\* How far the shutdown has come: the writer drains only after Close, keeps
\* nothing when it has returned, and leaves the inner loop with everything
\* accepted before Close in its batch or behind it.
ClosingOrder ==
    /\ stopped <=> closer # "none"
    /\ pc \in {"drain", "final", "done"} => stopped
    /\ closer = "returned" => pc = "done"
    /\ pc = "done" => batch = <<>>
    /\ Len(acceptedAtClose) <= Len(accepted)
    /\ \A i \in 1 .. Len(acceptedAtClose) : accepted[i] = acceptedAtClose[i]
    /\ pc \in {"final", "done"} => Len(acceptedAtClose) <= Len(handed) + Len(batch)

\* The rows of the table and the inserts in doubt come from inserts tried.
RowsWereHanded ==
    /\ Range(rows) \subseteq Range(handed)
    /\ \A b \in landing : Range(b) \subseteq Range(handed)

\* No event is accepted twice, and no insert in doubt holds an event twice.
NoRepeats ==
    /\ Range(accepted) \subseteq offered
    /\ IsInjective(accepted)
    /\ \A b \in landing : IsInjective(b)

IInv ==
    /\ TypeOK
    /\ Conservation
    /\ BatchWithinSize
    /\ ClosingOrder
    /\ RowsWereHanded
    /\ NoRepeats
    /\ AtMostOneRow

-----------------------------------------------------------------------------
(* Facts about sequences.                                                  *)

LEMMA ConcatAppend ==
    ASSUME NEW S, NEW s \in Seq(S), NEW q \in Seq(S), NEW e \in S
    PROVE  s \o Append(q, e) = Append(s \o q, e)
<1>1. <<e>> \in Seq(S) /\ s \o q \in Seq(S)
  BY ConcatProperties
<1>2. Append(q, e) = q \o <<e>> /\ Append(s \o q, e) = (s \o q) \o <<e>>
  BY <1>1, AppendIsConcat
<1>3. (s \o q) \o <<e>> = s \o (q \o <<e>>)
  BY <1>1, ConcatAssociative
<1> QED BY <1>2, <1>3

\* Taking the head of q to the end of b does not change b \o q.
LEMMA MoveHead ==
    ASSUME NEW S, NEW b \in Seq(S), NEW q \in Seq(S), q # <<>>
    PROVE  Append(b, Head(q)) \o Tail(q) = b \o q
<1> DEFINE l == Append(b, Head(q)) \o Tail(q)
           r == b \o q
<1>1. /\ Head(q) \in S /\ Tail(q) \in Seq(S)
      /\ Len(q) \in Nat \ {0} /\ Len(Tail(q)) = Len(q) - 1
      /\ Head(q) = q[1]
      /\ \A i \in 1 .. Len(q) - 1 : Tail(q)[i] = q[i + 1]
  BY HeadTailProperties, EmptySeq
<1>2. /\ Append(b, Head(q)) \in Seq(S)
      /\ Len(Append(b, Head(q))) = Len(b) + 1
      /\ \A i \in 1 .. Len(b) : Append(b, Head(q))[i] = b[i]
      /\ Append(b, Head(q))[Len(b) + 1] = Head(q)
  BY <1>1, AppendProperties
<1>3. Len(b) \in Nat
  OBVIOUS
<1>4. /\ l \in Seq(S) /\ Len(l) = Len(b) + Len(q)
      /\ \A i \in 1 .. Len(b) + Len(q) :
            l[i] = IF i <= Len(b) + 1 THEN Append(b, Head(q))[i]
                                      ELSE Tail(q)[i - (Len(b) + 1)]
  BY <1>1, <1>2, <1>3, ConcatProperties
<1>5. /\ r \in Seq(S) /\ Len(r) = Len(b) + Len(q)
      /\ \A i \in 1 .. Len(b) + Len(q) :
            r[i] = IF i <= Len(b) THEN b[i] ELSE q[i - Len(b)]
  BY ConcatProperties
<1> HIDE DEF l, r
<1>6. ASSUME NEW i \in 1 .. Len(b) + Len(q) PROVE l[i] = r[i]
  <2>1. CASE i <= Len(b)
    BY <1>2, <1>3, <1>4, <1>5, <2>1
  <2>2. CASE i = Len(b) + 1
    BY <1>1, <1>2, <1>3, <1>4, <1>5, <2>2
  <2>3. CASE i > Len(b) + 1
    <3>1. l[i] = Tail(q)[i - (Len(b) + 1)] /\ r[i] = q[i - Len(b)]
      BY <1>1, <1>3, <1>4, <1>5, <2>3
    <3>2. i - (Len(b) + 1) \in 1 .. Len(q) - 1
      BY <1>1, <1>3, <2>3
    <3>3. Tail(q)[i - (Len(b) + 1)] = q[(i - (Len(b) + 1)) + 1]
      BY <1>1, <3>2
    <3>4. (i - (Len(b) + 1)) + 1 = i - Len(b)
      BY <1>3
    <3> QED BY <3>1, <3>3, <3>4
  <2> QED BY <1>1, <1>3, <2>1, <2>2, <2>3
<1>7. l = r
  BY <1>4, <1>5, <1>6, SeqEqual
<1> QED BY <1>7 DEF l, r

\* The elements of a concatenation.
LEMMA RangeConcat ==
    ASSUME NEW S, NEW s \in Seq(S), NEW t \in Seq(S)
    PROVE  Range(s \o t) = Range(s) \cup Range(t)
<1>1. /\ s \o t \in Seq(S)
      /\ DOMAIN (s \o t) = 1 .. Len(s) + Len(t)
      /\ Len(s) \in Nat /\ Len(t) \in Nat
      /\ DOMAIN s = 1 .. Len(s) /\ DOMAIN t = 1 .. Len(t)
      /\ \A i \in 1 .. Len(s) + Len(t) :
            (s \o t)[i] = IF i <= Len(s) THEN s[i] ELSE t[i - Len(s)]
  BY ConcatProperties, LenProperties
<1>2. ASSUME NEW x \in Range(s \o t) PROVE x \in Range(s) \cup Range(t)
  <2>1. PICK i \in 1 .. Len(s) + Len(t) : x = (s \o t)[i]
    BY <1>1 DEF Range
  <2>2. CASE i <= Len(s)
    BY <1>1, <2>1, <2>2 DEF Range
  <2>3. CASE i > Len(s)
    <3>1. x = t[i - Len(s)] /\ i - Len(s) \in 1 .. Len(t)
      BY <1>1, <2>1, <2>3
    <3> QED BY <1>1, <3>1 DEF Range
  <2> QED BY <1>1, <2>2, <2>3
<1>3. ASSUME NEW x \in Range(s) PROVE x \in Range(s \o t)
  <2>1. PICK i \in 1 .. Len(s) : x = s[i]
    BY <1>1 DEF Range
  <2>2. i \in 1 .. Len(s) + Len(t) /\ (s \o t)[i] = x
    BY <1>1, <2>1
  <2> QED BY <1>1, <2>2 DEF Range
<1>4. ASSUME NEW x \in Range(t) PROVE x \in Range(s \o t)
  <2>1. PICK i \in 1 .. Len(t) : x = t[i]
    BY <1>1 DEF Range
  <2>2. i + Len(s) \in 1 .. Len(s) + Len(t) /\ (i + Len(s)) - Len(s) = i
        /\ ~(i + Len(s) <= Len(s))
    BY <1>1
  <2>3. (s \o t)[i + Len(s)] = x
    BY <1>1, <2>1, <2>2
  <2> QED BY <1>1, <2>2, <2>3 DEF Range
<1> QED BY <1>2, <1>3, <1>4

\* When a concatenation repeats no element.
LEMMA InjectiveConcat ==
    ASSUME NEW S, NEW s \in Seq(S), NEW t \in Seq(S)
    PROVE  IsInjective(s \o t)
              <=> IsInjective(s) /\ IsInjective(t) /\ Range(s) \cap Range(t) = {}
<1> DEFINE u == s \o t
<1>1. /\ DOMAIN u = 1 .. Len(s) + Len(t)
      /\ Len(s) \in Nat /\ Len(t) \in Nat
      /\ DOMAIN s = 1 .. Len(s) /\ DOMAIN t = 1 .. Len(t)
      /\ \A i \in 1 .. Len(s) : i \in DOMAIN u /\ u[i] = s[i]
      /\ \A i \in 1 .. Len(t) : Len(s) + i \in DOMAIN u /\ u[Len(s) + i] = t[i]
      /\ \A i \in 1 .. Len(s) + Len(t) :
            i <= Len(s) \/ (i - Len(s) \in 1 .. Len(t) /\ u[i] = t[i - Len(s)])
  <2>1. /\ DOMAIN u = 1 .. Len(s) + Len(t)
        /\ Len(s) \in Nat /\ Len(t) \in Nat
        /\ DOMAIN s = 1 .. Len(s) /\ DOMAIN t = 1 .. Len(t)
        /\ \A i \in 1 .. Len(s) + Len(t) :
              u[i] = IF i <= Len(s) THEN s[i] ELSE t[i - Len(s)]
    BY ConcatProperties, LenProperties
  <2> HIDE DEF u
  <2>2. \A i \in 1 .. Len(s) : i \in DOMAIN u /\ u[i] = s[i]
    BY <2>1
  <2>3. ASSUME NEW i \in 1 .. Len(t) PROVE Len(s) + i \in DOMAIN u /\ u[Len(s) + i] = t[i]
    <3>1. Len(s) + i \in 1 .. Len(s) + Len(t) /\ ~(Len(s) + i <= Len(s))
          /\ (Len(s) + i) - Len(s) = i
      BY <2>1
    <3> QED BY <2>1, <3>1
  <2>4. \A i \in 1 .. Len(s) + Len(t) :
            i <= Len(s) \/ (i - Len(s) \in 1 .. Len(t) /\ u[i] = t[i - Len(s)])
    BY <2>1
  <2> QED BY <2>1, <2>2, <2>3, <2>4
<1> HIDE DEF u
<1>2. ASSUME IsInjective(u)
      PROVE  IsInjective(s) /\ IsInjective(t) /\ Range(s) \cap Range(t) = {}
  <2>1. IsInjective(s)
    BY <1>1, <1>2 DEF IsInjective
  <2>2. ASSUME NEW i \in 1 .. Len(t), NEW j \in 1 .. Len(t), t[i] = t[j] PROVE i = j
    <3>1. Len(s) + i = Len(s) + j
      BY <1>1, <1>2, <2>2 DEF IsInjective
    <3> QED BY <1>1, <3>1
  <2>3. ASSUME NEW i \in 1 .. Len(s), NEW j \in 1 .. Len(t), s[i] = t[j] PROVE FALSE
    <3>1. i = Len(s) + j
      BY <1>1, <1>2, <2>3 DEF IsInjective
    <3> QED BY <1>1, <3>1
  <2>4. IsInjective(t)
    BY <1>1, <2>2 DEF IsInjective
  <2>5. Range(s) \cap Range(t) = {}
    BY <1>1, <2>3 DEF Range
  <2> QED BY <2>1, <2>4, <2>5
<1>3. ASSUME IsInjective(s), IsInjective(t), Range(s) \cap Range(t) = {}
      PROVE  IsInjective(u)
  <2>1. \A i \in 1 .. Len(s), j \in 1 .. Len(t) : s[i] # t[j]
    BY <1>1, <1>3 DEF Range
  <2>2. SUFFICES ASSUME NEW i \in 1 .. Len(s) + Len(t), NEW j \in 1 .. Len(s) + Len(t),
                        u[i] = u[j]
                 PROVE  i = j
    BY <1>1 DEF IsInjective
  <2>3. CASE i <= Len(s) /\ j <= Len(s)
    <3>1. i \in 1 .. Len(s) /\ j \in 1 .. Len(s)
      BY <1>1, <2>3
    <3>2. s[i] = s[j]
      BY <1>1, <2>2, <3>1
    <3> QED BY <1>1, <1>3, <3>1, <3>2 DEF IsInjective
  <2>4. CASE i <= Len(s) /\ j > Len(s)
    <3>1. i \in 1 .. Len(s) /\ j - Len(s) \in 1 .. Len(t) /\ u[j] = t[j - Len(s)]
      BY <1>1, <2>4
    <3> QED BY <1>1, <2>1, <2>2, <3>1
  <2>5. CASE i > Len(s) /\ j <= Len(s)
    <3>1. j \in 1 .. Len(s) /\ i - Len(s) \in 1 .. Len(t) /\ u[i] = t[i - Len(s)]
      BY <1>1, <2>5
    <3> QED BY <1>1, <2>1, <2>2, <3>1
  <2>6. CASE i > Len(s) /\ j > Len(s)
    <3>1. /\ i - Len(s) \in 1 .. Len(t) /\ u[i] = t[i - Len(s)]
          /\ j - Len(s) \in 1 .. Len(t) /\ u[j] = t[j - Len(s)]
      BY <1>1, <2>6
    <3>2. i - Len(s) = j - Len(s)
      BY <1>1, <1>3, <2>2, <3>1 DEF IsInjective
    <3> QED BY <1>1, <3>2
  <2> QED BY <1>1, <2>3, <2>4, <2>5, <2>6
<1> QED BY <1>2, <1>3 DEF u

-----------------------------------------------------------------------------
(* Types.                                                                  *)

LEMMA InitInv == Init => IInv
<1> SUFFICES ASSUME Init PROVE IInv
  OBVIOUS
<1> USE SinkAssumption DEF SinkAssumption, Init
<1>1. TypeOK
  <2>1. <<>> \in Seq(Events) /\ Len(<<>>) = 0
    BY EmptySeq
  <2>2. queue \in Seq(Events) /\ Len(queue) <= QueueSize
    BY <2>1
  <2>3. /\ batch \in Seq(Events) /\ rows \in Seq(Events) /\ accepted \in Seq(Events)
        /\ handed \in Seq(Events) /\ acceptedAtClose \in Seq(Events)
    BY <2>1
  <2>4. landing \subseteq Seq(Events) /\ offered \subseteq Events
    OBVIOUS
  <2> QED BY <2>2, <2>3, <2>4 DEF TypeOK
<1>2. Conservation
  BY ConcatEmptySeq, EmptySeq DEF Conservation
<1>3. BatchWithinSize /\ ClosingOrder
  BY EmptySeq DEF BatchWithinSize, ClosingOrder
<1>4. RowsWereHanded
  BY DEF RowsWereHanded
<1>5. DOMAIN <<>> = {}
  BY EmptySeq
<1>6. IsInjective(<<>>) /\ Range(<<>>) = {}
  BY <1>5 DEF IsInjective, Range
<1>7. NoRepeats /\ AtMostOneRow
  BY <1>6 DEF NoRepeats, AtMostOneRow
<1> QED BY <1>1, <1>2, <1>3, <1>4, <1>7 DEF IInv

LEMMA TypeStep == TypeOK /\ [Next]_vars => TypeOK'
<1> SUFFICES ASSUME TypeOK, [Next]_vars PROVE TypeOK'
  OBVIOUS
<1> USE SinkAssumption DEF SinkAssumption, TypeOK, writerVars, dbVars, closeVars
<1>1. ASSUME NEW e \in Events, WriteEvent(e) PROVE TypeOK'
  <2>1. CASE HasRoom
    <3>1. /\ Append(queue, e) \in Seq(Events)
          /\ Append(accepted, e) \in Seq(Events)
          /\ Len(Append(queue, e)) = Len(queue) + 1
          /\ Len(queue) \in Nat
      BY AppendProperties, LenProperties
    <3>2. /\ queue' = Append(queue, e) /\ accepted' = Append(accepted, e)
          /\ offered' \subseteq Events
          /\ UNCHANGED <<writerVars, ticked, closeVars, dbVars, handed>>
      BY <1>1, <2>1 DEF WriteEvent
    <3>3. Len(queue') <= QueueSize
      BY <2>1, <3>1, <3>2 DEF HasRoom
    <3> QED BY <3>1, <3>2, <3>3
  <2>2. CASE ~HasRoom
    BY <1>1, <2>2 DEF WriteEvent
  <2> QED BY <2>1, <2>2
<1>2. CASE Close
  BY <1>2 DEF Close
<1>3. CASE CloseReturns
  BY <1>3 DEF CloseReturns
<1>4. ASSUME queue # <<>>
      PROVE  /\ Tail(queue) \in Seq(Events) /\ Len(Tail(queue)) <= QueueSize
             /\ Append(batch, Head(queue)) \in Seq(Events)
  <2>1. /\ Head(queue) \in Events /\ Tail(queue) \in Seq(Events)
        /\ Len(Tail(queue)) = Len(queue) - 1 /\ Len(queue) \in Nat
    BY <1>4, HeadTailProperties, LenProperties
  <2> QED BY <2>1, AppendProperties
<1>5. CASE TakeEvent
  BY <1>4, <1>5 DEF TakeEvent
<1>6. CASE TakeTick
  BY <1>6 DEF TakeTick
<1>7. CASE TakeStop
  BY <1>7 DEF TakeStop
<1>8. CASE DrainEvent
  BY <1>4, <1>8 DEF DrainEvent
<1>9. CASE DrainEnd
  BY <1>9 DEF DrainEnd
<1>10. CASE FlushEnds
  <2>1. rows \o batch \in Seq(Events) /\ handed \o batch \in Seq(Events)
        /\ <<>> \in Seq(Events)
    BY ConcatProperties, EmptySeq
  <2> QED BY <1>10, <2>1 DEF FlushEnds, BatchAfter
<1>11. CASE TickerFires
  BY <1>11 DEF TickerFires
<1>12. CASE Land
  <2>1. \A b \in landing : rows \o b \in Seq(Events)
    BY ConcatProperties
  <2> QED BY <1>12, <2>1 DEF Land
<1>13. CASE UNCHANGED vars
  BY <1>13 DEF vars
<1> QED BY <1>1, <1>2, <1>3, <1>5, <1>6, <1>7, <1>8, <1>9, <1>10, <1>11, <1>12, <1>13
           DEF Next, WriterStep

-----------------------------------------------------------------------------
(* The path of the events.                                                 *)

LEMMA ConservationStep ==
    TypeOK /\ Conservation /\ [Next]_vars => Conservation'
<1> SUFFICES ASSUME TypeOK, Conservation, [Next]_vars PROVE Conservation'
  OBVIOUS
<1> USE DEF writerVars, dbVars, closeVars
<1>a. /\ queue \in Seq(Events) /\ batch \in Seq(Events) /\ handed \in Seq(Events)
      /\ accepted \in Seq(Events)
      /\ handed \o batch \in Seq(Events)
      /\ accepted = (handed \o batch) \o queue
  BY ConcatProperties DEF TypeOK, Conservation
<1>1. ASSUME NEW e \in Events, WriteEvent(e) PROVE Conservation'
  <2>1. CASE HasRoom
    <3>1. (handed \o batch) \o Append(queue, e) = Append(accepted, e)
      BY <1>a, ConcatAppend
    <3> QED BY <1>1, <2>1, <3>1 DEF WriteEvent, Conservation
  <2>2. CASE ~HasRoom
    BY <1>1, <2>2 DEF WriteEvent, Conservation
  <2> QED BY <2>1, <2>2
<1>2. ASSUME queue # <<>>, queue' = Tail(queue), batch' = Append(batch, Head(queue)),
             UNCHANGED <<accepted, handed>>
      PROVE  Conservation'
  <2>1. /\ Head(queue) \in Events /\ Tail(queue) \in Seq(Events)
        /\ Append(batch, Head(queue)) \in Seq(Events)
    BY <1>2, <1>a, HeadTailProperties, AppendProperties
  <2>2. Append(batch, Head(queue)) \o Tail(queue) = batch \o queue
    BY <1>2, <1>a, MoveHead
  <2>3. (handed \o batch) \o queue = handed \o (batch \o queue)
    BY <1>a, ConcatAssociative
  <2>4. (handed \o Append(batch, Head(queue))) \o Tail(queue)
           = handed \o (Append(batch, Head(queue)) \o Tail(queue))
    <3>1. handed \in Seq(Events)
      BY <1>a
    <3>2. PICK b, q : b = Append(batch, Head(queue)) /\ q = Tail(queue)
      OBVIOUS
    <3>3. b \in Seq(Events) /\ q \in Seq(Events)
      BY <2>1, <3>2
    <3>4. (handed \o b) \o q = handed \o (b \o q)
      BY <3>1, <3>3, ConcatAssociative
    <3> QED BY <3>2, <3>4
  <2> QED BY <1>2, <1>a, <2>2, <2>3, <2>4 DEF Conservation
<1>3. CASE TakeEvent
  BY <1>2, <1>3 DEF TakeEvent
<1>4. CASE DrainEvent
  BY <1>2, <1>4 DEF DrainEvent
<1>5. CASE FlushEnds
  <2>1. (handed \o batch) \o <<>> = handed \o batch
    BY <1>a, ConcatEmptySeq
  <2>2. batch' = <<>> /\ handed' = handed \o batch /\ queue' = queue /\ accepted' = accepted
    BY <1>5 DEF FlushEnds, BatchAfter
  <2> QED BY <1>a, <2>1, <2>2 DEF Conservation
<1>6. CASE Close \/ CloseReturns \/ TakeTick \/ TakeStop \/ DrainEnd \/ TickerFires \/ Land
  BY <1>6 DEF Close, CloseReturns, TakeTick, TakeStop, DrainEnd, TickerFires, Land, Conservation
<1>7. CASE UNCHANGED vars
  BY <1>7 DEF vars, Conservation
<1> QED BY <1>1, <1>3, <1>4, <1>5, <1>6, <1>7 DEF Next, WriterStep

LEMMA BatchStep ==
    TypeOK /\ BatchWithinSize /\ [Next]_vars => BatchWithinSize'
<1> SUFFICES ASSUME TypeOK, BatchWithinSize, [Next]_vars PROVE BatchWithinSize'
  OBVIOUS
<1> USE SinkAssumption DEF SinkAssumption, BatchWithinSize, writerVars, dbVars, closeVars
<1>a. batch \in Seq(Events) /\ queue \in Seq(Events) /\ Len(batch) \in Nat
  BY LenProperties DEF TypeOK
<1>1. ASSUME NEW e \in Events, WriteEvent(e) PROVE BatchWithinSize'
  BY <1>1 DEF WriteEvent
<1>2. CASE TakeEvent
  <2>1. Len(batch') = Len(batch) + 1
    BY <1>2, <1>a, HeadTailProperties, AppendProperties DEF TakeEvent
  <2> QED BY <1>2, <1>a, <2>1 DEF TakeEvent, BatchFull
<1>3. CASE TakeTick
  <2>1. batch # <<>> => Len(batch) >= 1
    BY <1>a, EmptySeq
  <2> QED BY <1>3, <1>a, <2>1 DEF TakeTick
<1>4. CASE FlushEnds
  <2>1. Len(<<>>) = 0
    BY EmptySeq
  <2> QED BY <1>4, <2>1 DEF FlushEnds, BatchAfter
<1>5. CASE Close \/ CloseReturns \/ TakeStop \/ DrainEvent \/ DrainEnd \/ TickerFires \/ Land
  BY <1>5 DEF Close, CloseReturns, TakeStop, DrainEvent, DrainEnd, TickerFires, Land
<1>6. CASE UNCHANGED vars
  BY <1>6 DEF vars
<1> QED BY <1>1, <1>2, <1>3, <1>4, <1>5, <1>6 DEF Next, WriterStep

-----------------------------------------------------------------------------
(* Close.                                                                  *)

\* Lengths on the path of the events.
LEMMA Lengths ==
    ASSUME TypeOK, Conservation
    PROVE  /\ Len(accepted) = Len(handed) + Len(batch) + Len(queue)
           /\ Len(handed) \in Nat /\ Len(batch) \in Nat /\ Len(queue) \in Nat
           /\ Len(acceptedAtClose) \in Nat
           /\ \A i \in 1 .. Len(handed) : accepted[i] = handed[i]
<1>1. /\ queue \in Seq(Events) /\ batch \in Seq(Events) /\ handed \in Seq(Events)
      /\ acceptedAtClose \in Seq(Events)
      /\ accepted = (handed \o batch) \o queue
  BY DEF TypeOK, Conservation
<1>2. /\ Len(handed) \in Nat /\ Len(batch) \in Nat /\ Len(queue) \in Nat
      /\ Len(acceptedAtClose) \in Nat
  BY <1>1, LenProperties
<1>3. /\ handed \o batch \in Seq(Events)
      /\ Len(handed \o batch) = Len(handed) + Len(batch)
      /\ \A i \in 1 .. Len(handed) + Len(batch) :
            (handed \o batch)[i] = IF i <= Len(handed) THEN handed[i]
                                                       ELSE batch[i - Len(handed)]
  BY <1>1, ConcatProperties
<1>4. /\ Len(accepted) = Len(handed \o batch) + Len(queue)
      /\ \A i \in 1 .. Len(handed \o batch) + Len(queue) :
            accepted[i] = IF i <= Len(handed \o batch) THEN (handed \o batch)[i]
                          ELSE queue[i - Len(handed \o batch)]
  BY <1>1, <1>3, ConcatProperties
<1>5. \A i \in 1 .. Len(handed) : accepted[i] = handed[i]
  BY <1>2, <1>3, <1>4
<1> QED BY <1>2, <1>3, <1>4, <1>5

LEMMA ClosingStep == IInv /\ [Next]_vars => ClosingOrder'
<1> SUFFICES ASSUME IInv, [Next]_vars PROVE ClosingOrder'
  OBVIOUS
<1> USE DEF IInv, ClosingOrder, writerVars, dbVars, closeVars
<1>a. /\ Len(accepted) = Len(handed) + Len(batch) + Len(queue)
      /\ Len(handed) \in Nat /\ Len(batch) \in Nat /\ Len(queue) \in Nat
      /\ Len(acceptedAtClose) \in Nat
  BY Lengths
<1>b. batch \in Seq(Events) /\ queue \in Seq(Events) /\ handed \in Seq(Events)
      /\ accepted \in Seq(Events) /\ closer \in {"none", "waiting", "returned"}
      /\ pc \in {"select", "flush", "drain", "final", "done"}
  BY DEF TypeOK
<1>1. ASSUME NEW e \in Events, WriteEvent(e) PROVE ClosingOrder'
  <2>1. CASE HasRoom
    <3>0. accepted' = Append(accepted, e)
      BY <1>1, <2>1 DEF WriteEvent
    <3>1. /\ Len(accepted') = Len(accepted) + 1
          /\ \A i \in 1 .. Len(accepted) : accepted'[i] = accepted[i]
      BY <3>0, <1>b, AppendProperties
    <3>2. /\ Len(acceptedAtClose) <= Len(accepted')
          /\ \A i \in 1 .. Len(acceptedAtClose) : accepted'[i] = acceptedAtClose[i]
      BY <1>a, <3>1
    <3> QED BY <1>1, <3>2 DEF WriteEvent
  <2>2. CASE ~HasRoom
    BY <1>1, <2>2 DEF WriteEvent
  <2> QED BY <2>1, <2>2
<1>2. CASE Close
  BY <1>2, <1>a, <1>b DEF Close
<1>3. CASE CloseReturns
  BY <1>3 DEF CloseReturns
<1>4. CASE TakeEvent
  BY <1>4, <1>b DEF TakeEvent
<1>5. CASE TakeTick
  BY <1>5, <1>b DEF TakeTick
<1>6. CASE TakeStop
  BY <1>6, <1>b DEF TakeStop
<1>7. CASE DrainEvent
  BY <1>7, <1>b DEF DrainEvent
<1>8. CASE DrainEnd
  <2>1. Len(queue) = 0
    BY <1>8, EmptySeq DEF DrainEnd
  <2> QED BY <1>8, <1>a, <1>b, <2>1 DEF DrainEnd
<1>9. CASE FlushEnds
  <2>1. Len(handed') = Len(handed) + Len(batch) /\ Len(batch') = 0
    BY <1>9, <1>b, ConcatProperties, EmptySeq DEF FlushEnds, BatchAfter
  <2>2. batch' = <<>> /\ UNCHANGED <<closeVars, accepted>>
    BY <1>9 DEF FlushEnds, BatchAfter
  <2>3. \/ pc = "flush" /\ pc' = "select"
        \/ pc = "final" /\ pc' = "done"
    BY <1>9 DEF FlushEnds
  <2> QED BY <1>a, <2>1, <2>2, <2>3
<1>10. CASE TickerFires \/ Land
  BY <1>10 DEF TickerFires, Land
<1>11. CASE UNCHANGED vars
  BY <1>11 DEF vars
<1> QED BY <1>1, <1>2, <1>3, <1>4, <1>5, <1>6, <1>7, <1>8, <1>9, <1>10, <1>11
           DEF Next, WriterStep

-----------------------------------------------------------------------------
(* The table.                                                              *)

\* The batch holds no event of an earlier insert, and none twice.
LEMMA BatchIsFresh ==
    ASSUME TypeOK, Conservation, NoRepeats
    PROVE  /\ IsInjective(batch)
           /\ Range(handed) \cap Range(batch) = {}
           /\ Range(handed \o batch) = Range(handed) \cup Range(batch)
<1>1. /\ handed \in Seq(Events) /\ batch \in Seq(Events) /\ queue \in Seq(Events)
      /\ handed \o batch \in Seq(Events)
  BY ConcatProperties DEF TypeOK
<1>2. IsInjective((handed \o batch) \o queue)
  BY DEF Conservation, NoRepeats
<1>3. IsInjective(handed \o batch)
  BY <1>1, <1>2, InjectiveConcat
<1>4. IsInjective(batch) /\ Range(handed) \cap Range(batch) = {}
  BY <1>1, <1>3, InjectiveConcat
<1> QED BY <1>1, <1>4, RangeConcat

LEMMA NoRepeatsStep ==
    TypeOK /\ Conservation /\ NoRepeats /\ [Next]_vars => NoRepeats'
<1> SUFFICES ASSUME TypeOK, Conservation, NoRepeats, [Next]_vars PROVE NoRepeats'
  OBVIOUS
<1> USE DEF NoRepeats, writerVars, dbVars, closeVars
<1>1. ASSUME NEW e \in Events, WriteEvent(e) PROVE NoRepeats'
  <2>1. CASE HasRoom
    <3>1. /\ accepted' = Append(accepted, e) /\ offered' = offered \cup {e}
          /\ e \notin offered /\ landing' = landing
      BY <1>1, <2>1 DEF WriteEvent
    <3> DEFINE one == <<e>>
    <3>2. accepted \in Seq(Events) /\ one \in Seq(Events)
      BY DEF TypeOK
    <3>3. Append(accepted, e) = accepted \o one
      BY <3>2, AppendIsConcat
    <3>4. Range(one) = {e} /\ IsInjective(one)
      BY DEF Range, IsInjective
    <3> HIDE DEF one
    <3>5. IsInjective(accepted \o one)
      BY <3>1, <3>2, <3>4, InjectiveConcat
    <3>6. Range(accepted \o one) = Range(accepted) \cup {e}
      BY <3>2, <3>4, RangeConcat
    <3> QED BY <3>1, <3>3, <3>5, <3>6
  <2>2. CASE ~HasRoom
    BY <1>1, <2>2 DEF WriteEvent
  <2> QED BY <2>1, <2>2
<1>2. CASE FlushEnds
  <2>1. IsInjective(batch)
    BY BatchIsFresh
  <2>2. /\ landing' \subseteq landing \cup {batch}
        /\ UNCHANGED <<accepted, offered>>
    BY <1>2 DEF FlushEnds
  <2> QED BY <2>1, <2>2
<1>3. CASE Land
  BY <1>3 DEF Land
<1>4. CASE Close \/ CloseReturns \/ TakeEvent \/ TakeTick \/ TakeStop \/ DrainEvent
           \/ DrainEnd \/ TickerFires
  BY <1>4 DEF Close, CloseReturns, TakeEvent, TakeTick, TakeStop, DrainEvent, DrainEnd,
              TickerFires
<1>5. CASE UNCHANGED vars
  BY <1>5 DEF vars
<1> QED BY <1>1, <1>2, <1>3, <1>4, <1>5 DEF Next, WriterStep

LEMMA RowsStep ==
    IInv /\ [Next]_vars => RowsWereHanded' /\ AtMostOneRow'
<1> SUFFICES ASSUME IInv, [Next]_vars PROVE RowsWereHanded' /\ AtMostOneRow'
  OBVIOUS
<1> USE DEF RowsWereHanded, AtMostOneRow, writerVars, dbVars, closeVars
<1>a. TypeOK /\ Conservation /\ NoRepeats /\ RowsWereHanded /\ AtMostOneRow
  BY DEF IInv
<1>b. /\ rows \in Seq(Events) /\ batch \in Seq(Events)
      /\ \A b \in landing : b \in Seq(Events) /\ IsInjective(b)
  BY <1>a DEF TypeOK, NoRepeats
<1>1. CASE FlushEnds
  <2>1. /\ IsInjective(batch)
        /\ Range(handed) \cap Range(batch) = {}
        /\ Range(handed') = Range(handed) \cup Range(batch)
    BY <1>a, <1>1, BatchIsFresh DEF FlushEnds
  <2>2. IsInjective(rows \o batch) /\ Range(rows \o batch) = Range(rows) \cup Range(batch)
    BY <1>a, <1>b, <2>1, InjectiveConcat, RangeConcat
  <2>3. CASE rows' = rows \o batch /\ UNCHANGED landing
    BY <1>a, <2>1, <2>2, <2>3
  <2>4. CASE UNCHANGED <<rows, landing>>
    BY <1>a, <2>1, <2>4
  <2>5. CASE landing' = landing \cup {batch} /\ UNCHANGED rows
    BY <1>a, <2>1, <2>5
  <2> QED BY <1>1, <2>3, <2>4, <2>5 DEF FlushEnds
<1>2. CASE Land
  <2>1. PICK b \in landing : landing' = landing \ {b} /\ rows' \in {rows, rows \o b}
    BY <1>2 DEF Land
  <2>2. IsInjective(rows \o b) /\ Range(rows \o b) = Range(rows) \cup Range(b)
    BY <1>a, <1>b, InjectiveConcat, RangeConcat
  <2>3. handed' = handed
    BY <1>2 DEF Land
  <2> QED BY <1>a, <2>1, <2>2, <2>3
<1>3. CASE UNCHANGED <<dbVars, handed>>
  BY <1>a, <1>3
<1>4. ASSUME \/ \E e \in Events : WriteEvent(e)
             \/ Close \/ CloseReturns \/ TakeEvent \/ TakeTick \/ TakeStop \/ DrainEvent
             \/ DrainEnd \/ TickerFires \/ UNCHANGED vars
      PROVE  UNCHANGED <<dbVars, handed>>
  BY <1>4 DEF WriteEvent, Close, CloseReturns, TakeEvent, TakeTick, TakeStop, DrainEvent,
              DrainEnd, TickerFires, vars
<1> QED BY <1>1, <1>2, <1>3, <1>4 DEF Next, WriterStep

-----------------------------------------------------------------------------
(* Theorems.                                                               *)

LEMMA StepInv == IInv /\ [Next]_vars => IInv'
BY TypeStep, ConservationStep, BatchStep, ClosingStep, NoRepeatsStep, RowsStep DEF IInv

\* What the table holds was offered.
LEMMA RowsWereOffered == ASSUME IInv PROVE Range(rows) \subseteq offered
<1>1. /\ handed \in Seq(Events) /\ batch \in Seq(Events) /\ queue \in Seq(Events)
      /\ handed \o batch \in Seq(Events) /\ accepted = (handed \o batch) \o queue
  BY ConcatProperties DEF IInv, TypeOK, Conservation
<1>2. Range(handed) \subseteq Range(handed \o batch)
  BY <1>1, RangeConcat
<1>3. PICK h : h = handed \o batch
  OBVIOUS
<1>4. Range(h) \subseteq Range(accepted)
  <2>1. h \in Seq(Events) /\ queue \in Seq(Events) /\ accepted = h \o queue
    BY <1>1, <1>3
  <2>2. Range(h \o queue) = Range(h) \cup Range(queue)
    BY <2>1, RangeConcat
  <2> QED BY <2>1, <2>2
<1> QED BY <1>2, <1>3, <1>4 DEF IInv, RowsWereHanded, NoRepeats

\* The inductive invariant holds in every reachable state.
THEOREM Invariance == Spec => []IInv
<1> QED BY InitInv, StepInv, PTL DEF Spec

\* Every variable keeps its type and the channel its capacity
\* (clickhouse_sink.go:21-33, 60-67).
THEOREM TypeCorrect == Spec => []TypeOK
<1>1. IInv => TypeOK
  BY DEF IInv
<1> QED BY <1>1, Invariance, PTL

\* Nothing accepted is skipped, repeated or overtaken between WriteEvent and
\* the inserts (clickhouse_sink.go:76-131).
THEOREM Conserved == Spec => []Conservation
<1>1. IInv => Conservation
  BY DEF IInv
<1> QED BY <1>1, Invariance, PTL

\* An event is stored at most once, late inserts included
\* (clickhouse_sink.go:97-106, 133-159).
THEOREM StoredOnce == Spec => []AtMostOneRow
<1>1. IInv => AtMostOneRow
  BY DEF IInv
<1> QED BY <1>1, Invariance, PTL

\* The main loop keeps the batch within its size (clickhouse_sink.go:110-117).
THEOREM BatchBounded == Spec => []BatchWithinSize
<1>1. IInv => BatchWithinSize
  BY DEF IInv
<1> QED BY <1>1, Invariance, PTL

\* When Close has returned, an insert was tried for all that was accepted before
\* it was called (clickhouse_sink.go:84-88, 119-127).
THEOREM CloseComplete == Spec => []CloseHandsOver
<1>1. IInv => CloseHandsOver
  <2> SUFFICES ASSUME IInv, closer = "returned" PROVE CloseHandsOver
    BY DEF CloseHandsOver
  <2> DEFINE c == acceptedAtClose
  <2>1. /\ Len(handed) \in Nat /\ Len(c) \in Nat
        /\ \A i \in 1 .. Len(handed) : accepted[i] = handed[i]
    BY Lengths DEF IInv
  <2>2. batch = <<>> /\ Len(c) <= Len(handed)
        /\ \A i \in 1 .. Len(c) : accepted[i] = c[i]
    BY <2>1, EmptySeq DEF IInv, ClosingOrder
  <2>3. c \in Seq(Events) /\ handed \in Seq(Events)
    BY DEF IInv, TypeOK
  <2> HIDE DEF c
  <2>4. \A i \in 1 .. Len(c) : handed[i] = c[i]
    BY <2>1, <2>2
  <2> DEFINE p == SubSeq(handed, 1, Len(c))
  <2>5. p \in Seq(Events) /\ Len(p) = Len(c) /\ \A i \in 1 .. Len(c) : p[i] = handed[i]
    <3>1. \A i \in 1 .. Len(c) : i \in 1 .. Len(handed)
      BY <2>1, <2>2
    <3>2. \A i \in 1 .. Len(c) : handed[i] \in Events
      BY <2>3, <3>1, ElementOfSeq
    <3> QED BY <2>1, <2>2, <2>3, <3>1, <3>2, SubSeqProperties
  <2> HIDE DEF p
  <2>6. p = c
    BY <2>3, <2>4, <2>5, SeqEqual
  <2> QED BY <2>2, <2>6 DEF CloseHandsOver, c, p
<1> QED BY <1>1, Invariance, PTL

-----------------------------------------------------------------------------
(* Refinement.                                                             *)

\* The first part of a concatenation is a prefix of it.
LEMMA PrefixOfConcat ==
    ASSUME NEW S, NEW s \in Seq(S), NEW t \in Seq(S)
    PROVE  SubSeq(s \o t, 1, Len(s)) = s /\ Len(s \o t) = Len(s) + Len(t)
<1> DEFINE u == s \o t
           p == SubSeq(u, 1, Len(s))
<1>1. /\ Len(s) \in Nat /\ Len(t) \in Nat /\ Len(u) = Len(s) + Len(t)
      /\ \A i \in 1 .. Len(s) : u[i] = s[i] /\ s[i] \in S
  BY ConcatProperties, LenProperties, ElementOfSeq
<1> HIDE DEF u
<1>2. p \in Seq(S) /\ Len(p) = Len(s) /\ \A i \in 1 .. Len(s) : p[i] = u[i]
  <2>1. \A i \in 1 .. Len(s) : u[i] \in S
    BY <1>1
  <2> QED BY <1>1, <2>1, SubSeqProperties
<1> HIDE DEF p
<1>3. p = s
  BY <1>1, <1>2, SeqEqual
<1> QED BY <1>1, <1>3 DEF p, u

\* The inserts tried are a prefix of what was accepted, with or without the batch.
LEMMA HandedIsPrefix ==
    ASSUME TypeOK, Conservation
    PROVE  /\ handed = SubSeq(accepted, 1, Len(handed))
           /\ Len(handed) \in Len(handed) .. Len(accepted)
           /\ handed \o batch = SubSeq(accepted, 1, Len(handed \o batch))
           /\ Len(handed \o batch) \in Len(handed) .. Len(accepted)
<1>1. /\ handed \in Seq(Events) /\ batch \in Seq(Events) /\ queue \in Seq(Events)
      /\ handed \o batch \in Seq(Events) /\ batch \o queue \in Seq(Events)
      /\ Len(handed \o batch) = Len(handed) + Len(batch)
  BY ConcatProperties DEF TypeOK
<1>2. /\ accepted = (handed \o batch) \o queue
      /\ accepted = handed \o (batch \o queue)
  BY <1>1, ConcatAssociative DEF Conservation
<1>3. /\ handed = SubSeq(accepted, 1, Len(handed))
      /\ handed \o batch = SubSeq(accepted, 1, Len(handed \o batch))
  BY <1>1, <1>2, PrefixOfConcat
<1>4. Len(accepted) = Len(handed) + Len(batch) + Len(queue)
      /\ Len(handed) \in Nat /\ Len(batch) \in Nat /\ Len(queue) \in Nat
  BY Lengths
<1> QED BY <1>1, <1>3, <1>4

LEMMA StepMaps == IInv /\ IInv' /\ [Next]_vars => [Delivery!Next]_(Delivery!vars)
<1> SUFFICES ASSUME IInv, IInv', [Next]_vars
             PROVE  Delivery!Next \/ UNCHANGED <<accepted, handed, Range(rows)>>
  BY DEF Delivery!vars
<1> USE DEF writerVars, dbVars, closeVars
<1>a. /\ TypeOK /\ Conservation /\ NoRepeats
      /\ Range(rows') \subseteq Range(handed')
  BY DEF IInv, RowsWereHanded
<1>1. ASSUME NEW e \in Events, WriteEvent(e)
      PROVE  Delivery!Accept \/ UNCHANGED <<accepted, handed, rows>>
  <2>1. CASE HasRoom
    <3>1. /\ accepted' = Append(accepted, e) /\ UNCHANGED <<handed, rows>>
          /\ e \notin offered
      BY <1>1, <2>1 DEF WriteEvent
    <3>2. e \in Events \ Delivery!Range(accepted)
      BY <1>a, <3>1 DEF NoRepeats, Range, Delivery!Range
    <3> QED BY <3>1, <3>2 DEF Delivery!Accept
  <2>2. CASE ~HasRoom
    BY <1>1, <2>2 DEF WriteEvent
  <2> QED BY <2>1, <2>2
<1>2. ASSUME NEW b \in Seq(Events), rows' \in {rows, rows \o b}, accepted' = accepted,
             \E n \in Len(handed) .. Len(accepted) : handed' = SubSeq(accepted, 1, n)
      PROVE  Delivery!Deliver
  <2>1. Range(rows \o b) = Range(rows) \cup Range(b)
    BY <1>a, RangeConcat DEF TypeOK
  <2>2. CASE rows' = rows
    BY <1>a, <1>2, <2>2 DEF Delivery!Deliver, Range, Delivery!Range
  <2>3. CASE rows' = rows \o b
    <3>1. Range(rows) \subseteq Range(rows')
      BY <2>1, <2>3
    <3> QED BY <1>a, <1>2, <3>1 DEF Delivery!Deliver, Range, Delivery!Range
  <2> QED BY <1>2, <2>2, <2>3
<1>3. CASE FlushEnds
  <2>1. /\ handed' = handed \o batch /\ accepted' = accepted
        /\ rows' \in {rows, rows \o batch}
    BY <1>3 DEF FlushEnds
  <2>2. batch \in Seq(Events)
    BY <1>a DEF TypeOK
  <2>3. \E n \in Len(handed) .. Len(accepted) : handed' = SubSeq(accepted, 1, n)
    BY <1>a, <2>1, HandedIsPrefix
  <2> QED BY <1>2, <2>1, <2>2, <2>3 DEF Delivery!Next
<1>4. CASE Land
  <2>1. PICK b \in landing : rows' \in {rows, rows \o b}
    BY <1>4 DEF Land
  <2>2. b \in Seq(Events) /\ handed' = handed /\ accepted' = accepted
    BY <1>a, <1>4 DEF Land, TypeOK
  <2>3. \E n \in Len(handed) .. Len(accepted) : handed' = SubSeq(accepted, 1, n)
    BY <1>a, <2>2, HandedIsPrefix
  <2> QED BY <1>2, <2>1, <2>2, <2>3 DEF Delivery!Next
<1>5. CASE Close \/ CloseReturns \/ TakeEvent \/ TakeTick \/ TakeStop \/ DrainEvent
           \/ DrainEnd \/ TickerFires \/ UNCHANGED vars
  BY <1>5 DEF Close, CloseReturns, TakeEvent, TakeTick, TakeStop, DrainEvent, DrainEnd,
              TickerFires, vars
<1> QED BY <1>1, <1>3, <1>4, <1>5 DEF Next, WriterStep, Delivery!Next

\* The sink implements AnalyticsDelivery: what it accepts is handed over in order,
\* none skipped or repeated (analytics_sink.go, clickhouse_sink.go:76-159).
THEOREM Refinement == Spec => DeliversAsPromised
<1>1. Init => Delivery!Init
  <2>1. Range(<<>>) = {}
    BY EmptySeq DEF Range
  <2> QED BY <2>1 DEF Init, Delivery!Init
<1> QED BY <1>1, StepMaps, Invariance, PTL DEF Spec, DeliversAsPromised, Delivery!Spec
=============================================================================
