------------------------ MODULE CircuitBreakerProofs ------------------------
(***************************************************************************)
(* Proofs of the safety properties of CircuitBreaker, for any set of       *)
(* callers, threshold and timeouts.  The inductive invariant is the        *)
(* conjunction of the safety invariants with Bookkeeping.                  *)
(***************************************************************************)
EXTENDS CircuitBreaker, TLAPS

\* What the server's fields say about each other: a dead server holds no
\* request; a request is run once, when it leaves the mailbox; while open,
\* last_failure is the time of the last raise (circuit_breaker.ex:17-67).
Bookkeeping ==
    /\ ~up => mailbox = <<>> /\ serving = NoOne
    /\ \A c \in Callers :
           /\ serving = c => started[c]
           /\ Queued(c) # {} => ~started[c]
    /\ state = "open" => sinceFailure = quiet

\* The count is that of the raises in a row, and the breaker is closed exactly while
\* it is below the threshold; those raises are among the ones since the breaker was
\* started or recovered (circuit_breaker.ex:27-45, 57-67).
CountIsStreak ==
    /\ failures = streak
    /\ streak <= raises
    /\ up => (state = "closed" <=> streak < FailureThreshold)

IInv ==
    /\ TypeOK
    /\ RepliesAreRouted
    /\ AnswerIsTruthful
    /\ CountIsStreak
    /\ ProbeAfterQuietPeriod
    /\ Bookkeeping

-----------------------------------------------------------------------------
\* Bounded(n, b) counts up and stays below b.
LEMMA BoundedType ==
    ASSUME NEW b \in Nat \ {0}, NEW n \in 0 .. b
    PROVE  /\ Bounded(n, b) \in 0 .. b
           /\ n = b => Bounded(n, b) = b
           /\ n < b => Bounded(n, b) = n + 1
  BY DEF Bounded

\* Queued only depends on the senders at the positions of the mailbox.
LEMMA QueuedMember ==
    ASSUME NEW c
    PROVE  /\ \A i : i \in Queued(c) <=> i \in 1 .. Len(mailbox) /\ mailbox[i].from = c
           /\ \A i : i \in Queued(c)' <=> i \in 1 .. Len(mailbox') /\ mailbox'[i].from = c
  BY DEF Queued

\* A request put at the end of the mailbox.
LEMMA QueuedAppend ==
    ASSUME NEW r \in Request, mailbox \in Seq(Request), NEW c,
           mailbox' = Append(mailbox, r)
    PROVE  /\ mailbox' \in Seq(Request)
           /\ r.from # c => Queued(c)' = Queued(c)
           /\ r.from = c => Queued(c)' = Queued(c) \cup {Len(mailbox) + 1}
  BY DEF Queued, Request

\* The first request taken from the mailbox: the others keep their order.
LEMMA QueuedTail ==
    ASSUME mailbox \in Seq(Request), mailbox # <<>>, NEW c,
           mailbox' = Tail(mailbox)
    PROVE  /\ mailbox' \in Seq(Request)
           /\ Head(mailbox) \in Request
           /\ Head(mailbox) = mailbox[1]
           /\ \A i \in Queued(c)' : i + 1 \in Queued(c)
           /\ \A i \in Queued(c) : i # 1 => i - 1 \in Queued(c)'
           /\ 1 \in Queued(c) <=> Head(mailbox).from = c
<1>1. /\ mailbox' \in Seq(Request)
      /\ Head(mailbox) \in Request
      /\ Head(mailbox) = mailbox[1]
      /\ Len(mailbox) \in Nat \ {0}
      /\ Len(mailbox') = Len(mailbox) - 1
      /\ \A i \in 1 .. Len(mailbox') : mailbox'[i] = mailbox[i + 1]
  OBVIOUS
<1>2. \A i \in Queued(c)' : i + 1 \in Queued(c)
  BY <1>1 DEF Queued
<1>3. \A i \in Queued(c) : i # 1 => i - 1 \in Queued(c)'
  <2> SUFFICES ASSUME NEW i \in Queued(c), i # 1
               PROVE  i - 1 \in Queued(c)'
    OBVIOUS
  <2>1. i \in 1 .. Len(mailbox) /\ mailbox[i].from = c
    BY DEF Queued
  <2>2. i - 1 \in 1 .. Len(mailbox') /\ mailbox'[i - 1] = mailbox[(i - 1) + 1]
    BY <1>1, <2>1
  <2> QED BY <1>1, <2>1, <2>2 DEF Queued
<1>4. 1 \in Queued(c) <=> Head(mailbox).from = c
  BY <1>1 DEF Queued
<1> QED BY <1>1, <1>2, <1>3, <1>4

\* A caller that gives up: its request keeps its place and loses its sender.
LEMMA QueuedDisown ==
    ASSUME mailbox \in Seq(Request), NEW c \in Callers, NEW d \in Callers,
           mailbox' = Disown(c, mailbox), BreakerAssumption
    PROVE  /\ mailbox' \in Seq(Request)
           /\ Queued(d)' = IF d = c THEN {} ELSE Queued(d)
<1>a. \A r \in Request : /\ [r EXCEPT !.from = Gone] \in Request
                        /\ [r EXCEPT !.from = Gone].from = Gone
  BY DEF Request
<1>b. Len(mailbox) \in Nat /\ \A i \in 1 .. Len(mailbox) : mailbox[i] \in Request
  OBVIOUS
<1>1. /\ Len(mailbox) \in Nat
      /\ \A i \in 1 .. Len(mailbox) :
            mailbox[i] \in Request /\ Disown(c, mailbox)[i] \in Request
  BY <1>a, <1>b DEF Disown
<1>2. mailbox' \in Seq(Request) /\ Len(mailbox') = Len(mailbox)
  BY <1>1 DEF Disown
<1>3. \A i \in 1 .. Len(mailbox) :
         mailbox'[i].from = IF mailbox[i].from = c THEN Gone ELSE mailbox[i].from
  BY <1>a, <1>b DEF Disown
<1>4. Queued(d)' = IF d = c THEN {} ELSE Queued(d)
  BY <1>1, <1>2, <1>3 DEF Queued, BreakerAssumption
<1> QED BY <1>2, <1>4

-----------------------------------------------------------------------------
LEMMA InitInv == Init => IInv
<1> SUFFICES ASSUME Init PROVE IInv
  OBVIOUS
<1> USE BreakerAssumption DEF BreakerAssumption, Init
<1>1. TypeOK
  BY DEF TypeOK, Request, Outcome
<1>2. \A c : Queued(c) = {}
  <2>1. 1 .. Len(mailbox) = {}
    OBVIOUS
  <2> QED BY <2>1 DEF Queued
<1>3. RepliesAreRouted /\ Bookkeeping
  BY <1>2 DEF RepliesAreRouted, Bookkeeping
<1>4. AnswerIsTruthful /\ CountIsStreak /\ ProbeAfterQuietPeriod
  BY DEF AnswerIsTruthful, CountIsStreak, ProbeAfterQuietPeriod
<1> QED BY <1>1, <1>3, <1>4 DEF IInv

LEMMA PostInv ==
    ASSUME IInv, NEW c \in Callers, NEW kind \in {"call", "status"}, Post(c, kind)
    PROVE  IInv'
<1> USE BreakerAssumption DEF BreakerAssumption, IInv, Post
<1>1. [from |-> c, kind |-> kind] \in Request
  BY DEF Request
<1>2. mailbox \in Seq(Request)
  BY DEF TypeOK
<1>3. mailbox' \in Seq(Request)
  BY <1>1, <1>2, QueuedAppend
<1>4. \A d \in Callers : d # c => Queued(d)' = Queued(d)
  BY <1>1, <1>2, QueuedAppend
<1>5. Queued(c)' = Queued(c) \cup {Len(mailbox) + 1}
  BY <1>1, <1>2, QueuedAppend
<1>6. Queued(c) = {} /\ serving # c
  BY DEF RepliesAreRouted
<1>7. TypeOK'
  BY <1>3 DEF TypeOK
<1>8. RepliesAreRouted'
  <2> SUFFICES ASSUME NEW d \in Callers
               PROVE  /\ caller'[d] = "waiting" => serving' = d \/ Queued(d)' # {}
                      /\ serving' = d => caller'[d] = "waiting" /\ Queued(d)' = {}
                      /\ Queued(d)' # {} => caller'[d] = "waiting"
                      /\ \A i, j \in Queued(d)' : i = j
    BY DEF RepliesAreRouted
  <2>1. CASE d = c
    <3>1. Queued(d)' = {Len(mailbox) + 1}
      BY <1>5, <1>6, <2>1
    <3> QED BY <2>1, <3>1, <1>6 DEF TypeOK
  <2>2. CASE d # c
    BY <1>4, <2>2 DEF RepliesAreRouted, TypeOK
  <2> QED BY <2>1, <2>2
<1>9. AnswerIsTruthful'
  BY DEF AnswerIsTruthful, TypeOK
<1>10. Bookkeeping'
  BY <1>4, <1>6 DEF Bookkeeping, TypeOK
<1>11. CountIsStreak' /\ ProbeAfterQuietPeriod'
  BY DEF CountIsStreak, ProbeAfterQuietPeriod
<1> QED BY <1>7, <1>8, <1>9, <1>10, <1>11

LEMMA PostToNobodyInv ==
    ASSUME IInv, NEW c \in Callers, PostToNobody(c)
    PROVE  IInv'
<1> USE DEF IInv, PostToNobody, server
<1>1. \A d : Queued(d)' = Queued(d)
  BY DEF Queued
<1>2. TypeOK'
  BY DEF TypeOK, Outcome
<1>3. RepliesAreRouted'
  BY <1>1 DEF RepliesAreRouted, TypeOK
<1>4. AnswerIsTruthful'
  BY DEF AnswerIsTruthful, TypeOK
<1>5. Bookkeeping'
  BY <1>1 DEF Bookkeeping, TypeOK, RepliesAreRouted
<1>6. CountIsStreak' /\ ProbeAfterQuietPeriod'
  BY DEF CountIsStreak, ProbeAfterQuietPeriod
<1> QED BY <1>2, <1>3, <1>4, <1>5, <1>6

LEMMA GiveUpInv ==
    ASSUME IInv, NEW c \in Callers, GiveUp(c)
    PROVE  IInv'
<1> USE BreakerAssumption DEF BreakerAssumption, IInv, GiveUp, history
<1>1. mailbox \in Seq(Request)
  BY DEF TypeOK
<1>2. mailbox' \in Seq(Request)
  BY <1>1, QueuedDisown
<1>3. \A d \in Callers : Queued(d)' = IF d = c THEN {} ELSE Queued(d)
  BY <1>1, QueuedDisown
<1>4. TypeOK'
  BY <1>2 DEF TypeOK, Outcome
<1>5. RepliesAreRouted'
  BY <1>3 DEF RepliesAreRouted, TypeOK
<1>6. AnswerIsTruthful'
  BY DEF AnswerIsTruthful, TypeOK
<1>7. (mailbox = <<>> => mailbox' = <<>>) /\ (serving = NoOne <=> serving' = NoOne)
  BY DEF Disown
<1>8. Bookkeeping'
  BY <1>3, <1>7 DEF Bookkeeping, TypeOK
<1>9. CountIsStreak' /\ ProbeAfterQuietPeriod'
  BY <1>7 DEF CountIsStreak, ProbeAfterQuietPeriod
<1> QED BY <1>4, <1>5, <1>6, <1>8, <1>9

-----------------------------------------------------------------------------
\* When every caller has at most one request, taking the first one from the
\* mailbox leaves its sender with none and changes nothing for the others.
LEMMA TakeFirst ==
    ASSUME mailbox \in Seq(Request), mailbox # <<>>, RepliesAreRouted,
           mailbox' = Tail(mailbox), NEW d \in Callers
    PROVE  /\ mailbox' \in Seq(Request)
           /\ Head(mailbox).from \in Callers \cup {Gone}
           /\ d = Head(mailbox).from => Queued(d) # {} /\ Queued(d)' = {}
           /\ d # Head(mailbox).from => (Queued(d)' = {} <=> Queued(d) = {})
           /\ \A i, j \in Queued(d)' : i = j
<1>1. /\ mailbox' \in Seq(Request)
      /\ Head(mailbox) \in Request
      /\ \A i \in Queued(d)' : i + 1 \in Queued(d)
      /\ \A i \in Queued(d) : i # 1 => i - 1 \in Queued(d)'
      /\ 1 \in Queued(d) <=> Head(mailbox).from = d
  BY QueuedTail
<1>2. \A i, j \in Queued(d) : i = j
  BY DEF RepliesAreRouted
<1>3. \A i \in Queued(d)' : i \in Nat \ {0}
  BY <1>1 DEF Queued
<1>4. ASSUME NEW i \in Queued(d)', NEW j \in Queued(d)'
      PROVE  i = j
  <2>1. i + 1 = j + 1
    BY <1>1, <1>2
  <2> QED BY <1>3, <2>1
<1>5. d = Head(mailbox).from => Queued(d) # {} /\ Queued(d)' = {}
  <2> SUFFICES ASSUME d = Head(mailbox).from
               PROVE  Queued(d) # {} /\ Queued(d)' = {}
    OBVIOUS
  <2>1. 1 \in Queued(d)
    BY <1>1
  <2>2. ASSUME NEW i \in Queued(d)' PROVE FALSE
    <3>1. i + 1 = 1
      BY <1>1, <1>2, <2>1
    <3> QED BY <1>3, <3>1
  <2> QED BY <2>1, <2>2
<1>6. d # Head(mailbox).from => (Queued(d)' = {} <=> Queued(d) = {})
  BY <1>1
<1> QED BY <1>1, <1>4, <1>5, <1>6 DEF Request

LEMMA StartFunInv == ASSUME IInv, StartFun PROVE IInv'
<1> DEFINE c0 == Head(mailbox).from
<1> USE BreakerAssumption DEF BreakerAssumption, IInv, StartFun, NextIs
<1>1. mailbox \in Seq(Request)
  BY DEF TypeOK
<1>2. mailbox' \in Seq(Request) /\ c0 \in Callers \cup {Gone}
  <2>1. mailbox' \in Seq(Request) /\ Head(mailbox) \in Request
    BY <1>1
  <2> QED BY <2>1 DEF Request
<1>3. \A d \in Callers :
         /\ d = c0 => Queued(d) # {} /\ Queued(d)' = {}
         /\ d # c0 => (Queued(d)' = {} <=> Queued(d) = {})
         /\ \A i, j \in Queued(d)' : i = j
  BY <1>1, TakeFirst
<1>4. serving' = c0 /\ serving = NoOne /\ c0 # NoOne
  BY <1>2
<1> HIDE DEF c0
<1>5. TypeOK'
  BY <1>2, <1>4 DEF TypeOK
<1>6. RepliesAreRouted'
  <2> SUFFICES ASSUME NEW d \in Callers
               PROVE  /\ caller'[d] = "waiting" => serving' = d \/ Queued(d)' # {}
                      /\ serving' = d => caller'[d] = "waiting" /\ Queued(d)' = {}
                      /\ Queued(d)' # {} => caller'[d] = "waiting"
                      /\ \A i, j \in Queued(d)' : i = j
    BY DEF RepliesAreRouted
  <2>1. caller' = caller /\ serving # d
    BY <1>4
  <2>2. /\ caller[d] = "waiting" <=> Queued(d) # {}
        /\ serving' = d <=> d = c0
    BY <1>4, <2>1 DEF RepliesAreRouted
  <2> QED BY <1>3, <2>1, <2>2
<1>7. \A d \in Callers : started'[d] = (started[d] \/ d = c0)
  BY DEF TypeOK, c0
<1>8. AnswerIsTruthful'
  <2> SUFFICES ASSUME NEW d \in Callers
               PROVE  /\ caller[d] = "open" => ~started'[d]
                      /\ caller[d] \in {"ok", "failed"} => started'[d]
    BY DEF AnswerIsTruthful
  <2>1. d = c0 => caller[d] = "waiting"
    BY <1>3 DEF RepliesAreRouted
  <2> QED BY <1>7, <2>1 DEF AnswerIsTruthful
<1>9. Bookkeeping'
  BY <1>3, <1>4, <1>7 DEF Bookkeeping, TypeOK
<1>10. CountIsStreak' /\ ProbeAfterQuietPeriod'
  BY DEF CountIsStreak, ProbeAfterQuietPeriod
<1> QED BY <1>5, <1>6, <1>8, <1>9, <1>10

LEMMA RejectInv == ASSUME IInv, Reject PROVE IInv'
<1> DEFINE c0 == Head(mailbox).from
<1> USE BreakerAssumption DEF BreakerAssumption, IInv, Reject, NextIs, RecoveryElapsed, history
<1>1. mailbox \in Seq(Request)
  BY DEF TypeOK
<1>2. mailbox' \in Seq(Request) /\ c0 \in Callers \cup {Gone}
  <2>1. mailbox' \in Seq(Request) /\ Head(mailbox) \in Request
    BY <1>1
  <2> QED BY <2>1 DEF Request
<1>3. \A d \in Callers :
         /\ d = c0 => Queued(d) # {} /\ Queued(d)' = {}
         /\ d # c0 => (Queued(d)' = {} <=> Queued(d) = {})
         /\ \A i, j \in Queued(d)' : i = j
  BY <1>1, TakeFirst
<1>4. caller' = [d \in Callers |-> IF d = c0 THEN "open" ELSE caller[d]]
  BY DEF Answer
<1> HIDE DEF c0
<1>5. TypeOK'
  BY <1>2, <1>4 DEF TypeOK, Outcome
<1>6. RepliesAreRouted'
  BY <1>3, <1>4 DEF RepliesAreRouted, TypeOK
<1>7. AnswerIsTruthful'
  BY <1>3, <1>4 DEF AnswerIsTruthful, Bookkeeping
<1>8. Bookkeeping'
  BY <1>3 DEF Bookkeeping, TypeOK
<1>9. CountIsStreak'
  BY DEF CountIsStreak
<1>10. ProbeAfterQuietPeriod'
  BY DEF ProbeAfterQuietPeriod, Bookkeeping, TypeOK
<1> QED BY <1>5, <1>6, <1>7, <1>8, <1>9, <1>10

LEMMA TellStatusInv == ASSUME IInv, TellStatus PROVE IInv'
<1> DEFINE c0 == Head(mailbox).from
<1> USE BreakerAssumption DEF BreakerAssumption, IInv, TellStatus, NextIs, history
<1>1. mailbox \in Seq(Request)
  BY DEF TypeOK
<1>2. mailbox' \in Seq(Request) /\ c0 \in Callers \cup {Gone}
  <2>1. mailbox' \in Seq(Request) /\ Head(mailbox) \in Request
    BY <1>1
  <2> QED BY <2>1 DEF Request
<1>3. \A d \in Callers :
         /\ d = c0 => Queued(d) # {} /\ Queued(d)' = {}
         /\ d # c0 => (Queued(d)' = {} <=> Queued(d) = {})
         /\ \A i, j \in Queued(d)' : i = j
  BY <1>1, TakeFirst
<1>4. caller' = [d \in Callers |-> IF d = c0 THEN "told" ELSE caller[d]]
  BY DEF Answer
<1> HIDE DEF c0
<1>5. TypeOK'
  BY <1>2, <1>4 DEF TypeOK, Outcome
<1>6. RepliesAreRouted'
  BY <1>3, <1>4 DEF RepliesAreRouted, TypeOK
<1>7. AnswerIsTruthful'
  BY <1>4 DEF AnswerIsTruthful
<1>8. Bookkeeping'
  BY <1>3 DEF Bookkeeping, TypeOK
<1>9. CountIsStreak' /\ ProbeAfterQuietPeriod'
  BY DEF CountIsStreak, ProbeAfterQuietPeriod
<1> QED BY <1>5, <1>6, <1>7, <1>8, <1>9

-----------------------------------------------------------------------------
\* The function that runs ends with a reply r to its sender.
LEMMA RoutedAfterAnswer ==
    ASSUME IInv, serving # NoOne, NEW r \in Outcome, Answer(serving, r),
           serving' = NoOne, UNCHANGED mailbox
    PROVE  /\ RepliesAreRouted'
           /\ caller' \in [Callers -> {"idle", "waiting"} \cup Outcome]
           /\ \A d : Queued(d)' = Queued(d)
<1> USE BreakerAssumption DEF BreakerAssumption, IInv, Answer
<1>1. \A d : Queued(d)' = Queued(d)
  BY DEF Queued
<1>2. r # "waiting"
  BY DEF Outcome
<1>3. RepliesAreRouted'
  BY <1>1, <1>2 DEF RepliesAreRouted, TypeOK
<1>4. caller' \in [Callers -> {"idle", "waiting"} \cup Outcome]
  BY DEF TypeOK
<1> QED BY <1>1, <1>3, <1>4

LEMMA FunReturnsInv == ASSUME IInv, FunReturns PROVE IInv'
<1> USE BreakerAssumption DEF BreakerAssumption, IInv, FunReturns
<1>1. "ok" \in Outcome
  BY DEF Outcome
<1>2. /\ RepliesAreRouted'
      /\ caller' \in [Callers -> {"idle", "waiting"} \cup Outcome]
      /\ \A d : Queued(d)' = Queued(d)
  BY <1>1, RoutedAfterAnswer
<1>3. TypeOK'
  BY <1>2 DEF TypeOK
<1>4. AnswerIsTruthful'
  BY DEF AnswerIsTruthful, Answer, Bookkeeping
<1>5. Bookkeeping'
  BY <1>2 DEF Bookkeeping, TypeOK
<1>6. CountIsStreak' /\ ProbeAfterQuietPeriod'
  BY DEF TypeOK, CountIsStreak, ProbeAfterQuietPeriod
<1> QED BY <1>2, <1>3, <1>4, <1>5, <1>6

LEMMA FunRaisesInv == ASSUME IInv, FunRaises PROVE IInv'
<1> USE BreakerAssumption DEF BreakerAssumption, IInv, FunRaises, TooMany
<1>1. "failed" \in Outcome
  BY DEF Outcome
<1>2. /\ RepliesAreRouted'
      /\ caller' \in [Callers -> {"idle", "waiting"} \cup Outcome]
      /\ \A d : Queued(d)' = Queued(d)
  BY <1>1, RoutedAfterAnswer
<1>3. up
  BY DEF Bookkeeping
<1>4. streak' \in 0 .. FailureThreshold
  BY BoundedType DEF TypeOK
<1>r. raises' \in 0 .. FailureThreshold /\ streak' <= raises'
  BY BoundedType DEF TypeOK, Bounded, CountIsStreak
<1>5. ASSUME state = "closed"
      PROVE  CountIsStreak' /\ TypeOK'
  <2>1. failures = streak /\ streak < FailureThreshold
    BY <1>3, <1>5 DEF CountIsStreak
  <2>2. streak' = streak + 1 /\ failures' = failures + 1
    BY <1>5, <2>1 DEF Bounded
  <2>3. CountIsStreak'
    BY <1>3, <1>5, <1>r, <2>1, <2>2 DEF CountIsStreak, TypeOK, TooMany
  <2>4. TypeOK'
    BY <1>2, <1>4, <1>r, <1>5, <2>1, <2>2 DEF TypeOK
  <2> QED BY <1>5, <2>3, <2>4
<1>6. ASSUME state = "half_open"
      PROVE  CountIsStreak' /\ TypeOK'
  <2>1. failures = streak /\ streak = FailureThreshold
    BY <1>3, <1>6 DEF CountIsStreak, TypeOK, TooMany
  <2>2. streak' = streak /\ failures' = failures
    BY <1>6, <2>1 DEF Bounded
  <2>3. CountIsStreak'
    BY <1>3, <1>6, <1>r, <2>1, <2>2 DEF CountIsStreak, TypeOK, TooMany
  <2>4. TypeOK'
    BY <1>2, <1>4, <1>r, <1>6, <2>1, <2>2 DEF TypeOK
  <2> QED BY <1>6, <2>3, <2>4
<1>7. CountIsStreak' /\ TypeOK'
  BY <1>5, <1>6
<1>8. AnswerIsTruthful'
  BY DEF AnswerIsTruthful, Answer, Bookkeeping
<1>9. Bookkeeping'
  BY <1>2, <1>3 DEF Bookkeeping, TypeOK
<1>10. ProbeAfterQuietPeriod'
  BY DEF ProbeAfterQuietPeriod
<1> QED BY <1>2, <1>7, <1>8, <1>9, <1>10

LEMMA FunExitsInv == ASSUME IInv, FunExits PROVE IInv'
<1> USE BreakerAssumption DEF BreakerAssumption, IInv, FunExits, history
<1>1. \A d : Queued(d)' = {}
  <2>1. 1 .. Len(mailbox') = {}
    OBVIOUS
  <2> QED BY <2>1 DEF Queued
<1>2. TypeOK'
  <2>1. caller' \in [Callers -> {"idle", "waiting"} \cup Outcome]
    BY DEF TypeOK, Outcome
  <2>2. mailbox' \in Seq(Request)
    OBVIOUS
  <2> QED BY <2>1, <2>2 DEF TypeOK
<1>3. RepliesAreRouted'
  BY <1>1 DEF RepliesAreRouted, TypeOK
<1>4. AnswerIsTruthful'
  BY DEF AnswerIsTruthful
<1>5. Bookkeeping'
  BY <1>1 DEF Bookkeeping, TypeOK
<1>6. CountIsStreak' /\ ProbeAfterQuietPeriod'
  BY DEF CountIsStreak, ProbeAfterQuietPeriod
<1> QED BY <1>2, <1>3, <1>4, <1>5, <1>6

LEMMA RestartInv == ASSUME IInv, Restart PROVE IInv'
<1> USE BreakerAssumption DEF BreakerAssumption, IInv, Restart
<1>1. \A d : Queued(d)' = Queued(d)
  BY DEF Queued
<1>2. TypeOK'
  BY DEF TypeOK
<1>3. RepliesAreRouted' /\ AnswerIsTruthful' /\ Bookkeeping'
  BY <1>1 DEF RepliesAreRouted, AnswerIsTruthful, Bookkeeping
<1>4. CountIsStreak' /\ ProbeAfterQuietPeriod'
  BY DEF CountIsStreak, ProbeAfterQuietPeriod, Bookkeeping
<1> QED BY <1>2, <1>3, <1>4

LEMMA TickInv == ASSUME IInv, Tick PROVE IInv'
<1> USE BreakerAssumption DEF BreakerAssumption, IInv, Tick
<1>1. \A d : Queued(d)' = Queued(d)
  BY DEF Queued
<1>2. /\ sinceFailure' \in 0 .. RecoveryTimeout
      /\ quiet' \in 0 .. RecoveryTimeout
      /\ quiet = RecoveryTimeout => quiet' = RecoveryTimeout
      /\ sinceFailure = quiet => sinceFailure' = quiet'
  BY BoundedType DEF TypeOK
<1>3. waited' \in [Callers -> 0 .. CallTimeout]
  <2>1. \A c \in Callers : waited[c] \in 0 .. CallTimeout
    BY DEF TypeOK
  <2>2. \A c \in Callers : Bounded(waited[c], CallTimeout) \in 0 .. CallTimeout
    BY <2>1, BoundedType
  <2> QED BY <2>1, <2>2
<1>4. TypeOK'
  BY <1>2, <1>3 DEF TypeOK
<1>5. RepliesAreRouted' /\ AnswerIsTruthful'
  BY <1>1 DEF RepliesAreRouted, AnswerIsTruthful
<1>6. Bookkeeping'
  BY <1>1, <1>2 DEF Bookkeeping
<1>7. CountIsStreak' /\ ProbeAfterQuietPeriod'
  BY <1>2 DEF CountIsStreak, ProbeAfterQuietPeriod
<1> QED BY <1>4, <1>5, <1>6, <1>7

LEMMA StutterInv == ASSUME IInv, UNCHANGED vars PROVE IInv'
<1> USE DEF IInv, vars, server, history
<1>1. \A d : Queued(d)' = Queued(d)
  BY DEF Queued
<1>2. TypeOK'
  BY DEF TypeOK
<1>3. RepliesAreRouted' /\ AnswerIsTruthful' /\ Bookkeeping'
  BY <1>1 DEF RepliesAreRouted, AnswerIsTruthful, Bookkeeping
<1>4. CountIsStreak' /\ ProbeAfterQuietPeriod'
  BY DEF CountIsStreak, ProbeAfterQuietPeriod
<1> QED BY <1>2, <1>3, <1>4

-----------------------------------------------------------------------------
\* Every step of the breaker, its callers or its clock preserves the
\* inductive invariant.
LEMMA StepInv == IInv /\ [Next]_vars => IInv'
<1> SUFFICES ASSUME IInv, [Next]_vars PROVE IInv'
  OBVIOUS
<1>1. ASSUME NEW c \in Callers, NEW kind \in {"call", "status"}, Post(c, kind)
      PROVE  IInv'
  BY <1>1, PostInv
<1>2. ASSUME NEW c \in Callers, PostToNobody(c) PROVE IInv'
  BY <1>2, PostToNobodyInv
<1>3. ASSUME NEW c \in Callers, GiveUp(c) PROVE IInv'
  BY <1>3, GiveUpInv
<1>4. CASE StartFun
  BY <1>4, StartFunInv
<1>5. CASE Reject
  BY <1>5, RejectInv
<1>6. CASE FunReturns
  BY <1>6, FunReturnsInv
<1>7. CASE FunRaises
  BY <1>7, FunRaisesInv
<1>8. CASE FunExits
  BY <1>8, FunExitsInv
<1>9. CASE TellStatus
  BY <1>9, TellStatusInv
<1>10. CASE Restart
  BY <1>10, RestartInv
<1>11. CASE Tick
  BY <1>11, TickInv
<1>12. CASE UNCHANGED vars
  BY <1>12, StutterInv
<1> QED
  BY <1>1, <1>2, <1>3, <1>4, <1>5, <1>6, <1>7, <1>8, <1>9, <1>10, <1>11, <1>12
     DEF Next, CallerStep, ServerStep, FunEnds

\* The inductive invariant holds in every reachable state.
THEOREM Invariance == Spec => []IInv
  BY InitInv, StepInv, PTL DEF Spec

\* The breaker's variables keep their types; in particular the failure count
\* never exceeds the threshold (circuit_breaker.ex:17-19).
THEOREM TypeCorrect == Spec => []TypeOK
<1>1. IInv => TypeOK
  BY DEF IInv
<1> QED BY <1>1, Invariance, PTL

\* For any number of callers, every waiting caller has exactly one request
\* outstanding, every answer reaches the call it belongs to and says truly whether
\* its function was run (circuit_breaker.ex:21-67).
THEOREM Routing == Spec => []CallsAnsweredTruly
<1>1. IInv => CallsAnsweredTruly
  BY DEF IInv, CallsAnsweredTruly
<1> QED BY <1>1, Invariance, PTL

\* For any threshold, that many raises in a row open the breaker, and nothing less
\* than that many since it was started or recovered does (circuit_breaker.ex:27-45).
THEOREM Tripping == Spec => []OpensOnFailures
<1>1. IInv => OpensOnFailures
  BY BreakerAssumption DEF IInv, CountIsStreak, TypeOK, OpensOnFailures, BreakerAssumption
<1> QED BY <1>1, Invariance, PTL

\* For any recovery timeout, no function runs while the breaker is open, and
\* a probe runs only after a whole quiet period (circuit_breaker.ex:47-66).
THEOREM Probing == Spec => []ProbeAfterQuietPeriod
<1>1. IInv => ProbeAfterQuietPeriod
  BY DEF IInv
<1> QED BY <1>1, Invariance, PTL
=============================================================================
