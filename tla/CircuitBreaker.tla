--------------------------- MODULE CircuitBreaker ---------------------------
(***************************************************************************)
(* Polyglot.CircuitBreaker (lib/polyglot/circuit_breaker.ex): one          *)
(* GenServer that runs the functions of its callers, one at a time, inside *)
(* its own process.                                                        *)
(*                                                                         *)
(* A caller posts a request with GenServer.call and waits at most          *)
(* CallTimeout.  The server takes requests from its mailbox in order; a    *)
(* function that runs long keeps everything behind it waiting.  A caller   *)
(* that gives up does not withdraw its request: the request stays in the   *)
(* mailbox, is executed in its turn, and its reply is dropped.  The model  *)
(* keeps such a request with `Gone' as its sender.                         *)
(*                                                                         *)
(* Time.  Clocks are ages in ticks.  `sinceFailure' stands for             *)
(* monotonic_time - last_failure and stops growing at RecoveryTimeout (the *)
(* code only compares it with that bound); `waited' does the same at       *)
(* CallTimeout.  A tick may come between any two steps.                    *)
(***************************************************************************)
EXTENDS Naturals, Sequences

CONSTANTS
    Callers,           \* client processes; one that is done may call again
    Gone,              \* sender of a request whose caller has given up
    NoOne,             \* value of `serving' when no function runs
    FailureThreshold,  \* @failure_threshold
    RecoveryTimeout,   \* @recovery_timeout, in ticks
    CallTimeout,       \* the default timeout of GenServer.call, in ticks
    MailboxBound       \* bound of the model: requests in the mailbox

ASSUME BreakerAssumption ==
    /\ Gone \notin Callers
    /\ NoOne \notin Callers \cup {Gone}
    /\ FailureThreshold \in Nat \ {0}
    /\ RecoveryTimeout \in Nat \ {0}
    /\ CallTimeout \in Nat \ {0}

VARIABLES
    up,            \* the GenServer is registered
    state,         \* state.state
    failures,      \* state.failures
    sinceFailure,  \* age of state.last_failure
    mailbox,       \* requests not yet taken
    serving,       \* sender of the request whose function is running
    caller,        \* what each caller is doing, or how its last call ended
    waited,        \* how long each waiting caller has waited
    started,       \* history: the function of the caller's last call was run
    streak,        \* history: raises since the last return or restart
    raises,        \* history: raises since the last successful probe or restart
    quiet          \* history: ticks since a function last raised

server == <<up, state, failures, sinceFailure, mailbox, serving>>
history == <<started, streak, raises, quiet>>
vars == <<server, caller, waited, history>>

Request == [from : Callers \cup {Gone}, kind : {"call", "status"}]

Outcome == {"ok", "failed", "open", "told", "exit"}

TypeOK ==
    /\ up \in BOOLEAN
    /\ state \in {"closed", "open", "half_open"}
    /\ failures \in 0 .. FailureThreshold
    /\ sinceFailure \in 0 .. RecoveryTimeout
    /\ mailbox \in Seq(Request)
    /\ serving \in Callers \cup {Gone, NoOne}
    /\ caller \in [Callers -> {"idle", "waiting"} \cup Outcome]
    /\ waited \in [Callers -> 0 .. CallTimeout]
    /\ started \in [Callers -> BOOLEAN]
    /\ streak \in 0 .. FailureThreshold
    /\ raises \in 0 .. FailureThreshold
    /\ quiet \in 0 .. RecoveryTimeout

-----------------------------------------------------------------------------
\* init/1.
Init ==
    /\ up = TRUE
    /\ state = "closed"
    /\ failures = 0
    /\ sinceFailure = RecoveryTimeout
    /\ mailbox = <<>>
    /\ serving = NoOne
    /\ caller = [c \in Callers |-> "idle"]
    /\ waited = [c \in Callers |-> 0]
    /\ started = [c \in Callers |-> FALSE]
    /\ streak = 0
    /\ raises = 0
    /\ quiet = RecoveryTimeout

Bounded(n, bound) == IF n < bound THEN n + 1 ELSE bound

\* Fault variant of Answer: the reply is never sent.
AnswerNobody(to, r) == UNCHANGED caller

\* GenServer.reply: the sender of the request learns r; a reply to a caller
\* that has given up reaches nobody.
Answer(to, r) ==
    caller' = [c \in Callers |-> IF c = to THEN r ELSE caller[c]]

-----------------------------------------------------------------------------
(* Callers.                                                                *)

\* call/2 and status/1: GenServer.call sends the request and waits.
Post(c, kind) ==
    /\ up
    /\ caller[c] # "waiting"
    /\ Len(mailbox) < MailboxBound
    /\ mailbox' = Append(mailbox, [from |-> c, kind |-> kind])
    /\ caller' = [caller EXCEPT ![c] = "waiting"]
    /\ waited' = [waited EXCEPT ![c] = 0]
    /\ started' = [started EXCEPT ![c] = FALSE]
    /\ UNCHANGED <<up, state, failures, sinceFailure, serving, streak, raises, quiet>>

\* GenServer.call to a name nobody has registered exits with :noproc.
PostToNobody(c) ==
    /\ ~up
    /\ caller[c] # "waiting"
    /\ caller' = [caller EXCEPT ![c] = "exit"]
    /\ started' = [started EXCEPT ![c] = FALSE]
    /\ UNCHANGED <<server, waited, streak, raises, quiet>>

\* Fault variant of Disown: the late reply still finds the caller.
DisownNot(c, seq) == seq

\* The reply of c is no longer expected: its request loses its sender.
Disown(c, seq) ==
    [i \in 1 .. Len(seq) |->
        IF seq[i].from = c THEN [seq[i] EXCEPT !.from = Gone] ELSE seq[i]]

\* GenServer.call times out: the caller exits, the request stays.
GiveUp(c) ==
    /\ caller[c] = "waiting"
    /\ waited[c] = CallTimeout
    /\ caller' = [caller EXCEPT ![c] = "exit"]
    /\ mailbox' = Disown(c, mailbox)
    /\ serving' = IF serving = c THEN Gone ELSE serving
    /\ UNCHANGED <<up, state, failures, sinceFailure, waited, history>>

-----------------------------------------------------------------------------
(* The server: handle_call/3.                                              *)

\* The server is free and the next request is of the given kind.
NextIs(kind) ==
    /\ up
    /\ serving = NoOne
    /\ mailbox # <<>>
    /\ Head(mailbox).kind = kind

\* :closed and :half_open: the function of the request starts running.
StartFun ==
    /\ NextIs("call")
    /\ state \in {"closed", "half_open"}
    /\ serving' = Head(mailbox).from
    /\ mailbox' = Tail(mailbox)
    /\ started' = [c \in Callers |-> started[c] \/ c = Head(mailbox).from]
    /\ UNCHANGED <<up, state, failures, sinceFailure, caller, waited, streak, raises, quiet>>

\* Fault variant of RecoveryElapsed: it does not wait for the whole period.
RecoveryElapsedEarly == sinceFailure > 0

\* elapsed >= @recovery_timeout.
RecoveryElapsed == sinceFailure >= RecoveryTimeout

\* :open: the request is rejected without running its function; the first
\* request after the recovery timeout is rejected too, but leaves the
\* breaker half open for the next one.
Reject ==
    /\ NextIs("call")
    /\ state = "open"
    /\ Answer(Head(mailbox).from, "open")
    /\ mailbox' = Tail(mailbox)
    /\ state' = IF RecoveryElapsed THEN "half_open" ELSE "open"
    /\ UNCHANGED <<up, failures, sinceFailure, serving, waited, history>>

\* The function returns: reply {:ok, result}, the breaker is closed.
FunReturns ==
    /\ serving # NoOne
    /\ Answer(serving, "ok")
    /\ serving' = NoOne
    /\ state' = "closed"
    /\ failures' = 0
    /\ streak' = 0
    /\ raises' = IF state = "half_open" THEN 0 ELSE raises
    /\ UNCHANGED <<up, sinceFailure, mailbox, waited, started, quiet>>

\* Fault variant of TooMany: off by one.
TooManyLate(n) == n > FailureThreshold

\* failures >= @failure_threshold.
TooMany(n) == n >= FailureThreshold

\* The function raises: reply {:error, :failed}.  When closed the failure is
\* counted and may trip the breaker; when half open it re-opens it, the
\* count unchanged.
FunRaises ==
    /\ serving # NoOne
    /\ Answer(serving, "failed")
    /\ serving' = NoOne
    /\ LET n == failures + 1 IN
       \/ /\ state = "closed"
          /\ failures' = n
          /\ IF TooMany(n)
             THEN state' = "open" /\ sinceFailure' = 0
             ELSE UNCHANGED <<state, sinceFailure>>
       \/ /\ state = "half_open"
          /\ state' = "open"
          /\ sinceFailure' = 0
          /\ UNCHANGED failures
    /\ streak' = Bounded(streak, FailureThreshold)
    /\ raises' = Bounded(raises, FailureThreshold)
    /\ quiet' = 0
    /\ UNCHANGED <<up, mailbox, waited, started>>

\* The function exits or throws, which `rescue' does not catch: the server
\* dies with its mailbox, and every waiting caller is told by its monitor.
FunExits ==
    /\ serving # NoOne
    /\ up' = FALSE
    /\ mailbox' = <<>>
    /\ serving' = NoOne
    /\ caller' = [c \in Callers |-> IF caller[c] = "waiting" THEN "exit" ELSE caller[c]]
    /\ UNCHANGED <<state, failures, sinceFailure, waited, history>>

\* The supervisor starts a new server, which init/1 leaves closed.
Restart ==
    /\ ~up
    /\ up' = TRUE
    /\ state' = "closed"
    /\ failures' = 0
    /\ sinceFailure' = RecoveryTimeout
    /\ streak' = 0
    /\ raises' = 0
    /\ UNCHANGED <<mailbox, serving, caller, waited, started, quiet>>

\* handle_call(:status, ...): answers at once, changes nothing.
TellStatus ==
    /\ NextIs("status")
    /\ Answer(Head(mailbox).from, "told")
    /\ mailbox' = Tail(mailbox)
    /\ UNCHANGED <<up, state, failures, sinceFailure, serving, waited, history>>

-----------------------------------------------------------------------------
\* Time passes for everybody.
Tick ==
    /\ sinceFailure' = Bounded(sinceFailure, RecoveryTimeout)
    /\ quiet' = Bounded(quiet, RecoveryTimeout)
    /\ waited' = [c \in Callers |-> IF caller[c] = "waiting"
                                    THEN Bounded(waited[c], CallTimeout)
                                    ELSE waited[c]]
    /\ UNCHANGED <<up, state, failures, mailbox, serving, caller, started, streak, raises>>

CallerStep ==
    \E c \in Callers :
        \/ \E kind \in {"call", "status"} : Post(c, kind)
        \/ PostToNobody(c)
        \/ GiveUp(c)

FunEnds == FunReturns \/ FunRaises \/ FunExits

ServerStep == StartFun \/ Reject \/ FunEnds \/ TellStatus \/ Restart

Next == CallerStep \/ ServerStep \/ Tick

Spec == Init /\ [][Next]_vars

\* The server is scheduled, the functions it runs end (in this program they
\* are network calls with timeouts), and the supervisor restarts it.  No
\* fairness is assumed of callers or of the clock.
FairSpec == Spec /\ WF_vars(ServerStep)

-----------------------------------------------------------------------------
(* Safety.                                                                 *)

\* Positions in the mailbox of the requests of c.
Queued(c) == {i \in 1 .. Len(mailbox) : mailbox[i].from = c}

\* Every caller that waits has exactly one request the server still owes an
\* answer, and a caller that does not wait has none: replies can be neither
\* lost nor delivered to a caller for an earlier request of its, whatever the
\* order of timeouts, crashes and new calls (circuit_breaker.ex:21-23).
RepliesAreRouted ==
    \A c \in Callers :
        /\ caller[c] = "waiting" => serving = c \/ Queued(c) # {}
        /\ serving = c => caller[c] = "waiting" /\ Queued(c) = {}
        /\ Queued(c) # {} => caller[c] = "waiting"
        /\ \A i, j \in Queued(c) : i = j

\* A caller told {:error, :open} can rely on its function not having run, and
\* one told {:ok, _} or {:error, :failed} on its having run, although callers
\* time out and call again while older requests are still queued
\* (circuit_breaker.ex:26-67).
AnswerIsTruthful ==
    \A c \in Callers :
        /\ caller[c] = "open" => ~started[c]
        /\ caller[c] \in {"ok", "failed"} => started[c]

\* Both: a caller is told what became of the function of its present call, and of
\* nothing else (circuit_breaker.ex:21-67).
CallsAnsweredTruly == RepliesAreRouted /\ AnswerIsTruthful

\* FailureThreshold raises in a row leave the breaker not closed, and it is not
\* closed unless that many functions have raised since it was started or recovered
\* by a probe, whatever is served, queued or given up in between
\* (circuit_breaker.ex:27-45, 57-67).  Whether a return while closed takes earlier
\* raises off the count is left open: the code does (line 30), and
\* test/circuit_breaker_recovery_test.exs:100-109 expects that it does not.
OpensOnFailures ==
    up => /\ streak = FailureThreshold => state # "closed"
          /\ state # "closed" => raises = FailureThreshold

\* No function runs while the breaker is open, and one runs as a probe only
\* after a whole recovery period without a raise: a failed probe starts a new
\* period (circuit_breaker.ex:47-66).
ProbeAfterQuietPeriod ==
    /\ serving # NoOne => state # "open"
    /\ state = "half_open" => quiet = RecoveryTimeout

-----------------------------------------------------------------------------
(* Liveness, under FairSpec.                                               *)

\* Every call ends, by the server's own progress and not only by the
\* caller's timeout (circuit_breaker.ex:21-23).
EveryCallEnds ==
    \A c \in Callers : caller[c] = "waiting" ~> caller[c] # "waiting"
=============================================================================
