------------------------------- MODULE Storage ------------------------------
(***************************************************************************)
(* Polyglot.Storage (lib/polyglot/storage.ex): the history of one channel, *)
(* kept in a Redis list that all gateways share and, as a fallback, in an  *)
(* ETS table of each gateway.  Keys of different channels do not interact. *)
(*                                                                         *)
(* store_event runs in the process of the HTTP request.  It sends LPUSH,   *)
(* LTRIM and EXPIRE as one pipeline on its gateway's only connection       *)
(* (Redix), and whatever goes wrong writes the event to ETS instead.       *)
(* Redis executes the commands of a connection in order, but not a         *)
(* pipeline as a unit: commands of other gateways may come between.  A     *)
(* caller that times out withdraws nothing; a connection that breaks may   *)
(* have delivered any part of what was sent on it (`loose').               *)
(***************************************************************************)
EXTENDS Integers, FiniteSets, SequencesExt

CONSTANTS
    Nodes,       \* gateways
    Events,      \* the calls of store_event, one value each
    Encodable,   \* those Jason.encode accepts
    MaxEvents,   \* history_max_events
    HistoryTtl   \* history_ttl_seconds; only whether it is positive matters

ASSUME StorageAssumption ==
    /\ Encodable \subseteq Events
    /\ MaxEvents \in Nat
    /\ HistoryTtl \in Nat

VARIABLES
    link,     \* is the gateway's connection to Redis up?
    wire,     \* pipelines on the connection, in order, by their event
    loose,    \* pipelines on broken connections that Redis may still execute
    done,     \* number of commands of the pipeline Redis has executed
    op,       \* the call of store_event
    home,     \* the gateway that runs the call
    list,     \* the Redis list history:<channel>, newest first
    ttl,      \* the key has an expiry
    ets,      \* the gateway's rows of :event_history, oldest first
    pushed,   \* history: events pushed to the key since it was last created
    dropped   \* history: events trimmed or expired, and ETS rows lost in a crash

connection == <<link, wire, loose>>
redis == <<done, list, ttl, pushed>>
vars == <<connection, op, home, redis, ets, dropped>>

Sequence == Seq(Events)

TypeOK ==
    /\ link \in [Nodes -> BOOLEAN]
    /\ wire \in [Nodes -> Sequence]
    /\ loose \subseteq Events
    /\ done \in [Events -> 0 .. 3]
    /\ op \in [Events -> {"idle", "sent", "fallback", "stored", "crashed"}]
    /\ home \in [Events -> Nodes]
    /\ list \in Sequence
    /\ ttl \in BOOLEAN
    /\ ets \in [Nodes -> Sequence]
    /\ pushed \in Sequence
    /\ dropped \subseteq Events

\* `home' has no meaning before the call.
Init ==
    /\ link = [n \in Nodes |-> TRUE]
    /\ wire = [n \in Nodes |-> <<>>]
    /\ loose = {}
    /\ done = [e \in Events |-> 0]
    /\ op = [e \in Events |-> "idle"]
    /\ home \in {[e \in Events |-> n] : n \in Nodes}
    /\ list = <<>>
    /\ ttl = FALSE
    /\ ets = [n \in Nodes |-> <<>>]
    /\ pushed = <<>>
    /\ dropped = {}

Lesser(a, b) == IF a <= b THEN a ELSE b

-----------------------------------------------------------------------------
(* store_event/2.                                                          *)

\* The conditions of store_in_redis before the pipeline is sent.
UsesRedis(e) == e \in Encodable /\ HistoryTtl > 0 /\ MaxEvents > 0

\* The call begins: its pipeline is sent, or it falls back at once.
StoreEvent(e, n) ==
    /\ op[e] = "idle"
    /\ home' = [home EXCEPT ![e] = n]
    /\ IF UsesRedis(e) /\ link[n]
       THEN op' = [op EXCEPT ![e] = "sent"] /\ wire' = [wire EXCEPT ![n] = Append(@, e)]
       ELSE op' = [op EXCEPT ![e] = "fallback"] /\ UNCHANGED wire
    /\ UNCHANGED <<link, loose, redis, ets, dropped>>

\* Redix answers LTRIM with the string "OK"; the code expects the atom :ok.
LtrimReply == "OK"
ValidatePipelineResponses(ltrim) == ltrim = ":ok"

\* The three replies arrive; those of a call that has timed out are ignored.
PipelineReply(n) ==
    /\ wire[n] # <<>>
    /\ done[Head(wire[n])] = 3
    /\ wire' = [wire EXCEPT ![n] = Tail(@)]
    /\ op' = [op EXCEPT ![Head(wire[n])] =
                 IF @ # "sent" THEN @
                 ELSE IF ValidatePipelineResponses(LtrimReply) THEN "stored" ELSE "fallback"]
    /\ UNCHANGED <<link, loose, home, redis, ets, dropped>>

\* Fault variant of PipelineTimeout: the pipeline is sent once more.
PipelineTimeoutResend(e) ==
    /\ op[e] = "sent"
    /\ wire' = [wire EXCEPT ![home[e]] = Append(@, e)]
    /\ done' = [done EXCEPT ![e] = 0]
    /\ UNCHANGED <<link, loose, op, home, list, ttl, pushed, ets, dropped>>

\* Redix gives up waiting: {:error, :timeout}.  The commands are not withdrawn.
PipelineTimeout(e) ==
    /\ op[e] = "sent"
    /\ op' = [op EXCEPT ![e] = "fallback"]
    /\ UNCHANGED <<connection, home, redis, ets, dropped>>

\* Fault variant of EtsRows: what was sent to Redis is taken as stored there.
EtsRowsUnsent(e, rows) == IF UsesRedis(e) THEN rows ELSE Append(rows, e)

\* :event_history after :ets.insert.
EtsRows(e, rows) == Append(rows, e)

\* store_event inserts into ETS and returns :ok.
EtsInsert(e) ==
    /\ op[e] = "fallback"
    /\ ets' = [ets EXCEPT ![home[e]] = EtsRows(e, @)]
    /\ op' = [op EXCEPT ![e] = "stored"]
    /\ UNCHANGED <<connection, home, redis, dropped>>

-----------------------------------------------------------------------------
(* Redis.                                                                  *)

\* Fault variant of Position: EXPIRE is sent first, when there may be no key.
PositionSwapped == [expire |-> 0, lpush |-> 1, ltrim |-> 2]

\* The order of the commands in the pipeline.
Position == [lpush |-> 0, ltrim |-> 1, expire |-> 2]

OnWire(e) == \E n \in Nodes : e \in Range(wire[n])

\* Redis executes the command at the given position of e's pipeline.
Executes(e, position) ==
    /\ done[e] = position
    /\ e \in loose \/ \E n \in Nodes : wire[n] # <<>> /\ Head(wire[n]) = e
    /\ done' = [done EXCEPT ![e] = position + 1]
    /\ UNCHANGED <<connection, op, home, ets>>

Lpush(e) ==
    /\ Executes(e, Position.lpush)
    /\ list' = <<e>> \o list
    /\ pushed' = Append(pushed, e)
    /\ UNCHANGED <<ttl, dropped>>

\* LTRIM key 0 max_events - 1.
Trimmed(s) == SubSeq(s, 1, Lesser(Len(s), MaxEvents))

Ltrim(e) ==
    /\ Executes(e, Position.ltrim)
    /\ list' = Trimmed(list)
    /\ dropped' = dropped \cup (Range(list) \ Range(list'))
    /\ UNCHANGED <<ttl, pushed>>

\* EXPIRE has no effect on a missing key.
SetExpire(e) ==
    /\ Executes(e, Position.expire)
    /\ ttl' = (list # <<>>)
    /\ UNCHANGED <<list, pushed, dropped>>

\* The expiry of the key comes.
Expire ==
    /\ ttl
    /\ list' = <<>>
    /\ ttl' = FALSE
    /\ pushed' = <<>>
    /\ dropped' = dropped \cup Range(list)
    /\ UNCHANGED <<connection, op, home, done, ets>>

\* Redis meets the end of a broken connection: the rest is never executed.
CutOff(e) ==
    /\ e \in loose
    /\ loose' = loose \ {e}
    /\ UNCHANGED <<link, wire, op, home, redis, ets, dropped>>

-----------------------------------------------------------------------------
(* Connections and gateways.                                               *)

\* The pipelines of n that a break leaves unfinished.
Unfinished(n) == {e \in Range(wire[n]) : done[e] < 3}

\* The connection breaks: every call waiting on it gets an error.
LinkDown(n) ==
    /\ link[n]
    /\ link' = [link EXCEPT ![n] = FALSE]
    /\ wire' = [wire EXCEPT ![n] = <<>>]
    /\ loose' = loose \cup Unfinished(n)
    /\ op' = [e \in Events |-> IF op[e] = "sent" /\ home[e] = n THEN "fallback" ELSE op[e]]
    /\ UNCHANGED <<home, redis, ets, dropped>>

\* Redix reconnects.
LinkUp(n) ==
    /\ ~link[n]
    /\ link' = [link EXCEPT ![n] = TRUE]
    /\ UNCHANGED <<wire, loose, op, home, redis, ets, dropped>>

\* A gateway dies, with its table and the calls it was running, and restarts.
NodeCrash(n) ==
    /\ link' = [link EXCEPT ![n] = FALSE]
    /\ wire' = [wire EXCEPT ![n] = <<>>]
    /\ loose' = loose \cup Unfinished(n)
    /\ op' = [e \in Events |-> IF op[e] \in {"sent", "fallback"} /\ home[e] = n
                               THEN "crashed" ELSE op[e]]
    /\ ets' = [ets EXCEPT ![n] = <<>>]
    /\ dropped' = dropped \cup Range(ets[n])
    /\ UNCHANGED <<home, redis>>

RedisStep == \E e \in Events : Lpush(e) \/ Ltrim(e) \/ SetExpire(e)

Next ==
    \/ \E e \in Events :
          \/ \E n \in Nodes : StoreEvent(e, n)
          \/ PipelineTimeout(e) \/ EtsInsert(e) \/ CutOff(e)
    \/ \E n \in Nodes : PipelineReply(n) \/ LinkDown(n) \/ LinkUp(n) \/ NodeCrash(n)
    \/ RedisStep
    \/ Expire

Spec == Init /\ [][Next]_vars

\* Redis works on what it has received, answers, and expires keys.  Nothing is
\* assumed of connections and gateways.
FairSpec ==
    /\ Spec
    /\ WF_vars(RedisStep)
    /\ WF_vars(Expire)
    /\ \A n \in Nodes : WF_vars(PipelineReply(n))

-----------------------------------------------------------------------------
(* get_history/2.                                                          *)

\* read_from_redis: LRANGE of the newest, reversed.
RedisHistory(limit) ==
    LET safeLimit == Lesser(IF limit < 1 THEN 1 ELSE limit, MaxEvents) IN
    Reverse(SubSeq(list, 1, Lesser(Len(list), safeLimit)))

\* Enum.take: from the front, or for a negative amount from the end.
Take(s, amount) ==
    IF amount >= 0 THEN SubSeq(s, 1, Lesser(Len(s), amount))
    ELSE SubSeq(s, Len(s) - Lesser(Len(s), -amount) + 1, Len(s))

\* read_from_ets: rows come in the order of insertion.
EtsHistory(n, limit) == Reverse(Take(ets[n], limit))

\* What get_history may answer on gateway n: with the connection up Redis
\* answers, or times out.
Answers(n, limit) ==
    {EtsHistory(n, limit)} \cup (IF link[n] THEN {RedisHistory(limit)} ELSE {})

-----------------------------------------------------------------------------
(* Safety.                                                                 *)

\* However the pipelines of several gateways mix, time out or break, the list is
\* an unbroken run of the latest pushes, each once: nothing newer was trimmed
\* while something older was kept, and no event was trimmed that had room. It
\* outgrows history_max_events only by events whose own LTRIM has not been executed,
\* by one each (storage.ex:36-40).
HistoryIsWindow ==
    /\ IsInjective(list)
    /\ Reverse(list) = SubSeq(pushed, Len(pushed) - Len(list) + 1, Len(pushed))
    /\ Len(list) >= Lesser(Len(pushed), MaxEvents)
    /\ Len(list) <= MaxEvents + Cardinality({e \in Range(list) : done[e] < 2})

\* An event whose store_event has returned :ok is in Redis or in the table of its
\* own gateway, unless trimming, expiry or a crash of that gateway took it
\* (storage.ex:14-21).
StoredIsKept ==
    \A e \in Events :
        op[e] = "stored" => e \in Range(list) \cup Range(ets[home[e]]) \cup dropped

\* When no call is under way, two reads of the history on the same gateway have
\* the same length, whichever backend answers:
\* test/multi_tenant_isolation_test.exs:216-223.
BackendsAgree ==
    (\A e \in Events : op[e] \in {"idle", "stored"} /\ ~OnWire(e) /\ e \notin loose) =>
        \A n \in Nodes : \A h, k \in Answers(n, 2) : Len(h) = Len(k)

-----------------------------------------------------------------------------
(* What readers are promised.                                              *)

\* The newest of the list, with each event added by its LPUSH.
Abstract == INSTANCE EventHistory WITH
    Limit <- MaxEvents,
    recent <- SubSeq(list, 1, Lesser(Len(list), MaxEvents)),
    added <- {e \in Events : done[e] > 0}

\* Though a pipeline is not executed as a unit, those that read the list see each
\* event added at once, with what exceeds history_max_events gone, or the whole
\* history forgotten: whatever other gateways execute between an LPUSH and its LTRIM
\* (storage.ex:36-40, 103-118).
KeepsHistory == Abstract!Spec

-----------------------------------------------------------------------------
(* Liveness, under FairSpec.                                               *)

\* Some pipeline was cut off between LPUSH and EXPIRE.
Cut == \E e \in Range(pushed) : done[e] \in 1 .. 2 /\ e \notin loose /\ ~OnWire(e)

\* A history expires, unless a pipeline was cut off after its LPUSH
\* (storage.ex:39).
HistoryExpires == list # <<>> ~> list = <<>> \/ Cut
=============================================================================
