-------------------------------- MODULE Topic --------------------------------
(***************************************************************************)
(* What a topic promises to its subscribers (lib/polyglot/gateway/): an    *)
(* event is sent to subscribers one at a time and once to each, as long as *)
(* it is being published; once it is confirmed, all it was owed to have    *)
(* it, and nobody is sent it any more.  It is owed to those its publisher  *)
(* reaches; whether it goes any further is left open.                      *)
(***************************************************************************)
EXTENDS Naturals, Sequences

CONSTANTS
    Subscribers,
    Events,
    Reaches   \* sets of subscribers a publisher can reach

VARIABLES
    member,   \* "new", "joined" or "left"
    stage,    \* of an event: "unpublished", "open", "confirmed" or "dropped"
    owed,     \* of an open or confirmed event: those within its publisher's reach
              \* that were there when it opened, and still are
    log       \* what each subscriber has been sent, in order

vars == <<member, stage, owed, log>>

Has(s, e) == \E i \in DOMAIN log[s] : log[s][i] = e

Init ==
    /\ member = [s \in Subscribers |-> "new"]
    /\ stage = [e \in Events |-> "unpublished"]
    /\ owed = [e \in Events |-> {}]
    /\ log = [s \in Subscribers |-> <<>>]

Open(e, reach) ==
    /\ stage[e] = "unpublished"
    /\ stage' = [stage EXCEPT ![e] = "open"]
    /\ owed' = [owed EXCEPT ![e] = {s \in reach : member[s] = "joined"}]
    /\ UNCHANGED <<member, log>>

Send(e, s) ==
    /\ stage[e] = "open" /\ member[s] = "joined"
    /\ ~Has(s, e)
    /\ log' = [log EXCEPT ![s] = Append(@, e)]
    /\ UNCHANGED <<member, stage, owed>>

Confirm(e) ==
    /\ stage[e] = "open" /\ \A s \in owed[e] : Has(s, e)
    /\ stage' = [stage EXCEPT ![e] = "confirmed"]
    /\ UNCHANGED <<member, owed, log>>

\* The events in `lost' are given up, and those in `gone' are owed nothing any more.
Abandon(lost, gone) ==
    /\ stage' = [e \in Events |-> IF e \in lost THEN "dropped" ELSE stage[e]]
    /\ owed' = [e \in Events |-> IF e \in lost THEN {} ELSE owed[e] \ gone]

\* A publisher gives up before it is answered.
Drop(e) ==
    /\ stage[e] \in {"unpublished", "open"}
    /\ Abandon({e}, {})
    /\ UNCHANGED <<member, log>>

Join(s) ==
    /\ member[s] = "new"
    /\ member' = [member EXCEPT ![s] = "joined"]
    /\ UNCHANGED <<stage, owed, log>>

\* A subscriber ends, with what it was publishing and the last of what it was sent.
Leave(s) ==
    /\ member[s] = "joined"
    /\ member' = [member EXCEPT ![s] = "left"]
    /\ \E lost \in SUBSET {e \in Events : stage[e] = "open"} : Abandon(lost, {s})
    /\ \E n \in 0 .. Len(log[s]) : log' = [log EXCEPT ![s] = SubSeq(@, 1, n)]

Next ==
    \/ \E e \in Events : Confirm(e) \/ Drop(e)
    \/ \E e \in Events, reach \in Reaches : Open(e, reach)
    \/ \E e \in Events, s \in Subscribers : Send(e, s)
    \/ \E s \in Subscribers : Join(s) \/ Leave(s)

Spec == Init /\ [][Next]_vars
=============================================================================
