---------------------------- MODULE EventHistory -----------------------------
(***************************************************************************)
(* What the history of a channel promises to those that read it            *)
(* (lib/polyglot/storage.ex): an event is added once and as a whole, the   *)
(* latest are remembered up to a limit, and the history may be forgotten   *)
(* as a whole.                                                             *)
(***************************************************************************)
EXTENDS Naturals, Sequences

CONSTANTS
    Events,   \* the calls of store_event, one value each
    Limit     \* history_max_events

VARIABLES
    recent,   \* the latest events, newest first
    added     \* events that have been added

vars == <<recent, added>>

Front(s, n) == SubSeq(s, 1, IF Len(s) <= n THEN Len(s) ELSE n)

Init ==
    /\ recent = <<>>
    /\ added = {}

Add(e) ==
    /\ e \notin added
    /\ added' = added \cup {e}
    /\ recent' = Front(<<e>> \o recent, Limit)

Forget ==
    /\ recent' = <<>>
    /\ UNCHANGED added

Next == (\E e \in Events : Add(e)) \/ Forget

Spec == Init /\ [][Next]_vars

\* The answer to a reader that asks for at most n events, newest first.
Latest(n) == Front(recent, n)
=============================================================================
