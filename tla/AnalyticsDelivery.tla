------------------------- MODULE AnalyticsDelivery --------------------------
(***************************************************************************)
(* What the analytics sink promises (go_processor/analytics_sink.go,       *)
(* interface AnalyticsSink): the events it accepts are handed to the       *)
(* database in the order of acceptance, each of them once and none         *)
(* skipped; some of those handed over get stored.                          *)
(***************************************************************************)
EXTENDS Naturals, Sequences, Functions

CONSTANT Events   \* the calls of WriteEvent, one value each

VARIABLES
    accepted,   \* events taken in by WriteEvent, in order
    handed,     \* events handed to the database, in order
    stored      \* events the database has

vars == <<accepted, handed, stored>>

Init ==
    /\ accepted = <<>>
    /\ handed = <<>>
    /\ stored = {}

Accept ==
    /\ \E e \in Events \ Range(accepted) : accepted' = Append(accepted, e)
    /\ UNCHANGED <<handed, stored>>

\* More of the accepted events are handed over; of all those handed over, the
\* database keeps some it had not stored before.
Deliver ==
    /\ \E n \in Len(handed) .. Len(accepted) : handed' = SubSeq(accepted, 1, n)
    /\ stored \subseteq stored'
    /\ stored' \subseteq Range(handed')
    /\ UNCHANGED accepted

Next == Accept \/ Deliver

Spec == Init /\ [][Next]_vars
=============================================================================
