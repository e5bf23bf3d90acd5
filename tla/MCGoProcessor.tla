--------------------------- MODULE MCGoProcessor ----------------------------
(* Instance of GoProcessor for TLC: a single event, a batch and a request    *)
(* without events; environments that end in each kind of sink and of panic.  *)
EXTENDS GoProcessor, TLC

CONSTANTS e1, e2, e3, single, several, nothing

MCEvents == {e1, e2, e3}
MCRequests == {single, several, nothing}
MCBatch == single :> <<e1>> @@ several :> <<e2, e3>> @@ nothing :> <<>>

\* 16 is above MaxCapacity, 13 overflows when multiplied by Milli.
MCEnvironments ==
    LET ClickHouse(auto, b, q, f, t) ==
            [backend |-> "clickhouse", autoCreate |-> auto,
             batch |-> b, queue |-> q, flush |-> f, table |-> t]
    IN  {ClickHouse("unset", 2, 0, Unset, "events"),
         ClickHouse("no", Unset, Unset, 13, "a.b"),
         ClickHouse("yes", 16, -5, 1, "events"),
         ClickHouse("yes", 2, 16, 0, "events"),
         [ClickHouse("no", 2, 1, 5, "events") EXCEPT !.backend = "none"],
         [ClickHouse("no", 2, 1, 5, "events") EXCEPT !.backend = "unsupported"]}
=============================================================================
