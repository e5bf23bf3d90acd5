----------------------------- MODULE MCGateway ------------------------------
(* Instance of Gateway for TLC: where the subscribers' sockets are.         *)
EXTENDS Gateway

CONSTANTS n1, n2, s1, s2

TwoNodes == [s \in Subscribers |-> IF s = s1 THEN n1 ELSE n2]
=============================================================================
