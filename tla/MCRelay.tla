------------------------------ MODULE MCRelay ------------------------------
(* Instances of Relay for TLC.                                             *)
EXTENDS Relay, TLC

CONSTANTS c1, c2

OneRequest == [c \in Conns |-> 1]
TwoRequests == [c \in Conns |-> 2]
TwoAndOne == [c \in Conns |-> IF c = c1 THEN 2 ELSE 1]
=============================================================================
