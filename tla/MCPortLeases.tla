---------------------------- MODULE MCPortLeases ----------------------------
(* Instances of PortLeases for TLC. *)
EXTENDS PortLeases

CONSTANTS r1, r2, p1, p2, p3

OneEach == [r \in Runs |-> 1]
TwoAndOne == [r \in Runs |-> IF r = r1 THEN 2 ELSE 1]
=============================================================================
