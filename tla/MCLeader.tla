------------------------------ MODULE MCLeader ------------------------------
(***************************************************************************)
(* Instances of Leader for TLC.                                             *)
(***************************************************************************)
EXTENDS Leader

CONSTANTS r1, r2, c1, c2, d1

(* A replica with two connections beside one with a single one.             *)
TwoPools == [c \in Connections |-> IF c \in {c1, c2} THEN r1 ELSE r2]

=============================================================================
