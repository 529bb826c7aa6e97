----------------------------- MODULE MCPgLedger -----------------------------
(***************************************************************************)
(* Instances of PgLedger for TLC.                                           *)
(***************************************************************************)
EXTENDS PgLedger

CONSTANTS p1, p2, ann, bob

(* Two ticks are a microsecond, to which a TIMESTAMPTZ column rounds, and   *)
(* two microseconds are a second.                                           *)
RoundedToMicroseconds == [t \in Times |-> 2 * ((t + 1) \div 2)]

=============================================================================
