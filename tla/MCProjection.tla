---------------------------- MODULE MCProjection ----------------------------
(***************************************************************************)
(* Instances of Projection for TLC.                                         *)
(***************************************************************************)
EXTENDS Projection

CONSTANTS h1, h2, u1, u2

=============================================================================
