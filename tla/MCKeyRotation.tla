--------------------------- MODULE MCKeyRotation ----------------------------
(***************************************************************************)
(* Instances of KeyRotation for TLC.                                        *)
(***************************************************************************)
EXTENDS KeyRotation, TLC

CONSTANTS c1, c2, s1, s2, k1, k2, k3

AnyClientSubjectWrapper ==
  Permutations(Clients) \cup Permutations(Subjects) \cup Permutations(Wrappers)

=============================================================================
