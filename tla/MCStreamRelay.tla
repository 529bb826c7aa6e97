---------------------------- MODULE MCStreamRelay ----------------------------
(***************************************************************************)
(* Instances of StreamRelay for TLC.                                        *)
(***************************************************************************)
EXTENDS StreamRelay

CONSTANTS w1, w2, w3, s1, s2, a1, global, t1, t2, subject

(* Two writers of one tenant race on an aggregate, and one of another       *)
(* tenant writes to an aggregate of the same id.                            *)
RaceBesideForeign == [w \in Writers |-> IF w = w3 THEN t2 ELSE t1]

(* A worker bound to one tenant beside one that sees everything, ...        *)
FirstIsBound == [s \in Streams |-> IF s = s1 THEN t1 ELSE NotBound]

(* ... both passing options that ask for something else.                    *)
StrayOptions == [s \in Streams |-> IF s = s1 THEN <<t2, AllTenants>> ELSE <<AllTenants>>]

(* No command passes a PiiID: nothing a stream does depends on it.          *)
NeverPii == [w \in Writers |-> {NoSubject}]

=============================================================================
