----------------------------- MODULE MCMemStore -----------------------------
(***************************************************************************)
(* Instances of MemStore and SubjectExport for TLC.                         *)
(***************************************************************************)
EXTENDS SubjectExport

CONSTANTS w1, w2, w3, s1, s2, a1, a2, global, t1, t2, subject

(* Two writers race on one aggregate of one tenant.                         *)
SameTenant == [w \in Writers |-> t1]

(* Two writers of tenant t1 race, a third one has no scope.                 *)
RaceBesideGlobal == [w \in Writers |-> IF w = w3 THEN global ELSE t1]

(* A projector of one tenant beside one that sees everything.               *)
TenantAndEverything == [s \in Streams |-> IF s = s1 THEN t1 ELSE Everything]

AllEverything == [s \in Streams |-> Everything]

(* As in examples/user: some commands pass a PiiID, ChangeName passes none. *)
SometimesPii == [w \in Writers |-> IF w = w1 THEN {subject, NoSubject} ELSE {subject}]

(* No command passes a PiiID.                                               *)
NeverPii == [w \in Writers |-> {NoSubject}]

=============================================================================
