------------------------------ MODULE ShredChain ------------------------------
(***************************************************************************)
(* es/erasure_ledger.go: the records of the erasure ledger and the hash     *)
(* chain through them.                                                      *)
(*                                                                          *)
(* SHA-256 is idealised: a hash is the sequence of what was hashed, so two  *)
(* hashes are equal exactly when everything that went into them is.  Times  *)
(* are numbers of clock ticks.                                              *)
(***************************************************************************)
EXTENDS Naturals, Sequences, FiniteSets

CONSTANTS
  Subjects,        \* data subjects (PiiID)
  Origins,         \* global ids of the events that asked for an erasure
  Times,           \* what the clock may show
  TicksPerSecond   \* the clock is finer than a second

ASSUME ClockAssumption ==
  /\ Origins \subseteq Nat
  /\ Times \subseteq Nat
  /\ TicksPerSecond \in Nat \ {0}

(* Mutation: the time is hashed as it is.                                   *)
ToTheTick(t) == t

(* erasedAt.Truncate(time.Second).                                          *)
Second(t) == t \div TicksPerSecond

(* The all-zero hash the chain starts from.                                 *)
ZeroHash == <<>>

Hash == Seq(Subjects \X Nat \X Nat)

ShredRecord == [pii : Subjects, at : Nat, origin : Nat, prev : Hash, hash : Hash]

(* Mutation: the origin is not hashed.                                      *)
HashWithoutOrigin(prev, pii, at, origin) ==
  Append(prev, <<pii, Second(at), 0>>)

ShredRecordHash(prev, pii, at, origin) ==
  Append(prev, <<pii, Second(at), origin>>)

HashOfLast(records) ==
  IF records = <<>> THEN ZeroHash ELSE records[Len(records)].hash

(* CheckShredChain names the first of these positions.                      *)
BrokenLinks(records) ==
  {i \in DOMAIN records :
     LET r == records[i]
         prev == HashOfLast(SubSeq(records, 1, i - 1)) IN
     \/ r.prev # prev
     \/ r.hash # ShredRecordHash(prev, r.pii, r.at, r.origin)}

CheckShredChain(records) == BrokenLinks(records) = {}

=============================================================================
