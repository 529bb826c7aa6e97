----------------------------- MODULE ErasureLedger -----------------------------
(***************************************************************************)
(* es.ErasureLedger and its in-memory implementation                        *)
(* (es/memstore/erasure_ledger.go): one chain of records, to which a record *)
(* is only ever added at the end, in one step under a mutex.                *)
(*                                                                          *)
(* PgLedger is shown to implement this module.                              *)
(***************************************************************************)
EXTENDS ShredChain

CONSTANT
  Stored          \* Times -> Nat: what the store keeps of a time

VARIABLE records  \* in the order they were appended: what Entries returns

Init == records = <<>>

(* The record is linked to the tail; its hash is over the time given.       *)
AppendRecord(pii, t, origin) ==
  LET prev == HashOfLast(records) IN
  records' = Append(records,
    [pii |-> pii, at |-> Stored[t], origin |-> origin, prev |-> prev,
     hash |-> ShredRecordHash(prev, pii, t, origin)])

Next == \E pii \in Subjects, t \in Times, origin \in Origins :
          AppendRecord(pii, t, origin)

Spec == Init /\ [][Next]_records

=============================================================================
