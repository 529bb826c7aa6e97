------------------------------- MODULE PgLedger -------------------------------
(***************************************************************************)
(* es/pgstore/erasure_ledger.go: the erasure ledger in the Postgres table   *)
(* pii_shreds, appended to by several processes at once.                    *)
(*                                                                          *)
(* An Append is a READ COMMITTED transaction: it waits for the advisory     *)
(* lock, reads the hash of the row with the highest id, inserts a row       *)
(* linked to it, commits.  Ids come from a sequence, which a rollback does  *)
(* not take back.  A row is invisible to the others until its transaction   *)
(* commits, and the lock goes with the transaction.                         *)
(***************************************************************************)
EXTENDS ShredChain

CONSTANTS
  Appenders,      \* processes that append
  NoAppender,     \* the advisory lock is free
  NoRow,          \* the transaction has not inserted its row yet
  Stored,         \* Times -> Nat: what a TIMESTAMPTZ column keeps of a time
  MaxAppends,     \* bound: calls of Append per process
  MaxFailures     \* bound: calls that return an error

ASSUME LedgerAssumption ==
  /\ NoAppender \notin Appenders
  /\ Subjects # {} /\ Times # {} /\ Origins # {}
  /\ Stored \in [Times -> Nat]
  /\ MaxAppends \in Nat
  /\ MaxFailures \in Nat

VARIABLES
  rows,           \* the committed rows of pii_shreds
  lastId,         \* the sequence behind the id column
  lock,           \* who has the advisory lock
  pc,             \* appender: where in Append it is
  given,          \* appender: the arguments of the call
  tail,           \* appender: prevHash
  draft,          \* appender: the row it inserted
  calls,          \* appender: calls begun
  failures,       \* calls that returned an error
  acked,          \* <<appender, call>> that returned nil
  unsure          \* <<appender, call>> whose COMMIT was not answered

callVars == <<given, calls>>
vars == <<rows, lastId, lock, pc, tail, draft, failures, acked, unsure, callVars>>

Call == Appenders \X Nat

(* A row, with the call and the time it was made of (history).              *)
Row == [id : Nat, record : ShredRecord, by : Call, time : Times]

-----------------------------------------------------------------------------
Below(r) == {q \in rows : q.id < r.id}

(* Entries: ORDER BY id.                                                    *)
Entries ==
  [n \in 1..Cardinality(rows) |->
     (CHOOSE r \in rows : Cardinality(Below(r)) = n - 1).record]

Newest(rs) == CHOOSE r \in rs : \A q \in rs : q.id <= r.id

(* Mutation: ORDER BY id without DESC.                                      *)
OldestHash(rs) ==
  IF rs = {} THEN ZeroHash
  ELSE (CHOOSE r \in rs : \A q \in rs : r.id <= q.id).record.hash

(* ORDER BY id DESC LIMIT 1, or the zero hash when there is no row.         *)
TailHash(rs) == IF rs = {} THEN ZeroHash ELSE Newest(rs).record.hash

-----------------------------------------------------------------------------
(* BeginTx.  The caller passes what its clock shows, unrounded.             *)
BeginAppend(a) ==
  /\ pc[a] = "idle"
  /\ calls[a] < MaxAppends
  /\ \E pii \in Subjects, t \in Times, origin \in Origins :
       given' = [given EXCEPT ![a] = [pii |-> pii, time |-> t, origin |-> origin]]
  /\ calls' = [calls EXCEPT ![a] = @ + 1]
  /\ pc' = [pc EXCEPT ![a] = "locking"]
  /\ UNCHANGED <<rows, lastId, lock, tail, draft, failures, acked, unsure>>

(* Mutation: no lock.                                                       *)
NoNeedToWait == TRUE

LockFree == lock = NoAppender

(* pg_advisory_xact_lock.                                                   *)
TakeLock(a) ==
  /\ pc[a] = "locking"
  /\ LockFree
  /\ lock' = a
  /\ pc' = [pc EXCEPT ![a] = "reading"]
  /\ UNCHANGED <<rows, lastId, tail, draft, failures, acked, unsure, callVars>>

ReadTail(a) ==
  /\ pc[a] = "reading"
  /\ tail' = [tail EXCEPT ![a] = TailHash(rows)]
  /\ pc' = [pc EXCEPT ![a] = "inserting"]
  /\ UNCHANGED <<rows, lastId, lock, draft, failures, acked, unsure, callVars>>

(* The row; its hash is over the time given, not over the time stored.      *)
NewRow(a) ==
  LET g == given[a] IN
  [id |-> lastId + 1, by |-> <<a, calls[a]>>, time |-> g.time,
   record |-> [pii |-> g.pii, at |-> Stored[g.time], origin |-> g.origin,
               prev |-> tail[a],
               hash |-> ShredRecordHash(tail[a], g.pii, g.time, g.origin)]]

Insert(a) ==
  /\ pc[a] = "inserting"
  /\ draft' = [draft EXCEPT ![a] = NewRow(a)]
  /\ lastId' = lastId + 1
  /\ pc' = [pc EXCEPT ![a] = "committing"]
  /\ UNCHANGED <<rows, lock, tail, failures, acked, unsure, callVars>>

(* Mutation: the lock belongs to the session.                               *)
LockKept(a) == lock

LockAfter(a) == IF lock = a THEN NoAppender ELSE lock

(* The transaction is over.                                                 *)
Returns(a) ==
  /\ lock' = LockAfter(a)
  /\ pc' = [pc EXCEPT ![a] = "idle"]
  /\ tail' = [tail EXCEPT ![a] = ZeroHash]
  /\ draft' = [draft EXCEPT ![a] = NoRow]
  /\ UNCHANGED callVars

(* Mutation: the deferred Rollback runs before COMMIT.                      *)
RolledBack(a) == rows

Committed(a) == rows \cup {draft[a]}

(* COMMIT: the row becomes visible and the lock is released.                *)
CommitTx(a) ==
  /\ pc[a] = "committing"
  /\ rows' = Committed(a)
  /\ acked' = acked \cup {<<a, calls[a]>>}
  /\ Returns(a)
  /\ UNCHANGED <<lastId, failures, unsure>>

Fails(a) ==
  /\ failures < MaxFailures
  /\ failures' = failures + 1
  /\ Returns(a)

(* Any statement fails, or the connection is lost before COMMIT takes       *)
(* effect: the transaction is rolled back.  An INSERT that failed may have  *)
(* used up an id.                                                           *)
TransactionFails(a) ==
  /\ pc[a] # "idle"
  /\ Fails(a)
  /\ lastId' \in {lastId} \cup (IF pc[a] = "inserting" THEN {lastId + 1} ELSE {})
  /\ UNCHANGED <<rows, acked, unsure>>

(* The connection is lost after COMMIT took effect: Append returns an       *)
(* error all the same.                                                      *)
CommitAnswerLost(a) ==
  /\ pc[a] = "committing"
  /\ Fails(a)
  /\ rows' = Committed(a)
  /\ unsure' = unsure \cup {<<a, calls[a]>>}
  /\ UNCHANGED <<lastId, acked>>

-----------------------------------------------------------------------------
NothingGiven == [pii |-> CHOOSE pii \in Subjects : TRUE,
                 time |-> CHOOSE t \in Times : TRUE,
                 origin |-> CHOOSE origin \in Origins : TRUE]

Init ==
  /\ rows = {}
  /\ lastId = 0
  /\ lock = NoAppender
  /\ pc = [a \in Appenders |-> "idle"]
  /\ given = [a \in Appenders |-> NothingGiven]
  /\ tail = [a \in Appenders |-> ZeroHash]
  /\ draft = [a \in Appenders |-> NoRow]
  /\ calls = [a \in Appenders |-> 0]
  /\ failures = 0
  /\ acked = {}
  /\ unsure = {}

Advance(a) ==
  \/ TakeLock(a)
  \/ ReadTail(a)
  \/ Insert(a)
  \/ CommitTx(a)

Next == \E a \in Appenders :
  \/ BeginAppend(a)
  \/ Advance(a)
  \/ TransactionFails(a)
  \/ CommitAnswerLost(a)

Spec == Init /\ [][Next]_vars

(* A call that is under way goes on.                                        *)
FairSpec == Spec /\ \A a \in Appenders : WF_vars(Advance(a))

-----------------------------------------------------------------------------
(* Properties.                                                              *)

InTransaction(a) == pc[a] \in {"reading", "inserting", "committing"}

(* Every variable has its type, and the transactions past their lock        *)
(* statement are the one that has the lock.                                 *)
TypeOK ==
  /\ rows \subseteq Row
  /\ lastId \in Nat
  /\ lock \in Appenders \cup {NoAppender}
  /\ pc \in [Appenders -> {"idle", "locking", "reading", "inserting", "committing"}]
  /\ \A a \in Appenders : InTransaction(a) <=> lock = a
  /\ given \in [Appenders -> [pii : Subjects, time : Times, origin : Origins]]
  /\ tail \in [Appenders -> Hash]
  /\ draft \in [Appenders -> Row \cup {NoRow}]
  /\ \A a \in Appenders : pc[a] = "committing" => draft[a] \in Row
  /\ calls \in [Appenders -> Nat]
  /\ failures \in 0..MaxFailures
  /\ acked \subseteq Call
  /\ unsure \subseteq Call

(* "two concurrent shreds can never both read the same tail and fork the    *)
(* chain" (es/pgstore/erasure_ledger.go): every row is linked to the row    *)
(* with the next lower id, also after rollbacks, gaps in the ids and lost   *)
(* answers, and no id is given out twice.                                   *)
ChainNeverForks ==
  \A r \in rows :
    /\ r.record.prev = TailHash(Below(r))
    /\ \A q \in rows : q.id = r.id => q = r

(* "the hash reproduces after any storage round-trip"                       *)
(* (es/erasure_ledger.go), as far as it does: CheckShredChain accepts the   *)
(* ledger as it is read back, except for records whose time the column      *)
(* rounded into the next second.                                            *)
ChecksOutUnlessRoundedOver ==
  \A i \in BrokenLinks(Entries) :
    \E r \in rows :
      /\ Cardinality(Below(r)) = i - 1
      /\ r.time \div TicksPerSecond # r.record.at \div TicksPerSecond

Without(records, i) ==
  SubSeq(records, 1, i - 1) \o SubSeq(records, i + 1, Len(records))

Swapped(records, i) ==
  [records EXCEPT ![i] = records[i + 1], ![i + 1] = records[i]]

(* What one may do to a record: another subject, origin or second, with the *)
(* hash left alone or recomputed.                                           *)
Doctored(r) ==
  LET edits == {[r EXCEPT !.pii = p] : p \in Subjects \ {r.pii}}
               \cup {[r EXCEPT !.origin = o] : o \in {r.origin + 1}}
               \cup {[r EXCEPT !.at = r.at + TicksPerSecond]}
  IN  edits \cup {[e EXCEPT !.hash = ShredRecordHash(e.prev, e.pii, e.at, e.origin)]
                    : e \in edits}

(* CheckShredChain catches "any record that was altered or removed after    *)
(* the fact" (README.md), on a ledger it accepts: a record that others      *)
(* follow cannot be edited, even with its hash recomputed, nor taken out,   *)
(* and no two neighbours can change places.  The last record is protected   *)
(* only against an edit that leaves its hash alone.                         *)
TamperingShows ==
  CheckShredChain(Entries) =>
    /\ \A i \in 1..(Len(Entries) - 1) :
         /\ ~CheckShredChain(Without(Entries, i))
         /\ ~CheckShredChain(Swapped(Entries, i))
    /\ \A i \in DOMAIN Entries : \A r \in Doctored(Entries[i]) :
         i < Len(Entries) \/ r.hash = Entries[i].hash
           => ~CheckShredChain([Entries EXCEPT ![i] = r])

(* Append returns nil only when its record is in the ledger, once; what a   *)
(* call that returned an error left there is a record whose COMMIT was not  *)
(* answered.                                                                *)
AppendedOnceIfAcknowledged ==
  /\ \A c \in acked \cup unsure : \E r \in rows : r.by = c
  /\ \A r \in rows : /\ r.by \in acked \cup unsure
                     /\ \A q \in rows : q.by = r.by => q = r

(* Refinement: the table read in the order of its ids is the ledger of      *)
(* es.ErasureLedger, "entries are only ever appended, never updated or      *)
(* deleted": a later Entries extends an earlier one.                        *)
Ledger == INSTANCE ErasureLedger WITH records <- Entries

KeepsTheLedger == Ledger!Spec

(* A call of Append returns: whoever fails or loses its connection gives    *)
(* the lock back.                                                           *)
AppendsReturn == \A a \in Appenders : pc[a] # "idle" ~> pc[a] = "idle"

=============================================================================
