---------------------------- MODULE PgLedgerProofs ----------------------------
(***************************************************************************)
(* Theorems about PgLedger, for any processes, clock and column precision   *)
(* and any number of appends and failures.                                  *)
(***************************************************************************)
EXTENDS PgLedger, FiniteSetTheorems, SequenceTheorems, TLAPS

-----------------------------------------------------------------------------
(* The inductive invariant.                                                 *)

(* Ids come from the sequence: none is beyond its last value, and a table   *)
(* that is not empty has a row with the highest.                            *)
IdsInv ==
  /\ \A r \in rows : r.id <= lastId
  /\ rows # {} => \E r \in rows : \A q \in rows : q.id <= r.id

(* What the holder of the lock has read still is the tail, and what it has  *)
(* inserted comes after every committed row and is linked to the last.      *)
HolderInv ==
  \A a \in Appenders :
    /\ pc[a] = "inserting" => tail[a] = TailHash(rows)
    /\ pc[a] = "committing" =>
         /\ draft[a].record.prev = TailHash(rows)
         /\ draft[a].id <= lastId
         /\ \A r \in rows : r.id < draft[a].id

IInv ==
  /\ TypeOK
  /\ IdsInv
  /\ HolderInv
  /\ ChainNeverForks

-----------------------------------------------------------------------------
(* The types of what a row is built from.                                   *)

LEMMA SecondType ==
  ASSUME NEW t \in Nat
  PROVE  Second(t) \in Nat
BY ClockAssumption, SMT DEF Second

LEMMA HashType ==
  ASSUME NEW h \in Hash, NEW s \in Subjects, NEW t \in Nat, NEW o \in Nat
  PROVE  ShredRecordHash(h, s, t, o) \in Hash
<1>1. <<s, Second(t), o>> \in Subjects \X Nat \X Nat
  BY SecondType
<1> QED BY <1>1, SMT DEF ShredRecordHash, Hash

LEMMA NewRowType ==
  ASSUME TypeOK, NEW a \in Appenders
  PROVE  NewRow(a) \in Row
<1>1. /\ given[a].pii \in Subjects
      /\ given[a].time \in Times
      /\ given[a].time \in Nat
      /\ given[a].origin \in Origins
      /\ given[a].origin \in Nat
  BY ClockAssumption DEF TypeOK
<1>2. /\ tail[a] \in Hash
      /\ calls[a] \in Nat
      /\ lastId + 1 \in Nat
      /\ Stored[given[a].time] \in Nat
  BY <1>1, LedgerAssumption DEF TypeOK
<1>3. ShredRecordHash(tail[a], given[a].pii, given[a].time, given[a].origin) \in Hash
  BY <1>1, <1>2, HashType
<1> QED BY <1>1, <1>2, <1>3 DEF NewRow, Row, ShredRecord, Call

-----------------------------------------------------------------------------
(* A row that is added above the others leaves what is below them alone.    *)

LEMMA BelowIsStable ==
  ASSUME NEW d \in Row, rows \subseteq Row, \A q \in rows : q.id < d.id,
         rows' = rows \cup {d}
  PROVE  /\ \A r \in rows : Below(r)' = Below(r)
         /\ Below(d)' = rows
<1>1. ASSUME NEW r \in rows
      PROVE  Below(r)' = Below(r)
  <2>1. r.id \in Nat /\ d.id \in Nat /\ r.id < d.id
    BY DEF Row
  <2>2. ~(d.id < r.id)
    BY <2>1
  <2> QED BY <2>2 DEF Below
<1>2. Below(d)' = rows
  <2>1. ~(d.id < d.id)
    BY DEF Row
  <2> QED BY <2>1 DEF Below
<1> QED BY <1>1, <1>2

(* COMMIT, answered or not, extends the chain.                              *)
LEMMA CommitExtendsTheChain ==
  ASSUME IInv, NEW a \in Appenders, pc[a] = "committing",
         rows' = Committed(a), lastId' = lastId
  PROVE  (rows \subseteq Row)' /\ IdsInv' /\ ChainNeverForks'
<1>1. PICK d \in Row : d = draft[a]
  BY DEF IInv, TypeOK
<1>2. /\ d.record.prev = TailHash(rows)
      /\ d.id <= lastId
      /\ \A r \in rows : r.id < d.id
      /\ rows \subseteq Row
      /\ rows' = rows \cup {d}
  BY <1>1 DEF IInv, TypeOK, HolderInv, Committed
<1>3. IdsInv' /\ (rows \subseteq Row)'
  <2>1. \A q \in rows' : q.id <= d.id
    <3>1. \A q \in rows : q.id \in Nat /\ d.id \in Nat /\ q.id < d.id
      BY <1>2 DEF Row
    <3>2. d.id <= d.id
      BY DEF Row
    <3> QED BY <1>2, <3>1, <3>2
  <2> QED BY <1>2, <2>1 DEF IInv, IdsInv
<1>4. \A q, r \in rows' : q.id = r.id => q = r
  <2>1. \A q, r \in rows : q.id = r.id => q = r
    BY DEF IInv, ChainNeverForks
  <2>2. \A q \in rows : q.id # d.id
    <3>1. \A q \in rows : q.id \in Nat /\ d.id \in Nat /\ q.id < d.id
      BY <1>2 DEF Row
    <3> QED BY <3>1
  <2> QED BY <1>2, <2>1, <2>2
<1>5. ASSUME NEW r \in rows'
      PROVE  r.record.prev = TailHash(Below(r))'
  <2>1. \A q \in rows : Below(q)' = Below(q)
    BY <1>2, BelowIsStable
  <2>2. Below(d)' = rows
    BY <1>2, BelowIsStable
  <2>3. CASE r \in rows
    BY <2>1, <2>3 DEF IInv, ChainNeverForks, TailHash, Newest
  <2>4. CASE r = d
    BY <1>2, <2>2, <2>4 DEF TailHash, Newest
  <2> QED BY <1>2, <2>3, <2>4
<1>6. ChainNeverForks'
  BY <1>4, <1>5 DEF ChainNeverForks
<1> QED BY <1>3, <1>6

-----------------------------------------------------------------------------
(* Initially, and step by step.                                             *)

LEMMA InitInv == Init => IInv
<1> SUFFICES ASSUME Init PROVE IInv
  OBVIOUS
<1>1. TypeOK
  <2>1. ZeroHash \in Hash
    BY DEF ZeroHash, Hash
  <2>2. NothingGiven \in [pii : Subjects, time : Times, origin : Origins]
    BY LedgerAssumption DEF NothingGiven
  <2> QED BY <2>1, <2>2, LedgerAssumption DEF Init, TypeOK, InTransaction
<1>2. IdsInv /\ HolderInv /\ ChainNeverForks
  BY DEF Init, IdsInv, HolderInv, ChainNeverForks
<1> QED BY <1>1, <1>2 DEF IInv

LEMMA BeginAppendInv ==
  ASSUME IInv, NEW a \in Appenders, BeginAppend(a)
  PROVE  IInv'
<1> USE DEF BeginAppend, IInv
<1>1. TypeOK'
  BY DEF TypeOK, InTransaction
<1>2. IdsInv'
  BY DEF IdsInv
<1>3. HolderInv'
  BY DEF TypeOK, HolderInv, TailHash, Newest
<1>4. ChainNeverForks'
  BY DEF ChainNeverForks, TailHash, Newest, Below
<1> QED BY <1>1, <1>2, <1>3, <1>4

LEMMA TakeLockInv ==
  ASSUME IInv, NEW a \in Appenders, TakeLock(a)
  PROVE  IInv'
<1> USE DEF TakeLock, LockFree, callVars, IInv
<1>1. TypeOK'
  BY LedgerAssumption DEF TypeOK, InTransaction
<1>2. IdsInv'
  BY DEF IdsInv
<1>3. HolderInv'
  BY DEF TypeOK, HolderInv, TailHash, Newest
<1>4. ChainNeverForks'
  BY DEF ChainNeverForks, TailHash, Newest, Below
<1> QED BY <1>1, <1>2, <1>3, <1>4

(* What is read of the table is the hash of one of its rows.                *)
LEMMA TailType ==
  ASSUME IInv
  PROVE  TailHash(rows) \in Hash
<1>1. CASE rows = {}
  BY <1>1 DEF TailHash, ZeroHash, Hash
<1>2. CASE rows # {}
  <2>1. Newest(rows) \in rows
    BY <1>2 DEF IInv, IdsInv, Newest
  <2> QED BY <1>2, <2>1 DEF TailHash, IInv, TypeOK, Row, ShredRecord
<1> QED BY <1>1, <1>2

LEMMA ReadTailInv ==
  ASSUME IInv, NEW a \in Appenders, ReadTail(a)
  PROVE  IInv'
<1> USE DEF ReadTail, callVars, IInv
<1>1. TypeOK'
  <2>1. tail' \in [Appenders -> Hash]
    BY TailType DEF TypeOK
  <2> QED BY <2>1 DEF TypeOK, InTransaction
<1>2. IdsInv'
  BY DEF IdsInv
<1>3. HolderInv'
  BY DEF TypeOK, HolderInv, TailHash, Newest
<1>4. ChainNeverForks'
  BY DEF ChainNeverForks, TailHash, Newest, Below
<1> QED BY <1>1, <1>2, <1>3, <1>4

LEMMA InsertInv ==
  ASSUME IInv, NEW a \in Appenders, Insert(a)
  PROVE  IInv'
<1> USE DEF Insert, callVars, IInv
<1>0. NewRow(a) \in Row
  BY NewRowType
<1>1. TypeOK'
  BY <1>0 DEF TypeOK, InTransaction
<1>2. IdsInv'
  BY <1>0 DEF IdsInv, TypeOK, Row
<1>3. HolderInv'
  <2>1. \A b \in Appenders \ {a} : pc[b] \notin {"inserting", "committing"}
    BY DEF TypeOK, InTransaction
  <2>2. \A r \in rows : r.id < lastId + 1
    <3>1. \A r \in rows : r.id \in Nat /\ lastId \in Nat /\ r.id <= lastId
      BY DEF IdsInv, TypeOK, Row
    <3> QED BY <3>1
  <2>3. NewRow(a).id = lastId + 1 /\ NewRow(a).record.prev = TailHash(rows)
    BY DEF NewRow, HolderInv
  <2>4. TailHash(rows)' = TailHash(rows)
    BY DEF TailHash, Newest
  <2>5. lastId + 1 <= lastId + 1
    BY DEF TypeOK
  <2> QED BY <2>1, <2>2, <2>3, <2>4, <2>5 DEF TypeOK, HolderInv
<1>4. ChainNeverForks'
  BY DEF ChainNeverForks, TailHash, Newest, Below
<1> QED BY <1>1, <1>2, <1>3, <1>4

(* Whoever returns was alone past the lock statement, if there at all.      *)
LEMMA ReturnsType ==
  ASSUME IInv, NEW a \in Appenders, pc[a] # "idle", Returns(a),
         (rows \subseteq Row)', lastId' \in Nat,
         failures' \in 0..MaxFailures, (acked \subseteq Call)', (unsure \subseteq Call)'
  PROVE  TypeOK'
<1> USE DEF Returns, callVars, IInv, TypeOK
<1>1. lock' \in Appenders \cup {NoAppender}
  BY DEF LockAfter
<1>2. pc' \in [Appenders -> {"idle", "locking", "reading", "inserting", "committing"}]
  OBVIOUS
<1>3. \A b \in Appenders : InTransaction(b)' <=> lock' = b
  BY LedgerAssumption DEF InTransaction, LockAfter
<1>4. tail' \in [Appenders -> Hash]
  BY DEF ZeroHash, Hash
<1>5. draft' \in [Appenders -> Row \cup {NoRow}]
  OBVIOUS
<1>6. \A b \in Appenders : pc'[b] = "committing" => draft'[b] \in Row
  OBVIOUS
<1> QED BY <1>1, <1>2, <1>3, <1>4, <1>5, <1>6

(* After a transaction that held the lock nobody is past the statement.     *)
LEMMA NobodyHolds ==
  ASSUME IInv, NEW a \in Appenders, lock = a, Returns(a)
  PROVE  HolderInv'
<1>1. \A b \in Appenders : pc'[b] \notin {"inserting", "committing"}
  BY DEF IInv, TypeOK, InTransaction, Returns
<1> QED BY <1>1 DEF HolderInv

LEMMA CommitTxInv ==
  ASSUME IInv, NEW a \in Appenders, CommitTx(a)
  PROVE  IInv'
<1>1. /\ (rows \subseteq Row)'
      /\ IdsInv'
      /\ ChainNeverForks'
  BY CommitExtendsTheChain DEF CommitTx
<1>2. lock = a
  BY DEF IInv, TypeOK, InTransaction, CommitTx
<1>3. HolderInv'
  BY <1>2, NobodyHolds DEF CommitTx
<1>4. acked' \subseteq Call
  BY DEF CommitTx, IInv, TypeOK, Call
<1>5. TypeOK'
  <2>1. lastId' \in Nat /\ failures' \in 0..MaxFailures /\ (unsure \subseteq Call)'
    BY DEF CommitTx, IInv, TypeOK
  <2> QED BY <1>1, <1>4, <2>1, ReturnsType DEF CommitTx
<1> QED BY <1>1, <1>3, <1>5 DEF IInv

LEMMA FailsType ==
  ASSUME IInv, NEW a \in Appenders, Fails(a)
  PROVE  failures' \in 0..MaxFailures
BY LedgerAssumption DEF IInv, TypeOK, Fails

LEMMA TransactionFailsInv ==
  ASSUME IInv, NEW a \in Appenders, TransactionFails(a)
  PROVE  IInv'
<1>1. lastId' \in Nat /\ lastId <= lastId'
  BY DEF IInv, TypeOK, TransactionFails
<1>2. TypeOK'
  <2>1. /\ (rows \subseteq Row)'
        /\ (acked \subseteq Call)'
        /\ (unsure \subseteq Call)'
    BY DEF IInv, TypeOK, TransactionFails
  <2> QED BY <1>1, <2>1, FailsType, ReturnsType DEF TransactionFails, Fails
<1>3. IdsInv'
  <2>1. \A r \in rows : r.id \in Nat /\ r.id <= lastId /\ lastId \in Nat
    BY DEF IInv, IdsInv, TypeOK, Row
  <2>2. \A r \in rows : r.id <= lastId'
    BY <1>1, <2>1
  <2> QED BY <2>2 DEF IInv, IdsInv, TransactionFails
<1>4. HolderInv'
  <2>1. CASE lock = a
    BY <2>1, NobodyHolds DEF TransactionFails, Fails
  <2>2. CASE lock # a
    <3>1. \A b \in Appenders \ {a} :
            /\ pc'[b] = pc[b]
            /\ draft'[b] = draft[b]
            /\ tail'[b] = tail[b]
      BY DEF IInv, TypeOK, TransactionFails, Fails, Returns
    <3>2. pc'[a] = "idle"
      BY DEF IInv, TypeOK, TransactionFails, Fails, Returns
    <3>3. TailHash(rows)' = TailHash(rows) /\ rows' = rows
      BY DEF TransactionFails, TailHash, Newest
    <3>4. ASSUME NEW b \in Appenders, pc'[b] = "committing"
          PROVE  draft[b].id <= lastId'
      <4>1. pc[b] = "committing" /\ draft[b] \in Row /\ draft[b].id <= lastId
        BY <3>1, <3>2, <3>4 DEF IInv, TypeOK, HolderInv
      <4> QED BY <1>1, <4>1 DEF IInv, TypeOK, Row
    <3> QED BY <3>1, <3>2, <3>3, <3>4 DEF IInv, HolderInv
  <2> QED BY <2>1, <2>2
<1>5. ChainNeverForks'
  BY DEF TransactionFails, IInv, ChainNeverForks, TailHash, Newest, Below
<1> QED BY <1>2, <1>3, <1>4, <1>5 DEF IInv

LEMMA CommitAnswerLostInv ==
  ASSUME IInv, NEW a \in Appenders, CommitAnswerLost(a)
  PROVE  IInv'
<1>1. /\ (rows \subseteq Row)'
      /\ IdsInv'
      /\ ChainNeverForks'
  BY CommitExtendsTheChain DEF CommitAnswerLost
<1>2. lock = a
  BY DEF IInv, TypeOK, InTransaction, CommitAnswerLost
<1>3. HolderInv'
  BY <1>2, NobodyHolds DEF CommitAnswerLost, Fails
<1>4. unsure' \subseteq Call
  BY DEF CommitAnswerLost, IInv, TypeOK, Call
<1>5. TypeOK'
  <2>1. lastId' \in Nat /\ (acked \subseteq Call)' /\ pc[a] # "idle"
    BY DEF CommitAnswerLost, IInv, TypeOK
  <2> QED BY <1>1, <1>4, <2>1, FailsType, ReturnsType DEF CommitAnswerLost, Fails
<1> QED BY <1>1, <1>3, <1>5 DEF IInv

LEMMA StutterInv ==
  ASSUME IInv, UNCHANGED vars
  PROVE  IInv'
BY DEF vars, callVars, IInv, TypeOK, InTransaction, IdsInv, HolderInv,
   ChainNeverForks, TailHash, Newest, Below

LEMMA NextInv == IInv /\ [Next]_vars => IInv'
<1> SUFFICES ASSUME IInv, [Next]_vars
             PROVE  IInv'
  OBVIOUS
<1>1. CASE UNCHANGED vars
  BY <1>1, StutterInv
<1>2. ASSUME NEW a \in Appenders, BeginAppend(a)
      PROVE  IInv'
  BY <1>2, BeginAppendInv
<1>3. ASSUME NEW a \in Appenders, Advance(a)
      PROVE  IInv'
  BY <1>3, TakeLockInv, ReadTailInv, InsertInv, CommitTxInv DEF Advance
<1>4. ASSUME NEW a \in Appenders, TransactionFails(a)
      PROVE  IInv'
  BY <1>4, TransactionFailsInv
<1>5. ASSUME NEW a \in Appenders, CommitAnswerLost(a)
      PROVE  IInv'
  BY <1>5, CommitAnswerLostInv
<1> QED BY <1>1, <1>2, <1>3, <1>4, <1>5 DEF Next

-----------------------------------------------------------------------------
(* The theorems.                                                            *)

LEMMA Inductive == Spec => []IInv
<1>1. Init => IInv
  BY InitInv
<1>2. IInv /\ [Next]_vars => IInv'
  BY NextInv
<1> QED BY <1>1, <1>2, PTL DEF Spec

(* Append (es/pgstore/erasure_ledger.go) keeps every variable in its type,  *)
(* and only the transaction that has the lock is past its lock statement.   *)
THEOREM TypeCorrect == Spec => []TypeOK
<1>1. IInv => TypeOK
  BY DEF IInv
<1> QED BY <1>1, Inductive, PTL

(* Any number of processes, rollbacks and lost answers: concurrent Appends  *)
(* "can never both read the same tail and fork the chain"                   *)
(* (es/pgstore/erasure_ledger.go:57).                                       *)
THEOREM NoFork == Spec => []ChainNeverForks
<1>1. IInv => ChainNeverForks
  BY DEF IInv
<1> QED BY <1>1, Inductive, PTL

-----------------------------------------------------------------------------
(* Calls.  A row records what its call was given, and every call has one    *)
(* row if it returned nil or was never answered, none if it failed.         *)

WellMade(r) ==
  /\ r.record.origin \in Origins
  /\ r.record.at = Stored[r.time]
  /\ r.record.hash =
       ShredRecordHash(r.record.prev, r.record.pii, r.time, r.record.origin)

RowsInv ==
  /\ IsFiniteSet(rows)
  /\ \A r \in rows : WellMade(r)
  /\ \A a \in Appenders : pc[a] = "committing" =>
       WellMade(draft[a]) /\ draft[a].by = <<a, calls[a]>>

(* A call under way has no row yet, nor has one that is still to come.      *)
CallsInv ==
  /\ AppendedOnceIfAcknowledged
  /\ \A r \in rows, a \in Appenders : r.by[1] = a =>
       /\ r.by[2] <= calls[a]
       /\ pc[a] # "idle" => r.by[2] < calls[a]

LEMMA NewRowIsWellMade ==
  ASSUME TypeOK, NEW a \in Appenders
  PROVE  WellMade(NewRow(a)) /\ NewRow(a).by = <<a, calls[a]>>
<1>1. given[a].origin \in Origins
  BY DEF TypeOK
<1> QED BY <1>1 DEF NewRow, WellMade

(* COMMIT, answered or not, adds the row of the call under way.             *)
LEMMA CommitAddsTheCall ==
  ASSUME IInv, RowsInv, CallsInv, NEW a \in Appenders, pc[a] = "committing",
         rows' = Committed(a), Returns(a),
         (acked \cup unsure)' = acked \cup unsure \cup {<<a, calls[a]>>}
  PROVE  RowsInv' /\ CallsInv'
<1>1. PICK d \in Row : d = draft[a]
  BY DEF IInv, TypeOK
<1>2. /\ rows' = rows \cup {d} /\ rows \subseteq Row
      /\ WellMade(d) /\ d.by = <<a, calls[a]>>
  BY <1>1 DEF Committed, RowsInv, IInv, TypeOK
<1>3. /\ calls' = calls /\ calls \in [Appenders -> Nat] /\ pc'[a] = "idle"
      /\ \A b \in Appenders \ {a} : pc'[b] = pc[b] /\ draft'[b] = draft[b]
  BY DEF Returns, callVars, IInv, TypeOK
<1>4. \A r \in rows : r.by # <<a, calls[a]>>
  <2>1. ASSUME NEW r \in rows, r.by = <<a, calls[a]>> PROVE FALSE
    <3>1. r.by[1] = a /\ r.by[2] = calls[a]
      BY <2>1
    <3>2. r.by[2] < calls[a]
      BY <3>1 DEF CallsInv
    <3> QED BY <1>3, <3>1, <3>2
  <2> QED BY <2>1
<1>5. RowsInv'
  <2>1. IsFiniteSet(rows')
    BY <1>2, FS_AddElement DEF RowsInv
  <2>2. \A r \in rows' : WellMade(r)
    BY <1>2 DEF RowsInv
  <2>3. ASSUME NEW b \in Appenders, pc'[b] = "committing"
        PROVE  WellMade(draft'[b]) /\ draft'[b].by = <<b, calls'[b]>>
    BY <1>3, <2>3 DEF RowsInv
  <2>4. \A r : WellMade(r)' <=> WellMade(r)
    BY DEF WellMade
  <2> QED BY <2>1, <2>2, <2>3 DEF RowsInv, WellMade
<1>6. AppendedOnceIfAcknowledged'
  <2>1. \A c \in acked' \cup unsure' : \E r \in rows' : r.by = c
    BY <1>2 DEF CallsInv, AppendedOnceIfAcknowledged
  <2>2. \A r \in rows' : r.by \in acked' \cup unsure'
    BY <1>2 DEF CallsInv, AppendedOnceIfAcknowledged
  <2>3. \A q, r \in rows' : q.by = r.by => q = r
    BY <1>2, <1>4 DEF CallsInv, AppendedOnceIfAcknowledged
  <2> QED BY <2>1, <2>2, <2>3 DEF AppendedOnceIfAcknowledged
<1>7. ASSUME NEW r \in rows', NEW b \in Appenders, r.by[1] = b
      PROVE  r.by[2] <= calls'[b] /\ (pc'[b] # "idle" => r.by[2] < calls'[b])
  <2>1. CASE r \in rows
    BY <1>3, <1>7, <2>1 DEF CallsInv
  <2>2. CASE r = d
    <3>1. b = a /\ r.by[2] = calls[a] /\ calls[a] \in Nat
      BY <1>2, <1>3, <1>7, <2>2
    <3> QED BY <1>3, <3>1
  <2> QED BY <1>2, <2>1, <2>2
<1> QED BY <1>5, <1>6, <1>7 DEF CallsInv

LEMMA InitCallsInv == Init => RowsInv /\ CallsInv
BY FS_EmptySet DEF Init, RowsInv, CallsInv, AppendedOnceIfAcknowledged

LEMMA CallsInvStep ==
  IInv /\ RowsInv /\ CallsInv /\ [Next]_vars => RowsInv' /\ CallsInv'
<1> SUFFICES ASSUME IInv, RowsInv, CallsInv, [Next]_vars
             PROVE  RowsInv' /\ CallsInv'
  OBVIOUS
<1>1. ASSUME UNCHANGED <<rows, acked, unsure, calls>>,
             \A b \in Appenders : pc'[b] = "committing" =>
               WellMade(draft'[b]) /\ draft'[b].by = <<b, calls[b]>>,
             \A b \in Appenders : pc'[b] # "idle" => pc[b] # "idle"
      PROVE  RowsInv' /\ CallsInv'
  <2>1. RowsInv'
    BY <1>1 DEF RowsInv, WellMade
  <2>2. CallsInv'
    BY <1>1 DEF CallsInv, AppendedOnceIfAcknowledged
  <2> QED BY <2>1, <2>2
<1>2. CASE UNCHANGED vars
  BY <1>1, <1>2 DEF vars, callVars, RowsInv
<1>3. ASSUME NEW a \in Appenders, BeginAppend(a)
      PROVE  RowsInv' /\ CallsInv'
  <2>1. /\ UNCHANGED <<rows, acked, unsure, draft>>
        /\ calls' = [calls EXCEPT ![a] = @ + 1]
        /\ pc' = [pc EXCEPT ![a] = "locking"]
        /\ calls \in [Appenders -> Nat]
        /\ pc \in [Appenders -> {"idle", "locking", "reading", "inserting", "committing"}]
    BY <1>3 DEF BeginAppend, IInv, TypeOK
  <2>2. RowsInv'
    BY <2>1 DEF RowsInv, WellMade
  <2>3. ASSUME NEW r \in rows, NEW b \in Appenders, r.by[1] = b
        PROVE  r.by[2] <= calls'[b] /\ (pc'[b] # "idle" => r.by[2] < calls'[b])
    <3>1. r.by[2] \in Nat /\ r.by[2] <= calls[b]
          /\ (pc[b] # "idle" => r.by[2] < calls[b])
      BY <2>3 DEF CallsInv, IInv, TypeOK, Row, Call
    <3> QED BY <2>1, <3>1
  <2> QED BY <2>1, <2>2, <2>3 DEF CallsInv, AppendedOnceIfAcknowledged
<1>4. ASSUME NEW a \in Appenders, Advance(a)
      PROVE  RowsInv' /\ CallsInv'
  <2> USE DEF callVars
  <2>0. pc \in [Appenders -> {"idle", "locking", "reading", "inserting", "committing"}]
        /\ draft \in [Appenders -> Row \cup {NoRow}]
    BY DEF IInv, TypeOK
  <2>1. CASE TakeLock(a) \/ ReadTail(a)
    <3>1. UNCHANGED <<rows, acked, unsure, calls, draft>>
      BY <2>1 DEF TakeLock, ReadTail
    <3>2. \A b \in Appenders :
            /\ pc'[b] = "committing" => pc[b] = "committing"
            /\ pc'[b] # "idle" => pc[b] # "idle"
      BY <2>0, <2>1 DEF TakeLock, ReadTail
    <3> QED BY <1>1, <3>1, <3>2 DEF RowsInv
  <2>2. CASE Insert(a)
    <3>1. UNCHANGED <<rows, acked, unsure, calls>>
      BY <2>2 DEF Insert
    <3>2. \A b \in Appenders : pc'[b] # "idle" => pc[b] # "idle"
      BY <2>0, <2>2 DEF Insert
    <3>3. ASSUME NEW b \in Appenders, pc'[b] = "committing"
          PROVE  WellMade(draft'[b]) /\ draft'[b].by = <<b, calls[b]>>
      <4>1. CASE b = a
        <5>1. draft'[a] = NewRow(a)
          BY <2>0, <2>2 DEF Insert
        <5> QED BY <4>1, <5>1, NewRowIsWellMade DEF IInv
      <4>2. CASE b # a
        <5>1. draft'[b] = draft[b] /\ pc[b] = "committing"
          BY <2>0, <2>2, <3>3, <4>2 DEF Insert
        <5> QED BY <5>1 DEF RowsInv
      <4> QED BY <4>1, <4>2
    <3> QED BY <1>1, <3>1, <3>2, <3>3
  <2>3. CASE CommitTx(a)
    <3>1. (acked \cup unsure)' = acked \cup unsure \cup {<<a, calls[a]>>}
      BY <2>3 DEF CommitTx
    <3> QED BY <2>3, <3>1, CommitAddsTheCall DEF CommitTx
  <2> QED BY <1>4, <2>1, <2>2, <2>3 DEF Advance
<1>5. ASSUME NEW a \in Appenders, TransactionFails(a)
      PROVE  RowsInv' /\ CallsInv'
  <2>1. /\ UNCHANGED <<rows, acked, unsure, calls>> /\ pc[a] # "idle"
        /\ pc' = [pc EXCEPT ![a] = "idle"] /\ draft' = [draft EXCEPT ![a] = NoRow]
    BY <1>5 DEF TransactionFails, Fails, Returns, callVars
  <2>2. \A b \in Appenders :
          /\ pc'[b] = "committing" => pc[b] = "committing" /\ draft'[b] = draft[b]
          /\ pc'[b] # "idle" => pc[b] # "idle"
    BY <2>1 DEF IInv, TypeOK
  <2> QED BY <1>1, <2>1, <2>2 DEF RowsInv
<1>6. ASSUME NEW a \in Appenders, CommitAnswerLost(a)
      PROVE  RowsInv' /\ CallsInv'
  <2>1. (acked \cup unsure)' = acked \cup unsure \cup {<<a, calls[a]>>}
    BY <1>6 DEF CommitAnswerLost
  <2> QED BY <1>6, <2>1, CommitAddsTheCall DEF CommitAnswerLost, Fails
<1> QED BY <1>2, <1>3, <1>4, <1>5, <1>6 DEF Next

LEMMA CallsInductive == Spec => [](IInv /\ RowsInv /\ CallsInv)
<1> QED BY Inductive, InitCallsInv, CallsInvStep, PTL DEF Spec

(* Any number of calls, rollbacks and lost answers: Append returned nil     *)
(* exactly for calls whose record is in the ledger, once; a call that       *)
(* failed left one only if its COMMIT was not answered.                     *)
THEOREM AppendsAreExact == Spec => []AppendedOnceIfAcknowledged
<1>1. CallsInv => AppendedOnceIfAcknowledged
  BY DEF CallsInv
<1> QED BY <1>1, CallsInductive, PTL

-----------------------------------------------------------------------------
(* The order of the rows.  ORDER BY id puts every row at its rank, and      *)
(* every position of Entries is the rank of one row.                        *)

Rank(r) == Cardinality(Below(r)) + 1

OrderOK ==
  /\ rows \subseteq Row
  /\ Cardinality(rows) \in Nat
  /\ Entries \in Seq(ShredRecord) /\ Len(Entries) = Cardinality(rows)
  /\ \A r \in rows : /\ Rank(r) \in 1..Cardinality(rows)
                     /\ Cardinality(Below(r)) = Rank(r) - 1
                     /\ Entries[Rank(r)] = r.record
  /\ \A k \in 1..Cardinality(rows) : \E r \in rows : Rank(r) = k
  /\ \A q, r \in rows : q.id < r.id => Rank(q) < Rank(r)
  /\ \A q, r \in rows : Rank(q) = Rank(r) => q = r

LEMMA RanksAreOrdered ==
  ASSUME IInv, RowsInv
  PROVE  /\ Cardinality(rows) \in Nat
         /\ \A r \in rows : /\ IsFiniteSet(Below(r)) /\ Cardinality(Below(r)) \in Nat
                            /\ Rank(r) \in 1..Cardinality(rows)
         /\ \A q, r \in rows : q.id < r.id => Rank(q) < Rank(r)
         /\ \A q, r \in rows : Rank(q) = Rank(r) => q = r
<1>1. IsFiniteSet(rows) /\ Cardinality(rows) \in Nat
  BY FS_CardinalityType DEF RowsInv
<1>2. \A r \in rows : r.id \in Nat
  BY DEF IInv, TypeOK, Row
<1>3. ASSUME NEW r \in rows
      PROVE  /\ IsFiniteSet(Below(r)) /\ Cardinality(Below(r)) \in Nat
             /\ Cardinality(Below(r)) < Cardinality(rows)
  <2>1. Below(r) \in SUBSET rows /\ r \notin Below(r)
    BY <1>2 DEF Below
  <2>2. /\ IsFiniteSet(Below(r)) /\ Cardinality(Below(r)) <= Cardinality(rows)
        /\ Cardinality(rows) # Cardinality(Below(r))
    BY <1>1, <2>1, FS_Subset
  <2>3. Cardinality(Below(r)) \in Nat
    BY <2>2, FS_CardinalityType
  <2> QED BY <1>1, <2>2, <2>3
<1>4. \A r \in rows : Rank(r) \in 1..Cardinality(rows)
  BY <1>1, <1>3 DEF Rank
<1>5. ASSUME NEW q \in rows, NEW r \in rows, q.id < r.id PROVE Rank(q) < Rank(r)
  <2>1. Below(q) \in SUBSET Below(r)
    BY <1>2, <1>5 DEF Below
  <2>2. q \in Below(r) /\ q \notin Below(q)
    BY <1>2, <1>5 DEF Below
  <2>3. /\ Cardinality(Below(q)) <= Cardinality(Below(r))
        /\ Cardinality(Below(r)) # Cardinality(Below(q))
    BY <1>3, <2>1, <2>2, FS_Subset
  <2> QED BY <1>3, <2>3 DEF Rank
<1>6. ASSUME NEW q \in rows, NEW r \in rows, Rank(q) = Rank(r) PROVE q = r
  <2>1. q.id = r.id \/ q.id < r.id \/ r.id < q.id
    BY <1>2
  <2>2. Rank(q) \in Nat
    BY <1>1, <1>4
  <2>3. ~(q.id < r.id) /\ ~(r.id < q.id)
    BY <1>5, <1>6, <2>2
  <2> QED BY <2>1, <2>3 DEF IInv, ChainNeverForks
<1> QED BY <1>1, <1>3, <1>4, <1>5, <1>6

(* As many ranks as rows, and no two rows of one rank: none is left out.    *)
LEMMA RowsAreOrdered == IInv /\ RowsInv => OrderOK
<1> SUFFICES ASSUME IInv, RowsInv PROVE OrderOK
  OBVIOUS
<1>1. PICK n : n = Cardinality(rows)
  OBVIOUS
<1>2. /\ n \in Nat
      /\ \A r \in rows : Cardinality(Below(r)) \in Nat /\ Rank(r) \in 1..n
      /\ \A q, r \in rows : q.id < r.id => Rank(q) < Rank(r)
      /\ \A q, r \in rows : Rank(q) = Rank(r) => q = r
  BY <1>1, RanksAreOrdered
<1>3. \A r \in rows : Cardinality(Below(r)) = Rank(r) - 1
  BY <1>2 DEF Rank
<1>4. \A k \in 1..n : \E r \in rows : Rank(r) = k
  <2>1. PICK f : f = [r \in rows |-> Rank(r)]
    OBVIOUS
  <2>2. f \in Injection(rows, 1..n)
    BY <1>2, <2>1 DEF Injection, IsInjective
  <2>3. IsFiniteSet(1..n) /\ Cardinality(1..n) = n
    BY <1>2, FS_Interval
  <2>4. f \in Surjection(rows, 1..n)
    BY <1>1, <2>2, <2>3, FS_Injection
  <2>5. \A k \in 1..n : \E r \in rows : f[r] = k
    BY <2>4 DEF Surjection
  <2> QED BY <2>1, <2>5
<1>5. rows \subseteq Row /\ \A r \in rows : r.record \in ShredRecord
  BY DEF IInv, TypeOK, Row
<1>6. ASSUME NEW r \in rows
      PROVE  (CHOOSE q \in rows : Cardinality(Below(q)) = Rank(r) - 1) = r
  <2>1. \A q \in rows : Cardinality(Below(q)) = Rank(r) - 1 => q = r
    BY <1>2, <1>3 DEF Rank
  <2> QED BY <1>3, <2>1
<1>7. \A r \in rows : Entries[Rank(r)] = r.record
  BY <1>1, <1>2, <1>6 DEF Entries
<1>8. Entries \in [1..n -> ShredRecord]
  <2>1. ASSUME NEW k \in 1..n PROVE Entries[k] \in ShredRecord
    BY <1>4, <1>5, <1>7
  <2>2. Entries = [k \in 1..n |-> Entries[k]]
    BY <1>1 DEF Entries
  <2> QED BY <2>1, <2>2
<1>9. Entries \in Seq(ShredRecord) /\ Len(Entries) = n
  <2>1. Entries \in Seq(ShredRecord)
    BY <1>2, <1>8
  <2>2. Len(Entries) = n
    BY <1>2, <1>8
  <2> QED BY <2>1, <2>2
<1> QED BY <1>1, <1>2, <1>3, <1>4, <1>5, <1>7, <1>9 DEF OrderOK

(* The row at the end of the table is the last entry.                       *)
LEMMA NewestIsLast ==
  ASSUME OrderOK, rows # {}
  PROVE  \E r \in rows : Rank(r) = Cardinality(rows) /\ Newest(rows) = r
<1>1. PICK n : n = Cardinality(rows)
  OBVIOUS
<1>2. n \in Nat /\ n > 0 /\ \A r \in rows : r.id \in Nat /\ Rank(r) \in 1..n
  BY <1>1 DEF OrderOK, Row
<1>3. PICK r \in rows : Rank(r) = n
  BY <1>1, <1>2 DEF OrderOK
<1>4. \A q \in rows : q.id <= r.id
  BY <1>2, <1>3 DEF OrderOK
<1>5. ASSUME NEW q \in rows, \A p \in rows : p.id <= q.id PROVE q = r
  <2>1. r.id <= q.id /\ q.id <= r.id
    BY <1>3, <1>4, <1>5
  <2>2. q.id = r.id
    BY <1>2, <1>3, <2>1
  <2>3. Rank(q) = Rank(r)
    BY <2>2 DEF Rank, Below
  <2> QED BY <1>3, <2>3 DEF OrderOK
<1>6. Newest(rows) = r
  BY <1>3, <1>4, <1>5 DEF Newest
<1> QED BY <1>1, <1>3, <1>6

LEMMA TailIsLast ==
  ASSUME OrderOK
  PROVE  TailHash(rows) = HashOfLast(Entries)
<1>1. Entries \in Seq(ShredRecord) /\ Len(Entries) = Cardinality(rows)
  BY DEF OrderOK
<1>2. CASE rows = {}
  <2>1. Len(Entries) = 0
    BY <1>1, <1>2, FS_EmptySet
  <2>2. Entries = <<>>
    BY <1>1, <2>1
  <2> QED BY <1>2, <2>2 DEF TailHash, HashOfLast
<1>3. CASE rows # {}
  <2>1. PICK r \in rows : Rank(r) = Cardinality(rows) /\ Newest(rows) = r
    BY <1>3, NewestIsLast
  <2>2. Entries[Cardinality(rows)] = r.record /\ Cardinality(rows) > 0
    BY <2>1 DEF OrderOK
  <2>3. Entries # <<>>
    BY <1>1, <2>2
  <2> QED BY <1>1, <1>3, <2>1, <2>2, <2>3 DEF TailHash, HashOfLast
<1> QED BY <1>2, <1>3

(* The end of a prefix is the record before the next.                       *)
HashBefore(R, i) == IF i = 1 THEN ZeroHash ELSE R[i - 1].hash

LEMMA PrefixEndsBefore ==
  ASSUME NEW R \in Seq(ShredRecord), NEW i \in 1..Len(R)
  PROVE  HashOfLast(SubSeq(R, 1, i - 1)) = HashBefore(R, i)
<1>1. Len(R) \in Nat /\ \A j \in 1..Len(R) : R[j] \in ShredRecord
  BY LenProperties, ElementOfSeq
<1>2. CASE i = 1
  <2>1. SubSeq(R, 1, i - 1) = <<>>
    BY <1>2, SubSeqEmpty
  <2> QED BY <1>2, <2>1 DEF HashOfLast, HashBefore
<1>3. CASE i > 1
  <2>1. PICK t, m : t = SubSeq(R, 1, i - 1) /\ m = i - 1
    OBVIOUS
  <2>2. m \in Nat /\ m >= 1 /\ (m - 1) + 1 = m /\ 1 + m - 1 = m
    BY <1>1, <1>3, <2>1
  <2>3. \A j \in 1..m : R[j] \in ShredRecord
    BY <1>1, <2>1, <2>2
  <2>4. /\ t \in Seq(ShredRecord)
        /\ Len(t) = IF 1 <= m THEN m - 1 + 1 ELSE 0
        /\ \A j \in 1..(m - 1 + 1) : t[j] = R[1 + j - 1]
    BY <2>1, <2>2, <2>3, SubSeqProperties
  <2>5. Len(t) = m /\ t[m] = R[m] /\ t # <<>>
    BY <2>2, <2>4
  <2> QED BY <1>3, <2>1, <2>5 DEF HashOfLast, HashBefore
<1> QED BY <1>1, <1>2, <1>3

(* What a row was linked to is the entry before it.                         *)
LEMMA BelowEndsBefore ==
  ASSUME OrderOK, NEW r \in rows
  PROVE  TailHash(Below(r)) = HashOfLast(SubSeq(Entries, 1, Rank(r) - 1))
<1>1. PICK n, k : n = Cardinality(rows) /\ k = Rank(r)
  OBVIOUS
<1>2. /\ n \in Nat /\ k \in 1..n /\ Entries \in Seq(ShredRecord) /\ Len(Entries) = n
      /\ \A q \in rows : q.id \in Nat /\ Rank(q) \in 1..n
  BY <1>1 DEF OrderOK, Row
<1>3. Below(r) = {q \in rows : Rank(q) < k}
  <2>1. ASSUME NEW q \in rows, Rank(q) < k PROVE q.id < r.id
    <3>1. q.id < r.id \/ r.id < q.id \/ q.id = r.id
      BY <1>2
    <3>2. r.id < q.id => k < Rank(q)
      BY <1>1 DEF OrderOK
    <3>3. q.id = r.id => Rank(q) = k
      BY <1>1 DEF Rank, Below
    <3> QED BY <1>2, <2>1, <3>1, <3>2, <3>3
  <2>2. \A q \in rows : q.id < r.id => Rank(q) < k
    BY <1>1 DEF OrderOK
  <2> QED BY <2>1, <2>2 DEF Below
<1>4. CASE k = 1
  <2>1. Below(r) = {}
    BY <1>2, <1>3, <1>4
  <2>2. k - 1 < 1 /\ k - 1 \in Int
    BY <1>4
  <2>3. SubSeq(Entries, 1, k - 1) = <<>>
    BY <2>2, SubSeqEmpty
  <2> QED BY <1>1, <2>1, <2>3 DEF TailHash, HashOfLast
<1>5. CASE k > 1
  <2>1. k - 1 \in 1..n /\ k - 1 < k
    BY <1>2, <1>5
  <2>2. PICK q \in rows : Rank(q) = k - 1
    BY <1>1, <2>1 DEF OrderOK
  <2>3. q \in Below(r)
    BY <1>3, <2>1, <2>2
  <2>4. ASSUME NEW p \in Below(r) PROVE p.id <= q.id
    <3>1. p \in rows /\ Rank(p) <= k - 1
      BY <1>2, <1>3, <2>4
    <3>2. q.id < p.id => k - 1 < Rank(p)
      BY <2>2, <3>1 DEF OrderOK
    <3> QED BY <1>2, <3>1, <3>2
  <2>5. ASSUME NEW p \in Below(r), \A o \in Below(r) : o.id <= p.id PROVE p = q
    <3>1. p \in rows /\ p.id = q.id
      BY <1>2, <1>3, <2>3, <2>4, <2>5
    <3>2. Rank(p) = Rank(q)
      BY <3>1 DEF Rank, Below
    <3> QED BY <3>1, <3>2 DEF OrderOK
  <2>6. Newest(Below(r)) = q
    BY <2>3, <2>4, <2>5 DEF Newest
  <2>7. TailHash(Below(r)) = Entries[k - 1].hash
    <3>1. Entries[k - 1] = q.record
      BY <2>2 DEF OrderOK
    <3> QED BY <2>3, <2>6, <3>1 DEF TailHash
  <2>8. HashOfLast(SubSeq(Entries, 1, k - 1)) = Entries[k - 1].hash
    <3>1. k \in 1..Len(Entries) /\ k # 1
      BY <1>2, <1>5
    <3>2. HashOfLast(SubSeq(Entries, 1, k - 1)) = HashBefore(Entries, k)
      BY <1>2, <3>1, PrefixEndsBefore
    <3> QED BY <3>1, <3>2 DEF HashBefore
  <2> QED BY <1>1, <2>7, <2>8
<1> QED BY <1>2, <1>4, <1>5

(* CheckShredChain accepts what the table gives back, whoever appended and  *)
(* whatever failed: each record is linked to the one before it and its hash *)
(* is reproduced, unless the column moved its time to another second.       *)
THEOREM ChecksOutOnReading == Spec => []ChecksOutUnlessRoundedOver
<1>1. ASSUME IInv, RowsInv PROVE ChecksOutUnlessRoundedOver
  <2>1. OrderOK
    BY <1>1, RowsAreOrdered
  <2>2. SUFFICES ASSUME NEW i \in BrokenLinks(Entries)
                 PROVE  \E r \in rows :
                          /\ Cardinality(Below(r)) = i - 1
                          /\ r.time \div TicksPerSecond # r.record.at \div TicksPerSecond
    BY DEF ChecksOutUnlessRoundedOver
  <2>3. i \in 1..Cardinality(rows)
    BY <2>1, <2>2 DEF BrokenLinks, OrderOK
  <2>4. PICK r \in rows : Rank(r) = i
    BY <2>1, <2>3 DEF OrderOK
  <2>5. Cardinality(Below(r)) = i - 1 /\ Entries[i] = r.record
    BY <2>1, <2>4 DEF OrderOK
  <2>6. r.record.prev = HashOfLast(SubSeq(Entries, 1, i - 1))
    BY <1>1, <2>1, <2>4, BelowEndsBefore DEF IInv, ChainNeverForks
  <2>7. r.record.hash =
          ShredRecordHash(r.record.prev, r.record.pii, r.time, r.record.origin)
    BY <1>1 DEF RowsInv, WellMade
  <2>8. ASSUME r.time \div TicksPerSecond = r.record.at \div TicksPerSecond
        PROVE  FALSE
    <3>1. r.record.hash =
            ShredRecordHash(r.record.prev, r.record.pii, r.record.at, r.record.origin)
      BY <2>7, <2>8 DEF ShredRecordHash, Second
    <3> QED BY <2>2, <2>5, <2>6, <3>1 DEF BrokenLinks
  <2> QED BY <2>4, <2>5, <2>8
<1> QED BY <1>1, CallsInductive, PTL

-----------------------------------------------------------------------------
(* Refinement.  COMMIT is the abstract append, every other step is silent.  *)

LEMMA EntriesGrow ==
  ASSUME OrderOK, OrderOK', IsFiniteSet(rows), NEW d \in Row,
         \A r \in rows : r.id < d.id, rows' = rows \cup {d}
  PROVE  Entries' = Append(Entries, d.record)
<1>1. PICK n, e, f : n = Cardinality(rows) /\ e = Entries /\ f = Entries'
  OBVIOUS
<1>2. n \in Nat /\ e \in Seq(ShredRecord) /\ Len(e) = n /\ d.record \in ShredRecord
  BY <1>1 DEF OrderOK, Row
<1>3. Cardinality(rows') = n + 1
  <2>1. d \notin rows
    BY DEF OrderOK, Row
  <2> QED BY <1>1, <2>1, FS_AddElement
<1>4. f \in Seq(ShredRecord) /\ Len(f) = n + 1
  BY <1>1, <1>3 DEF OrderOK
<1>5. \A r \in rows : Rank(r)' = Rank(r)
  <2>1. \A r \in rows : Below(r)' = Below(r)
    BY BelowIsStable DEF OrderOK
  <2> QED BY <2>1 DEF Rank
<1>6. Rank(d)' = n + 1
  <2>1. Below(d)' = rows
    BY BelowIsStable DEF OrderOK
  <2> QED BY <1>1, <2>1 DEF Rank
<1>7. f[n + 1] = d.record
  BY <1>1, <1>6 DEF OrderOK
<1>8. ASSUME NEW k \in 1..n PROVE f[k] = e[k]
  <2>1. PICK r \in rows : Rank(r) = k
    BY <1>1 DEF OrderOK
  <2>2. e[k] = r.record
    BY <1>1, <2>1 DEF OrderOK
  <2>3. f[k] = r.record
    BY <1>1, <1>5, <2>1 DEF OrderOK
  <2> QED BY <2>2, <2>3
<1>9. PICK a : a = Append(e, d.record)
  OBVIOUS
<1>10. /\ a \in Seq(ShredRecord) /\ Len(a) = n + 1
       /\ \A k \in 1..n : a[k] = e[k]
       /\ a[n + 1] = d.record
  BY <1>2, <1>9, AppendProperties
<1>11. \A k \in 1..(n + 1) : f[k] = a[k]
  <2>1. \A k \in 1..(n + 1) : k \in 1..n \/ k = n + 1
    BY <1>2
  <2> QED BY <1>7, <1>8, <1>10, <2>1
<1>12. f = a
  BY <1>4, <1>10, <1>11, SeqEqual
<1> QED BY <1>1, <1>9, <1>12

LEMMA CommitAppendsRecord ==
  ASSUME IInv, RowsInv, OrderOK, OrderOK', NEW a \in Appenders,
         pc[a] = "committing", rows' = Committed(a)
  PROVE  Ledger!Next
<1>1. PICK d \in Row : d = draft[a]
  BY DEF IInv, TypeOK
<1>2. /\ rows' = rows \cup {d} /\ \A r \in rows : r.id < d.id
      /\ d.record.prev = TailHash(rows) /\ WellMade(d)
  BY <1>1 DEF Committed, IInv, HolderInv, RowsInv
<1>3. Entries' = Append(Entries, d.record)
  BY <1>2, EntriesGrow DEF RowsInv
<1>4. /\ d.time \in Times /\ d.record \in ShredRecord
      /\ d.record.pii \in Subjects /\ d.record.origin \in Origins
  BY <1>2 DEF Row, ShredRecord, WellMade
<1>5. PICK p, t, o, h : p = d.record.pii /\ t = d.time /\ o = d.record.origin
                        /\ h = d.record.prev
  OBVIOUS
<1>6. d.record = [pii |-> p, at |-> Stored[t], origin |-> o, prev |-> h,
                  hash |-> ShredRecordHash(h, p, t, o)]
  BY <1>2, <1>4, <1>5 DEF ShredRecord, WellMade
<1>7. h = Ledger!HashOfLast(Entries)
  BY <1>2, <1>5, TailIsLast
     DEF HashOfLast, ZeroHash, Ledger!HashOfLast, Ledger!ZeroHash
<1>8. ShredRecordHash(h, p, t, o) = Ledger!ShredRecordHash(h, p, t, o)
  BY DEF ShredRecordHash, Second, Ledger!ShredRecordHash, Ledger!Second
<1>9. Ledger!AppendRecord(p, t, o)
  BY <1>3, <1>6, <1>7, <1>8 DEF Ledger!AppendRecord
<1> QED BY <1>4, <1>5, <1>9 DEF Ledger!Next

(* The table pii_shreds implements es.ErasureLedger: for any number of      *)
(* processes and failures, a later Entries extends an earlier one by        *)
(* records linked to its tail.                                              *)
THEOREM ImplementsLedger == Spec => KeepsTheLedger
<1>1. Init => Ledger!Init
  <2> SUFFICES ASSUME Init PROVE Ledger!Init
    OBVIOUS
  <2>1. rows = {} /\ Cardinality(rows) = 0
    BY FS_EmptySet DEF Init
  <2>2. Entries = <<>>
    BY <2>1 DEF Entries
  <2> QED BY <2>2 DEF Ledger!Init
<1>2. IInv /\ RowsInv /\ OrderOK /\ OrderOK' /\ [Next]_vars
        => [Ledger!Next]_Entries
  <2> SUFFICES ASSUME IInv, RowsInv, OrderOK, OrderOK', [Next]_vars
               PROVE  [Ledger!Next]_Entries
    OBVIOUS
  <2>1. CASE \E a \in Appenders : CommitTx(a) \/ CommitAnswerLost(a)
    BY <2>1, CommitAppendsRecord DEF CommitTx, CommitAnswerLost
  <2>2. CASE ~\E a \in Appenders : CommitTx(a) \/ CommitAnswerLost(a)
    <3>1. rows' = rows
      BY <2>2 DEF Next, BeginAppend, Advance, TakeLock, ReadTail, Insert,
                  TransactionFails, vars
    <3> QED BY <3>1 DEF Entries, Below
  <2> QED BY <2>1, <2>2
<1> QED BY <1>1, <1>2, RowsAreOrdered, CallsInductive, PTL
       DEF Spec, KeepsTheLedger, Ledger!Spec

-----------------------------------------------------------------------------
(* Tampering.  A record's hash is over the hash before it and everything    *)
(* else in it, so what is changed shows there or one record on.             *)

(* An accepted chain is linked everywhere, and one wrong link is found.     *)
Linked(R, i) ==
  /\ R[i].prev = HashBefore(R, i)
  /\ R[i].hash = ShredRecordHash(HashBefore(R, i), R[i].pii, R[i].at, R[i].origin)

LEMMA AcceptedIsLinked ==
  ASSUME NEW R \in Seq(ShredRecord)
  PROVE  CheckShredChain(R) <=> \A i \in 1..Len(R) : Linked(R, i)
<1>1. DOMAIN R = 1..Len(R)
  BY LenProperties
<1>2. ASSUME NEW i \in 1..Len(R)
      PROVE  i \in BrokenLinks(R) <=> ~Linked(R, i)
  <2>1. HashOfLast(SubSeq(R, 1, i - 1)) = HashBefore(R, i)
    BY PrefixEndsBefore
  <2> QED BY <1>1, <2>1 DEF BrokenLinks, Linked
<1>3. BrokenLinks(R) \subseteq 1..Len(R)
  BY <1>1 DEF BrokenLinks
<1> QED BY <1>2, <1>3 DEF CheckShredChain

LEMMA HashIsLonger ==
  ASSUME NEW h \in Hash, NEW s \in Subjects, NEW t \in Nat, NEW o \in Nat
  PROVE  ShredRecordHash(h, s, t, o) # h
<1>1. <<s, Second(t), o>> \in Subjects \X Nat \X Nat
  BY SecondType
<1>2. Len(ShredRecordHash(h, s, t, o)) = Len(h) + 1 /\ Len(h) \in Nat
  BY <1>1, AppendProperties, LenProperties DEF Hash, ShredRecordHash
<1> QED BY <1>2

LEMMA HashesDiffer ==
  ASSUME NEW h \in Hash, NEW s \in Subjects, NEW t \in Nat, NEW o \in Nat,
         NEW s2 \in Subjects, NEW t2 \in Nat, NEW o2 \in Nat,
         s # s2 \/ Second(t) # Second(t2) \/ o # o2
  PROVE  ShredRecordHash(h, s, t, o) # ShredRecordHash(h, s2, t2, o2)
<1>1. PICK u, v : u = <<s, Second(t), o>> /\ v = <<s2, Second(t2), o2>>
  OBVIOUS
<1>2. u \in Subjects \X Nat \X Nat /\ v \in Subjects \X Nat \X Nat /\ u # v
  BY <1>1, SecondType
<1>3. Append(h, u)[Len(h) + 1] = u /\ Append(h, v)[Len(h) + 1] = v
  BY <1>2, AppendProperties DEF Hash
<1> QED BY <1>1, <1>2, <1>3 DEF ShredRecordHash

LEMMA LinksOfAccepted ==
  ASSUME NEW R \in Seq(ShredRecord), CheckShredChain(R), NEW i \in 1..Len(R)
  PROVE  /\ R[i] \in ShredRecord /\ HashBefore(R, i) \in Hash
         /\ R[i].prev = HashBefore(R, i)
         /\ R[i].hash =
              ShredRecordHash(HashBefore(R, i), R[i].pii, R[i].at, R[i].origin)
         /\ R[i].hash # HashBefore(R, i)
         /\ i < Len(R) => R[i + 1].prev = R[i].hash
<1>1. Len(R) \in Nat /\ \A j \in 1..Len(R) : R[j] \in ShredRecord
  BY LenProperties, ElementOfSeq
<1>2. \A j \in 1..Len(R) : Linked(R, j)
  BY AcceptedIsLinked
<1>3. HashBefore(R, i) \in Hash
  <2>1. R[i].prev \in Hash
    BY <1>1 DEF ShredRecord
  <2> QED BY <1>2, <2>1 DEF Linked
<1>4. R[i].hash # HashBefore(R, i)
  <2>1. R[i].pii \in Subjects /\ R[i].at \in Nat /\ R[i].origin \in Nat
    BY <1>1 DEF ShredRecord
  <2> QED BY <1>2, <1>3, <2>1, HashIsLonger DEF Linked
<1>5. ASSUME i < Len(R) PROVE R[i + 1].prev = R[i].hash
  <2>1. i + 1 \in 1..Len(R) /\ i + 1 # 1 /\ (i + 1) - 1 = i
    BY <1>1, <1>5
  <2>2. R[i + 1].prev = HashBefore(R, i + 1)
    BY <1>2, <2>1 DEF Linked
  <2> QED BY <2>1, <2>2 DEF HashBefore
<1> QED BY <1>1, <1>2, <1>3, <1>4, <1>5 DEF Linked

(* A record that takes the place of its predecessor gives itself away.      *)
LEMMA SuccessorInPlace ==
  ASSUME NEW R \in Seq(ShredRecord), CheckShredChain(R), NEW i \in 1..(Len(R) - 1),
         NEW Q \in Seq(ShredRecord), i <= Len(Q), Q[i] = R[i + 1],
         i > 1 => Q[i - 1] = R[i - 1]
  PROVE  ~CheckShredChain(Q)
<1>1. Len(R) \in Nat /\ Len(Q) \in Nat
  BY LenProperties
<1>2. i \in 1..Len(R) /\ i < Len(R) /\ i \in 1..Len(Q)
  BY <1>1
<1>3. R[i + 1].prev = R[i].hash /\ R[i].hash # HashBefore(R, i)
  BY <1>2, LinksOfAccepted
<1>4. HashBefore(Q, i) = HashBefore(R, i)
  BY <1>2 DEF HashBefore
<1>5. ~Linked(Q, i)
  BY <1>3, <1>4 DEF Linked
<1> QED BY <1>2, <1>5, AcceptedIsLinked
LEMMA RemovalShows ==
  ASSUME NEW R \in Seq(ShredRecord), CheckShredChain(R), NEW i \in 1..(Len(R) - 1)
  PROVE  ~CheckShredChain(Without(R, i))
<1>1. PICK n, A, B, Q : n = Len(R) /\ A = SubSeq(R, 1, i - 1)
                         /\ B = SubSeq(R, i + 1, n) /\ Q = A \o B
  OBVIOUS
<1>2. n \in Nat /\ i \in 1..n /\ i < n /\ \A j \in 1..n : R[j] \in ShredRecord
  BY <1>1, LenProperties, ElementOfSeq
<1>3. /\ A \in Seq(ShredRecord) /\ Len(A) = i - 1
      /\ \A j \in 1..(i - 1) : A[j] = R[j]
  <2>1. PICK m : m = i - 1
    OBVIOUS
  <2>2. m \in Nat /\ m <= n /\ m - 1 + 1 = m
    BY <1>2, <2>1
  <2>3. \A j \in 1..m : R[j] \in ShredRecord
    BY <1>2, <2>2
  <2>4. /\ A \in Seq(ShredRecord)
        /\ Len(A) = IF 1 <= m THEN m - 1 + 1 ELSE 0
        /\ \A j \in 1..(m - 1 + 1) : A[j] = R[1 + j - 1]
    BY <1>1, <2>1, <2>2, <2>3, SubSeqProperties
  <2> QED BY <2>1, <2>2, <2>4
<1>4. /\ B \in Seq(ShredRecord) /\ Len(B) = n - i /\ B[1] = R[i + 1]
  <2>1. \A j \in (i + 1)..n : R[j] \in ShredRecord
    BY <1>2
  <2>2. /\ B \in Seq(ShredRecord)
        /\ Len(B) = IF i + 1 <= n THEN n - (i + 1) + 1 ELSE 0
        /\ \A j \in 1..(n - (i + 1) + 1) : B[j] = R[(i + 1) + j - 1]
    BY <1>1, <1>2, <2>1, SubSeqProperties
  <2>3. i + 1 <= n /\ n - (i + 1) + 1 = n - i
        /\ 1 \in 1..(n - i) /\ (i + 1) + 1 - 1 = i + 1
    BY <1>2
  <2> QED BY <2>2, <2>3
<1>5. /\ Q \in Seq(ShredRecord) /\ Len(Q) = (i - 1) + (n - i)
      /\ \A j \in 1..((i - 1) + (n - i)) :
           Q[j] = IF j <= i - 1 THEN A[j] ELSE B[j - (i - 1)]
  <2>1. /\ Q \in Seq(ShredRecord) /\ Len(Q) = Len(A) + Len(B)
        /\ \A j \in 1..(Len(A) + Len(B)) :
             Q[j] = IF j <= Len(A) THEN A[j] ELSE B[j - Len(A)]
    BY <1>1, <1>3, <1>4, ConcatProperties
  <2> QED BY <1>3, <1>4, <2>1
<1>6. i <= Len(Q) /\ Q[i] = R[i + 1] /\ (i > 1 => Q[i - 1] = R[i - 1])
  <2>1. /\ i \in 1..((i - 1) + (n - i)) /\ ~(i <= i - 1) /\ i - (i - 1) = 1
        /\ i > 1 => i - 1 \in 1..((i - 1) + (n - i)) /\ i - 1 \in 1..(i - 1)
    BY <1>2
  <2> QED BY <1>2, <1>3, <1>4, <1>5, <2>1
<1>7. Q = Without(R, i)
  BY <1>1 DEF Without
<1> QED BY <1>5, <1>6, <1>7, SuccessorInPlace

LEMMA SwapShows ==
  ASSUME NEW R \in Seq(ShredRecord), CheckShredChain(R), NEW i \in 1..(Len(R) - 1)
  PROVE  ~CheckShredChain(Swapped(R, i))
<1>1. PICK n, Q : n = Len(R) /\ Q = Swapped(R, i)
  OBVIOUS
<1>2. /\ n \in Nat /\ i \in 1..n /\ i + 1 \in 1..n /\ DOMAIN R = 1..n
      /\ \A j \in 1..n : R[j] \in ShredRecord
      /\ R \in [1..n -> ShredRecord]
  BY <1>1, LenProperties, ElementOfSeq
<1>3. Q \in [1..n -> ShredRecord]
  BY <1>1, <1>2 DEF Swapped
<1>4. Q \in Seq(ShredRecord)
  BY <1>2, <1>3
<1>5. Len(Q) = n
  BY <1>2, <1>3
<1>6. Q[i] = R[i + 1] /\ (i > 1 => Q[i - 1] = R[i - 1])
  <2>1. i # i + 1 /\ (i > 1 => i - 1 \in 1..n /\ i - 1 # i /\ i - 1 # i + 1)
    BY <1>2
  <2> QED BY <1>1, <1>2, <2>1 DEF Swapped
<1>7. i <= Len(Q)
  BY <1>2, <1>5
<1> QED BY <1>1, <1>4, <1>6, <1>7, SuccessorInPlace

(* Whatever is changed in a record: its hash does not fit any more, or was  *)
(* recomputed and is another one.                                           *)
LEMMA DoctoredHash ==
  ASSUME NEW h \in Hash, NEW r \in ShredRecord, r.prev = h,
         r.hash = ShredRecordHash(h, r.pii, r.at, r.origin), NEW x \in Doctored(r)
  PROVE  /\ x \in ShredRecord /\ x.prev = h
         /\ ShredRecordHash(h, x.pii, x.at, x.origin) # r.hash
<1>1. /\ r.pii \in Subjects /\ r.at \in Nat /\ r.origin \in Nat
      /\ r.prev \in Hash /\ r.hash \in Hash
  BY DEF ShredRecord
<1>2. TicksPerSecond \in Nat \ {0}
  BY ClockAssumption
<1>. DEFINE edits == {[r EXCEPT !.pii = p] : p \in Subjects \ {r.pii}}
                     \cup {[r EXCEPT !.origin = o] : o \in {r.origin + 1}}
                     \cup {[r EXCEPT !.at = r.at + TicksPerSecond]}
<1>3. ASSUME NEW e \in edits
      PROVE  /\ e \in ShredRecord /\ e.prev = h /\ e.hash = r.hash
             /\ e.pii # r.pii \/ Second(e.at) # Second(r.at) \/ e.origin # r.origin
  <2>1. CASE e \in {[r EXCEPT !.pii = p] : p \in Subjects \ {r.pii}}
    BY <1>1, <2>1 DEF ShredRecord
  <2>2. CASE e = [r EXCEPT !.origin = r.origin + 1]
    <3>1. r.origin + 1 \in Nat /\ r.origin + 1 # r.origin
      BY <1>1
    <3> QED BY <1>1, <2>2, <3>1 DEF ShredRecord
  <2>3. CASE e = [r EXCEPT !.at = r.at + TicksPerSecond]
    <3>1. r.at + TicksPerSecond \in Nat
      BY <1>1, <1>2
    <3>2. \A a \in Nat, t \in Nat \ {0} : (a + t) \div t # a \div t
      BY SMT
    <3>3. Second(r.at + TicksPerSecond) # Second(r.at)
      BY <1>1, <1>2, <3>2 DEF Second
    <3> QED BY <1>1, <2>3, <3>1, <3>3 DEF ShredRecord
  <2> QED BY <1>3, <2>1, <2>2, <2>3
<1>4. PICK e \in edits :
        \/ x = e
        \/ x = [e EXCEPT !.hash = ShredRecordHash(e.prev, e.pii, e.at, e.origin)]
  BY DEF Doctored
<1>5. /\ e \in ShredRecord /\ e.prev = h
      /\ e.pii \in Subjects /\ e.at \in Nat /\ e.origin \in Nat
      /\ e.pii # r.pii \/ Second(e.at) # Second(r.at) \/ e.origin # r.origin
  BY <1>3 DEF ShredRecord
<1>. HIDE DEF edits
<1>6. ShredRecordHash(h, e.pii, e.at, e.origin) # r.hash
  BY <1>1, <1>5, HashesDiffer
<1>7. ShredRecordHash(h, e.pii, e.at, e.origin) \in Hash
  BY <1>5, HashType
<1>8. /\ x \in ShredRecord /\ x.prev = e.prev /\ x.pii = e.pii
      /\ x.at = e.at /\ x.origin = e.origin
  BY <1>4, <1>5, <1>7 DEF ShredRecord
<1> QED BY <1>5, <1>6, <1>8

LEMMA EditShows ==
  ASSUME NEW R \in Seq(ShredRecord), CheckShredChain(R), NEW i \in 1..Len(R),
         NEW x \in Doctored(R[i]), i < Len(R) \/ x.hash = R[i].hash
  PROVE  ~CheckShredChain([R EXCEPT ![i] = x])
<1>1. PICK n, Q : n = Len(R) /\ Q = [R EXCEPT ![i] = x]
  OBVIOUS
<1>2. n \in Nat /\ i \in 1..n /\ R \in [1..n -> ShredRecord]
  BY <1>1, LenProperties
<1>3. /\ R[i] \in ShredRecord /\ HashBefore(R, i) \in Hash
      /\ R[i].prev = HashBefore(R, i)
      /\ R[i].hash =
           ShredRecordHash(HashBefore(R, i), R[i].pii, R[i].at, R[i].origin)
      /\ i < n => R[i + 1].prev = R[i].hash
  BY <1>1, LinksOfAccepted
<1>4. /\ x \in ShredRecord
      /\ ShredRecordHash(HashBefore(R, i), x.pii, x.at, x.origin) # R[i].hash
  BY <1>3, DoctoredHash
<1>5. Q \in [1..n -> ShredRecord] /\ Q[i] = x /\ \A j \in 1..n : j # i => Q[j] = R[j]
  BY <1>1, <1>2, <1>4
<1>6. Q \in Seq(ShredRecord)
  BY <1>2, <1>5
<1>7. Len(Q) = n
  BY <1>2, <1>5
<1>8. HashBefore(Q, i) = HashBefore(R, i)
  <2>1. i # 1 => i - 1 \in 1..n /\ i - 1 # i
    BY <1>2
  <2> QED BY <1>5, <2>1 DEF HashBefore
<1>9. CASE x.hash = R[i].hash
  <2>1. ~Linked(Q, i)
    BY <1>4, <1>5, <1>8, <1>9 DEF Linked
  <2> QED BY <1>1, <1>2, <1>6, <1>7, <2>1, AcceptedIsLinked
<1>10. CASE x.hash # R[i].hash
  <2>1. i < n /\ i + 1 \in 1..n /\ i + 1 # i /\ i + 1 # 1 /\ (i + 1) - 1 = i
    BY <1>1, <1>2, <1>10
  <2>2. Q[i + 1].prev = R[i].hash /\ HashBefore(Q, i + 1) = x.hash
    BY <1>3, <1>5, <2>1 DEF HashBefore
  <2>3. ~Linked(Q, i + 1)
    BY <1>10, <2>2 DEF Linked
  <2> QED BY <1>1, <1>6, <1>7, <2>1, <2>3, AcceptedIsLinked
<1> QED BY <1>9, <1>10

(* CheckShredChain catches "any record that was altered or removed after    *)
(* the fact" (README.md) on any ledger it accepts, however long: a record   *)
(* that others follow cannot be edited, taken out or moved.                 *)
THEOREM TamperingIsCaught == Spec => []TamperingShows
<1>1. ASSUME OrderOK PROVE TamperingShows
  <2>1. Entries \in Seq(ShredRecord) /\ DOMAIN Entries = 1..Len(Entries)
    BY <1>1, LenProperties DEF OrderOK
  <2>2. SUFFICES ASSUME CheckShredChain(Entries)
                 PROVE  /\ \A i \in 1..(Len(Entries) - 1) :
                             /\ ~CheckShredChain(Without(Entries, i))
                             /\ ~CheckShredChain(Swapped(Entries, i))
                        /\ \A i \in DOMAIN Entries : \A r \in Doctored(Entries[i]) :
                             i < Len(Entries) \/ r.hash = Entries[i].hash
                               => ~CheckShredChain([Entries EXCEPT ![i] = r])
    BY DEF TamperingShows
  <2> QED BY <2>1, <2>2, RemovalShows, SwapShows, EditShows
<1> QED BY <1>1, RowsAreOrdered, CallsInductive, PTL

=============================================================================
