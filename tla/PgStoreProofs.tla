---------------------------- MODULE PgStoreProofs ----------------------------
(***************************************************************************)
(* Proofs about PgStore, for every number of writers, streams, aggregates   *)
(* and tenants, every fetch limit and every bound.                          *)
(***************************************************************************)
EXTENDS PgStore, FiniteSetTheorems, TLAPS

(* The tables, and what a stream has fetched, are finite.                   *)
RowsInv ==
  /\ IsFiniteSet(table)
  /\ uncommitted \in [Writers -> SUBSET Row]
  /\ \A w \in Writers : IsFiniteSet(uncommitted[w])
  /\ \A s \in Streams : IsFiniteSet(fetched[s])

(* The sequence names every row, committed or not, exactly once.            *)
IdsInv ==
  \A q, r \in CommittedOrNot :
    /\ r.id \in 1..seq
    /\ q.id = r.id => q = r

(* An advisory lock is held by the writer whose transaction has it.         *)
LockInv ==
  \A w \in Writers :
    /\ wpc[w] \in {"locked", "inserting"} => lock[agg[w]] = w
    /\ \A a \in Aggregates :
         lock[a] = w => wpc[w] \in {"locked", "inserting"} /\ agg[w] = a

(* The rows an open transaction inserted are the next versions of its       *)
(* aggregate, in id order, and lie beyond everything committed of it.       *)
OpenRows(w) ==
  /\ uncommitted[w] # {} => wpc[w] = "inserting"
  /\ Cardinality(uncommitted[w]) <= size[w]
  /\ \A r \in uncommitted[w] :
       /\ r.agg = agg[w] /\ r.by = w /\ r.batch = saves[w]
       /\ r.tenant = StampedTenant(w)
       /\ r.ver \in (base[w] + 1)..(base[w] + Cardinality(uncommitted[w]))
  /\ \A v \in (base[w] + 1)..(base[w] + Cardinality(uncommitted[w])) :
       \E r \in uncommitted[w] : r.ver = v
  /\ \A q, r \in uncommitted[w] : q.id < r.id <=> q.ver < r.ver
  /\ \A q \in table, r \in uncommitted[w] :
       q.agg = agg[w] => q.ver <= base[w] /\ q.id < r.id

TransactionInv ==
  \A w \in Writers :
    /\ OpenRows(w)
    /\ wpc[w] = "inserting" /\ base[w] # 0 =>
         \E r \in table : r.agg = agg[w] /\ r.ver = base[w]

(* A batch is stored under its own number; while its writer may still save  *)
(* it again, its stored rows make the version query refuse the retry.       *)
RetryInv ==
  \A w \in Writers :
    /\ wpc[w] # "idle" => size[w] > 0 /\ saves[w] > 0
    /\ \A r \in table : r.by = w => r.batch \in 1..saves[w]
    /\ wpc[w] # "idle" => \A r \in RowsOf(w, saves[w]) :
         /\ wpc[w] # "inserting"
         /\ r.agg = agg[w] /\ r.ver > base[w] /\ r.tenant = StampedTenant(w)

(* The id of a committed row in s's scope.                                  *)
Visible(s, i) == \E r \in table : r.id = i /\ InScope(ScopeOfStream[s], r)

(* What a stream has fetched lies beyond its cursor, what it handed out     *)
(* ends at its cursor, in order.                                            *)
CursorInv ==
  \A s \in Streams :
    /\ \A i \in fetched[s] : i > lastID[s] /\ Visible(s, i)
    /\ \A i \in DOMAIN got[s] :
         /\ got[s][i] <= lastID[s] /\ Visible(s, got[s][i])
         /\ \A j \in 1..(i - 1) : got[s][j] < got[s][i]
    /\ lastID[s] # 0 => \E i \in DOMAIN got[s] : got[s][i] = lastID[s]

(* A row a stream fetched past was in an open transaction at that moment,   *)
(* if it is in scope; so it belongs to another aggregate.                   *)
OvertookInv ==
  \A s \in Streams :
    /\ \A p \in overtook[s] : p[1] \in 1..seq /\ \E q \in table : q.id = p[2]
    /\ \A r \in CommittedOrNot, q \in table :
         <<r.id, q.id>> \in overtook[s] => q.agg # r.agg
    /\ \A i \in fetched[s], r \in CommittedOrNot :
         /\ lastID[s] < r.id /\ r.id < i /\ r.id \notin fetched[s]
         /\ InScope(ScopeOfStream[s], r)
         => <<r.id, i>> \in overtook[s]

(* A row in scope that a stream's cursor has passed, committed or not, was  *)
(* handed out or overtaken by a row that was.                               *)
PassedInv ==
  \A s \in Streams : \A r \in CommittedOrNot :
    r.id <= lastID[s] /\ InScope(ScopeOfStream[s], r) =>
      \/ Delivered(s, r)
      \/ \E q \in table : <<r.id, q.id>> \in overtook[s] /\ Delivered(s, q)

IInv ==
  /\ TypeOK
  /\ RowsInv
  /\ IdsInv
  /\ LockInv
  /\ TransactionInv
  /\ RetryInv
  /\ CursorInv
  /\ OvertookInv
  /\ PassedInv
  /\ GapFreeVersions
  /\ BatchesAreAtomic

-----------------------------------------------------------------------------
(* Facts about finite sets of numbers.                                      *)

(* A finite set of numbers has a greatest element: among the sets of what   *)
(* lies above one of its elements there is a least one.                     *)
LEMMA GreatestElement ==
  ASSUME NEW S \in SUBSET Nat, IsFiniteSet(S), S # {}
  PROVE  \E m \in S : \A n \in S : n <= m
<1>. DEFINE Above(m) == {n \in S : m < n}
            T == {Above(m) : m \in S}
<1>1. T \subseteq FiniteSubsetsOf(S)
  BY FS_Subset DEF FiniteSubsetsOf
<1>2. \E U \in T : \A V \in T : <<V, U>> \notin StrictSubsetOrdering(S)
  <2>1. T # {}
    OBVIOUS
  <2>. QED
    BY <1>1, <2>1, FS_StrictSubsetOrderingWellFounded, WFMin
<1>3. PICK m \in S :
        \A n \in S : <<Above(n), Above(m)>> \notin StrictSubsetOrdering(S)
  BY <1>2
<1>4. ASSUME NEW n \in S, m < n PROVE FALSE
  <2>1. Above(n) \subseteq Above(m)
    <3>1. \A x \in S : x \in Nat
      OBVIOUS
    <3>2. \A x \in S : n < x => m < x
      BY <1>4, <3>1
    <3>. QED
      BY <3>2
  <2>2. n \in Above(m) /\ n \notin Above(n)
    BY <1>4
  <2>3. <<Above(n), Above(m)>> \in StrictSubsetOrdering(S)
    BY <2>1, <2>2 DEF StrictSubsetOrdering
  <2>. QED
    BY <2>3, <1>3
<1>. QED
  BY <1>4

(* ORDER BY ... LIMIT n: at most n of the ids, with every lower one.        *)
LEMMA LowestIds ==
  ASSUME NEW ids \in SUBSET Nat, NEW n \in Nat
  PROVE  /\ Lowest(ids, n) \subseteq ids
         /\ IsFiniteSet(Lowest(ids, n))
         /\ Cardinality(Lowest(ids, n)) <= n
         /\ \A i \in Lowest(ids, n) : \A j \in ids : j < i => j \in Lowest(ids, n)
<1>. DEFINE L == Lowest(ids, n)
            Below(i) == {j \in ids : j < i}
            f == [i \in L |-> Cardinality(Below(i))]
<1>0. \A i \in ids : i \in Nat
  OBVIOUS
<1>1. \A i \in ids : IsFiniteSet(Below(i)) /\ Cardinality(Below(i)) \in Nat
  <2>. TAKE i \in ids
  <2>1. Below(i) \in SUBSET Nat /\ (\A j \in Below(i) : j <= i)
    <3>1. \A j \in ids : j < i => j <= i
      BY <1>0
    <3>. QED
      BY <3>1
  <2>. QED
    BY <1>0, <2>1, FS_BoundedSetOfNaturals, FS_CardinalityType
<1>2. \A i \in ids, j \in ids :
        i < j => Cardinality(Below(i)) < Cardinality(Below(j))
  <2>. SUFFICES ASSUME NEW i \in ids, NEW j \in ids, i < j
                PROVE  Cardinality(Below(i)) < Cardinality(Below(j))
    OBVIOUS
  <2>1. Below(i) \in SUBSET Below(j) /\ i \in Below(j) /\ i \notin Below(i)
    <3>1. \A x \in ids : x < i => x < j
      BY <1>0
    <3>2. ~(i < i)
      BY <1>0
    <3>. QED
      BY <3>1, <3>2
  <2>2. /\ Cardinality(Below(i)) <= Cardinality(Below(j))
        /\ Cardinality(Below(i)) # Cardinality(Below(j))
    BY <1>1, <2>1, FS_Subset
  <2>. QED
    BY <1>1, <2>2
<1>3. L \subseteq ids /\ (\A i \in L : Cardinality(Below(i)) < n)
  BY DEF Lowest
<1>4. f \in Injection(L, 0..(n - 1))
  <2>1. \A i \in L : Cardinality(Below(i)) \in 0..(n - 1)
    <3>1. ASSUME NEW i \in L PROVE Cardinality(Below(i)) \in 0..(n - 1)
      <4>. HIDE DEF Below
      <4>1. Cardinality(Below(i)) \in Nat /\ Cardinality(Below(i)) < n
        BY <1>1, <1>3
      <4>. QED
        BY <4>1
    <3>. QED
      BY <3>1
  <2>3. f \in [L -> 0..(n - 1)]
    BY <2>1
  <2>2. ASSUME NEW i \in L, NEW j \in L, f[i] = f[j] PROVE i = j
    <3>1. i \in Nat /\ j \in Nat
      BY <1>3
    <3>. QED
      BY <1>1, <1>2, <1>3, <2>2, <3>1
  <2>. QED
    BY <2>2, <2>3 DEF Injection, IsInjective
<1>5. IsFiniteSet(0..(n - 1)) /\ Cardinality(0..(n - 1)) = n
  BY FS_Interval
<1>6. ASSUME NEW i \in L, NEW j \in ids, j < i PROVE j \in L
  <2>1. Cardinality(Below(j)) < n
    <3>1. /\ Cardinality(Below(j)) \in Nat
          /\ Cardinality(Below(i)) \in Nat
          /\ Cardinality(Below(j)) < Cardinality(Below(i))
          /\ Cardinality(Below(i)) < n
      BY <1>1, <1>2, <1>3, <1>6
    <3>. QED
      BY <3>1
  <2>. QED
    BY <2>1 DEF Lowest
<1>. QED
  BY <1>3, <1>4, <1>5, <1>6, FS_Injection

(* What the version queries answer: the greatest version, or 0.             *)
LEMMA MaxVersionIsMax ==
  ASSUME NEW rows \in SUBSET Row, IsFiniteSet(rows)
  PROVE  /\ MaxVersion(rows) \in Nat
         /\ \A r \in rows : r.ver <= MaxVersion(rows)
         /\ MaxVersion(rows) # 0 => \E r \in rows : r.ver = MaxVersion(rows)
<1>. DEFINE V == {r.ver : r \in rows}
<1>1. CASE rows = {}
  BY <1>1 DEF MaxVersion
<1>2. CASE rows # {}
  <2>1. V \in SUBSET Nat /\ V # {}
    BY <1>2 DEF Row
  <2>2. IsFiniteSet(V)
    <3>. DEFINE g == [r \in rows |-> r.ver]
    <3>1. g \in Surjection(rows, V)
      BY DEF Surjection
    <3>. QED
      BY <3>1, FS_Surjection
  <2>3. \E m \in V : \A v \in V : v <= m
    BY <2>1, <2>2, GreatestElement
  <2>4. \E m \in V : \A r \in rows : r.ver <= m
    BY <2>3
  <2>5. MaxVersion(rows) = CHOOSE m \in V : \A r \in rows : r.ver <= m
    BY <1>2 DEF MaxVersion
  <2>6. MaxVersion(rows) \in V /\ \A r \in rows : r.ver <= MaxVersion(rows)
    BY <2>4, <2>5
  <2>. QED
    BY <2>1, <2>6
<1>. QED
  BY <1>1, <1>2

-----------------------------------------------------------------------------
(* Types.                                                                   *)

(* What a batch goes through in the end: COMMIT, its answer lost or not.    *)
Commits(w) == CommitTx(w) \/ CommitAnswerLost(w)

(* Every step of a writer.                                                  *)
AnyWriterStep(w) ==
  \/ WriterStep(w)
  \/ InsertRefused(w)
  \/ CommitAnswerLost(w)
  \/ TransactionFails(w)
  \/ RetrySave(w)
  \/ GiveUp(w)

(* Every step of a stream.                                                  *)
StreamStep(s) ==
  \/ Open(s)
  \/ Fetch(s)
  \/ Deliver(s)
  \/ StreamEnds(s)

(* The version queries answer with a number: 0, or the version of a row     *)
(* they look at, none of which has a greater one.                           *)
LEMMA VersionsRead ==
  ASSUME RowsInv, table \subseteq Row, NEW scope, NEW a
  PROVE  /\ LoadedVersion(scope, a) \in Nat
         /\ CurrentVersion(scope, a) \in Nat
         /\ \A r \in table :
              r.agg = a /\ scope \in {Unscoped, r.tenant}
                => r.ver <= CurrentVersion(scope, a)
         /\ CurrentVersion(scope, a) # 0 =>
              \E r \in table : r.agg = a /\ r.ver = CurrentVersion(scope, a)
<1>1. ASSUME NEW rows \in SUBSET table PROVE rows \in SUBSET Row /\ IsFiniteSet(rows)
  BY FS_Subset DEF RowsInv
<1>2. LoadedVersion(scope, a) \in Nat
  BY <1>1, MaxVersionIsMax DEF LoadedVersion
<1>. DEFINE rows == {r \in table : r.agg = a /\ scope \in {Unscoped, r.tenant}}
<1>3. /\ MaxVersion(rows) \in Nat
      /\ \A r \in rows : r.ver <= MaxVersion(rows)
      /\ MaxVersion(rows) # 0 => \E r \in rows : r.ver = MaxVersion(rows)
  BY <1>1, MaxVersionIsMax
<1>4. CurrentVersion(scope, a) = MaxVersion(rows)
  BY DEF CurrentVersion
<1>. QED
  BY <1>2, <1>3, <1>4

LEMMA StampedTenantType ==
  ASSUME NEW w \in Writers
  PROVE  StampedTenant(w) \in Tenants
BY PgScopesAssumption DEF StampedTenant

LEMMA InitInv == Init => IInv
<1>. SUFFICES ASSUME Init PROVE IInv
  OBVIOUS
<1>. USE DEF Init
<1>1. TypeOK /\ RowsInv
  <2>1. (CHOOSE a \in Aggregates : TRUE) \in Aggregates
    BY PgScopesAssumption
  <2>2. Cardinality({}) = 0 /\ IsFiniteSet({})
    BY FS_EmptySet
  <2>. QED
    BY <2>1, <2>2, PgScopesAssumption, PgBoundsAssumption DEF TypeOK, RowsInv
<1>2. CommittedOrNot = {}
  BY DEF CommittedOrNot, InFlight
<1>3. IdsInv /\ LockInv /\ RetryInv
  BY <1>2, PgScopesAssumption DEF IdsInv, LockInv, RetryInv, RowsOf
<1>4. TransactionInv
  BY FS_EmptySet DEF TransactionInv, OpenRows
<1>5. CursorInv /\ OvertookInv /\ PassedInv
  BY <1>2 DEF CursorInv, OvertookInv, PassedInv
<1>6. GapFreeVersions /\ BatchesAreAtomic
  BY DEF GapFreeVersions, BatchesAreAtomic, RowsOf
<1>. QED
  BY <1>1, <1>3, <1>4, <1>5, <1>6 DEF IInv

LEMMA TypeWriterStep ==
  ASSUME IInv, NEW w \in Writers, AnyWriterStep(w)
  PROVE  TypeOK' /\ RowsInv'
<1>. USE DEF TypeOK, dbVars, writerVars, streamVars
<1>0. TypeOK /\ RowsInv
  BY DEF IInv
<1>1. CASE LoadAggregate(w)
  <2>1. PICK a \in Aggregates, n \in 1..MaxBatch :
          /\ agg' = [agg EXCEPT ![w] = a]
          /\ base' = [base EXCEPT ![w] = LoadedVersion(ScopeOfWriter[w], a)]
          /\ size' = [size EXCEPT ![w] = n]
    BY <1>1 DEF LoadAggregate
  <2>2. LoadedVersion(ScopeOfWriter[w], a) \in Nat
    BY <1>0, VersionsRead
  <2>3. base' \in [Writers -> Nat] /\ agg' \in [Writers -> Aggregates]
    BY <1>0, <2>1, <2>2
  <2>4. size' \in [Writers -> 0..MaxBatch] /\ saves' \in [Writers -> 0..MaxSaves]
    BY <1>0, <1>1, <2>1, PgBoundsAssumption DEF LoadAggregate
  <2>. QED
    BY <1>0, <1>1, <2>3, <2>4 DEF LoadAggregate, RowsInv
<1>2. CASE AcquireLock(w)
  BY <1>0, <1>2 DEF AcquireLock, RowsInv
<1>3. CASE CheckVersion(w)
  BY <1>0, <1>3 DEF CheckVersion, RowsInv
<1>. DEFINE Ended == /\ EndTransaction(w)
                     /\ table' = table \/ table' = table \cup uncommitted[w]
<1>4. ASSUME Ended
      PROVE  /\ table' \subseteq Row
             /\ IsFiniteSet(table')
             /\ uncommitted' \in [Writers -> SUBSET Row]
             /\ \A v \in Writers : IsFiniteSet(uncommitted'[v])
             /\ \A v \in Writers : uncommitted'[v] \subseteq Row
             /\ lock' \in [Aggregates -> Writers \cup {Nobody}]
  <2>1. uncommitted' = [uncommitted EXCEPT ![w] = {}]
    BY <1>4 DEF EndTransaction
  <2>2. uncommitted' \in [Writers -> SUBSET Row]
    BY <1>0, <2>1 DEF RowsInv
  <2>3. \A v \in Writers : IsFiniteSet(uncommitted'[v])
    BY <1>0, <2>1, FS_EmptySet DEF RowsInv
  <2>4. table' \subseteq Row /\ IsFiniteSet(table')
    <3>1. uncommitted[w] \subseteq Row /\ IsFiniteSet(uncommitted[w])
      BY <1>0 DEF RowsInv
    <3>2. IsFiniteSet(table) /\ table \subseteq Row
      BY <1>0 DEF RowsInv
    <3>3. IsFiniteSet(table \cup uncommitted[w])
      BY <3>1, <3>2, FS_Union
    <3>. QED
      BY <1>4, <3>1, <3>2, <3>3
  <2>5. lock' \in [Aggregates -> Writers \cup {Nobody}]
    BY <1>0, <1>4 DEF EndTransaction
  <2>. QED
    BY <2>2, <2>3, <2>4, <2>5
<1>5. CASE Conflict(w)
  BY <1>0, <1>4, <1>5 DEF Conflict, RowsInv
<1>6. CASE InsertRow(w)
  <2>. DEFINE r == [id |-> seq + 1, tenant |-> StampedTenant(w), agg |-> agg[w],
                    ver |-> NextVersion(w), by |-> w, batch |-> saves[w]]
  <2>1. Cardinality(uncommitted[w]) \in Nat
    BY <1>0, FS_CardinalityType DEF RowsInv
  <2>2. NextVersion(w) \in Nat /\ saves[w] \in Nat
    BY <1>0, <2>1, PgBoundsAssumption DEF NextVersion
  <2>3. r \in Row
    BY <1>0, <2>2, StampedTenantType DEF Row
  <2>4. uncommitted' = [uncommitted EXCEPT ![w] = @ \cup {r}]
    BY <1>6 DEF InsertRow
  <2>5. uncommitted' \in [Writers -> SUBSET Row]
    BY <1>0, <2>3, <2>4 DEF RowsInv
  <2>6. \A v \in Writers : IsFiniteSet(uncommitted'[v])
    <3>1. IsFiniteSet(uncommitted[w] \cup {r})
      BY <1>0, FS_AddElement DEF RowsInv
    <3>. QED
      BY <1>0, <2>4, <3>1 DEF RowsInv
  <2>7. UNCHANGED <<table, lock, writerVars, streamVars>> /\ seq' \in Nat
    BY <1>0, <1>6 DEF InsertRow
  <2>. QED
    BY <1>0, <2>5, <2>6, <2>7 DEF RowsInv
<1>7. CASE InsertRefused(w)
  BY <1>0, <1>4, <1>7, PgBoundsAssumption DEF InsertRefused, RowsInv
<1>8. CASE CommitTx(w)
  <2>1. saves[w] > 0
    BY <1>8 DEF CommitTx, IInv, RetryInv
  <2>2. acked' \subseteq Writers \X (1..MaxSaves)
    BY <1>0, <1>8, <2>1, PgBoundsAssumption DEF CommitTx
  <2>. QED
    BY <1>0, <1>4, <1>8, <2>2 DEF CommitTx, RowsInv
<1>9. CASE CommitAnswerLost(w)
  BY <1>0, <1>4, <1>9, PgBoundsAssumption DEF CommitAnswerLost, RowsInv
<1>10. CASE TransactionFails(w)
  BY <1>0, <1>4, <1>10, PgBoundsAssumption DEF TransactionFails, RowsInv
<1>11. CASE RetrySave(w)
  BY <1>0, <1>11 DEF RetrySave, RowsInv
<1>12. CASE GiveUp(w)
  BY <1>0, <1>12 DEF GiveUp, RowsInv
<1>. QED
  BY <1>1, <1>2, <1>3, <1>5, <1>6, <1>7, <1>8, <1>9, <1>10, <1>11, <1>12
     DEF AnyWriterStep, WriterStep

LEMMA TypeStreamStep ==
  ASSUME IInv, NEW s \in Streams, StreamStep(s)
  PROVE  TypeOK' /\ RowsInv'
<1>. USE DEF TypeOK, dbVars, writerVars, streamVars
<1>0. TypeOK /\ RowsInv
  BY DEF IInv
<1>1. CASE Open(s)
  BY <1>0, <1>1 DEF Open, RowsInv
<1>2. CASE Fetch(s)
  <2>1. BeyondCursor(s) \in SUBSET Nat
    BY <1>0 DEF BeyondCursor, Row
  <2>. DEFINE L == Lowest(BeyondCursor(s), FetchLimit)
  <2>2. L \in SUBSET Nat /\ Cardinality(L) <= FetchLimit /\ IsFiniteSet(L)
    BY <2>1, LowestIds, PgBoundsAssumption
  <2>3. fetched' = [fetched EXCEPT ![s] = L]
    BY <1>2 DEF Fetch
  <2>. HIDE DEF L
  <2>4. /\ fetched' \in [Streams -> SUBSET Nat]
        /\ \A t \in Streams : Cardinality(fetched'[t]) <= FetchLimit
        /\ \A t \in Streams : IsFiniteSet(fetched'[t])
    BY <1>0, <2>2, <2>3 DEF RowsInv
  <2>5. OpenBelow(L) \subseteq Nat \X Nat
    <3>1. \A r \in InFlight : r.id \in Nat
      BY <1>0 DEF InFlight, Row
    <3>2. {r.id : r \in InFlight} \subseteq Nat
      BY <3>1
    <3>. QED
      BY <2>2, <3>2 DEF OpenBelow
  <2>6. overtook' = [overtook EXCEPT ![s] = @ \cup OpenBelow(L)]
    BY <1>2 DEF Fetch, L
  <2>7. overtook' \in [Streams -> SUBSET (Nat \X Nat)]
    BY <1>0, <2>5, <2>6
  <2>. QED
    BY <1>0, <1>2, <2>4, <2>7 DEF Fetch, RowsInv
<1>3. CASE Deliver(s)
  <2>1. PICK i \in fetched[s] :
          /\ got' = [got EXCEPT ![s] = Append(@, i)]
          /\ lastID' = [lastID EXCEPT ![s] = i]
          /\ fetched' = [fetched EXCEPT ![s] = @ \ {i}]
    BY <1>3 DEF Deliver, CursorAfter
  <2>2. i \in Nat
    BY <1>0
  <2>3. got' \in [Streams -> Seq(Nat)] /\ lastID' \in [Streams -> Nat]
    BY <1>0, <2>1, <2>2
  <2>4. fetched' \in [Streams -> SUBSET Nat]
    BY <1>0, <2>1
  <2>5. /\ IsFiniteSet(fetched[s] \ {i})
        /\ Cardinality(fetched[s] \ {i}) <= FetchLimit
    <3>1. IsFiniteSet(fetched[s]) /\ Cardinality(fetched[s]) <= FetchLimit
      BY <1>0 DEF RowsInv
    <3>2. /\ IsFiniteSet(fetched[s] \ {i})
          /\ Cardinality(fetched[s] \ {i}) <= Cardinality(fetched[s])
      BY <3>1, FS_Subset
    <3>. QED
      BY <3>1, <3>2, FS_CardinalityType, PgBoundsAssumption
  <2>6. \A t \in Streams : /\ IsFiniteSet(fetched'[t])
                           /\ Cardinality(fetched'[t]) <= FetchLimit
    BY <1>0, <2>1, <2>5 DEF RowsInv
  <2>. QED
    BY <1>0, <1>3, <2>3, <2>4, <2>6 DEF Deliver, RowsInv
<1>4. CASE StreamEnds(s)
  <2>1. /\ IsFiniteSet({}) /\ Cardinality({}) <= FetchLimit
    BY FS_EmptySet, PgBoundsAssumption
  <2>. QED
    BY <1>0, <1>4, <2>1 DEF StreamEnds, RowsInv
<1>. QED
  BY <1>1, <1>2, <1>3, <1>4 DEF StreamStep

-----------------------------------------------------------------------------
(* The writers' side of the invariant.                                      *)

LEMMA IdsWriterStep ==
  ASSUME IInv, NEW w \in Writers, AnyWriterStep(w)
  PROVE  IdsInv'
<1>. USE DEF dbVars, writerVars, streamVars
<1>0. /\ uncommitted \in [Writers -> SUBSET Row] /\ seq \in Nat
      /\ IdsInv
  BY DEF IInv, TypeOK, RowsInv
<1>1. ASSUME seq' \in Nat, seq' >= seq, CommittedOrNot' \subseteq CommittedOrNot
      PROVE  IdsInv'
  BY <1>0, <1>1 DEF IdsInv
<1>2. CASE InsertRow(w)
  <2>. DEFINE r == [id |-> seq + 1, tenant |-> StampedTenant(w), agg |-> agg[w],
                    ver |-> NextVersion(w), by |-> w, batch |-> saves[w]]
  <2>1. table' = table /\ seq' = seq + 1
    BY <1>2 DEF InsertRow
  <2>2. uncommitted' = [uncommitted EXCEPT ![w] = @ \cup {r}]
    BY <1>2 DEF InsertRow
  <2>3. CommittedOrNot' \subseteq CommittedOrNot \cup {r}
    BY <1>0, <2>1, <2>2 DEF CommittedOrNot, InFlight
  <2>4. r.id = seq + 1
    OBVIOUS
  <2>. HIDE DEF r
  <2>. QED
    BY <1>0, <2>1, <2>3, <2>4 DEF IdsInv
<1>3. ASSUME EndTransaction(w), table' = table \/ table' = table \cup uncommitted[w]
      PROVE  CommittedOrNot' \subseteq CommittedOrNot
  BY <1>0, <1>3 DEF EndTransaction, CommittedOrNot, InFlight
<1>4. CASE Conflict(w) \/ InsertRefused(w) \/ Commits(w) \/ TransactionFails(w)
  BY <1>0, <1>1, <1>3, <1>4
     DEF Conflict, InsertRefused, Commits, CommitTx, CommitAnswerLost,
         TransactionFails
<1>5. CASE LoadAggregate(w) \/ AcquireLock(w) \/ CheckVersion(w)
           \/ RetrySave(w) \/ GiveUp(w)
  <2>1. UNCHANGED <<table, uncommitted, seq>>
    BY <1>5 DEF LoadAggregate, AcquireLock, CheckVersion, RetrySave, GiveUp
  <2>. QED
    BY <1>0, <1>1, <2>1 DEF CommittedOrNot, InFlight
<1>. QED
  BY <1>2, <1>4, <1>5 DEF AnyWriterStep, WriterStep, Commits

LEMMA LockWriterStep ==
  ASSUME IInv, NEW w \in Writers, AnyWriterStep(w)
  PROVE  LockInv'
<1>. USE PgScopesAssumption DEF dbVars, writerVars, streamVars
<1>0. /\ lock \in [Aggregates -> Writers \cup {Nobody}]
      /\ agg \in [Writers -> Aggregates]
      /\ wpc \in [Writers -> {"idle", "recorded", "locked", "inserting", "failed"}]
      /\ LockInv
  BY DEF IInv, TypeOK
<1>1. CASE LoadAggregate(w)
  BY <1>0, <1>1 DEF LoadAggregate, LockInv
<1>2. CASE AcquireLock(w)
  BY <1>0, <1>2 DEF AcquireLock, LockFree, LockInv
<1>3. CASE CheckVersion(w)
  BY <1>0, <1>3 DEF CheckVersion, LockInv
<1>4. ASSUME EndTransaction(w), wpc[w] \in {"locked", "inserting"}, agg' = agg,
             \/ wpc' = [wpc EXCEPT ![w] = "idle"]
             \/ wpc' = [wpc EXCEPT ![w] = "failed"]
      PROVE  LockInv'
  BY <1>0, <1>4 DEF EndTransaction, LockInv
<1>5. CASE Conflict(w) \/ InsertRefused(w) \/ Commits(w) \/ TransactionFails(w)
  BY <1>4, <1>5
     DEF Conflict, InsertRefused, Commits, CommitTx, CommitAnswerLost,
         TransactionFails
<1>6. CASE InsertRow(w)
  BY <1>0, <1>6 DEF InsertRow, LockInv
<1>7. CASE RetrySave(w)
  BY <1>0, <1>7 DEF RetrySave, LockInv
<1>8. CASE GiveUp(w)
  BY <1>0, <1>8 DEF GiveUp, LockInv
<1>. QED
  BY <1>1, <1>2, <1>3, <1>5, <1>6, <1>7, <1>8
     DEF AnyWriterStep, WriterStep, Commits

(* What a step of w does to the table and to the other writers.             *)
LEMMA OnlyCommitsTouchTheTable ==
  ASSUME IInv, NEW w \in Writers, AnyWriterStep(w)
  PROVE  /\ Commits(w) => /\ wpc[w] = "inserting"
                          /\ Cardinality(uncommitted[w]) = size[w]
                          /\ table' = table \cup uncommitted[w]
         /\ ~Commits(w) => table' = table
         /\ UNCHANGED streamVars
         /\ \A v \in Writers \ {w} :
              UNCHANGED <<uncommitted[v], wpc[v], agg[v], base[v], size[v], saves[v]>>
<1>. USE DEF dbVars, writerVars, streamVars, EndTransaction
<1>0. TypeOK /\ uncommitted \in [Writers -> SUBSET Row]
  BY DEF IInv, RowsInv
<1>1. Commits(w) => /\ wpc[w] = "inserting"
                    /\ Cardinality(uncommitted[w]) = size[w]
                    /\ table' = table \cup uncommitted[w]
  BY DEF Commits, CommitTx, CommitAnswerLost, AllInserted
<1>2. ~Commits(w) => table' = table
  BY DEF Commits, AnyWriterStep, WriterStep, LoadAggregate, AcquireLock,
         CheckVersion, Conflict, InsertRow, InsertRefused, TransactionFails,
         RetrySave, GiveUp
<1>3. UNCHANGED streamVars
  BY DEF AnyWriterStep, WriterStep, LoadAggregate, AcquireLock,
         CheckVersion, Conflict, InsertRow, InsertRefused, TransactionFails,
         RetrySave, GiveUp, CommitTx, CommitAnswerLost
<1>4. ASSUME NEW v \in Writers \ {w}
      PROVE  UNCHANGED <<uncommitted[v], wpc[v], agg[v], base[v], size[v], saves[v]>>
  <2>1. \/ uncommitted' = uncommitted
        \/ \E X : uncommitted' = [uncommitted EXCEPT ![w] = X]
    BY DEF AnyWriterStep, WriterStep, LoadAggregate, AcquireLock,
         CheckVersion, Conflict, InsertRow, InsertRefused, TransactionFails,
         RetrySave, GiveUp, CommitTx, CommitAnswerLost
  <2>2. UNCHANGED uncommitted[v]
    BY <1>0, <2>1
  <2>3. UNCHANGED wpc[v]
    BY <1>0 DEF TypeOK, AnyWriterStep, WriterStep, LoadAggregate, AcquireLock,
         CheckVersion, Conflict, InsertRow, InsertRefused, TransactionFails,
         RetrySave, GiveUp, CommitTx, CommitAnswerLost
  <2>4. UNCHANGED <<agg[v], base[v], size[v], saves[v]>>
    BY <1>0 DEF TypeOK, AnyWriterStep, WriterStep, LoadAggregate, AcquireLock,
         CheckVersion, Conflict, InsertRow, InsertRefused, TransactionFails,
         RetrySave, GiveUp, CommitTx, CommitAnswerLost
  <2>. QED
    BY <2>2, <2>3, <2>4
<1>. QED
  BY <1>1, <1>2, <1>3, <1>4

(* A row that is inserted lies beyond every committed row of its aggregate: *)
(* the version before it is the last one.                                   *)
LEMMA NextVersionIsNext ==
  ASSUME IInv, NEW w \in Writers, wpc[w] = "inserting", ~VersionTaken(w)
  PROVE  \A q \in table : q.agg = agg[w] => q.ver <= base[w]
<1>0. /\ base[w] \in Nat /\ agg[w] \in Aggregates
      /\ Cardinality(uncommitted[w]) \in Nat
      /\ \A r \in table : r.ver \in Nat
  BY FS_CardinalityType DEF IInv, TypeOK, RowsInv, Row
<1>. SUFFICES ASSUME NEW q \in table, q.agg = agg[w], ~(q.ver <= base[w])
              PROVE  FALSE
  OBVIOUS
<1>1. CASE uncommitted[w] # {}
  <2>1. PICK r \in uncommitted[w] : TRUE
    BY <1>1
  <2>. QED
    BY <2>1 DEF IInv, TransactionInv, OpenRows
<1>2. CASE uncommitted[w] = {}
  <2>1. NextVersion(w) = base[w] + 1
    BY <1>0, <1>2, FS_EmptySet DEF NextVersion
  <2>2. base[w] + 1 \in 1..q.ver
    BY <1>0
  <2>3. PICK r \in table : r.agg = agg[w] /\ r.ver = base[w] + 1
    BY <1>0, <2>2 DEF IInv, GapFreeVersions
  <2>. QED
    BY <2>1, <2>3 DEF VersionTaken, CommittedOrNot, InFlight
<1>. QED
  BY <1>1, <1>2

(* Two open transactions are about different aggregates.                    *)
LEMMA OneTransactionPerAggregate ==
  ASSUME IInv, NEW v \in Writers, NEW w \in Writers, v # w,
         wpc[v] = "inserting", wpc[w] = "inserting"
  PROVE  agg[v] # agg[w]
BY DEF IInv, LockInv

LEMMA TransactionWriterStep ==
  ASSUME IInv, NEW w \in Writers, AnyWriterStep(w)
  PROVE  TransactionInv'
<1>. USE DEF dbVars, writerVars, streamVars
<1>0. /\ TypeOK
      /\ uncommitted \in [Writers -> SUBSET Row]
      /\ table \subseteq Row
      /\ \A v \in Writers : /\ IsFiniteSet(uncommitted[v])
                            /\ Cardinality(uncommitted[v]) \in Nat
      /\ TransactionInv
  BY FS_CardinalityType DEF IInv, RowsInv, TypeOK
<1>. DEFINE Good(v) ==
       /\ OpenRows(v)
       /\ wpc[v] = "inserting" /\ base[v] # 0 =>
            \E r \in table : r.agg = agg[v] /\ r.ver = base[v]
<1>1. ASSUME NEW v \in Writers \ {w} PROVE Good(v)'
  <2>1. UNCHANGED <<uncommitted[v], wpc[v], agg[v], base[v], size[v], saves[v]>>
    BY OnlyCommitsTouchTheTable
  <2>2. table \subseteq table'
    BY OnlyCommitsTouchTheTable
  <2>3. ASSUME NEW q \in table', NEW r \in uncommitted[v], q.agg = agg[v]
        PROVE  q \in table
    <3>1. CASE Commits(w) /\ q \in uncommitted[w]
      <4>1. wpc[w] = "inserting" /\ wpc[v] = "inserting"
        BY <1>0, <3>1, <2>3 DEF TransactionInv, OpenRows
      <4>2. q.agg = agg[w]
        BY <1>0, <3>1 DEF TransactionInv, OpenRows
      <4>. QED
        BY <2>3, <4>1, <4>2, OneTransactionPerAggregate
    <3>. QED
      BY <2>3, <3>1, OnlyCommitsTouchTheTable
  <2>4. Good(v)
    BY <1>0 DEF TransactionInv
  <2>5. OpenRows(v)'
    BY <2>1, <2>3, <2>4 DEF OpenRows, StampedTenant
  <2>6. (wpc[v] = "inserting" /\ base[v] # 0 =>
            \E r \in table : r.agg = agg[v] /\ r.ver = base[v])'
    BY <2>1, <2>2, <2>4
  <2>. QED
    BY <2>5, <2>6
<1>2. ASSUME uncommitted'[w] = {}, wpc'[w] # "inserting", size'[w] \in Nat,
             base'[w] \in Nat
      PROVE  Good(w)'
  <2>1. Cardinality(uncommitted'[w]) = 0
    BY <1>2, FS_EmptySet
  <2>2. (base'[w] + 1)..(base'[w] + 0) = {}
    BY <1>2
  <2>. QED
    BY <1>2, <2>1, <2>2 DEF OpenRows
<1>3. wpc[w] # "inserting" => uncommitted[w] = {}
  BY <1>0 DEF TransactionInv, OpenRows
<1>4. TypeOK'
  BY TypeWriterStep
<1>5. size'[w] \in Nat /\ base'[w] \in Nat
  BY <1>4, PgBoundsAssumption DEF TypeOK
<1>6. CASE LoadAggregate(w) \/ AcquireLock(w) \/ RetrySave(w) \/ GiveUp(w)
  <2>1. wpc[w] # "inserting" /\ wpc'[w] # "inserting" /\ uncommitted' = uncommitted
    BY <1>0, <1>6 DEF TypeOK, LoadAggregate, AcquireLock, RetrySave, GiveUp
  <2>. QED
    BY <1>1, <1>2, <1>3, <1>5, <2>1 DEF TransactionInv
<1>7. CASE Conflict(w) \/ InsertRefused(w) \/ Commits(w) \/ TransactionFails(w)
  <2>1. wpc'[w] # "inserting" /\ uncommitted'[w] = {}
    BY <1>0, <1>7 DEF TypeOK, EndTransaction, Conflict, InsertRefused, Commits,
                      CommitTx, CommitAnswerLost, TransactionFails
  <2>. QED
    BY <1>1, <1>2, <1>5, <2>1 DEF TransactionInv
<1>8. CASE CheckVersion(w)
  <2>1. /\ wpc[w] = "locked" /\ uncommitted[w] = {}
        /\ UNCHANGED <<table, uncommitted, base, agg, size, saves>>
    BY <1>3, <1>8 DEF CheckVersion
  <2>2. base[w] # 0 => \E r \in table : r.agg = agg[w] /\ r.ver = base[w]
    BY <1>0, <1>8, VersionsRead DEF CheckVersion, VersionMatches, IInv
  <2>3. Cardinality({}) = 0 /\ (base[w] + 1)..(base[w] + 0) = {}
    BY <1>0, FS_EmptySet DEF TypeOK
  <2>4. OpenRows(w)'
    BY <1>5, <2>1, <2>3 DEF OpenRows
  <2>5. Good(w)'
    BY <2>1, <2>2, <2>4
  <2>. QED
    BY <1>1, <2>5 DEF TransactionInv
<1>9. CASE InsertRow(w)
  <2>. DEFINE n == Cardinality(uncommitted[w])
              r == [id |-> seq + 1, tenant |-> StampedTenant(w), agg |-> agg[w],
                    ver |-> NextVersion(w), by |-> w, batch |-> saves[w]]
  <2>1. /\ wpc[w] = "inserting" /\ n < size[w] /\ n \in Nat
        /\ base[w] \in Nat /\ size[w] \in Nat
        /\ UNCHANGED <<table, wpc, base, agg, size, saves>>
    BY <1>0, <1>9, PgBoundsAssumption DEF InsertRow, TypeOK
  <2>2. uncommitted'[w] = uncommitted[w] \cup {r}
    BY <1>0, <1>9 DEF InsertRow
  <2>3. /\ r.id = seq + 1 /\ r.ver = base[w] + n + 1 /\ r.agg = agg[w]
        /\ r.by = w /\ r.batch = saves[w] /\ r.tenant = StampedTenant(w)
    BY DEF NextVersion
  <2>. HIDE DEF r
  <2>4. \A q \in CommittedOrNot : q.id < r.id /\ q.id # r.id
    BY <1>0, <2>3 DEF IInv, IdsInv, TypeOK
  <2>5. uncommitted[w] \subseteq CommittedOrNot /\ table \subseteq CommittedOrNot
    BY DEF CommittedOrNot, InFlight
  <2>6. Cardinality(uncommitted'[w]) = n + 1
    BY <1>0, <2>2, <2>4, <2>5, FS_AddElement
  <2>7. \A q \in table : q.agg = agg[w] => q.ver <= base[w] /\ q.id < r.id
    BY <1>9, <2>1, <2>4, <2>5, NextVersionIsNext DEF InsertRow
  <2>8. OpenRows(w)
    BY <1>0 DEF TransactionInv
  <2>. HIDE DEF n
  <2>9. \A x \in uncommitted'[w] :
          /\ x.agg = agg[w] /\ x.by = w /\ x.batch = saves[w]
          /\ x.tenant = StampedTenant(w)
          /\ x.ver \in (base[w] + 1)..(base[w] + (n + 1))
    BY <2>1, <2>2, <2>3, <2>8 DEF OpenRows, n
  <2>10. \A v \in (base[w] + 1)..(base[w] + (n + 1)) :
           \E x \in uncommitted'[w] : x.ver = v
    <3>. TAKE v \in (base[w] + 1)..(base[w] + (n + 1))
    <3>1. CASE v = base[w] + n + 1
      BY <2>2, <2>3, <3>1
    <3>2. CASE v # base[w] + n + 1
      <4>1. v \in (base[w] + 1)..(base[w] + n)
        BY <2>1, <3>2
      <4>. QED
        BY <2>2, <2>8, <4>1 DEF OpenRows, n
    <3>. QED
      BY <3>1, <3>2
  <2>11. \A x, y \in uncommitted'[w] : x.id < y.id <=> x.ver < y.ver
    <3>1. \A x \in uncommitted[w] :
            /\ x.id < r.id /\ x.id \in Nat /\ r.id \in Nat
            /\ x.ver < r.ver /\ x.ver \in Nat /\ r.ver \in Nat
      <4>. TAKE x \in uncommitted[w]
      <4>1. x \in Row /\ x.ver \in (base[w] + 1)..(base[w] + n)
        BY <1>0, <2>8 DEF OpenRows, n
      <4>2. x.id < r.id /\ seq \in Nat
        BY <1>0, <2>4, <2>5 DEF TypeOK
      <4>. QED
        BY <2>1, <2>3, <4>1, <4>2 DEF Row
    <3>2. \A x, y \in uncommitted[w] : x.id < y.id <=> x.ver < y.ver
      BY <2>8 DEF OpenRows
    <3>3. ~(r.id < r.id) /\ ~(r.ver < r.ver)
      BY <1>0, <2>1, <2>3 DEF TypeOK
    <3>4. \A x \in uncommitted[w] : ~(r.id < x.id) /\ ~(r.ver < x.ver)
      BY <3>1
    <3>. QED
      BY <2>2, <3>1, <3>2, <3>3, <3>4
  <2>12. \A q \in table, x \in uncommitted'[w] :
           q.agg = agg[w] => q.ver <= base[w] /\ q.id < x.id
    BY <2>2, <2>7, <2>8 DEF OpenRows
  <2>13. OpenRows(w)'
    BY <2>1, <2>6, <2>9, <2>10, <2>11, <2>12 DEF OpenRows, StampedTenant
  <2>14. Good(w)'
    BY <1>0, <2>1, <2>13 DEF TransactionInv
  <2>. QED
    BY <1>1, <2>14 DEF TransactionInv
<1>. QED
  BY <1>6, <1>7, <1>8, <1>9 DEF AnyWriterStep, WriterStep, Commits

(* A batch whose rows are stored does not pass the version query again.     *)
LEMMA StoredBatchIsRefused ==
  ASSUME IInv, NEW w \in Writers, wpc[w] = "locked", VersionMatches(w)
  PROVE  RowsOf(w, saves[w]) = {}
<1>. SUFFICES ASSUME NEW r \in RowsOf(w, saves[w]) PROVE FALSE
  OBVIOUS
<1>1. /\ r \in table /\ r.agg = agg[w] /\ r.ver > base[w]
      /\ r.tenant = StampedTenant(w)
  BY DEF IInv, RetryInv, RowsOf
<1>2. ScopeOfWriter[w] \in {Unscoped, r.tenant}
  BY <1>1 DEF StampedTenant
<1>3. r.ver <= CurrentVersion(ScopeOfWriter[w], agg[w])
  BY <1>1, <1>2, VersionsRead DEF IInv, TypeOK
<1>4. r.ver \in Nat /\ base[w] \in Nat
  BY <1>1 DEF IInv, TypeOK, Row
<1>. QED
  BY <1>1, <1>3, <1>4 DEF VersionMatches

LEMMA RetryWriterStep ==
  ASSUME IInv, NEW w \in Writers, AnyWriterStep(w)
  PROVE  RetryInv'
<1>. USE DEF dbVars, writerVars, streamVars
<1>0. /\ TypeOK
      /\ table \subseteq Row
      /\ RetryInv
      /\ \A v \in Writers : saves[v] \in Nat
  BY PgBoundsAssumption DEF IInv, TypeOK
<1>. DEFINE Good(v) ==
       /\ wpc[v] # "idle" => size[v] > 0 /\ saves[v] > 0
       /\ \A r \in table : r.by = v => r.batch \in 1..saves[v]
       /\ wpc[v] # "idle" => \A r \in RowsOf(v, saves[v]) :
            /\ wpc[v] # "inserting"
            /\ r.agg = agg[v] /\ r.ver > base[v] /\ r.tenant = StampedTenant(v)
<1>1. \A v \in Writers : Good(v)
  BY <1>0 DEF RetryInv
<1>2. \A r \in uncommitted[w] :
        /\ r.by = w /\ r.agg = agg[w] /\ r.batch = saves[w]
        /\ r.tenant = StampedTenant(w) /\ r.ver > base[w]
  <2>1. OpenRows(w) /\ base[w] \in Nat
    BY DEF IInv, TransactionInv, TypeOK
  <2>2. IsFiniteSet(uncommitted[w])
    BY DEF IInv, RowsInv
  <2>3. Cardinality(uncommitted[w]) \in Nat
    BY <2>2, FS_CardinalityType
  <2>. QED
    BY <2>1, <2>3 DEF OpenRows
<1>3. ASSUME NEW v \in Writers \ {w} PROVE Good(v)'
  <2>1. UNCHANGED <<wpc[v], agg[v], base[v], size[v], saves[v]>>
    BY OnlyCommitsTouchTheTable
  <2>2. \A r \in table' : r.by = v => r \in table
    BY <1>2, OnlyCommitsTouchTheTable
  <2>3. RowsOf(v, saves[v])' \subseteq RowsOf(v, saves[v])
    BY <2>1, <2>2 DEF RowsOf
  <2>. QED
    BY <1>1, <2>1, <2>2, <2>3 DEF StampedTenant
<1>4. CASE LoadAggregate(w)
  <2>1. table' = table /\ size'[w] > 0 /\ saves'[w] = saves[w] + 1
    BY <1>0, <1>4, PgBoundsAssumption DEF LoadAggregate, TypeOK
  <2>2. \A r \in table : r.by = w => r.batch \in 1..saves[w]
    BY <1>1
  <2>3. \A r \in table : r.by = w => r.batch \in 1..saves'[w] /\ r.batch # saves'[w]
    BY <1>0, <2>1, <2>2
  <2>4. RowsOf(w, saves[w])' = {}
    BY <2>1, <2>3 DEF RowsOf
  <2>5. Good(w)'
    BY <1>0, <2>1, <2>3, <2>4
  <2>. QED
    BY <1>3, <2>5 DEF RetryInv
<1>5. CASE AcquireLock(w) \/ RetrySave(w)
  <2>1. /\ wpc[w] # "idle" /\ wpc'[w] # "inserting"
        /\ UNCHANGED <<table, agg, base, size, saves>>
    BY <1>0, <1>5 DEF AcquireLock, RetrySave, TypeOK
  <2>2. Good(w)'
    BY <1>1, <2>1 DEF RowsOf, StampedTenant
  <2>. QED
    BY <1>3, <2>2 DEF RetryInv
<1>6. CASE CheckVersion(w)
  <2>1. /\ wpc[w] = "locked" /\ UNCHANGED <<table, agg, base, size, saves>>
    BY <1>6 DEF CheckVersion
  <2>2. RowsOf(w, saves[w])' = {}
    BY <1>6, <2>1, StoredBatchIsRefused DEF CheckVersion, RowsOf
  <2>3. Good(w)'
    BY <1>1, <2>1, <2>2
  <2>. QED
    BY <1>3, <2>3 DEF RetryInv
<1>7. CASE Conflict(w) \/ GiveUp(w)
  <2>1. wpc'[w] = "idle" /\ UNCHANGED <<table, agg, base, size, saves>>
    BY <1>0, <1>7 DEF Conflict, GiveUp, TypeOK
  <2>2. Good(w)'
    BY <1>1, <2>1
  <2>. QED
    BY <1>3, <2>2 DEF RetryInv
<1>8. CASE InsertRow(w)
  <2>1. UNCHANGED <<table, wpc, agg, base, size, saves>>
    BY <1>8 DEF InsertRow
  <2>2. Good(w)'
    BY <1>1, <2>1 DEF RowsOf, StampedTenant
  <2>. QED
    BY <1>3, <2>2 DEF RetryInv
<1>9. CASE InsertRefused(w) \/ TransactionFails(w)
  <2>1. /\ wpc[w] # "idle" /\ wpc'[w] = "failed"
        /\ UNCHANGED <<table, agg, base, size, saves>>
    BY <1>0, <1>9 DEF InsertRefused, TransactionFails, TypeOK
  <2>2. Good(w)'
    BY <1>1, <2>1 DEF RowsOf, StampedTenant
  <2>. QED
    BY <1>3, <2>2 DEF RetryInv
<1>10. CASE Commits(w)
  <2>1. /\ wpc[w] = "inserting" /\ wpc'[w] \in {"idle", "failed"}
        /\ table' = table \cup uncommitted[w]
        /\ UNCHANGED <<agg, base, size, saves>>
    BY <1>0, <1>10 DEF Commits, CommitTx, CommitAnswerLost, TypeOK
  <2>2. saves[w] > 0 /\ size[w] > 0 /\ RowsOf(w, saves[w]) = {}
    BY <1>1, <2>1
  <2>3. \A r \in table' : r.by = w => r.batch \in 1..saves[w]
    BY <1>0, <1>1, <1>2, <2>1, <2>2
  <2>4. RowsOf(w, saves[w])' \subseteq uncommitted[w]
    BY <2>1, <2>2 DEF RowsOf
  <2>5. Good(w)'
    BY <1>2, <2>1, <2>2, <2>3, <2>4 DEF StampedTenant
  <2>. QED
    BY <1>3, <2>5 DEF RetryInv
<1>. QED
  BY <1>4, <1>5, <1>6, <1>7, <1>8, <1>9, <1>10
     DEF AnyWriterStep, WriterStep, Commits

(* COMMIT appends to the history of its aggregate.                          *)
LEMMA GapFreeWriterStep ==
  ASSUME IInv, NEW w \in Writers, AnyWriterStep(w)
  PROVE  GapFreeVersions'
<1>0. GapFreeVersions /\ table \subseteq Row
  BY DEF IInv, TypeOK
<1>1. CASE ~Commits(w)
  BY <1>0, <1>1, OnlyCommitsTouchTheTable DEF GapFreeVersions
<1>2. CASE Commits(w)
  <2>. DEFINE U == uncommitted[w]
              n == Cardinality(U)
  <2>1. wpc[w] = "inserting" /\ table' = table \cup U
    BY <1>2, OnlyCommitsTouchTheTable
  <2>2. U \subseteq Row /\ n \in Nat /\ base[w] \in Nat /\ agg[w] \in Aggregates
    BY FS_CardinalityType DEF IInv, TypeOK, RowsInv
  <2>3. /\ \A r \in U : r.agg = agg[w] /\ r.ver \in (base[w] + 1)..(base[w] + n)
        /\ \A v \in (base[w] + 1)..(base[w] + n) : \E r \in U : r.ver = v
        /\ \A q, r \in U : q.id < r.id <=> q.ver < r.ver
        /\ \A q \in table, r \in U :
             q.agg = agg[w] => q.ver <= base[w] /\ q.id < r.id
        /\ base[w] # 0 => \E r \in table : r.agg = agg[w] /\ r.ver = base[w]
    BY <2>1 DEF IInv, TransactionInv, OpenRows
  <2>. HIDE DEF U, n
  <2>4. ASSUME NEW a \in Aggregates, NEW q \in table', NEW r \in table',
               q.agg = a, r.agg = a
        PROVE  q.id < r.id <=> q.ver < r.ver
    <3>1. CASE q \in table /\ r \in table
      BY <1>0, <2>4, <3>1 DEF GapFreeVersions
    <3>2. CASE q \in U /\ r \in U
      BY <2>3, <3>2
    <3>3. CASE q \in table /\ r \in U
      <4>1. q.ver <= base[w] /\ q.id < r.id /\ r.ver > base[w]
        BY <2>2, <2>3, <2>4, <3>3
      <4>2. q \in Row /\ r \in Row
        BY <1>0, <2>2, <3>3
      <4>. QED
        BY <2>2, <4>1, <4>2 DEF Row
    <3>4. CASE q \in U /\ r \in table
      <4>1. r.ver <= base[w] /\ r.id < q.id /\ q.ver > base[w]
        BY <2>2, <2>3, <2>4, <3>4
      <4>2. q \in Row /\ r \in Row
        BY <1>0, <2>2, <3>4
      <4>. QED
        BY <2>2, <4>1, <4>2 DEF Row
    <3>. QED
      BY <2>1, <3>1, <3>2, <3>3, <3>4
  <2>5. ASSUME NEW a \in Aggregates, NEW r \in table', r.agg = a, NEW v \in 1..r.ver
        PROVE  \E q \in table' : q.agg = a /\ q.ver = v
    <3>1. CASE r \in table
      BY <1>0, <2>1, <2>5, <3>1 DEF GapFreeVersions
    <3>2. CASE r \in U /\ v > base[w]
      <4>1. v \in (base[w] + 1)..(base[w] + n)
        <5>1. r.ver \in (base[w] + 1)..(base[w] + n)
          BY <2>3, <3>2
        <5>. QED
          BY <2>2, <2>5, <3>2, <5>1
      <4>. QED
        BY <2>1, <2>3, <2>5, <3>2, <4>1
    <3>3. CASE r \in U /\ ~(v > base[w])
      <4>0. r.ver \in Nat
        BY <2>2, <3>3 DEF Row
      <4>1. base[w] # 0 /\ v \in 1..base[w]
        BY <2>2, <2>5, <3>3, <4>0
      <4>2. PICK p \in table : p.agg = agg[w] /\ p.ver = base[w]
        BY <2>3, <4>1
      <4>3. a = agg[w]
        BY <2>3, <2>5, <3>3
      <4>. QED
        BY <1>0, <2>1, <4>1, <4>2, <4>3 DEF GapFreeVersions
    <3>. QED
      BY <2>1, <3>1, <3>2, <3>3
  <2>. QED
    BY <2>4, <2>5 DEF GapFreeVersions
<1>. QED
  BY <1>1, <1>2

LEMMA BatchesWriterStep ==
  ASSUME IInv, NEW w \in Writers, AnyWriterStep(w)
  PROVE  BatchesAreAtomic'
<1>. USE DEF dbVars, writerVars, streamVars
<1>0. TypeOK /\ RetryInv /\ BatchesAreAtomic /\ RowsInv
  BY DEF IInv
<1>1. TypeOK' /\ IdsInv' /\ GapFreeVersions'
  BY TypeWriterStep, IdsWriterStep, GapFreeWriterStep
<1>2. acked \subseteq acked' /\ acked' \subseteq acked \cup {<<w, saves[w]>>}
  BY DEF AnyWriterStep, WriterStep, LoadAggregate, AcquireLock, CheckVersion,
         Conflict, InsertRow, InsertRefused, TransactionFails, RetrySave, GiveUp,
         CommitTx, CommitAnswerLost
<1>3. ASSUME NEW v \in Writers, NEW b \in 1..MaxSaves, NEW q \in RowsOf(v, b)',
             NEW r \in RowsOf(v, b)', q.agg = r.agg, q.ver = r.ver
      PROVE  q = r
  <2>1. q \in table' /\ r \in table'
    BY DEF RowsOf
  <2>2. q \in Row /\ r \in Row
    BY <1>1, <2>1 DEF TypeOK
  <2>3. /\ q.agg \in Aggregates
        /\ q.id \in Nat /\ r.id \in Nat /\ q.ver \in Nat /\ r.ver \in Nat
    BY <2>2 DEF Row
  <2>4. (q.id < r.id <=> q.ver < r.ver) /\ (r.id < q.id <=> r.ver < q.ver)
    BY <1>1, <1>3, <2>1, <2>3 DEF GapFreeVersions
  <2>5. q.id = r.id
    BY <1>3, <2>3, <2>4
  <2>. QED
    BY <1>1, <2>1, <2>5 DEF IdsInv, CommittedOrNot, InFlight
<1>. DEFINE Good(v, b) ==
       /\ <<v, b>> \in acked => RowsOf(v, b) # {}
       /\ RowsOf(v, b) # {} =>
            /\ b = saves[v] => Cardinality(RowsOf(v, b)) = size[v]
            /\ Cardinality(RowsOf(v, b)) <= MaxBatch
            /\ \A q, r \in RowsOf(v, b) : q.agg = r.agg
<1>. SUFFICES ASSUME NEW v \in Writers, NEW b \in 1..MaxSaves
              PROVE  Good(v, b)'
  <2>. SUFFICES ASSUME NEW v \in Writers, NEW b \in 1..MaxSaves
                PROVE  (/\ <<v, b>> \in acked => RowsOf(v, b) # {}
                        /\ RowsOf(v, b) # {} =>
                             /\ b = saves[v] => Cardinality(RowsOf(v, b)) = size[v]
                             /\ Cardinality(RowsOf(v, b)) <= MaxBatch
                             /\ \A q, r \in RowsOf(v, b) :
                                  /\ q.agg = r.agg
                                  /\ q.ver = r.ver => q = r)'
    BY DEF BatchesAreAtomic
  <2>1. \A q, r \in RowsOf(v, b)' : q.agg = r.agg /\ q.ver = r.ver => q = r
    BY <1>3
  <2>2. Good(v, b)'
    OBVIOUS
  <2>. QED
    BY <2>1, <2>2
<1>4. Good(v, b)
  BY <1>0 DEF BatchesAreAtomic
<1>5. CASE Commits(w) /\ v = w /\ b = saves[w]
  <2>1. /\ wpc[w] = "inserting" /\ Cardinality(uncommitted[w]) = size[w]
        /\ table' = table \cup uncommitted[w]
    BY <1>5, OnlyCommitsTouchTheTable
  <2>2. UNCHANGED <<saves, size>>
    BY <1>5 DEF Commits, CommitTx, CommitAnswerLost
  <2>3. RowsOf(w, saves[w]) = {} /\ size[w] > 0
    BY <1>0, <2>1 DEF RetryInv
  <2>4. \A r \in uncommitted[w] : r.by = w /\ r.batch = saves[w] /\ r.agg = agg[w]
    BY DEF IInv, TransactionInv, OpenRows
  <2>5. RowsOf(v, b)' = uncommitted[w]
    BY <1>5, <2>1, <2>2, <2>3, <2>4 DEF RowsOf
  <2>6. size[w] \in 0..MaxBatch /\ MaxBatch \in Nat
    BY <1>0, PgBoundsAssumption DEF TypeOK
  <2>7. uncommitted[w] # {}
    BY <2>1, <2>3, <2>6, FS_EmptySet
  <2>. QED
    BY <1>5, <2>1, <2>2, <2>4, <2>5, <2>6, <2>7
<1>6. CASE ~(Commits(w) /\ v = w /\ b = saves[w])
  <2>1. \A r \in uncommitted[w] : r.by = w /\ r.batch = saves[w]
    BY DEF IInv, TransactionInv, OpenRows
  <2>2. RowsOf(v, b)' = RowsOf(v, b)
    BY <1>6, <2>1, OnlyCommitsTouchTheTable DEF RowsOf
  <2>3. CASE LoadAggregate(w) /\ v = w
    <3>1. saves'[w] = saves[w] + 1 /\ UNCHANGED acked
      BY <1>0, <2>3 DEF LoadAggregate, TypeOK
    <3>2. b = saves'[w] => RowsOf(w, b) = {}
      <4>1. \A r \in table : r.by = w => r.batch \in 1..saves[w]
        BY <1>0 DEF RetryInv
      <4>2. saves[w] \in Nat
        BY <1>0, PgBoundsAssumption DEF TypeOK
      <4>. QED
        BY <3>1, <4>1, <4>2 DEF RowsOf
    <3>. QED
      BY <1>4, <2>2, <2>3, <3>1, <3>2
  <2>4. CASE ~(LoadAggregate(w) /\ v = w)
    <3>1. UNCHANGED <<saves[v], size[v]>>
      BY <2>4, OnlyCommitsTouchTheTable
         DEF AnyWriterStep, WriterStep, AcquireLock, CheckVersion, Conflict,
             InsertRow, InsertRefused, TransactionFails, RetrySave, GiveUp,
             CommitTx, CommitAnswerLost
    <3>2. <<v, b>> \in acked' => <<v, b>> \in acked
      <4>1. CASE CommitTx(w)
        BY <1>2, <1>6, <4>1 DEF Commits
      <4>2. CASE ~CommitTx(w)
        BY <4>2 DEF AnyWriterStep, WriterStep, LoadAggregate, AcquireLock,
                    CheckVersion, Conflict, InsertRow, InsertRefused,
                    TransactionFails, RetrySave, GiveUp, CommitAnswerLost
      <4>. QED
        BY <4>1, <4>2
    <3>. QED
      BY <1>4, <2>2, <3>1, <3>2
  <2>. QED
    BY <2>3, <2>4
<1>. QED
  BY <1>5, <1>6

-----------------------------------------------------------------------------
(* The streams' side of the invariant.                                      *)

(* A row that COMMIT adds has an id no committed row has, and one beyond    *)
(* every committed row of its own aggregate.                                *)
LEMMA CommittedRowsAreNew ==
  ASSUME IInv, NEW w \in Writers, AnyWriterStep(w),
         NEW r \in table', r \notin table, NEW q \in table
  PROVE  /\ q.id # r.id
         /\ q.agg = r.agg => q.id < r.id
<1>1. r \in uncommitted[w]
  BY OnlyCommitsTouchTheTable
<1>2. r \in CommittedOrNot /\ q \in CommittedOrNot
  BY <1>1 DEF CommittedOrNot, InFlight
<1>3. OpenRows(w)
  BY DEF IInv, TransactionInv
<1>. QED
  BY <1>1, <1>2, <1>3 DEF IInv, IdsInv, OpenRows

(* What a step of a writer may add to the rows, committed or not.           *)
LEMMA OnlyInsertsAddRows ==
  ASSUME IInv, NEW w \in Writers, AnyWriterStep(w)
  PROVE  /\ \A r \in CommittedOrNot' : r \in CommittedOrNot \/ r.id = seq + 1
         /\ seq \in Nat /\ seq' \in Nat /\ seq <= seq'
<1>. USE DEF dbVars, writerVars, streamVars, EndTransaction
<1>0. uncommitted \in [Writers -> SUBSET Row] /\ seq \in Nat
  BY DEF IInv, TypeOK, RowsInv
<1>1. CASE InsertRow(w)
  <2>. DEFINE r == [id |-> seq + 1, tenant |-> StampedTenant(w), agg |-> agg[w],
                    ver |-> NextVersion(w), by |-> w, batch |-> saves[w]]
  <2>1. /\ table' = table /\ seq' = seq + 1
        /\ uncommitted' = [uncommitted EXCEPT ![w] = @ \cup {r}]
    BY <1>1 DEF InsertRow
  <2>2. r.id = seq + 1
    OBVIOUS
  <2>. HIDE DEF r
  <2>. QED
    BY <1>0, <2>1, <2>2 DEF CommittedOrNot, InFlight
<1>2. CASE Conflict(w) \/ InsertRefused(w) \/ Commits(w) \/ TransactionFails(w)
  BY <1>0, <1>2
     DEF CommittedOrNot, InFlight, Conflict, InsertRefused, Commits, CommitTx,
         CommitAnswerLost, TransactionFails
<1>3. CASE LoadAggregate(w) \/ AcquireLock(w) \/ CheckVersion(w)
           \/ RetrySave(w) \/ GiveUp(w)
  BY <1>0, <1>3 DEF CommittedOrNot, InFlight, LoadAggregate, AcquireLock,
                    CheckVersion, RetrySave, GiveUp
<1>. QED
  BY <1>1, <1>2, <1>3 DEF AnyWriterStep, WriterStep, Commits

LEMMA StreamsWriterStep ==
  ASSUME IInv, NEW w \in Writers, AnyWriterStep(w)
  PROVE  CursorInv' /\ OvertookInv' /\ PassedInv'
<1>1. UNCHANGED streamVars /\ table \subseteq table'
  BY OnlyCommitsTouchTheTable
<1>. USE <1>1 DEF streamVars
<1>2. TypeOK /\ IdsInv /\ CursorInv /\ OvertookInv /\ PassedInv
  BY DEF IInv
<1>3. \A s, i : Visible(s, i) => Visible(s, i)'
  BY DEF Visible, InScope
<1>4. CursorInv'
  BY <1>2, <1>3 DEF CursorInv
<1>5. table \subseteq CommittedOrNot
  BY DEF CommittedOrNot
<1>6. ASSUME NEW i, NEW q \in table, q.id = i
      PROVE  i \in Nat /\ i <= seq
  BY <1>2, <1>5, <1>6 DEF IdsInv, TypeOK
<1>7. ASSUME NEW s \in Streams
      PROVE  lastID[s] \in Nat /\ lastID[s] <= seq
  <2>1. lastID[s] \in Nat /\ seq \in Nat
    BY <1>2 DEF TypeOK
  <2>2. lastID[s] # 0 => \E q \in table : q.id = lastID[s]
    BY <1>2 DEF CursorInv, Visible
  <2>. QED
    BY <1>6, <2>1, <2>2
<1>8. \A s \in Streams : \A i \in fetched[s] : i \in Nat /\ i <= seq
  BY <1>2, <1>6 DEF CursorInv, Visible
<1>9. OvertookInv'
  <2>. SUFFICES ASSUME NEW s \in Streams
                PROVE  /\ \A p \in overtook[s] :
                            p[1] \in 1..seq' /\ \E q \in table' : q.id = p[2]
                       /\ \A r \in CommittedOrNot', q \in table' :
                            <<r.id, q.id>> \in overtook[s] => q.agg # r.agg
                       /\ \A i \in fetched[s], r \in CommittedOrNot' :
                            /\ lastID[s] < r.id /\ r.id < i
                            /\ r.id \notin fetched[s]
                            /\ InScope(ScopeOfStream[s], r)
                            => <<r.id, i>> \in overtook[s]
    BY DEF OvertookInv, InScope
  <2>1. \A p \in overtook[s] : p[1] \in 1..seq /\ \E q \in table : q.id = p[2]
    BY <1>2 DEF OvertookInv
  <2>2. \A p \in overtook[s] : p[1] \in 1..seq' /\ \E q \in table' : q.id = p[2]
    BY <2>1, OnlyInsertsAddRows
  <2>3. ASSUME NEW r \in CommittedOrNot', NEW q \in table',
               <<r.id, q.id>> \in overtook[s]
        PROVE  q.agg # r.agg
    <3>1. r.id \in 1..seq /\ \E p \in table : p.id = q.id
      BY <2>1, <2>3
    <3>2. r \in CommittedOrNot
      BY <3>1, OnlyInsertsAddRows
    <3>3. q \in table
      BY <3>1, CommittedRowsAreNew
    <3>. QED
      BY <1>2, <2>3, <3>2, <3>3 DEF OvertookInv
  <2>4. ASSUME NEW i \in fetched[s], NEW r \in CommittedOrNot',
               lastID[s] < r.id, r.id < i, r.id \notin fetched[s],
               InScope(ScopeOfStream[s], r)
        PROVE  <<r.id, i>> \in overtook[s]
    <3>1. i \in Nat /\ i <= seq
      BY <1>8
    <3>2. r \in CommittedOrNot
      BY <2>4, <3>1, OnlyInsertsAddRows
    <3>. QED
      BY <1>2, <2>4, <3>2 DEF OvertookInv
  <2>. QED
    BY <2>2, <2>3, <2>4
<1>10. PassedInv'
  <2>. SUFFICES ASSUME NEW s \in Streams, NEW r \in CommittedOrNot',
                       r.id <= lastID[s], InScope(ScopeOfStream[s], r)
                PROVE  \/ Delivered(s, r)
                       \/ \E q \in table : /\ <<r.id, q.id>> \in overtook[s]
                                           /\ Delivered(s, q)
    BY DEF PassedInv, InScope, Delivered
  <2>1. r \in CommittedOrNot
    BY <1>7, OnlyInsertsAddRows
  <2>. QED
    BY <1>2, <2>1 DEF PassedInv
<1>. QED
  BY <1>4, <1>9, <1>10

LEMMA StreamsStreamStep ==
  ASSUME IInv, NEW s \in Streams, StreamStep(s)
  PROVE  CursorInv' /\ OvertookInv' /\ PassedInv'
<1>0. TypeOK /\ IdsInv /\ TransactionInv /\ CursorInv /\ OvertookInv /\ PassedInv
  BY DEF IInv
<1>1. table' = table /\ seq' = seq /\ uncommitted' = uncommitted
  BY DEF StreamStep, Open, Fetch, Deliver, StreamEnds, dbVars
<1>2. \A t, i : Visible(t, i)' <=> Visible(t, i)
  BY <1>1 DEF Visible, InScope
<1>9. CommittedOrNot' = CommittedOrNot
  BY <1>1 DEF CommittedOrNot, InFlight
<1>10. \A r \in CommittedOrNot : r.id \in Nat
  BY <1>0 DEF TypeOK, IdsInv
<1>3. CASE Open(s) \/ StreamEnds(s)
  <2>1. /\ UNCHANGED <<lastID, got, overtook>>
        /\ \A t \in Streams : fetched'[t] = fetched[t] \/ fetched'[t] = {}
    BY <1>0, <1>3 DEF Open, StreamEnds, TypeOK
  <2>2. CursorInv'
    BY <1>0, <1>2, <2>1 DEF CursorInv
  <2>3. OvertookInv'
    BY <1>0, <1>1, <1>9, <2>1 DEF OvertookInv, InScope
  <2>4. PassedInv'
    BY <1>0, <1>1, <1>9, <2>1 DEF PassedInv, InScope, Delivered
  <2>. QED
    BY <2>2, <2>3, <2>4
<1>4. CASE Fetch(s)
  <2>. DEFINE L == Lowest(BeyondCursor(s), FetchLimit)
  <2>0. BeyondCursor(s) \in SUBSET Nat
    BY <1>0 DEF BeyondCursor, Row, TypeOK
  <2>1. /\ L \subseteq BeyondCursor(s)
        /\ \A i \in L : \A j \in BeyondCursor(s) : j < i => j \in L
    BY <2>0, LowestIds, PgBoundsAssumption
  <2>2. /\ UNCHANGED <<lastID, got>>
        /\ fetched' = [fetched EXCEPT ![s] = L]
        /\ overtook' = [overtook EXCEPT ![s] = @ \cup OpenBelow(L)]
    BY <1>4 DEF Fetch
  <2>3. \A i : i \in BeyondCursor(s) => i > lastID[s] /\ Visible(s, i)
    BY DEF BeyondCursor, Visible
  <2>4. \A r \in table : lastID[s] < r.id /\ InScope(ScopeOfStream[s], r)
                           => r.id \in BeyondCursor(s)
    <3>1. lastID[s] \in Nat /\ \A r \in table : r.id \in Nat
      BY <1>0 DEF TypeOK, Row
    <3>. QED
      BY <3>1 DEF BeyondCursor
  <2>. HIDE DEF L
  <2>5. CursorInv'
    BY <1>0, <1>2, <2>1, <2>2, <2>3 DEF CursorInv, TypeOK
  <2>6. /\ overtook'[s] = overtook[s] \cup OpenBelow(L) /\ fetched'[s] = L
        /\ \A t \in Streams \ {s} : UNCHANGED <<overtook[t], fetched[t]>>
    BY <1>0, <2>2 DEF TypeOK
  <2>7. ASSUME NEW p \in OpenBelow(L)
        PROVE  /\ p[2] \in L /\ p[1] < p[2]
               /\ \E w \in Writers : \E r \in uncommitted[w] : r.id = p[1]
    BY DEF OpenBelow, InFlight
  <2>8. \A w \in Writers : \A r \in uncommitted[w] : \A i \in L :
          r.id < i => <<r.id, i>> \in OpenBelow(L)
    BY DEF OpenBelow, InFlight
  <2>9. ASSUME NEW p \in overtook'[s]
        PROVE  p[1] \in 1..seq /\ \E q \in table : q.id = p[2]
    <3>1. CASE p \in overtook[s]
      BY <1>0, <3>1 DEF OvertookInv
    <3>2. CASE p \in OpenBelow(L)
      <4>0. PICK w \in Writers : \E r \in uncommitted[w] : r.id = p[1]
        BY <2>7, <3>2
      <4>1. PICK r \in uncommitted[w] : r.id = p[1]
        BY <4>0
      <4>2. r \in CommittedOrNot
        BY <4>1 DEF CommittedOrNot, InFlight
      <4>3. Visible(s, p[2])
        BY <2>1, <2>3, <2>7, <3>2
      <4>. QED
        BY <1>0, <4>1, <4>2, <4>3 DEF IdsInv, Visible
    <3>. QED
      BY <2>6, <3>1, <3>2
  <2>10. ASSUME NEW r \in CommittedOrNot, NEW q \in table,
                <<r.id, q.id>> \in overtook'[s]
         PROVE  q.agg # r.agg
    <3>1. CASE <<r.id, q.id>> \in overtook[s]
      BY <1>0, <3>1 DEF OvertookInv
    <3>2. CASE <<r.id, q.id>> \in OpenBelow(L)
      <4>0. PICK w \in Writers : \E x \in uncommitted[w] : x.id = r.id
        BY <2>7, <3>2
      <4>1. PICK x \in uncommitted[w] : x.id = r.id
        BY <4>0
      <4>2. x = r
        BY <1>0, <4>1 DEF IdsInv, CommittedOrNot, InFlight
      <4>3. r.id < q.id
        BY <2>7, <3>2
      <4>4. r.agg = agg[w] /\ (q.agg = agg[w] => q.id < r.id)
        BY <1>0, <4>1, <4>2 DEF TransactionInv, OpenRows
      <4>5. r.id \in Nat /\ q.id \in Nat
        BY <1>10 DEF CommittedOrNot
      <4>. QED
        BY <4>3, <4>4, <4>5
    <3>. QED
      BY <2>6, <2>10, <3>1, <3>2
  <2>11. ASSUME NEW i \in L, NEW r \in CommittedOrNot, lastID[s] < r.id,
                r.id < i, r.id \notin L, InScope(ScopeOfStream[s], r)
         PROVE  <<r.id, i>> \in overtook'[s]
    <3>1. r \notin table
      BY <2>1, <2>4, <2>11
    <3>2. PICK w \in Writers : r \in uncommitted[w]
      BY <3>1 DEF CommittedOrNot, InFlight
    <3>. QED
      BY <2>6, <2>8, <2>11, <3>2
  <2>12. OvertookInv'
    <3>. SUFFICES ASSUME NEW t \in Streams
                  PROVE  /\ \A p \in overtook'[t] :
                              p[1] \in 1..seq /\ \E q \in table : q.id = p[2]
                         /\ \A r \in CommittedOrNot, q \in table :
                              <<r.id, q.id>> \in overtook'[t] => q.agg # r.agg
                         /\ \A i \in fetched'[t], r \in CommittedOrNot :
                              /\ lastID[t] < r.id /\ r.id < i
                              /\ r.id \notin fetched'[t]
                              /\ InScope(ScopeOfStream[t], r)
                              => <<r.id, i>> \in overtook'[t]
      BY <1>1, <1>9, <2>2 DEF OvertookInv, InScope
    <3>1. CASE t = s
      BY <2>6, <2>9, <2>10, <2>11, <3>1
    <3>2. CASE t # s
      BY <1>0, <2>6, <3>2 DEF OvertookInv
    <3>. QED
      BY <3>1, <3>2
  <2>13. PassedInv'
    <3>1. \A t \in Streams : overtook[t] \subseteq overtook'[t]
      BY <2>6
    <3>. QED
      BY <1>0, <1>1, <1>9, <2>2, <3>1 DEF PassedInv, InScope, Delivered
  <2>. QED
    BY <2>5, <2>12, <2>13
<1>5. CASE Deliver(s)
  <2>1. PICK i \in fetched[s] :
          /\ \A j \in fetched[s] : i <= j
          /\ got' = [got EXCEPT ![s] = Append(@, i)]
          /\ lastID' = [lastID EXCEPT ![s] = i]
          /\ fetched' = [fetched EXCEPT ![s] = @ \ {i}]
    BY <1>5 DEF Deliver, CursorAfter
  <2>2. /\ i \in Nat /\ i > lastID[s] /\ lastID[s] \in Nat
        /\ fetched[s] \subseteq Nat /\ got[s] \in Seq(Nat)
        /\ Visible(s, i)
    BY <1>0 DEF TypeOK, CursorInv
  <2>3. /\ got'[s] = Append(got[s], i) /\ lastID'[s] = i
        /\ fetched'[s] = fetched[s] \ {i}
        /\ \A t \in Streams \ {s} : UNCHANGED <<got[t], lastID[t], fetched[t]>>
    BY <1>0, <2>1 DEF TypeOK
  <2>4. /\ DOMAIN got[s] = 1..Len(got[s]) /\ Len(got[s]) \in Nat
        /\ DOMAIN got'[s] = 1..(Len(got[s]) + 1)
        /\ got'[s][Len(got[s]) + 1] = i
        /\ \A k \in DOMAIN got[s] : got'[s][k] = got[s][k] /\ got[s][k] \in Nat
    BY <2>2, <2>3
  <2>5. CursorInv'
    <3>1. \A j \in fetched'[s] : j > lastID'[s] /\ Visible(s, j)
      BY <1>0, <1>2, <2>1, <2>2, <2>3 DEF CursorInv
    <3>2. \A k \in DOMAIN got'[s] :
            /\ got'[s][k] <= lastID'[s] /\ Visible(s, got'[s][k])
            /\ \A j \in 1..(k - 1) : got'[s][j] < got'[s][k]
      <4>. TAKE k \in DOMAIN got'[s]
      <4>1. \A j \in DOMAIN got[s] : got[s][j] <= lastID[s]
        BY <1>0 DEF CursorInv
      <4>2. CASE k = Len(got[s]) + 1
        <5>1. 1..(k - 1) = DOMAIN got[s] /\ got'[s][k] = i
          BY <2>4, <4>2
        <5>2. ASSUME NEW j \in DOMAIN got[s] PROVE got'[s][j] < i
          <6>1. got'[s][j] = got[s][j] /\ got[s][j] \in Nat /\ got[s][j] <= lastID[s]
            BY <2>4, <4>1
          <6>. QED
            BY <2>2, <6>1
        <5>3. i <= lastID'[s] /\ Visible(s, i)
          BY <2>2, <2>3
        <5>. QED
          BY <5>1, <5>2, <5>3
      <4>3. CASE k \in DOMAIN got[s]
        <5>1. /\ got[s][k] <= lastID[s] /\ Visible(s, got[s][k])
              /\ \A j \in 1..(k - 1) : got[s][j] < got[s][k]
          BY <1>0, <4>3 DEF CursorInv
        <5>2. \A j \in 1..(k - 1) : j \in DOMAIN got[s]
          BY <2>4, <4>3
        <5>3. /\ got'[s][k] = got[s][k]
              /\ \A j \in 1..(k - 1) : got'[s][j] = got[s][j]
          BY <2>4, <4>3, <5>2
        <5>4. got[s][k] <= lastID'[s]
          <6>1. got[s][k] \in Nat
            BY <2>4, <4>3
          <6>. QED
            BY <2>2, <2>3, <5>1, <6>1
        <5>. QED
          BY <5>1, <5>3, <5>4
      <4>. QED
        BY <2>4, <4>2, <4>3
    <3>3. \E k \in DOMAIN got'[s] : got'[s][k] = lastID'[s]
      BY <2>3, <2>4
    <3>4. ASSUME NEW t \in Streams
          PROVE  /\ \A j \in fetched'[t] : j > lastID'[t] /\ Visible(t, j)
                 /\ \A k \in DOMAIN got'[t] :
                      /\ got'[t][k] <= lastID'[t] /\ Visible(t, got'[t][k])
                      /\ \A j \in 1..(k - 1) : got'[t][j] < got'[t][k]
                 /\ lastID'[t] # 0 => \E k \in DOMAIN got'[t] : got'[t][k] = lastID'[t]
      <4>1. CASE t = s
        BY <3>1, <3>2, <3>3, <4>1
      <4>2. CASE t # s
        BY <1>0, <2>3, <4>2 DEF CursorInv
      <4>. QED
        BY <4>1, <4>2
    <3>. QED
      BY <1>2, <3>4 DEF CursorInv
  <2>6. OvertookInv'
    <3>1. /\ overtook' = overtook
          /\ \A t \in Streams : lastID'[t] \in Nat /\ lastID[t] \in Nat
                                /\ lastID[t] <= lastID'[t]
      <4>1. overtook' = overtook /\ \A t \in Streams : lastID[t] \in Nat
        BY <1>0, <1>5 DEF Deliver, TypeOK
      <4>2. \A t \in Streams : lastID'[t] = IF t = s THEN i ELSE lastID[t]
        BY <2>3
      <4>. QED
        BY <2>2, <4>1, <4>2
    <3>2. ASSUME NEW t \in Streams, NEW j \in fetched'[t], NEW r \in CommittedOrNot,
                 lastID'[t] < r.id, r.id < j, r.id \notin fetched'[t]
          PROVE  j \in fetched[t] /\ r.id \notin fetched[t] /\ lastID[t] < r.id
      <4>1. lastID[t] < r.id
        BY <1>10, <3>1, <3>2
      <4>2. CASE t = s
        <5>1. j \in fetched[s] /\ r.id # i
          BY <1>10, <2>2, <2>3, <3>2, <4>2
        <5>. QED
          BY <2>3, <3>2, <4>1, <4>2, <5>1
      <4>3. CASE t # s
        BY <2>3, <3>2, <4>1, <4>3
      <4>. QED
        BY <4>2, <4>3
    <3>. QED
      BY <1>0, <1>1, <1>9, <3>1, <3>2 DEF OvertookInv, InScope
  <2>7. PassedInv'
    <3>0. overtook' = overtook
      BY <1>5 DEF Deliver
    <3>. SUFFICES ASSUME NEW t \in Streams, NEW r \in CommittedOrNot,
                         r.id <= lastID'[t], InScope(ScopeOfStream[t], r)
                  PROVE  \/ Delivered(t, r)'
                         \/ \E q \in table : /\ <<r.id, q.id>> \in overtook[t]
                                             /\ Delivered(t, q)'
      BY <1>1, <1>9, <3>0 DEF PassedInv, InScope, Delivered
    <3>1. \A q : Delivered(t, q) => Delivered(t, q)'
      BY <2>3, <2>4 DEF Delivered
    <3>2. CASE r.id <= lastID[t]
      BY <1>0, <3>1, <3>2 DEF PassedInv
    <3>3. CASE ~(r.id <= lastID[t])
      <4>0. t = s /\ r.id \in Nat /\ r.id <= i /\ lastID[s] < r.id
        BY <1>10, <2>2, <2>3, <3>3
      <4>1. CASE r.id = i
        BY <2>4, <4>0, <4>1 DEF Delivered
      <4>2. CASE r.id # i
        <5>1. PICK q \in table : q.id = i
          BY <2>2 DEF Visible
        <5>2. r.id < i /\ r.id \notin fetched[s]
          BY <2>1, <2>2, <4>0, <4>2
        <5>3. <<r.id, i>> \in overtook[s]
          BY <1>0, <4>0, <5>2 DEF OvertookInv
        <5>4. Delivered(s, q)'
          BY <2>4, <5>1 DEF Delivered
        <5>. QED
          BY <4>0, <5>1, <5>3, <5>4
      <4>. QED
        BY <4>1, <4>2
    <3>. QED
      BY <3>2, <3>3
  <2>. QED
    BY <2>5, <2>6, <2>7
<1>. QED
  BY <1>3, <1>4, <1>5 DEF StreamStep

-----------------------------------------------------------------------------
LEMMA InvStep == IInv /\ [Next]_vars => IInv'
<1>. SUFFICES ASSUME IInv, [Next]_vars PROVE IInv'
  OBVIOUS
<1>1. ASSUME NEW w \in Writers, AnyWriterStep(w) PROVE IInv'
  BY <1>1, TypeWriterStep, IdsWriterStep, LockWriterStep, TransactionWriterStep,
     RetryWriterStep, GapFreeWriterStep, BatchesWriterStep, StreamsWriterStep
     DEF IInv
<1>2. ASSUME NEW s \in Streams, StreamStep(s) PROVE IInv'
  <2>1. UNCHANGED <<dbVars, writerVars>>
    BY <1>2 DEF StreamStep, Open, Fetch, Deliver, StreamEnds
  <2>2. IdsInv' /\ LockInv' /\ GapFreeVersions'
    BY <2>1 DEF IInv, IdsInv, LockInv, GapFreeVersions, CommittedOrNot,
                InFlight, dbVars, writerVars
  <2>3. TransactionInv' /\ RetryInv' /\ BatchesAreAtomic'
    BY <2>1 DEF IInv, TransactionInv, OpenRows, RetryInv, BatchesAreAtomic,
                RowsOf, StampedTenant, dbVars, writerVars
  <2>. QED
    BY <1>2, <2>2, <2>3, TypeStreamStep, StreamsStreamStep DEF IInv
<1>3. CASE UNCHANGED vars
  <2>. USE <1>3 DEF vars, dbVars, writerVars, streamVars
  <2>1. TypeOK' /\ RowsInv'
    BY DEF IInv, TypeOK, RowsInv
  <2>2. IdsInv' /\ LockInv' /\ GapFreeVersions'
    BY DEF IInv, IdsInv, LockInv, GapFreeVersions, CommittedOrNot, InFlight
  <2>3. TransactionInv' /\ RetryInv' /\ BatchesAreAtomic'
    BY DEF IInv, TransactionInv, OpenRows, RetryInv, BatchesAreAtomic, RowsOf,
           StampedTenant
  <2>4. CommittedOrNot' = CommittedOrNot
    BY DEF CommittedOrNot, InFlight
  <2>5. CursorInv' /\ OvertookInv' /\ PassedInv'
    BY <2>4 DEF IInv, CursorInv, OvertookInv, PassedInv, Visible, InScope,
                Delivered
  <2>. QED
    BY <2>1, <2>2, <2>3, <2>5 DEF IInv
<1>. QED
  BY <1>1, <1>2, <1>3 DEF Next, AnyWriterStep, StreamStep

LEMMA Invariance == Spec => []IInv
BY InitInv, InvStep, PTL DEF Spec

-----------------------------------------------------------------------------
(* Every variable of the database, of its writers and of its streams keeps  *)
(* its type, and no query hands a stream more rows than its LIMIT.          *)
THEOREM TypeCorrect == Spec => []TypeOK
BY Invariance, PTL DEF IInv

(* However many writers of however many tenants race through Commit, roll   *)
(* back, lose their connection during COMMIT or try again: the committed    *)
(* versions of an aggregate are 1, 2, 3, ... in the order of the global     *)
(* ids.                                                                     *)
THEOREM NoVersionLostOrDoubled == Spec => []GapFreeVersions
BY Invariance, PTL DEF IInv

(* Whatever fails and however often a Save is tried again, a batch is       *)
(* stored not at all or once and whole, and an acknowledged one is stored.  *)
THEOREM CommitIsAtomic == Spec => []BatchesAreAtomic
BY Invariance, PTL DEF IInv

(* StreamAll misses an event only when its transaction was still open at    *)
(* the very fetch that brought an event with a higher id, which was then    *)
(* handed out; and the lock a transaction holds from before its version     *)
(* query until COMMIT makes that one an event of another aggregate.         *)
THEOREM SkippedOnlyWhenOvertaken == Spec => []OnlyOvertakenEventsAreSkipped
<1>1. IInv => OnlyOvertakenEventsAreSkipped
  <2>1. table \subseteq CommittedOrNot
    BY DEF CommittedOrNot
  <2>. QED
    BY <2>1 DEF IInv, OvertookInv, PassedInv, OnlyOvertakenEventsAreSkipped
<1>. QED
  BY <1>1, Invariance, PTL

(* StreamAll hands out committed events in its scope only, in global_id     *)
(* order and so each aggregate's events in version order.                   *)
THEOREM StreamsAreOrdered == Spec => []DeliveredInOrder
<1>1. IInv => DeliveredInOrder
  <2>. SUFFICES ASSUME IInv, NEW s \in Streams, NEW i \in DOMAIN got[s]
                PROVE  \E r \in table :
                         /\ r.id = got[s][i]
                         /\ InScope(ScopeOfStream[s], r)
                         /\ \A j \in 1..(i - 1) : \E q \in table :
                              /\ q.id = got[s][j]
                              /\ q.id < r.id
                              /\ q.agg = r.agg => q.ver < r.ver
    BY DEF DeliveredInOrder
  <2>1. CursorInv /\ GapFreeVersions /\ table \subseteq Row /\ got[s] \in Seq(Nat)
    BY DEF IInv, TypeOK
  <2>2. PICK r \in table : r.id = got[s][i] /\ InScope(ScopeOfStream[s], r)
    BY <2>1 DEF CursorInv, Visible
  <2>3. ASSUME NEW j \in 1..(i - 1)
        PROVE  \E q \in table : /\ q.id = got[s][j] /\ q.id < r.id
                                /\ q.agg = r.agg => q.ver < r.ver
    <3>1. j \in DOMAIN got[s] /\ got[s][j] < got[s][i]
      BY <2>1 DEF CursorInv
    <3>2. PICK q \in table : q.id = got[s][j]
      BY <2>1, <3>1 DEF CursorInv, Visible
    <3>3. r \in Row
      BY <2>1
    <3>. QED
      BY <2>1, <2>2, <3>1, <3>2, <3>3 DEF GapFreeVersions, Row
  <2>. QED
    BY <2>2, <2>3
<1>. QED
  BY <1>1, Invariance, PTL

=============================================================================
