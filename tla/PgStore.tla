------------------------------ MODULE PgStore -------------------------------
(***************************************************************************)
(* es/pgstore/eventstore.go: the EventStore on Postgres.                    *)
(*                                                                          *)
(* A Commit is a transaction: it waits for the advisory lock of its         *)
(* aggregate, compares versions, inserts its rows one statement at a time   *)
(* and commits.  Global ids come from a sequence, at insert time, outside   *)
(* any transaction; rows become visible to others at commit.  A transaction *)
(* may fail at any statement (context done, connection lost, server gone):  *)
(* its rows vanish, its lock is released, the ids it drew are never used.   *)
(* When the connection breaks during COMMIT itself the caller gets an error *)
(* although the rows are stored.                                            *)
(*                                                                          *)
(* StreamAll polls: it fetches up to a limit of rows beyond the cursor      *)
(* lastID, hands them out, and fetches again, woken by NOTIFY or a timer.   *)
(***************************************************************************)
EXTENDS Naturals, Sequences, FiniteSets

CONSTANTS
  Writers,        \* callers of Repository.Save
  Streams,        \* callers of EventStore.StreamAll
  Aggregates,     \* aggregate ids
  Tenants,        \* tenant ids, Global among them
  Global,         \* es.GlobalTenantID
  Unscoped,       \* no es.WithTenant: neither a tenant nor a filter
  ScopeOfWriter,  \* Writers -> Tenants \cup {Unscoped}
  ScopeOfStream,  \* Streams -> Tenants \cup {Unscoped}
  FetchLimit,     \* rows of one FetchAfter, 500 in the code
  MaxBatch,       \* bound: events of one Save
  MaxSaves,       \* bound: batches each writer records
  MaxFailures,    \* bound: transactions that fail
  Nobody          \* the advisory lock is free

ASSUME PgScopesAssumption ==
  /\ Global \in Tenants
  /\ Unscoped \notin Tenants
  /\ Aggregates # {}
  /\ ScopeOfWriter \in [Writers -> Tenants \cup {Unscoped}]
  /\ ScopeOfStream \in [Streams -> Tenants \cup {Unscoped}]
  /\ Nobody \notin Writers

ASSUME PgBoundsAssumption ==
  /\ FetchLimit \in Nat \ {0}
  /\ MaxBatch \in Nat \ {0}
  /\ MaxSaves \in Nat
  /\ MaxFailures \in Nat

VARIABLES
  table,          \* committed rows of events
  seq,            \* the BIGSERIAL's last value
  lock,           \* aggregate -> holder of pg_advisory_xact_lock
  uncommitted,    \* writer: rows its open transaction inserted
  wpc,            \* writer: "idle", "recorded", "locked", "inserting", "failed"
  agg,            \* writer: the aggregate it saves
  base,           \* writer: expectedVersion
  size,           \* writer: number of uncommitted events
  saves,          \* writer: batches recorded so far, naming the current one
  acked,          \* <<writer, batch>> pairs whose Save returned nil (history)
  failures,       \* transactions failed so far
  spc,            \* stream: "off", "open" or "ended"
  lastID,         \* stream: cursor
  fetched,        \* stream: ids fetched and not handed out yet
  got,            \* stream: ids its consumer received (history)
  overtook        \* stream: <<late, early>> ids: the row with id late was in an
                  \* open transaction when the stream fetched early (history)

dbVars     == <<table, seq, lock, uncommitted>>
writerVars == <<wpc, agg, base, size, saves, acked, failures>>
streamVars == <<spc, lastID, fetched, got, overtook>>
vars == <<dbVars, writerVars, streamVars>>

Row == [id : Nat, tenant : Tenants, agg : Aggregates, ver : Nat,
        by : Writers, batch : Nat]

-----------------------------------------------------------------------------
(* Queries.                                                                 *)

MaxVersion(rows) ==
  IF rows = {} THEN 0
  ELSE CHOOSE v \in {r.ver : r \in rows} : \A r \in rows : r.ver <= v

(* WHERE of Load, FetchAfter and FetchByPiiID: tenant_id IN (t, global).    *)
InScope(scope, r) == scope = Unscoped \/ r.tenant \in {scope, Global}

(* Load: the version LoadFromHistory leaves the aggregate at.               *)
LoadedVersion(scope, a) ==
  MaxVersion({r \in table : r.agg = a /\ InScope(scope, r)})

(* WHERE of Commit's version query: tenant_id = t, global rows left out.    *)
CurrentVersion(scope, a) ==
  MaxVersion({r \in table : r.agg = a /\ scope \in {Unscoped, r.tenant}})

InFlight == UNION {uncommitted[w] : w \in Writers}

CommittedOrNot == table \cup InFlight

(* Mutation: global_id >= $1.                                               *)
FromCursor(s) ==
  {r.id : r \in {x \in table :
                   x.id >= lastID[s] /\ InScope(ScopeOfStream[s], x)}}

(* FetchAfter without its LIMIT: the visible ids beyond the cursor.         *)
BeyondCursor(s) ==
  {r.id : r \in {x \in table :
                   x.id > lastID[s] /\ InScope(ScopeOfStream[s], x)}}

(* Mutation: no LIMIT.                                                      *)
Unlimited(ids, n) == ids

(* ORDER BY global_id ASC LIMIT n.                                          *)
Lowest(ids, n) == {i \in ids : Cardinality({j \in ids : j < i}) < n}

(* Rows of open transactions with an id below one that is fetched now.      *)
OpenBelow(ids) ==
  {p \in {r.id : r \in InFlight} \X ids : p[1] < p[2]}

-----------------------------------------------------------------------------
(* Writers.                                                                 *)

(* Repository.Load and RecordThat: a new batch on top of what was loaded.   *)
LoadAggregate(w) ==
  /\ wpc[w] = "idle"
  /\ saves[w] < MaxSaves
  /\ \E a \in Aggregates, n \in 1..MaxBatch :
       /\ agg' = [agg EXCEPT ![w] = a]
       /\ base' = [base EXCEPT ![w] = LoadedVersion(ScopeOfWriter[w], a)]
       /\ size' = [size EXCEPT ![w] = n]
  /\ saves' = [saves EXCEPT ![w] = @ + 1]
  /\ wpc' = [wpc EXCEPT ![w] = "recorded"]
  /\ UNCHANGED <<acked, failures, dbVars, streamVars>>

LockFree(w) == lock[agg[w]] = Nobody

(* BEGIN; SELECT pg_advisory_xact_lock(hashtext(aggregate_id)).             *)
AcquireLock(w) ==
  /\ wpc[w] = "recorded"
  /\ LockFree(w)
  /\ lock' = [lock EXCEPT ![agg[w]] = w]
  /\ wpc' = [wpc EXCEPT ![w] = "locked"]
  /\ UNCHANGED <<table, seq, uncommitted, agg, base, size, saves, acked,
                 failures, streamVars>>

VersionMatches(w) == CurrentVersion(ScopeOfWriter[w], agg[w]) = base[w]

(* The version query agrees with expectedVersion.                           *)
CheckVersion(w) ==
  /\ wpc[w] = "locked"
  /\ VersionMatches(w)
  /\ wpc' = [wpc EXCEPT ![w] = "inserting"]
  /\ UNCHANGED <<agg, base, size, saves, acked, failures, dbVars, streamVars>>

(* The end of w's transaction: its lock is released, it has no open rows.   *)
EndTransaction(w) ==
  /\ lock' = [lock EXCEPT ![agg[w]] = Nobody]
  /\ uncommitted' = [uncommitted EXCEPT ![w] = {}]

(* ErrConcurrencyConflict: rollback, and the caller starts over.            *)
Conflict(w) ==
  /\ wpc[w] = "locked"
  /\ ~VersionMatches(w)
  /\ EndTransaction(w)
  /\ wpc' = [wpc EXCEPT ![w] = "idle"]
  /\ UNCHANGED <<table, seq, agg, base, size, saves, acked, failures,
                 streamVars>>

NextVersion(w) == base[w] + Cardinality(uncommitted[w]) + 1

(* Mutation: no UNIQUE constraint.                                          *)
NeverTaken(w) == FALSE
(* UNIQUE (aggregate_id, aggregate_version), whatever the tenant.           *)
VersionTaken(w) ==
  \E r \in CommittedOrNot : r.agg = agg[w] /\ r.ver = NextVersion(w)

(* The tenant of a stored row: stamped from the scope, or the nil UUID.     *)
StampedTenant(w) == IF ScopeOfWriter[w] = Unscoped THEN Global
                                                   ELSE ScopeOfWriter[w]

InsertRow(w) ==
  /\ wpc[w] = "inserting"
  /\ Cardinality(uncommitted[w]) < size[w]
  /\ ~VersionTaken(w)
  /\ seq' = seq + 1
  /\ uncommitted' = [uncommitted EXCEPT ![w] = @ \cup
       {[id |-> seq + 1, tenant |-> StampedTenant(w), agg |-> agg[w],
         ver |-> NextVersion(w), by |-> w, batch |-> saves[w]]}]
  /\ UNCHANGED <<table, lock, writerVars, streamVars>>

(* The insert fails on the constraint; rollback, an error that is not       *)
(* ErrConcurrencyConflict.                                                  *)
InsertRefused(w) ==
  /\ wpc[w] = "inserting"
  /\ Cardinality(uncommitted[w]) < size[w]
  /\ VersionTaken(w)
  /\ EndTransaction(w)
  /\ wpc' = [wpc EXCEPT ![w] = "failed"]
  /\ seq' = seq + 1
  /\ failures < MaxFailures
  /\ failures' = failures + 1
  /\ UNCHANGED <<table, agg, base, size, saves, acked, streamVars>>

(* Mutation: COMMIT before the last insert.                                 *)
CommitsEarly(w) == uncommitted[w] # {}
AllInserted(w) == Cardinality(uncommitted[w]) = size[w]

(* tx.Commit returns nil.                                                   *)
CommitTx(w) ==
  /\ wpc[w] = "inserting"
  /\ AllInserted(w)
  /\ table' = table \cup uncommitted[w]
  /\ EndTransaction(w)
  /\ acked' = acked \cup {<<w, saves[w]>>}
  /\ wpc' = [wpc EXCEPT ![w] = "idle"]
  /\ UNCHANGED <<seq, agg, base, size, saves, failures, streamVars>>

(* COMMIT was executed, its answer was lost: tx.Commit returns an error.    *)
CommitAnswerLost(w) ==
  /\ wpc[w] = "inserting"
  /\ AllInserted(w)
  /\ failures < MaxFailures
  /\ failures' = failures + 1
  /\ table' = table \cup uncommitted[w]
  /\ EndTransaction(w)
  /\ wpc' = [wpc EXCEPT ![w] = "failed"]
  /\ UNCHANGED <<seq, agg, base, size, saves, acked, streamVars>>

(* Any statement fails and the deferred Rollback, or the server, undoes the *)
(* transaction.  A failure before the lock is granted changes nothing.      *)
TransactionFails(w) ==
  /\ wpc[w] \in {"locked", "inserting"}
  /\ failures < MaxFailures
  /\ failures' = failures + 1
  /\ EndTransaction(w)
  /\ wpc' = [wpc EXCEPT ![w] = "failed"]
  /\ UNCHANGED <<table, seq, agg, base, size, saves, acked, streamVars>>

(* Save failed and kept the aggregate's buffer: the caller saves again the  *)
(* same events with the same expected version ...                           *)
RetrySave(w) ==
  /\ wpc[w] = "failed"
  /\ wpc' = [wpc EXCEPT ![w] = "recorded"]
  /\ UNCHANGED <<agg, base, size, saves, acked, failures, dbVars, streamVars>>

(* ... or drops the aggregate.                                              *)
GiveUp(w) ==
  /\ wpc[w] = "failed"
  /\ wpc' = [wpc EXCEPT ![w] = "idle"]
  /\ UNCHANGED <<agg, base, size, saves, acked, failures, dbVars, streamVars>>

-----------------------------------------------------------------------------
(* Streams.                                                                 *)

Open(s) ==
  /\ spc[s] = "off"
  /\ spc' = [spc EXCEPT ![s] = "open"]
  /\ UNCHANGED <<lastID, fetched, got, overtook, dbVars, writerVars>>

(* One FetchAfter of drain: at the start, when the last one is handed out,  *)
(* on a notification, or when PollInterval has passed.                      *)
Fetch(s) ==
  /\ spc[s] = "open"
  /\ fetched[s] = {}
  /\ BeyondCursor(s) # {}
  /\ LET ids == Lowest(BeyondCursor(s), FetchLimit) IN
       /\ fetched' = [fetched EXCEPT ![s] = ids]
       /\ overtook' = [overtook EXCEPT ![s] = @ \cup OpenBelow(ids)]
  /\ UNCHANGED <<spc, lastID, got, dbVars, writerVars>>

(* Mutation: the cursor moves to the end of what was fetched.               *)
CursorOfBatch(s, i) == CHOOSE m \in fetched[s] : \A j \in fetched[s] : j <= m
CursorAfter(s, i) == i

(* out <- e, lastID = e.GlobalID.                                           *)
Deliver(s) ==
  /\ spc[s] = "open"
  /\ \E i \in fetched[s] :
       /\ \A j \in fetched[s] : i <= j
       /\ got' = [got EXCEPT ![s] = Append(@, i)]
       /\ lastID' = [lastID EXCEPT ![s] = CursorAfter(s, i)]
       /\ fetched' = [fetched EXCEPT ![s] = @ \ {i}]
  /\ UNCHANGED <<spc, overtook, dbVars, writerVars>>

(* ctx is done, or a query failed and the error went to errc.               *)
StreamEnds(s) ==
  /\ spc[s] = "open"
  /\ spc' = [spc EXCEPT ![s] = "ended"]
  /\ fetched' = [fetched EXCEPT ![s] = {}]
  /\ UNCHANGED <<lastID, got, overtook, dbVars, writerVars>>

-----------------------------------------------------------------------------
Init ==
  /\ table = {}
  /\ seq = 0
  /\ lock = [a \in Aggregates |-> Nobody]
  /\ uncommitted = [w \in Writers |-> {}]
  /\ wpc = [w \in Writers |-> "idle"]
  /\ agg = [w \in Writers |-> CHOOSE a \in Aggregates : TRUE]
  /\ base = [w \in Writers |-> 0]
  /\ size = [w \in Writers |-> 0]
  /\ saves = [w \in Writers |-> 0]
  /\ acked = {}
  /\ failures = 0
  /\ spc = [s \in Streams |-> "off"]
  /\ lastID = [s \in Streams |-> 0]
  /\ fetched = [s \in Streams |-> {}]
  /\ got = [s \in Streams |-> <<>>]
  /\ overtook = [s \in Streams |-> {}]

(* The steps of a writer whose transaction does not fail.                   *)
WriterStep(w) ==
  \/ LoadAggregate(w)
  \/ AcquireLock(w)
  \/ CheckVersion(w)
  \/ Conflict(w)
  \/ InsertRow(w)
  \/ CommitTx(w)

Next ==
  \/ \E w \in Writers : WriterStep(w)
  \/ \E w \in Writers : InsertRefused(w)
  \/ \E w \in Writers : CommitAnswerLost(w)
  \/ \E w \in Writers : TransactionFails(w)
  \/ \E w \in Writers : RetrySave(w)
  \/ \E w \in Writers : GiveUp(w)
  \/ \E s \in Streams : Open(s)
  \/ \E s \in Streams : Fetch(s)
  \/ \E s \in Streams : Deliver(s)
  \/ \E s \in Streams : StreamEnds(s)

Spec == Init /\ [][Next]_vars

(* Transactions make progress, PollInterval keeps passing and the consumer  *)
(* keeps receiving.  Nobody is obliged to open a stream or to retry.        *)
FairSpec ==
  /\ Spec
  /\ \A w \in Writers : WF_vars(WriterStep(w))
  /\ \A s \in Streams : WF_vars(Fetch(s)) /\ WF_vars(Deliver(s))

-----------------------------------------------------------------------------
(* Properties.                                                              *)

(* Every variable has its type.                                             *)
TypeOK ==
  /\ table \subseteq Row
  /\ seq \in Nat
  /\ lock \in [Aggregates -> Writers \cup {Nobody}]
  /\ \A w \in Writers : uncommitted[w] \subseteq Row
  /\ wpc \in [Writers ->
                {"idle", "recorded", "locked", "inserting", "failed"}]
  /\ agg \in [Writers -> Aggregates]
  /\ base \in [Writers -> Nat]
  /\ size \in [Writers -> 0..MaxBatch]
  /\ saves \in [Writers -> 0..MaxSaves]
  /\ acked \subseteq Writers \X (1..MaxSaves)
  /\ failures \in 0..MaxFailures
  /\ spc \in [Streams -> {"off", "open", "ended"}]
  /\ lastID \in [Streams -> Nat]
  /\ fetched \in [Streams -> SUBSET Nat]
  /\ \A s \in Streams : Cardinality(fetched[s]) <= FetchLimit
  /\ got \in [Streams -> Seq(Nat)]
  /\ overtook \in [Streams -> SUBSET (Nat \X Nat)]

(* The committed versions of an aggregate are 1..n with no gap and no       *)
(* double, in global_id order, whatever races, rolls back or crashes, and   *)
(* whichever tenants' writers are involved.                                 *)
GapFreeVersions ==
  \A a \in Aggregates : LET rows == {r \in table : r.agg = a} IN
    /\ \A q, r \in rows : q.id < r.id <=> q.ver < r.ver
    /\ \A r \in rows : \A v \in 1..r.ver : \E q \in rows : q.ver = v

RowsOf(w, b) == {r \in table : r.by = w /\ r.batch = b}

(* Commit is all or nothing, and Save may be retried: however often a batch *)
(* is saved again after an error, also one whose COMMIT had gone through,   *)
(* it is stored not at all or once and whole; acknowledged means stored.    *)
BatchesAreAtomic ==
  \A w \in Writers, b \in 1..MaxSaves :
    /\ <<w, b>> \in acked => RowsOf(w, b) # {}
    /\ RowsOf(w, b) # {} =>
         /\ b = saves[w] => Cardinality(RowsOf(w, b)) = size[w]
         /\ Cardinality(RowsOf(w, b)) <= MaxBatch
         /\ \A q, r \in RowsOf(w, b) :
              /\ q.agg = r.agg
              /\ q.ver = r.ver => q = r

(* A stream hands out committed events in its scope only, in global_id      *)
(* order, and therefore the events of one aggregate in version order.       *)
DeliveredInOrder ==
  \A s \in Streams : \A i \in DOMAIN got[s] :
    \E r \in table :
      /\ r.id = got[s][i]
      /\ InScope(ScopeOfStream[s], r)
      /\ \A j \in 1..(i - 1) : \E q \in table :
           /\ q.id = got[s][j]
           /\ q.id < r.id
           /\ q.agg = r.agg => q.ver < r.ver

Delivered(s, r) == \E i \in DOMAIN got[s] : got[s][i] = r.id

(* A committed event in scope that a stream's cursor has passed was handed  *)
(* out, unless its transaction was still open when the stream fetched an    *)
(* event of another aggregate with a higher id, which it then handed out: a *)
(* row that is visible to a fetch is never passed over, and the lock held   *)
(* from the first insert to COMMIT makes ids and commits agree within one   *)
(* aggregate.                                                               *)
OnlyOvertakenEventsAreSkipped ==
  \A s \in Streams : \A r \in table :
    r.id <= lastID[s] /\ InScope(ScopeOfStream[s], r) =>
      \/ Delivered(s, r)
      \/ \E q \in table : /\ <<r.id, q.id>> \in overtook[s]
                          /\ q.agg # r.agg
                          /\ Delivered(s, q)

(* "pushes every event as it is committed" (es/store.go): every event of an *)
(* acknowledged batch is handed to every open stream with its scope.        *)
AckedEventsReachOpenStreams ==
  \A s \in Streams, w \in Writers, b \in 1..MaxSaves :
    (spc[s] = "open" /\ <<w, b>> \in acked)
      ~> \/ spc[s] = "ended"
         \/ \A r \in RowsOf(w, b) :
              InScope(ScopeOfStream[s], r) => Delivered(s, r)

=============================================================================
