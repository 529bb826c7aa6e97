-------------------------------- MODULE Leader --------------------------------
(***************************************************************************)
(* es/pgstore/advisory_lock.go: replicas of one projector elect the one     *)
(* that builds the read model, with a session-level Postgres advisory lock, *)
(* and hand the work over through the Checkpointer of                       *)
(* es/pgstore/eventstore.go.                                                *)
(*                                                                          *)
(* A session belongs to a connection of a replica's database/sql pool.  The *)
(* server counts how often a session took the lock and drops the count when *)
(* the session ends.  TryAcquire takes a connection out of the pool and     *)
(* keeps it, pinned, when it got the lock; Release unlocks and gives it     *)
(* back.  A connection that is cut is noticed by neither side at once: the  *)
(* replica learns of it when it next uses the connection, the server when   *)
(* it reaps the session.  A replica may also crash as a whole.              *)
(*                                                                          *)
(* The leader polls: it reads the checkpoint, fetches events beyond it,     *)
(* handles them one by one and saves the id of the last.  Events commit in  *)
(* the order of their ids here (PgStore is about when they do not).         *)
(***************************************************************************)
EXTENDS Naturals, FiniteSets

CONSTANTS
  Replicas,       \* processes with one AdvisoryLock and one pool each
  Connections,    \* the connections the pools may open
  PoolOf,         \* Connections -> Replicas
  NoConnection,   \* AdvisoryLock.conn is nil
  FetchLimit,     \* events of one FetchAfter
  MaxEvents,      \* bound: events committed
  MaxReleases,    \* bound: times leaders resign
  MaxLosses,      \* bound: connections cut
  MaxCrashes,     \* bound: replicas that crash
  MaxRefusals     \* bound: statements refused on a connection that stays up

ASSUME LeaderAssumption ==
  /\ PoolOf \in [Connections -> Replicas]
  /\ NoConnection \notin Connections
  /\ FetchLimit \in Nat \ {0}
  /\ {MaxEvents, MaxReleases, MaxLosses, MaxCrashes, MaxRefusals} \subseteq Nat

VARIABLES
  slot,           \* connection: "closed", "pooled" or "pinned"
  cut,            \* connections that are cut, whoever has noticed
  held,           \* session: how often it holds the lock
  pc,             \* replica: "follower", "trying" or "leader"
  conn,           \* replica: the connection TryAcquire or the lock has
  refused,        \* unlocks the server refused
  spent,          \* how much of each bound on faults and resignations is used
  log,            \* events committed; their ids are 1..log
  checkpoint,     \* the saved position of the read model
  handled,        \* ids of the events the read model was given (history)
  job,            \* leader: "start", "polling" or "handling"
  cursor,         \* leader: id of the event it handled last
  upto            \* leader: id of the last event it fetched

lockVars == <<slot, cut, held, pc, conn>>
faultVars == <<refused, spent>>
workVars == <<log, checkpoint, handled, job, cursor, upto>>
vars == <<lockVars, faultVars, workVars>>

Bound == [releases |-> MaxReleases, losses |-> MaxLosses,
          crashes |-> MaxCrashes, refusals |-> MaxRefusals]

Spend(kind) ==
  /\ spent[kind] < Bound[kind]
  /\ spent' = [spent EXCEPT ![kind] = @ + 1]

-----------------------------------------------------------------------------
(* TryAcquire.                                                              *)

Pooled(r) == {c \in Connections : PoolOf[c] = r /\ slot[c] = "pooled"}

(* A new connection is a new session: what an old one left is reaped.       *)
Openable(r) ==
  {c \in Connections : PoolOf[c] = r /\ slot[c] = "closed" /\ held[c] = 0}

(* db.Conn: a pooled connection, or a new one when the pool is empty.       *)
TakeConnection(r) ==
  /\ pc[r] = "follower"
  /\ \E c \in IF Pooled(r) # {} THEN Pooled(r) ELSE Openable(r) :
       /\ conn' = [conn EXCEPT ![r] = c]
       /\ slot' = [slot EXCEPT ![c] = "pinned"]
       /\ cut' = IF slot[c] = "closed" THEN cut \ {c} ELSE cut
  /\ pc' = [pc EXCEPT ![r] = "trying"]
  /\ UNCHANGED <<held, faultVars, workVars>>

(* pg_try_advisory_lock: true for the session that holds the lock already.  *)
Grantable(c) == \A d \in Connections \ {c} : held[d] = 0

(* Mutation: the connection goes back to the pool, the lock with it.        *)
Unpinned(c) == [slot EXCEPT ![c] = "pooled"]

(* l.conn = conn: the connection stays out of the pool.                     *)
Pinned(c) == slot

BecomeLeader(r) ==
  /\ pc[r] = "trying"
  /\ conn[r] \notin cut
  /\ Grantable(conn[r])
  /\ held' = [held EXCEPT ![conn[r]] = @ + 1]
  /\ slot' = Pinned(conn[r])
  /\ pc' = [pc EXCEPT ![r] = "leader"]
  /\ UNCHANGED <<cut, conn, faultVars, workVars>>

(* conn.Close: a connection the driver found broken is discarded.           *)
Returned(c) == [slot EXCEPT ![c] = IF c \in cut THEN "closed" ELSE "pooled"]

(* Mutation: the early return forgets conn.Close.                           *)
Leaked(c) == slot

(* conn.Close when the lock was not acquired.                               *)
GivenBack(c) == Returned(c)

(* The worker's local variables go with the leadership.                     *)
StepsDown(r) ==
  /\ conn' = [conn EXCEPT ![r] = NoConnection]
  /\ pc' = [pc EXCEPT ![r] = "follower"]
  /\ job' = [job EXCEPT ![r] = "start"]
  /\ cursor' = [cursor EXCEPT ![r] = 0]
  /\ upto' = [upto EXCEPT ![r] = 0]

(* false, nil: another session has the lock.                                *)
StayFollower(r) ==
  /\ pc[r] = "trying"
  /\ conn[r] \notin cut
  /\ ~Grantable(conn[r])
  /\ slot' = GivenBack(conn[r])
  /\ StepsDown(r)
  /\ UNCHANGED <<cut, held, faultVars, log, checkpoint, handled>>

(* The query fails: on a cut connection, or refused by the server.          *)
TryFails(r) ==
  /\ pc[r] = "trying"
  /\ \/ conn[r] \in cut /\ UNCHANGED spent
     \/ conn[r] \notin cut /\ Spend("refusals")
  /\ slot' = Returned(conn[r])
  /\ StepsDown(r)
  /\ UNCHANGED <<cut, held, refused, log, checkpoint, handled>>

(* The server grants the lock but the connection is cut before its answer.  *)
GrantIsLost(r) ==
  /\ pc[r] = "trying"
  /\ conn[r] \notin cut
  /\ Grantable(conn[r])
  /\ Spend("losses")
  /\ held' = [held EXCEPT ![conn[r]] = @ + 1]
  /\ cut' = cut \cup {conn[r]}
  /\ slot' = [slot EXCEPT ![conn[r]] = "closed"]
  /\ StepsDown(r)
  /\ UNCHANGED <<refused, log, checkpoint, handled>>

-----------------------------------------------------------------------------
(* Release.  The worker has stopped; l.conn is nil whatever happens.        *)

(* Mutation: pg_advisory_unlock is not called.                              *)
StillHeld(c) == held

(* pg_advisory_unlock undoes one pg_try_advisory_lock.                      *)
Unlocked(c) == [held EXCEPT ![c] = @ - 1]

Release(r) ==
  /\ pc[r] = "leader"
  /\ conn[r] \notin cut
  /\ Spend("releases")
  /\ held' = Unlocked(conn[r])
  /\ slot' = Returned(conn[r])
  /\ StepsDown(r)
  /\ UNCHANGED <<cut, refused, log, checkpoint, handled>>

(* The unlock fails on a cut connection; conn.Close discards it.            *)
ReleaseFindsItCut(r) ==
  /\ pc[r] = "leader"
  /\ conn[r] \in cut
  /\ Spend("releases")
  /\ slot' = Returned(conn[r])
  /\ StepsDown(r)
  /\ UNCHANGED <<cut, held, refused, log, checkpoint, handled>>

(* The unlock is refused and the connection is fine: conn.Close puts it     *)
(* back in the pool.                                                        *)
ReleaseIsRefused(r) ==
  /\ pc[r] = "leader"
  /\ conn[r] \notin cut
  /\ Spend("refusals")
  /\ refused' = refused + 1
  /\ slot' = Returned(conn[r])
  /\ StepsDown(r)
  /\ UNCHANGED <<cut, held, log, checkpoint, handled>>

-----------------------------------------------------------------------------
(* Postgres, the network, database/sql and the processes.                   *)

(* The pool closes an idle connection, which ends its session.              *)
PoolCloses(c) ==
  /\ slot[c] = "pooled"
  /\ slot' = [slot EXCEPT ![c] = "closed"]
  /\ held' = [held EXCEPT ![c] = IF c \in cut THEN @ ELSE 0]
  /\ UNCHANGED <<cut, pc, conn, faultVars, workVars>>

LoseConnection(c) ==
  /\ slot[c] # "closed"
  /\ c \notin cut
  /\ Spend("losses")
  /\ cut' = cut \cup {c}
  /\ UNCHANGED <<slot, held, pc, conn, refused, workVars>>

(* The server notices a cut connection and ends its session.                *)
Reap(c) ==
  /\ c \in cut
  /\ held[c] > 0
  /\ held' = [held EXCEPT ![c] = 0]
  /\ UNCHANGED <<slot, cut, pc, conn, faultVars, workVars>>

(* A replica dies and is started again.                                     *)
Crash(r) ==
  /\ Spend("crashes")
  /\ LET mine == {c \in Connections : PoolOf[c] = r /\ slot[c] # "closed"} IN
       /\ cut' = cut \cup mine
       /\ slot' = [c \in Connections |-> IF c \in mine THEN "closed" ELSE slot[c]]
  /\ StepsDown(r)
  /\ UNCHANGED <<held, refused, log, checkpoint, handled>>

-----------------------------------------------------------------------------
(* The read model.                                                          *)

Commit ==
  /\ log < MaxEvents
  /\ log' = log + 1
  /\ UNCHANGED <<lockVars, faultVars, checkpoint, handled, job, cursor, upto>>

(* Mutation: every leader starts with the first event.                      *)
FromScratch(r) == cursor[r]

(* Checkpointer.Get; 0 for a name that was never saved.                     *)
ResumeFrom(r) == checkpoint

GetCheckpoint(r) ==
  /\ pc[r] = "leader"
  /\ job[r] = "start"
  /\ cursor' = [cursor EXCEPT ![r] = ResumeFrom(r)]
  /\ job' = [job EXCEPT ![r] = "polling"]
  /\ UNCHANGED <<lockVars, faultVars, log, checkpoint, handled, upto>>

(* FetchAfter(cursor, limit).                                               *)
Fetch(r) ==
  /\ pc[r] = "leader"
  /\ job[r] = "polling"
  /\ log > cursor[r]
  /\ upto' = [upto EXCEPT ![r] =
       IF log - cursor[r] > FetchLimit THEN cursor[r] + FetchLimit ELSE log]
  /\ job' = [job EXCEPT ![r] = "handling"]
  /\ UNCHANGED <<lockVars, faultVars, log, checkpoint, handled, cursor>>

Handle(r) ==
  /\ pc[r] = "leader"
  /\ job[r] = "handling"
  /\ cursor[r] < upto[r]
  /\ cursor' = [cursor EXCEPT ![r] = @ + 1]
  /\ handled' = handled \cup {cursor[r] + 1}
  /\ UNCHANGED <<lockVars, faultVars, log, checkpoint, job, upto>>

(* Mutation: the store's newest id is saved.                                *)
Newest(r) == log

(* events[len(events)-1].GlobalID.                                          *)
LastFetched(r) == upto[r]

(* Checkpointer.Save overwrites whatever is there.                          *)
SaveCheckpoint(r) ==
  /\ pc[r] = "leader"
  /\ job[r] = "handling"
  /\ cursor[r] = upto[r]
  /\ checkpoint' = LastFetched(r)
  /\ job' = [job EXCEPT ![r] = "polling"]
  /\ UNCHANGED <<lockVars, faultVars, log, handled, cursor, upto>>

-----------------------------------------------------------------------------
Init ==
  /\ slot = [c \in Connections |-> "closed"]
  /\ cut = {}
  /\ held = [c \in Connections |-> 0]
  /\ pc = [r \in Replicas |-> "follower"]
  /\ conn = [r \in Replicas |-> NoConnection]
  /\ refused = 0
  /\ spent = [kind \in DOMAIN Bound |-> 0]
  /\ log = 0
  /\ checkpoint = 0
  /\ handled = {}
  /\ job = [r \in Replicas |-> "start"]
  /\ cursor = [r \in Replicas |-> 0]
  /\ upto = [r \in Replicas |-> 0]

(* TryAcquire once begun, and beginning it again while not leading.         *)
Campaign(r) ==
  \/ TakeConnection(r)
  \/ BecomeLeader(r)
  \/ StayFollower(r)
  \/ TryFails(r)

Work(r) ==
  \/ GetCheckpoint(r)
  \/ Fetch(r)
  \/ Handle(r)
  \/ SaveCheckpoint(r)

Next ==
  \/ Commit
  \/ \E r \in Replicas : Campaign(r)
  \/ \E r \in Replicas : Work(r)
  \/ \E r \in Replicas : GrantIsLost(r)
  \/ \E r \in Replicas : Release(r)
  \/ \E r \in Replicas : ReleaseFindsItCut(r)
  \/ \E r \in Replicas : ReleaseIsRefused(r)
  \/ \E r \in Replicas : Crash(r)
  \/ \E c \in Connections : PoolCloses(c)
  \/ \E c \in Connections : LoseConnection(c)
  \/ \E c \in Connections : Reap(c)

Spec == Init /\ [][Next]_vars

(* Followers keep retrying, as TryAcquire asks of its callers, and the      *)
(* server notices dead connections in the end.  No leader has to resign and *)
(* no pool has to close anything.                                           *)
FairSpec ==
  /\ Spec
  /\ \A r \in Replicas : WF_vars(Campaign(r)) /\ WF_vars(Work(r))
  /\ \A c \in Connections : WF_vars(Reap(c))

-----------------------------------------------------------------------------
(* Properties.                                                              *)

(* Every variable has its type.                                             *)
TypeOK ==
  /\ slot \in [Connections -> {"closed", "pooled", "pinned"}]
  /\ cut \subseteq Connections
  /\ held \in [Connections -> Nat]
  /\ pc \in [Replicas -> {"follower", "trying", "leader"}]
  /\ conn \in [Replicas -> Connections \cup {NoConnection}]
  /\ refused \in 0..spent.refusals
  /\ spent \in [DOMAIN Bound -> Nat]
  /\ \A kind \in DOMAIN Bound : spent[kind] <= Bound[kind]
  /\ log \in 0..MaxEvents
  /\ checkpoint \in 0..log
  /\ handled \subseteq 1..log
  /\ job \in [Replicas -> {"start", "polling", "handling"}]
  /\ cursor \in [Replicas -> 0..log]
  /\ upto \in [Replicas -> 0..log]

Connected(r) == pc[r] = "leader" /\ conn[r] \notin cut

(* "exactly one replica ever builds a given read model at a time"           *)
(* (es/advisory_lock.go), as far as it goes: a leader with a working        *)
(* connection holds the lock through it, whatever its own and the others'   *)
(* pools, crashes, lost answers and refused unlocks did before, so there is *)
(* at most one.  A second builder is one whose connection was cut and which *)
(* has not noticed.                                                         *)
OneConnectedLeader ==
  /\ \A r \in Replicas : Connected(r) => held[conn[r]] > 0
  /\ \A q, r \in Replicas : Connected(q) /\ Connected(r) => q = r

(* Sessions that hold the lock although no leader stands behind them and    *)
(* the server will not reap them.                                           *)
Strays ==
  {c \in Connections \ cut :
     held[c] > 0 /\ \A r \in Replicas : ~(pc[r] = "leader" /\ conn[r] = c)}

(* "after it releases, another replica can take over"                       *)
(* (test/user/replication_test.go:222): neither a failed TryAcquire nor a   *)
(* Release leaves the lock behind on a pooled session, except a Release     *)
(* whose unlock was refused, once for each refusal.                         *)
OnlyRefusedUnlocksStrand ==
  /\ Cardinality(Strays) <= refused
  /\ \A c \in Connections : held[c] <= 1 + refused

(* Checkpointer: "so it can resume from where it left off after a restart"  *)
(* (es/store.go).  No event at or below the checkpoint, or below a leader's *)
(* cursor, was left out of the read model, across crashes, handovers in the *)
(* middle of a batch and two replicas that both believe they lead.          *)
NothingIsSkipped ==
  /\ 1..checkpoint \subseteq handled
  /\ \A r \in Replicas :
       pc[r] = "leader" /\ job[r] # "start" => 1..cursor[r] \subseteq handled

(* Save overwrites, so a checkpoint can fall back when two replicas build   *)
(* at once.  Resigning, crashing in the middle of a batch and being refused *)
(* do not get that far: it takes a leader whose connection was cut.         *)
CheckpointFallsBackOnlyAfterCut ==
  [][checkpoint' < checkpoint => spent.losses > 0]_vars

(* r goes on as a leader although its connection is gone.  AdvisoryLock has *)
(* TryAcquire and Release only: nothing tells r until it resigns.           *)
Deposed(r) == pc[r] = "leader" /\ conn[r] \in cut

(* "if the leader dies, the lock is released automatically when its         *)
(* connection closes and another replica can take over"                     *)
(* (es/pgstore/advisory_lock.go): again and again some replica leads with a *)
(* working connection.  Two things end that for good: an unlock that was    *)
(* refused, and connections cut under one replica after the other until     *)
(* each of them has been deposed without noticing and none is left to call  *)
(* TryAcquire.                                                              *)
LeadershipIsTakenOver ==
  \/ <>(refused > 0)
  \/ <>[](\A r \in Replicas : Deposed(r))
  \/ []<>(\E r \in Replicas : Connected(r))

=============================================================================
