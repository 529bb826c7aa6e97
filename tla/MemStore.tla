------------------------------ MODULE MemStore ------------------------------
(***************************************************************************)
(* es/memstore/eventstore.go: the in-memory EventStore, together with the   *)
(* callers that drive it:                                                   *)
(*                                                                          *)
(*   - writers run the load / record / save cycle of es.Repository and, on  *)
(*     ErrConcurrencyConflict, go round again;                              *)
(*   - streams are the goroutines started by StreamAll with the consumer at *)
(*     the other end of the unbuffered channel "out".                       *)
(*                                                                          *)
(* One mutex (mu) guards the store.  An operation that takes and releases   *)
(* it without blocking in between (Load, a conflicting Commit, StreamAll's  *)
(* snapshot) is one step.  A Commit that passes its version check keeps mu  *)
(* while it sends every event to every subscriber's buffered channel, a     *)
(* send that blocks when the buffer is full, so it is one step per event    *)
(* appended, one per send, and one to return.                               *)
(*                                                                          *)
(* Events are shared pointers in the code: the indexes, the channels and    *)
(* the consumers' histories hold positions of "all" (GlobalIDs) here.       *)
(***************************************************************************)
EXTENDS Naturals, Sequences, FiniteSets

CONSTANTS
  Writers,        \* callers of Repository.Save
  Streams,        \* callers of EventStore.StreamAll
  Aggregates,     \* aggregate ids
  Tenants,        \* tenant ids, Global among them
  Global,         \* es.GlobalTenantID, the nil UUID
  Everything,     \* the scope of a stream opened without es.WithTenant
  ScopeOfWriter,  \* Writers -> Tenants; Global: no es.WithTenant given
  ScopeOfStream,  \* Streams -> Tenants \cup {Everything}
  Subjects,       \* data subjects (PiiID)
  NoSubject,      \* an event without PiiID
  PiiIDsOf,       \* writer: what it may pass to WithPiiID, NoSubject: nothing
  Cancellable,    \* the streams whose context may be cancelled
  LiveCap,        \* capacity of a subscriber's channel, 64 in the code
  MaxBatch,       \* bound: events one Save commits
  MaxCommands,    \* bound: Saves each writer gets acknowledged
  NoWriter,       \* mu is free
  NoStream        \* the committing writer has no send under way

ASSUME ScopesAssumption ==
  /\ Global \in Tenants
  /\ Aggregates # {}
  /\ Everything \notin Tenants
  /\ ScopeOfWriter \in [Writers -> Tenants]
  /\ ScopeOfStream \in [Streams -> Tenants \cup {Everything}]
  /\ NoSubject \notin Subjects
  /\ PiiIDsOf \in [Writers -> SUBSET (Subjects \cup {NoSubject})]
  /\ Cancellable \subseteq Streams

ASSUME BoundsAssumption ==
  /\ LiveCap \in Nat \ {0}
  /\ MaxBatch \in Nat \ {0}
  /\ MaxCommands \in Nat

ASSUME NobodyAssumption ==
  /\ NoWriter \notin Writers
  /\ NoStream \notin Streams

VARIABLES
  all,            \* Store.all: every event in commit order
  piiID,          \* PiiID of each event of all
  nextGlobalID,   \* Store.nextGlobalID
  byAggregate,    \* Store.byAggregate: key -> positions of all
  byPii,          \* Store.byPii: subject -> positions of all
  subscribers,    \* Store.subscribers
  mu,             \* the writer inside Commit's critical section
  wpc,            \* writer: "idle", "loaded" or "committing"
  target,         \* writer: key its events will be stored under
  base,           \* writer: expectedVersion
  size,           \* writer: number of uncommitted events
  carries,        \* writer: PiiIDs of its uncommitted events
  cmds,           \* writer: Saves that returned nil
  appended,       \* events of the running Commit already appended
  rest,           \* subscribers the current event has still to go to
  at,             \* the subscriber whose channel is being sent to
  spc,            \* stream: "off", "open", "closing" or "closed"
  offer,          \* stream: events to offer on out before reading live again
  live,           \* stream: the buffered channel registered in subscribers
  cancelled,      \* stream: its ctx is done
  got             \* stream: what its consumer received (history)

storeVars  == <<all, piiID, nextGlobalID, byAggregate, byPii>>
commitVars == <<mu, appended, rest, at>>
writerVars == <<wpc, target, base, size, carries, cmds>>
streamVars == <<spc, offer, live, cancelled, got, subscribers>>
vars == <<storeVars, commitVars, writerVars, streamVars>>

(* aggregateKey: an aggregate's events belong to one tenant.                *)
Keys == Tenants \X Aggregates

(* An event, and whose command of how many events recorded it (by, cmd, of  *)
(* are history: nothing reads them).                                        *)
Event == [key : Keys, ver : Nat, by : Writers, cmd : Nat, of : Nat]

-----------------------------------------------------------------------------
(* Reading the store.                                                       *)

MuFree == mu = NoWriter

(* The version check reads the last event of the stream, not its length.    *)
CurrentVersion(k) ==
  IF byAggregate[k] = <<>> THEN 0
  ELSE all[byAggregate[k][Len(byAggregate[k])]].ver

(* Load under tenant t: t's own stream or, if t has none, the global one.   *)
(* 0 stands for ErrAggregateNotFound: the caller starts a new aggregate.    *)
LoadedVersion(t, a) ==
  IF byAggregate[<<t, a>>] = <<>> THEN CurrentVersion(<<Global, a>>)
  ELSE CurrentVersion(<<t, a>>)

(* Mutation: scoped to another tenant's events.                             *)
NotForeign(s, e) ==
  ScopeOfStream[s] = Everything \/ e.key[1] = ScopeOfStream[s]

(* The tenant filter of StreamAll, on the backlog and on live events.       *)
Visible(s, e) ==
  \/ ScopeOfStream[s] = Everything
  \/ e.key[1] = ScopeOfStream[s]
  \/ e.key[1] = Global

(* Mutation: the snapshot misses the newest event.                          *)
BacklogSkipsNewest(s) == {p \in 1..(Len(all) - 1) : Visible(s, all[p])}

(* StreamAll's snapshot of the events committed so far.  The slice is in    *)
(* log order, so a set whose smallest position is offered first.            *)
Backlog(s) == {p \in DOMAIN all : Visible(s, all[p])}

-----------------------------------------------------------------------------
(* Writers.                                                                 *)

(* Repository.Load, then RecordThat once per event, each with a PiiID or    *)
(* without.  The caller may pick another aggregate or batch after a         *)
(* conflict: that covers one that gives up and one that re-applies its      *)
(* command.                                                                 *)
LoadAggregate(w) ==
  /\ wpc[w] = "idle"
  /\ cmds[w] < MaxCommands
  /\ MuFree
  /\ \E a \in Aggregates, n \in 1..MaxBatch :
       /\ target' = [target EXCEPT ![w] = <<ScopeOfWriter[w], a>>]
       /\ base' = [base EXCEPT ![w] = LoadedVersion(ScopeOfWriter[w], a)]
       /\ size' = [size EXCEPT ![w] = n]
       /\ \E ids \in [1..n -> PiiIDsOf[w]] :
            carries' = [carries EXCEPT ![w] = ids]
  /\ wpc' = [wpc EXCEPT ![w] = "loaded"]
  /\ UNCHANGED <<cmds, storeVars, commitVars, streamVars>>

(* Mutation: only an older version is refused.                              *)
NotBehind(w) == CurrentVersion(target[w]) >= base[w]

(* Commit's optimistic concurrency check.                                   *)
VersionMatches(w) == CurrentVersion(target[w]) = base[w]

(* Commit returns ErrConcurrencyConflict; the caller will load again.       *)
CommitConflict(w) ==
  /\ wpc[w] = "loaded"
  /\ MuFree
  /\ ~VersionMatches(w)
  /\ wpc' = [wpc EXCEPT ![w] = "idle"]
  /\ base' = [base EXCEPT ![w] = 0]
  /\ size' = [size EXCEPT ![w] = 0]
  /\ carries' = [carries EXCEPT ![w] = <<>>]
  /\ UNCHANGED <<target, cmds, storeVars, commitVars, streamVars>>

CommitBegin(w) ==
  /\ wpc[w] = "loaded"
  /\ MuFree
  /\ VersionMatches(w)
  /\ mu' = w
  /\ wpc' = [wpc EXCEPT ![w] = "committing"]
  /\ UNCHANGED <<target, base, size, carries, cmds, storeVars, appended, rest, at,
                 streamVars>>

(* Mutation: every event of a batch gets the first version.                 *)
StaleVersion(w, i) == base[w] + 1

(* The version RecordThat gave the i-th event of the batch.                 *)
RecordedVersion(w, i) == base[w] + i

(* The next channel of "for ch := range s.subscribers", in map order.       *)
NextTarget(pending) == IF pending = {} THEN {NoStream} ELSE pending

(* The PiiID of the event that is appended next.                            *)
NextPiiID(w) == carries[w][appended + 1]

(* Mutation: the first event of a batch is not indexed.                     *)
SubjectIndexUnlessFirst(w) ==
  [p \in Subjects |-> IF NextPiiID(w) = p /\ appended > 0
                      THEN Append(byPii[p], nextGlobalID + 1) ELSE byPii[p]]

(* byPii with the new event, if it carries a PiiID.                         *)
IndexedBySubject(w) ==
  [p \in Subjects |-> IF NextPiiID(w) = p
                      THEN Append(byPii[p], nextGlobalID + 1) ELSE byPii[p]]

AppendEvent(w) ==
  /\ mu = w
  /\ at = NoStream
  /\ appended < size[w]
  /\ nextGlobalID' = nextGlobalID + 1
  /\ all' = Append(all, [key |-> target[w],
                         ver |-> RecordedVersion(w, appended + 1),
                         by  |-> w,
                         cmd |-> cmds[w] + 1,
                         of  |-> size[w]])
  /\ piiID' = Append(piiID, NextPiiID(w))
  /\ byAggregate' = [byAggregate EXCEPT ![target[w]] =
                       Append(@, nextGlobalID + 1)]
  /\ byPii' = IndexedBySubject(w)
  /\ appended' = appended + 1
  /\ \E s \in NextTarget(subscribers) :
       /\ at' = s
       /\ rest' = subscribers \ {s}
  /\ UNCHANGED <<mu, writerVars, streamVars>>

(* A subscriber's buffered channel.                                        *)
HasRoom(s) == Len(live[s]) < LiveCap

(* ch <- e, with mu held: waits for room in the subscriber's channel.       *)
SendLive(w) ==
  /\ mu = w
  /\ at # NoStream
  /\ HasRoom(at)
  /\ live' = [live EXCEPT ![at] = Append(@, Len(all))]
  /\ \E s \in NextTarget(rest) :
       /\ at' = s
       /\ rest' = rest \ {s}
  /\ UNCHANGED <<mu, appended, storeVars, writerVars, spc, offer, cancelled,
                 got, subscribers>>

(* Mutation: the loop ends one event early.                                 *)
DoneOneShort(w) == appended >= size[w] - 1 /\ appended >= 1
BatchDone(w) == appended = size[w]

(* Mutation: mu is not unlocked.                                            *)
MuKept == mu
MuReleased == NoWriter

(* Commit returns nil and Save clears the aggregate's buffer.               *)
CommitReturn(w) ==
  /\ mu = w
  /\ wpc[w] = "committing"
  /\ at = NoStream
  /\ BatchDone(w)
  /\ mu' = MuReleased
  /\ appended' = 0
  /\ wpc' = [wpc EXCEPT ![w] = "idle"]
  /\ cmds' = [cmds EXCEPT ![w] = @ + 1]
  /\ base' = [base EXCEPT ![w] = 0]
  /\ size' = [size EXCEPT ![w] = 0]
  /\ carries' = [carries EXCEPT ![w] = <<>>]
  /\ UNCHANGED <<rest, at, target, storeVars, streamVars>>

-----------------------------------------------------------------------------
(* Streams.                                                                 *)

(* StreamAll: snapshot and registration under one hold of mu.               *)
Subscribe(s) ==
  /\ spc[s] = "off"
  /\ MuFree
  /\ offer' = [offer EXCEPT ![s] = Backlog(s)]
  /\ subscribers' = subscribers \cup {s}
  /\ spc' = [spc EXCEPT ![s] = "open"]
  /\ UNCHANGED <<live, cancelled, got, storeVars, commitVars, writerVars>>

(* out <- e, when the consumer is receiving.                                *)
Deliver(s) ==
  /\ spc[s] = "open"
  /\ \E p \in offer[s] :
       /\ \A q \in offer[s] : p <= q
       /\ got' = [got EXCEPT ![s] = Append(@, p)]
       /\ offer' = [offer EXCEPT ![s] = @ \ {p}]
  /\ UNCHANGED <<spc, live, cancelled, subscribers, storeVars, commitVars,
                 writerVars>>

(* live is read only when the backlog, or the last live event, is through.  *)
NothingOffered(s) == offer[s] = {}

(* e := <-live; an event of another tenant is dropped here.                 *)
TakeLive(s) ==
  /\ spc[s] = "open"
  /\ NothingOffered(s)
  /\ live[s] # <<>>
  /\ offer' = [offer EXCEPT ![s] =
                 @ \cup {p \in {Head(live[s])} : Visible(s, all[p])}]
  /\ live' = [live EXCEPT ![s] = Tail(@)]
  /\ UNCHANGED <<spc, cancelled, got, subscribers, storeVars, commitVars,
                 writerVars>>

(* The consumer cancels ctx.                                                *)
Cancel(s) ==
  /\ s \in Cancellable
  /\ spc[s] = "open"
  /\ ~cancelled[s]
  /\ cancelled' = [cancelled EXCEPT ![s] = TRUE]
  /\ UNCHANGED <<spc, offer, live, got, subscribers, storeVars, commitVars,
                 writerVars>>

(* A select takes <-ctx.Done(): every select of the goroutine has that arm. *)
ObserveCancel(s) ==
  /\ spc[s] = "open"
  /\ cancelled[s]
  /\ spc' = [spc EXCEPT ![s] = "closing"]
  /\ offer' = [offer EXCEPT ![s] = {}]
  /\ UNCHANGED <<live, cancelled, got, subscribers, storeVars, commitVars,
                 writerVars>>

(* The deferred calls: delete(s.subscribers, live) under mu, close(errc),   *)
(* close(out).  live is garbage from here on.                               *)
Unsubscribe(s) ==
  /\ spc[s] = "closing"
  /\ MuFree
  /\ subscribers' = subscribers \ {s}
  /\ live' = [live EXCEPT ![s] = <<>>]
  /\ spc' = [spc EXCEPT ![s] = "closed"]
  /\ UNCHANGED <<offer, cancelled, got, storeVars, commitVars, writerVars>>

-----------------------------------------------------------------------------
Init ==
  /\ all = <<>>
  /\ piiID = <<>>
  /\ nextGlobalID = 0
  /\ byAggregate = [k \in Keys |-> <<>>]
  /\ byPii = [p \in Subjects |-> <<>>]
  /\ subscribers = {}
  /\ mu = NoWriter
  /\ wpc = [w \in Writers |-> "idle"]
  /\ target = [w \in Writers |-> <<ScopeOfWriter[w],
                                   CHOOSE a \in Aggregates : TRUE>>]
  /\ base = [w \in Writers |-> 0]
  /\ size = [w \in Writers |-> 0]
  /\ carries = [w \in Writers |-> <<>>]
  /\ cmds = [w \in Writers |-> 0]
  /\ appended = 0
  /\ rest = {}
  /\ at = NoStream
  /\ spc = [s \in Streams |-> "off"]
  /\ offer = [s \in Streams |-> {}]
  /\ live = [s \in Streams |-> <<>>]
  /\ cancelled = [s \in Streams |-> FALSE]
  /\ got = [s \in Streams |-> <<>>]

WriterStep(w) ==
  \/ LoadAggregate(w)
  \/ CommitConflict(w)
  \/ CommitBegin(w)
  \/ AppendEvent(w)
  \/ SendLive(w)
  \/ CommitReturn(w)

Next ==
  \/ \E w \in Writers : WriterStep(w)
  \/ \E s \in Streams : Subscribe(s)
  \/ \E s \in Streams : Deliver(s)
  \/ \E s \in Streams : TakeLive(s)
  \/ \E s \in Streams : Cancel(s)
  \/ \E s \in Streams : ObserveCancel(s)
  \/ \E s \in Streams : Unsubscribe(s)

Spec == Init /\ [][Next]_vars

(* Writers and goroutines are scheduled, and a consumer that has not        *)
(* cancelled keeps receiving ("callers must drain both channels", the       *)
(* contract of StreamAll).  Nothing obliges a consumer to receive after it  *)
(* cancelled, nobody is obliged to subscribe or to cancel.                  *)
Fairness ==
  /\ \A w \in Writers : WF_vars(WriterStep(w))
  /\ \A s \in Streams :
       /\ WF_vars(TakeLive(s))
       /\ WF_vars(~cancelled[s] /\ Deliver(s))
       /\ WF_vars(ObserveCancel(s))
       /\ WF_vars(Unsubscribe(s))

FairSpec == Spec /\ Fairness

-----------------------------------------------------------------------------
(* Properties.                                                              *)

(* Every variable has its type; in particular no subscriber's channel ever  *)
(* holds more than its capacity.                                            *)
TypeOK ==
  /\ all \in Seq(Event)
  /\ piiID \in Seq(Subjects \cup {NoSubject})
  /\ nextGlobalID \in Nat
  /\ byAggregate \in [Keys -> Seq(Nat)]
  /\ byPii \in [Subjects -> Seq(Nat)]
  /\ subscribers \subseteq Streams
  /\ mu \in Writers \cup {NoWriter}
  /\ wpc \in [Writers -> {"idle", "loaded", "committing"}]
  /\ target \in [Writers -> Keys]
  /\ base \in [Writers -> Nat]
  /\ size \in [Writers -> 0..MaxBatch]
  /\ DOMAIN carries = Writers
  /\ \A w \in Writers : carries[w] \in [1..size[w] -> Subjects \cup {NoSubject}]
  /\ cmds \in [Writers -> 0..MaxCommands]
  /\ appended \in 0..MaxBatch
  /\ rest \subseteq Streams
  /\ at \in Streams \cup {NoStream}
  /\ spc \in [Streams -> {"off", "open", "closing", "closed"}]
  /\ offer \in [Streams -> SUBSET Nat]
  /\ live \in [Streams -> Seq(Nat)]
  /\ \A s \in Streams : Len(live[s]) <= LiveCap
  /\ cancelled \in [Streams -> BOOLEAN]
  /\ got \in [Streams -> Seq(Nat)]

(* Refinement: a batch joins the abstract log at the moment its version     *)
(* check passes, although its events are still being appended and sent.     *)
Promised ==
  IF mu = NoWriter THEN <<>>
  ELSE [i \in 1..(size[mu] - appended) |->
          [key |-> target[mu], ver |-> base[mu] + appended + i,
           by |-> mu, cmd |-> cmds[mu] + 1, of |-> size[mu]]]

Contract == INSTANCE EventLog WITH log <- all \o Promised, got <- got

(* Concurrent load/record/save cycles on one stream leave versions 1, 2, 3, *)
(* ... in commit order with none missing and none twice                     *)
(* (test/concurrency/concurrency_test.go:61), and Load finds every event    *)
(* of the log: Commit's check under mu is what rules out a lost update.     *)
GapFreeVersions ==
  /\ \A k \in Keys : \A i \in DOMAIN byAggregate[k] :
       /\ byAggregate[k][i] \in DOMAIN all
       /\ all[byAggregate[k][i]].key = k
       /\ all[byAggregate[k][i]].ver = i
       /\ \A j \in 1..(i - 1) : byAggregate[k][j] < byAggregate[k][i]
  /\ \A p \in DOMAIN all :
       all[p].ver \in DOMAIN byAggregate[all[p].key]

EventsOf(w, c) == {p \in DOMAIN all : all[p].by = w /\ all[p].cmd = c}

(* Save acknowledges exactly what the log holds: an acknowledged command is *)
(* in the log once, whole, as one uninterrupted run of events of one        *)
(* stream, and one that was refused by the version check left no trace.     *)
AcknowledgedOnceAndWhole ==
  \A w \in Writers :
    /\ \A c \in 1..cmds[w] :
         /\ EventsOf(w, c) # {}
         /\ \A p, q \in EventsOf(w, c) :
              /\ p..q \subseteq EventsOf(w, c)
              /\ all[p].of = Cardinality(EventsOf(w, c))
              /\ all[p].key = all[q].key
              /\ p < q => all[p].ver < all[q].ver
    /\ \A p \in DOMAIN all :
         all[p].by = w /\ all[p].cmd > cmds[w]
           => mu = w /\ all[p].cmd = cmds[w] + 1
    /\ mu = w => Cardinality(EventsOf(w, cmds[w] + 1)) = appended

(* What stream s was handed: events in its scope only, in log order, with   *)
(* no hole and no repetition.                                               *)
HandedOutInOrder(s) ==
  \A i \in DOMAIN got[s] :
    /\ got[s][i] \in DOMAIN all
    /\ Contract!InScope(s, all[got[s][i]])
    /\ \A j \in 1..(i - 1) : got[s][j] < got[s][i]
    /\ \A p \in 1..got[s][i] : Contract!InScope(s, all[p]) =>
         \E j \in 1..i : got[s][j] = p

(* An event in scope that an open stream was not handed yet is in its       *)
(* backlog, in its channel, or about to be sent by the running Commit.      *)
OnItsWay(s) ==
  spc[s] = "open" =>
    \A p \in DOMAIN all : Contract!InScope(s, all[p]) =>
      \/ \E i \in DOMAIN got[s] : got[s][i] = p
      \/ p \in offer[s]
      \/ \E i \in DOMAIN live[s] : live[s][i] = p
      \/ p = Len(all) /\ s \in rest \cup {at}

(* The handover from the backlog to live events neither loses, repeats nor  *)
(* reorders an event, for every interleaving of StreamAll, its goroutine,   *)
(* its cancellation and running commits.                                    *)
StreamsAreExact == \A s \in Streams : HandedOutInOrder(s) /\ OnItsWay(s)

-----------------------------------------------------------------------------
(* Refinement.                                                              *)

(* memstore.Store keeps the promises of es.EventStore: batches enter one    *)
(* append-only log atomically and on top of the version they were made for, *)
(* and streams hand it out in order.                                        *)
KeepsTheContract == Contract!Spec

-----------------------------------------------------------------------------
(* Liveness.                                                                *)

(* Cancelling a stream's context ends it: its goroutine returns and closes  *)
(* out and errc.                                                            *)
CancelledStreamsClose ==
  \A s \in Streams : cancelled[s] ~> spc[s] = "closed"

=============================================================================
