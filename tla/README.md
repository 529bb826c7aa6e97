# Verification of go-es-light

TLA+ models of an event-sourcing library for Go: event stores in memory and on
Postgres, a repository with optimistic concurrency, encryption of personal data
with crypto-shredding, and an asynchronous read side. The modules are
translated from the code under `src/`; `PROJECT.json` names the lines each
definition stands for.

## The system

| Component | State | Operations | Interacts with |
|---|---|---|---|
| `es.Repository`, `es.BaseAggregate` (`es/repository.go`, `es/aggregate.go`) | an aggregate's version and its buffer of uncommitted events, per caller | `Load`, `RecordThat`, `Save` | calls `EventStore.Load` and `Commit`; on `ErrConcurrencyConflict` the caller reloads, on another error it may save the same buffer again |
| `memstore.Store` (`es/memstore/eventstore.go`) | `all`, `byAggregate`, `byPii`, `nextGlobalID`, `subscribers`, checkpoints, one mutex | `Commit`, `Load`, `FetchAfter`, `StreamAll`, `FetchByPiiID`, `Get`/`Save` | `Commit` sends to the channel of every running `StreamAll` with the mutex held |
| `pgstore.Store` (`es/pgstore/eventstore.go`) | tables `events`, `checkpoints`; a sequence; advisory locks | the same | concurrent transactions; `StreamAll` polls, woken by NOTIFY |
| `es.PiiEventStore`, `es.PiiAnonymizer` (`es/pii_store.go`, `es/pii.go`) | none of its own | seals before the inner `Commit`, forgets the key and appends to the ledger after it, opens on every read | inner store, key ring, ledger, which share no lock and no transaction |
| key rings, `es.WrappedKeyRing` (`es/*/keyring.go`, `es/wrapped_keyring.go`) | subject -> key, wrapped under a KEK | `Get`, `Put`, `Forget`, `Subjects`, `Rotate` | called by the anonymizer, by anyone who rotates |
| erasure ledger (`es/erasure_ledger.go`, `es/*/erasure_ledger.go`) | hash-chained records | `Append`, `Entries`, `Verify` | called by `PiiEventStore.Commit` |
| `es.Dispatcher`, `es.EventNotifier` (`es/dispatcher.go`, `es/notifier.go`) | listeners in registration order; `lastProjected`, waiters | `Dispatch`, `Subscribe`, `Notify` | fed by a loop over `StreamAll`; command handlers wait on the notifier |
| leader election (`es/*/advisory_lock.go`) | a pinned session holding a session lock | `TryAcquire`, `Release` | replicas that project |
| `es.TenantScopedStore` (`es/tenant_store.go`) | the tenant it is bound to | every call, with `WithTenant` appended last | wraps an `EventStore` |
| `es.SubjectExporter` (`es/pii_lookup.go`) | none | `Export` | calls `FetchByPiiID` |
| registry, bypass role, examples | none, or start-up only | - | - |

What is hard in it: writers that interleave between load and save; a `Commit`
that blocks on a consumer while holding the store's mutex; the switch of a
stream from its backlog to live events; global ids that are handed out in
another order than transactions become visible; transactions that fail or
succeed without the caller knowing; three stores changed one after the other
by one `PiiEventStore.Commit`; a key ring read and written in two calls, or
re-wrapped key by key while it is in use; a handler that waits for a projection
that is made, or fails, at any moment around its call; a second goroutine
between the store and the application, which may return with events undelivered;
a lock that lives as long as a server session, on a connection that may be cut
without either side knowing; a checkpoint saved after the work it stands for; a
hash chain that concurrent transactions extend and that must survive a round
trip through the database; an audit that reads three stores one after the
other. The list with lines is
`hazards` in `PROJECT.json`.

What makes each part correct:

- stores: versions of an aggregate without gap or double in commit order,
  batches whole, an acknowledgement exactly for what is stored, a stream hands
  out what is in its scope, once, in order and in the end all of it;
- sealing: declared fields are in clear at rest only where the code says so (no
  `PiiID`, an unregistered name), what was sealed and erased stays unreadable,
  what is not erased stays readable, the ledger agrees with the log, and a proof
  of erasure once given stays true;
- erasure ledger: one chain that never forks, holds what was acknowledged, checks
  out when it is read back and does not when it was tampered with;
- streams as applications read them: exactly what the store handed out, under
  the tenant the store is bound to whatever options are passed;
- read side: a woken waiter finds its own write in the read model, no wake-up
  is lost, the read model is the log replayed, reactors do not depend on
  projectors;
- leader election: one leader with a live session at a time, no lock left behind
  without one, somebody leads again in the end unless every replica was deposed
  without noticing, and no event is skipped when the work changes hands;
- export: the events in scope that carry the subject's `PiiID`, all of them and
  no others, by aggregate and in version order;
- key ring: a subject's key is its own, rotation loses none that it could have
  seen, a finished one leaves all of them readable, and it brings no forgotten
  one back, except one whose `Forget` came between Rotate's `Get` and `Put` of
  that subject.

## Modules

| Module | Models |
|---|---|
| `EventLog` | the contract of `es.EventStore` with no mutex, channel or transaction: a log that grows by whole batches and streams that hand it out in order |
| `MemStore` | `es/memstore/eventstore.go` with its callers; implements `EventLog` |
| `MemStoreProofs` | theorems about `MemStore`, and about the exports of `SubjectExport`, for every value of their constants |
| `PgStore` | `es/pgstore/eventstore.go` with its callers and a failing database |
| `PgStoreProofs` | theorems about `PgStore` for every value of its constants |
| `StreamRelay` | `PiiEventStore.StreamAll` and `TenantScopedStore` on top of the streams of `MemStore` |
| `StreamRelayProofs` | theorems about `StreamRelay`, resting on those about `MemStore` |
| `SubjectExport` | `FetchByPiiID` and `SubjectExporter.Export` over the states of `MemStore` |
| `PiiStore` | `es/pii_store.go` and `es/pii.go` between an event store, a key ring and a ledger |
| `Verifier` | `ErasureVerifier.Verify` beside the commits of `PiiStore` |
| `PiiStoreProofs` | theorems about `PiiStore` and `Verifier` for every value of their constants |
| `Projection` | `es/dispatcher.go` and `es/notifier.go` as `examples/user` wires them: a stream, its worker, a read model, a reactor and waiting command handlers |
| `ProjectionProofs` | theorems about `Projection` for every value of its constants |
| `KeyRotation` | `es/wrapped_keyring.go` over a key ring: `Put`, `Forget` and `Rotate` side by side |
| `KeyRotationProofs` | theorems about `KeyRotation` for every value of its constants |
| `ShredChain` | the records of the erasure ledger, their hashes, `CheckShredChain` |
| `ErasureLedger` | the ledger of `es.ErasureLedger` as `es/memstore` has it: one step per `Append` |
| `PgLedger` | `es/pgstore/erasure_ledger.go`: transactions on `pii_shreds`; implements `ErasureLedger` |
| `PgLedgerProofs` | theorems about `PgLedger` for every value of its constants |
| `Leader` | `es/pgstore/advisory_lock.go` with pools, sessions and their faults, and the worker that polls with a checkpoint while it leads |
| `LeaderProofs` | theorems about `Leader` for every value of its constants |
| `MCMemStore`, `MCStreamRelay`, `MCPgStore`, `MCPiiStore`, `MCProjection`, `MCKeyRotation`, `MCPgLedger`, `MCLeader` | the constants of the runs |

`EventLog` is what `MemStore` refines, `ErasureLedger` what `PgLedger` refines.
`StreamRelay` and `SubjectExport` extend `MemStore`, `Verifier` extends
`PiiStore`: they add the caller above to the component below. The other modules
stand beside each other. Each takes the component below it as atomic: `PiiStore`
and `Projection` an event store's `Commit` (the steps of which are `MemStore` and
`PgStore`), `KeyRotation` the calls of the underlying ring.

### MemStore

The store's fields keep their names. Events are shared pointers in the code;
the indexes, the channels and the consumers' histories hold positions of `all`,
which are the GlobalIDs. A writer is a goroutine in `Repository.Load`,
`RecordThat`, `Save`: `LoadAggregate`, then `CommitConflict` or `CommitBegin`,
one `AppendEvent` per event, one `SendLive` per event and subscriber, and
`CommitReturn`. An operation that takes `mu` and gives it back without blocking
is one step; `Commit` holds `mu` over blocking sends and is many. A stream is
the goroutine of `StreamAll` together with its consumer: `Subscribe` is the
snapshot and the registration under one hold of `mu`, `TakeLive` is `<-live`,
`Deliver` is `out <- e` on the unbuffered channel, `Cancel` the consumer's
cancellation, `ObserveCancel` the `ctx.Done()` arm of every select,
`Unsubscribe` the deferred clean-up. `offer` is the rest of the backlog slice,
or the one live event in hand; as both are in log order it is a set whose
smallest element goes first. Each recorded event carries a `PiiID` or none, as
`WithPiiID` was or was not passed (`carries`, then `piiID`), so that one
aggregate mixes indexed and unindexed events, as `ChangeName` of the example
does. `LoadedVersion` has the fall-back of `Load` to the
global aggregate, 0 stands for `ErrAggregateNotFound`.

### StreamRelay and SubjectExport

In `StreamRelay` the consumer of `MemStore`'s `out` is the goroutine of
`PiiEventStore.StreamAll`, and the application reads from that. `RelayReceives`
is `<-rawOut` with a successful `Open`, `OpenFails` the same with an error, after
which the goroutine has returned and `rawOut` has no reader; `RelayOffers` is
`out <- opened`, `RelayObservesCancel` the `ctx.Done()` arm, `RelayEnds` the end
of `rawOut`. What `Open` does is `PiiStore`; which event fails is left open.
The scope a stream of `MemStore` has is no longer chosen: `ResolvedScopes`
computes it from the options of the caller and the binding of a
`TenantScopedStore`, with `withTenant` and `ResolveStoreConfig` as the code has
them, and `RelayAssumption` says that this is the scope used.

`SubjectExport` adds no step. `FetchByPiiID` holds `mu` while it reads, and
`Export` works on the slice it returned, so an export at any moment is the value
of an operator in a state where `mu` is free. Their two loops are recursive
functions of the round (`out` and `after`), so that they can be proved about.
A history of an export may have holes in its versions, because events recorded
without `WithPiiID` are not in it; `ExportIsWhole` asks for exactly the events
that carry the `PiiID`, grouped and in version order, as `es/pii_lookup.go`
promises.

### PgStore

A writer's transaction is `AcquireLock`, `CheckVersion` or `Conflict`,
`InsertRow` per event, `CommitTx`. `seq` is the BIGSERIAL: it moves at insert
and never back. `uncommitted` holds the rows only their own transaction sees,
`table` the visible ones. `TransactionFails` stands for a failure of any
statement and for a lost connection or a cancelled context; `CommitAnswerLost`
for a COMMIT that took effect while `tx.Commit` returned an error. After an
error the aggregate still holds its buffer: `RetrySave` saves it again,
`GiveUp` drops it. A stream is `Open`, `Fetch` (one `FetchAfter` of `drain`,
whatever woke it), `Deliver` (hand out and move the cursor) and `StreamEnds`.
Two aggregates whose ids hash to one advisory lock only wait for each other
more often; the model gives each aggregate its own lock. `overtook` is history
for `OnlyOvertakenEventsAreSkipped`: at each fetch it notes which open
transactions hold an id below one that is fetched.

### PiiStore

One step per call of `Commit` to the key ring, the inner store and the ledger.
A key is a number, 0 is none; a declared field is the sequence of keys it was
encrypted with, so that sealing a sealed field again on a retried `Save` (the
buffer is sealed in place) is visible. What is recorded is a payload with a
`PiiID` or without; which payloads declare fields, ask for an erasure and are
known to the registry are three independent sets. `Sealable` and `Erases` are
the guards of the two loops of `Commit`: an event without a `PiiID` or with an
unregistered name is stored as it was recorded, and as an erasure request it is
acknowledged and erases nothing. The registry is the one the repository loads
with, as the programs wire it, so an unregistered name fails the next `Load` of
its aggregate. `tries` counts the Saves of a batch and guards nothing.

The inner store is atomic and keeps its own copy of events, as `pgstore` does;
`memstore` keeps the caller's pointers, so there a retried Save's sealing would
also touch what a Save with a lost answer had stored. `CallFails` is a call that fails without
effect, `AnswerLost` one that took effect and still returned an error; a
process that dies is one that fails and gives up. `Outcome` is `Open` with the
keys of the moment.

`Verifier` adds one auditor. `ReadLedger`, `CheckKey` and `FetchEvents` are the
three reads of `Verify`, `OpenNext` is one `Keys.Get` of `openAll` each, and
between any two of them commits go on. `proven` remembers how much of the log a
proof that held was about. `Verify` looks at events with `PiiFields`, that is at
what was sealed: fields stored in clear are outside it, as they are outside
`Forget`. The chain check is left to `PgLedger`.

### PgLedger

`Append` is `BeginAppend`, `TakeLock`, `ReadTail`, `Insert`, `CommitTx`; until
the last of these the row is a `draft` nobody else sees. `TransactionFails` is
a failure of any statement, after which an id may be used up; `CommitAnswerLost`
a COMMIT that took effect although `Append` returns an error. A hash is the
sequence of everything hashed into it, so that equal hashes mean equal inputs.
The clock has ticks: four to a second in the run, two of which make a
microsecond, to which a TIMESTAMPTZ column rounds (`Stored`). The hash is over
the whole second before the time passed, the column keeps the rounded time.
`ErasureLedger` is the same in one step.

### Leader

A connection is closed, pooled or pinned; what the server knows of it is `held`,
how often its session took the lock. `TakeConnection` is `db.Conn`;
`BecomeLeader`, `StayFollower`, `TryFails` and `GrantIsLost` are the outcomes of
`pg_try_advisory_lock`, `Release`, `ReleaseFindsItCut` and `ReleaseIsRefused`
those of `pg_advisory_unlock`. `conn.Close` (`Returned`) gives a connection back
to the pool with whatever its session holds, unless the driver found it broken.
`LoseConnection` cuts one without telling either side, `Reap` is the server
noticing, `PoolCloses` database/sql closing an idle one, `Crash` a replica that
dies and starts again. While it leads, a replica polls as the README and the
tests do: `GetCheckpoint`, `Fetch`, `Handle` one by one, `SaveCheckpoint`. A
leader whose connection was cut goes on working, because nothing tells it
(`Deposed`). `Commit` here makes events visible in the order of their ids, which
`pgstore` does not do across aggregates: `NothingIsSkipped` is about the
hand-over of the work and rests on that. The gap that `pg_stream_gap` shows
(an id that becomes visible after the cursor has passed it) exists for a worker
that polls with `FetchAfter` and a checkpoint as well.

### Projection

The goroutine of `main` that ranges over `StreamAll` and calls `Dispatch` is
`Receive` followed by one step per listener: `ProjectView` or `ProjectorFails`
(`readmodel.UserProjector`), `StartReactor` (the welcome mail, which then runs
on its own until `ReactorEnds`), `Notify` (`NotifierListener`); `SkipProjector`
is the `continue` after an earlier projector's error. `OpenNext` is the relaying
goroutine of `PiiEventStore.StreamAll`: it opens one event ahead of the worker,
with the keys of that moment. What the copy was opened to is taken as given: an
erasure between `OpenNext` and the projector does not reach it, and no property
says it should, as the projector shows an e-mail until the read model is rebuilt
in any case (`readmodel/memory.go:105`). A command handler saves (`Save`, and `Forget` for
an erasure request), answers at once or subscribes and waits (`Subscribe`,
`Wake`, `TimeOut`, `ReadView`). `lastProjected` and `waiters` are the notifier's
maps; as an event is known by its position in the log, so is the channel of the
handler that saved it. A view holds for each text the version it was taken from.
`Acceptable` leaves out new personal data after an erasure: that ends the stream
with a decryption error, which is the subject of `pii_replay`. Aggregate ids are
taken to be unique across tenants, because notifier and read model are keyed by
the id alone.

### KeyRotation

`stored` is the underlying ring, each call of which is atomic: a mutex in
`memstore`, one statement in `pgstore`. A stored blob is its label, the KEK it
was really wrapped under and the key. `WrappedKeyRing.Wrapper` is an
unsynchronised field: `Put` reads it for `Wrap` (`PutWraps`) and again for
`Label` (`PutLabels`) before it stores (`PutStores`), and `RotateReturns`
assigns it at any moment in between. `Rotate` is `RotateLists`, then per subject
`RotateGets` (get, decode, label check, unwrap) and `RotatePuts` (wrap, put);
`RotateRefuses` is any of its checks failing, `RotateCannotList` an error of
`Subjects`, `RotateFails` one of a later call, a `Put` that took effect included;
`PutFails` is a client's `Put` that returns an error. After an error the operator runs it again
with the same new wrapper, as its comment asks. `alone`, `settled`,
`meanwhile`, `forgotten` and `overtaken` are history for the properties and
guard nothing.

Each module holds a few definitions that are not in `Next`: variants of the
definition they precede as a plausible bug would have it, listed under `mutants`
in `PROJECT.json` with the property that notices them.

## Runs

All runs set `CHECK_DEADLOCK FALSE`: writers have a bounded number of commands
and a stream may stay idle, so a finished system stops.

| Run | Shows | Bounds |
|---|---|---|
| `mem_commit` | with every interleaving of racing commits, blocked sends, a cancelled stream: versions are gap free, acknowledgements exact, exports hold exactly what carries the `PiiID` under every scope, streams exact; `KeepsTheContract`: the store implements `EventLog` | 3 writers (2 of one tenant, 1 global), 1 aggregate id, 2 streams (one tenant, everything), channel of 1, batches up to 2, one command each; one writer passes a `PiiID` with some events only |
| `relay_live` | through both goroutines, applications receive exactly what the store hands out; a bound tenant wins over other options; every command ends and every event arrives unless a stream was abandoned (failed to open an event, or cancelled) | 3 writers (2 of one tenant, 1 of another), one aggregate id, 2 streams (one bound to a tenant and passing another one's option, one of everything and cancellable), channel of 1, one event each, 1 `Open` error |
| `mem_cancel` | finding: a cancelled stream may never close | 1 writer, 1 stream |
| `pg_commit` | with failing transactions and retries: versions gap free, batches atomic, deliveries in order, only events whose transaction was open when a later id was fetched are skipped | 3 writers (1 tenant, 2 unscoped, symmetric), 2 aggregates, 1 tenant stream, batches up to 2, fetch limit 2, 1 failure |
| `pg_stream_gap` | finding: the cursor passes an id that becomes visible later | 2 writers, 2 aggregates, no failure |
| `pii_commit` | with failing calls, retries and an audit: declared fields are stored in clear only without a `PiiID` or a registration, what was sealed and erased stays erased, ledger and log agree, a proof of erasure stays true | 2 symmetric writers, 2 aggregates of one subject, 3 batches in all out of five (data; a request; both; data without a `PiiID` and an event that declares fields and asks for erasure; an unregistered event and a request without a `PiiID`), 1 failure, 1 call of `Verify` |
| `pii_replay` | finding: data recorded after an erasure makes older events fail to open | 1 writer, 3 saves |
| `projection` | a woken handler finds its write unless the projector failed on exactly that event; no lost wake-up; the read model is the log replayed without the failed events; the mail goes out whatever the projector did; every waiter leaves in the end | 2 handlers, 2 users, 3 events, 1 failure of the projector |
| `rotation` | keys belong to one subject; no settled key is lost; which keys a finished rotation misses and which forgotten ones it can bring back | 2 clients, 2 subjects, 3 KEKs (all symmetric), 3 keys, 2 failed calls |
| `rotate_rerun` | finding: re-running a failed rotation does not converge | 1 client, 2 subjects, 2 KEKs, 1 failed call |
| `leader` | at most one leader with a live session; only a refused unlock strands the lock; no event is skipped across crashes, hand-overs and double leaders; the checkpoint falls back only after a cut connection; somebody leads again in the end unless an unlock was refused or every replica was deposed | a replica with 2 connections and one with 1, 3 events, fetch limit 2, 1 resignation, 2 cut connections, 1 crash, 1 refused statement |
| `shreds` | the chain never forks; it checks out except for records rounded into the next second; tampering shows; it holds what was acknowledged and nothing that failed; it implements `ErasureLedger`; every `Append` returns | 2 appenders with 2 appends each, 2 subjects, a time that the column rounds within its second and one that it rounds into the next, 1 failure or lost answer |

Why the bounds are enough for what they are meant to show: a channel of one is
full after one event, as one of 64 is after 64, and a fetch of two rows ends in
the middle of a batch, as one of 500 does. Two writers on one aggregate race; a
third one outside their tenant shows that streams and indexes mix scopes. A
batch of two is the smallest that can be torn. One failure with a retry covers
every statement it can hit; several failures of one writer only repeat it.
Three events are the fewest in which one user has two and another's comes
between, two handlers the fewest that wait for different versions of one user.
Three KEKs allow a second rotation that does not return to the first KEK; three
keys for two subjects allow a subject to be forgotten and issued a key again.
A replica with two connections is the smallest that can leave the lock on one
and try again on the other, two cut connections are enough to depose every
replica; three events with a fetch limit of two are the
fewest with a batch of two and one after it, so that a newer checkpoint exists
for an older one to overwrite. Two audits would only be two separate ones: what
one has in its local variables no other sees.

`OnlyOvertakenEventsAreSkipped` says precisely how far the gap of
`pg_stream_gap` goes: an event can only be missed when its transaction was still
open at the fetch that read an event of another aggregate with a higher id, which
was then handed out. A row visible to a fetch is never passed over, and within
one aggregate the lock held from the first insert to COMMIT keeps ids and commits
in one order.

`SealedUnlessUnmarked` says where declared fields are at rest in clear (the
no-op cases of `Seal` and the names `Commit` skips, and nowhere else) and that an
event is encrypted at most once per Save of its batch. `ErasureIsFinal` and
`ProofsStayTrue` are about what was sealed; `LedgerMatchesRequests` has a record
for an acknowledged request exactly if it carries a `PiiID` and is registered.

`LeadershipIsTakenOver` has two exceptions, both in its formula: a refused
unlock, and all replicas deposed at once. `AdvisoryLock` offers a leader no way
to notice that its session is gone, so when connections are cut under one
replica after the other, each stays a leader in its own eyes and none campaigns.

The type invariants of `MemStore`, `KeyRotation`, `Leader` and `PgLedger` are
theorems and therefore not repeated in the runs.

### Fairness

`MemStore!FairSpec`: goroutines are scheduled (weak fairness of a writer's and
of a stream goroutine's own steps) and a consumer that has not cancelled keeps
receiving, which is what `StreamAll` asks of its callers ("Callers must drain
both channels", `es/store.go`). `sync.Mutex` hands itself to waiters, and weak
fairness is enough because a writer that waits for `mu` competes with a bounded
number of commits. Nothing obliges a consumer to receive after it cancelled, to
subscribe or to cancel. `PgStore!FairSpec`: transactions go on, `PollInterval`
keeps passing, the consumer keeps receiving; nobody has to retry. `PiiStore` is
checked for safety only. `Projection!FairSpec`: the worker and the goroutine
that feeds it are scheduled (`WF_vars(WorkerStep)`; each waits for the other
after one event, so it does not matter which of them moves), while nothing
obliges a handler, a reactor or a timeout. `StreamRelay!RelaySpec`: as
`MemStore!FairSpec`, with the relaying goroutine scheduled too and the
application in the place of the consumer. `Leader!FairSpec`: followers keep
calling `TryAcquire` ("the caller should retry later"), leaders go on working,
and the server notices dead sessions in the end (TCP keepalive), which is what
the hand-over after a crash or a cut rests on; nobody has to resign and no pool has to
close a connection. `PgLedger!FairSpec`: a call under way goes on. `KeyRotation!FairSpec`: whoever
rotates goes on and runs `Rotate` again after an error, which is the premise of
the comment that `rotate_rerun` is about; clients may stop anywhere.

### Findings

- `mem_cancel`: `Commit` can block for ever on a cancelled stream's channel.
- `pg_stream_gap`: a stream of the Postgres store can pass by an event.
- `pii_replay`: data recorded after an erasure makes the subject's older events
  an error instead of the tolerated no-op.
- `rotate_rerun`: `Rotate` refuses what its failed predecessor re-wrapped.
  `SettledKeysSurvive` says what remains true: nothing is lost, every such key
  can still be opened by a ring made with the wrapper its label names.

Disagreements between code and text that no run of their own is about, with the
property that says how far the text goes:

- `es/advisory_lock.go:6` ("exactly one replica ever builds a given read model
  at a time"): a leader whose connection was cut is not told, and another one is
  elected once the server reaps the session; when all replicas were cut off one
  after the other, none is left to be elected (`LeadershipIsTakenOver`).
  `OneConnectedLeader`,
  `NothingIsSkipped` and `CheckpointFallsBackOnlyAfterCut` bound the damage: the
  checkpoint may fall back and events may be handled again, none is skipped.
- `pgstore/advisory_lock.go:78`: a refused unlock on a connection that stays up
  leaves the lock on a pooled session, where no other replica can take it until
  the pool closes that connection (`OnlyRefusedUnlocksStrand`).
- `es/pii_store.go:183-188` returns on an `Open` error without draining the inner
  stream, which `es/store.go:131` asks of callers: from then on a full channel
  can block every `Commit`, as in `mem_cancel`. `CommandsFinish` and
  `EventsReachApplications` hold up to that moment.
- `es/erasure_ledger.go:104` ("The implementation truncates erasedAt to whole
  seconds"): neither implementation does, only the hash. The Postgres column
  rounds to microseconds, so a record made in the last half microsecond of a
  second never passes `CheckShredChain` again (`ChecksOutUnlessRoundedOver`).
- `README.md:269-271` of the library ("catching any record that was altered or
  removed after the fact"): the last records can be removed, and a time changed
  within its second, unnoticed. `TamperingShows` states what is caught.
- `es/pii.go:109-120`: `Seal` reads the key ring and stores a generated key in
  two calls, so of two first writes for one subject one loses its key, and its
  events fail to open although nobody asked for an erasure.
- `README.md:399` of the library ("the read model is guaranteed to reflect this
  write"): `Dispatch` forgets a projector's error with the event, so the next
  event of the same aggregate wakes who waits for the failed one.
  `ReadYourWrites` exempts exactly the failed event.
- `memstore/eventstore.go:115` and `:70-79`: `Load` of a tenant-scoped writer
  falls back to the global aggregate while `Commit` compares versions under the
  tenant's own key, so such a writer is refused however often it reloads.
  `mem_commit` has this mix and checks safety under it; `relay_live`, which
  checks that commands finish, leaves it out.
- `es/dsar.go:43` ("byte-for-byte identical"): the document contains the time it
  was generated at.

## Proofs

Every invariant and every action property that a passing run checks is also a
theorem, for every value of the constants, from the named assumptions of the
modules and nothing else; so are both refinements. A theorem has the name of
what it says; the property it states is given in brackets where the names differ.

`MemStoreProofs` proves for every set of writers, streams, tenants and
aggregates, every channel capacity and batch size:

- `TypeCorrect`: `Spec => []TypeOK`; with it, no channel ever holds more than
  its capacity;
- `NoLostUpdate` (`GapFreeVersions`);
- `CommitsAreSerialized` (`OneCommitAtATime`): at most one writer is past its
  version check, and it is the one that holds `mu`;
- `StreamsLoseNothing` (`StreamsAreExact`);
- `AcknowledgementsAreExact` (`AcknowledgedOnceAndWhole`);
- `ImplementsContract`: `Spec => KeepsTheContract`, the refinement of `EventLog`;
- `ExportHoldsEverything` (`ExportIsWhole`), about `SubjectExport`.

`GapFreeVersions` is not inductive: that the next event gets the next version
needs that the version a running commit was checked against is still the
current one. `IInv` adds what that rests on: the GlobalID counter is the length
of the log (`CounterInv`), the committing writer is the holder of `mu`
(`MutexInv`), a send is under way only inside a commit (`PendingInv`), and the
holder's stream stands at `base + appended` (`CommitInv`). `LoadedVersion` and
`CurrentVersion` are brought to the length of the index by the lemma
`CurrentVersionIsLength`; each action is one step of `InvWriterStep` or
`InvStreamStep`. The other theorems add one invariant each to `IInv`:

- `StreamInv`: on its way to a consumer an event is in one of four places, with
  the commit that still has to send it, in the channel, in the goroutine's hands
  (`offer`) or handed out. These are four sets that follow each other in log
  order (`InOrder`) and together have no hole in the scope of the stream
  (`Complete`). This is what makes snapshot and registration under one hold of
  `mu` matter.
- `AckInv`: the events of an acknowledged command lie in one run `lo..hi` of the
  log, and those of the running one are its end, with the versions counted up
  from the one that was checked.
- `IndexInv` and `VersionCountsPositions`, for the refinement: the abstract log
  is `all` with what the running commit has still to append (`Promised`), so that
  `CommitBegin` is the abstract commit and `AppendEvent` a stutter; `Deliver` is
  the abstract delivery.
- `SubjectIndexInv`: `byPii` holds the positions of the events that carry a
  `PiiID`, each once, in log order. The loops of `FetchByPiiID` and `Export` are then followed
  round by round. That such a loop exists as a function (`LoopExists`) and that
  what each round preserves holds at its end (`EveryRound`) is shown by a least
  counterexample.

The assumptions are the three named ones of `MemStore`: the scopes are functions
into the tenants, the bounds are naturals, "nobody" is nobody.

`StreamRelayProofs` proves on top of that `RelaysAreConsumers`
(`RelaySpec => Spec`: the relays do nothing a consumer of the store may not do,
so every theorem above holds below them), `RelayLosesNothing` (`RelayIsExact`)
and `BoundTenantAlwaysWins` (`BoundTenantWins`). `RelayInv` says where the last
event handed out is: the application has everything, or all but the one in the
relay's hands, or all but the one it dropped when it returned, because it failed
to open or the consumer had cancelled. `BoundTenantAlwaysWins` rests on
`LastOptionWins`: the options are applied in order and the binding last. The
assumptions are `RelayAssumption` and those of `MemStore`.

`PgStoreProofs` proves for every set of writers, streams, aggregates and tenants
and any number of saves and failures `TypeCorrect`, `NoVersionLostOrDoubled`
(`GapFreeVersions`), `CommitIsAtomic` (`BatchesAreAtomic`),
`SkippedOnlyWhenOvertaken` (`OnlyOvertakenEventsAreSkipped`) and
`StreamsAreOrdered` (`DeliveredInOrder`). Besides these, `IInv` says:

- `IdsInv`, `LockInv`: the sequence names each row once, committed or not; the
  advisory lock of an aggregate is held by the writer whose transaction is past
  taking it;
- `TransactionInv`: the rows of an open transaction are the next versions of its
  aggregate, in id order, beyond everything committed of it. COMMIT therefore
  extends the aggregate without hole; a rollback has to undo nothing;
- `RetryInv`: a batch that is stored makes the version query refuse its retry,
  which is why an answer lost at COMMIT does not store it twice;
- `CursorInv`, `OvertookInv`, `PassedInv`: what a stream has fetched lies beyond
  its cursor; a row in scope that a fetch went past was in an open transaction at
  that moment and so, by the lock held from the first insert to COMMIT, belongs
  to another aggregate; a row the cursor has passed was handed out or went by in
  that way. This bounds the gap that `pg_stream_gap` shows.

The assumptions are `PgScopesAssumption` and `PgBoundsAssumption`.

`PiiStoreProofs` proves for every set of writers, aggregates, subjects and
payloads, all batches and any number of saves and failures `TypeCorrect`,
`AtRestIsSealed` (`SealedUnlessUnmarked`), `LedgerIsExact` (`LedgerMatchesRequests`) and
`ForgetIsFinal` (`ErasureIsFinal`). The last one needs that a key which was
forgotten does not come back. `FreshInv` says that a key which was generated and
not yet put is in no ring and under no field, so that a slow `Put` cannot bring
back a key that opens old data; `SealingInv` that what a writer has passed is
sealed if it takes a key, and that nothing it has still to pass has a layer for
the present Save; `RestInv` the same of what is stored; `GoneInv` that nothing
sealed before a recorded request, or one whose `Forget`
has been called, opens with the subject's present key. `BatchInv` follows the
loop after the commit: the batch of a shredding writer lies in the log, the
ledger has exactly the requests it has passed, and the batches of two writers do
not overlap. `LedgerInv` is `LedgerMatchesRequests` with the guard of the second
loop in the place of its three conditions.

For `Verifier` the lemma `AuditIsReadOnly` is `AuditSpec => Spec`, from which
`AuditKeepsTheStoresSound` has all of the above beside a running audit.
`AuditTypeCorrect` (`AuditTypeOK`) and `ProofsHoldForGood` (`ProofsStayTrue`) rest
on `OpenedInv`, that what an audit has failed to open stays lost while it goes
on, and `ProvenInv`, that what lies before a proof stays lost after it. The
assumptions are `PiiAssumption` and `AuditAssumption`.

`ProjectionProofs` proves for every set of handlers and users and any number of
events and failures `TypeCorrect`, `NoWakeupIsLost` (`NoLostWakeup`),
`WokenReadTheirWrites` (`ReadYourWrites`), `ReadModelIsReplay`
(`ViewIsReplayOfLog`) and `ReactorsAreIndependent`
(`MailDespiteFailedProjector`). That a woken handler finds its write goes
through three invariants: its channel was closed because its event was
projected (`ClosedInv`), the notifier knows only of versions whose `Dispatch` is
over (`NotifiedInv`), and an event whose projector's turn has come shows in the
view unless the projector failed on it (`ReflectedInv`). `OwnInv` says that a
handler between `Save` and `WaitForEvent` has a channel that nobody has closed,
which is the race `NoLostWakeup` is about; `TodoInv` what can remain of one
`Dispatch`; `ReplayInv` and `MailInv` carry their properties through the middle
of one. The assumption is `ProjectionAssumption`.

`KeyRotationProofs` proves for every set of clients, subjects and KEKs and any
number of keys and failures all the invariants of the run `rotation`:
`TypeCorrect`, `OneKeyPerSubject` (`KeysAreNotShared`), `RotationLosesNoKey`
(`SettledKeysSurvive`), `RotationIsComplete` (`OnlyKeysPutMeanwhileAreMissed`)
and `ForgottenUnlessOvertaken` (`OnlyOvertakenForgetsAreUndone`). None of them
is inductive, because a key travels: it is with a `Put`, in the ring, or in
Rotate's hands. `KeyInv` therefore speaks of all three places, and of keys not
issued yet; `HeldInv` says that what Rotate holds is what it will have to be
when it is put back; `PassedInv` that the subjects Rotate has passed are wrapped
under its target unless they were put since, which is what completeness comes
from when the wrapper switches; `AloneInv` that a `Put` which met no Rotate has
seen one wrapper only, so that its blob's label tells the truth; `PutInv` that a
`Put` holds what its step says. There is one lemma per action, one step per
conjunct. The assumptions are `RotationAssumption` (there is a wrapper, `None`
is neither wrapper nor subject, the bounds are naturals) and `NoneIsNoBlob`.

`LeaderProofs` proves for every set of replicas and connections and any number
of faults `TypeCorrect`, `MutualExclusion` (`OneConnectedLeader`),
`ResumesWithoutAHole` (`NothingIsSkipped`), `NoStrandedLock`
(`OnlyRefusedUnlocksStrand`) and `CheckpointAdvances`, the action property
`CheckpointFallsBackOnlyAfterCut`. That a connected leader holds the
lock is not inductive: it must also be known that its connection is its own.
`OwnInv` says that the connection a replica campaigns or leads with belongs to
its pool and is pinned, so neither the pool nor another replica ends its session;
`ServerInv` that one session at most holds the lock; `HolderInv` is the first
half of the property. `NothingIsSkipped` needs `JobInv`, that only leaders are at
work, and the types; it holds for a deposed leader too, because a checkpoint is
saved only when the cursor has reached what was fetched. Advisory locks are
counted, so `NoStrandedLock` needs to count too: a working session holds the
lock more often than unlocks were refused only while its leader is in office
(`StrandInv`). `ResumeInv` says that as long as no connection was cut, the
replica at work, of which there is one then, is at or beyond the checkpoint. The
assumption is `LeaderAssumption`.

`PgLedgerProofs` proves for every set of appenders, subjects, origins and times
and any number of failures `TypeCorrect`, `NoFork` (`ChainNeverForks`),
`AppendsAreExact` (`AppendedOnceIfAcknowledged`), `ChecksOutOnReading`
(`ChecksOutUnlessRoundedOver`), `TamperingIsCaught` (`TamperingShows`) and
`ImplementsLedger`: `Spec => KeepsTheLedger`, the refinement of `ErasureLedger`.
That the new row will be linked to the row before it needs that the tail its
transaction read is still the newest row when it commits: `HolderInv` says that
of the transaction in its critical section, with the type invariant's clause that
this is the one that has the lock, and `IdsInv` that no id is beyond the
sequence. `CallsInv` adds that a call under way has no row yet, `RowsInv` that a
row is what `Append` makes of its arguments. What is read back is a sequence
made with `ORDER BY id`: a row stands where the number of rows below it says, and
each position is the rank of exactly one row (`OrderOK`, by the pigeonhole
principle); the commit adds a row at its end, which is the step of
`ErasureLedger`. Hashes are injective by how `ShredChain` builds them.
The assumptions are `ClockAssumption` and `LedgerAssumption`.

The theorems of the library that take an operator (induction, recursive
definitions) are out of the provers' reach. Where an induction was needed, it goes
by a least counterexample (`WFMin`, strict subsets of a finite set being well
founded); the maximum of a finite set is found in the same way.

Only model-checked: what must eventually happen (`CommandsFinish`,
`EventsReachApplications`, `WaitersAreWoken`, `LeadershipIsTakenOver`,
`AppendsReturn`), as the prover has no rule for fairness and `ENABLED`; and the
four runs that show a finding.

## Not modelled

JSON, SQL text and DDL (apart from the tables and constraints `Commit` relies
on), row level security (it repeats the WHERE clauses), AES-GCM (a key opens
what it sealed, another one fails) and SHA-256 (injective), record options, the
registry, the layout of the export document, the grant of the bypass role.
`memstore.AdvisoryLock` is a no-op. The ledger example (`examples/ledger`) is a
script that calls the components above one after the other, and its account
rules are arithmetic of its own. Advisory lock keys are 32-bit hashes in one
key space; the models take different names to have different keys.

## What could come next

1. `FetchAfter` with its checkpoints over `memstore` as actions of their own (in
   `Leader` they are the worker's), and the accounts of the ledger example under
   concurrent transfers.
2. Proofs across modules: that the event store which `PiiStore` and `Projection`
   take as one step is the one `EventLog` specifies, and which part of `EventLog`
   `PgStore` keeps (all but the completeness of its streams).
