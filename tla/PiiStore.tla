------------------------------ MODULE PiiStore ------------------------------
(***************************************************************************)
(* es/pii_store.go and es/pii.go: PiiEventStore around an EventStore, a     *)
(* KeyRing and an ErasureLedger.                                            *)
(*                                                                          *)
(* Commit seals the batch event by event (one KeyRing.Get and, for a        *)
(* subject without a key, one Put each), commits it to the inner store,     *)
(* then for every erasure request in it forgets the subject's key and       *)
(* appends a ledger record.  The three stores share no lock and no          *)
(* transaction, so every call is a step of its own.  Any call may fail:     *)
(* Commit returns the error and leaves behind what it did so far; a caller  *)
(* that dies at that point is one that fails and gives up.                  *)
(*                                                                          *)
(* A key is a number, 0 is "no key".  A declared PII field is the sequence  *)
(* of keys it was encrypted with, innermost first: <<>> is plaintext.       *)
(***************************************************************************)
EXTENDS Naturals, Sequences, FiniteSets

CONSTANTS
  Writers,        \* callers of PiiEventStore.Commit
  Aggregates,     \* aggregate ids
  NoAggregate,    \* the writer has no Save under way
  Subjects,       \* data subjects (PiiID)
  NoSubject,      \* the event was recorded without WithPiiID
  Payloads,       \* event names
  Declares,       \* those whose payload declares PII fields
  Requests,       \* those whose payload implements RequestsErasure
  Registered,     \* those the registry has a factory for
  Batches,        \* the batches saved: non-empty sequences of recordings
  MaxSaves,       \* bound: batches recorded
  MaxFailures     \* bound: calls that fail

(* What RecordThat is given: a payload and, or not, a WithPiiID.            *)
Recordings == [payload : Payloads, pii : Subjects \cup {NoSubject}]

ASSUME PiiAssumption ==
  /\ NoAggregate \notin Aggregates
  /\ NoSubject \notin Subjects
  /\ Batches \subseteq Seq(Recordings) \ {<<>>}
  /\ MaxSaves \in Nat
  /\ MaxFailures \in Nat

VARIABLES
  log,            \* the inner store's events
  key,            \* KeyRing: subject -> key, 0 for none
  issued,         \* keys generated so far
  ledger,         \* ErasureLedger: <<subject, originGlobalID>> records
  pc,             \* writer: where in Commit it is
  agg,            \* writer: the aggregate it saves
  base,           \* writer: expectedVersion
  buf,            \* writer: its uncommitted events, sealed in place
  at,             \* writer: index of the loop Commit is in
  fresh,          \* writer: the key it generated and is about to Put
  first,          \* writer: GlobalID of the first event of its batch
  tries,          \* writer: Saves of its batch so far (history)
  saves,          \* batches recorded so far
  failures,       \* calls that failed so far
  acked           \* GlobalIDs of erasure requests whose Save returned nil

storeVars  == <<log, key, issued, ledger>>
writerVars == <<pc, agg, base, buf, at, fresh, first, tries, saves, failures,
                acked>>
vars == <<storeVars, writerVars>>

-----------------------------------------------------------------------------
(* Reading: PiiAnonymizer.Open with the keys of this moment.                *)

(* Open decrypts once, with the subject's present key.  No manifest: as it  *)
(* is.  No key: unrecoverable.  Another key: decryption error.  "garbled":  *)
(* no error, yet not the plaintext.                                         *)
Outcome(e) ==
  IF e.sealed = <<>> THEN "plain"
  ELSE IF key[e.pii] = 0 THEN "unrecoverable"
  ELSE IF e.sealed[Len(e.sealed)] # key[e.pii] THEN "error"
  ELSE IF Len(e.sealed) = 1 THEN "plain" ELSE "garbled"

EventsOf(a) == {p \in DOMAIN log : log[p].agg = a}

CurrentVersion(a) == Cardinality(EventsOf(a))

(* Load, as Repository sees it: one event that does not open, or whose name *)
(* the registry (the store's own, as the programs wire it) does not know,   *)
(* fails the whole load.                                                    *)
Loads(a) ==
  \A p \in EventsOf(a) :
    log[p].payload \in Registered /\ Outcome(log[p]) # "error"

-----------------------------------------------------------------------------
(* A writer loads an aggregate and records a batch.  If Load fails the      *)
(* command fails and nothing changes.                                       *)
LoadAndRecord(w) ==
  /\ pc[w] = "idle"
  /\ saves < MaxSaves
  /\ \E a \in Aggregates, batch \in Batches :
       /\ Loads(a)
       /\ agg' = [agg EXCEPT ![w] = a]
       /\ base' = [base EXCEPT ![w] = CurrentVersion(a)]
       /\ buf' = [buf EXCEPT ![w] =
            [i \in 1..Len(batch) |-> [payload |-> batch[i].payload,
                                     pii |-> batch[i].pii, sealed |-> <<>>]]]
  /\ pc' = [pc EXCEPT ![w] = "sealing"]
  /\ at' = [at EXCEPT ![w] = 1]
  /\ tries' = [tries EXCEPT ![w] = 1]
  /\ saves' = saves + 1
  /\ UNCHANGED <<fresh, first, failures, acked, storeVars>>

(* w's Save is over; what it kept in local variables is gone.               *)
BecomesIdle(w) ==
  /\ pc' = [pc EXCEPT ![w] = "idle"]
  /\ agg' = [agg EXCEPT ![w] = NoAggregate]
  /\ buf' = [buf EXCEPT ![w] = <<>>]
  /\ base' = [base EXCEPT ![w] = 0]
  /\ at' = [at EXCEPT ![w] = 1]
  /\ first' = [first EXCEPT ![w] = 0]
  /\ tries' = [tries EXCEPT ![w] = 0]

Current(w) == buf[w][at[w]]

(* payloadFor, then the type assertion of either loop, and Seal's (the      *)
(* second loop's) look at PiiID: what neither store nor ring hears of.      *)
Sealable(e) ==
  e.payload \in Declares /\ e.payload \in Registered /\ e.pii # NoSubject
Erases(e) ==
  e.payload \in Requests /\ e.payload \in Registered /\ e.pii # NoSubject

SealedWith(w, k) ==
  [buf EXCEPT ![w][at[w]].sealed = Append(@, k)]

(* An unregistered name, a payload without declared PII fields or an event  *)
(* without a PiiID: the event goes into the log as it was recorded.         *)
SealSkips(w) ==
  /\ pc[w] = "sealing"
  /\ at[w] <= Len(buf[w])
  /\ ~Sealable(Current(w))
  /\ at' = [at EXCEPT ![w] = @ + 1]
  /\ UNCHANGED <<pc, agg, base, buf, fresh, first, tries, saves, failures,
                 acked, storeVars>>

(* KeyRing.Get finds a key: the field is encrypted with it, in place.       *)
SealWithKey(w) ==
  /\ pc[w] = "sealing"
  /\ at[w] <= Len(buf[w])
  /\ Sealable(Current(w))
  /\ key[Current(w).pii] # 0
  /\ buf' = SealedWith(w, key[Current(w).pii])
  /\ at' = [at EXCEPT ![w] = @ + 1]
  /\ UNCHANGED <<pc, agg, base, fresh, first, tries, saves, failures, acked,
                 storeVars>>

(* Mutation: the key is the one issued last.                                *)
NotCounted == issued
OneMoreIssued == issued + 1

(* KeyRing.Get finds none: a key is generated.                              *)
SealGeneratesKey(w) ==
  /\ pc[w] = "sealing"
  /\ at[w] <= Len(buf[w])
  /\ Sealable(Current(w))
  /\ key[Current(w).pii] = 0
  /\ issued' = OneMoreIssued
  /\ fresh' = [fresh EXCEPT ![w] = issued + 1]
  /\ pc' = [pc EXCEPT ![w] = "putting"]
  /\ UNCHANGED <<log, key, ledger, agg, base, buf, at, first, tries, saves,
                 failures, acked>>

(* KeyRing.Put, whatever the ring holds by now; the field is encrypted with *)
(* the generated key.                                                       *)
SealPutsKey(w) ==
  /\ pc[w] = "putting"
  /\ key' = [key EXCEPT ![Current(w).pii] = fresh[w]]
  /\ buf' = SealedWith(w, fresh[w])
  /\ fresh' = [fresh EXCEPT ![w] = 0]
  /\ at' = [at EXCEPT ![w] = @ + 1]
  /\ pc' = [pc EXCEPT ![w] = "sealing"]
  /\ UNCHANGED <<log, issued, ledger, agg, base, first, tries, saves, failures,
                 acked>>

(* Mutation: the last event is not sealed.                                  *)
LastNotSealed(w) == at[w] >= Len(buf[w])
AllSealed(w) == at[w] > Len(buf[w])

(* The inner log with w's batch.                                            *)
Stored(w) ==
  log \o [i \in 1..Len(buf[w]) |->
     [agg |-> agg[w], payload |-> buf[w][i].payload, pii |-> buf[w][i].pii,
      sealed |-> buf[w][i].sealed, tries |-> tries[w]]]

(* The inner Commit: the batch enters the log whole.                        *)
InnerCommit(w) ==
  /\ pc[w] = "sealing"
  /\ AllSealed(w)
  /\ CurrentVersion(agg[w]) = base[w]
  /\ log' = Stored(w)
  /\ first' = [first EXCEPT ![w] = Len(log) + 1]
  /\ at' = [at EXCEPT ![w] = 1]
  /\ pc' = [pc EXCEPT ![w] = "shredding"]
  /\ UNCHANGED <<key, issued, ledger, agg, base, buf, fresh, tries, saves,
                 failures, acked>>

(* The inner Commit reports ErrConcurrencyConflict.                         *)
InnerConflict(w) ==
  /\ pc[w] = "sealing"
  /\ AllSealed(w)
  /\ CurrentVersion(agg[w]) # base[w]
  /\ BecomesIdle(w)
  /\ UNCHANGED <<fresh, saves, failures, acked, storeVars>>

(* The second loop passes over what is not an erasure request.              *)
ShredSkips(w) ==
  /\ pc[w] = "shredding"
  /\ at[w] <= Len(buf[w])
  /\ ~Erases(Current(w))
  /\ at' = [at EXCEPT ![w] = @ + 1]
  /\ UNCHANGED <<pc, agg, base, buf, fresh, first, tries, saves, failures,
                 acked, storeVars>>

(* Mutation: Forget leaves the key.                                         *)
KeyKept(w) == key[Current(w).pii]
Forgotten(w) == 0

(* KeyRing.Forget.                                                          *)
ForgetKey(w) ==
  /\ pc[w] = "shredding"
  /\ at[w] <= Len(buf[w])
  /\ Erases(Current(w))
  /\ key' = [key EXCEPT ![Current(w).pii] = Forgotten(w)]
  /\ pc' = [pc EXCEPT ![w] = "recording"]
  /\ UNCHANGED <<log, issued, ledger, agg, base, buf, at, fresh, first, tries,
                 saves, failures, acked>>

(* The record of the erasure request, with its GlobalID.                    *)
ShredRecord(w) == <<Current(w).pii, first[w] + at[w] - 1>>

(* ErasureLedger.Append.                                                    *)
AppendLedger(w) ==
  /\ pc[w] = "recording"
  /\ ledger' = Append(ledger, ShredRecord(w))
  /\ at' = [at EXCEPT ![w] = @ + 1]
  /\ pc' = [pc EXCEPT ![w] = "shredding"]
  /\ UNCHANGED <<log, key, issued, agg, base, buf, fresh, first, tries, saves,
                 failures, acked>>

(* Mutation: the last event is not looked at.                               *)
LastNotShredded(w) == at[w] >= Len(buf[w])
AllShredded(w) == at[w] > Len(buf[w])

(* Commit returns nil and Save clears the buffer.                           *)
CommitReturns(w) ==
  /\ pc[w] = "shredding"
  /\ AllShredded(w)
  /\ acked' = acked \cup {first[w] + i - 1 :
       i \in {j \in DOMAIN buf[w] : buf[w][j].payload \in Requests}}
  /\ BecomesIdle(w)
  /\ UNCHANGED <<fresh, saves, failures, storeVars>>

(* KeyRing.Get or Put, the inner Commit, Forget or Append fails, without    *)
(* effect: Commit returns the error.                                        *)
CallFails(w) ==
  /\ pc[w] \in {"sealing", "putting", "shredding", "recording"}
  /\ failures < MaxFailures
  /\ failures' = failures + 1
  /\ fresh' = [fresh EXCEPT ![w] = 0]
  /\ pc' = [pc EXCEPT ![w] = "failed"]
  /\ UNCHANGED <<agg, base, buf, at, first, tries, saves, acked, storeVars>>

(* A call takes effect in its store but its answer is lost: KeyRing.Put,    *)
(* the inner Commit, Forget or Append, and again Commit returns an error.   *)
AnswerLost(w) ==
  /\ failures < MaxFailures
  /\ failures' = failures + 1
  /\ \/ /\ pc[w] = "putting"
        /\ key' = [key EXCEPT ![Current(w).pii] = fresh[w]]
        /\ UNCHANGED <<log, ledger>>
     \/ /\ pc[w] = "sealing"
        /\ AllSealed(w)
        /\ CurrentVersion(agg[w]) = base[w]
        /\ log' = Stored(w)
        /\ UNCHANGED <<key, ledger>>
     \/ /\ pc[w] = "shredding"
        /\ at[w] <= Len(buf[w])
        /\ Erases(Current(w))
        /\ key' = [key EXCEPT ![Current(w).pii] = Forgotten(w)]
        /\ UNCHANGED <<log, ledger>>
     \/ /\ pc[w] = "recording"
        /\ ledger' = Append(ledger, ShredRecord(w))
        /\ UNCHANGED <<log, key>>
  /\ fresh' = [fresh EXCEPT ![w] = 0]
  /\ pc' = [pc EXCEPT ![w] = "failed"]
  /\ UNCHANGED <<issued, agg, base, buf, at, first, tries, saves, acked>>

(* The aggregate keeps its buffer after an error: saving it again seals the *)
(* same events again ...                                                    *)
RetrySave(w) ==
  /\ pc[w] = "failed"
  /\ tries' = [tries EXCEPT ![w] = @ + 1]
  /\ at' = [at EXCEPT ![w] = 1]
  /\ pc' = [pc EXCEPT ![w] = "sealing"]
  /\ UNCHANGED <<agg, base, buf, fresh, first, tries, saves, failures, acked,
                 storeVars>>

(* ... or the caller drops it, or is gone.                                  *)
GiveUp(w) ==
  /\ pc[w] = "failed"
  /\ BecomesIdle(w)
  /\ UNCHANGED <<fresh, saves, failures, acked, storeVars>>

-----------------------------------------------------------------------------
Init ==
  /\ log = <<>>
  /\ key = [x \in Subjects |-> 0]
  /\ issued = 0
  /\ ledger = <<>>
  /\ pc = [w \in Writers |-> "idle"]
  /\ agg = [w \in Writers |-> NoAggregate]
  /\ base = [w \in Writers |-> 0]
  /\ buf = [w \in Writers |-> <<>>]
  /\ at = [w \in Writers |-> 1]
  /\ fresh = [w \in Writers |-> 0]
  /\ first = [w \in Writers |-> 0]
  /\ tries = [w \in Writers |-> 0]
  /\ saves = 0
  /\ failures = 0
  /\ acked = {}

Next == \E w \in Writers :
  \/ LoadAndRecord(w)
  \/ SealSkips(w)
  \/ SealWithKey(w)
  \/ SealGeneratesKey(w)
  \/ SealPutsKey(w)
  \/ InnerCommit(w)
  \/ InnerConflict(w)
  \/ ShredSkips(w)
  \/ ForgetKey(w)
  \/ AppendLedger(w)
  \/ CommitReturns(w)
  \/ CallFails(w)
  \/ AnswerLost(w)
  \/ RetrySave(w)
  \/ GiveUp(w)

Spec == Init /\ [][Next]_vars

-----------------------------------------------------------------------------
(* Properties.                                                              *)

(* Every variable has its type; the ring holds issued keys only.            *)
TypeOK ==
  /\ log \in Seq([agg : Aggregates, payload : Payloads,
                pii : Subjects \cup {NoSubject}, sealed : Seq(1..issued),
                tries : Nat])
  /\ key \in [Subjects -> 0..issued]
  /\ issued \in Nat
  /\ ledger \in Seq(Subjects \X Nat)
  /\ pc \in [Writers -> {"idle", "sealing", "putting", "shredding",
                         "recording", "failed"}]
  /\ agg \in [Writers -> Aggregates \cup {NoAggregate}]
  /\ base \in [Writers -> Nat]
  /\ buf \in [Writers -> Seq([payload : Payloads,
                               pii : Subjects \cup {NoSubject},
                               sealed : Seq(1..issued)])]
  /\ at \in [Writers -> Nat \ {0}]
  /\ fresh \in [Writers -> 0..issued]
  /\ first \in [Writers -> Nat]
  /\ tries \in [Writers -> Nat]
  /\ saves \in 0..MaxSaves
  /\ failures \in 0..MaxFailures
  /\ acked \subseteq Nat

(* Data at rest: after whatever failed and retried Saves a declared PII     *)
(* field is in the inner store in clear exactly when the event carries no   *)
(* PiiID or its name is not registered, and it is encrypted at most once    *)
(* for every time its batch was saved: only a repeated Save stores data     *)
(* that Open no longer gives back.                                          *)
SealedUnlessUnmarked ==
  \A p \in DOMAIN log :
    log[p].payload \in Declares =>
      /\ log[p].sealed = <<>> <=>
           log[p].pii = NoSubject \/ log[p].payload \notin Registered
      /\ Len(log[p].sealed) <= log[p].tries

(* Forget is final: once an erasure is on the ledger nothing that was       *)
(* sealed for the subject up to the request ever opens again, although      *)
(* sealing and shredding are not serialized and new keys may be issued.     *)
(* What was stored in clear is out of Forget's reach.                       *)
ErasureIsFinal ==
  \A n \in DOMAIN ledger :
    \A p \in 1..ledger[n][2] :
      log[p].sealed # <<>> /\ log[p].pii = ledger[n][1]
        => Outcome(log[p]) \notin {"plain", "garbled"}

(* The ledger says what happened: a record names the GlobalID of a          *)
(* committed erasure request of its subject, at most one per request; an    *)
(* acknowledged request has its record, unless it names no subject or is    *)
(* not registered: such a request is acknowledged and erases nothing.       *)
LedgerMatchesRequests ==
  /\ \A n \in DOMAIN ledger :
       /\ ledger[n][2] \in DOMAIN log
       /\ log[ledger[n][2]].payload \in Requests
       /\ log[ledger[n][2]].pii = ledger[n][1]
       /\ \A m \in DOMAIN ledger : ledger[m][2] = ledger[n][2] => m = n
  /\ \A q \in acked :
       (\E n \in DOMAIN ledger : ledger[n][2] = q) <=>
         log[q].pii # NoSubject /\ log[q].payload \in Registered

(* "replaying an aggregate must keep working for every OTHER field/event    *)
(* even after one subject has been crypto-shredded" (es/pii.go): opening a  *)
(* stored event never fails.                                                *)
ReplayKeepsWorking ==
  \A p \in DOMAIN log : Outcome(log[p]) # "error"

=============================================================================
