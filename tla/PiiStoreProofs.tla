---------------------------- MODULE PiiStoreProofs ----------------------------
(***************************************************************************)
(* Proofs about PiiStore, for every number of writers, aggregates and       *)
(* subjects, all batches and every bound on saves and failures, and about   *)
(* Verifier, which adds an auditor: what holds of the stores holds beside   *)
(* it too, and what Verify proves stays true.                               *)
(***************************************************************************)
EXTENDS Verifier, FiniteSetTheorems, SequenceTheorems, TLAPS

(* The key a field was encrypted with last, 0 for a field in clear.         *)
LastKey(sealed) == IF sealed = <<>> THEN 0 ELSE sealed[Len(sealed)]

(* What the loop has passed, and no more layers than n.                     *)
Sealed(e) == Sealable(e) => e.sealed # <<>>
AtMost(e, n) == Len(e.sealed) <= n /\ (e.sealed # <<>> => Sealable(e))

(* A writer inside Save has an aggregate, is putting a key for an event     *)
(* that takes one, and has sealed what it passed: once more than the Saves  *)
(* before this one did.                                                     *)
SealingInv ==
  \A w \in Writers :
    /\ pc[w] # "idle" => agg[w] \in Aggregates
    /\ pc[w] = "putting" => at[w] <= Len(buf[w]) /\ Sealable(Current(w))
    /\ pc[w] # "idle" => \A i \in DOMAIN buf[w] : AtMost(buf[w][i], tries[w])
    /\ pc[w] \in {"sealing", "putting"} =>
         \A i \in DOMAIN buf[w] :
           IF i < at[w] THEN Sealed(buf[w][i])
                        ELSE Len(buf[w][i].sealed) < tries[w]

(* In the log an event is sealed if it takes a key, once per Save at most.  *)
AtRest(e) == Sealed(e) /\ AtMost(e, e.tries)
RestInv == \A p \in DOMAIN log : AtRest(log[p])

(* k is not in the ring, and no field was encrypted with it last.           *)
NotUsed(k) ==
  /\ \A x \in Subjects : key[x] # k
  /\ \A p \in DOMAIN log : LastKey(log[p].sealed) # k
  /\ \A w \in Writers : \A i \in DOMAIN buf[w] : LastKey(buf[w][i].sealed) # k

(* A key that was generated and not put yet is nowhere else.                *)
FreshInv ==
  \A w \in Writers :
    /\ pc[w] = "putting" <=> fresh[w] # 0
    /\ fresh[w] # 0 => NotUsed(fresh[w])
    /\ \A v \in Writers : v # w /\ fresh[w] # 0 => fresh[v] # fresh[w]

(* w's batch is in the log and its erasure requests are being carried out.  *)
Shredding(w) == pc[w] \in {"shredding", "recording"}

(* The GlobalID of the i-th event of w's batch.                             *)
Position(w, i) == first[w] + i - 1

(* w's batch lies in the log.                                               *)
InTheLog(w) ==
  /\ first[w] > 0
  /\ first[w] + Len(buf[w]) <= Len(log) + 1
  /\ \A i \in DOMAIN buf[w] :
       /\ log[Position(w, i)].payload = buf[w][i].payload
       /\ log[Position(w, i)].pii = buf[w][i].pii

(* The ledger has the requests w has passed and no later one.               *)
Recorded(w) ==
  /\ pc[w] = "recording" => at[w] \in DOMAIN buf[w] /\ Erases(Current(w))
  /\ \A i \in DOMAIN buf[w] :
       i < at[w] /\ Erases(buf[w][i]) =>
         \E n \in DOMAIN ledger : ledger[n][2] = Position(w, i)
  /\ \A n \in DOMAIN ledger : \A i \in DOMAIN buf[w] :
       i >= at[w] => ledger[n][2] # Position(w, i)

(* The batches of v and w do not overlap.                                   *)
Apart(v, w) ==
  \/ first[v] + Len(buf[v]) <= first[w]
  \/ first[w] + Len(buf[w]) <= first[v]

(* What Shredding means.                                                    *)
BatchInv ==
  \A w \in Writers : Shredding(w) =>
    /\ InTheLog(w)
    /\ Recorded(w)
    /\ \A v \in Writers : v # w /\ Shredding(v) => Apart(v, w)

(* No sealed data of x up to position q opens with x's present key.         *)
Gone(x, q) ==
  \A p \in DOMAIN log :
    p <= q /\ log[p].sealed # <<>> /\ log[p].pii = x
      => LastKey(log[p].sealed) # key[x]

(* That is so of every recorded request, and from the moment of Forget on.  *)
GoneInv ==
  /\ \A n \in DOMAIN ledger : Gone(ledger[n][1], ledger[n][2])
  /\ \A w \in Writers :
       pc[w] = "recording" => Gone(Current(w).pii, Position(w, at[w]))

(* A record is of an erasure, and of one only; every acknowledged request   *)
(* that can be carried out has its record.                                  *)
LedgerInv ==
  /\ \A n \in DOMAIN ledger :
       /\ ledger[n][2] \in DOMAIN log
       /\ Erases(log[ledger[n][2]])
       /\ log[ledger[n][2]].pii = ledger[n][1]
       /\ \A m \in DOMAIN ledger : ledger[m][2] = ledger[n][2] => m = n
  /\ \A q \in acked :
       /\ q \in DOMAIN log /\ log[q].payload \in Requests
       /\ Erases(log[q]) => \E n \in DOMAIN ledger : ledger[n][2] = q

IInv ==
  /\ TypeOK
  /\ SealingInv
  /\ FreshInv
  /\ RestInv
  /\ BatchInv
  /\ GoneInv
  /\ LedgerInv

-----------------------------------------------------------------------------
(* Facts about sequences of keys and of events.                             *)

Keys(n) == 1..n
PiiIDs == Subjects \cup {NoSubject}
Items(n) == [payload : Payloads, pii : PiiIDs, sealed : Seq(Keys(n))]
Events(n) == [agg : Aggregates, payload : Payloads, pii : PiiIDs,
              sealed : Seq(Keys(n)), tries : Nat]

(* Issuing a key leaves everything of its type.                             *)
LEMMA MoreKeys ==
  ASSUME NEW m \in Nat, NEW n \in Nat, m <= n
  PROVE  /\ Keys(m) \subseteq Keys(n)
         /\ \A s \in Seq(Items(m)) : s \in Seq(Items(n))
         /\ \A s \in Seq(Events(m)) : s \in Seq(Events(n))
<1>1. Keys(m) \subseteq Keys(n)
  BY DEF Keys
<1>2. \A s \in Seq(Keys(m)) : s \in Seq(Keys(n))
  BY <1>1, SeqMonotonic
<1>3. Items(m) \subseteq Items(n) /\ Events(m) \subseteq Events(n)
  BY <1>2 DEF Items, Events
<1>. QED
  BY <1>1, <1>3, SeqMonotonic

(* What a field was encrypted with last.                                    *)
LEMMA LastKeyOfAppend ==
  ASSUME NEW n \in Nat, NEW s \in Seq(Keys(n)), NEW k \in Keys(n)
  PROVE  /\ Append(s, k) \in Seq(Keys(n))
         /\ Append(s, k) # <<>>
         /\ LastKey(Append(s, k)) = k
<1>1. /\ Append(s, k) \in Seq(Keys(n))
      /\ Append(s, k) # <<>>
      /\ Len(Append(s, k)) = Len(s) + 1
      /\ Append(s, k)[Len(s) + 1] = k
  BY AppendProperties
<1>. QED
  BY <1>1 DEF LastKey

LEMMA LastKeyType ==
  ASSUME NEW n \in Nat, NEW s \in Seq(Keys(n))
  PROVE  /\ LastKey(s) \in 0..n
         /\ s # <<>> => LastKey(s) # 0
<1>1. CASE s = <<>>
  BY <1>1 DEF LastKey
<1>2. CASE s # <<>>
  <2>1. Len(s) \in 1..Len(s)
    BY <1>2, EmptySeq
  <2>2. s[Len(s)] \in Keys(n)
    BY <2>1, ElementOfSeq
  <2>. QED
    BY <1>2, <2>2 DEF LastKey, Keys
<1>. QED
  BY <1>1, <1>2

(* The types this module works with.                                        *)
LEMMA Types ==
  ASSUME TypeOK
  PROVE  /\ issued \in Nat
         /\ log \in Seq(Events(issued)) /\ Len(log) \in Nat /\ DOMAIN log = 1..Len(log)
         /\ \A p \in DOMAIN log : log[p] \in Events(issued)
         /\ \A w \in Writers :
              /\ buf[w] \in Seq(Items(issued)) /\ Len(buf[w]) \in Nat
              /\ DOMAIN buf[w] = 1..Len(buf[w])
              /\ \A i \in DOMAIN buf[w] : buf[w][i] \in Items(issued)
              /\ at[w] \in Nat /\ at[w] > 0 /\ first[w] \in Nat
              /\ fresh[w] \in 0..issued /\ tries[w] \in Nat
         /\ ledger \in Seq(Subjects \X Nat) /\ Len(ledger) \in Nat
         /\ DOMAIN ledger = 1..Len(ledger)
         /\ \A n \in DOMAIN ledger : ledger[n][1] \in Subjects /\ ledger[n][2] \in Nat
         /\ \A x \in Subjects : key[x] \in 0..issued
<1>1. issued \in Nat
  BY DEF TypeOK
<1>2. log \in Seq(Events(issued))
  BY DEF TypeOK, Events, Keys, PiiIDs
<1>3. \A w \in Writers : buf[w] \in Seq(Items(issued))
  BY DEF TypeOK, Items, Keys, PiiIDs
<1>4. ledger \in Seq(Subjects \X Nat)
  BY DEF TypeOK
<1>5. /\ Len(log) \in Nat /\ DOMAIN log = 1..Len(log)
      /\ \A p \in DOMAIN log : log[p] \in Events(issued)
  BY <1>2, LenProperties, ElementOfSeq
<1>6. \A w \in Writers :
        /\ Len(buf[w]) \in Nat /\ DOMAIN buf[w] = 1..Len(buf[w])
        /\ \A i \in DOMAIN buf[w] : buf[w][i] \in Items(issued)
  BY <1>3, LenProperties, ElementOfSeq
<1>7. /\ Len(ledger) \in Nat /\ DOMAIN ledger = 1..Len(ledger)
      /\ \A n \in DOMAIN ledger : ledger[n] \in Subjects \X Nat
  BY <1>4, LenProperties, ElementOfSeq
<1>8. \A n \in DOMAIN ledger : ledger[n][1] \in Subjects /\ ledger[n][2] \in Nat
  BY <1>7
<1>9. \A w \in Writers : /\ at[w] \in Nat /\ at[w] > 0 /\ first[w] \in Nat
                         /\ fresh[w] \in 0..issued /\ tries[w] \in Nat
  BY DEF TypeOK
<1>10. \A x \in Subjects : key[x] \in 0..issued
  BY DEF TypeOK
<1>. QED
  BY <1>1, <1>2, <1>3, <1>4, <1>5, <1>6, <1>7, <1>8, <1>9, <1>10

(* Sealing changes one event of one buffer.                                 *)
LEMMA SealedWithKey ==
  ASSUME TypeOK, NEW w \in Writers, at[w] \in DOMAIN buf[w], NEW k \in Keys(issued)
  PROVE  LET b == SealedWith(w, k) IN
         /\ b \in [Writers -> Seq(Items(issued))]
         /\ \A v \in Writers \ {w} : b[v] = buf[v]
         /\ Len(b[w]) = Len(buf[w]) /\ DOMAIN b[w] = DOMAIN buf[w]
         /\ \A i \in DOMAIN buf[w] : i # at[w] => b[w][i] = buf[w][i]
         /\ b[w][at[w]].payload = buf[w][at[w]].payload
         /\ b[w][at[w]].pii = buf[w][at[w]].pii
         /\ b[w][at[w]].sealed # <<>> /\ LastKey(b[w][at[w]].sealed) = k
         /\ Len(b[w][at[w]].sealed) = Len(buf[w][at[w]].sealed) + 1
<1>. DEFINE old == buf[w][at[w]]
            new == [old EXCEPT !.sealed = Append(@, k)]
            b == SealedWith(w, k)
<1>1. /\ buf[w] \in Seq(Items(issued)) /\ DOMAIN buf[w] = 1..Len(buf[w])
      /\ old \in Items(issued) /\ issued \in Nat
      /\ \A v \in Writers : buf[v] \in Seq(Items(issued))
  BY Types
<1>2. /\ old.sealed \in Seq(Keys(issued))
      /\ old.payload \in Payloads /\ old.pii \in PiiIDs
  BY <1>1 DEF Items
<1>3. /\ Append(old.sealed, k) \in Seq(Keys(issued))
      /\ Append(old.sealed, k) # <<>>
      /\ LastKey(Append(old.sealed, k)) = k
      /\ Len(Append(old.sealed, k)) = Len(old.sealed) + 1
  BY <1>1, <1>2, LastKeyOfAppend, AppendProperties
<1>4. /\ new = [payload |-> old.payload, pii |-> old.pii,
                sealed |-> Append(old.sealed, k)]
      /\ new \in Items(issued)
  <2>. HIDE DEF old
  <2>1. old = [payload |-> old.payload, pii |-> old.pii, sealed |-> old.sealed]
    BY <1>1 DEF Items
  <2>2. new = [payload |-> old.payload, pii |-> old.pii,
               sealed |-> Append(old.sealed, k)]
    BY <2>1
  <2>. QED
    BY <1>2, <1>3, <2>2 DEF Items
<1>5. b = [buf EXCEPT ![w] = [buf[w] EXCEPT ![at[w]] = new]]
  BY DEF SealedWith
<1>6. buf \in [Writers -> Seq(Items(issued))]
  BY DEF TypeOK, Items, Keys, PiiIDs
<1>. HIDE DEF old, new, b
<1>7. /\ [buf[w] EXCEPT ![at[w]] = new] \in Seq(Items(issued))
      /\ Len([buf[w] EXCEPT ![at[w]] = new]) = Len(buf[w])
      /\ \A i \in 1..Len(buf[w]) :
           [buf[w] EXCEPT ![at[w]] = new][i] = IF i = at[w] THEN new ELSE buf[w][i]
  BY <1>1, <1>4, ExceptSeq
<1>8. /\ b \in [Writers -> Seq(Items(issued))]
      /\ b[w] = [buf[w] EXCEPT ![at[w]] = new]
      /\ \A v \in Writers \ {w} : b[v] = buf[v]
  BY <1>5, <1>6, <1>7
<1>9. DOMAIN b[w] = DOMAIN buf[w]
  BY <1>1, <1>7, <1>8, LenProperties
<1>10. \A i \in DOMAIN buf[w] : i # at[w] => b[w][i] = buf[w][i]
  BY <1>1, <1>7, <1>8
<1>11. b[w][at[w]] = new
  BY <1>1, <1>7, <1>8
<1>12. /\ b[w][at[w]].sealed # <<>> /\ LastKey(b[w][at[w]].sealed) = k
       /\ Len(b[w][at[w]].sealed) = Len(old.sealed) + 1
       /\ b[w][at[w]].payload = old.payload /\ b[w][at[w]].pii = old.pii
  BY <1>3, <1>4, <1>11
<1>. QED
  BY <1>7, <1>8, <1>9, <1>10, <1>12 DEF b, old

(* The inner Commit appends the batch to the log.                           *)
LEMMA StoredBatch ==
  ASSUME TypeOK, NEW w \in Writers, agg[w] \in Aggregates
  PROVE  /\ Stored(w) \in Seq(Events(issued))
         /\ Len(Stored(w)) = Len(log) + Len(buf[w])
         /\ \A p \in DOMAIN log : p \in DOMAIN Stored(w) /\ Stored(w)[p] = log[p]
         /\ \A i \in DOMAIN buf[w] :
              /\ Stored(w)[Len(log) + i].payload = buf[w][i].payload
              /\ Stored(w)[Len(log) + i].pii = buf[w][i].pii
              /\ Stored(w)[Len(log) + i].sealed = buf[w][i].sealed
              /\ Stored(w)[Len(log) + i].tries = tries[w]
         /\ \A p \in DOMAIN Stored(w) : p \notin DOMAIN log =>
              \E i \in DOMAIN buf[w] : p = Len(log) + i
<1>. DEFINE e(i) == [agg |-> agg[w], payload |-> buf[w][i].payload,
                     pii |-> buf[w][i].pii, sealed |-> buf[w][i].sealed,
                     tries |-> tries[w]]
            n == Len(buf[w])
            t == [i \in 1..n |-> e(i)]
<1>1. /\ log \in Seq(Events(issued)) /\ Len(log) \in Nat /\ DOMAIN log = 1..Len(log)
      /\ n \in Nat /\ DOMAIN buf[w] = 1..n
      /\ \A i \in DOMAIN buf[w] : buf[w][i] \in Items(issued)
      /\ tries[w] \in Nat
  BY Types
<1>2. \A i \in 1..n : e(i) \in Events(issued)
  BY <1>1 DEF Items, Events
<1>3. Stored(w) = log \o t
  BY DEF Stored
<1>4. t \in Seq(Events(issued)) /\ Len(t) = n
  <2>. HIDE DEF e, n
  <2>1. t \in [1..n -> Events(issued)]
    BY <1>2
  <2>2. t \in Seq(Events(issued))
    BY <1>1, <2>1, SeqDef
  <2>3. DOMAIN t = 1..n /\ DOMAIN t = 1..Len(t) /\ Len(t) \in Nat
    BY <2>1, <2>2, LenProperties
  <2>. QED
    BY <1>1, <2>2, <2>3
<1>5. \A i \in 1..n : t[i] = e(i)
  OBVIOUS
<1>. HIDE DEF t, e, n
<1>6. /\ log \o t \in Seq(Events(issued))
      /\ Len(log \o t) = Len(log) + n
      /\ \A i \in 1..(Len(log) + n) :
           (log \o t)[i] = IF i <= Len(log) THEN log[i] ELSE t[i - Len(log)]
  BY <1>1, <1>4, ConcatProperties
<1>7. DOMAIN (log \o t) = 1..(Len(log) + n)
  BY <1>6, LenProperties
<1>8. \A p \in DOMAIN log : p \in DOMAIN (log \o t) /\ (log \o t)[p] = log[p]
  BY <1>1, <1>6, <1>7
<1>9. \A i \in DOMAIN buf[w] : (log \o t)[Len(log) + i] = e(i)
  <2>. TAKE i \in DOMAIN buf[w]
  <2>1. /\ i \in 1..n /\ Len(log) + i \in 1..(Len(log) + n)
        /\ ~(Len(log) + i <= Len(log)) /\ (Len(log) + i) - Len(log) = i
    BY <1>1
  <2>. QED
    BY <1>5, <1>6, <2>1
<1>10. \A p \in DOMAIN (log \o t) : p \notin DOMAIN log =>
         \E i \in DOMAIN buf[w] : p = Len(log) + i
  <2>. SUFFICES ASSUME NEW p \in DOMAIN (log \o t), p \notin DOMAIN log
                PROVE  \E i \in DOMAIN buf[w] : p = Len(log) + i
    OBVIOUS
  <2>1. p - Len(log) \in DOMAIN buf[w] /\ p = Len(log) + (p - Len(log))
    BY <1>1, <1>7
  <2>. QED
    BY <2>1
<1>11. \A i \in DOMAIN buf[w] : /\ e(i).payload = buf[w][i].payload
                                /\ e(i).pii = buf[w][i].pii
                                /\ e(i).sealed = buf[w][i].sealed
                                /\ e(i).tries = tries[w]
  BY DEF e
<1>12. Len(Stored(w)) = Len(log) + Len(buf[w])
  BY <1>3, <1>6 DEF n
<1>. QED
  BY <1>3, <1>6, <1>8, <1>9, <1>10, <1>11, <1>12

-----------------------------------------------------------------------------
(* What the steps change.                                                   *)

Step(w) ==
  \/ LoadAndRecord(w)
  \/ SealSkips(w)
  \/ SealWithKey(w)
  \/ SealGeneratesKey(w)
  \/ SealPutsKey(w)
  \/ InnerCommit(w)
  \/ InnerConflict(w)
  \/ ShredSkips(w)
  \/ ForgetKey(w)
  \/ AppendLedger(w)
  \/ CommitReturns(w)
  \/ CallFails(w)
  \/ AnswerLost(w)
  \/ RetrySave(w)
  \/ GiveUp(w)

(* A batch enters the log only when all of it is sealed ...                 *)
LogStep(w) ==
  \/ log' = log
  \/ pc[w] = "sealing" /\ AllSealed(w) /\ log' = Stored(w)

(* ... a key enters the ring only from the writer that generated it, and    *)
(* leaves it only by Forget ...                                             *)
RingStep(w) ==
  \/ key' = key
  \/ /\ pc[w] = "putting" /\ fresh'[w] = 0
     /\ key' = [key EXCEPT ![Current(w).pii] = fresh[w]]
  \/ /\ pc[w] = "shredding"
     /\ key' = [key EXCEPT ![Current(w).pii] = 0]

(* ... and the ledger grows by the request whose key was just forgotten.    *)
LedgerStep(w) ==
  \/ ledger' = ledger
  \/ pc[w] = "recording" /\ ledger' = Append(ledger, ShredRecord(w))

(* A batch as it is recorded.                                               *)
Unsealed(batch) ==
  [i \in 1..Len(batch) |-> [payload |-> batch[i].payload, pii |-> batch[i].pii,
                            sealed |-> <<>>]]

BufferStep(w) ==
  \/ buf' = buf
  \/ \E b : /\ buf' = [buf EXCEPT ![w] = b]
            /\ \A i \in DOMAIN b : b[i].sealed = <<>>
  \/ /\ pc[w] = "putting" /\ fresh'[w] = 0
     /\ buf' = SealedWith(w, fresh[w])
  \/ /\ pc[w] = "sealing" /\ at[w] <= Len(buf[w]) /\ Sealable(Current(w))
     /\ key[Current(w).pii] # 0
     /\ buf' = SealedWith(w, key[Current(w).pii])

LEMMA StoreFrame ==
  ASSUME TypeOK, NEW w \in Writers, Step(w)
  PROVE  /\ LogStep(w)
         /\ RingStep(w)
         /\ LedgerStep(w)
         /\ issued' = issued \/ issued' = issued + 1
<1>. USE DEF Step, storeVars, LoadAndRecord, SealSkips, SealWithKey,
         SealGeneratesKey, SealPutsKey, InnerCommit, InnerConflict, ShredSkips,
         ForgetKey, AppendLedger, CommitReturns, CallFails, AnswerLost,
         RetrySave, GiveUp, OneMoreIssued, Forgotten
<1>1. LogStep(w)
  BY DEF LogStep
<1>2. RingStep(w)
  BY DEF RingStep, TypeOK
<1>3. LedgerStep(w)
  BY DEF LedgerStep
<1>4. issued' = issued \/ issued' = issued + 1
  OBVIOUS
<1>. QED
  BY <1>1, <1>2, <1>3, <1>4

LEMMA WriterFrame ==
  ASSUME TypeOK, NEW w \in Writers, Step(w)
  PROVE  /\ BufferStep(w)
         /\ \A v \in Writers \ {w} :
              UNCHANGED <<pc[v], agg[v], base[v], buf[v], at[v], fresh[v], first[v],
                          tries[v]>>
<1>. USE DEF Step, LoadAndRecord, SealSkips, SealWithKey,
         SealGeneratesKey, SealPutsKey, InnerCommit, InnerConflict, ShredSkips,
         ForgetKey, AppendLedger, CommitReturns, CallFails, AnswerLost,
         RetrySave, GiveUp, BecomesIdle
<1>1. BufferStep(w)
  <2>1. CASE LoadAndRecord(w)
    <3>1. PICK batch \in Batches :
            buf' = [buf EXCEPT ![w] = Unsealed(batch)]
      BY <2>1 DEF Unsealed
    <3>. DEFINE b == Unsealed(batch)
    <3>2. \A i \in DOMAIN b : b[i].sealed = <<>>
      BY DEF Unsealed
    <3>. HIDE DEF b
    <3>3. buf' = [buf EXCEPT ![w] = b]
      BY <3>1 DEF b
    <3>. QED
      BY <3>2, <3>3 DEF BufferStep
  <2>2. CASE SealWithKey(w) \/ SealPutsKey(w)
    BY <2>2 DEF BufferStep, TypeOK
  <2>3. CASE InnerConflict(w) \/ CommitReturns(w) \/ GiveUp(w)
    <3>1. buf' = [buf EXCEPT ![w] = <<>>]
      BY <2>3
    <3>2. \A i \in DOMAIN <<>> : <<>>[i].sealed = <<>>
      OBVIOUS
    <3>. QED
      BY <3>1, <3>2 DEF BufferStep
  <2>4. CASE SealSkips(w) \/ SealGeneratesKey(w) \/ InnerCommit(w)
             \/ ShredSkips(w) \/ ForgetKey(w) \/ AppendLedger(w)
             \/ CallFails(w) \/ AnswerLost(w) \/ RetrySave(w)
    BY <2>4 DEF BufferStep
  <2>. QED
    BY <2>1, <2>2, <2>3, <2>4
<1>2. ASSUME NEW v \in Writers \ {w}
      PROVE  UNCHANGED <<pc[v], agg[v], base[v], at[v], fresh[v], first[v], tries[v]>>
  BY DEF TypeOK
<1>3. ASSUME NEW v \in Writers \ {w} PROVE UNCHANGED buf[v]
  <2>1. buf' = buf \/ \E b : buf' = [buf EXCEPT ![w] = b]
    BY <1>1 DEF BufferStep, SealedWith
  <2>. QED
    BY <2>1 DEF TypeOK
<1>. QED
  BY <1>1, <1>2, <1>3

-----------------------------------------------------------------------------
(* Types.                                                                   *)

LEMMA InitInv == Init => IInv
<1>. SUFFICES ASSUME Init PROVE IInv
  OBVIOUS
<1>. USE DEF Init
<1>1. TypeOK
  BY PiiAssumption DEF TypeOK
<1>2. SealingInv /\ FreshInv
  BY DEF SealingInv, FreshInv
<1>3. RestInv /\ BatchInv /\ GoneInv /\ LedgerInv
  BY DEF RestInv, BatchInv, Shredding, GoneInv, LedgerInv
<1>. QED
  BY <1>1, <1>2, <1>3 DEF IInv

(* An event a key is put or forgotten for names its subject.                *)
LEMMA CurrentSubject ==
  ASSUME IInv, NEW w \in Writers
  PROVE  /\ pc[w] \in {"putting", "recording"} => at[w] \in DOMAIN buf[w]
         /\ at[w] \in DOMAIN buf[w] /\ (Sealable(Current(w)) \/ Erases(Current(w)))
              => Current(w).pii \in Subjects
         /\ pc[w] = "putting" => Sealable(Current(w)) /\ Current(w).pii \in Subjects
         /\ pc[w] = "recording" => Erases(Current(w)) /\ Current(w).pii \in Subjects
<1>1. /\ DOMAIN buf[w] = 1..Len(buf[w]) /\ at[w] \in Nat /\ at[w] > 0
      /\ \A i \in DOMAIN buf[w] : buf[w][i] \in Items(issued)
      /\ Len(buf[w]) \in Nat
  BY Types DEF IInv
<1>2. pc[w] = "putting" => at[w] \in DOMAIN buf[w] /\ Sealable(Current(w))
  BY <1>1 DEF IInv, SealingInv
<1>3. pc[w] = "recording" => at[w] \in DOMAIN buf[w] /\ Erases(Current(w))
  BY DEF IInv, BatchInv, Shredding, Recorded
<1>4. at[w] \in DOMAIN buf[w] /\ (Sealable(Current(w)) \/ Erases(Current(w)))
        => Current(w).pii \in Subjects
  BY <1>1 DEF Items, PiiIDs, Current, Sealable, Erases
<1>. QED
  BY <1>2, <1>3, <1>4

(* What a writer's own variables hold after each of its steps.              *)
LEMMA TypeStep ==
  ASSUME IInv, NEW w \in Writers, Step(w)
  PROVE  TypeOK'
<1>0. TypeOK
  BY DEF IInv
<1>1. /\ issued \in Nat /\ issued' \in Nat /\ issued <= issued'
      /\ at[w] \in Nat /\ at[w] > 0 /\ first[w] \in Nat
      /\ Len(log) \in Nat /\ DOMAIN buf[w] = 1..Len(buf[w])
  BY <1>0, StoreFrame, Types
<1>2. /\ pc[w] # "idle" => agg[w] \in Aggregates
      /\ pc[w] = "recording" => Current(w).pii \in Subjects
  BY CurrentSubject DEF IInv, SealingInv
<1>3. pc[w] = "putting" => /\ fresh[w] \in Keys(issued) /\ at[w] \in DOMAIN buf[w]
  BY <1>0, <1>1, Types DEF IInv, FreshInv, SealingInv, Keys
<1>4. log' \in Seq(Events(issued'))
  <2>1. log \in Seq(Events(issued'))
    BY <1>0, <1>1, Types, MoreKeys
  <2>2. CASE pc[w] = "sealing" /\ log' = Stored(w)
    <3>1. Stored(w) \in Seq(Events(issued))
      BY <1>0, <1>2, <2>2, StoredBatch
    <3>. QED
      BY <1>1, <2>2, <3>1, MoreKeys DEF Events, Keys, PiiIDs
  <2>. QED
    BY <1>0, <2>1, <2>2, StoreFrame DEF LogStep, Events, Keys, PiiIDs
<1>5. key' \in [Subjects -> 0..issued']
  <2>1. key \in [Subjects -> 0..issued']
    BY <1>0, <1>1 DEF TypeOK
  <2>2. pc[w] = "putting" => fresh[w] \in 0..issued'
    BY <1>1, <1>3 DEF Keys
  <2>. QED
    BY <1>0, <1>1, <2>1, <2>2, StoreFrame DEF RingStep
<1>6. ledger' \in Seq(Subjects \X Nat)
  <2>1. CASE pc[w] = "recording" /\ ledger' = Append(ledger, ShredRecord(w))
    <3>1. ShredRecord(w) \in Subjects \X Nat
      BY <1>1, <1>2, <2>1 DEF ShredRecord
    <3>. QED
      BY <1>0, <2>1, <3>1, AppendProperties DEF TypeOK
  <2>. QED
    BY <1>0, <2>1, StoreFrame DEF LedgerStep, TypeOK
<1>7. buf' \in [Writers -> Seq(Items(issued'))]
  <2>1. \A b \in [Writers -> Seq(Items(issued))] : b \in [Writers -> Seq(Items(issued'))]
    BY <1>1, MoreKeys
  <2>2. buf \in [Writers -> Seq(Items(issued'))]
    BY <1>0, <2>1 DEF TypeOK, Items, Keys, PiiIDs
  <2>3. CASE pc[w] = "putting" /\ buf' = SealedWith(w, fresh[w])
    BY <1>0, <1>3, <2>1, <2>3, SealedWithKey DEF Items, Keys, PiiIDs
  <2>4. CASE /\ pc[w] = "sealing" /\ at[w] <= Len(buf[w])
             /\ Sealable(Current(w)) /\ key[Current(w).pii] # 0
             /\ buf' = SealedWith(w, key[Current(w).pii])
    <3>2. at[w] \in DOMAIN buf[w]
      BY <1>0, <1>1, <2>4, Types
    <3>3. Current(w).pii \in Subjects
      BY <2>4, <3>2, CurrentSubject
    <3>1. key[Current(w).pii] \in Keys(issued)
      BY <1>0, <2>4, <3>3, Types DEF Keys
    <3>. QED
      BY <1>0, <2>1, <2>4, <3>1, <3>2, SealedWithKey DEF Items, Keys, PiiIDs
  <2>5. CASE LoadAndRecord(w)
    <3>1. PICK batch \in Batches :
            buf' = [buf EXCEPT ![w] = Unsealed(batch)]
      BY <2>5 DEF LoadAndRecord, Unsealed
    <3>. DEFINE b == Unsealed(batch)
    <3>2. batch \in Seq(Recordings)
      BY PiiAssumption
    <3>3. Len(batch) \in Nat /\ \A i \in 1..Len(batch) : batch[i] \in Recordings
      BY <3>2, LenProperties, ElementOfSeq
    <3>4. <<>> \in Seq(Keys(issued'))
      BY EmptySeq
    <3>5. b \in [1..Len(batch) -> Items(issued')]
      BY <3>3, <3>4 DEF Items, Recordings, PiiIDs, Unsealed
    <3>6. b \in Seq(Items(issued'))
      BY <3>3, <3>5, SeqDef
    <3>. HIDE DEF b
    <3>7. buf' = [buf EXCEPT ![w] = b]
      BY <3>1 DEF b
    <3>. QED
      BY <2>2, <3>6, <3>7 DEF Items, Keys, PiiIDs
  <2>6. CASE buf' = [buf EXCEPT ![w] = <<>>]
    <3>1. <<>> \in Seq(Items(issued'))
      BY EmptySeq
    <3>. QED
      BY <2>2, <2>6, <3>1 DEF Items, Keys, PiiIDs
  <2>7. CASE buf' = buf
    BY <2>2, <2>7 DEF Items, Keys, PiiIDs
  <2>. QED
    BY <2>3, <2>4, <2>5, <2>6, <2>7
       DEF Step, SealSkips, SealWithKey, SealGeneratesKey, SealPutsKey,
           InnerCommit, InnerConflict, ShredSkips, ForgetKey, AppendLedger,
           CommitReturns, CallFails, AnswerLost, RetrySave, GiveUp, BecomesIdle
<1>8. fresh' \in [Writers -> 0..issued']
  <2>1. fresh \in [Writers -> 0..issued']
    BY <1>0, <1>1 DEF TypeOK
  <2>2. \/ fresh' = fresh
        \/ fresh' = [fresh EXCEPT ![w] = 0]
        \/ fresh' = [fresh EXCEPT ![w] = issued + 1] /\ issued' = issued + 1
    BY DEF Step, LoadAndRecord, SealSkips, SealWithKey, SealGeneratesKey,
           SealPutsKey, InnerCommit, InnerConflict, ShredSkips, ForgetKey,
           AppendLedger, CommitReturns, CallFails, AnswerLost, RetrySave,
           GiveUp, BecomesIdle, OneMoreIssued
  <2>. QED
    BY <1>1, <2>1, <2>2
<1>9. base' \in [Writers -> Nat] /\ agg' \in [Writers -> Aggregates \cup {NoAggregate}]
  <2>1. \A a \in Aggregates : CurrentVersion(a) \in Nat
    <3>. TAKE a \in Aggregates
    <3>1. EventsOf(a) \in SUBSET (1..Len(log)) /\ IsFiniteSet(1..Len(log))
      BY <1>0, <1>1, Types, FS_Interval DEF EventsOf
    <3>2. IsFiniteSet(EventsOf(a))
      BY <3>1, FS_Subset
    <3>. QED
      BY <3>2, FS_CardinalityType DEF CurrentVersion
  <2>2. \/ base' = base /\ agg' = agg
        \/ base' = [base EXCEPT ![w] = 0] /\ agg' = [agg EXCEPT ![w] = NoAggregate]
        \/ \E a \in Aggregates : /\ base' = [base EXCEPT ![w] = CurrentVersion(a)]
                                 /\ agg' = [agg EXCEPT ![w] = a]
    BY DEF Step, LoadAndRecord, SealSkips, SealWithKey, SealGeneratesKey,
           SealPutsKey, InnerCommit, InnerConflict, ShredSkips, ForgetKey,
           AppendLedger, CommitReturns, CallFails, AnswerLost, RetrySave,
           GiveUp, BecomesIdle
  <2>3. base \in [Writers -> Nat] /\ agg \in [Writers -> Aggregates \cup {NoAggregate}]
    BY <1>0 DEF TypeOK
  <2>4. ASSUME NEW n \in Nat, base' = [base EXCEPT ![w] = n]
        PROVE  base' \in [Writers -> Nat]
    BY <2>3, <2>4
  <2>5. ASSUME NEW a \in Aggregates \cup {NoAggregate}, agg' = [agg EXCEPT ![w] = a]
        PROVE  agg' \in [Writers -> Aggregates \cup {NoAggregate}]
    BY <2>3, <2>5
  <2>6. base' \in [Writers -> Nat]
    BY <2>1, <2>2, <2>3, <2>4
  <2>7. agg' \in [Writers -> Aggregates \cup {NoAggregate}]
    BY <2>2, <2>3, <2>5
  <2>. QED
    BY <2>6, <2>7
<1>10. pc' \in [Writers -> {"idle", "sealing", "putting", "shredding",
                             "recording", "failed"}]
  <2>1. pc \in [Writers -> {"idle", "sealing", "putting", "shredding",
                            "recording", "failed"}]
    BY <1>0 DEF TypeOK
  <2>. QED
    BY <2>1
       DEF Step, LoadAndRecord, SealSkips, SealWithKey, SealGeneratesKey,
           SealPutsKey, InnerCommit, InnerConflict, ShredSkips, ForgetKey,
           AppendLedger, CommitReturns, CallFails, AnswerLost, RetrySave,
           GiveUp, BecomesIdle
<1>14. tries' \in [Writers -> Nat]
  <2>1. tries \in [Writers -> Nat] /\ tries[w] + 1 \in Nat
    BY <1>0 DEF TypeOK
  <2>2. \A n \in Nat : [tries EXCEPT ![w] = n] \in [Writers -> Nat]
    BY <2>1
  <2>3. \/ tries' = tries
        \/ tries' = [tries EXCEPT ![w] = 0]
        \/ tries' = [tries EXCEPT ![w] = 1]
        \/ tries' = [tries EXCEPT ![w] = tries[w] + 1]
    BY DEF Step, LoadAndRecord, SealSkips, SealWithKey, SealGeneratesKey,
           SealPutsKey, InnerCommit, InnerConflict, ShredSkips, ForgetKey,
           AppendLedger, CommitReturns, CallFails, AnswerLost, RetrySave,
           GiveUp, BecomesIdle
  <2>4. 0 \in Nat /\ 1 \in Nat
    OBVIOUS
  <2>. QED
    BY <2>1, <2>2, <2>3, <2>4
<1>13. at' \in [Writers -> Nat \ {0}] /\ first' \in [Writers -> Nat]
  <2>1. at \in [Writers -> Nat \ {0}] /\ first \in [Writers -> Nat]
    BY <1>0 DEF TypeOK
  <2>2. \/ at' = at
        \/ at' = [at EXCEPT ![w] = 1]
        \/ at' = [at EXCEPT ![w] = @ + 1]
    BY DEF Step, LoadAndRecord, SealSkips, SealWithKey, SealGeneratesKey,
           SealPutsKey, InnerCommit, InnerConflict, ShredSkips, ForgetKey,
           AppendLedger, CommitReturns, CallFails, AnswerLost, RetrySave,
           GiveUp, BecomesIdle
  <2>3. \/ first' = first
        \/ first' = [first EXCEPT ![w] = 0]
        \/ first' = [first EXCEPT ![w] = Len(log) + 1]
    BY DEF Step, LoadAndRecord, SealSkips, SealWithKey, SealGeneratesKey,
           SealPutsKey, InnerCommit, InnerConflict, ShredSkips, ForgetKey,
           AppendLedger, CommitReturns, CallFails, AnswerLost, RetrySave,
           GiveUp, BecomesIdle
  <2>4. \A n \in Nat \ {0} : [at EXCEPT ![w] = n] \in [Writers -> Nat \ {0}]
    BY <2>1
  <2>5. \A n \in Nat : [first EXCEPT ![w] = n] \in [Writers -> Nat]
    BY <2>1
  <2>6. 1 \in Nat \ {0} /\ at[w] + 1 \in Nat \ {0} /\ Len(log) + 1 \in Nat
    BY <1>1
  <2>7. at' \in [Writers -> Nat \ {0}]
    <3>1. CASE at' = [at EXCEPT ![w] = @ + 1]
      <4>1. at' = [at EXCEPT ![w] = at[w] + 1]
        BY <3>1
      <4>. QED
        BY <2>4, <2>6, <4>1
    <3>. QED
      BY <2>1, <2>2, <2>4, <2>6, <3>1
  <2>8. first' \in [Writers -> Nat]
    <3>1. 0 \in Nat
      OBVIOUS
    <3>. QED
      BY <2>1, <2>3, <2>5, <2>6, <3>1
  <2>. QED
    BY <2>7, <2>8
<1>11. saves' \in 0..MaxSaves /\ failures' \in 0..MaxFailures
  <2>1. saves \in 0..MaxSaves /\ failures \in 0..MaxFailures
    BY <1>0 DEF TypeOK
  <2>2. \/ saves' = saves
        \/ saves < MaxSaves /\ saves' = saves + 1
    BY DEF Step, LoadAndRecord, SealSkips, SealWithKey, SealGeneratesKey,
           SealPutsKey, InnerCommit, InnerConflict, ShredSkips, ForgetKey,
           AppendLedger, CommitReturns, CallFails, AnswerLost, RetrySave, GiveUp
  <2>3. \/ failures' = failures
        \/ failures < MaxFailures /\ failures' = failures + 1
    BY DEF Step, LoadAndRecord, SealSkips, SealWithKey, SealGeneratesKey,
           SealPutsKey, InnerCommit, InnerConflict, ShredSkips, ForgetKey,
           AppendLedger, CommitReturns, CallFails, AnswerLost, RetrySave, GiveUp
  <2>. QED
    BY <2>1, <2>2, <2>3, PiiAssumption
<1>12. acked' \subseteq Nat
  <2>1. \/ acked' = acked
        \/ acked' = acked \cup {first[w] + i - 1 :
              i \in {j \in DOMAIN buf[w] : buf[w][j].payload \in Requests}}
    BY DEF Step, LoadAndRecord, SealSkips, SealWithKey, SealGeneratesKey,
           SealPutsKey, InnerCommit, InnerConflict, ShredSkips, ForgetKey,
           AppendLedger, CommitReturns, CallFails, AnswerLost, RetrySave, GiveUp
  <2>2. \A i \in DOMAIN buf[w] : first[w] + i - 1 \in Nat
    BY <1>1
  <2>3. acked \subseteq Nat
    BY <1>0 DEF TypeOK
  <2>. QED
    BY <2>1, <2>2, <2>3
<1>. QED
  BY <1>1, <1>4, <1>5, <1>6, <1>7, <1>8, <1>9, <1>10, <1>11, <1>12,
     <1>13, <1>14 DEF TypeOK, Items, Events, Keys, PiiIDs

-----------------------------------------------------------------------------
(* Sealing.                                                                 *)

(* What the two ways of sealing an event have in common.                    *)
SealsCurrent(w, k) ==
  /\ at[w] \in DOMAIN buf[w]
  /\ k \in Keys(issued)
  /\ buf' = SealedWith(w, k)

LEMMA Seals ==
  ASSUME IInv, NEW w \in Writers
  PROVE  /\ SealWithKey(w) => SealsCurrent(w, key[Current(w).pii])
         /\ SealPutsKey(w) => SealsCurrent(w, fresh[w])
<1>1. /\ DOMAIN buf[w] = 1..Len(buf[w]) /\ Len(buf[w]) \in Nat
      /\ at[w] \in Nat /\ at[w] > 0 /\ issued \in Nat
      /\ fresh[w] \in 0..issued
      /\ \A x \in Subjects : key[x] \in 0..issued
  BY Types DEF IInv
<1>2. SealWithKey(w) => at[w] \in DOMAIN buf[w] /\ Current(w).pii \in Subjects
  BY <1>1, CurrentSubject DEF SealWithKey
<1>3. SealWithKey(w) => SealsCurrent(w, key[Current(w).pii])
  BY <1>1, <1>2 DEF SealWithKey, SealsCurrent, Keys
<1>4. SealPutsKey(w) => SealsCurrent(w, fresh[w])
  BY <1>1, CurrentSubject DEF SealPutsKey, SealsCurrent, Keys, IInv, FreshInv
<1>. QED
  BY <1>3, <1>4

LEMMA SealingStep ==
  ASSUME IInv, NEW w \in Writers, Step(w)
  PROVE  SealingInv'
<1>0. TypeOK /\ SealingInv
  BY DEF IInv
<1>. DEFINE Good(v) ==
       /\ pc[v] # "idle" => agg[v] \in Aggregates
       /\ pc[v] = "putting" => at[v] <= Len(buf[v]) /\ Sealable(Current(v))
       /\ pc[v] # "idle" => \A i \in DOMAIN buf[v] : AtMost(buf[v][i], tries[v])
       /\ pc[v] \in {"sealing", "putting"} =>
            \A i \in DOMAIN buf[v] :
              IF i < at[v] THEN Sealed(buf[v][i])
                           ELSE Len(buf[v][i].sealed) < tries[v]
<1>1. ASSUME NEW v \in Writers \ {w} PROVE Good(v)'
  <2>1. UNCHANGED <<pc[v], agg[v], buf[v], at[v], tries[v]>>
    BY <1>0, WriterFrame
  <2>2. Good(v)
    BY <1>0 DEF SealingInv
  <2>. QED
    BY <2>1, <2>2 DEF Current
<1>. SUFFICES Good(w)'
  BY <1>1 DEF SealingInv
<1>2. Good(w)
  BY <1>0 DEF SealingInv
<1>3. /\ DOMAIN buf[w] = 1..Len(buf[w]) /\ Len(buf[w]) \in Nat
      /\ at[w] \in Nat /\ at[w] > 0 /\ tries[w] \in Nat
      /\ \A i \in DOMAIN buf[w] : Len(buf[w][i].sealed) \in Nat
  <2>1. \A i \in DOMAIN buf[w] : buf[w][i] \in Items(issued)
    BY <1>0, Types
  <2>2. \A i \in DOMAIN buf[w] : Len(buf[w][i].sealed) \in Nat
    BY <2>1, LenProperties DEF Items
  <2>. QED
    BY <1>0, <2>2, Types
<1>4. CASE LoadAndRecord(w)
  <2>1. PICK batch \in Batches : buf' = [buf EXCEPT ![w] = Unsealed(batch)]
    BY <1>4 DEF LoadAndRecord, Unsealed
  <2>2. Len(batch) \in Nat
    BY PiiAssumption, LenProperties
  <2>3. /\ DOMAIN buf'[w] = 1..Len(batch)
        /\ \A i \in 1..Len(batch) : buf'[w][i].sealed = <<>>
    BY <1>0, <2>1 DEF TypeOK, Unsealed
  <2>4. /\ at'[w] = 1 /\ pc'[w] = "sealing" /\ agg'[w] \in Aggregates
        /\ tries'[w] = 1
    BY <1>0, <1>4 DEF LoadAndRecord, TypeOK
  <2>5. \A i \in DOMAIN buf'[w] :
          /\ AtMost(buf'[w][i], tries'[w])
          /\ ~(i < at'[w]) /\ Len(buf'[w][i].sealed) < tries'[w]
    BY <2>2, <2>3, <2>4 DEF AtMost
  <2>. QED
    BY <2>4, <2>5
<1>5. CASE SealSkips(w)
  <2>1. /\ pc[w] = "sealing" /\ at[w] \in DOMAIN buf[w]
        /\ Sealed(buf[w][at[w]])
        /\ at'[w] = at[w] + 1 /\ UNCHANGED <<pc, agg, buf, tries>>
    BY <1>0, <1>3, <1>5 DEF SealSkips, Current, Sealed, TypeOK
  <2>. QED
    BY <1>2, <1>3, <2>1
<1>6. ASSUME NEW k, SealsCurrent(w, k), at' = [at EXCEPT ![w] = @ + 1],
             pc[w] \in {"sealing", "putting"}, pc'[w] = "sealing",
             UNCHANGED <<agg, tries>>, Sealable(Current(w))
      PROVE  Good(w)'
  <2>1. /\ DOMAIN buf'[w] = DOMAIN buf[w]
        /\ \A i \in DOMAIN buf[w] : i # at[w] => buf'[w][i] = buf[w][i]
        /\ buf'[w][at[w]].sealed # <<>>
        /\ buf'[w][at[w]].payload = buf[w][at[w]].payload
        /\ buf'[w][at[w]].pii = buf[w][at[w]].pii
        /\ Len(buf'[w][at[w]].sealed) = Len(buf[w][at[w]].sealed) + 1
    BY <1>0, <1>6, SealedWithKey DEF SealsCurrent
  <2>2. at'[w] = at[w] + 1 /\ at[w] \in DOMAIN buf[w]
    BY <1>0, <1>6 DEF TypeOK, SealsCurrent
  <2>3. Sealed(buf'[w][at[w]]) /\ AtMost(buf'[w][at[w]], tries[w])
    <3>1. Len(buf[w][at[w]].sealed) < tries[w]
      BY <1>2, <1>3, <1>6, <2>2
    <3>2. Len(buf'[w][at[w]].sealed) <= tries[w]
      BY <1>3, <2>1, <2>2, <3>1
    <3>3. Sealable(buf'[w][at[w]])
      BY <1>6, <2>1 DEF Sealable, Current
    <3>. QED
      BY <2>1, <3>2, <3>3 DEF Sealed, AtMost
  <2>4. ASSUME NEW i \in DOMAIN buf[w]
        PROVE  /\ AtMost(buf'[w][i], tries[w])
               /\ IF i < at[w] + 1 THEN Sealed(buf'[w][i])
                                   ELSE Len(buf'[w][i].sealed) < tries[w]
    <3>1. CASE i = at[w]
      BY <1>3, <2>3, <3>1
    <3>2. CASE i # at[w]
      <4>1. /\ buf'[w][i] = buf[w][i] /\ AtMost(buf[w][i], tries[w])
            /\ IF i < at[w] THEN Sealed(buf[w][i])
                            ELSE Len(buf[w][i].sealed) < tries[w]
        BY <1>2, <1>6, <2>1, <3>2
      <4>2. i < at[w] + 1 <=> i < at[w]
        BY <1>3, <3>2
      <4>. QED
        BY <4>1, <4>2
    <3>. QED
      BY <3>1, <3>2
  <2>. QED
    BY <1>2, <1>6, <2>1, <2>2, <2>4
<1>7. CASE SealWithKey(w)
  <2>1. /\ at' = [at EXCEPT ![w] = @ + 1] /\ pc[w] = "sealing"
        /\ pc'[w] = "sealing" /\ UNCHANGED <<agg, tries>> /\ Sealable(Current(w))
    BY <1>7 DEF SealWithKey
  <2>2. PICK k : SealsCurrent(w, k)
    BY <1>7, Seals
  <2>. QED
    BY <1>6, <2>1, <2>2
<1>8. CASE SealPutsKey(w)
  <2>1. /\ at' = [at EXCEPT ![w] = @ + 1] /\ pc[w] = "putting"
        /\ pc'[w] = "sealing" /\ UNCHANGED <<agg, tries>> /\ Sealable(Current(w))
    BY <1>0, <1>2, <1>8 DEF SealPutsKey, TypeOK
  <2>2. PICK k : SealsCurrent(w, k)
    BY <1>8, Seals
  <2>. QED
    BY <1>6, <2>1, <2>2
<1>9. CASE SealGeneratesKey(w)
  <2>1. /\ pc[w] = "sealing" /\ at[w] <= Len(buf[w]) /\ pc'[w] = "putting"
        /\ Sealable(Current(w)) /\ UNCHANGED <<agg, buf, at, tries>>
    BY <1>0, <1>9 DEF SealGeneratesKey, TypeOK
  <2>2. Sealable(Current(w))'
    BY <2>1 DEF Current
  <2>. QED
    BY <1>2, <2>1, <2>2
<1>10. CASE InnerCommit(w) \/ ShredSkips(w) \/ ForgetKey(w) \/ AppendLedger(w)
            \/ CallFails(w) \/ AnswerLost(w)
  <2>1. /\ pc[w] # "idle" /\ pc'[w] \in {"shredding", "recording", "failed"}
        /\ UNCHANGED <<agg, buf, tries>>
    BY <1>0, <1>10 DEF InnerCommit, ShredSkips, ForgetKey, AppendLedger,
                       CallFails, AnswerLost, TypeOK
  <2>. QED
    BY <1>2, <2>1
<1>11. CASE RetrySave(w)
  <2>1. /\ pc[w] = "failed" /\ pc'[w] = "sealing" /\ at'[w] = 1
        /\ tries'[w] = tries[w] + 1 /\ UNCHANGED <<agg, buf>>
    BY <1>0, <1>11 DEF RetrySave, TypeOK
  <2>2. \A i \in DOMAIN buf[w] :
          /\ AtMost(buf[w][i], tries[w] + 1)
          /\ ~(i < 1) /\ Len(buf[w][i].sealed) < tries[w] + 1
    BY <1>2, <1>3, <2>1 DEF AtMost
  <2>. QED
    BY <1>2, <2>1, <2>2
<1>12. CASE InnerConflict(w) \/ CommitReturns(w) \/ GiveUp(w)
  <2>1. pc'[w] = "idle"
    BY <1>0, <1>12 DEF InnerConflict, CommitReturns, GiveUp, BecomesIdle, TypeOK
  <2>. QED
    BY <2>1
<1>. QED
  BY <1>4, <1>5, <1>7, <1>8, <1>9, <1>10, <1>11, <1>12 DEF Step

(* Data at rest: a batch is stored when the loop is through.                *)
LEMMA RestStep ==
  ASSUME IInv, NEW w \in Writers, Step(w)
  PROVE  RestInv'
<1>0. TypeOK /\ RestInv
  BY DEF IInv
<1>1. CASE log' = log
  BY <1>0, <1>1 DEF RestInv
<1>2. CASE pc[w] = "sealing" /\ AllSealed(w) /\ log' = Stored(w)
  <2>1. agg[w] \in Aggregates
    BY <1>2 DEF IInv, SealingInv
  <2>2. \A i \in DOMAIN buf[w] : Sealed(buf[w][i]) /\ AtMost(buf[w][i], tries[w])
    <3>1. \A i \in DOMAIN buf[w] : i < at[w]
      BY <1>0, <1>2, Types DEF AllSealed
    <3>. QED
      BY <1>2, <3>1 DEF IInv, SealingInv
  <2>. SUFFICES ASSUME NEW p \in DOMAIN log' PROVE AtRest(log'[p])
    BY DEF RestInv
  <2>3. CASE p \in DOMAIN log
    BY <1>0, <1>2, <2>1, <2>3, StoredBatch DEF RestInv
  <2>4. CASE p \notin DOMAIN log
    <3>1. PICK i \in DOMAIN buf[w] : p = Len(log) + i
      BY <1>0, <1>2, <2>1, <2>4, StoredBatch
    <3>2. /\ log'[p].payload = buf[w][i].payload /\ log'[p].pii = buf[w][i].pii
          /\ log'[p].sealed = buf[w][i].sealed /\ log'[p].tries = tries[w]
      BY <1>0, <1>2, <2>1, <3>1, StoredBatch
    <3>. QED
      BY <2>2, <3>2 DEF AtRest, Sealed, AtMost, Sealable
  <2>. QED
    BY <2>3, <2>4
<1>. QED
  BY <1>0, <1>1, <1>2, StoreFrame DEF LogStep

-----------------------------------------------------------------------------
(* Keys.                                                                    *)

(* The key to be generated next is nowhere yet.                             *)
LEMMA NextKeyIsNew ==
  ASSUME TypeOK
  PROVE  /\ NotUsed(issued + 1)
         /\ \A w \in Writers : fresh[w] # issued + 1
<1>1. /\ issued \in Nat
      /\ \A p \in DOMAIN log : log[p] \in Events(issued)
      /\ \A w \in Writers : \A i \in DOMAIN buf[w] : buf[w][i] \in Items(issued)
      /\ \A w \in Writers : fresh[w] \in 0..issued
      /\ \A x \in Subjects : key[x] \in 0..issued
  BY Types
<1>2. \A p \in DOMAIN log : LastKey(log[p].sealed) \in 0..issued
  BY <1>1, LastKeyType DEF Events
<1>3. \A w \in Writers : \A i \in DOMAIN buf[w] : LastKey(buf[w][i].sealed) \in 0..issued
  BY <1>1, LastKeyType DEF Items
<1>4. \A k \in 0..issued : k # issued + 1
  BY <1>1
<1>. QED
  BY <1>1, <1>2, <1>3, <1>4 DEF NotUsed

(* A key comes into use only by the writer that is putting it.              *)
LEMMA UnusedStays ==
  ASSUME IInv, NEW w \in Writers, Step(w), NEW f, f # 0, NotUsed(f),
         pc[w] = "putting" => fresh[w] # f
  PROVE  NotUsed(f)'
<1>0. TypeOK
  BY DEF IInv
<1>1. \A x \in Subjects : key'[x] # f
  BY <1>0, StoreFrame DEF RingStep, NotUsed, TypeOK
<1>2. \A p \in DOMAIN log' : LastKey(log'[p].sealed) # f
  <2>1. CASE log' = log
    BY <2>1 DEF NotUsed
  <2>2. CASE pc[w] = "sealing" /\ log' = Stored(w)
    <3>1. agg[w] \in Aggregates
      BY <2>2 DEF IInv, SealingInv
    <3>. SUFFICES ASSUME NEW p \in DOMAIN log' PROVE LastKey(log'[p].sealed) # f
      OBVIOUS
    <3>2. CASE p \in DOMAIN log
      BY <1>0, <2>2, <3>1, <3>2, StoredBatch DEF NotUsed
    <3>3. CASE p \notin DOMAIN log
      <4>1. PICK i \in DOMAIN buf[w] : p = Len(log) + i
        BY <1>0, <2>2, <3>1, <3>3, StoredBatch
      <4>2. log'[p].sealed = buf[w][i].sealed
        BY <1>0, <2>2, <3>1, <4>1, StoredBatch
      <4>. QED
        BY <4>2 DEF NotUsed
    <3>. QED
      BY <3>2, <3>3
  <2>. QED
    BY <1>0, <2>1, <2>2, StoreFrame DEF LogStep
<1>3. ASSUME NEW v \in Writers, NEW i \in DOMAIN buf'[v]
      PROVE  LastKey(buf'[v][i].sealed) # f
  <2>1. CASE buf'[v] = buf[v]
    BY <2>1 DEF NotUsed
  <2>2. ASSUME NEW k, SealsCurrent(w, k), k # f, v = w
        PROVE  LastKey(buf'[v][i].sealed) # f
    <3>1. /\ DOMAIN buf'[w] = DOMAIN buf[w]
          /\ \A j \in DOMAIN buf[w] : j # at[w] => buf'[w][j] = buf[w][j]
          /\ LastKey(buf'[w][at[w]].sealed) = k
      BY <1>0, <2>2, SealedWithKey DEF SealsCurrent
    <3>. QED
      BY <2>2, <3>1 DEF NotUsed
  <2>3. CASE v # w
    BY <1>0, <2>1, <2>3, WriterFrame
  <2>4. CASE v = w /\ \E b : /\ buf' = [buf EXCEPT ![w] = b]
                             /\ \A j \in DOMAIN b : b[j].sealed = <<>>
    <3>1. buf'[v][i].sealed = <<>>
      BY <1>0, <2>4 DEF TypeOK
    <3>. QED
      BY <3>1 DEF LastKey
  <2>5. CASE v = w /\ pc[w] = "putting" /\ buf' = SealedWith(w, fresh[w])
    <3>1. SealsCurrent(w, fresh[w])
      BY <1>0, <2>5, Types DEF SealsCurrent, IInv, FreshInv, SealingInv, Keys
    <3>. QED
      BY <2>2, <2>5, <3>1
  <2>6. CASE /\ v = w /\ pc[w] = "sealing" /\ at[w] <= Len(buf[w])
             /\ Sealable(Current(w)) /\ key[Current(w).pii] # 0
             /\ buf' = SealedWith(w, key[Current(w).pii])
    <3>3. at[w] \in DOMAIN buf[w]
      BY <1>0, <2>6, Types
    <3>1. Current(w).pii \in Subjects
      BY <2>6, <3>3, CurrentSubject
    <3>2. SealsCurrent(w, key[Current(w).pii])
      BY <1>0, <2>6, <3>1, <3>3, Types DEF SealsCurrent, Keys
    <3>. QED
      BY <2>2, <2>6, <3>1, <3>2 DEF NotUsed
  <2>. QED
    BY <1>0, <2>1, <2>3, <2>4, <2>5, <2>6, WriterFrame DEF BufferStep
<1>. QED
  BY <1>1, <1>2, <1>3 DEF NotUsed

(* A generated key is the writer's own until it is put.                     *)
LEMMA FreshStep ==
  ASSUME IInv, NEW w \in Writers, Step(w)
  PROVE  FreshInv'
<1>0. TypeOK /\ FreshInv
  BY DEF IInv
<1>1. \/ fresh'[w] = 0 /\ pc'[w] # "putting"
      \/ /\ fresh'[w] = issued + 1 /\ pc'[w] = "putting"
         /\ pc[w] # "putting" /\ UNCHANGED <<key, log, buf>>
  BY <1>0 DEF FreshInv, Step, LoadAndRecord, SealSkips, SealWithKey,
              SealGeneratesKey, SealPutsKey, InnerCommit, InnerConflict,
              ShredSkips, ForgetKey, AppendLedger, CommitReturns, CallFails,
              AnswerLost, RetrySave, GiveUp, BecomesIdle, TypeOK
<1>2. issued \in Nat
  BY <1>0 DEF TypeOK
<1>3. \A v \in Writers \ {w} : fresh'[v] = fresh[v] /\ pc'[v] = pc[v]
  BY <1>0, WriterFrame
<1>4. ASSUME NEW v \in Writers PROVE pc'[v] = "putting" <=> fresh'[v] # 0
  BY <1>0, <1>1, <1>2, <1>3 DEF FreshInv
<1>5. ASSUME NEW v \in Writers, NEW f, f = fresh'[v], f # 0
      PROVE  NotUsed(f)'
  <2>1. CASE v # w
    BY <1>0, <1>3, <1>5, <2>1, UnusedStays DEF FreshInv
  <2>2. CASE v = w
    BY <1>0, <1>1, <1>5, <2>2, NextKeyIsNew DEF NotUsed
  <2>. QED
    BY <2>1, <2>2
<1>6. ASSUME NEW v \in Writers, fresh'[v] # 0 PROVE NotUsed(fresh[v])'
  <2>1. PICK f : f = fresh'[v]
    OBVIOUS
  <2>2. NotUsed(f)'
    BY <1>5, <1>6, <2>1
  <2>. QED
    BY <2>1, <2>2 DEF NotUsed
<1>7. ASSUME NEW u \in Writers, NEW v \in Writers, v # u, fresh'[u] # 0
      PROVE  fresh'[v] # fresh'[u]
  BY <1>0, <1>1, <1>3, <1>7, NextKeyIsNew DEF FreshInv
<1>. QED
  BY <1>4, <1>6, <1>7 DEF FreshInv

-----------------------------------------------------------------------------
(* The log and the ledger.                                                  *)

(* Both only grow, the ledger by the request its writer is carrying out.    *)
LEMMA StoresGrow ==
  ASSUME IInv, NEW w \in Writers, Step(w)
  PROVE  /\ Len(log) \in Nat /\ Len(log') \in Nat /\ Len(log) <= Len(log')
         /\ DOMAIN log = 1..Len(log) /\ DOMAIN log' = 1..Len(log')
         /\ \A p \in DOMAIN log : log'[p] = log[p]
         /\ \A n \in DOMAIN ledger : n \in DOMAIN ledger' /\ ledger'[n] = ledger[n]
         /\ \A n \in DOMAIN ledger' : n \notin DOMAIN ledger =>
              /\ pc[w] = "recording" /\ ledger'[n] = ShredRecord(w)
              /\ n = Len(ledger) + 1
<1>0. TypeOK
  BY DEF IInv
<1>1. Len(log) \in Nat /\ DOMAIN log = 1..Len(log)
  BY <1>0, Types
<1>2. /\ Len(log') \in Nat /\ DOMAIN log' = 1..Len(log') /\ Len(log) <= Len(log')
      /\ \A p \in DOMAIN log : log'[p] = log[p]
  <2>1. CASE log' = log
    BY <1>1, <2>1
  <2>2. CASE pc[w] = "sealing" /\ log' = Stored(w)
    <3>1. agg[w] \in Aggregates
      BY <2>2 DEF IInv, SealingInv
    <3>2. log' \in Seq(Events(issued)) /\ Len(log') = Len(log) + Len(buf[w])
      BY <1>0, <2>2, <3>1, StoredBatch
    <3>3. Len(buf[w]) \in Nat
      BY <1>0, Types
    <3>4. Len(log') \in Nat /\ DOMAIN log' = 1..Len(log')
      BY <3>2, LenProperties
    <3>5. \A p \in DOMAIN log : log'[p] = log[p]
      BY <1>0, <2>2, <3>1, StoredBatch
    <3>. QED
      BY <1>1, <3>2, <3>3, <3>4, <3>5
  <2>. QED
    BY <1>0, <2>1, <2>2, StoreFrame DEF LogStep
<1>3. CASE pc[w] = "recording" /\ ledger' = Append(ledger, ShredRecord(w))
  <2>1. /\ ledger \in Seq(Subjects \X Nat) /\ Len(ledger) \in Nat
        /\ DOMAIN ledger = 1..Len(ledger)
    BY <1>0, Types
  <2>2. ShredRecord(w) \in Subjects \X Nat
    <3>1. Current(w).pii \in Subjects
      BY <1>3, CurrentSubject
    <3>2. first[w] + at[w] - 1 \in Nat
      BY <1>0, Types
    <3>. QED
      BY <3>1, <3>2 DEF ShredRecord
  <2>3. /\ Append(ledger, ShredRecord(w)) \in Seq(Subjects \X Nat)
        /\ Len(Append(ledger, ShredRecord(w))) = Len(ledger) + 1
        /\ \A i \in 1..Len(ledger) : Append(ledger, ShredRecord(w))[i] = ledger[i]
        /\ Append(ledger, ShredRecord(w))[Len(ledger) + 1] = ShredRecord(w)
    BY <2>1, <2>2, AppendProperties
  <2>4. DOMAIN Append(ledger, ShredRecord(w)) = 1..(Len(ledger) + 1)
    BY <2>3, LenProperties
  <2>. QED
    BY <1>1, <1>2, <1>3, <2>1, <2>3, <2>4
<1>4. CASE ledger' = ledger
  BY <1>1, <1>2, <1>4
<1>. QED
  BY <1>0, <1>3, <1>4, StoreFrame DEF LedgerStep

(* AppendLedger's own effect.                                               *)
LEMMA RequestRecorded ==
  ASSUME IInv, NEW w \in Writers, AppendLedger(w)
  PROVE  \E n \in DOMAIN ledger' : ledger'[n] = ShredRecord(w)
<1>1. ledger \in Seq(Subjects \X Nat) /\ Len(ledger) \in Nat
  BY Types DEF IInv
<1>2. ShredRecord(w) \in Subjects \X Nat
  <2>1. Current(w).pii \in Subjects
    BY CurrentSubject DEF AppendLedger
  <2>2. first[w] + at[w] - 1 \in Nat
    BY Types DEF IInv
  <2>. QED
    BY <2>1, <2>2 DEF ShredRecord
<1>3. /\ Append(ledger, ShredRecord(w)) \in Seq(Subjects \X Nat)
      /\ Len(Append(ledger, ShredRecord(w))) = Len(ledger) + 1
      /\ Append(ledger, ShredRecord(w))[Len(ledger) + 1] = ShredRecord(w)
  BY <1>1, <1>2, AppendProperties
<1>4. Len(ledger) + 1 \in DOMAIN Append(ledger, ShredRecord(w))
  BY <1>1, <1>3, LenProperties
<1>. QED
  BY <1>3, <1>4 DEF AppendLedger

(* What the batch being shredded says of the request at hand.               *)
LEMMA RequestAtHand ==
  ASSUME IInv, NEW w \in Writers, pc[w] = "recording"
  PROVE  /\ at[w] \in DOMAIN buf[w] /\ Current(w).pii \in Subjects
         /\ ShredRecord(w) = <<Current(w).pii, Position(w, at[w])>>
         /\ Position(w, at[w]) \in DOMAIN log
         /\ Erases(log[Position(w, at[w])])
         /\ log[Position(w, at[w])].pii = Current(w).pii
         /\ \A n \in DOMAIN ledger : ledger[n][2] # Position(w, at[w])
<1>1. InTheLog(w) /\ Recorded(w)
  BY DEF IInv, BatchInv, Shredding
<1>2. /\ DOMAIN buf[w] = 1..Len(buf[w]) /\ Len(buf[w]) \in Nat
      /\ at[w] \in Nat /\ at[w] > 0 /\ first[w] \in Nat
      /\ Len(log) \in Nat /\ DOMAIN log = 1..Len(log)
  BY Types DEF IInv
<1>3. /\ at[w] \in DOMAIN buf[w] /\ Erases(Current(w))
      /\ Current(w).pii \in Subjects
  BY CurrentSubject
<1>4. Position(w, at[w]) \in DOMAIN log
  BY <1>1, <1>2, <1>3 DEF InTheLog, Position
<1>5. /\ Erases(log[Position(w, at[w])])
      /\ log[Position(w, at[w])].pii = Current(w).pii
  BY <1>1, <1>3 DEF InTheLog, Erases, Current
<1>6. \A n \in DOMAIN ledger : ledger[n][2] # Position(w, at[w])
  BY <1>1, <1>2, <1>3 DEF Recorded
<1>. QED
  BY <1>3, <1>4, <1>5, <1>6 DEF ShredRecord, Position

(* The ledger stays true: the new record is of a request that had none, and *)
(* Save acknowledges what it has recorded.                                  *)
LEMMA LedgerStaysTrue ==
  ASSUME IInv, NEW w \in Writers, Step(w)
  PROVE  LedgerInv'
<1>0. TypeOK /\ LedgerInv
  BY DEF IInv
<1>1. ASSUME NEW n \in DOMAIN ledger'
      PROVE  /\ ledger'[n][2] \in DOMAIN log'
             /\ Erases(log'[ledger'[n][2]])
             /\ log'[ledger'[n][2]].pii = ledger'[n][1]
  <2>1. CASE n \in DOMAIN ledger
    BY <1>0, <2>1, StoresGrow DEF LedgerInv
  <2>2. CASE n \notin DOMAIN ledger
    BY <1>1, <2>2, StoresGrow, RequestAtHand
  <2>. QED
    BY <2>1, <2>2
<1>2. ASSUME NEW n \in DOMAIN ledger', NEW m \in DOMAIN ledger',
             ledger'[m][2] = ledger'[n][2]
      PROVE  m = n
  <2>1. CASE n \in DOMAIN ledger /\ m \in DOMAIN ledger
    BY <1>0, <1>2, <2>1, StoresGrow DEF LedgerInv
  <2>2. CASE n \notin DOMAIN ledger /\ m \notin DOMAIN ledger
    BY <2>2, StoresGrow
  <2>3. CASE n \in DOMAIN ledger /\ m \notin DOMAIN ledger
    BY <1>2, <2>3, StoresGrow, RequestAtHand
  <2>4. CASE n \notin DOMAIN ledger /\ m \in DOMAIN ledger
    BY <1>2, <2>4, StoresGrow, RequestAtHand
  <2>. QED
    BY <2>1, <2>2, <2>3, <2>4
<1>3. ASSUME NEW q \in acked'
      PROVE  /\ q \in DOMAIN log' /\ log'[q].payload \in Requests
             /\ Erases(log'[q]) => \E n \in DOMAIN ledger' : ledger'[n][2] = q
  <2>1. CASE q \in acked
    BY <1>0, <2>1, StoresGrow DEF LedgerInv
  <2>2. CASE /\ CommitReturns(w)
             /\ q \in {first[w] + i - 1 :
                          i \in {j \in DOMAIN buf[w] : buf[w][j].payload \in Requests}}
    <3>1. PICK i \in DOMAIN buf[w] : buf[w][i].payload \in Requests /\ q = Position(w, i)
      BY <2>2 DEF Position
    <3>2. i < at[w]
      BY <1>0, <2>2, <3>1, Types DEF CommitReturns, AllShredded
    <3>3. InTheLog(w) /\ Recorded(w)
      BY <2>2 DEF IInv, BatchInv, Shredding, CommitReturns
    <3>4. /\ q \in DOMAIN log /\ log[q].payload = buf[w][i].payload
          /\ log[q].pii = buf[w][i].pii
      BY <1>0, <3>1, <3>3, Types DEF InTheLog, Position
    <3>5. Erases(log[q]) => \E n \in DOMAIN ledger : ledger[n][2] = q
      BY <3>1, <3>2, <3>3, <3>4 DEF Recorded, Erases
    <3>. QED
      BY <3>1, <3>4, <3>5, StoresGrow
  <2>. QED
    BY <2>1, <2>2
       DEF Step, LoadAndRecord, SealSkips, SealWithKey, SealGeneratesKey,
           SealPutsKey, InnerCommit, InnerConflict, ShredSkips, ForgetKey,
           AppendLedger, CommitReturns, CallFails, AnswerLost, RetrySave, GiveUp
<1>. QED
  BY <1>1, <1>2, <1>3 DEF LedgerInv

(* Another writer's batch is not disturbed.                                 *)
LEMMA OtherBatch ==
  ASSUME IInv, NEW w \in Writers, Step(w), NEW v \in Writers \ {w}, Shredding(v)
  PROVE  InTheLog(v)' /\ Recorded(v)'
<1>0. TypeOK
  BY DEF IInv
<1>1. InTheLog(v) /\ Recorded(v)
  BY DEF IInv, BatchInv
<1>2. /\ DOMAIN buf[v] = 1..Len(buf[v]) /\ Len(buf[v]) \in Nat
      /\ at[v] \in Nat /\ first[v] \in Nat
  BY <1>0, Types
<1>3. UNCHANGED <<pc[v], agg[v], buf[v], at[v], first[v]>>
  BY <1>0, WriterFrame
<1>4. \A i \in DOMAIN buf[v] : Position(v, i) \in DOMAIN log
  BY <1>1, <1>2, StoresGrow DEF InTheLog, Position
<1>5. InTheLog(v)'
  <2>1. \A i \in DOMAIN buf[v] : log'[Position(v, i)] = log[Position(v, i)]
    BY <1>4, StoresGrow
  <2>2. first[v] + Len(buf[v]) <= Len(log') + 1
    BY <1>1, <1>2, StoresGrow DEF InTheLog
  <2>3. \A i : Position(v, i)' = Position(v, i)
    BY <1>3 DEF Position
  <2>. QED
    BY <1>1, <1>3, <2>1, <2>2, <2>3 DEF InTheLog, Position
<1>6. ASSUME NEW n \in DOMAIN ledger', NEW i \in DOMAIN buf[v], i >= at[v]
      PROVE  ledger'[n][2] # Position(v, i)
  <2>1. CASE n \in DOMAIN ledger
    BY <1>1, <1>6, <2>1, StoresGrow DEF Recorded
  <2>2. CASE n \notin DOMAIN ledger
    <3>1. pc[w] = "recording" /\ ledger'[n][2] = Position(w, at[w])
      BY <2>2, StoresGrow, RequestAtHand
    <3>2. Apart(v, w)
      BY <3>1 DEF IInv, BatchInv, Shredding
    <3>3. at[w] \in 1..Len(buf[w]) /\ Len(buf[w]) \in Nat /\ first[w] \in Nat
      BY <1>0, <3>1, RequestAtHand, Types
    <3>4. i \in 1..Len(buf[v])
      BY <1>2
    <3>5. first[v] + i - 1 # first[w] + at[w] - 1
      BY <1>2, <3>2, <3>3, <3>4 DEF Apart
    <3>. QED
      BY <3>1, <3>5 DEF Position
  <2>. QED
    BY <2>1, <2>2
<1>7. \A i \in DOMAIN buf[v] :
        (\E n \in DOMAIN ledger : ledger[n][2] = Position(v, i))
          => \E n \in DOMAIN ledger' : ledger'[n][2] = Position(v, i)
  BY StoresGrow
<1>8. Recorded(v)'
  BY <1>1, <1>3, <1>6, <1>7 DEF Recorded, Position, Current
<1>. QED
  BY <1>5, <1>8

(* The batch of the writer that moves.                                      *)
LEMMA OwnBatch ==
  ASSUME IInv, NEW w \in Writers, Step(w), Shredding(w)'
  PROVE  InTheLog(w)' /\ Recorded(w)'
<1>0. TypeOK
  BY DEF IInv
<1>1. /\ DOMAIN buf[w] = 1..Len(buf[w]) /\ Len(buf[w]) \in Nat
      /\ at[w] \in Nat /\ at[w] > 0 /\ first[w] \in Nat
      /\ Len(log) \in Nat /\ DOMAIN log = 1..Len(log)
  BY <1>0, Types
<1>2. InnerCommit(w) \/ ShredSkips(w) \/ ForgetKey(w) \/ AppendLedger(w)
  BY <1>0 DEF Shredding, Step, LoadAndRecord, SealSkips, SealWithKey,
              SealGeneratesKey, SealPutsKey, InnerConflict, CommitReturns,
              CallFails, AnswerLost, RetrySave, GiveUp, BecomesIdle, TypeOK
<1>3. CASE InnerCommit(w)
  <2>1. /\ first'[w] = Len(log) + 1 /\ at'[w] = 1 /\ pc'[w] = "shredding"
        /\ log' = Stored(w) /\ UNCHANGED <<ledger, agg, buf>>
    BY <1>0, <1>3 DEF InnerCommit, TypeOK
  <2>2. agg[w] \in Aggregates
    BY <1>3 DEF InnerCommit, IInv, SealingInv
  <2>3. /\ Len(log') = Len(log) + Len(buf[w])
        /\ \A i \in DOMAIN buf[w] : /\ log'[Len(log) + i].payload = buf[w][i].payload
                                    /\ log'[Len(log) + i].pii = buf[w][i].pii
    BY <1>0, <2>1, <2>2, StoredBatch
  <2>4. \A i \in DOMAIN buf[w] : Position(w, i)' = Len(log) + i
    BY <1>1, <2>1 DEF Position
  <2>5. InTheLog(w)'
    <3>1. first'[w] > 0 /\ first'[w] + Len(buf'[w]) <= Len(log') + 1
      <4>1. Len(buf'[w]) = Len(buf[w]) /\ first'[w] = Len(log) + 1
        BY <2>1
      <4>2. Len(log') = Len(log) + Len(buf[w])
        BY <2>3
      <4>3. \A m, n \in Nat : m + 1 > 0 /\ (m + 1) + n <= (m + n) + 1
        OBVIOUS
      <4>. QED
        BY <1>1, <4>1, <4>2, <4>3
    <3>2. \A i \in DOMAIN buf'[w] :
            /\ log'[Position(w, i)'].payload = buf'[w][i].payload
            /\ log'[Position(w, i)'].pii = buf'[w][i].pii
      BY <2>1, <2>3, <2>4
    <3>. QED
      BY <3>1, <3>2 DEF InTheLog
  <2>6. ASSUME NEW n \in DOMAIN ledger, NEW i \in DOMAIN buf[w]
        PROVE  ledger[n][2] # Len(log) + i
    <3>1. ledger[n][2] \in DOMAIN log
      BY DEF IInv, LedgerInv
    <3>. QED
      BY <1>1, <3>1
  <2>7. Recorded(w)'
    <3>1. \A i \in DOMAIN buf[w] : i \in Nat /\ ~(i < 1)
      BY <1>1
    <3>. QED
      BY <2>1, <2>4, <2>6, <3>1 DEF Recorded
  <2>. QED
    BY <2>5, <2>7
<1>4. CASE ShredSkips(w) \/ ForgetKey(w) \/ AppendLedger(w)
  <2>1. InTheLog(w) /\ Recorded(w)
    BY <1>4 DEF IInv, BatchInv, Shredding, ShredSkips, ForgetKey, AppendLedger
  <2>2. UNCHANGED <<log, first, agg, buf>>
    BY <1>4 DEF ShredSkips, ForgetKey, AppendLedger, storeVars
  <2>3. InTheLog(w)'
    BY <2>1, <2>2 DEF InTheLog, Position
  <2>4. \A i : Position(w, i)' = Position(w, i)
    BY <2>2 DEF Position
  <2>5. CASE ShredSkips(w)
    <3>1. /\ at'[w] = at[w] + 1 /\ pc'[w] = "shredding" /\ ledger' = ledger
          /\ ~Erases(buf[w][at[w]])
      BY <1>0, <2>5 DEF ShredSkips, Current, storeVars, TypeOK
    <3>2. \A i \in DOMAIN buf[w] : i < at[w] + 1 /\ Erases(buf[w][i]) => i < at[w]
      BY <1>1, <3>1
    <3>3. \A i \in DOMAIN buf[w] : i >= at[w] + 1 => i >= at[w]
      BY <1>1
    <3>. QED
      BY <2>1, <2>2, <2>3, <2>4, <3>1, <3>2, <3>3 DEF Recorded
  <2>6. CASE ForgetKey(w)
    <3>1. /\ UNCHANGED <<at, ledger>> /\ Erases(buf[w][at[w]])
          /\ at[w] \in DOMAIN buf[w]
      BY <1>1, <2>6 DEF ForgetKey, Current
    <3>. QED
      BY <2>1, <2>2, <2>3, <2>4, <3>1 DEF Recorded, Current
  <2>7. CASE AppendLedger(w)
    <3>1. at'[w] = at[w] + 1 /\ pc'[w] = "shredding" /\ pc[w] = "recording"
      BY <1>0, <2>7 DEF AppendLedger, TypeOK
    <3>2. at[w] \in DOMAIN buf[w] /\ ShredRecord(w)[2] = Position(w, at[w])
      BY <3>1, RequestAtHand
    <3>3. ASSUME NEW i \in DOMAIN buf[w], i < at[w] + 1, Erases(buf[w][i])
          PROVE  \E n \in DOMAIN ledger' : ledger'[n][2] = Position(w, i)
      <4>1. CASE i = at[w]
        BY <2>7, <3>2, <4>1, RequestRecorded
      <4>2. CASE i # at[w]
        <5>1. i < at[w]
          BY <1>1, <3>3, <4>2
        <5>2. PICK n \in DOMAIN ledger : ledger[n][2] = Position(w, i)
          BY <2>1, <3>3, <5>1 DEF Recorded
        <5>. QED
          BY <5>2, StoresGrow
      <4>. QED
        BY <4>1, <4>2
    <3>4. ASSUME NEW n \in DOMAIN ledger', NEW i \in DOMAIN buf[w], i >= at[w] + 1
          PROVE  ledger'[n][2] # Position(w, i)
      <4>1. CASE n \in DOMAIN ledger
        <5>1. ledger'[n] = ledger[n] /\ i >= at[w]
          BY <1>1, <3>4, <4>1, StoresGrow
        <5>. QED
          BY <2>1, <4>1, <5>1 DEF Recorded
      <4>2. CASE n \notin DOMAIN ledger
        <5>1. ledger'[n][2] = Position(w, at[w])
          BY <3>2, <4>2, StoresGrow
        <5>. QED
          BY <1>1, <3>2, <3>4, <5>1 DEF Position
      <4>. QED
        BY <4>1, <4>2
    <3>. QED
      BY <2>2, <2>3, <2>4, <3>1, <3>3, <3>4 DEF Recorded
  <2>. QED
    BY <1>4, <2>5, <2>6, <2>7
<1>. QED
  BY <1>2, <1>3, <1>4

(* Batches enter the log one after the other.                               *)
LEMMA BatchStep ==
  ASSUME IInv, NEW w \in Writers, Step(w)
  PROVE  BatchInv'
<1>0. TypeOK
  BY DEF IInv
<1>1. \A v \in Writers \ {w} : UNCHANGED <<pc[v], buf[v], first[v]>>
  BY <1>0, WriterFrame
<1>2. ASSUME NEW v \in Writers, Shredding(v)' PROVE InTheLog(v)' /\ Recorded(v)'
  <2>1. CASE v = w
    BY <1>2, <2>1, OwnBatch
  <2>2. CASE v # w
    BY <1>1, <1>2, <2>2, OtherBatch DEF Shredding
  <2>. QED
    BY <2>1, <2>2
<1>3. ASSUME Shredding(w)', NEW v \in Writers \ {w}, Shredding(v)
      PROVE  first[v] + Len(buf[v]) <= first'[w] \/ first'[w] + Len(buf'[w]) <= first[v]
  <2>1. CASE InnerCommit(w)
    <3>1. first'[w] = Len(log) + 1
      BY <1>0, <2>1 DEF InnerCommit, TypeOK
    <3>2. first[v] + Len(buf[v]) <= Len(log) + 1
      BY <1>3 DEF IInv, BatchInv, InTheLog
    <3>. QED
      BY <3>1, <3>2
  <2>2. CASE ~InnerCommit(w)
    <3>1. Shredding(w) /\ first'[w] = first[w] /\ buf'[w] = buf[w]
      BY <1>0, <1>3, <2>2
         DEF Shredding, Step, LoadAndRecord, SealSkips, SealWithKey,
             SealGeneratesKey, SealPutsKey, InnerConflict, ShredSkips, ForgetKey,
             AppendLedger, CommitReturns, CallFails, AnswerLost, RetrySave,
             GiveUp, BecomesIdle, TypeOK
    <3>. QED
      BY <1>3, <3>1 DEF IInv, BatchInv, Apart
  <2>. QED
    BY <2>1, <2>2
<1>4. ASSUME NEW u \in Writers, NEW v \in Writers, v # u, Shredding(u)', Shredding(v)'
      PROVE  Apart(v, u)'
  <2>1. CASE u # w /\ v # w
    BY <1>1, <1>4, <2>1 DEF IInv, BatchInv, Shredding, Apart
  <2>2. CASE u = w
    BY <1>1, <1>3, <1>4, <2>2 DEF Shredding, Apart
  <2>3. CASE v = w
    BY <1>1, <1>3, <1>4, <2>3 DEF Shredding, Apart
  <2>. QED
    BY <2>1, <2>2, <2>3
<1>. QED
  BY <1>2, <1>4 DEF BatchInv

-----------------------------------------------------------------------------
(* Erasure.                                                                 *)

(* What does not open with its subject's key never will.                    *)
LEMMA SealedForGood ==
  ASSUME IInv, NEW w \in Writers, Step(w), NEW p \in DOMAIN log,
         log[p].sealed # <<>>, NEW x \in Subjects, LastKey(log[p].sealed) # key[x]
  PROVE  LastKey(log[p].sealed) # key'[x]
<1>0. TypeOK
  BY DEF IInv
<1>1. CASE key' = key
  BY <1>1
<1>2. CASE /\ pc[w] = "putting"
           /\ key' = [key EXCEPT ![Current(w).pii] = fresh[w]]
  <2>1. LastKey(log[p].sealed) # fresh[w]
    BY <1>2 DEF IInv, FreshInv, NotUsed
  <2>. QED
    BY <1>0, <1>2, <2>1 DEF TypeOK
<1>3. CASE key' = [key EXCEPT ![Current(w).pii] = 0]
  <2>1. log[p] \in Events(issued) /\ issued \in Nat
    BY <1>0, Types
  <2>2. LastKey(log[p].sealed) # 0
    BY <2>1, LastKeyType DEF Events
  <2>. QED
    BY <1>0, <1>3, <2>2 DEF TypeOK
<1>. QED
  BY <1>0, <1>1, <1>2, <1>3, StoreFrame DEF RingStep

(* What is gone stays gone, events that follow being after the request.     *)
LEMMA GoneStays ==
  ASSUME IInv, NEW w \in Writers, Step(w), NEW x \in Subjects, NEW q \in DOMAIN log,
         Gone(x, q)
  PROVE  Gone(x, q)'
<1>. SUFFICES ASSUME NEW p \in DOMAIN log', p <= q, log'[p].sealed # <<>>,
                     log'[p].pii = x
              PROVE  LastKey(log'[p].sealed) # key'[x]
  BY DEF Gone
<1>1. p \in DOMAIN log /\ log'[p] = log[p]
  BY StoresGrow
<1>2. LastKey(log[p].sealed) # key[x]
  BY <1>1 DEF Gone
<1>. QED
  BY <1>1, <1>2, SealedForGood

LEMMA GoneStep ==
  ASSUME IInv, NEW w \in Writers, Step(w)
  PROVE  GoneInv'
<1>0. TypeOK /\ GoneInv
  BY DEF IInv
<1>1. ASSUME NEW v \in Writers, pc[v] = "recording"
      PROVE  /\ Current(v).pii \in Subjects /\ Position(v, at[v]) \in DOMAIN log
             /\ Gone(Current(v).pii, Position(v, at[v]))
  BY <1>0, <1>1, RequestAtHand DEF GoneInv
<1>2. ASSUME NEW n \in DOMAIN ledger', NEW x, x = ledger'[n][1],
             NEW q, q = ledger'[n][2]
      PROVE  Gone(x, q)'
  <2>1. CASE n \in DOMAIN ledger
    <3>1. ledger'[n] = ledger[n] /\ q \in DOMAIN log /\ x \in Subjects
      BY <1>0, <1>2, <2>1, StoresGrow, Types DEF IInv, LedgerInv
    <3>. QED
      BY <1>0, <1>2, <2>1, <3>1, GoneStays DEF GoneInv
  <2>2. CASE n \notin DOMAIN ledger
    <3>1. pc[w] = "recording" /\ x = Current(w).pii /\ q = Position(w, at[w])
      BY <1>2, <2>2, StoresGrow, RequestAtHand
    <3>. QED
      BY <1>1, <3>1, GoneStays
  <2>. QED
    BY <2>1, <2>2
<1>3. ASSUME NEW v \in Writers, pc'[v] = "recording",
             NEW x, x = Current(v).pii', NEW q, q = Position(v, at[v])'
      PROVE  Gone(x, q)'
  <2>1. CASE v # w
    <3>1. UNCHANGED <<pc[v], buf[v], at[v], first[v]>>
      BY <1>0, <2>1, WriterFrame
    <3>2. x = Current(v).pii /\ q = Position(v, at[v]) /\ pc[v] = "recording"
      BY <1>3, <3>1 DEF Current, Position
    <3>. QED
      BY <1>1, <3>2, GoneStays
  <2>2. CASE v = w
    <3>1. ForgetKey(w)
      BY <1>0, <1>3, <2>2
         DEF Step, LoadAndRecord, SealSkips, SealWithKey, SealGeneratesKey,
             SealPutsKey, InnerCommit, InnerConflict, ShredSkips, AppendLedger,
             CommitReturns, CallFails, AnswerLost, RetrySave, GiveUp,
             BecomesIdle, TypeOK
    <3>2. x = Current(w).pii /\ x \in Subjects /\ log' = log /\ key'[x] = 0
      <4>1. at[w] \in DOMAIN buf[w] /\ Erases(Current(w))
        BY <1>0, <3>1, Types DEF ForgetKey
      <4>2. Current(w).pii \in Subjects
        BY <4>1, CurrentSubject
      <4>. QED
        BY <1>0, <1>3, <2>2, <3>1, <4>2
           DEF ForgetKey, Current, Forgotten, TypeOK, storeVars
    <3>3. ASSUME NEW p \in DOMAIN log, log[p].sealed # <<>>
          PROVE  LastKey(log[p].sealed) # 0
      <4>1. log[p] \in Events(issued) /\ issued \in Nat
        BY <1>0, Types
      <4>. QED
        BY <3>3, <4>1, LastKeyType DEF Events
    <3>. QED
      BY <3>2, <3>3 DEF Gone
  <2>. QED
    BY <2>1, <2>2
<1>4. ASSUME NEW n \in DOMAIN ledger' PROVE Gone(ledger[n][1], ledger[n][2])'
  <2>1. PICK x : x = ledger'[n][1]
    OBVIOUS
  <2>2. PICK q : q = ledger'[n][2]
    OBVIOUS
  <2>3. Gone(x, q)'
    BY <1>2, <2>1, <2>2
  <2>. QED
    BY <2>1, <2>2, <2>3 DEF Gone
<1>5. ASSUME NEW v \in Writers, pc'[v] = "recording"
      PROVE  Gone(Current(v).pii, Position(v, at[v]))'
  <2>1. PICK x : x = Current(v).pii'
    OBVIOUS
  <2>2. PICK q : q = Position(v, at[v])'
    OBVIOUS
  <2>3. Gone(x, q)'
    BY <1>3, <1>5, <2>1, <2>2
  <2>. QED
    BY <2>1, <2>2, <2>3 DEF Gone
<1>. QED
  BY <1>4, <1>5 DEF GoneInv

-----------------------------------------------------------------------------
(* The theorems.                                                            *)

LEMMA InvStep == IInv /\ [Next]_vars => IInv'
<1>1. ASSUME IInv, NEW w \in Writers, Step(w) PROVE IInv'
  BY <1>1, TypeStep, SealingStep, FreshStep, RestStep, BatchStep, GoneStep,
     LedgerStaysTrue DEF IInv
<1>2. Next => \E w \in Writers : Step(w)
  BY DEF Next, Step
<1>3. ASSUME IInv, UNCHANGED vars PROVE IInv'
  <2>1. UNCHANGED <<log, key, issued, ledger, pc, agg, base, buf, at, fresh,
                    first, tries, saves, failures, acked>>
    BY <1>3 DEF vars, storeVars, writerVars
  <2>2. TypeOK' /\ SealingInv' /\ RestInv' /\ LedgerInv'
    BY <1>3, <2>1 DEF IInv, TypeOK, SealingInv, RestInv, LedgerInv, Current
  <2>3. FreshInv'
    BY <1>3, <2>1 DEF IInv, FreshInv, NotUsed
  <2>4. BatchInv'
    BY <1>3, <2>1 DEF IInv, BatchInv, Shredding, InTheLog, Recorded, Apart,
                      Position, Current
  <2>5. GoneInv'
    BY <1>3, <2>1 DEF IInv, GoneInv, Gone, Current, Position
  <2>. QED
    BY <2>2, <2>3, <2>4, <2>5 DEF IInv
<1>. QED
  BY <1>1, <1>2, <1>3

LEMMA Invariance == Spec => []IInv
  BY InitInv, InvStep, PTL DEF Spec

(* Every variable keeps its type: what Commit's loops index exists, and no  *)
(* key is in the ring that was not issued.                                  *)
THEOREM TypeCorrect == Spec => []TypeOK
<1>1. IInv => TypeOK
  BY DEF IInv
<1>. QED
  BY <1>1, Invariance, PTL

(* PiiEventStore.Commit stores a declared PII field in clear exactly when   *)
(* its event has no PiiID or no registered name, whatever calls failed and  *)
(* whatever Save was tried again, and encrypts it at most once per Save.    *)
THEOREM AtRestIsSealed == Spec => []SealedUnlessUnmarked
<1>1. ASSUME IInv PROVE SealedUnlessUnmarked
  <2>. SUFFICES ASSUME NEW p \in DOMAIN log, log[p].payload \in Declares
                PROVE  /\ log[p].sealed = <<>> <=>
                            log[p].pii = NoSubject \/ log[p].payload \notin Registered
                       /\ Len(log[p].sealed) <= log[p].tries
    BY DEF SealedUnlessUnmarked
  <2>1. AtRest(log[p])
    BY <1>1 DEF IInv, RestInv
  <2>. QED
    BY <2>1 DEF AtRest, Sealed, AtMost, Sealable
<1>. QED
  BY <1>1, Invariance, PTL

(* The ledger has one record per erasure request, at that request's         *)
(* GlobalID; a request whose Save returned nil has its record exactly when  *)
(* it names a subject and is registered.                                    *)
THEOREM LedgerIsExact == Spec => []LedgerMatchesRequests
<1>1. IInv => LedgerMatchesRequests
  BY DEF IInv, LedgerInv, LedgerMatchesRequests, Erases
<1>. QED
  BY <1>1, Invariance, PTL

(* Nothing sealed for a subject up to a recorded erasure opens again,       *)
(* although sealing and shredding are not serialized: a key that is put     *)
(* after the Forget was never used by an event that is in the log.          *)
THEOREM ForgetIsFinal == Spec => []ErasureIsFinal
<1>1. ASSUME IInv PROVE ErasureIsFinal
  <2>. SUFFICES ASSUME NEW n \in DOMAIN ledger, NEW p \in 1..ledger[n][2],
                       log[p].sealed # <<>>, log[p].pii = ledger[n][1]
                PROVE  Outcome(log[p]) \notin {"plain", "garbled"}
    BY DEF ErasureIsFinal
  <2>1. Len(log) \in Nat /\ DOMAIN log = 1..Len(log) /\ ledger[n][2] \in DOMAIN log
    BY <1>1, Types DEF IInv, LedgerInv
  <2>2. p \in DOMAIN log /\ p <= ledger[n][2]
    BY <2>1
  <2>3. LastKey(log[p].sealed) # key[log[p].pii]
    BY <1>1, <2>2 DEF IInv, GoneInv, Gone
  <2>. QED
    BY <2>3 DEF Outcome, LastKey
<1>. QED
  BY <1>1, Invariance, PTL

-----------------------------------------------------------------------------
(* Verifier.                                                                *)

(* The auditor's own variables.                                             *)
AuditTypes ==
  /\ step \in {"idle", "key", "events", "opening"}
  /\ about \in Subjects
  /\ keyForgotten \in BOOLEAN
  /\ upto \in 0..Len(log)
  /\ toOpen \subseteq 1..upto
  /\ decrypts \in BOOLEAN
  /\ audits \in 0..MaxAudits
  /\ proven \in [Subjects -> 0..Len(log)]

(* What is sealed in p for x needs another key than x has now.              *)
Lost(p, x) ==
  log[p].sealed # <<>> /\ log[p].pii = x
    => LastKey(log[p].sealed) # key[x]

(* While nothing decrypted, what the audit has opened is lost.              *)
OpenedInv ==
  step = "opening" /\ ~decrypts =>
    \A p \in DOMAIN log : p <= upto /\ p \notin toOpen => Lost(p, about)

(* What lies before the point a proof was given for is lost.                *)
ProvenInv ==
  \A x \in Subjects : \A p \in DOMAIN log : p <= proven[x] => Lost(p, x)

AuditInv == IInv /\ AuditTypes /\ OpenedInv /\ ProvenInv

-----------------------------------------------------------------------------
(* The auditor writes nothing: with it the writers do what they do alone.   *)
LEMMA AuditIsReadOnly == AuditSpec => Spec
<1>1. InitAudit => Init
  BY DEF InitAudit
<1>2. [NextAudit]_allVars => [Next]_vars
  BY DEF NextAudit, Verify, ReadLedger, CheckKey, FetchEvents, OpenNext, Ends,
         OpenFails, VerifyReturns, allVars
<1>. QED
  BY <1>1, <1>2, PTL DEF AuditSpec, Spec

(* A sealed event whose subject has no key is lost ...                      *)
LEMMA UnrecoverableIsLost ==
  ASSUME IInv, NEW p \in DOMAIN log, ~Decrypts(p)
  PROVE  \A x \in Subjects : Lost(p, x)
<1>. SUFFICES ASSUME NEW x \in Subjects, log[p].sealed # <<>>, log[p].pii = x
              PROVE  LastKey(log[p].sealed) # key[x]
  BY DEF Lost
<1>1. log[p] \in Events(issued) /\ issued \in Nat
  BY Types DEF IInv
<1>2. LastKey(log[p].sealed) # 0
  BY <1>1, LastKeyType DEF Events
<1>3. key[x] = 0
  BY DEF Decrypts, Outcome
<1>. QED
  BY <1>2, <1>3

(* ... and stays so whatever the writers do.                                *)
LEMMA LostForGood ==
  ASSUME IInv, NEW w \in Writers, Step(w), NEW p \in DOMAIN log, NEW x \in Subjects,
         Lost(p, x)
  PROVE  Lost(p, x)'
<1>1. log'[p] = log[p]
  BY StoresGrow
<1>2. log[p].sealed # <<>> /\ log[p].pii = x => LastKey(log[p].sealed) # key'[x]
  BY SealedForGood DEF Lost
<1>. QED
  BY <1>1, <1>2 DEF Lost

-----------------------------------------------------------------------------
LEMMA InitAuditInv == InitAudit => AuditInv
<1>. SUFFICES ASSUME InitAudit PROVE AuditInv
  OBVIOUS
<1>1. IInv
  BY InitInv DEF InitAudit
<1>2. log = <<>> /\ Len(log) = 0 /\ DOMAIN log = {}
  BY DEF InitAudit, Init
<1>3. AuditTypes
  <2>1. about \in Subjects
    BY AuditAssumption DEF InitAudit
  <2>2. 1..0 = {} /\ 0 \in 0..0 /\ 0 \in 0..MaxAudits
    BY AuditAssumption
  <2>3. proven \in [Subjects -> 0..0]
    BY <2>2 DEF InitAudit
  <2>. QED
    BY <1>2, <2>1, <2>2, <2>3 DEF InitAudit, AuditTypes
<1>4. OpenedInv /\ ProvenInv
  BY <1>2 DEF OpenedInv, ProvenInv
<1>. QED
  BY <1>1, <1>3, <1>4 DEF AuditInv

(* A writer's step.                                                         *)
LEMMA WriterStep ==
  ASSUME AuditInv, NEW w \in Writers, Step(w), UNCHANGED auditVars, IInv'
  PROVE  AuditInv'
<1>0. /\ IInv /\ AuditTypes /\ OpenedInv /\ ProvenInv
      /\ UNCHANGED <<step, about, keyForgotten, upto, toOpen, decrypts, audits, proven>>
  BY DEF AuditInv, auditVars
<1>1. /\ Len(log) \in Nat /\ Len(log') \in Nat /\ Len(log) <= Len(log')
      /\ DOMAIN log = 1..Len(log) /\ DOMAIN log' = 1..Len(log')
  BY <1>0, StoresGrow
<1>2. AuditTypes'
  <2>1. 0..Len(log) \subseteq 0..Len(log')
    BY <1>1
  <2>2. proven \in [Subjects -> 0..Len(log')]
    BY <1>0, <2>1 DEF AuditTypes
  <2>. QED
    BY <1>0, <2>1, <2>2 DEF AuditTypes
<1>3. ASSUME NEW p \in DOMAIN log', NEW n \in 0..Len(log), p <= n
      PROVE  p \in DOMAIN log
  BY <1>1, <1>3
<1>4. OpenedInv'
  <2>. SUFFICES ASSUME step = "opening", ~decrypts, NEW p \in DOMAIN log',
                       p <= upto, p \notin toOpen, NEW x \in Subjects, x = about
                PROVE  Lost(p, x)'
    BY <1>0 DEF OpenedInv, AuditTypes, Lost
  <2>1. p \in DOMAIN log
    BY <1>0, <1>3 DEF AuditTypes
  <2>2. Lost(p, x)
    BY <1>0, <2>1 DEF OpenedInv
  <2>. QED
    BY <1>0, <2>1, <2>2, LostForGood
<1>5. ProvenInv'
  <2>. SUFFICES ASSUME NEW x \in Subjects, NEW p \in DOMAIN log', p <= proven[x]
                PROVE  Lost(p, x)'
    BY <1>0 DEF ProvenInv
  <2>1. p \in DOMAIN log
    BY <1>0, <1>3 DEF AuditTypes
  <2>2. Lost(p, x)
    BY <1>0, <2>1 DEF ProvenInv
  <2>. QED
    BY <1>0, <2>1, <2>2, LostForGood
<1>. QED
  BY <1>2, <1>4, <1>5 DEF AuditInv

(* A step of the auditor.                                                   *)
LEMMA AuditorStep ==
  ASSUME AuditInv, Verify
  PROVE  AuditInv'
<1>0. IInv /\ AuditTypes /\ OpenedInv /\ ProvenInv
  BY DEF AuditInv
<1>1. Len(log) \in Nat /\ DOMAIN log = 1..Len(log)
  BY <1>0, Types DEF IInv
<1>2. UNCHANGED vars
  BY DEF Verify, ReadLedger, CheckKey, FetchEvents, OpenNext, OpenFails,
         VerifyReturns, Ends
<1>3. UNCHANGED <<log, key>>
  BY <1>2 DEF vars, storeVars
<1>4. IInv'
  BY <1>0, <1>2, InvStep
<1>5. AuditTypes'
  <2>. USE DEF Verify, ReadLedger, CheckKey, FetchEvents, OpenNext, OpenFails,
               VerifyReturns, Ends
  <2>1. step' \in {"idle", "key", "events", "opening"} /\ about' \in Subjects
    BY <1>0 DEF AuditTypes
  <2>2. keyForgotten' \in BOOLEAN /\ decrypts' \in BOOLEAN
    <3>1. /\ keyForgotten' \in {keyForgotten, FALSE, key[about] = 0}
          /\ decrypts' \in {decrypts, FALSE, decrypts \/ Decrypts(NextToOpen)}
      OBVIOUS
    <3>. QED
      BY <1>0, <3>1, Zenon DEF AuditTypes
  <2>4. audits' \in 0..MaxAudits
    <3>1. CASE \E x \in Subjects : ReadLedger(x)
      BY <1>0, <3>1, AuditAssumption DEF AuditTypes
    <3>2. CASE ~\E x \in Subjects : ReadLedger(x)
      <4>1. audits' = audits
        BY <3>2
      <4>. QED
        BY <1>0, <4>1 DEF AuditTypes
    <3>. QED
      BY <3>1, <3>2
  <2>5. upto' \in 0..Len(log) /\ toOpen' \subseteq 1..upto'
    <3>1. \/ upto' = upto /\ toOpen' \subseteq toOpen
          \/ upto' = 0 /\ toOpen' = {}
          \/ upto' = Len(log) /\ toOpen' = EventsAbout(about)
      BY DEF FetchByPiiID
    <3>2. EventsAbout(about) \subseteq 1..Len(log)
      BY <1>1 DEF EventsAbout
    <3>3. upto \in 0..Len(log) /\ toOpen \subseteq 1..upto /\ 1..0 = {}
      BY <1>0 DEF AuditTypes
    <3>4. CASE upto' = upto /\ toOpen' \subseteq toOpen
      BY <3>3, <3>4
    <3>5. CASE upto' = 0 /\ toOpen' = {}
      BY <1>1, <3>5
    <3>6. CASE upto' = Len(log) /\ toOpen' = EventsAbout(about)
      BY <1>1, <3>2, <3>6
    <3>. QED
      BY <3>1, <3>4, <3>5, <3>6
  <2>3. proven' \in [Subjects -> 0..Len(log)]
    BY <1>0
       DEF AuditTypes, Verify, ReadLedger, CheckKey, FetchEvents, OpenNext,
           OpenFails, VerifyReturns, Ends
  <2>. QED
    BY <1>3, <2>1, <2>2, <2>3, <2>4, <2>5 DEF AuditTypes
<1>6. OpenedInv'
  <2>1. CASE FetchEvents
    <3>1. /\ upto' = Len(log) /\ about' = about
          /\ toOpen' = {p \in DOMAIN log : log[p].pii = about}
      BY <2>1 DEF FetchEvents, FetchByPiiID, EventsAbout
    <3>. QED
      BY <1>3, <3>1 DEF OpenedInv, Lost
  <2>2. CASE OpenNext
    <3>1. /\ toOpen' = toOpen \ {NextToOpen} /\ UNCHANGED <<step, about, upto>>
          /\ decrypts' = (decrypts \/ Decrypts(NextToOpen)) /\ step = "opening"
      BY <2>2 DEF OpenNext
    <3>2. ASSUME NEW p \in DOMAIN log, p <= upto, p \notin toOpen', ~decrypts'
          PROVE  Lost(p, about)
      <4>1. CASE p = NextToOpen
        BY <1>0, <3>1, <3>2, <4>1, UnrecoverableIsLost DEF AuditTypes
      <4>2. CASE p # NextToOpen
        BY <1>0, <3>1, <3>2, <4>2 DEF OpenedInv
      <4>. QED
        BY <4>1, <4>2
    <3>. QED
      BY <1>3, <3>1, <3>2 DEF OpenedInv, Lost
  <2>3. CASE (\E x \in Subjects : ReadLedger(x)) \/ CheckKey \/ OpenFails
               \/ VerifyReturns
    BY <2>3 DEF ReadLedger, CheckKey, OpenFails, VerifyReturns, Ends, OpenedInv
  <2>. QED
    BY <2>1, <2>2, <2>3 DEF Verify
<1>7. ProvenInv'
  <2>1. CASE proven' = proven
    BY <1>0, <1>3, <2>1 DEF ProvenInv, Lost
  <2>2. CASE /\ step = "opening" /\ toOpen = {} /\ ~decrypts
             /\ proven' = [proven EXCEPT ![about] = upto]
    <3>1. \A p \in DOMAIN log : p <= upto => Lost(p, about)
      BY <1>0, <2>2 DEF OpenedInv
    <3>2. \A x \in Subjects : proven'[x] = IF x = about THEN upto ELSE proven[x]
      BY <1>0, <2>2 DEF AuditTypes
    <3>. QED
      BY <1>0, <1>3, <3>1, <3>2 DEF ProvenInv, Lost
  <2>. QED
    BY <2>1, <2>2 DEF Verify, ReadLedger, CheckKey, FetchEvents, OpenNext,
                      OpenFails, VerifyReturns
<1>. QED
  BY <1>4, <1>5, <1>6, <1>7 DEF AuditInv

LEMMA AuditInvStep == AuditInv /\ [NextAudit]_allVars => AuditInv'
<1>1. ASSUME AuditInv, Next, UNCHANGED auditVars PROVE AuditInv'
  <2>1. \E w \in Writers : Step(w)
    BY <1>1 DEF Next, Step
  <2>2. IInv'
    BY <1>1, InvStep DEF AuditInv
  <2>. QED
    BY <1>1, <2>1, <2>2, WriterStep
<1>2. ASSUME AuditInv, UNCHANGED allVars PROVE AuditInv'
  <2>1. /\ UNCHANGED vars /\ UNCHANGED <<log, key>>
        /\ UNCHANGED <<step, about, keyForgotten, upto, toOpen, decrypts,
                       audits, proven>>
    BY <1>2 DEF allVars, auditVars, vars, storeVars
  <2>2. IInv'
    BY <1>2, <2>1, InvStep DEF AuditInv
  <2>. QED
    BY <1>2, <2>1, <2>2
       DEF AuditInv, AuditTypes, OpenedInv, ProvenInv, Lost
<1>. QED
  BY <1>1, <1>2, AuditorStep DEF NextAudit

LEMMA AuditInvariance == AuditSpec => []AuditInv
  BY InitAuditInv, AuditInvStep, PTL DEF AuditSpec

-----------------------------------------------------------------------------
(* The theorems.                                                            *)

(* The auditor beside the writers: every variable of both has its type.     *)
THEOREM AuditTypeCorrect == AuditSpec => []AuditTypeOK
<1>1. AuditInv => AuditTypeOK
  BY DEF AuditInv, IInv, AuditTypes, AuditTypeOK
<1>. QED
  BY <1>1, AuditInvariance, PTL

(* Once ErasureVerifier.Verify returned nil, nothing sealed the log held    *)
(* of the subject opens ever again, although Verify reads the ledger, the   *)
(* ring and the events one after the other, and opens each event with the   *)
(* key of that moment, while Saves seal, put keys and forget them.          *)
THEOREM ProofsHoldForGood == AuditSpec => []ProofsStayTrue
<1>1. ASSUME AuditInv PROVE ProofsStayTrue
  <2>. SUFFICES ASSUME NEW x \in Subjects, NEW p \in 1..proven[x],
                       log[p].pii = x, log[p].sealed # <<>>
                PROVE  Outcome(log[p]) \notin {"plain", "garbled"}
    BY DEF ProofsStayTrue
  <2>1. Len(log) \in Nat /\ DOMAIN log = 1..Len(log) /\ proven[x] \in 0..Len(log)
    BY <1>1, Types DEF AuditInv, IInv, AuditTypes
  <2>2. p \in DOMAIN log /\ p <= proven[x]
    BY <2>1
  <2>3. LastKey(log[p].sealed) # key[x]
    BY <1>1, <2>2 DEF AuditInv, ProvenInv, Lost
  <2>. QED
    BY <2>3 DEF Outcome, LastKey
<1>. QED
  BY <1>1, AuditInvariance, PTL

(* An audit disturbs no Save: what is shown above of the inner store,       *)
(* of the key ring and of the ledger holds while Verify runs.               *)
THEOREM AuditKeepsTheStoresSound ==
  AuditSpec => [](SealedUnlessUnmarked /\ ErasureIsFinal /\ LedgerMatchesRequests)
  BY AuditIsReadOnly, AtRestIsSealed, ForgetIsFinal, LedgerIsExact, PTL

=============================================================================
