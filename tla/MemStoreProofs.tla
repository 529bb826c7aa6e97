--------------------------- MODULE MemStoreProofs ---------------------------
(***************************************************************************)
(* Proofs about MemStore and about the exports made from it, for every      *)
(* number of writers, streams, aggregates and tenants, every channel        *)
(* capacity and every bound on commands.                                    *)
(***************************************************************************)
EXTENDS SubjectExport, FiniteSetTheorems, SequenceTheorems, TLAPS

(* GlobalIDs are positions: the counter is the length of the log.           *)
CounterInv == nextGlobalID = Len(all)

(* mu is held exactly by the writer inside Commit's critical section, and   *)
(* the critical section's local state is reset while nobody holds it.       *)
MutexInv ==
  /\ \A w \in Writers : wpc[w] = "committing" <=> mu = w
  /\ mu = NoWriter => appended = 0 /\ at = NoStream
  /\ at = NoStream => rest = {}

(* A writer that recorded events has a command left to acknowledge.         *)
PendingInv ==
  \A w \in Writers : wpc[w] # "idle" => cmds[w] < MaxCommands

(* While w commits, its stream holds exactly the version w loaded plus what *)
(* w appended: nobody else's event got in between.                          *)
CommitInv ==
  mu # NoWriter =>
    /\ appended <= size[mu]
    /\ Len(byAggregate[target[mu]]) = base[mu] + appended

IInv ==
  /\ TypeOK
  /\ CounterInv
  /\ MutexInv
  /\ PendingInv
  /\ CommitInv
  /\ GapFreeVersions

-----------------------------------------------------------------------------
(* Under gap-free versions the version Commit checks is the length of the   *)
(* stream, whatever the last event says.                                    *)
LEMMA CurrentVersionIsLength ==
  ASSUME byAggregate \in [Keys -> Seq(Nat)], GapFreeVersions, NEW k \in Keys
  PROVE  CurrentVersion(k) = Len(byAggregate[k])
<1>1. byAggregate[k] \in Seq(Nat)
  OBVIOUS
<1>2. CASE byAggregate[k] = <<>>
  BY <1>2 DEF CurrentVersion
<1>3. CASE byAggregate[k] # <<>>
  <2>1. Len(byAggregate[k]) \in DOMAIN byAggregate[k]
    BY <1>1, <1>3
  <2>. QED
    BY <1>3, <2>1 DEF CurrentVersion, GapFreeVersions
<1>. QED
  BY <1>2, <1>3

(* Load answers with a version: under a tenant its own stream's or the      *)
(* global stream's.                                                         *)
LEMMA LoadedVersionType ==
  ASSUME byAggregate \in [Keys -> Seq(Nat)], GapFreeVersions,
         NEW t \in Tenants, NEW a \in Aggregates
  PROVE  LoadedVersion(t, a) \in Nat
<1>1. <<t, a>> \in Keys /\ <<Global, a>> \in Keys
  BY ScopesAssumption DEF Keys
<1>2. /\ CurrentVersion(<<t, a>>) = Len(byAggregate[<<t, a>>])
      /\ CurrentVersion(<<Global, a>>) = Len(byAggregate[<<Global, a>>])
  BY <1>1, CurrentVersionIsLength
<1>. QED
  BY <1>1, <1>2 DEF LoadedVersion

LEMMA InitInv == Init => IInv
<1>. SUFFICES ASSUME Init PROVE IInv
  OBVIOUS
<1>1. TypeOK
  <2>1. \A w \in Writers : <<ScopeOfWriter[w], CHOOSE a \in Aggregates : TRUE>> \in Keys
    BY ScopesAssumption DEF Keys
  <2>. QED
    BY <2>1, BoundsAssumption DEF Init, TypeOK, Event
<1>2. GapFreeVersions
  BY DEF Init, GapFreeVersions
<1>3. CounterInv /\ MutexInv /\ PendingInv /\ CommitInv
  BY NobodyAssumption DEF Init, CounterInv, MutexInv, PendingInv, CommitInv
<1>. QED
  BY <1>1, <1>2, <1>3 DEF IInv

-----------------------------------------------------------------------------
(* Type correctness, one lemma per kind of step.                            *)

LEMMA TypeWriterStep ==
  ASSUME IInv, NEW w \in Writers, WriterStep(w)
  PROVE  TypeOK'
<1>. USE DEF IInv, TypeOK, storeVars, commitVars, writerVars, streamVars
<1>1. CASE LoadAggregate(w)
  <2>1. PICK a \in Aggregates, n \in 1..MaxBatch :
          /\ target' = [target EXCEPT ![w] = <<ScopeOfWriter[w], a>>]
          /\ base' = [base EXCEPT ![w] = LoadedVersion(ScopeOfWriter[w], a)]
          /\ size' = [size EXCEPT ![w] = n]
          /\ \E ids \in [1..n -> PiiIDsOf[w]] :
               carries' = [carries EXCEPT ![w] = ids]
    BY <1>1 DEF LoadAggregate
  <2>2. ScopeOfWriter[w] \in Tenants
    BY ScopesAssumption
  <2>3. LoadedVersion(ScopeOfWriter[w], a) \in Nat
    BY <2>2, LoadedVersionType
  <2>4. <<ScopeOfWriter[w], a>> \in Keys
    BY <2>2 DEF Keys
  <2>5. target' \in [Writers -> Keys]
    BY <2>1, <2>4
  <2>6. base' \in [Writers -> Nat]
    BY <2>1, <2>3
  <2>7. size' \in [Writers -> 0..MaxBatch]
    BY <2>1, BoundsAssumption
  <2>8. /\ DOMAIN carries' = Writers
        /\ \A v \in Writers :
             carries'[v] \in [1..size'[v] -> Subjects \cup {NoSubject}]
    <3>1. PICK ids \in [1..n -> PiiIDsOf[w]] :
            carries' = [carries EXCEPT ![w] = ids]
      BY <2>1
    <3>2. ids \in [1..n -> Subjects \cup {NoSubject}]
      BY <3>1, ScopesAssumption
    <3>. QED
      BY <2>1, <3>1, <3>2
  <2>. QED
    BY <1>1, <2>5, <2>6, <2>7, <2>8 DEF LoadAggregate
<1>. DEFINE Dropped == /\ size' = [size EXCEPT ![w] = 0]
                       /\ carries' = [carries EXCEPT ![w] = <<>>]
<1>7. ASSUME Dropped
      PROVE  /\ size' \in [Writers -> 0..MaxBatch]
             /\ DOMAIN carries' = Writers
             /\ \A v \in Writers :
                  carries'[v] \in [1..size'[v] -> Subjects \cup {NoSubject}]
  <2>1. size' \in [Writers -> 0..MaxBatch]
    BY <1>7, BoundsAssumption
  <2>2. <<>> \in [1..0 -> Subjects \cup {NoSubject}]
    OBVIOUS
  <2>3. \A v \in Writers : carries'[v] = IF v = w THEN <<>> ELSE carries[v]
    BY <1>7
  <2>4. \A v \in Writers : size'[v] = IF v = w THEN 0 ELSE size[v]
    BY <1>7
  <2>5. DOMAIN carries' = Writers
    BY <1>7
  <2>. QED
    BY <2>1, <2>2, <2>3, <2>4, <2>5
<1>2. CASE CommitConflict(w)
  <2>1. Dropped
    BY <1>2 DEF CommitConflict
  <2>2. base' \in [Writers -> Nat] /\ wpc' \in [Writers -> {"idle", "loaded", "committing"}]
    BY <1>2 DEF CommitConflict
  <2>. HIDE DEF Dropped
  <2>. QED
    BY <1>2, <1>7, <2>1, <2>2 DEF CommitConflict
<1>3. CASE CommitBegin(w)
  BY <1>3 DEF CommitBegin
<1>4. CASE AppendEvent(w)
  <2>1. [key |-> target[w], ver |-> RecordedVersion(w, appended + 1),
         by |-> w, cmd |-> cmds[w] + 1, of |-> size[w]] \in Event
    <3>1. /\ target[w] \in Keys /\ base[w] \in Nat /\ cmds[w] \in Nat
          /\ size[w] \in Nat /\ appended \in Nat
      BY BoundsAssumption
    <3>2. RecordedVersion(w, appended + 1) \in Nat
      BY <3>1 DEF RecordedVersion
    <3>. QED
      BY <3>1, <3>2 DEF Event
  <2>2. all' \in Seq(Event) /\ nextGlobalID' \in Nat
    BY <1>4, <2>1 DEF AppendEvent
  <2>3. byAggregate' \in [Keys -> Seq(Nat)]
    BY <1>4 DEF AppendEvent
  <2>4. byPii' \in [Subjects -> Seq(Nat)]
    BY <1>4 DEF AppendEvent, IndexedBySubject
  <2>5. appended' \in 0..MaxBatch
    BY <1>4, BoundsAssumption DEF AppendEvent
  <2>7. piiID' \in Seq(Subjects \cup {NoSubject})
    <3>1. appended + 1 \in 1..size[w]
      BY <1>4 DEF AppendEvent
    <3>2. NextPiiID(w) \in Subjects \cup {NoSubject}
      BY <3>1 DEF NextPiiID
    <3>. QED
      BY <1>4, <3>2, AppendProperties DEF AppendEvent
  <2>6. at' \in Streams \cup {NoStream} /\ rest' \subseteq Streams
    BY <1>4 DEF AppendEvent, NextTarget
  <2>. QED
    BY <1>4, <2>2, <2>3, <2>4, <2>5, <2>6, <2>7 DEF AppendEvent
<1>5. CASE SendLive(w)
  <2>1. at \in Streams /\ Len(live[at]) < LiveCap
    BY <1>5 DEF SendLive, HasRoom
  <2>2. /\ live' \in [Streams -> Seq(Nat)]
        /\ \A s \in Streams : Len(live'[s]) <= LiveCap
    BY <1>5, <2>1, BoundsAssumption DEF SendLive
  <2>3. at' \in Streams \cup {NoStream} /\ rest' \subseteq Streams
    BY <1>5 DEF SendLive, NextTarget
  <2>. QED
    BY <1>5, <2>2, <2>3 DEF SendLive
<1>6. CASE CommitReturn(w)
  <2>1. cmds[w] < MaxCommands
    BY <1>6 DEF CommitReturn, MutexInv, PendingInv
  <2>2. cmds' \in [Writers -> 0..MaxCommands]
    BY <1>6, <2>1, BoundsAssumption DEF CommitReturn
  <2>3. Dropped
    BY <1>6 DEF CommitReturn
  <2>4. /\ base' \in [Writers -> Nat] /\ mu' \in Writers \cup {NoWriter}
        /\ wpc' \in [Writers -> {"idle", "loaded", "committing"}]
        /\ appended' \in 0..MaxBatch
    BY <1>6, BoundsAssumption DEF CommitReturn, MuReleased
  <2>. HIDE DEF Dropped
  <2>. QED
    BY <1>6, <1>7, <2>2, <2>3, <2>4 DEF CommitReturn
<1>. QED
  BY <1>1, <1>2, <1>3, <1>4, <1>5, <1>6 DEF WriterStep

(* A step of StreamAll, of its goroutine or of its consumer.                *)
StreamStep(s) ==
  \/ Subscribe(s)
  \/ Deliver(s)
  \/ TakeLive(s)
  \/ Cancel(s)
  \/ ObserveCancel(s)
  \/ Unsubscribe(s)

LEMMA TypeStreamStep ==
  ASSUME IInv, NEW s \in Streams, StreamStep(s)
  PROVE  TypeOK'
<1>. USE DEF IInv, TypeOK, storeVars, commitVars, writerVars, streamVars
<1>1. CASE Subscribe(s)
  <2>1. Backlog(s) \subseteq Nat
    BY DEF Backlog
  <2>. QED
    BY <1>1, <2>1 DEF Subscribe
<1>2. CASE Deliver(s)
  BY <1>2, SMTT(30) DEF Deliver
<1>3. CASE TakeLive(s)
  <2>1. /\ Head(live[s]) \in Nat
        /\ Tail(live[s]) \in Seq(Nat)
        /\ Len(Tail(live[s])) <= LiveCap
    BY <1>3, BoundsAssumption, SMTT(30) DEF TakeLive
  <2>. QED
    BY <1>3, <2>1 DEF TakeLive
<1>4. CASE Cancel(s)
  BY <1>4 DEF Cancel
<1>5. CASE ObserveCancel(s)
  BY <1>5 DEF ObserveCancel
<1>6. CASE Unsubscribe(s)
  BY <1>6, BoundsAssumption, SMTT(30) DEF Unsubscribe
<1>. QED
  BY <1>1, <1>2, <1>3, <1>4, <1>5, <1>6 DEF StreamStep

-----------------------------------------------------------------------------
(* The rest of the invariant.                                               *)

(* Only an append touches the log and its indexes, and what it adds to a    *)
(* stream is that stream's next version.                                    *)
LEMMA AppendKeepsVersions ==
  ASSUME IInv, NEW w \in Writers, AppendEvent(w)
  PROVE  /\ GapFreeVersions'
         /\ CounterInv'
         /\ CommitInv'
<1>. DEFINE k == target[w]
            e == [key |-> k, ver |-> RecordedVersion(w, appended + 1),
                  by |-> w, cmd |-> cmds[w] + 1, of |-> size[w]]
<1>1. /\ all \in Seq(Event)
      /\ byAggregate \in [Keys -> Seq(Nat)]
      /\ k \in Keys
      /\ base[w] \in Nat
      /\ appended \in Nat
      /\ w # NoWriter
      /\ mu = w
      /\ nextGlobalID = Len(all)
      /\ Len(byAggregate[k]) = base[w] + appended
  BY NobodyAssumption, BoundsAssumption
     DEF IInv, TypeOK, CounterInv, CommitInv, AppendEvent
<1>2. /\ all' = Append(all, e)
      /\ nextGlobalID' = Len(all) + 1
      /\ byAggregate' = [byAggregate EXCEPT ![k] = Append(@, Len(all) + 1)]
      /\ appended' = appended + 1
      /\ appended < size[w]
      /\ UNCHANGED <<mu, target, base, size>>
  BY <1>1 DEF AppendEvent, writerVars
<1>3. e \in Event /\ e.key = k /\ e.ver = Len(byAggregate[k]) + 1
  BY <1>1, BoundsAssumption DEF Event, RecordedVersion, IInv, TypeOK
<1>4. /\ DOMAIN all = 1..Len(all)
      /\ DOMAIN all' = 1..(Len(all) + 1)
      /\ all'[Len(all) + 1] = e
      /\ \A p \in DOMAIN all : all'[p] = all[p]
  BY <1>1, <1>2, <1>3
<1>5. /\ DOMAIN byAggregate'[k] = 1..(Len(byAggregate[k]) + 1)
      /\ byAggregate'[k][Len(byAggregate[k]) + 1] = Len(all) + 1
      /\ \A i \in DOMAIN byAggregate[k] : byAggregate'[k][i] = byAggregate[k][i]
      /\ \A h \in Keys \ {k} : byAggregate'[h] = byAggregate[h]
      /\ DOMAIN byAggregate[k] = 1..Len(byAggregate[k])
      /\ Len(byAggregate[k]) \in Nat
  <2>1. byAggregate[k] \in Seq(Nat) /\ Len(byAggregate[k]) \in Nat
    BY <1>1
  <2>2. DOMAIN byAggregate[k] = 1..Len(byAggregate[k])
    BY <2>1
  <2>3. byAggregate'[k] = Append(byAggregate[k], Len(all) + 1)
    BY <1>1, <1>2
  <2>4. \A h \in Keys \ {k} : byAggregate'[h] = byAggregate[h]
    BY <1>1, <1>2
  <2>5. Len(all) + 1 \in Nat
    BY <1>1
  <2>6. /\ DOMAIN byAggregate'[k] = 1..(Len(byAggregate[k]) + 1)
        /\ byAggregate'[k][Len(byAggregate[k]) + 1] = Len(all) + 1
        /\ \A i \in DOMAIN byAggregate[k] : byAggregate'[k][i] = byAggregate[k][i]
    BY <2>1, <2>2, <2>3, <2>5
  <2>. QED
    BY <2>1, <2>2, <2>4, <2>6
<1>6. \A h \in Keys : \A i \in DOMAIN byAggregate[h] :
        /\ byAggregate[h][i] \in DOMAIN all
        /\ all[byAggregate[h][i]].key = h
        /\ all[byAggregate[h][i]].ver = i
        /\ \A j \in 1..(i - 1) : byAggregate[h][j] < byAggregate[h][i]
  BY DEF IInv, GapFreeVersions
<1>7. ASSUME NEW h \in Keys, NEW i \in DOMAIN byAggregate'[h]
      PROVE  /\ byAggregate'[h][i] \in DOMAIN all'
             /\ all'[byAggregate'[h][i]].key = h
             /\ all'[byAggregate'[h][i]].ver = i
             /\ \A j \in 1..(i - 1) : byAggregate'[h][j] < byAggregate'[h][i]
  <2>1. CASE h # k
    <3>1. byAggregate'[h] = byAggregate[h] /\ i \in DOMAIN byAggregate[h]
      BY <2>1, <1>5, <1>7
    <3>. QED
      BY <3>1, <1>6, <1>4, <1>1
  <2>2. CASE h = k /\ i \in DOMAIN byAggregate[k]
    <3>1. i \in Nat /\ i >= 1 /\ i \in 1..i /\ 1..i \subseteq DOMAIN byAggregate[k]
      BY <2>2, <1>5
    <3>2. \A j \in 1..i : byAggregate'[k][j] = byAggregate[k][j]
      BY <3>1, <1>5
    <3>3. /\ byAggregate[k][i] \in DOMAIN all
          /\ all[byAggregate[k][i]].key = k
          /\ all[byAggregate[k][i]].ver = i
          /\ \A j \in 1..(i - 1) : byAggregate[k][j] < byAggregate[k][i]
      BY <2>2, <1>6, <1>1
    <3>4. 1..(i - 1) \subseteq 1..i
      BY <3>1
    <3>5. byAggregate'[k][i] = byAggregate[k][i]
      BY <3>1, <3>2
    <3>6. all'[byAggregate[k][i]] = all[byAggregate[k][i]]
      BY <3>3, <1>4
    <3>7. byAggregate[k][i] \in DOMAIN all'
      BY <3>3, <1>4, <1>1
    <3>8. \A j \in 1..(i - 1) : byAggregate'[k][j] < byAggregate'[k][i]
      BY <3>2, <3>3, <3>4, <3>5
    <3>. QED
      BY <2>2, <3>3, <3>5, <3>6, <3>7, <3>8
  <2>3. CASE h = k /\ i = Len(byAggregate[k]) + 1
    <3>0. 1..(i - 1) = DOMAIN byAggregate[k]
      BY <2>3, <1>5
    <3>1. \A j \in 1..(i - 1) : byAggregate'[k][j] \in 1..Len(all)
      BY <3>0, <1>1, <1>4, <1>5, <1>6
    <3>2. byAggregate'[k][i] = Len(all) + 1
      BY <2>3, <1>5
    <3>3. Len(all) + 1 \in DOMAIN all'
      BY <1>1, <1>4
    <3>4. all'[Len(all) + 1].key = k /\ all'[Len(all) + 1].ver = i
      BY <2>3, <1>3, <1>4
    <3>5. \A j \in 1..(i - 1) : byAggregate'[k][j] < Len(all) + 1
      BY <3>1, <1>1
    <3>. QED
      BY <2>3, <3>2, <3>3, <3>4, <3>5
  <2>. QED
    BY <2>1, <2>2, <2>3, <1>5, <1>7
<1>8. ASSUME NEW p \in DOMAIN all'
      PROVE  all'[p].ver \in DOMAIN byAggregate'[all'[p].key]
  <2>1. CASE p \in DOMAIN all
    <3>1. all[p].ver \in DOMAIN byAggregate[all[p].key]
      BY <2>1 DEF IInv, GapFreeVersions
    <3>2. all[p] \in Event
      BY <2>1, <1>1
    <3>3. all[p].key \in Keys
      BY <3>2 DEF Event
    <3>. QED
      BY <2>1, <3>1, <3>3, <1>4, <1>5
  <2>2. CASE p = Len(all) + 1
    BY <2>2, <1>3, <1>4, <1>5
  <2>. QED
    BY <2>1, <2>2, <1>1, <1>4
<1>9. GapFreeVersions'
  BY <1>7, <1>8 DEF GapFreeVersions
<1>10. CounterInv'
  BY <1>1, <1>2, <1>3 DEF CounterInv
<1>11. CommitInv'
  <2>1. size[w] \in Nat
    BY BoundsAssumption DEF IInv, TypeOK
  <2>2. mu' = w /\ target'[w] = k /\ base'[w] = base[w] /\ size'[w] = size[w]
    BY <1>1, <1>2
  <2>3. Len(byAggregate'[k]) = Len(byAggregate[k]) + 1
    BY <1>1, <1>2
  <2>. QED
    <3>1. appended' <= size'[mu']
      BY <1>1, <1>2, <2>1, <2>2
    <3>2. byAggregate'[target'[mu']] = byAggregate'[k]
      BY <2>2
    <3>3. base'[mu'] = base[w]
      BY <2>2
    <3>4. Len(byAggregate'[k]) = base[w] + appended'
      <4>1. /\ base[w] \in Nat /\ appended \in Nat
            /\ Len(byAggregate[k]) = base[w] + appended
        BY <1>1
      <4>2. appended' = appended + 1
        BY <1>2
      <4>. QED
        BY <4>1, <4>2, <2>3
    <3>5. Len(byAggregate'[target'[mu']]) = base'[mu'] + appended'
      BY <3>2, <3>3, <3>4
    <3>. QED
      BY <3>1, <3>5 DEF CommitInv
<1>. QED
  BY <1>9, <1>10, <1>11

(* Every other step leaves the log alone.                                   *)
LEMMA LogUnchanged ==
  ASSUME UNCHANGED storeVars, CounterInv, GapFreeVersions
  PROVE  CounterInv' /\ GapFreeVersions'
BY DEF storeVars, CounterInv, GapFreeVersions

LEMMA InvWriterStep ==
  ASSUME IInv, NEW w \in Writers, WriterStep(w)
  PROVE  IInv'
<1>1. TypeOK'
  BY TypeWriterStep
<1>2. MutexInv' /\ PendingInv'
  <2>. USE NobodyAssumption DEF IInv, TypeOK, MutexInv, PendingInv,
           storeVars, commitVars, writerVars, streamVars
  <2>1. CASE LoadAggregate(w)
    BY <2>1 DEF LoadAggregate, MuFree
  <2>2. CASE CommitConflict(w)
    BY <2>2 DEF CommitConflict
  <2>3. CASE CommitBegin(w)
    BY <2>3 DEF CommitBegin, MuFree
  <2>4. CASE AppendEvent(w)
    BY <2>4 DEF AppendEvent, NextTarget
  <2>5. CASE SendLive(w)
    BY <2>5 DEF SendLive, NextTarget
  <2>6. CASE CommitReturn(w)
    <3>1. mu' = NoWriter /\ wpc' = [wpc EXCEPT ![w] = "idle"]
      BY <2>6 DEF CommitReturn, MuReleased
    <3>2. \A v \in Writers : wpc'[v] # "committing"
      BY <2>6, <3>1 DEF CommitReturn
    <3>3. MutexInv'
      BY <2>6, <3>1, <3>2 DEF CommitReturn
    <3>4. PendingInv'
      BY <2>6, <3>1 DEF CommitReturn
    <3>. QED
      BY <3>3, <3>4
  <2>. QED
    BY <2>1, <2>2, <2>3, <2>4, <2>5, <2>6 DEF WriterStep
<1>3. CounterInv' /\ GapFreeVersions' /\ CommitInv'
  <2>. USE NobodyAssumption DEF storeVars, commitVars, writerVars, streamVars
  <2>1. CASE LoadAggregate(w)
    <3>1. CounterInv' /\ GapFreeVersions'
      BY <2>1, LogUnchanged DEF LoadAggregate, IInv
    <3>2. CommitInv'
      BY <2>1 DEF LoadAggregate, MuFree, CommitInv
    <3>. QED
      BY <3>1, <3>2
  <2>2. CASE CommitConflict(w)
    <3>1. CounterInv' /\ GapFreeVersions'
      BY <2>2, LogUnchanged DEF CommitConflict, IInv
    <3>2. CommitInv'
      BY <2>2 DEF CommitConflict, MuFree, CommitInv
    <3>. QED
      BY <3>1, <3>2
  <2>3. CASE CommitBegin(w)
    <3>1. CounterInv' /\ GapFreeVersions'
      BY <2>3, LogUnchanged DEF CommitBegin, IInv
    <3>2. target[w] \in Keys
      BY DEF IInv, TypeOK
    <3>3. Len(byAggregate[target[w]]) = base[w]
      BY <2>3, <3>2, CurrentVersionIsLength
         DEF CommitBegin, VersionMatches, IInv, TypeOK
    <3>4. appended = 0 /\ size[w] \in Nat /\ base[w] \in Nat
      BY <2>3, BoundsAssumption DEF CommitBegin, MuFree, IInv, TypeOK, MutexInv
    <3>5. CommitInv'
      BY <2>3, <3>3, <3>4 DEF CommitBegin, CommitInv
    <3>. QED
      BY <3>1, <3>5
  <2>4. CASE AppendEvent(w)
    BY <2>4, AppendKeepsVersions
  <2>5. CASE SendLive(w)
    <3>1. CounterInv' /\ GapFreeVersions'
      BY <2>5, LogUnchanged DEF SendLive, IInv
    <3>2. CommitInv'
      BY <2>5 DEF SendLive, CommitInv, IInv
    <3>. QED
      BY <3>1, <3>2
  <2>6. CASE CommitReturn(w)
    <3>1. CounterInv' /\ GapFreeVersions'
      BY <2>6, LogUnchanged DEF CommitReturn, IInv
    <3>2. CommitInv'
      BY <2>6 DEF CommitReturn, MuReleased, CommitInv
    <3>. QED
      BY <3>1, <3>2
  <2>. QED
    BY <2>1, <2>2, <2>3, <2>4, <2>5, <2>6 DEF WriterStep
<1>. QED
  BY <1>1, <1>2, <1>3 DEF IInv

LEMMA InvStreamStep ==
  ASSUME IInv, NEW s \in Streams, StreamStep(s)
  PROVE  IInv'
<1>1. TypeOK'
  BY TypeStreamStep
<1>2. UNCHANGED <<storeVars, commitVars, writerVars>>
  BY DEF StreamStep, Subscribe, Deliver, TakeLive, Cancel, ObserveCancel,
         Unsubscribe
<1>3. CounterInv' /\ GapFreeVersions'
  BY <1>2, LogUnchanged DEF IInv
<1>4. MutexInv' /\ PendingInv' /\ CommitInv'
  BY <1>2 DEF IInv, MutexInv, PendingInv, CommitInv, storeVars, commitVars,
              writerVars
<1>. QED
  BY <1>1, <1>3, <1>4 DEF IInv

LEMMA InvStep == IInv /\ [Next]_vars => IInv'
<1>. SUFFICES ASSUME IInv, [Next]_vars PROVE IInv'
  OBVIOUS
<1>1. ASSUME NEW w \in Writers, WriterStep(w) PROVE IInv'
  BY <1>1, InvWriterStep
<1>2. ASSUME NEW s \in Streams, StreamStep(s) PROVE IInv'
  BY <1>2, InvStreamStep
<1>3. CASE UNCHANGED vars
  <2>. USE <1>3 DEF vars, storeVars, commitVars, writerVars, streamVars
  <2>1. TypeOK'
    BY DEF IInv, TypeOK
  <2>2. CounterInv' /\ GapFreeVersions'
    BY LogUnchanged DEF IInv
  <2>3. MutexInv' /\ PendingInv' /\ CommitInv'
    BY DEF IInv, MutexInv, PendingInv, CommitInv
  <2>. QED
    BY <2>1, <2>2, <2>3 DEF IInv
<1>. QED
  BY <1>1, <1>2, <1>3 DEF Next, StreamStep

LEMMA Invariance == Spec => []IInv
BY InitInv, InvStep, PTL DEF Spec

-----------------------------------------------------------------------------
(* Every variable of the store, its writers and its streams keeps its type, *)
(* and no subscriber's channel ever holds more than its capacity: Commit    *)
(* sends with mu held only when there is room.                              *)
THEOREM TypeCorrect == Spec => []TypeOK
BY Invariance, PTL DEF IInv

(* However many writers race through Repository.Load and Save, every stream *)
(* of the store holds versions 1, 2, 3, ... in commit order, each exactly   *)
(* once: no update is lost.                                                 *)
THEOREM NoLostUpdate == Spec => []GapFreeVersions
BY Invariance, PTL DEF IInv

(* At most one writer is between Commit's version check and its return.     *)
OneCommitAtATime ==
  \A v, w \in Writers : wpc[v] = "committing" /\ wpc[w] = "committing" => v = w

(* mu serializes commits: at most one writer is past its version check.     *)
THEOREM CommitsAreSerialized == Spec => []OneCommitAtATime
<1>1. IInv => OneCommitAtATime
  BY DEF IInv, MutexInv, OneCommitAtATime
<1>. QED
  BY <1>1, Invariance, PTL

-----------------------------------------------------------------------------
(* Streams.  What a stream's goroutine was handed, offers and has buffered, *)
(* and what the running Commit has still to send it, are four sets of       *)
(* positions that follow each other and together leave no hole.             *)

Items(q) == {q[i] : i \in DOMAIN q}

Increasing(q) == \A i \in DOMAIN q : \A j \in 1..(i - 1) : q[j] < q[i]

Before(S, T) == \A p \in S, q \in T : p < q

Handed(s) == Items(got[s])
Buffered(s) == Items(live[s])
Pending(s) == IF s \in rest \cup {at} THEN {Len(all)} ELSE {}

(* Who is in subscribers, and what a stream has outside its open phase.     *)
SubscriberInv(s) ==
  /\ s \in subscribers <=> spc[s] \in {"open", "closing"}
  /\ s \in rest \cup {at} => s \in subscribers /\ all # <<>>
  /\ spc[s] = "off" => got[s] = <<>> /\ live[s] = <<>>
  /\ spc[s] # "open" => offer[s] = {}

InOrder(s) ==
  /\ Handed(s) \cup offer[s] \cup Buffered(s) \subseteq DOMAIN all
  /\ \A p \in Handed(s) \cup offer[s] : Visible(s, all[p])
  /\ Before(Handed(s), offer[s] \cup Buffered(s) \cup Pending(s))
  /\ Before(offer[s], Buffered(s) \cup Pending(s))
  /\ Before(Buffered(s), Pending(s))
  /\ Increasing(got[s]) /\ Increasing(live[s])

Complete(s) ==
  /\ spc[s] = "open" =>
       \A p \in DOMAIN all : Visible(s, all[p]) =>
         p \in Handed(s) \cup offer[s] \cup Buffered(s) \cup Pending(s)
  /\ \A p \in Handed(s) : \A q \in 1..p : Visible(s, all[q]) => q \in Handed(s)

StreamInv ==
  /\ at \notin rest
  /\ \A s \in Streams : SubscriberInv(s) /\ InOrder(s) /\ Complete(s)

(* Adding to the end of an increasing sequence, and taking its head.        *)
LEMMA ItemsOfAppend ==
  ASSUME NEW q \in Seq(Nat), NEW x \in Nat
  PROVE  /\ Items(Append(q, x)) = Items(q) \cup {x}
         /\ Increasing(q) /\ Before(Items(q), {x}) => Increasing(Append(q, x))
<1>1. /\ Len(q) \in Nat /\ DOMAIN q = 1..Len(q)
      /\ Append(q, x) \in Seq(Nat) /\ Len(Append(q, x)) = Len(q) + 1
      /\ \A i \in 1..Len(q) : Append(q, x)[i] = q[i]
      /\ Append(q, x)[Len(q) + 1] = x
  BY AppendProperties, LenProperties
<1>2. DOMAIN Append(q, x) = 1..(Len(q) + 1)
  BY <1>1, LenProperties
<1>. DEFINE r == Append(q, x)
<1>. HIDE DEF r
<1>3. Items(r) = Items(q) \cup {x}
  BY <1>1, <1>2 DEF Items, r
<1>4. ASSUME Increasing(q), Before(Items(q), {x}),
             NEW i \in DOMAIN r, NEW j \in 1..(i - 1)
      PROVE  r[j] < r[i]
  <2>1. j \in DOMAIN q /\ r[j] = q[j]
    BY <1>1, <1>2, <1>4 DEF r
  <2>2. CASE i \in DOMAIN q
    BY <1>1, <1>4, <2>1, <2>2 DEF Increasing, r
  <2>3. CASE i = Len(q) + 1
    BY <1>1, <1>4, <2>1, <2>3 DEF Before, Items, r
  <2>. QED
    BY <1>1, <1>2, <2>2, <2>3 DEF r
<1>. QED
  BY <1>3, <1>4 DEF Increasing, r

LEMMA ItemsOfTail ==
  ASSUME NEW q \in Seq(Nat), q # <<>>, Increasing(q)
  PROVE  /\ Head(q) \in Nat
         /\ Items(q) = {Head(q)} \cup Items(Tail(q))
         /\ Before({Head(q)}, Items(Tail(q)))
         /\ Increasing(Tail(q))
<1>1. /\ Head(q) \in Nat /\ Head(q) = q[1] /\ Tail(q) \in Seq(Nat)
      /\ Len(Tail(q)) = Len(q) - 1
      /\ \A i \in 1..Len(Tail(q)) : Tail(q)[i] = q[i + 1]
  BY HeadTailProperties
<1>2. /\ Len(q) \in Nat /\ Len(q) > 0 /\ DOMAIN q = 1..Len(q)
  BY LenProperties, EmptySeq
<1>. DEFINE t == Tail(q)
<1>3. DOMAIN t = 1..(Len(q) - 1)
  BY <1>1, LenProperties
<1>. HIDE DEF t
<1>4. \A i \in DOMAIN t : i \in Nat /\ i + 1 \in DOMAIN q /\ t[i] = q[i + 1]
  BY <1>1, <1>2, <1>3 DEF t
<1>5. Items(q) = {q[1]} \cup Items(t)
  <2>1. ASSUME NEW i \in DOMAIN q, i # 1
        PROVE  \E j \in DOMAIN t : q[i] = t[j]
    <3>1. i - 1 \in DOMAIN t /\ (i - 1) + 1 = i
      BY <1>2, <1>3, <2>1
    <3>. QED
      BY <1>4, <3>1
  <2>2. 1 \in DOMAIN q
    BY <1>2
  <2>. QED
    BY <1>4, <2>1, <2>2 DEF Items
<1>6. Before({q[1]}, Items(t))
  <2>1. \A i \in DOMAIN t : 1 \in 1..((i + 1) - 1)
    BY <1>3
  <2>. QED
    BY <1>4, <2>1 DEF Before, Items, Increasing
<1>7. Increasing(t)
  <2>. SUFFICES ASSUME NEW i \in DOMAIN t, NEW j \in 1..(i - 1) PROVE t[j] < t[i]
    BY DEF Increasing
  <2>1. j \in DOMAIN t /\ j + 1 \in 1..((i + 1) - 1)
    BY <1>2, <1>3
  <2>. QED
    BY <1>4, <2>1 DEF Increasing
<1>. QED
  BY <1>1, <1>5, <1>6, <1>7 DEF t

(* What is not touched keeps its order.                                     *)
LEMMA StreamFrame ==
  ASSUME StreamInv, NEW s \in Streams, all' = all,
         s \in subscribers <=> s \in subscribers',
         UNCHANGED <<spc[s], offer[s], live[s], got[s]>>,
         (s \in rest \cup {at}) <=> (s \in rest' \cup {at'})
  PROVE  SubscriberInv(s)' /\ InOrder(s)' /\ Complete(s)'
<1>1. Handed(s)' = Handed(s) /\ Buffered(s)' = Buffered(s) /\ Pending(s)' = Pending(s)
  BY DEF Handed, Buffered, Pending
<1>2. SubscriberInv(s) /\ InOrder(s) /\ Complete(s)
  BY DEF StreamInv
<1>3. SubscriberInv(s)'
  BY <1>2 DEF SubscriberInv
<1>4. InOrder(s)'
  BY <1>1, <1>2 DEF InOrder
<1>5. Complete(s)'
  BY <1>1, <1>2 DEF Complete
<1>. QED
  BY <1>3, <1>4, <1>5

(* A new event is pending for every subscriber.                             *)
LEMMA AppendKeepsStreams ==
  ASSUME IInv, StreamInv, NEW w \in Writers, AppendEvent(w)
  PROVE  StreamInv'
<1>. DEFINE e == [key |-> target[w], ver |-> RecordedVersion(w, appended + 1),
                  by |-> w, cmd |-> cmds[w] + 1, of |-> size[w]]
            n == Len(all) + 1
<1>1. /\ all \in Seq(Event) /\ Len(all) \in Nat /\ DOMAIN all = 1..Len(all)
      /\ at = NoStream /\ rest = {} /\ subscribers \subseteq Streams
  BY LenProperties DEF IInv, TypeOK, MutexInv, AppendEvent
<1>2. e \in Event
  <2>1. /\ target[w] \in Keys /\ base[w] \in Nat /\ cmds[w] \in Nat
        /\ size[w] \in Nat /\ appended \in Nat
    BY BoundsAssumption DEF IInv, TypeOK
  <2>. QED
    BY <2>1 DEF Event, RecordedVersion
<1>3. /\ all' = Append(all, e)
      /\ UNCHANGED <<spc, offer, live, got, subscribers>>
      /\ \E s \in NextTarget(subscribers) : at' = s /\ rest' = subscribers \ {s}
  BY DEF AppendEvent, streamVars
<1>. HIDE DEF e
<1>4. /\ DOMAIN all' = 1..n /\ Len(all') = n /\ all' # <<>>
      /\ \A p \in DOMAIN all : all'[p] = all[p]
  <2>1. /\ Append(all, e) \in Seq(Event) /\ Append(all, e) # <<>>
        /\ Len(Append(all, e)) = n
        /\ \A i \in 1..Len(all) : Append(all, e)[i] = all[i]
    BY <1>1, <1>2, AppendProperties
  <2>2. DOMAIN Append(all, e) = 1..n
    BY <2>1, LenProperties
  <2>. QED
    BY <1>1, <1>3, <2>1, <2>2
<1>5. at' \notin rest'
  BY <1>3
<1>6. \A s \in Streams : s \in rest' \cup {at'} <=> s \in subscribers
  BY <1>1, <1>3, NobodyAssumption DEF NextTarget
<1>7. ASSUME NEW s \in Streams
      PROVE  SubscriberInv(s)' /\ InOrder(s)' /\ Complete(s)'
  <2>0. SubscriberInv(s) /\ InOrder(s) /\ Complete(s)
    BY DEF StreamInv
  <2>1. Handed(s)' = Handed(s) /\ Buffered(s)' = Buffered(s) /\ offer'[s] = offer[s]
    BY <1>3 DEF Handed, Buffered
  <2>2. Pending(s) = {}
    BY <1>1, NobodyAssumption DEF Pending
  <2>3. Pending(s)' \subseteq {n} /\ (spc[s] = "open" => Pending(s)' = {n})
    BY <1>4, <1>6, <2>0 DEF Pending, SubscriberInv
  <2>4. SubscriberInv(s)'
    BY <1>3, <1>4, <1>6, <2>0 DEF SubscriberInv
  <2>5. \A p \in DOMAIN all : p < n /\ p \in DOMAIN all'
    BY <1>1, <1>4
  <2>6. InOrder(s)'
    <3>1. (Handed(s) \cup offer[s] \cup Buffered(s)) \subseteq DOMAIN all'
      BY <2>0, <2>5 DEF InOrder
    <3>2. \A p \in Handed(s) \cup offer[s] : Visible(s, all'[p])
      BY <1>4, <2>0 DEF InOrder
    <3>3. Before(Handed(s) \cup offer[s] \cup Buffered(s), {n})
      BY <2>0, <2>5 DEF InOrder, Before
    <3>4. /\ Before(Handed(s), offer[s] \cup Buffered(s) \cup Pending(s)')
          /\ Before(offer[s], Buffered(s) \cup Pending(s)')
          /\ Before(Buffered(s), Pending(s)')
      BY <2>0, <2>3, <3>3 DEF InOrder, Before
    <3>5. Increasing(got'[s]) /\ Increasing(live'[s])
      BY <1>3, <2>0 DEF InOrder
    <3>. QED
      BY <2>1, <3>1, <3>2, <3>4, <3>5 DEF InOrder
  <2>7. Complete(s)'
    <3>1. ASSUME spc[s] = "open", NEW p \in DOMAIN all', Visible(s, all'[p])
          PROVE  p \in Handed(s) \cup offer[s] \cup Buffered(s) \cup Pending(s)'
      <4>1. CASE p = n
        BY <2>3, <3>1, <4>1
      <4>2. CASE p # n
        <5>1. p \in DOMAIN all
          BY <1>1, <1>4, <4>2
        <5>. QED
          BY <1>4, <2>0, <2>2, <3>1, <5>1 DEF Complete
      <4>. QED
        BY <4>1, <4>2
    <3>2. ASSUME NEW p \in Handed(s), NEW q \in 1..p, Visible(s, all'[q])
          PROVE  q \in Handed(s)
      <4>1. p \in DOMAIN all
        BY <2>0 DEF InOrder
      <4>2. q \in DOMAIN all
        BY <1>1, <4>1
      <4>. QED
        BY <1>4, <2>0, <3>2, <4>2 DEF Complete
    <3>. QED
      BY <1>3, <2>1, <3>1, <3>2 DEF Complete
  <2>. QED
    BY <2>4, <2>6, <2>7
<1>. QED
  BY <1>5, <1>7 DEF StreamInv

(* A send moves the newest event from pending to one channel.               *)
LEMMA SendKeepsStreams ==
  ASSUME IInv, StreamInv, NEW w \in Writers, SendLive(w)
  PROVE  StreamInv'
<1>1. /\ at \in Streams /\ at \notin rest
      /\ UNCHANGED <<all, spc, offer, got, subscribers>>
      /\ live' = [live EXCEPT ![at] = Append(@, Len(all))]
      /\ \E s \in NextTarget(rest) : at' = s /\ rest' = rest \ {s}
      /\ all \in Seq(Event) /\ live \in [Streams -> Seq(Nat)]
  BY DEF SendLive, IInv, TypeOK, StreamInv, storeVars
<1>2. at' \notin rest'
  BY <1>1
<1>3. \A s \in Streams : s \in rest' \cup {at'} <=> s \in rest
  BY <1>1, NobodyAssumption DEF NextTarget, IInv, TypeOK
<1>4. ASSUME NEW s \in Streams \ {at}
      PROVE  SubscriberInv(s)' /\ InOrder(s)' /\ Complete(s)'
  <2>1. (s \in rest \cup {at}) <=> (s \in rest' \cup {at'})
    BY <1>3
  <2>2. live'[s] = live[s]
    BY <1>1
  <2>. QED
    BY <1>1, <2>1, <2>2, StreamFrame
<1>5. ASSUME NEW s \in Streams, s = at
      PROVE  SubscriberInv(s)' /\ InOrder(s)' /\ Complete(s)'
  <2>0. SubscriberInv(s) /\ InOrder(s) /\ Complete(s)
    BY DEF StreamInv
  <2>1. Len(all) \in Nat /\ DOMAIN all = 1..Len(all) /\ Len(all) \in DOMAIN all
    <3>1. Len(all) \in Nat /\ DOMAIN all = 1..Len(all)
      BY <1>1, LenProperties
    <3>2. all # <<>>
      BY <1>5, <2>0 DEF SubscriberInv
    <3>3. Len(all) # 0
      BY <1>1, <3>2, EmptySeq
    <3>. QED
      BY <3>1, <3>3
  <2>2. Pending(s) = {Len(all)}
    BY <1>5 DEF Pending
  <2>3. Pending(s)' = {}
    BY <1>1, <1>3, <1>5 DEF Pending
  <2>4. Handed(s)' = Handed(s) /\ offer'[s] = offer[s] /\ all' = all
    BY <1>1 DEF Handed
  <2>5. live'[s] = Append(live[s], Len(all)) /\ live[s] \in Seq(Nat)
    BY <1>1, <1>5
  <2>6. /\ Buffered(s)' = Buffered(s) \cup {Len(all)}
        /\ Increasing(live'[s])
    BY <2>0, <2>1, <2>2, <2>5, ItemsOfAppend DEF Buffered, InOrder
  <2>7. SubscriberInv(s)'
    BY <1>1, <1>3, <1>5, <2>0 DEF SubscriberInv
  <2>8. InOrder(s)'
    <3>1. (Handed(s) \cup offer[s] \cup Buffered(s)') \subseteq DOMAIN all
      BY <2>0, <2>1, <2>6 DEF InOrder
    <3>2. /\ Before(Handed(s), offer[s] \cup Buffered(s)' \cup Pending(s)')
          /\ Before(offer[s], Buffered(s)' \cup Pending(s)')
          /\ Before(Buffered(s)', Pending(s)')
      BY <2>0, <2>2, <2>3, <2>6 DEF InOrder, Before
    <3>. QED
      BY <1>1, <2>0, <2>4, <2>6, <3>1, <3>2 DEF InOrder
  <2>9. Complete(s)'
    BY <1>1, <2>0, <2>2, <2>4, <2>6 DEF Complete
  <2>. QED
    BY <2>7, <2>8, <2>9
<1>. QED
  BY <1>2, <1>4, <1>5 DEF StreamInv

(* The stream's own steps: the hand-over from the snapshot to live events.  *)
LEMMA OwnStreamStep ==
  ASSUME IInv, StreamInv, NEW s \in Streams, StreamStep(s)
  PROVE  SubscriberInv(s)' /\ InOrder(s)' /\ Complete(s)'
<1>0. /\ SubscriberInv(s) /\ InOrder(s) /\ Complete(s)
      /\ Len(all) \in Nat /\ DOMAIN all = 1..Len(all)
  BY LenProperties DEF StreamInv, IInv, TypeOK
<1>1. UNCHANGED <<all, rest, at>>
  BY DEF StreamStep, Subscribe, Deliver, TakeLive, Cancel, ObserveCancel,
         Unsubscribe, storeVars, commitVars
<1>2. Pending(s)' = Pending(s)
  BY <1>1 DEF Pending
<1>3. CASE Subscribe(s)
  <2>1. /\ spc[s] = "off" /\ spc'[s] = "open" /\ s \in subscribers'
        /\ offer'[s] = Backlog(s) /\ got' = got /\ live' = live
        /\ s \notin rest \cup {at}
    BY <1>0, <1>3, NobodyAssumption
       DEF Subscribe, IInv, TypeOK, MuFree, MutexInv
  <2>2. Handed(s)' = {} /\ Buffered(s)' = {} /\ Pending(s)' = {}
    BY <1>0, <1>2, <2>1 DEF SubscriberInv, Handed, Buffered, Items, Pending
  <2>3. Increasing(got'[s]) /\ Increasing(live'[s])
    BY <1>0, <2>1 DEF InOrder
  <2>4. SubscriberInv(s)'
    BY <1>1, <2>1 DEF SubscriberInv
  <2>5. InOrder(s)'
    BY <1>1, <2>1, <2>2, <2>3 DEF InOrder, Before, Backlog
  <2>6. Complete(s)'
    BY <1>1, <2>1, <2>2 DEF Complete, Backlog
  <2>. QED
    BY <2>4, <2>5, <2>6
<1>4. CASE Deliver(s)
  <2>1. PICK p \in offer[s] : /\ \A q \in offer[s] : p <= q
                              /\ got' = [got EXCEPT ![s] = Append(@, p)]
                              /\ offer' = [offer EXCEPT ![s] = @ \ {p}]
    BY <1>4 DEF Deliver
  <2>2. /\ got'[s] = Append(got[s], p) /\ offer'[s] = offer[s] \ {p}
        /\ got[s] \in Seq(Nat) /\ p \in Nat
    BY <2>1 DEF IInv, TypeOK
  <2>3. spc[s] = "open" /\ UNCHANGED <<spc, live, subscribers>>
    BY <1>4 DEF Deliver
  <2>4. /\ Handed(s)' = Handed(s) \cup {p} /\ Buffered(s)' = Buffered(s)
        /\ Increasing(got'[s])
    BY <1>0, <2>1, <2>2, <2>3, ItemsOfAppend DEF InOrder, Before, Handed, Buffered
  <2>5. p \in DOMAIN all /\ Visible(s, all[p])
    BY <1>0, <2>1 DEF InOrder
  <2>6. \A q \in offer[s] \ {p} : p < q
    <3>1. \A q \in offer[s] : q \in DOMAIN all
      BY <1>0 DEF InOrder
    <3>. QED
      BY <1>0, <2>1, <2>5, <3>1
  <2>7. SubscriberInv(s)'
    BY <1>0, <1>1, <2>3 DEF SubscriberInv
  <2>8. InOrder(s)'
    <3>1. /\ Before(Handed(s)', offer'[s] \cup Buffered(s)' \cup Pending(s)')
          /\ Before(offer'[s], Buffered(s)' \cup Pending(s)')
          /\ Before(Buffered(s)', Pending(s)')
      BY <1>0, <1>2, <2>1, <2>2, <2>4, <2>6 DEF InOrder, Before
    <3>2. (Handed(s)' \cup offer'[s] \cup Buffered(s)') \subseteq DOMAIN all
      BY <1>0, <2>2, <2>4, <2>5 DEF InOrder
    <3>3. \A q \in Handed(s)' \cup offer'[s] : Visible(s, all[q])
      BY <1>0, <2>2, <2>4, <2>5 DEF InOrder
    <3>4. Increasing(live'[s])
      BY <1>0, <2>3 DEF InOrder
    <3>. QED
      BY <1>1, <2>4, <3>1, <3>2, <3>3, <3>4 DEF InOrder
  <2>9. ASSUME NEW q \in 1..p, Visible(s, all[q]) PROVE q \in Handed(s) \cup {p}
    <3>1. q \in DOMAIN all /\ q <= p
      BY <1>0, <2>5
    <3>2. q \in Handed(s) \cup offer[s] \cup Buffered(s) \cup Pending(s)
      BY <1>0, <2>3, <2>9, <3>1 DEF Complete
    <3>3. \A r \in Buffered(s) \cup Pending(s) : p < r
      BY <1>0, <2>1 DEF InOrder, Before
    <3>4. q \notin Buffered(s) \cup Pending(s)
      BY <1>0, <2>5, <3>1, <3>3
    <3>5. q \in offer[s] => q = p
      BY <1>0, <2>5, <2>6, <3>1
    <3>. QED
      BY <3>2, <3>4, <3>5
  <2>10. Complete(s)'
    <3>1. \A q \in DOMAIN all : Visible(s, all[q]) =>
            q \in Handed(s)' \cup offer'[s] \cup Buffered(s)' \cup Pending(s)'
      BY <1>0, <1>2, <2>2, <2>3, <2>4 DEF Complete
    <3>2. \A r \in Handed(s)' : \A q \in 1..r : Visible(s, all[q]) => q \in Handed(s)'
      BY <1>0, <2>4, <2>9 DEF Complete
    <3>. QED
      BY <1>1, <3>1, <3>2 DEF Complete
  <2>. QED
    BY <2>7, <2>8, <2>10
<1>5. CASE TakeLive(s)
  <2>1. /\ offer[s] = {} /\ live[s] # <<>> /\ spc[s] = "open"
        /\ offer'[s] = {p \in {Head(live[s])} : Visible(s, all[p])}
        /\ live'[s] = Tail(live[s]) /\ live[s] \in Seq(Nat)
        /\ UNCHANGED <<spc, got, subscribers>>
    BY <1>5 DEF TakeLive, NothingOffered, IInv, TypeOK
  <2>2. /\ Buffered(s) = {Head(live[s])} \cup Buffered(s)'
        /\ Before({Head(live[s])}, Buffered(s)')
        /\ Increasing(live'[s]) /\ Handed(s)' = Handed(s)
    BY <1>0, <2>1, ItemsOfTail DEF InOrder, Buffered, Handed
  <2>3. SubscriberInv(s)'
    BY <1>0, <1>1, <2>1 DEF SubscriberInv
  <2>4. InOrder(s)'
    <3>1. /\ Before(Handed(s)', offer'[s] \cup Buffered(s)' \cup Pending(s)')
          /\ Before(offer'[s], Buffered(s)' \cup Pending(s)')
          /\ Before(Buffered(s)', Pending(s)')
      BY <1>0, <1>2, <2>1, <2>2 DEF InOrder, Before
    <3>. QED
      BY <1>0, <1>1, <2>1, <2>2, <3>1 DEF InOrder
  <2>5. Complete(s)'
    BY <1>0, <1>1, <1>2, <2>1, <2>2 DEF Complete
  <2>. QED
    BY <2>3, <2>4, <2>5
<1>6. CASE Cancel(s)
  <2>1. /\ UNCHANGED <<spc, offer, live, got, subscribers>>
    BY <1>6 DEF Cancel
  <2>. QED
    BY <1>1, <2>1, StreamFrame
<1>7. CASE ObserveCancel(s)
  <2>1. /\ spc[s] = "open" /\ spc'[s] = "closing" /\ offer'[s] = {}
        /\ UNCHANGED <<live, got, subscribers>>
    BY <1>7 DEF ObserveCancel, IInv, TypeOK
  <2>2. Handed(s)' = Handed(s) /\ Buffered(s)' = Buffered(s)
    BY <2>1 DEF Handed, Buffered
  <2>3. SubscriberInv(s)'
    BY <1>0, <1>1, <2>1 DEF SubscriberInv
  <2>4. InOrder(s)'
    BY <1>0, <1>1, <1>2, <2>1, <2>2 DEF InOrder, Before
  <2>5. Complete(s)'
    BY <1>0, <1>1, <2>1, <2>2 DEF Complete
  <2>. QED
    BY <2>3, <2>4, <2>5
<1>8. CASE Unsubscribe(s)
  <2>1. /\ spc[s] = "closing" /\ spc'[s] = "closed" /\ live'[s] = <<>>
        /\ UNCHANGED <<offer, got>> /\ s \notin subscribers'
        /\ s \notin rest \cup {at}
    BY <1>8, NobodyAssumption DEF Unsubscribe, IInv, TypeOK, MuFree, MutexInv
  <2>2. /\ Handed(s)' = Handed(s) /\ Buffered(s)' = {} /\ offer'[s] = {}
        /\ Increasing(live'[s])
    BY <1>0, <2>1 DEF Handed, Buffered, Items, SubscriberInv, Increasing
  <2>3. SubscriberInv(s)'
    BY <1>1, <2>1, <2>2 DEF SubscriberInv
  <2>4. InOrder(s)'
    BY <1>0, <1>1, <1>2, <2>1, <2>2 DEF InOrder, Before
  <2>5. Complete(s)'
    BY <1>0, <1>1, <2>1, <2>2 DEF Complete
  <2>. QED
    BY <2>3, <2>4, <2>5
<1>. QED
  BY <1>3, <1>4, <1>5, <1>6, <1>7, <1>8 DEF StreamStep

LEMMA InitStreamInv == Init => StreamInv
<1>. SUFFICES ASSUME Init, NEW s \in Streams
              PROVE  SubscriberInv(s) /\ InOrder(s) /\ Complete(s)
  BY DEF Init, StreamInv
<1>1. /\ spc[s] = "off" /\ got[s] = <<>> /\ live[s] = <<>> /\ offer[s] = {}
      /\ s \notin subscribers /\ s \notin rest \cup {at}
  BY NobodyAssumption DEF Init
<1>2. Handed(s) = {} /\ Buffered(s) = {} /\ Pending(s) = {}
  BY <1>1 DEF Handed, Buffered, Items, Pending
<1>. QED
  BY <1>1, <1>2 DEF SubscriberInv, InOrder, Complete, Before, Increasing

LEMMA StreamInvStep == IInv /\ StreamInv /\ [Next]_vars => StreamInv'
<1>. SUFFICES ASSUME IInv, StreamInv, [Next]_vars PROVE StreamInv'
  OBVIOUS
<1>1. ASSUME NEW w \in Writers, WriterStep(w) PROVE StreamInv'
  <2>1. CASE AppendEvent(w)
    BY <2>1, AppendKeepsStreams
  <2>2. CASE SendLive(w)
    BY <2>2, SendKeepsStreams
  <2>3. CASE LoadAggregate(w) \/ CommitConflict(w) \/ CommitBegin(w) \/ CommitReturn(w)
    <3>1. UNCHANGED <<all, rest, at, spc, offer, live, got, subscribers>>
      BY <2>3 DEF LoadAggregate, CommitConflict, CommitBegin, CommitReturn,
                  storeVars, commitVars, streamVars
    <3>. QED
      BY <3>1, StreamFrame DEF StreamInv
  <2>. QED
    BY <1>1, <2>1, <2>2, <2>3 DEF WriterStep
<1>2. ASSUME NEW s \in Streams, StreamStep(s) PROVE StreamInv'
  <2>1. UNCHANGED <<all, rest, at>>
    BY <1>2 DEF StreamStep, Subscribe, Deliver, TakeLive, Cancel, ObserveCancel,
                Unsubscribe, storeVars, commitVars
  <2>2. ASSUME NEW r \in Streams \ {s}
        PROVE  /\ UNCHANGED <<spc[r], offer[r], live[r], got[r]>>
               /\ r \in subscribers <=> r \in subscribers'
    BY <1>2 DEF StreamStep, Subscribe, Deliver, TakeLive, Cancel, ObserveCancel,
                Unsubscribe, IInv, TypeOK
  <2>. QED
    BY <1>2, <2>1, <2>2, StreamFrame, OwnStreamStep DEF StreamInv
<1>3. CASE UNCHANGED vars
  <2>1. UNCHANGED <<all, rest, at, spc, offer, live, got, subscribers>>
    BY <1>3 DEF vars, storeVars, commitVars, streamVars
  <2>. QED
    BY <2>1, StreamFrame DEF StreamInv
<1>. QED
  BY <1>1, <1>2, <1>3 DEF Next, StreamStep

LEMMA StreamInvariance == Spec => []StreamInv
BY Invariance, InitStreamInv, StreamInvStep, PTL DEF Spec

(* However StreamAll, its goroutine, cancellations and running commits      *)
(* interleave, a stream is handed the events of its scope in log order,     *)
(* without a hole or a repetition, and what it was not handed yet is in its *)
(* backlog, in its channel, or about to be sent.                            *)
THEOREM StreamsLoseNothing == Spec => []StreamsAreExact
<1>1. ASSUME IInv, StreamInv PROVE StreamsAreExact
  <2>. SUFFICES ASSUME NEW s \in Streams PROVE HandedOutInOrder(s) /\ OnItsWay(s)
    BY DEF StreamsAreExact
  <2>0. InOrder(s) /\ Complete(s)
    BY <1>1 DEF StreamInv
  <2>1. \A e : Contract!InScope(s, e) <=> Visible(s, e)
    BY DEF Contract!InScope, Visible
  <2>2. OnItsWay(s)
    BY <2>0, <2>1 DEF OnItsWay, Complete, Handed, Buffered, Pending, Items
  <2>3. got[s] \in Seq(Nat) /\ Len(got[s]) \in Nat /\ DOMAIN got[s] = 1..Len(got[s])
    BY <1>1, LenProperties DEF IInv, TypeOK
  <2>4. \A i \in DOMAIN got[s] : got[s][i] \in Nat
    BY <2>3, ElementOfSeq
  <2>5. ASSUME NEW i \in DOMAIN got[s], NEW p \in 1..got[s][i], Visible(s, all[p])
        PROVE  \E j \in 1..i : got[s][j] = p
    <3>1. p \in Handed(s)
      BY <2>0, <2>5 DEF Complete, Handed, Items
    <3>2. PICK j \in DOMAIN got[s] : got[s][j] = p
      BY <3>1 DEF Handed, Items
    <3>3. CASE j > i
      <4>1. i \in 1..(j - 1)
        BY <2>3, <3>3
      <4>2. got[s][i] < got[s][j]
        BY <2>0, <4>1 DEF InOrder, Increasing
      <4>. QED
        BY <2>4, <3>2, <4>2
    <3>. QED
      BY <2>3, <3>2, <3>3
  <2>6. HandedOutInOrder(s)
    BY <2>0, <2>1, <2>5 DEF HandedOutInOrder, InOrder, Increasing, Handed, Items
  <2>. QED
    BY <2>2, <2>6
<1>. QED
  BY <1>1, Invariance, StreamInvariance, PTL

-----------------------------------------------------------------------------
(* Acknowledgements.                                                        *)

(* The c-th command of w lies in the log as one run, from lo to hi.         *)
LiesAt(w, c, lo, hi) ==
  /\ lo <= hi
  /\ EventsOf(w, c) = lo..hi
  /\ \A p \in lo..hi : /\ all[p].key = all[lo].key
                       /\ all[p].of = hi - lo + 1
                       /\ all[p].ver = all[lo].ver + (p - lo)

(* What the running Commit has appended: the end of the log.                *)
AppendedSoFar == (Len(all) - appended + 1)..Len(all)

AckInv ==
  /\ \A w \in Writers : wpc[w] # "idle" => size[w] > 0
  /\ \A w \in Writers : \A c \in 1..cmds[w] :
       \E lo, hi \in DOMAIN all : LiesAt(w, c, lo, hi)
  /\ \A p \in DOMAIN all :
       /\ all[p].cmd > 0
       /\ all[p].cmd > cmds[all[p].by] =>
            mu = all[p].by /\ all[p].cmd = cmds[all[p].by] + 1
  /\ mu # NoWriter =>
       /\ appended <= Len(all)
       /\ EventsOf(mu, cmds[mu] + 1) = AppendedSoFar
       /\ \A p \in AppendedSoFar :
            /\ all[p].key = target[mu]
            /\ all[p].of = size[mu]
            /\ all[p].ver = base[mu] + (p - (Len(all) - appended))

(* The index finds every event where its version says.                      *)
IndexInv == \A p \in DOMAIN all : byAggregate[all[p].key][all[p].ver] = p

LEMMA EventType ==
  ASSUME IInv
  PROVE  /\ Len(all) \in Nat /\ DOMAIN all = 1..Len(all)
         /\ \A p \in DOMAIN all :
              /\ all[p] \in Event /\ all[p].key \in Keys /\ all[p].by \in Writers
              /\ all[p].ver \in Nat /\ all[p].cmd \in Nat /\ all[p].of \in Nat
<1>1. all \in Seq(Event) /\ Len(all) \in Nat /\ DOMAIN all = 1..Len(all)
  BY LenProperties DEF IInv, TypeOK
<1>2. \A p \in DOMAIN all : all[p] \in Event
  BY <1>1, ElementOfSeq
<1>. QED
  BY <1>1, <1>2 DEF Event

(* The event an append adds.                                                *)
LEMMA NewEvent ==
  ASSUME IInv, NEW w \in Writers, AppendEvent(w)
  PROVE  /\ mu = w /\ w # NoWriter
         /\ Len(all) \in Nat /\ DOMAIN all = 1..Len(all)
         /\ Len(all') = Len(all) + 1 /\ DOMAIN all' = 1..(Len(all) + 1)
         /\ \A p \in DOMAIN all : all'[p] = all[p]
         /\ all'[Len(all) + 1] =
              [key |-> target[w], ver |-> base[w] + (appended + 1), by |-> w,
               cmd |-> cmds[w] + 1, of |-> size[w]]
         /\ all'[Len(all) + 1].key = target[w]
         /\ all'[Len(all) + 1].ver = base[w] + (appended + 1)
         /\ all'[Len(all) + 1].by = w
         /\ all'[Len(all) + 1].cmd = cmds[w] + 1
         /\ all'[Len(all) + 1].of = size[w]
         /\ UNCHANGED <<mu, wpc, target, base, size, cmds>>
         /\ appended' = appended + 1 /\ appended \in Nat
         /\ \A v \in Writers : cmds[v] \in Nat /\ base[v] \in Nat /\ size[v] \in Nat
         /\ target[w] \in Keys
         /\ byAggregate' = [byAggregate EXCEPT ![target[w]] = Append(@, Len(all) + 1)]
<1>. DEFINE e == [key |-> target[w], ver |-> base[w] + (appended + 1),
                  by |-> w, cmd |-> cmds[w] + 1, of |-> size[w]]
<1>1. /\ all \in Seq(Event) /\ mu = w /\ w # NoWriter /\ target[w] \in Keys
      /\ appended \in Nat
      /\ \A v \in Writers : cmds[v] \in Nat /\ base[v] \in Nat /\ size[v] \in Nat
  BY BoundsAssumption, NobodyAssumption DEF IInv, TypeOK, AppendEvent
<1>2. e \in Event
  BY <1>1 DEF Event
<1>3. /\ all' = Append(all, e)
      /\ UNCHANGED <<mu, wpc, target, base, size, cmds>>
      /\ appended' = appended + 1
      /\ byAggregate' = [byAggregate EXCEPT ![target[w]] = Append(@, Len(all) + 1)]
  BY DEF AppendEvent, writerVars, RecordedVersion, IInv, CounterInv
<1>4. Len(all) \in Nat /\ DOMAIN all = 1..Len(all)
  BY <1>1, LenProperties
<1>. HIDE DEF e
<1>5. /\ all' \in Seq(Event) /\ Len(all') = Len(all) + 1
      /\ \A p \in 1..Len(all) : all'[p] = all[p]
      /\ all'[Len(all) + 1] = e
  BY <1>1, <1>2, <1>3, AppendProperties
<1>6. DOMAIN all' = 1..(Len(all) + 1)
  BY <1>5, LenProperties
<1>7. /\ e.key = target[w] /\ e.ver = base[w] + (appended + 1) /\ e.by = w
      /\ e.cmd = cmds[w] + 1 /\ e.of = size[w]
  BY DEF e
<1>8. /\ all'[Len(all) + 1].key = target[w]
      /\ all'[Len(all) + 1].ver = base[w] + (appended + 1)
      /\ all'[Len(all) + 1].by = w
      /\ all'[Len(all) + 1].cmd = cmds[w] + 1
      /\ all'[Len(all) + 1].of = size[w]
  BY <1>5, <1>7
<1>9. all'[Len(all) + 1] =
        [key |-> target[w], ver |-> base[w] + (appended + 1), by |-> w,
         cmd |-> cmds[w] + 1, of |-> size[w]]
  BY <1>5 DEF e
<1>10. \A p \in DOMAIN all : all'[p] = all[p]
  BY <1>4, <1>5
<1>. QED
  BY <1>1, <1>3, <1>4, <1>5, <1>6, <1>8, <1>9, <1>10

LEMMA AppendKeepsAcks ==
  ASSUME IInv, AckInv, NEW w \in Writers, AppendEvent(w)
  PROVE  AckInv'
<1>. DEFINE n == Len(all) + 1
<1>1. /\ mu = w /\ w # NoWriter /\ mu' = w
      /\ Len(all) \in Nat /\ DOMAIN all = 1..Len(all)
      /\ Len(all') = n /\ DOMAIN all' = 1..n
      /\ \A p \in DOMAIN all : all'[p] = all[p]
      /\ all'[n].key = target[w] /\ all'[n].ver = base[w] + (appended + 1)
      /\ all'[n].by = w /\ all'[n].cmd = cmds[w] + 1 /\ all'[n].of = size[w]
      /\ UNCHANGED <<wpc, target, base, size, cmds>>
      /\ appended' = appended + 1 /\ appended \in Nat /\ appended <= Len(all)
      /\ \A v \in Writers : cmds[v] \in Nat
      /\ base[w] \in Nat
  <2>1. mu = w /\ w # NoWriter
    BY NewEvent
  <2>2. appended <= Len(all)
    BY <2>1 DEF AckInv
  <2>. QED
    BY <2>2, NewEvent
<1>2. \A v \in Writers : \A c :
        EventsOf(v, c)' = EventsOf(v, c) \cup
          (IF v = w /\ c = cmds[w] + 1 THEN {n} ELSE {})
  BY <1>1 DEF EventsOf
<1>3. \A v \in Writers : wpc'[v] # "idle" => size'[v] > 0
  BY <1>1 DEF AckInv
<1>4. ASSUME NEW v \in Writers, NEW c \in 1..cmds'[v]
      PROVE  \E lo, hi \in DOMAIN all' : LiesAt(v, c, lo, hi)'
  <2>1. PICK lo \in DOMAIN all, hi \in DOMAIN all : LiesAt(v, c, lo, hi)
    <3>1. c \in 1..cmds[v]
      BY <1>1, <1>4
    <3>. QED
      BY <3>1 DEF AckInv
  <2>2. EventsOf(v, c)' = EventsOf(v, c)
    <3>1. c \in Nat /\ c <= cmds[v] /\ cmds[v] \in Nat
      BY <1>1, <1>4
    <3>2. ~(v = w /\ c = cmds[w] + 1)
      BY <3>1
    <3>3. EventsOf(v, c)' = EventsOf(v, c) \cup
            (IF v = w /\ c = cmds[w] + 1 THEN {n} ELSE {})
      BY <1>2 DEF n
    <3>. QED
      BY <3>2, <3>3
  <2>3. lo \in DOMAIN all' /\ hi \in DOMAIN all' /\ \A p \in lo..hi : p \in DOMAIN all
    BY <1>1, <2>1
  <2>4. LiesAt(v, c, lo, hi)'
    BY <1>1, <2>1, <2>2, <2>3 DEF LiesAt
  <2>. QED
    BY <2>3, <2>4
<1>5. ASSUME NEW p \in DOMAIN all'
      PROVE  /\ all'[p].cmd > 0
             /\ all'[p].cmd > cmds'[all'[p].by] =>
                  mu' = all'[p].by /\ all'[p].cmd = cmds'[all'[p].by] + 1
  <2>1. CASE p \in DOMAIN all
    BY <1>1, <2>1 DEF AckInv
  <2>2. CASE p = n
    BY <1>1, <2>2
  <2>. QED
    BY <1>1, <2>1, <2>2
<1>6. AppendedSoFar' = AppendedSoFar \cup {n}
  <2>1. Len(all') - appended' + 1 = Len(all) - appended + 1
    BY <1>1
  <2>2. (Len(all) - appended + 1)..n = ((Len(all) - appended + 1)..Len(all)) \cup {n}
    BY <1>1
  <2>. QED
    BY <1>1, <2>1, <2>2 DEF AppendedSoFar
<1>7. EventsOf(w, cmds[w] + 1)' = AppendedSoFar'
  BY <1>1, <1>2, <1>6 DEF AckInv
<1>8. ASSUME NEW p \in AppendedSoFar'
      PROVE  /\ all'[p].key = target[w] /\ all'[p].of = size[w]
             /\ all'[p].ver = base[w] + (p - (Len(all') - appended'))
  <2>1. Len(all') - appended' = Len(all) - appended
    BY <1>1
  <2>2. CASE p \in AppendedSoFar
    <3>1. p \in DOMAIN all
      BY <1>1, <2>2 DEF AppendedSoFar
    <3>. QED
      BY <1>1, <2>1, <2>2, <3>1 DEF AckInv
  <2>3. CASE p = n
    <3>1. n - (Len(all) - appended) = appended + 1
      BY <1>1
    <3>. QED
      BY <1>1, <2>1, <2>3, <3>1
  <2>. QED
    BY <1>6, <2>2, <2>3
<1>9. /\ appended' <= Len(all')
      /\ EventsOf(mu, cmds[mu] + 1)' = AppendedSoFar'
      /\ \A p \in AppendedSoFar' :
            /\ all'[p].key = target'[mu']
            /\ all'[p].of = size'[mu']
            /\ all'[p].ver = base'[mu'] + (p - (Len(all') - appended'))
  BY <1>1, <1>7, <1>8 DEF EventsOf
<1>. QED
  BY <1>3, <1>4, <1>5, <1>9 DEF AckInv

(* When Commit returns its batch is one of the acknowledged ones.           *)
LEMMA ReturnKeepsAcks ==
  ASSUME IInv, AckInv, NEW w \in Writers, CommitReturn(w)
  PROVE  AckInv'
<1>1. /\ mu = w /\ w # NoWriter /\ mu' = NoWriter /\ all' = all
      /\ appended = size[w] /\ size[w] > 0 /\ size[w] \in Nat /\ appended <= Len(all)
      /\ wpc' = [wpc EXCEPT ![w] = "idle"] /\ wpc'[w] = "idle"
      /\ size' = [size EXCEPT ![w] = 0]
      /\ Len(all) \in Nat /\ DOMAIN all = 1..Len(all) /\ base[w] \in Nat
      /\ \A v \in Writers : cmds[v] \in Nat
      /\ \A v \in Writers : cmds'[v] = IF v = w THEN cmds[v] + 1 ELSE cmds[v]
  BY BoundsAssumption, NobodyAssumption, LenProperties
     DEF CommitReturn, BatchDone, MuReleased, IInv, TypeOK, AckInv, storeVars
<1>2. \A v \in Writers : \A c : EventsOf(v, c)' = EventsOf(v, c)
  BY <1>1 DEF EventsOf
<1>3. \A v \in Writers : wpc'[v] # "idle" => size'[v] > 0
  BY <1>1 DEF AckInv, IInv, TypeOK
<1>4. ASSUME NEW v \in Writers, NEW c \in 1..cmds'[v]
      PROVE  \E lo, hi \in DOMAIN all' : LiesAt(v, c, lo, hi)'
  <2>1. CASE c \in 1..cmds[v]
    <3>1. PICK lo \in DOMAIN all, hi \in DOMAIN all : LiesAt(v, c, lo, hi)
      BY <2>1 DEF AckInv
    <3>2. LiesAt(v, c, lo, hi)'
      BY <1>1, <1>2, <3>1 DEF LiesAt
    <3>. QED
      BY <1>1, <3>1, <3>2
  <2>2. CASE v = w /\ c = cmds[w] + 1
    <3>0. PICK lo, hi : lo = Len(all) - appended + 1 /\ hi = Len(all)
      OBVIOUS
    <3>1. lo \in DOMAIN all /\ hi \in DOMAIN all /\ lo <= hi /\ hi - lo + 1 = appended
      BY <1>1, <3>0
    <3>2. EventsOf(v, c) = lo..hi
      BY <1>1, <2>2, <3>0 DEF AckInv, AppendedSoFar
    <3>3. \A p \in lo..hi :
            /\ all[p].key = target[w] /\ all[p].of = size[w]
            /\ all[p].ver = base[w] + (p - (Len(all) - appended))
      BY <1>1, <3>0 DEF AckInv, AppendedSoFar
    <3>4. lo \in lo..hi /\ lo - (Len(all) - appended) = 1
      BY <1>1, <3>0, <3>1
    <3>5. ASSUME NEW p \in lo..hi
          PROVE  /\ all[p].key = all[lo].key
                 /\ all[p].of = hi - lo + 1
                 /\ all[p].ver = all[lo].ver + (p - lo)
      <4>1. all[lo].ver = base[w] + 1 /\ all[lo].key = target[w]
        BY <3>3, <3>4
      <4>2. base[w] + (p - (Len(all) - appended)) = (base[w] + 1) + (p - lo)
        BY <1>1, <3>0
      <4>. QED
        BY <1>1, <3>1, <3>3, <4>1, <4>2
    <3>6. LiesAt(v, c, lo, hi)'
      BY <1>1, <1>2, <3>1, <3>2, <3>5 DEF LiesAt
    <3>. QED
      BY <1>1, <3>1, <3>6
  <2>. QED
    BY <1>1, <1>4, <2>1, <2>2
<1>5. ASSUME NEW p \in DOMAIN all
      PROVE  all[p].cmd > 0 /\ ~(all[p].cmd > cmds'[all[p].by])
  <2>1. all[p].by \in Writers /\ all[p].cmd \in Nat
    BY EventType
  <2>. QED
    BY <1>1, <2>1 DEF AckInv
<1>. QED
  BY <1>1, <1>3, <1>4, <1>5 DEF AckInv

LEMMA AckInvStep == IInv /\ AckInv /\ [Next]_vars => AckInv'
<1>. SUFFICES ASSUME IInv, AckInv, [Next]_vars PROVE AckInv'
  OBVIOUS
<1>1. ASSUME UNCHANGED <<all, mu, appended, cmds, target, base>>,
             \A w \in Writers : wpc'[w] # "idle" => size'[w] > 0,
             mu # NoWriter => size'[mu] = size[mu]
      PROVE  AckInv'
  <2>1. \A v, c : EventsOf(v, c)' = EventsOf(v, c)
    BY <1>1 DEF EventsOf
  <2>2. AppendedSoFar' = AppendedSoFar
    BY <1>1 DEF AppendedSoFar
  <2>3. \A v, c, lo, hi : LiesAt(v, c, lo, hi)' <=> LiesAt(v, c, lo, hi)
    BY <1>1, <2>1 DEF LiesAt
  <2>. QED
    BY <1>1, <2>1, <2>2, <2>3 DEF AckInv
<1>2. ASSUME NEW w \in Writers, WriterStep(w) PROVE AckInv'
  <2>0. wpc \in [Writers -> {"idle", "loaded", "committing"}]
        /\ size \in [Writers -> 0..MaxBatch]
    BY DEF IInv, TypeOK
  <2>1. ASSUME mu = NoWriter, mu' \in Writers \cup {NoWriter}, all' = all, cmds' = cmds,
               appended' = 0,
               \A v \in Writers : wpc'[v] # "idle" => size'[v] > 0
        PROVE  AckInv'
    <3>1. /\ Len(all) \in Nat /\ DOMAIN all = 1..Len(all)
          /\ \A v \in Writers : cmds[v] \in Nat
      BY LenProperties DEF IInv, TypeOK
    <3>2. \A v, c : EventsOf(v, c)' = EventsOf(v, c)
      BY <2>1 DEF EventsOf
    <3>3. \A v, c, lo, hi : LiesAt(v, c, lo, hi)' <=> LiesAt(v, c, lo, hi)
      BY <2>1, <3>2 DEF LiesAt
    <3>4. \A p \in DOMAIN all : ~(all[p].cmd > cmds[all[p].by])
      <4>. TAKE p \in DOMAIN all
      <4>1. all[p].by \in Writers
        BY EventType
      <4>. QED
        BY <2>1, <4>1, NobodyAssumption DEF AckInv
    <3>5. \A v \in Writers : EventsOf(v, cmds[v] + 1) = {}
      BY <3>1, <3>4 DEF EventsOf
    <3>6. AppendedSoFar' = {}
      BY <2>1, <3>1 DEF AppendedSoFar
    <3>7. mu' # NoWriter => EventsOf(mu, cmds[mu] + 1)' = AppendedSoFar'
      <4>1. ASSUME NEW v \in Writers, mu' = v
            PROVE  EventsOf(mu, cmds[mu] + 1)' = {}
        BY <2>1, <3>5, <4>1 DEF EventsOf
      <4>. QED
        BY <2>1, <3>6, <4>1
    <3>. QED
      BY <2>1, <3>1, <3>3, <3>4, <3>6, <3>7 DEF AckInv
  <2>2. CASE LoadAggregate(w)
    <3>1. PICK n \in 1..MaxBatch : size' = [size EXCEPT ![w] = n]
      BY <2>2 DEF LoadAggregate
    <3>2. /\ mu = NoWriter /\ mu' = NoWriter /\ UNCHANGED <<all, cmds>>
          /\ appended' = 0 /\ wpc' = [wpc EXCEPT ![w] = "loaded"]
      BY <2>2 DEF LoadAggregate, MuFree, storeVars, commitVars, IInv, MutexInv
    <3>3. \A v \in Writers : wpc'[v] # "idle" => size'[v] > 0
      BY <2>0, <3>1, <3>2, BoundsAssumption DEF AckInv
    <3>. QED
      BY <2>1, <3>2, <3>3
  <2>3. CASE CommitConflict(w)
    <3>1. /\ mu = NoWriter /\ mu' = NoWriter /\ UNCHANGED <<all, cmds>>
          /\ appended' = 0 /\ wpc' = [wpc EXCEPT ![w] = "idle"]
          /\ size' = [size EXCEPT ![w] = 0]
      BY <2>3 DEF CommitConflict, MuFree, storeVars, commitVars, IInv, MutexInv
    <3>2. \A v \in Writers : wpc'[v] # "idle" => size'[v] > 0
      BY <2>0, <3>1 DEF AckInv
    <3>. QED
      BY <2>1, <3>1, <3>2
  <2>4. CASE CommitBegin(w)
    <3>1. /\ mu = NoWriter /\ mu' = w /\ UNCHANGED <<all, cmds, size>>
          /\ appended' = 0 /\ wpc' = [wpc EXCEPT ![w] = "committing"]
          /\ wpc[w] = "loaded"
      BY <2>4 DEF CommitBegin, MuFree, storeVars, IInv, MutexInv
    <3>2. \A v \in Writers : wpc'[v] # "idle" => size'[v] > 0
      BY <2>0, <3>1 DEF AckInv
    <3>. QED
      BY <2>1, <3>1, <3>2
  <2>5. CASE AppendEvent(w)
    BY <2>5, AppendKeepsAcks
  <2>6. CASE SendLive(w)
    BY <1>1, <2>6 DEF SendLive, storeVars, writerVars, AckInv
  <2>7. CASE CommitReturn(w)
    BY <2>7, ReturnKeepsAcks
  <2>. QED
    BY <1>2, <2>2, <2>3, <2>4, <2>5, <2>6, <2>7 DEF WriterStep
<1>3. CASE \/ \E s \in Streams : StreamStep(s)
           \/ UNCHANGED vars
  <2>1. UNCHANGED <<storeVars, commitVars, writerVars>>
    BY <1>3 DEF StreamStep, Subscribe, Deliver, TakeLive, Cancel, ObserveCancel,
                Unsubscribe, vars
  <2>. QED
    BY <1>1, <2>1 DEF storeVars, commitVars, writerVars, AckInv
<1>. QED
  BY <1>2, <1>3 DEF Next, StreamStep

LEMMA IndexInvStep == IInv /\ IndexInv /\ [Next]_vars => IndexInv'
<1>. SUFFICES ASSUME IInv, IndexInv, [Next]_vars PROVE IndexInv'
  OBVIOUS
<1>1. ASSUME UNCHANGED <<all, byAggregate>> PROVE IndexInv'
  BY <1>1 DEF IndexInv
<1>2. ASSUME NEW w \in Writers, AppendEvent(w) PROVE IndexInv'
  <2>. DEFINE k == target[w]
              n == Len(all) + 1
  <2>1. /\ Len(all) \in Nat /\ DOMAIN all = 1..Len(all) /\ DOMAIN all' = 1..n
        /\ \A p \in DOMAIN all : all'[p] = all[p]
        /\ all'[n].key = k /\ all'[n].ver = base[w] + (appended + 1)
        /\ byAggregate' = [byAggregate EXCEPT ![k] = Append(@, n)]
        /\ k \in Keys /\ mu = w /\ w # NoWriter
    BY <1>2, NewEvent
  <2>2. /\ byAggregate \in [Keys -> Seq(Nat)] /\ byAggregate[k] \in Seq(Nat)
        /\ Len(byAggregate[k]) \in Nat
        /\ DOMAIN byAggregate[k] = 1..Len(byAggregate[k])
        /\ base[w] \in Nat /\ appended \in Nat
        /\ Len(byAggregate[k]) = base[w] + appended
    BY <2>1, LenProperties, BoundsAssumption DEF IInv, TypeOK, CommitInv
  <2>3. /\ \A i \in DOMAIN byAggregate[k] : byAggregate'[k][i] = byAggregate[k][i]
        /\ byAggregate'[k][Len(byAggregate[k]) + 1] = n
        /\ \A h \in Keys \ {k} : byAggregate'[h] = byAggregate[h]
    BY <2>1, <2>2, AppendProperties
  <2>4. ASSUME NEW p \in DOMAIN all PROVE byAggregate'[all[p].key][all[p].ver] = p
    <3>1. all[p].key \in Keys /\ all[p].ver \in DOMAIN byAggregate[all[p].key]
      BY EventType DEF IInv, GapFreeVersions
    <3>. QED
      BY <2>3, <3>1 DEF IndexInv
  <2>5. byAggregate'[k][base[w] + (appended + 1)] = n
    <3>1. \A l, b, a \in Nat : l = b + a => b + (a + 1) = l + 1
      OBVIOUS
    <3>2. base[w] + (appended + 1) = Len(byAggregate[k]) + 1
      BY <2>2, <3>1
    <3>. QED
      BY <2>3, <3>2
  <2>6. ASSUME NEW p \in DOMAIN all'
        PROVE  byAggregate'[all'[p].key][all'[p].ver] = p
    <3>1. CASE p \in DOMAIN all
      BY <2>1, <2>4, <3>1
    <3>2. CASE p = n
      BY <2>1, <2>5, <3>2
    <3>3. p \in 1..Len(all) \/ p = n
      BY <2>1
    <3>. QED
      BY <2>1, <3>1, <3>2, <3>3
  <2>. QED
    BY <2>6 DEF IndexInv
<1>3. CASE ~\E w \in Writers : AppendEvent(w)
  <2>1. UNCHANGED <<all, byAggregate>>
    BY <1>3 DEF Next, WriterStep, LoadAggregate, CommitConflict, CommitBegin,
                SendLive, CommitReturn, Subscribe, Deliver, TakeLive, Cancel,
                ObserveCancel, Unsubscribe, storeVars, vars
  <2>. QED
    BY <1>1, <2>1
<1>. QED
  BY <1>2, <1>3

LEMMA InitAckInv == Init => AckInv /\ IndexInv
BY DEF Init, AckInv, IndexInv

LEMMA AckInvariance == Spec => [](AckInv /\ IndexInv)
BY Invariance, InitAckInv, AckInvStep, IndexInvStep, PTL DEF Spec

(* A Save that returned nil is in the log once and whole, as one run of     *)
(* consecutive versions of one stream; of one that was refused there is     *)
(* nothing; of the running one there is what it has appended.               *)
THEOREM AcknowledgementsAreExact == Spec => []AcknowledgedOnceAndWhole
<1>1. ASSUME IInv, AckInv PROVE AcknowledgedOnceAndWhole
  <2>0. Len(all) \in Nat /\ DOMAIN all = 1..Len(all)
        /\ \A p \in DOMAIN all : all[p] \in Event
    BY <1>1, LenProperties, ElementOfSeq DEF IInv, TypeOK
  <2>1. ASSUME NEW w \in Writers, NEW c \in 1..cmds[w]
        PROVE  /\ EventsOf(w, c) # {}
               /\ \A p, q \in EventsOf(w, c) :
                    /\ p..q \subseteq EventsOf(w, c)
                    /\ all[p].of = Cardinality(EventsOf(w, c))
                    /\ all[p].key = all[q].key
                    /\ p < q => all[p].ver < all[q].ver
    <3>1. PICK lo \in DOMAIN all, hi \in DOMAIN all : LiesAt(w, c, lo, hi)
      BY <1>1, <2>1 DEF AckInv
    <3>2. /\ lo \in Nat /\ hi \in Nat /\ lo <= hi /\ EventsOf(w, c) = lo..hi
          /\ \A p \in lo..hi : /\ all[p].key = all[lo].key
                               /\ all[p].of = hi - lo + 1
                               /\ all[p].ver = all[lo].ver + (p - lo)
      BY <2>0, <3>1 DEF LiesAt
    <3>3. Cardinality(lo..hi) = hi - lo + 1
      BY <3>2, FS_Interval
    <3>4. all[lo].ver \in Nat
      BY <2>0 DEF Event
    <3>5. lo \in lo..hi
      BY <3>2
    <3>6. ASSUME NEW p \in lo..hi, NEW q \in lo..hi
          PROVE  /\ p..q \subseteq lo..hi
                 /\ all[p].of = hi - lo + 1
                 /\ all[p].key = all[q].key
                 /\ p < q => all[p].ver < all[q].ver
      <4>1. p \in Nat /\ q \in Nat /\ lo <= p /\ q <= hi
        BY <3>2
      <4>2. p..q \subseteq lo..hi
        BY <3>2, <4>1
      <4>3. all[p].ver = all[lo].ver + (p - lo) /\ all[q].ver = all[lo].ver + (q - lo)
        BY <3>2
      <4>4. p < q => all[p].ver < all[q].ver
        BY <3>2, <3>4, <4>1, <4>3
      <4>. QED
        BY <3>2, <4>2, <4>4
    <3>. QED
      BY <3>2, <3>3, <3>5, <3>6
  <2>2. ASSUME NEW w \in Writers, NEW p \in DOMAIN all,
               all[p].by = w, all[p].cmd > cmds[w]
        PROVE  mu = w /\ all[p].cmd = cmds[w] + 1
    BY <1>1, <2>2 DEF AckInv
  <2>3. ASSUME NEW w \in Writers, mu = w
        PROVE  Cardinality(EventsOf(w, cmds[w] + 1)) = appended
    <3>1. appended \in Nat /\ appended <= Len(all)
          /\ EventsOf(w, cmds[w] + 1) = AppendedSoFar
      BY <1>1, <2>3, NobodyAssumption, BoundsAssumption DEF AckInv, IInv, TypeOK
    <3>2. Cardinality(AppendedSoFar) = appended
      BY <2>0, <3>1, FS_Interval DEF AppendedSoFar
    <3>. QED
      BY <3>1, <3>2
  <2>. QED
    BY <2>1, <2>2, <2>3 DEF AcknowledgedOnceAndWhole
<1>. QED
  BY <1>1, Invariance, AckInvariance, PTL

-----------------------------------------------------------------------------
(* Refinement.  The abstract log is all followed by what the running Commit *)
(* has promised; only passing the version check and delivering change it.   *)

PromisedOK ==
  /\ Promised \in Seq(Event) /\ all \in Seq(Event)
  /\ mu = NoWriter => Promised = <<>>
  /\ mu # NoWriter => Len(Promised) = size[mu] - appended

LEMMA PromisedType == IInv => PromisedOK
<1>. SUFFICES ASSUME IInv PROVE PromisedOK
  OBVIOUS
<1>0. all \in Seq(Event)
  BY DEF IInv, TypeOK
<1>1. CASE mu = NoWriter
  BY <1>0, <1>1 DEF Promised, PromisedOK
<1>2. CASE mu # NoWriter
  <2>1. PICK n : n = size[mu] - appended
    OBVIOUS
  <2>2. /\ n \in Nat /\ mu \in Writers /\ target[mu] \in Keys /\ cmds[mu] + 1 \in Nat
        /\ base[mu] \in Nat /\ appended \in Nat /\ size[mu] \in Nat
    BY <1>2, <2>1, BoundsAssumption DEF IInv, TypeOK, CommitInv
  <2>3. \A i \in 1..n :
          [key |-> target[mu], ver |-> base[mu] + appended + i, by |-> mu,
           cmd |-> cmds[mu] + 1, of |-> size[mu]] \in Event
    BY <2>2 DEF Event
  <2>4. Promised \in [1..n -> Event]
    BY <1>2, <2>1, <2>3 DEF Promised
  <2>5. Promised \in Seq(Event)
    BY <2>2, <2>4
  <2>6. Len(Promised) = n
    BY <2>2, <2>4
  <2>. QED
    BY <1>0, <1>2, <2>1, <2>5, <2>6 DEF PromisedOK
<1>. QED
  BY <1>1, <1>2

LEMMA PromisedUnchanged ==
  ASSUME UNCHANGED <<mu, appended>>,
         mu # NoWriter => /\ target'[mu] = target[mu] /\ base'[mu] = base[mu]
                          /\ cmds'[mu] = cmds[mu] /\ size'[mu] = size[mu]
  PROVE  Promised' = Promised
BY DEF Promised

(* The version check counts the stream's events in the log.                 *)
LEMMA VersionCountsPositions ==
  ASSUME IInv, IndexInv, NEW k \in Keys
  PROVE  /\ IsFiniteSet({p \in DOMAIN all : all[p].key = k})
         /\ Cardinality({p \in DOMAIN all : all[p].key = k}) = Len(byAggregate[k])
<1>. DEFINE S == {p \in DOMAIN all : all[p].key = k}
            f == byAggregate[k]
            n == Len(byAggregate[k])
<1>1. f \in Seq(Nat) /\ n \in Nat /\ DOMAIN f = 1..n /\ f = [i \in 1..n |-> f[i]]
  BY LenProperties DEF IInv, TypeOK
<1>2. \A i \in 1..n : f[i] \in S /\ all[f[i]].ver = i
  BY <1>1 DEF IInv, GapFreeVersions
<1>3. \A p \in S : all[p].ver \in 1..n /\ f[all[p].ver] = p
  BY <1>1 DEF IInv, GapFreeVersions, IndexInv
<1>. HIDE DEF S, f, n
<1>4. f \in [1..n -> S]
  <2>1. f = [i \in 1..n |-> f[i]]
    BY <1>1
  <2>2. \A i \in 1..n : f[i] \in S
    BY <1>2
  <2>. QED
    BY <2>1, <2>2
<1>5. f \in Bijection(1..n, S)
  <2>1. f \in Injection(1..n, S)
    BY <1>2, <1>4 DEF Injection, IsInjective
  <2>2. f \in Surjection(1..n, S)
    BY <1>3, <1>4 DEF Surjection
  <2>. QED
    BY <2>1, <2>2 DEF Bijection
<1>6. IsFiniteSet(1..n) /\ Cardinality(1..n) = n
  <2>1. n \in Nat
    BY <1>1
  <2>. QED
    BY <2>1, FS_Interval
<1>7. IsFiniteSet(S) /\ Cardinality(S) = n
  BY <1>5, <1>6, FS_Bijection DEF ExistsBijection
<1>. QED
  BY <1>7 DEF S, n

(* Between two Commits the log holds the acknowledged commands, no more.    *)
LEMMA CommandsAreCounted ==
  ASSUME IInv, AckInv, mu = NoWriter, NEW w \in Writers
  PROVE  Cardinality({all[p].cmd : p \in {q \in DOMAIN all : all[q].by = w}}) = cmds[w]
<1>. DEFINE C == {all[p].cmd : p \in {q \in DOMAIN all : all[q].by = w}}
<1>1. cmds[w] \in Nat
  BY BoundsAssumption DEF IInv, TypeOK
<1>2. ASSUME NEW c \in 1..cmds[w] PROVE c \in C
  <2>1. PICK lo \in DOMAIN all, hi \in DOMAIN all : LiesAt(w, c, lo, hi)
    BY DEF AckInv
  <2>2. lo \in EventsOf(w, c)
    BY <2>1, EventType DEF LiesAt
  <2>. QED
    BY <2>2 DEF EventsOf
<1>3. ASSUME NEW p \in DOMAIN all, all[p].by = w PROVE all[p].cmd \in 1..cmds[w]
  BY <1>1, <1>3, EventType, NobodyAssumption DEF AckInv
<1>4. C = 1..cmds[w]
  BY <1>2, <1>3
<1>. HIDE DEF C
<1>5. Cardinality(C) = cmds[w]
  BY <1>1, <1>4, FS_Interval
<1>. QED
  BY <1>5 DEF C

(* Instantiating EventLog instantiates FiniteSets too: it counts the same.  *)
LEMMA SameCount ==
  ASSUME NEW S
  PROVE  Contract!Cardinality(S) = Cardinality(S)
BY DEF Contract!Cardinality, Cardinality

LEMMA BeginCommitsBatch ==
  ASSUME IInv, AckInv, IndexInv, NEW w \in Writers, CommitBegin(w)
  PROVE  Contract!Next
<1>1. /\ mu = NoWriter /\ mu' = w /\ w # NoWriter /\ appended = 0
      /\ UNCHANGED <<target, base, size, cmds, all, appended, got>>
      /\ wpc[w] = "loaded" /\ CurrentVersion(target[w]) = base[w]
  BY NobodyAssumption
     DEF CommitBegin, MuFree, VersionMatches, storeVars, streamVars, IInv, MutexInv
<1>2. /\ target[w] \in Keys /\ base[w] \in Nat /\ size[w] \in 1..MaxBatch
      /\ cmds[w] \in Nat
  <2>1. /\ target[w] \in Keys /\ base[w] \in Nat /\ size[w] \in 0..MaxBatch
        /\ cmds[w] \in Nat
    BY BoundsAssumption DEF IInv, TypeOK
  <2>2. size[w] > 0
    BY <1>1 DEF AckInv
  <2>. QED
    BY <2>1, <2>2, BoundsAssumption
<1>3. Promised = <<>> /\ all \in Seq(Event) /\ all \o Promised = all
  <2>1. Promised = <<>> /\ all \in Seq(Event)
    BY <1>1, PromisedType DEF PromisedOK
  <2>. QED
    BY <2>1, ConcatEmptySeq
<1>4. Cardinality(Contract!Positions(target[w])) = base[w]
  <2>1. Contract!Positions(target[w]) = {p \in DOMAIN all : all[p].key = target[w]}
    BY <1>3 DEF Contract!Positions
  <2>2. base[w] = Len(byAggregate[target[w]])
    BY <1>1, <1>2, CurrentVersionIsLength DEF IInv, TypeOK
  <2>. QED
    BY <1>2, <2>1, <2>2, VersionCountsPositions
<1>5. Cardinality(Contract!CommandsOf(w)) = cmds[w]
  <2>1. Contract!CommandsOf(w) = {all[p].cmd : p \in {q \in DOMAIN all : all[q].by = w}}
    BY <1>3 DEF Contract!CommandsOf
  <2>. QED
    BY <1>1, <2>1, CommandsAreCounted
<1>6. Promised' = Contract!Batch(w, target[w], size[w])
  <2>1. \A i \in 1..size[w] : base[w] + 0 + i = base[w] + i
    BY <1>2
  <2>2. size[w] - 0 = size[w]
    BY <1>2
  <2>3. Promised' = [i \in 1..size[w] |->
                       [key |-> target[w], ver |-> base[w] + 0 + i, by |-> w,
                        cmd |-> cmds[w] + 1, of |-> size[w]]]
    BY <1>1, <2>2 DEF Promised
  <2>4. Contract!Batch(w, target[w], size[w]) =
          [i \in 1..size[w] |->
             [key |-> target[w], ver |-> base[w] + i, by |-> w,
              cmd |-> cmds[w] + 1, of |-> size[w]]]
    BY <1>4, <1>5, SameCount DEF Contract!Batch
  <2>. QED
    BY <2>1, <2>3, <2>4
<1>7. (all \o Promised)' = (all \o Promised) \o Contract!Batch(w, target[w], size[w])
  BY <1>1, <1>3, <1>6
<1>8. Contract!Commit(w, target[w], size[w])
  BY <1>1, <1>7 DEF Contract!Commit
<1>9. target[w] \in Contract!Keys
  BY <1>2 DEF Keys, Contract!Keys
<1>. QED
  BY <1>2, <1>8, <1>9 DEF Contract!Next

LEMMA AppendKeepsPromise ==
  ASSUME IInv, IInv', NEW w \in Writers, AppendEvent(w)
  PROVE  (all \o Promised)' = all \o Promised
<1>1. /\ mu = w /\ w # NoWriter /\ mu' = w /\ appended' = appended + 1
      /\ UNCHANGED <<target, base, size, cmds>>
      /\ all \in Seq(Event) /\ all' \in Seq(Event)
      /\ Len(all) \in Nat /\ Len(all') = Len(all) + 1
      /\ \A p \in 1..Len(all) : all'[p] = all[p]
      /\ all'[Len(all) + 1] =
           [key |-> target[w], ver |-> base[w] + (appended + 1), by |-> w,
            cmd |-> cmds[w] + 1, of |-> size[w]]
  <2>1. all \in Seq(Event)
    BY DEF IInv, TypeOK
  <2>2. all' \in Seq(Event)
    BY DEF IInv, TypeOK
  <2>. QED
    BY <2>1, <2>2, NewEvent
<1>2. PICK m : m = size[w] - appended
  OBVIOUS
<1>3. /\ appended \in Nat /\ size[w] \in Nat /\ base[w] \in Nat
      /\ m \in Nat /\ m > 0
  <2>1. appended \in Nat /\ size[w] \in Nat /\ base[w] \in Nat
    BY BoundsAssumption DEF IInv, TypeOK
  <2>2. appended < size[w]
    BY DEF AppendEvent
  <2>. QED
    BY <1>2, <2>1, <2>2
<1>4. /\ Promised \in Seq(Event) /\ Len(Promised) = m
      /\ \A i \in 1..m : Promised[i] =
           [key |-> target[w], ver |-> base[w] + appended + i, by |-> w,
            cmd |-> cmds[w] + 1, of |-> size[w]]
  BY <1>1, <1>2, PromisedType DEF Promised, PromisedOK
<1>5. size[w] - (appended + 1) = m - 1
  BY <1>2, <1>3
<1>6. Promised' \in Seq(Event) /\ Len(Promised') = m - 1
  <2>1. PromisedOK'
    BY PromisedType, PTL
  <2>. QED
    BY <1>1, <1>5, <2>1 DEF PromisedOK
<1>7. \A i \in 1..(m - 1) : Promised'[i] =
           [key |-> target[w], ver |-> base[w] + (appended + 1) + i, by |-> w,
            cmd |-> cmds[w] + 1, of |-> size[w]]
  BY <1>1, <1>5 DEF Promised
<1>8. \A i \in 1..(m - 1) : Promised'[i] = Promised[i + 1]
  <2>1. \A i \in 1..(m - 1) :
          i + 1 \in 1..m /\ base[w] + (appended + 1) + i = base[w] + appended + (i + 1)
    BY <1>3
  <2>. QED
    BY <1>4, <1>7, <2>1
<1>9. all'[Len(all) + 1] = Promised[1]
  <2>1. base[w] + (appended + 1) = base[w] + appended + 1 /\ 1 \in 1..m
    BY <1>3
  <2>. QED
    BY <1>1, <1>4, <2>1
<1>10. PICK a, b, p, q : a = all /\ b = all' /\ p = Promised /\ q = Promised'
  OBVIOUS
<1>11. /\ a \o p \in Seq(Event) /\ Len(a \o p) = Len(a) + m
       /\ \A i \in 1..(Len(a) + m) :
            (a \o p)[i] = IF i <= Len(a) THEN a[i] ELSE p[i - Len(a)]
  <2>1. a \in Seq(Event) /\ p \in Seq(Event) /\ Len(p) = m
    BY <1>1, <1>4, <1>10
  <2>2. a \o p \in Seq(Event) /\ Len(a \o p) = Len(a) + Len(p)
    BY <2>1, ConcatProperties
  <2>3. \A i \in 1..(Len(a) + Len(p)) :
            (a \o p)[i] = IF i <= Len(a) THEN a[i] ELSE p[i - Len(a)]
    BY <2>1, ConcatProperties
  <2>. QED
    BY <2>1, <2>2, <2>3
<1>12. /\ b \o q \in Seq(Event) /\ Len(b \o q) = Len(b) + (m - 1)
       /\ \A i \in 1..(Len(b) + (m - 1)) :
            (b \o q)[i] = IF i <= Len(b) THEN b[i] ELSE q[i - Len(b)]
  <2>1. b \in Seq(Event) /\ q \in Seq(Event) /\ Len(q) = m - 1
    BY <1>1, <1>6, <1>10
  <2>2. b \o q \in Seq(Event) /\ Len(b \o q) = Len(b) + Len(q)
    BY <2>1, ConcatProperties
  <2>3. \A i \in 1..(Len(b) + Len(q)) :
            (b \o q)[i] = IF i <= Len(b) THEN b[i] ELSE q[i - Len(b)]
    BY <2>1, ConcatProperties
  <2>. QED
    BY <2>1, <2>2, <2>3
<1>13. Len(a) \in Nat /\ Len(b) = Len(a) + 1 /\ Len(b) + (m - 1) = Len(a) + m
  <2>1. \A x \in Nat : (x + 1) + (m - 1) = x + m
    BY <1>3
  <2>2. Len(a) \in Nat /\ Len(b) = Len(a) + 1
    BY <1>1, <1>10
  <2>. QED
    BY <2>1, <2>2
<1>14. ASSUME NEW i \in 1..(Len(a) + m) PROVE (b \o q)[i] = (a \o p)[i]
  <2>1. CASE i <= Len(a)
    BY <1>1, <1>3, <1>10, <1>11, <1>12, <1>13, <2>1
  <2>2. CASE i = Len(a) + 1
    <3>1. i - Len(a) = 1 /\ ~(i <= Len(a)) /\ i <= Len(b)
      BY <1>13, <2>2
    <3>. QED
      BY <1>9, <1>10, <1>11, <1>12, <1>13, <2>2, <3>1
  <2>3. CASE i > Len(a) + 1
    <3>1. /\ i - Len(b) \in 1..(m - 1) /\ i - Len(a) = (i - Len(b)) + 1
          /\ ~(i <= Len(a)) /\ ~(i <= Len(b))
      BY <1>3, <1>13, <2>3
    <3>2. q[i - Len(b)] = p[i - Len(a)]
      BY <1>8, <1>10, <3>1
    <3>. QED
      BY <1>11, <1>12, <1>13, <3>1, <3>2
  <2>4. i \in Nat
    BY <1>3, <1>13, <1>14
  <2>5. i <= Len(a) \/ i = Len(a) + 1 \/ i > Len(a) + 1
    BY <1>13, <2>4
  <2>. QED
    BY <2>1, <2>2, <2>3, <2>5
<1>15. b \o q = a \o p
  BY <1>11, <1>12, <1>13, <1>14, SeqEqual
<1>. QED
  BY <1>10, <1>15

(* What the goroutine offers next is the oldest event its consumer is owed, *)
(* the promised ones being younger than every event of the log.             *)
LEMMA DeliverIsOldest ==
  ASSUME IInv, StreamInv, NEW s \in Streams, Deliver(s)
  PROVE  Contract!Deliver(s)
<1>1. PICK p \in offer[s] :
        /\ \A q \in offer[s] : p <= q
        /\ got' = [got EXCEPT ![s] = Append(@, p)]
  BY DEF Deliver
<1>2. spc[s] = "open" /\ (all \o Promised)' = all \o Promised
  BY DEF Deliver, storeVars, commitVars, writerVars, Promised
<1>3. PICK L, n : L = all \o Promised /\ n = Len(all)
  OBVIOUS
<1>4. /\ n \in Nat /\ DOMAIN all = 1..n
      /\ Len(L) \in Nat /\ n <= Len(L) /\ DOMAIN L = 1..Len(L)
      /\ \A q \in 1..n : L[q] = all[q]
  <2>1. all \in Seq(Event) /\ Promised \in Seq(Event)
    BY PromisedType DEF PromisedOK
  <2>2. n \in Nat /\ DOMAIN all = 1..n /\ Len(Promised) \in Nat
    BY <1>3, <2>1, LenProperties
  <2>3. L \in Seq(Event) /\ Len(L) = n + Len(Promised)
    BY <1>3, <2>1, ConcatProperties
  <2>4. \A q \in 1..(n + Len(Promised)) :
          L[q] = IF q <= n THEN all[q] ELSE Promised[q - n]
    BY <1>3, <2>1, ConcatProperties
  <2>5. DOMAIN L = 1..Len(L)
    BY <2>3, LenProperties
  <2>. QED
    BY <2>2, <2>3, <2>4, <2>5
<1>5. \A e : Contract!InScope(s, e) <=> Visible(s, e)
  BY DEF Contract!InScope, Visible
<1>6. InOrder(s) /\ Complete(s)
  BY DEF StreamInv
<1>7. p \in 1..n /\ Visible(s, all[p]) /\ \A q \in Handed(s) : q < p
  BY <1>1, <1>4, <1>6 DEF InOrder, Before
<1>8. p \in Contract!Undelivered(s)
  <2>1. \A i \in DOMAIN got[s] : got[s][i] < p
    BY <1>7 DEF Handed, Items
  <2>2. p \in DOMAIN L /\ Visible(s, L[p])
    BY <1>4, <1>7
  <2>. QED
    BY <1>3, <1>5, <2>1, <2>2 DEF Contract!Undelivered
<1>9. ASSUME NEW q \in Contract!Undelivered(s) PROVE p <= q
  <2>1. q \in 1..Len(L) /\ Visible(s, L[q]) /\ \A i \in DOMAIN got[s] : got[s][i] < q
    BY <1>3, <1>4, <1>5, <1>9 DEF Contract!Undelivered
  <2>2. CASE q > n
    BY <1>4, <1>7, <2>1, <2>2
  <2>3. CASE q <= n
    <3>1. q \in DOMAIN all /\ Visible(s, all[q])
      BY <1>4, <2>1, <2>3
    <3>2. q \notin Handed(s)
      BY <1>4, <2>1 DEF Handed, Items
    <3>3. q \in offer[s] \cup Buffered(s) \cup Pending(s)
      BY <1>2, <1>6, <3>1, <3>2 DEF Complete
    <3>4. q \notin offer[s] => p < q
      BY <1>6, <3>3 DEF InOrder, Before
    <3>. QED
      BY <1>1, <1>4, <1>7, <2>1, <3>4
  <2>. QED
    BY <1>4, <2>1, <2>2, <2>3
<1>. QED
  BY <1>1, <1>2, <1>8, <1>9 DEF Contract!Deliver

(* Every other step leaves the abstract log and the consumers alone.        *)
LEMMA OtherStepsStutter ==
  ASSUME IInv, IInv', [Next]_vars,
         \A w \in Writers : ~CommitBegin(w), \A s \in Streams : ~Deliver(s)
  PROVE  UNCHANGED Contract!vars
<1>1. ASSUME NEW w \in Writers, WriterStep(w)
      PROVE  (all \o Promised)' = all \o Promised /\ got' = got
  <2>1. CASE LoadAggregate(w) \/ CommitConflict(w)
    <3>1. mu = NoWriter /\ UNCHANGED <<mu, all, got, appended>>
      BY <2>1 DEF LoadAggregate, CommitConflict, MuFree, storeVars, commitVars, streamVars
    <3>. QED
      BY <3>1 DEF Promised
  <2>2. CASE AppendEvent(w)
    <3>1. got' = got
      BY <2>2 DEF AppendEvent, streamVars
    <3>. QED
      BY <2>2, <3>1, AppendKeepsPromise
  <2>3. CASE SendLive(w)
    BY <2>3 DEF SendLive, storeVars, writerVars, Promised
  <2>4. CASE CommitReturn(w)
    <3>1. /\ mu = w /\ w # NoWriter /\ mu' = NoWriter
          /\ appended = size[w] /\ UNCHANGED <<all, got>>
      BY <2>4, NobodyAssumption
         DEF CommitReturn, BatchDone, MuReleased, storeVars, streamVars
    <3>2. Promised \in Seq(Event) /\ Len(Promised) = size[w] - size[w]
      BY <3>1, PromisedType DEF PromisedOK
    <3>3. size[w] - size[w] = 0
      BY BoundsAssumption DEF IInv, TypeOK
    <3>4. Promised = <<>> /\ Promised' = <<>>
      BY <3>1, <3>2, <3>3 DEF Promised
    <3>. QED
      BY <3>1, <3>4
  <2>. QED
    BY <1>1, <2>1, <2>2, <2>3, <2>4 DEF WriterStep
<1>2. CASE (\E s \in Streams : StreamStep(s) /\ ~Deliver(s)) \/ UNCHANGED vars
  <2>1. got' = got /\ UNCHANGED <<storeVars, commitVars, writerVars>>
    BY <1>2 DEF StreamStep, Subscribe, TakeLive, Cancel, ObserveCancel,
                Unsubscribe, vars, streamVars
  <2>. QED
    BY <2>1 DEF storeVars, commitVars, writerVars, Promised, Contract!vars
<1>. QED
  BY <1>1, <1>2 DEF Next, StreamStep, Contract!vars

(* memstore.Store implements the contract of es.EventStore: passing the     *)
(* version check is the abstract commit of the whole batch, a delivery is   *)
(* the abstract delivery, and no other step shows.                          *)
THEOREM ImplementsContract == Spec => KeepsTheContract
<1>1. Init => Contract!Init
  <2>. SUFFICES ASSUME Init PROVE Contract!Init
    OBVIOUS
  <2>1. all = <<>> /\ Promised = <<>> /\ got = [s \in Streams |-> <<>>]
    BY DEF Init, Promised
  <2>2. all \o Promised = <<>>
    BY <2>1
  <2>. QED
    BY <2>1, <2>2 DEF Contract!Init
<1>2. IInv /\ IInv' /\ StreamInv /\ AckInv /\ IndexInv /\ [Next]_vars
        => [Contract!Next]_(Contract!vars)
  <2>. SUFFICES ASSUME IInv, IInv', StreamInv, AckInv, IndexInv, [Next]_vars
                PROVE  [Contract!Next]_(Contract!vars)
    OBVIOUS
  <2>1. CASE \E w \in Writers : CommitBegin(w)
    BY <2>1, BeginCommitsBatch
  <2>2. CASE \E s \in Streams : Deliver(s)
    BY <2>2, DeliverIsOldest DEF Contract!Next
  <2>3. CASE /\ \A w \in Writers : ~CommitBegin(w)
             /\ \A s \in Streams : ~Deliver(s)
    BY <2>3, OtherStepsStutter
  <2>. QED
    BY <2>1, <2>2, <2>3
<1>. QED
  BY <1>1, <1>2, Invariance, StreamInvariance, AckInvariance, PTL
     DEF Spec, KeepsTheContract, Contract!Spec

-----------------------------------------------------------------------------
(* Loops.  A property that holds before a loop of n rounds and is kept by   *)
(* each of them holds after every round: among the initial segments that    *)
(* end where it fails there is no least one.                                *)
LEMMA EveryRound ==
  ASSUME NEW n \in Nat, NEW S,
         0 \in S, \A m \in 0..n : m > 0 /\ m - 1 \in S => m \in S
  PROVE  \A m \in 0..n : m \in S
<1>. DEFINE Bad == {m \in 0..n : m \notin S}
            T == {0..m : m \in Bad}
<1>. SUFFICES ASSUME Bad # {} PROVE FALSE
  OBVIOUS
<1>1. IsFiniteSet(0..n)
  BY FS_Interval
<1>2. T \subseteq FiniteSubsetsOf(0..n)
  <2>1. \A m \in Bad : 0..m \subseteq 0..n
    OBVIOUS
  <2>. QED
    BY <1>1, <2>1, FS_Subset DEF FiniteSubsetsOf
<1>3. \E U \in T : \A V \in T : <<V, U>> \notin StrictSubsetOrdering(0..n)
  <2>1. T # {}
    OBVIOUS
  <2>. QED
    BY <1>2, <2>1, FS_StrictSubsetOrderingWellFounded, WFMin
<1>4. PICK m \in Bad :
        \A k \in Bad : <<0..k, 0..m>> \notin StrictSubsetOrdering(0..n)
  BY <1>3
<1>5. m \in Nat /\ m > 0 /\ m - 1 \in 0..n /\ m - 1 \notin S
  BY <1>4
<1>6. 0..(m - 1) \subseteq 0..m /\ m \in 0..m /\ m \notin 0..(m - 1)
  BY <1>5
<1>7. <<0..(m - 1), 0..m>> \in StrictSubsetOrdering(0..n)
  <2>1. 0..m \subseteq 0..n /\ 0..(m - 1) \subseteq 0..n
    BY <1>4, <1>5
  <2>. QED
    BY <1>6, <2>1 DEF StrictSubsetOrdering
<1>. QED
  BY <1>4, <1>5, <1>7

(* f gives the value after each round of a loop of n rounds with body F.    *)
IsLoop(f, n, init, F) ==
  f = [m \in 0..n |-> IF m = 0 THEN init ELSE F[<<f[m - 1], m>>]]

(* Such a function exists.                                                  *)
LEMMA LoopExists ==
  ASSUME NEW n \in Nat, NEW T, NEW init \in T, NEW F \in [T \X (1..n) -> T]
  PROVE  \E f \in [0..n -> T] : IsLoop(f, n, init, F)
<1>. DEFINE Upto(f, k) ==
              \A m \in 0..k : f[m] = IF m = 0 THEN init ELSE F[<<f[m - 1], m>>]
            S == {k \in 0..n : \E f \in [0..n -> T] : Upto(f, k)}
<1>1. 0 \in S
  <2>1. PICK f \in [0..n -> T] : f = [m \in 0..n |-> init]
    OBVIOUS
  <2>2. \A m \in 0..0 : m = 0 /\ f[m] = init
    BY <2>1
  <2>3. Upto(f, 0)
    BY <2>2
  <2>. QED
    BY <2>3
<1>2. ASSUME NEW k \in 0..n, k > 0, k - 1 \in S PROVE k \in S
  <2>1. PICK f \in [0..n -> T] : Upto(f, k - 1)
    BY <1>2
  <2>. DEFINE g == [f EXCEPT ![k] = F[<<f[k - 1], k>>]]
  <2>2. k \in 1..n /\ k - 1 \in 0..n
    BY <1>2
  <2>3. g \in [0..n -> T]
    BY <2>2
  <2>4. g[k] = F[<<g[k - 1], k>>]
    BY <2>2
  <2>5. ASSUME NEW m \in 0..k
        PROVE  g[m] = IF m = 0 THEN init ELSE F[<<g[m - 1], m>>]
    <3>1. CASE m = k
      BY <2>2, <2>4, <3>1
    <3>2. CASE m # k
      <4>1. m \in 0..(k - 1) /\ m \in 0..n /\ (m # 0 => m - 1 \in 0..n /\ m - 1 # k)
        BY <2>2, <3>2
      <4>. QED
        BY <2>1, <3>2, <4>1
    <3>. QED
      BY <3>1, <3>2
  <2>. QED
    BY <2>3, <2>5
<1>. HIDE DEF S
<1>3. n \in S
  BY <1>1, <1>2, EveryRound
<1>4. PICK f \in [0..n -> T] : Upto(f, n)
  BY <1>3 DEF S
<1>5. f = [m \in 0..n |-> IF m = 0 THEN init ELSE F[<<f[m - 1], m>>]]
  BY <1>4
<1>. QED
  BY <1>5 DEF IsLoop

-----------------------------------------------------------------------------
(* The index of a subject: its events, once each, in log order.             *)
SubjectIndexInv ==
  /\ Len(piiID) = Len(all)
  /\ \A x \in Subjects :
       /\ Increasing(byPii[x])
       /\ Items(byPii[x]) = {p \in DOMAIN all : piiID[p] = x}

LEMMA InitSubjectIndex == Init => SubjectIndexInv
BY DEF Init, SubjectIndexInv, Increasing, Items

LEMMA SubjectIndexStep ==
  IInv /\ SubjectIndexInv /\ [Next]_vars => SubjectIndexInv'
<1>. SUFFICES ASSUME IInv, SubjectIndexInv, [Next]_vars PROVE SubjectIndexInv'
  OBVIOUS
<1>1. ASSUME NEW w \in Writers, AppendEvent(w) PROVE SubjectIndexInv'
  <2>6. /\ Len(piiID) = Len(all) /\ Len(piiID') = Len(all')
        /\ \A p \in DOMAIN all : piiID'[p] = piiID[p]
        /\ piiID'[Len(all) + 1] = NextPiiID(w)
    <3>1. /\ Len(piiID) = Len(all)
          /\ piiID \in Seq(Subjects \cup {NoSubject}) /\ all \in Seq(Event)
      BY DEF SubjectIndexInv, IInv, TypeOK
    <3>2. piiID' = Append(piiID, NextPiiID(w)) /\ \E e : all' = Append(all, e)
      BY <1>1 DEF AppendEvent
    <3>. QED
      BY <3>1, <3>2
  <2>. SUFFICES ASSUME NEW x \in Subjects
                PROVE  /\ Increasing(byPii'[x])
                       /\ Items(byPii'[x]) =
                            {p \in DOMAIN all' : piiID'[p] = x}
    BY <2>6 DEF SubjectIndexInv, Increasing, Items
  <2>0. PICK n : n = Len(all) + 1
    OBVIOUS
  <2>1. /\ Len(all) \in Nat /\ DOMAIN all = 1..Len(all) /\ DOMAIN all' = 1..n
    BY <1>1, <2>0, NewEvent
  <2>2. byPii'[x] = IF NextPiiID(w) = x THEN Append(byPii[x], n) ELSE byPii[x]
    BY <1>1, <2>0 DEF AppendEvent, IndexedBySubject, IInv, CounterInv
  <2>3. byPii[x] \in Seq(Nat) /\ n \in Nat
    BY <2>0, <2>1 DEF IInv, TypeOK
  <2>. DEFINE Own == {p \in DOMAIN all : piiID[p] = x}
  <2>4. /\ Increasing(byPii[x]) /\ Items(byPii[x]) = Own
        /\ Before(Items(byPii[x]), {n})
    <3>1. \A p \in Own : p < n
      BY <2>0, <2>1
    <3>. QED
      BY <3>1 DEF SubjectIndexInv, Before
  <2>5. {p \in DOMAIN all' : piiID'[p] = x} =
          Own \cup (IF NextPiiID(w) = x THEN {n} ELSE {})
    <3>1. DOMAIN all' = DOMAIN all \cup {n} /\ n \notin DOMAIN all
      BY <2>0, <2>1
    <3>. QED
      BY <2>0, <2>6, <3>1
  <2>. HIDE DEF Own
  <2>. QED
    BY <2>2, <2>3, <2>4, <2>5, ItemsOfAppend
<1>2. CASE ~\E w \in Writers : AppendEvent(w)
  <2>1. UNCHANGED <<all, piiID, byPii>>
    BY <1>2 DEF Next, WriterStep, LoadAggregate, CommitConflict, CommitBegin,
                SendLive, CommitReturn, Subscribe, Deliver, TakeLive, Cancel,
                ObserveCancel, Unsubscribe, storeVars, vars
  <2>. QED
    BY <2>1 DEF SubjectIndexInv
<1>. QED
  BY <1>1, <1>2

LEMMA SubjectIndexInvariance == Spec => []SubjectIndexInv
BY Invariance, InitSubjectIndex, SubjectIndexStep, PTL DEF Spec

(* FetchByPiiID's loop keeps the index's order and what the scope shows.    *)
LEMMA FetchIsWhole ==
  ASSUME IInv, SubjectIndexInv, NEW x \in Subjects, NEW scope
  PROVE  /\ FetchByPiiID(x, scope) \in Seq(Nat)
         /\ Increasing(FetchByPiiID(x, scope))
         /\ Items(FetchByPiiID(x, scope)) =
              {p \in DOMAIN all : piiID[p] = x /\ Shown(p, scope)}
<1>0. PICK q : q = byPii[x]
  OBVIOUS
<1>1. PICK V : V = {p \in Nat : Shown(p, scope)}
  OBVIOUS
<1>2. PICK n : n = Len(q)
  OBVIOUS
<1>3. /\ q \in Seq(Nat) /\ n \in Nat /\ DOMAIN q = 1..n
      /\ \A m \in 1..n : q[m] \in Nat
      /\ Increasing(q)
      /\ Items(q) = {p \in DOMAIN all : piiID[p] = x}
  <2>1. q \in Seq(Nat)
    BY <1>0 DEF IInv, TypeOK
  <2>. QED
    BY <1>0, <1>2, <2>1, LenProperties, ElementOfSeq DEF SubjectIndexInv
<1>. DEFINE Body(f, m) == IF m = 0 THEN <<>>
                          ELSE IF Shown(q[m], scope) THEN Append(f[m - 1], q[m])
                          ELSE f[m - 1]
<1>4. \E f : f = [m \in 0..n |-> Body(f, m)]
  <2>0. PICK F : F = [r \in Seq(Nat) \X (1..n) |->
                        IF q[r[2]] \in V THEN Append(r[1], q[r[2]]) ELSE r[1]]
    OBVIOUS
  <2>1. F \in [Seq(Nat) \X (1..n) -> Seq(Nat)]
    <3>1. \A r \in Seq(Nat) \X (1..n) : r[1] \in Seq(Nat) /\ q[r[2]] \in Nat
      BY <1>3
    <3>2. \A r \in Seq(Nat) \X (1..n) : Append(r[1], q[r[2]]) \in Seq(Nat)
      BY <3>1, AppendProperties
    <3>. QED
      BY <2>0, <3>1, <3>2
  <2>2. \A s \in Seq(Nat), m \in 1..n :
          F[<<s, m>>] = IF Shown(q[m], scope) THEN Append(s, q[m]) ELSE s
    <3>1. \A m \in 1..n : q[m] \in V <=> Shown(q[m], scope)
      BY <1>1, <1>3
    <3>. QED
      BY <2>0, <3>1
  <2>3. <<>> \in Seq(Nat)
    OBVIOUS
  <2>4. \E f \in [0..n -> Seq(Nat)] : IsLoop(f, n, <<>>, F)
    BY <1>3, <2>1, <2>3, LoopExists
  <2>5. PICK f \in [0..n -> Seq(Nat)] :
          f = [m \in 0..n |-> IF m = 0 THEN <<>> ELSE F[<<f[m - 1], m>>]]
    BY <2>4 DEF IsLoop
  <2>6. \A m \in 0..n : f[m] = Body(f, m)
    <3>. SUFFICES ASSUME NEW m \in 0..n PROVE f[m] = Body(f, m)
      OBVIOUS
    <3>1. CASE m = 0
      BY <2>5, <3>1
    <3>2. CASE m # 0
      <4>1. m \in 1..n /\ m - 1 \in 0..n
        BY <1>3, <3>2
      <4>. QED
        BY <2>2, <2>5, <3>2, <4>1
    <3>. QED
      BY <3>1, <3>2
  <2>. QED
    BY <2>5, <2>6
<1>5. PICK out : /\ out = [m \in 0..n |-> Body(out, m)]
                 /\ FetchByPiiID(x, scope) = out[n]
  <2>1. PICK out : out = CHOOSE f : f = [m \in 0..n |-> Body(f, m)]
    OBVIOUS
  <2>2. out = [m \in 0..n |-> Body(out, m)]
    BY <1>4, <2>1
  <2>3. FetchByPiiID(x, scope) = out[n]
    BY <1>0, <1>2, <2>1 DEF FetchByPiiID
  <2>. QED
    BY <2>2, <2>3
<1>6. /\ out[0] = <<>>
      /\ \A m \in 0..n : m > 0 => out[m] = IF Shown(q[m], scope)
                                          THEN Append(out[m - 1], q[m])
                                          ELSE out[m - 1]
  <2>1. \A m \in 0..n : out[m] = Body(out, m)
    BY <1>5
  <2>2. 0 \in 0..n /\ \A m \in 0..n : m > 0 => m # 0
    BY <1>3
  <2>. QED
    BY <2>1, <2>2
<1>. DEFINE Kept(m) == {p \in {q[i] : i \in 1..m} : Shown(p, scope)}
            Good == {m \in 0..n : /\ out[m] \in Seq(Nat)
                                  /\ Increasing(out[m])
                                  /\ Items(out[m]) = Kept(m)}
<1>7. 0 \in Good
  <2>1. <<>> \in Seq(Nat) /\ Increasing(<<>>) /\ Items(<<>>) = {}
    BY DEF Increasing, Items
  <2>2. Kept(0) = {}
    OBVIOUS
  <2>3. 0 \in 0..n
    BY <1>3
  <2>. HIDE DEF Kept
  <2>. QED
    BY <1>6, <2>1, <2>2, <2>3
<1>8. ASSUME NEW m \in 0..n, m > 0, m - 1 \in Good PROVE m \in Good
  <2>1. /\ out[m - 1] \in Seq(Nat) /\ Increasing(out[m - 1])
        /\ Items(out[m - 1]) = Kept(m - 1)
    BY <1>8
  <2>2. m \in 1..n /\ q[m] \in Nat /\ 1..m = 1..(m - 1) \cup {m}
    BY <1>3, <1>8
  <2>3. Kept(m) = Kept(m - 1) \cup {p \in {q[m]} : Shown(p, scope)}
    BY <2>2
  <2>4. Before(Kept(m - 1), {q[m]})
    <3>1. \A i \in 1..(m - 1) : q[i] < q[m]
      BY <1>3, <2>2 DEF Increasing
    <3>. QED
      BY <3>1 DEF Before
  <2>. HIDE DEF Kept
  <2>5. CASE Shown(q[m], scope)
    <3>1. out[m] = Append(out[m - 1], q[m])
      BY <1>6, <1>8, <2>5
    <3>2. Kept(m) = Kept(m - 1) \cup {q[m]}
      BY <2>3, <2>5
    <3>3. PICK o, y : o = out[m - 1] /\ y = q[m]
      OBVIOUS
    <3>4. /\ o \in Seq(Nat) /\ y \in Nat /\ Increasing(o)
          /\ Items(o) = Kept(m - 1) /\ Before(Items(o), {y})
      BY <2>1, <2>2, <2>4, <3>3
    <3>5. /\ Append(o, y) \in Seq(Nat) /\ Increasing(Append(o, y))
          /\ Items(Append(o, y)) = Items(o) \cup {y}
      BY <3>4, AppendProperties, ItemsOfAppend
    <3>. QED
      BY <3>1, <3>2, <3>3, <3>4, <3>5
  <2>6. CASE ~Shown(q[m], scope)
    <3>1. out[m] = out[m - 1] /\ Kept(m) = Kept(m - 1)
      BY <1>6, <1>8, <2>3, <2>6
    <3>. QED
      BY <2>1, <3>1
  <2>. QED
    BY <2>5, <2>6
<1>9. n \in Good
  <2>. HIDE DEF Good
  <2>1. \A m \in 0..n : m > 0 /\ m - 1 \in Good => m \in Good
    BY <1>8
  <2>2. \A m \in 0..n : m \in Good
    BY <1>3, <1>7, <2>1, EveryRound
  <2>. QED
    BY <1>3, <2>2
<1>10. Kept(n) = {p \in Items(q) : Shown(p, scope)}
  BY <1>3 DEF Items
<1>. QED
  BY <1>3, <1>5, <1>9, <1>10

-----------------------------------------------------------------------------
(* Grouping.                                                                *)

(* Within a stream versions and positions grow together.                    *)
LEMMA VersionsGrow ==
  ASSUME IInv, IndexInv, NEW p \in DOMAIN all
  PROVE  /\ all[p].ver \in Nat /\ all[p].ver > 0
         /\ \A q \in DOMAIN all :
              all[q].key = all[p].key /\ q < p => all[q].ver < all[p].ver
<1>0. PICK k : k = all[p].key
  OBVIOUS
<1>1. PICK b : b = byAggregate[k]
  OBVIOUS
<1>2. /\ k \in Keys /\ b \in Seq(Nat) /\ Len(b) \in Nat /\ DOMAIN b = 1..Len(b)
      /\ \A i \in DOMAIN b : b[i] \in Nat
  BY <1>0, <1>1, EventType, LenProperties, ElementOfSeq DEF IInv, TypeOK
<1>3. \A i \in DOMAIN b : /\ b[i] \in DOMAIN all /\ all[b[i]].key = k
                          /\ all[b[i]].ver = i
                          /\ \A j \in 1..(i - 1) : b[j] < b[i]
  BY <1>1, <1>2 DEF IInv, GapFreeVersions
<1>4. \A q \in DOMAIN all : all[q].key = k =>
        all[q].ver \in DOMAIN b /\ b[all[q].ver] = q
  BY <1>1, <1>2 DEF IInv, GapFreeVersions, IndexInv
<1>5. PICK v : v = all[p].ver
  OBVIOUS
<1>6. v \in 1..Len(b) /\ b[v] = p
  BY <1>0, <1>2, <1>4, <1>5
<1>7. ASSUME NEW q \in DOMAIN all, all[q].key = k, q < p PROVE all[q].ver < v
  <2>1. PICK u : u = all[q].ver
    OBVIOUS
  <2>2. u \in 1..Len(b) /\ b[u] = q
    BY <1>2, <1>4, <1>7, <2>1
  <2>3. q \in Nat /\ p \in Nat
    BY EventType
  <2>4. u # v
    BY <1>6, <1>7, <2>2, <2>3
  <2>5. ASSUME v < u PROVE FALSE
    <3>1. u \in DOMAIN b /\ v \in 1..(u - 1)
      BY <1>2, <1>6, <2>2, <2>5
    <3>2. b[v] < b[u]
      BY <1>3, <3>1
    <3>. QED
      BY <1>6, <1>7, <2>2, <2>3, <3>2
  <2>. QED
    BY <1>2, <1>6, <2>1, <2>2, <2>4, <2>5
<1>. QED
  BY <1>0, <1>2, <1>5, <1>6, <1>7

History == [of : Keys, events : Seq(Nat)]

(* h is a correct answer about the events at the positions P.               *)
Grouped(h, P) ==
  /\ h \in Seq(History)
  /\ \A i \in DOMAIN h :
       /\ h[i].events # <<>>
       /\ InVersionOrder(h[i].events)
       /\ \A j \in DOMAIN h[i].events :
            /\ h[i].events[j] \in P
            /\ all[h[i].events[j]].key = h[i].of
  /\ \A p \in P : \E i \in DOMAIN h : \E j \in DOMAIN h[i].events :
       h[i].events[j] = p
  /\ \A i, j \in DOMAIN h : i < j =>
       h[i].of # h[j].of /\ h[i].events[1] < h[j].events[1]

(* The next event of the subject goes to the end of its stream's history,   *)
(* or begins the last one.                                                  *)
LEMMA AddToGroups ==
  ASSUME IInv, IndexInv, NEW h, NEW P \in SUBSET (DOMAIN all), Grouped(h, P),
         NEW p \in DOMAIN all, p \notin P, \A q \in P : q < p
  PROVE  Grouped(AddTo(h, p), P \cup {p})
<1>0. PICK k, v : k = all[p].key /\ v = all[p].ver
  OBVIOUS
<1>1. /\ k \in Keys /\ p \in Nat /\ v \in Nat /\ v > 0
      /\ \A q \in DOMAIN all : q \in Nat /\ all[q].ver \in Nat
      /\ \A q \in DOMAIN all : all[q].key = k /\ q < p => all[q].ver < v
  BY <1>0, VersionsGrow, EventType
<1>2. PICK n : n = Len(h)
  OBVIOUS
<1>3. /\ h \in Seq(History) /\ n \in Nat /\ DOMAIN h = 1..n
      /\ \A i \in 1..n : h[i] \in History
  BY <1>2, LenProperties, ElementOfSeq DEF Grouped
<1>4. \A i \in 1..n :
        /\ h[i].of \in Keys /\ h[i].events \in Seq(Nat)
        /\ Len(h[i].events) \in Nat /\ Len(h[i].events) > 0
        /\ DOMAIN h[i].events = 1..Len(h[i].events)
  <2>. SUFFICES ASSUME NEW i \in 1..n
                PROVE  /\ h[i].of \in Keys /\ h[i].events \in Seq(Nat)
                       /\ Len(h[i].events) \in Nat /\ Len(h[i].events) > 0
                       /\ DOMAIN h[i].events = 1..Len(h[i].events)
    OBVIOUS
  <2>1. h[i].of \in Keys /\ h[i].events \in Seq(Nat) /\ h[i].events # <<>>
    BY <1>3 DEF History, Grouped
  <2>. QED
    BY <2>1, LenProperties, EmptySeq
<1>5. /\ \A i \in 1..n : \A j \in 1..Len(h[i].events) :
           h[i].events[j] \in P /\ all[h[i].events[j]].key = h[i].of
      /\ \A i \in 1..n : InVersionOrder(h[i].events)
      /\ \A q \in P : \E i \in 1..n : \E j \in 1..Len(h[i].events) :
           h[i].events[j] = q
      /\ \A i, j \in 1..n : i < j =>
           h[i].of # h[j].of /\ h[i].events[1] < h[j].events[1]
  <2>1. ASSUME NEW i \in 1..n, NEW j \in 1..Len(h[i].events)
        PROVE  h[i].events[j] \in P /\ all[h[i].events[j]].key = h[i].of
    <3>1. i \in DOMAIN h /\ j \in DOMAIN h[i].events
      BY <1>3, <1>4
    <3>. QED
      BY <3>1 DEF Grouped
  <2>2. ASSUME NEW q \in P
        PROVE  \E i \in 1..n : \E j \in 1..Len(h[i].events) : h[i].events[j] = q
    <3>1. PICK i \in DOMAIN h : \E j \in DOMAIN h[i].events : h[i].events[j] = q
      BY DEF Grouped
    <3>. QED
      BY <1>3, <1>4, <3>1
  <2>3. \A i, j \in 1..n : i < j =>
          h[i].of # h[j].of /\ h[i].events[1] < h[j].events[1]
    BY <1>3 DEF Grouped
  <2>4. \A i \in 1..n : InVersionOrder(h[i].events)
    BY <1>3 DEF Grouped
  <2>. QED
    BY <2>1, <2>2, <2>3, <2>4
<1>7. PICK own : own = {i \in 1..n : h[i].of = k}
  OBVIOUS
<1>8. AddTo(h, p) = IF own = {} THEN Append(h, [of |-> k, events |-> <<p>>])
                    ELSE [i \in 1..n |->
                            IF i \in own
                            THEN [h[i] EXCEPT !.events = Append(@, p)]
                            ELSE h[i]]
  BY <1>0, <1>3, <1>7 DEF AddTo, GroupOf
<1>9. CASE own = {}
  <2>2. PICK e : e = [of |-> k, events |-> <<p>>]
    OBVIOUS
  <2>3. /\ e \in History /\ e.of = k /\ e.events = <<p>>
        /\ e.events # <<>> /\ DOMAIN e.events = {1} /\ e.events[1] = p
    BY <1>1, <2>2 DEF History
  <2>4. PICK g : g = Append(h, e)
    OBVIOUS
  <2>5. /\ g \in Seq(History) /\ Len(g) = n + 1 /\ DOMAIN g = 1..(n + 1)
        /\ \A i \in 1..n : g[i] = h[i]
        /\ g[n + 1] = e
    BY <1>2, <1>3, <2>3, <2>4, AppendProperties, LenProperties
  <2>6. ASSUME NEW i \in 1..(n + 1)
        PROVE  /\ g[i].events # <<>>
               /\ InVersionOrder(g[i].events)
               /\ \A j \in DOMAIN g[i].events :
                    /\ g[i].events[j] \in P \cup {p}
                    /\ all[g[i].events[j]].key = g[i].of
    <3>1. CASE i = n + 1
      <4>1. InVersionOrder(e.events)
        BY <2>3 DEF InVersionOrder
      <4>. QED
        BY <1>0, <2>3, <2>5, <3>1, <4>1
    <3>2. CASE i # n + 1
      <4>1. i \in 1..n /\ g[i] = h[i]
        BY <1>3, <2>5, <3>2
      <4>2. h[i].events # <<>>
        BY <1>3, <4>1 DEF Grouped
      <4>. QED
        BY <1>4, <1>5, <4>1, <4>2
    <3>. QED
      BY <3>1, <3>2
  <2>7. ASSUME NEW q \in P \cup {p}
        PROVE  \E i \in 1..(n + 1) : \E j \in DOMAIN g[i].events : g[i].events[j] = q
    <3>1. CASE q = p
      <4>1. n + 1 \in 1..(n + 1)
        BY <1>3
      <4>. QED
        BY <2>3, <2>5, <3>1, <4>1
    <3>2. CASE q \in P
      <4>1. PICK i \in 1..n : \E j \in 1..Len(h[i].events) : h[i].events[j] = q
        BY <1>5, <3>2
      <4>2. i \in 1..(n + 1) /\ g[i] = h[i]
        BY <1>3, <2>5, <4>1
      <4>. QED
        BY <1>4, <4>1, <4>2
    <3>. QED
      BY <3>1, <3>2
  <2>8. ASSUME NEW i \in 1..(n + 1), NEW j \in 1..(n + 1), i < j
        PROVE  g[i].of # g[j].of /\ g[i].events[1] < g[j].events[1]
    <3>1. i \in 1..n /\ g[i] = h[i] /\ 1 \in 1..Len(h[i].events)
      BY <1>3, <1>4, <2>5, <2>8
    <3>2. CASE j = n + 1
      <4>1. h[i].events[1] < p
        BY <1>5, <3>1
      <4>2. h[i].of # k
        BY <1>7, <1>9, <3>1
      <4>. QED
        BY <2>3, <2>5, <3>1, <3>2, <4>1, <4>2
    <3>3. CASE j # n + 1
      <4>1. j \in 1..n /\ g[j] = h[j]
        BY <1>3, <2>5, <3>3
      <4>. QED
        BY <1>5, <2>8, <3>1, <4>1
    <3>. QED
      BY <3>2, <3>3
  <2>9. Grouped(g, P \cup {p})
    <3>1. \A i, j \in DOMAIN g : i < j =>
            g[i].of # g[j].of /\ g[i].events[1] < g[j].events[1]
      BY <2>5, <2>8
    <3>2. \A q \in P \cup {p} :
            \E i \in DOMAIN g : \E j \in DOMAIN g[i].events : g[i].events[j] = q
      BY <2>5, <2>7
    <3>3. \A i \in DOMAIN g :
            /\ g[i].events # <<>>
            /\ InVersionOrder(g[i].events)
            /\ \A j \in DOMAIN g[i].events :
                 /\ g[i].events[j] \in P \cup {p}
                 /\ all[g[i].events[j]].key = g[i].of
      BY <2>5, <2>6
    <3>. QED
      BY <2>5, <3>1, <3>2, <3>3 DEF Grouped
  <2>. QED
    BY <1>8, <1>9, <2>2, <2>4, <2>9
<1>10. CASE own # {}
  <2>1. PICK o \in 1..n : h[o].of = k
    BY <1>7, <1>10
  <2>2. own = {o}
    <3>1. \A i \in 1..n : i # o => h[i].of # k
      BY <1>3, <1>5, <2>1
    <3>. QED
      BY <1>7, <2>1, <3>1
  <2>3. PICK b, l : b = h[o].events /\ l = Len(b)
    OBVIOUS
  <2>4. b \in Seq(Nat) /\ l \in Nat /\ l > 0 /\ DOMAIN b = 1..l
    BY <1>4, <2>1, <2>3
  <2>6. PICK c : c = Append(b, p)
    OBVIOUS
  <2>7. /\ c \in Seq(Nat) /\ Len(c) = l + 1 /\ DOMAIN c = 1..(l + 1)
        /\ \A j \in 1..l : c[j] = b[j]
        /\ c[l + 1] = p
    BY <1>1, <2>3, <2>4, <2>6, AppendProperties, LenProperties
  <2>8. PICK e : e = [h[o] EXCEPT !.events = c]
    OBVIOUS
  <2>9. e \in History /\ e.of = k /\ e.events = c
    BY <1>3, <2>1, <2>7, <2>8 DEF History
  <2>10. PICK g : g = [i \in 1..n |-> IF i = o THEN e ELSE h[i]]
    OBVIOUS
  <2>11. AddTo(h, p) = g
    BY <1>8, <1>10, <2>2, <2>3, <2>6, <2>8, <2>10
  <2>12. /\ g \in Seq(History) /\ DOMAIN g = 1..n
         /\ g[o] = e
         /\ \A i \in 1..n : i # o => g[i] = h[i]
    <3>1. g \in [1..n -> History]
      BY <1>3, <2>9, <2>10
    <3>2. g \in Seq(History)
      BY <1>3, <3>1, SeqDef
    <3>. QED
      BY <2>1, <2>10, <3>2
  <2>13. ASSUME NEW i \in 1..n
         PROVE  /\ g[i].events # <<>>
                /\ InVersionOrder(g[i].events)
                /\ \A j \in DOMAIN g[i].events :
                     /\ g[i].events[j] \in P \cup {p}
                     /\ all[g[i].events[j]].key = g[i].of
    <3>1. CASE i = o
      <4>1. c # <<>>
        BY <2>4, <2>7, EmptySeq
      <4>2. ASSUME NEW j \in 1..(l + 1)
            PROVE  c[j] \in P \cup {p} /\ all[c[j]].key = k
        <5>1. CASE j = l + 1
          BY <1>0, <1>1, <2>7, <5>1
        <5>2. CASE j # l + 1
          <6>1. j \in 1..l /\ c[j] = b[j]
            BY <2>4, <2>7, <5>2
          <6>2. j \in 1..Len(h[o].events) /\ b[j] = h[o].events[j]
            BY <2>3, <6>1
          <6>. QED
            BY <1>5, <2>1, <6>1, <6>2
        <5>. QED
          BY <5>1, <5>2
      <4>3. g[i].events = c /\ g[i].of = k /\ DOMAIN g[i].events = 1..(l + 1)
        BY <2>7, <2>9, <2>12, <3>1
      <4>4. ASSUME NEW j \in 1..(l + 1), NEW m \in 1..(j - 1)
            PROVE  all[c[m]].ver < all[c[j]].ver
        <5>3. m \in 1..l
          BY <2>4
        <5>0. m \in 1..l /\ c[m] = b[m] /\ m \in 1..Len(h[o].events)
          BY <2>3, <2>7, <5>3
        <5>1. CASE j = l + 1
          <6>1. b[m] \in P /\ all[b[m]].key = k
            BY <1>5, <2>1, <2>3, <5>0
          <6>2. b[m] \in DOMAIN all /\ b[m] < p
            BY <6>1
          <6>3. c[j] = p /\ all[p].ver = v
            BY <1>0, <2>7, <5>1
          <6>. QED
            BY <1>1, <5>0, <6>1, <6>2, <6>3
        <5>2. CASE j # l + 1
          <6>1. j \in 1..l /\ c[j] = b[j]
            BY <2>4, <2>7, <5>2
          <6>2. InVersionOrder(b)
            BY <1>5, <2>1, <2>3
          <6>. QED
            BY <2>4, <5>0, <6>1, <6>2 DEF InVersionOrder
        <5>. QED
          BY <5>1, <5>2
      <4>5. InVersionOrder(c)
        BY <2>7, <4>4 DEF InVersionOrder
      <4>. QED
        BY <4>1, <4>2, <4>3, <4>5
    <3>2. CASE i # o
      <4>1. g[i] = h[i] /\ h[i].events # <<>>
        BY <1>3, <2>12, <3>2 DEF Grouped
      <4>. QED
        BY <1>4, <1>5, <4>1
    <3>. QED
      BY <3>1, <3>2
  <2>14. ASSUME NEW q \in P \cup {p}
         PROVE  \E i \in 1..n : \E j \in DOMAIN g[i].events : g[i].events[j] = q
    <3>0. g[o].events = c /\ l + 1 \in 1..(l + 1) /\ \A j \in 1..l : j \in 1..(l + 1)
      BY <2>4, <2>9, <2>12
    <3>1. CASE q = p
      BY <2>1, <2>7, <3>0, <3>1
    <3>2. CASE q \in P
      <4>1. PICK i \in 1..n : \E j \in 1..Len(h[i].events) : h[i].events[j] = q
        BY <1>5, <3>2
      <4>2. PICK j \in 1..Len(h[i].events) : h[i].events[j] = q
        BY <4>1
      <4>3. CASE i = o
        <5>1. j \in 1..l /\ c[j] = q
          BY <2>3, <2>7, <4>2, <4>3
        <5>. QED
          BY <2>1, <2>7, <3>0, <5>1
      <4>4. CASE i # o
        BY <1>4, <2>12, <4>2, <4>4
      <4>. QED
        BY <4>3, <4>4
    <3>. QED
      BY <3>1, <3>2
  <2>15. ASSUME NEW i \in 1..n
         PROVE  g[i].of = h[i].of /\ g[i].events[1] = h[i].events[1]
    <3>1. CASE i = o
      <4>1. 1 \in 1..l
        BY <2>4
      <4>. QED
        BY <2>1, <2>3, <2>7, <2>9, <2>12, <3>1, <4>1
    <3>2. CASE i # o
      BY <2>12, <3>2
    <3>. QED
      BY <3>1, <3>2
  <2>16. \A i, j \in 1..n : i < j =>
           g[i].of # g[j].of /\ g[i].events[1] < g[j].events[1]
    BY <1>5, <2>15
  <2>17. Grouped(g, P \cup {p})
    <3>1. \A i \in DOMAIN g :
            /\ g[i].events # <<>>
            /\ InVersionOrder(g[i].events)
            /\ \A j \in DOMAIN g[i].events :
                 /\ g[i].events[j] \in P \cup {p}
                 /\ all[g[i].events[j]].key = g[i].of
      BY <2>12, <2>13
    <3>2. \A q \in P \cup {p} :
            \E i \in DOMAIN g : \E j \in DOMAIN g[i].events : g[i].events[j] = q
      BY <2>12, <2>14
    <3>3. \A i, j \in DOMAIN g : i < j =>
            g[i].of # g[j].of /\ g[i].events[1] < g[j].events[1]
      BY <2>12, <2>16
    <3>. QED
      BY <2>12, <3>1, <3>2, <3>3 DEF Grouped
  <2>. QED
    BY <2>11, <2>17
<1>. QED
  BY <1>9, <1>10

(* AddTo makes histories of histories, grouped correctly or not.            *)
LEMMA AddToType ==
  ASSUME IInv, NEW h \in Seq(History), NEW p \in DOMAIN all
  PROVE  AddTo(h, p) \in Seq(History)
<1>1. /\ all[p].key \in Keys /\ p \in Nat
      /\ Len(h) \in Nat /\ DOMAIN h = 1..Len(h)
      /\ \A i \in DOMAIN h : h[i] \in History
  BY EventType, LenProperties, ElementOfSeq
<1>2. Append(h, [of |-> all[p].key, events |-> <<p>>]) \in Seq(History)
  <2>1. [of |-> all[p].key, events |-> <<p>>] \in History
    BY <1>1 DEF History
  <2>. QED
    BY <2>1, AppendProperties
<1>3. PICK g : g = [i \in DOMAIN h |-> [h[i] EXCEPT !.events = Append(@, p)]]
  OBVIOUS
<1>4. \A i \in DOMAIN h : g[i] \in History
  <2>. SUFFICES ASSUME NEW i \in DOMAIN h PROVE g[i] \in History
    OBVIOUS
  <2>1. h[i].of \in Keys /\ h[i].events \in Seq(Nat)
    BY <1>1 DEF History
  <2>2. Append(h[i].events, p) \in Seq(Nat)
    BY <1>1, <2>1, AppendProperties
  <2>3. g[i] = [of |-> h[i].of, events |-> Append(h[i].events, p)]
    BY <1>1, <1>3 DEF History
  <2>. QED
    BY <2>1, <2>2, <2>3 DEF History
<1>5. ASSUME NEW own
      PROVE  [i \in DOMAIN h |-> IF i \in own THEN g[i] ELSE h[i]] \in Seq(History)
  <2>1. [i \in DOMAIN h |-> IF i \in own THEN g[i] ELSE h[i]]
          \in [1..Len(h) -> History]
    BY <1>1, <1>4
  <2>. QED
    BY <1>1, <2>1, SeqDef
<1>6. PICK own : own = {i \in DOMAIN h : h[i].of = all[p].key}
  OBVIOUS
<1>7. AddTo(h, p) =
        IF own = {} THEN Append(h, [of |-> all[p].key, events |-> <<p>>])
        ELSE [i \in DOMAIN h |-> IF i \in own THEN g[i] ELSE h[i]]
  BY <1>3, <1>6 DEF AddTo, GroupOf
<1>. QED
  BY <1>2, <1>5, <1>7

(* What Export has after each round of its loop is right about the events   *)
(* it has read, so what it returns is right about all that FetchByPiiID     *)
(* found.                                                                   *)
LEMMA ExportGroups ==
  ASSUME IInv, IndexInv, SubjectIndexInv, NEW x \in Subjects, NEW scope
  PROVE  Grouped(Export(x, scope), Items(FetchByPiiID(x, scope)))
<1>0. PICK e : e = FetchByPiiID(x, scope)
  OBVIOUS
<1>1. PICK n : n = Len(e)
  OBVIOUS
<1>2. PICK Found : Found = {p \in DOMAIN all :
                              piiID[p] = x /\ Shown(p, scope)}
  OBVIOUS
<1>3. /\ e \in Seq(Nat) /\ n \in Nat /\ DOMAIN e = 1..n
      /\ Increasing(e) /\ Items(e) = Found
      /\ \A m \in 1..n : e[m] \in Found
  <2>1. e \in Seq(Nat) /\ Increasing(e) /\ Items(e) = Found
    BY <1>0, <1>2, FetchIsWhole
  <2>2. n \in Nat /\ DOMAIN e = 1..n
    BY <1>1, <2>1, LenProperties
  <2>. QED
    BY <2>1, <2>2 DEF Items
<1>4. Found \subseteq DOMAIN all /\ Found \subseteq Nat
  BY <1>2, EventType
<1>. DEFINE Body(f, m) == IF m = 0 THEN <<>> ELSE AddTo(f[m - 1], e[m])
<1>5. \E f : f = [m \in 0..n |-> Body(f, m)]
  <2>0. PICK F : F = [r \in Seq(History) \X (1..n) |-> AddTo(r[1], e[r[2]])]
    OBVIOUS
  <2>1. F \in [Seq(History) \X (1..n) -> Seq(History)]
    <3>1. \A r \in Seq(History) \X (1..n) :
            r[1] \in Seq(History) /\ e[r[2]] \in DOMAIN all
      BY <1>3, <1>4
    <3>2. \A r \in Seq(History) \X (1..n) : AddTo(r[1], e[r[2]]) \in Seq(History)
      BY <3>1, AddToType
    <3>. QED
      BY <2>0, <3>2
  <2>2. \A h \in Seq(History), m \in 1..n : F[<<h, m>>] = AddTo(h, e[m])
    BY <2>0
  <2>3. <<>> \in Seq(History)
    OBVIOUS
  <2>4. \E f \in [0..n -> Seq(History)] : IsLoop(f, n, <<>>, F)
    BY <1>3, <2>1, <2>3, LoopExists
  <2>5. PICK f \in [0..n -> Seq(History)] :
          f = [m \in 0..n |-> IF m = 0 THEN <<>> ELSE F[<<f[m - 1], m>>]]
    BY <2>4 DEF IsLoop
  <2>6. \A m \in 0..n : f[m] = Body(f, m)
    <3>. SUFFICES ASSUME NEW m \in 0..n PROVE f[m] = Body(f, m)
      OBVIOUS
    <3>1. CASE m = 0
      BY <2>5, <3>1
    <3>2. CASE m # 0
      <4>1. m \in 1..n /\ m - 1 \in 0..n
        BY <1>3, <3>2
      <4>2. f[m - 1] \in Seq(History)
        BY <2>5, <4>1
      <4>. QED
        BY <2>2, <2>5, <3>2, <4>1, <4>2
    <3>. QED
      BY <3>1, <3>2
  <2>. QED
    BY <2>5, <2>6
<1>6. PICK after : /\ after = [m \in 0..n |-> Body(after, m)]
                   /\ Export(x, scope) = after[n]
  <2>1. PICK after : after = CHOOSE f : f = [m \in 0..n |-> Body(f, m)]
    OBVIOUS
  <2>2. after = [m \in 0..n |-> Body(after, m)]
    BY <1>5, <2>1
  <2>3. Export(x, scope) = after[n]
    BY <1>0, <1>1, <2>1 DEF Export
  <2>. QED
    BY <2>2, <2>3
<1>7. /\ after[0] = <<>>
      /\ \A m \in 0..n : m > 0 => after[m] = AddTo(after[m - 1], e[m])
  <2>1. \A m \in 0..n : after[m] = Body(after, m)
    BY <1>6
  <2>2. 0 \in 0..n /\ \A m \in 0..n : m > 0 => m # 0
    BY <1>3
  <2>. QED
    BY <2>1, <2>2
<1>. DEFINE Read(m) == {e[i] : i \in 1..m}
            Good == {m \in 0..n : Grouped(after[m], Read(m))}
<1>8. 0 \in Good
  <2>1. <<>> \in Seq(History) /\ DOMAIN <<>> = {} /\ Read(0) = {} /\ 0 \in 0..n
    BY <1>3
  <2>. HIDE DEF Read
  <2>2. Grouped(<<>>, Read(0))
    BY <2>1 DEF Grouped
  <2>. QED
    BY <1>7, <2>1, <2>2
<1>9. ASSUME NEW m \in 0..n, m > 0, m - 1 \in Good PROVE m \in Good
  <2>1. Grouped(after[m - 1], Read(m - 1))
    BY <1>9
  <2>2. m \in 1..n /\ e[m] \in Found /\ 1..m = 1..(m - 1) \cup {m}
        /\ 1..(m - 1) \subseteq 1..n
    BY <1>3, <1>9
  <2>3. Read(m) = Read(m - 1) \cup {e[m]} /\ Read(m - 1) \subseteq DOMAIN all
    BY <1>3, <1>4, <2>2
  <2>4. \A q \in Read(m - 1) : q < e[m]
    BY <1>3, <2>2 DEF Increasing
  <2>5. e[m] \notin Read(m - 1) /\ e[m] \in DOMAIN all
    <3>1. e[m] \in Nat /\ e[m] \in DOMAIN all
      BY <1>4, <2>2
    <3>2. ~(e[m] < e[m])
      BY <3>1
    <3>. HIDE DEF Read
    <3>. QED
      BY <2>4, <3>1, <3>2
  <2>. HIDE DEF Read
  <2>7. Grouped(AddTo(after[m - 1], e[m]), Read(m - 1) \cup {e[m]})
    BY <2>1, <2>3, <2>4, <2>5, AddToGroups
  <2>. QED
    BY <1>7, <1>9, <2>3, <2>7
<1>10. n \in Good
  <2>. HIDE DEF Good
  <2>1. \A m \in 0..n : m > 0 /\ m - 1 \in Good => m \in Good
    BY <1>9
  <2>2. \A m \in 0..n : m \in Good
    BY <1>3, <1>8, <2>1, EveryRound
  <2>. QED
    BY <1>3, <2>2
<1>11. Read(n) = Items(e)
  BY <1>3 DEF Items
<1>. QED
  BY <1>0, <1>6, <1>10, <1>11

(* "everything the log holds about this one PiiID": at whatever moment an   *)
(* export runs beside any number of writers, under every scope, it holds    *)
(* the events the scope shows that carry the subject's PiiID and no others, *)
(* one history for each stream, its events in version order, the histories  *)
(* by their first events; whichever commands record with a PiiID and which  *)
(* without.                                                                 *)
THEOREM ExportHoldsEverything == Spec => []ExportIsWhole
<1>1. ASSUME IInv, IndexInv, SubjectIndexInv PROVE ExportIsWhole
  <2>. SUFFICES ASSUME NEW x \in Subjects, NEW scope \in Tenants \cup {Everything}
                PROVE
         LET histories == Export(x, scope)
             InScope(p) == scope = Everything \/ all[p].key[1] \in {scope, Global}
             Exported(p) == \E i \in DOMAIN histories :
                              \E j \in DOMAIN histories[i].events :
                                histories[i].events[j] = p
         IN  /\ \A p \in DOMAIN all :
                  Exported(p) <=> piiID[p] = x /\ InScope(p)
             /\ \A i \in DOMAIN histories :
                  /\ InVersionOrder(histories[i].events)
                  /\ \A j \in DOMAIN histories[i].events :
                       all[histories[i].events[j]].key = histories[i].of
             /\ \A i, j \in DOMAIN histories : i < j =>
                  /\ histories[i].of # histories[j].of
                  /\ histories[i].events[1] < histories[j].events[1]
    BY DEF ExportIsWhole
  <2>1. PICK h : h = Export(x, scope)
    OBVIOUS
  <2>2. PICK P : P = {p \in DOMAIN all :
                        piiID[p] = x /\ Shown(p, scope)}
    OBVIOUS
  <2>3. Grouped(h, P)
    <3>1. Items(FetchByPiiID(x, scope)) = P
      BY <1>1, <2>2, FetchIsWhole
    <3>2. Grouped(Export(x, scope), Items(FetchByPiiID(x, scope)))
      BY <1>1, ExportGroups
    <3>. QED
      BY <2>1, <3>1, <3>2
  <2>4. \A p \in DOMAIN all :
          (\E i \in DOMAIN h : \E j \in DOMAIN h[i].events : h[i].events[j] = p)
             <=> p \in P
    BY <2>3 DEF Grouped
  <2>5. \A i \in DOMAIN h :
          /\ InVersionOrder(h[i].events)
          /\ \A j \in DOMAIN h[i].events : all[h[i].events[j]].key = h[i].of
    BY <2>3 DEF Grouped
  <2>6. \A i, j \in DOMAIN h : i < j =>
          h[i].of # h[j].of /\ h[i].events[1] < h[j].events[1]
    BY <2>3 DEF Grouped
  <2>. QED
    BY <2>1, <2>2, <2>4, <2>5, <2>6 DEF Shown
<1>. QED
  BY <1>1, Invariance, AckInvariance, SubjectIndexInvariance, PTL

=============================================================================
