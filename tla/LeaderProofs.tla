----------------------------- MODULE LeaderProofs -----------------------------
(***************************************************************************)
(* Theorems about Leader, for any replicas and pools and any number of      *)
(* events, crashes, cut connections, refused statements and resignations.   *)
(***************************************************************************)
EXTENDS Leader, FiniteSetTheorems, TLAPS

-----------------------------------------------------------------------------
(* The inductive invariant.                                                 *)

(* The connection a replica campaigns or leads with is out of its pool.     *)
OwnInv ==
  \A r \in Replicas : pc[r] # "follower" =>
    /\ conn[r] \in Connections
    /\ PoolOf[conn[r]] = r
    /\ slot[conn[r]] = "pinned"

(* The server gives the lock to one session.                                *)
ServerInv ==
  \A c, d \in Connections : held[c] > 0 /\ held[d] > 0 => c = d

(* A leader whose connection works has the lock.                            *)
HolderInv == \A r \in Replicas : Connected(r) => held[conn[r]] > 0

(* Only a leader is at work.                                                *)
JobInv == \A r \in Replicas : pc[r] # "leader" => job[r] = "start"

IInv ==
  /\ TypeOK
  /\ OwnInv
  /\ ServerInv
  /\ HolderInv
  /\ JobInv
  /\ NothingIsSkipped

-----------------------------------------------------------------------------
LEMMA InitInv == Init => IInv
BY LeaderAssumption DEF Init, IInv, TypeOK, OwnInv, ServerInv, HolderInv, JobInv,
   NothingIsSkipped, Connected, Bound

(* What is spent stays within its bound.                                    *)
LEMMA SpendType ==
  ASSUME TypeOK, NEW kind \in DOMAIN Bound, Spend(kind)
  PROVE  /\ spent' \in [DOMAIN Bound -> Nat]
         /\ \A k \in DOMAIN Bound : spent'[k] <= Bound[k]
         /\ refused \in 0..spent'.refusals
<1>1. Bound[kind] \in Nat /\ spent[kind] \in Nat
  BY LeaderAssumption DEF TypeOK, Bound
<1>2. /\ spent' \in [DOMAIN Bound -> Nat]
      /\ \A k \in DOMAIN Bound : spent'[k] <= Bound[k]
  BY <1>1 DEF Spend, TypeOK
<1>3. refused \in 0..spent'.refusals
  <2>1. spent.refusals \in Nat /\ spent'.refusals \in {spent.refusals, spent.refusals + 1}
    BY DEF Spend, TypeOK, Bound
  <2> QED BY <2>1 DEF TypeOK
<1> QED BY <1>2, <1>3

LEMMA StepsDownType ==
  ASSUME TypeOK, NEW r \in Replicas, StepsDown(r), log' = log
  PROVE  /\ conn' \in [Replicas -> Connections \cup {NoConnection}]
         /\ pc' \in [Replicas -> {"follower", "trying", "leader"}]
         /\ job' \in [Replicas -> {"start", "polling", "handling"}]
         /\ cursor' \in [Replicas -> 0..log']
         /\ upto' \in [Replicas -> 0..log']
<1>1. 0 \in 0..log
  BY DEF TypeOK
<1> QED BY <1>1 DEF TypeOK, StepsDown

(* A connection is given back to the pool or discarded.                     *)
LEMMA ReturnedType ==
  ASSUME TypeOK, NEW c \in Connections
  PROVE  Returned(c) \in [Connections -> {"closed", "pooled", "pinned"}]
BY DEF TypeOK, Returned

LEMMA TakeConnectionInv ==
  ASSUME IInv, NEW r \in Replicas, TakeConnection(r)
  PROVE  IInv'
<1> USE LeaderAssumption
    DEF IInv, TakeConnection, Pooled, Openable, lockVars, faultVars, workVars
<1>1. TypeOK'
  BY DEF TypeOK
<1>2. OwnInv'
  BY DEF TypeOK, OwnInv
<1>3. ServerInv'
  BY DEF TypeOK, ServerInv
<1>4. HolderInv'
  BY DEF TypeOK, OwnInv, HolderInv, Connected
<1>5. JobInv'
  BY DEF TypeOK, JobInv
<1>6. NothingIsSkipped'
  BY DEF TypeOK, JobInv, NothingIsSkipped
<1> QED BY <1>1, <1>2, <1>3, <1>4, <1>5, <1>6

LEMMA BecomeLeaderInv ==
  ASSUME IInv, NEW r \in Replicas, BecomeLeader(r)
  PROVE  IInv'
<1> USE LeaderAssumption
    DEF IInv, BecomeLeader, Pinned, Grantable, lockVars, faultVars, workVars
<1>1. TypeOK'
  <2>1. conn[r] \in Connections
    BY DEF OwnInv
  <2>2. held' \in [Connections -> Nat]
    BY <2>1 DEF TypeOK
  <2> QED BY <2>2 DEF TypeOK
<1>2. OwnInv'
  BY DEF TypeOK, OwnInv
<1>3. ServerInv'
  BY DEF TypeOK, ServerInv
<1>4. HolderInv'
  BY DEF TypeOK, OwnInv, HolderInv, Connected
<1>5. JobInv'
  BY DEF TypeOK, JobInv
<1>6. NothingIsSkipped'
  BY DEF TypeOK, JobInv, NothingIsSkipped
<1> QED BY <1>1, <1>2, <1>3, <1>4, <1>5, <1>6

LEMMA StayFollowerInv ==
  ASSUME IInv, NEW r \in Replicas, StayFollower(r)
  PROVE  IInv'
<1> USE LeaderAssumption
    DEF IInv, StayFollower, GivenBack, Returned, StepsDown, lockVars, faultVars, workVars
<1>1. TypeOK'
  <2>1. conn[r] \in Connections
    BY DEF OwnInv
  <2>2. slot' \in [Connections -> {"closed", "pooled", "pinned"}]
    BY <2>1, ReturnedType DEF TypeOK
  <2> QED BY <2>2, StepsDownType DEF TypeOK
<1>2. OwnInv'
  BY DEF TypeOK, OwnInv
<1>3. ServerInv'
  BY DEF TypeOK, ServerInv
<1>4. HolderInv'
  BY DEF TypeOK, OwnInv, HolderInv, Connected
<1>5. JobInv'
  BY DEF TypeOK, JobInv
<1>6. NothingIsSkipped'
  BY DEF TypeOK, JobInv, NothingIsSkipped
<1> QED BY <1>1, <1>2, <1>3, <1>4, <1>5, <1>6

LEMMA TryFailsInv ==
  ASSUME IInv, NEW r \in Replicas, TryFails(r)
  PROVE  IInv'
<1> USE LeaderAssumption
    DEF IInv, TryFails, Returned, StepsDown, lockVars, faultVars, workVars
<1>1. TypeOK'
  <2>1. conn[r] \in Connections
    BY DEF OwnInv
  <2>2. slot' \in [Connections -> {"closed", "pooled", "pinned"}]
    BY <2>1, ReturnedType DEF TypeOK
  <2>3. /\ spent' \in [DOMAIN Bound -> Nat]
        /\ \A k \in DOMAIN Bound : spent'[k] <= Bound[k]
        /\ refused \in 0..spent'.refusals
    BY SpendType DEF Bound, TypeOK
  <2> QED BY <2>2, <2>3, StepsDownType DEF TypeOK
<1>2. OwnInv'
  BY DEF TypeOK, OwnInv
<1>3. ServerInv'
  BY DEF TypeOK, ServerInv
<1>4. HolderInv'
  BY DEF TypeOK, OwnInv, HolderInv, Connected
<1>5. JobInv'
  BY DEF TypeOK, JobInv
<1>6. NothingIsSkipped'
  BY DEF TypeOK, JobInv, NothingIsSkipped
<1> QED BY <1>1, <1>2, <1>3, <1>4, <1>5, <1>6

LEMMA GrantIsLostInv ==
  ASSUME IInv, NEW r \in Replicas, GrantIsLost(r)
  PROVE  IInv'
<1> USE LeaderAssumption
    DEF IInv, GrantIsLost, Grantable, StepsDown, lockVars, faultVars, workVars
<1>1. TypeOK'
  <2>1. conn[r] \in Connections
    BY DEF OwnInv
  <2>2. slot' \in [Connections -> {"closed", "pooled", "pinned"}]
    BY <2>1, ReturnedType DEF TypeOK
  <2>3. /\ spent' \in [DOMAIN Bound -> Nat]
        /\ \A k \in DOMAIN Bound : spent'[k] <= Bound[k]
        /\ refused \in 0..spent'.refusals
    BY SpendType DEF Bound, TypeOK
  <2>4. held' \in [Connections -> Nat]
    BY <2>1 DEF TypeOK
  <2>5. cut' \subseteq Connections
    BY <2>1 DEF TypeOK
  <2> QED BY <2>2, <2>3, <2>4, <2>5, StepsDownType DEF TypeOK
<1>2. OwnInv'
  BY DEF TypeOK, OwnInv
<1>3. ServerInv'
  BY DEF TypeOK, ServerInv
<1>4. HolderInv'
  BY DEF TypeOK, OwnInv, HolderInv, Connected
<1>5. JobInv'
  BY DEF TypeOK, JobInv
<1>6. NothingIsSkipped'
  BY DEF TypeOK, JobInv, NothingIsSkipped
<1> QED BY <1>1, <1>2, <1>3, <1>4, <1>5, <1>6

LEMMA ReleaseInv ==
  ASSUME IInv, NEW r \in Replicas, Release(r)
  PROVE  IInv'
<1> USE LeaderAssumption
    DEF IInv, Release, Unlocked, Returned, StepsDown, lockVars, faultVars, workVars
<1>1. TypeOK'
  <2>1. conn[r] \in Connections
    BY DEF OwnInv
  <2>2. slot' \in [Connections -> {"closed", "pooled", "pinned"}]
    BY <2>1, ReturnedType DEF TypeOK
  <2>3. /\ spent' \in [DOMAIN Bound -> Nat]
        /\ \A k \in DOMAIN Bound : spent'[k] <= Bound[k]
        /\ refused \in 0..spent'.refusals
    BY SpendType DEF Bound, TypeOK
  <2>4. held' \in [Connections -> Nat]
    BY <2>1 DEF TypeOK, HolderInv, Connected
  <2> QED BY <2>2, <2>3, <2>4, StepsDownType DEF TypeOK
<1>2. OwnInv'
  BY DEF TypeOK, OwnInv
<1>3. ServerInv'
  BY DEF TypeOK, ServerInv
<1>4. HolderInv'
  BY DEF TypeOK, OwnInv, HolderInv, Connected
<1>5. JobInv'
  BY DEF TypeOK, JobInv
<1>6. NothingIsSkipped'
  BY DEF TypeOK, JobInv, NothingIsSkipped
<1> QED BY <1>1, <1>2, <1>3, <1>4, <1>5, <1>6

LEMMA ReleaseFindsItCutInv ==
  ASSUME IInv, NEW r \in Replicas, ReleaseFindsItCut(r)
  PROVE  IInv'
<1> USE LeaderAssumption
    DEF IInv, ReleaseFindsItCut, Returned, StepsDown, lockVars, faultVars, workVars
<1>1. TypeOK'
  <2>1. conn[r] \in Connections
    BY DEF OwnInv
  <2>2. slot' \in [Connections -> {"closed", "pooled", "pinned"}]
    BY <2>1, ReturnedType DEF TypeOK
  <2>3. /\ spent' \in [DOMAIN Bound -> Nat]
        /\ \A k \in DOMAIN Bound : spent'[k] <= Bound[k]
        /\ refused \in 0..spent'.refusals
    BY SpendType DEF Bound, TypeOK
  <2> QED BY <2>2, <2>3, StepsDownType DEF TypeOK
<1>2. OwnInv'
  BY DEF TypeOK, OwnInv
<1>3. ServerInv'
  BY DEF TypeOK, ServerInv
<1>4. HolderInv'
  BY DEF TypeOK, OwnInv, HolderInv, Connected
<1>5. JobInv'
  BY DEF TypeOK, JobInv
<1>6. NothingIsSkipped'
  BY DEF TypeOK, JobInv, NothingIsSkipped
<1> QED BY <1>1, <1>2, <1>3, <1>4, <1>5, <1>6

LEMMA ReleaseIsRefusedInv ==
  ASSUME IInv, NEW r \in Replicas, ReleaseIsRefused(r)
  PROVE  IInv'
<1> USE LeaderAssumption
    DEF IInv, ReleaseIsRefused, Returned, StepsDown, lockVars, faultVars, workVars
<1>1. TypeOK'
  <2>1. conn[r] \in Connections
    BY DEF OwnInv
  <2>2. slot' \in [Connections -> {"closed", "pooled", "pinned"}]
    BY <2>1, ReturnedType DEF TypeOK
  <2>3. /\ spent' \in [DOMAIN Bound -> Nat]
        /\ \A k \in DOMAIN Bound : spent'[k] <= Bound[k]
        /\ refused \in 0..spent'.refusals
    BY SpendType DEF Bound, TypeOK
  <2>4. refused' \in 0..spent'.refusals
    BY DEF TypeOK, Spend, Bound
  <2> QED BY <2>2, <2>3, <2>4, StepsDownType DEF TypeOK
<1>2. OwnInv'
  BY DEF TypeOK, OwnInv
<1>3. ServerInv'
  BY DEF TypeOK, ServerInv
<1>4. HolderInv'
  BY DEF TypeOK, OwnInv, HolderInv, Connected
<1>5. JobInv'
  BY DEF TypeOK, JobInv
<1>6. NothingIsSkipped'
  BY DEF TypeOK, JobInv, NothingIsSkipped
<1> QED BY <1>1, <1>2, <1>3, <1>4, <1>5, <1>6

LEMMA PoolClosesInv ==
  ASSUME IInv, NEW c \in Connections, PoolCloses(c)
  PROVE  IInv'
<1> USE LeaderAssumption
    DEF IInv, PoolCloses, lockVars, faultVars, workVars
<1>1. TypeOK'
  BY DEF TypeOK
<1>2. OwnInv'
  BY DEF TypeOK, OwnInv
<1>3. ServerInv'
  BY DEF TypeOK, ServerInv
<1>4. HolderInv'
  BY DEF TypeOK, OwnInv, HolderInv, Connected
<1>5. JobInv'
  BY DEF TypeOK, JobInv
<1>6. NothingIsSkipped'
  BY DEF TypeOK, JobInv, NothingIsSkipped
<1> QED BY <1>1, <1>2, <1>3, <1>4, <1>5, <1>6

LEMMA LoseConnectionInv ==
  ASSUME IInv, NEW c \in Connections, LoseConnection(c)
  PROVE  IInv'
<1> USE LeaderAssumption
    DEF IInv, LoseConnection, lockVars, faultVars, workVars
<1>1. TypeOK'
  <2>1. /\ spent' \in [DOMAIN Bound -> Nat]
        /\ \A k \in DOMAIN Bound : spent'[k] <= Bound[k]
        /\ refused \in 0..spent'.refusals
    BY SpendType DEF Bound, TypeOK
  <2> QED BY <2>1 DEF TypeOK
<1>2. OwnInv'
  BY DEF TypeOK, OwnInv
<1>3. ServerInv'
  BY DEF TypeOK, ServerInv
<1>4. HolderInv'
  BY DEF TypeOK, OwnInv, HolderInv, Connected
<1>5. JobInv'
  BY DEF TypeOK, JobInv
<1>6. NothingIsSkipped'
  BY DEF TypeOK, JobInv, NothingIsSkipped
<1> QED BY <1>1, <1>2, <1>3, <1>4, <1>5, <1>6

LEMMA ReapInv ==
  ASSUME IInv, NEW c \in Connections, Reap(c)
  PROVE  IInv'
<1> USE LeaderAssumption
    DEF IInv, Reap, lockVars, faultVars, workVars
<1>1. TypeOK'
  BY DEF TypeOK
<1>2. OwnInv'
  BY DEF TypeOK, OwnInv
<1>3. ServerInv'
  BY DEF TypeOK, ServerInv
<1>4. HolderInv'
  BY DEF TypeOK, OwnInv, HolderInv, Connected
<1>5. JobInv'
  BY DEF TypeOK, JobInv
<1>6. NothingIsSkipped'
  BY DEF TypeOK, JobInv, NothingIsSkipped
<1> QED BY <1>1, <1>2, <1>3, <1>4, <1>5, <1>6

LEMMA CrashInv ==
  ASSUME IInv, NEW r \in Replicas, Crash(r)
  PROVE  IInv'
<1> USE LeaderAssumption
    DEF IInv, Crash, StepsDown, lockVars, faultVars, workVars
<1>1. TypeOK'
  <2>1. slot' \in [Connections -> {"closed", "pooled", "pinned"}]
    BY DEF TypeOK
  <2>2. /\ spent' \in [DOMAIN Bound -> Nat]
        /\ \A k \in DOMAIN Bound : spent'[k] <= Bound[k]
        /\ refused \in 0..spent'.refusals
    BY SpendType DEF Bound, TypeOK
  <2>3. cut' \subseteq Connections
    BY DEF TypeOK
  <2> QED BY <2>1, <2>2, <2>3, StepsDownType DEF TypeOK
<1>2. OwnInv'
  BY DEF TypeOK, OwnInv
<1>3. ServerInv'
  BY DEF TypeOK, ServerInv
<1>4. HolderInv'
  BY DEF TypeOK, OwnInv, HolderInv, Connected
<1>5. JobInv'
  BY DEF TypeOK, JobInv
<1>6. NothingIsSkipped'
  BY DEF TypeOK, JobInv, NothingIsSkipped
<1> QED BY <1>1, <1>2, <1>3, <1>4, <1>5, <1>6

LEMMA GetCheckpointInv ==
  ASSUME IInv, NEW r \in Replicas, GetCheckpoint(r)
  PROVE  IInv'
<1> USE LeaderAssumption
    DEF IInv, GetCheckpoint, ResumeFrom, lockVars, faultVars, workVars
<1>1. TypeOK'
  BY DEF TypeOK
<1>2. OwnInv'
  BY DEF TypeOK, OwnInv
<1>3. ServerInv'
  BY DEF TypeOK, ServerInv
<1>4. HolderInv'
  BY DEF TypeOK, OwnInv, HolderInv, Connected
<1>5. JobInv'
  BY DEF TypeOK, JobInv
<1>6. NothingIsSkipped'
  BY DEF TypeOK, JobInv, NothingIsSkipped
<1> QED BY <1>1, <1>2, <1>3, <1>4, <1>5, <1>6

LEMMA FetchInv ==
  ASSUME IInv, NEW r \in Replicas, Fetch(r)
  PROVE  IInv'
<1> USE LeaderAssumption
    DEF IInv, Fetch, lockVars, faultVars, workVars
<1>1. TypeOK'
  BY DEF TypeOK
<1>2. OwnInv'
  BY DEF TypeOK, OwnInv
<1>3. ServerInv'
  BY DEF TypeOK, ServerInv
<1>4. HolderInv'
  BY DEF TypeOK, OwnInv, HolderInv, Connected
<1>5. JobInv'
  BY DEF TypeOK, JobInv
<1>6. NothingIsSkipped'
  BY DEF TypeOK, JobInv, NothingIsSkipped
<1> QED BY <1>1, <1>2, <1>3, <1>4, <1>5, <1>6

LEMMA HandleInv ==
  ASSUME IInv, NEW r \in Replicas, Handle(r)
  PROVE  IInv'
<1> USE LeaderAssumption
    DEF IInv, Handle, lockVars, faultVars, workVars
<1>1. TypeOK'
  <2>1. cursor[r] + 1 \in 1..log
    BY DEF TypeOK
  <2>2. cursor' \in [Replicas -> 0..log]
    BY <2>1 DEF TypeOK
  <2>3. handled' \subseteq 1..log
    BY <2>1 DEF TypeOK
  <2> QED BY <2>2, <2>3 DEF TypeOK
<1>2. OwnInv'
  BY DEF TypeOK, OwnInv
<1>3. ServerInv'
  BY DEF TypeOK, ServerInv
<1>4. HolderInv'
  BY DEF TypeOK, OwnInv, HolderInv, Connected
<1>5. JobInv'
  BY DEF TypeOK, JobInv
<1>6. NothingIsSkipped'
  <2>1. 1..checkpoint \subseteq handled'
    BY DEF NothingIsSkipped
  <2>2. ASSUME NEW q \in Replicas, pc[q] = "leader", job[q] # "start"
        PROVE  1..cursor'[q] \subseteq handled'
    <3>1. 1..cursor[q] \subseteq handled
      BY <2>2 DEF NothingIsSkipped
    <3>2. cursor[q] \in Nat
      BY DEF TypeOK
    <3>3. CASE q = r
      <4>1. cursor'[q] = cursor[q] + 1
        BY <3>3 DEF TypeOK
      <4>2. 1..cursor'[q] \subseteq 1..cursor[q] \cup {cursor[q] + 1}
        BY <3>2, <4>1
      <4> QED BY <3>1, <3>3, <4>2
    <3>4. CASE q # r
      BY <3>1, <3>4 DEF TypeOK
    <3> QED BY <3>3, <3>4
  <2>3. pc' = pc /\ checkpoint' = checkpoint
        /\ \A q \in Replicas : job'[q] = job[q]
    OBVIOUS
  <2> QED BY <2>1, <2>2, <2>3 DEF NothingIsSkipped
<1> QED BY <1>1, <1>2, <1>3, <1>4, <1>5, <1>6

LEMMA SaveCheckpointInv ==
  ASSUME IInv, NEW r \in Replicas, SaveCheckpoint(r)
  PROVE  IInv'
<1> USE LeaderAssumption
    DEF IInv, SaveCheckpoint, LastFetched, lockVars, faultVars, workVars
<1>1. TypeOK'
  BY DEF TypeOK
<1>2. OwnInv'
  BY DEF TypeOK, OwnInv
<1>3. ServerInv'
  BY DEF TypeOK, ServerInv
<1>4. HolderInv'
  BY DEF TypeOK, OwnInv, HolderInv, Connected
<1>5. JobInv'
  BY DEF TypeOK, JobInv
<1>6. NothingIsSkipped'
  BY DEF TypeOK, JobInv, NothingIsSkipped
<1> QED BY <1>1, <1>2, <1>3, <1>4, <1>5, <1>6

LEMMA CommitInv ==
  ASSUME IInv, Commit
  PROVE  IInv'
<1> USE LeaderAssumption
    DEF IInv, Commit, lockVars, faultVars, workVars
<1>1. TypeOK'
  BY DEF TypeOK
<1>2. OwnInv'
  BY DEF TypeOK, OwnInv
<1>3. ServerInv'
  BY DEF TypeOK, ServerInv
<1>4. HolderInv'
  BY DEF TypeOK, OwnInv, HolderInv, Connected
<1>5. JobInv'
  BY DEF TypeOK, JobInv
<1>6. NothingIsSkipped'
  BY DEF TypeOK, JobInv, NothingIsSkipped
<1> QED BY <1>1, <1>2, <1>3, <1>4, <1>5, <1>6

-----------------------------------------------------------------------------
LEMMA NextInv == IInv /\ [Next]_vars => IInv'
<1> SUFFICES ASSUME IInv, [Next]_vars
             PROVE  IInv'
  OBVIOUS
<1>1. CASE UNCHANGED vars
  BY <1>1 DEF vars, lockVars, faultVars, workVars, IInv, TypeOK, OwnInv, ServerInv,
              HolderInv, JobInv, NothingIsSkipped, Connected
<1>2. CASE Commit
  BY <1>2, CommitInv
<1>3. ASSUME NEW r \in Replicas, Campaign(r)
      PROVE  IInv'
  BY <1>3, TakeConnectionInv, BecomeLeaderInv, StayFollowerInv, TryFailsInv
     DEF Campaign
<1>4. ASSUME NEW r \in Replicas, Work(r)
      PROVE  IInv'
  BY <1>4, GetCheckpointInv, FetchInv, HandleInv, SaveCheckpointInv DEF Work
<1>5. ASSUME NEW r \in Replicas,
             \/ GrantIsLost(r)
             \/ Release(r)
             \/ ReleaseFindsItCut(r)
             \/ ReleaseIsRefused(r)
             \/ Crash(r)
      PROVE  IInv'
  BY <1>5, GrantIsLostInv, ReleaseInv, ReleaseFindsItCutInv, ReleaseIsRefusedInv,
     CrashInv
<1>6. ASSUME NEW c \in Connections, PoolCloses(c) \/ LoseConnection(c) \/ Reap(c)
      PROVE  IInv'
  BY <1>6, PoolClosesInv, LoseConnectionInv, ReapInv
<1> QED BY <1>1, <1>2, <1>3, <1>4, <1>5, <1>6 DEF Next

-----------------------------------------------------------------------------
(* The theorems.                                                            *)

LEMMA Inductive == Spec => []IInv
<1>1. Init => IInv
  BY InitInv
<1>2. IInv /\ [Next]_vars => IInv'
  BY NextInv
<1> QED BY <1>1, <1>2, PTL DEF Spec

(* TryAcquire, Release and the worker keep every variable in its type.      *)
THEOREM TypeCorrect == Spec => []TypeOK
<1>1. IInv => TypeOK
  BY DEF IInv
<1> QED BY <1>1, Inductive, PTL

(* However connections are cut, answers lost, unlocks refused and replicas  *)
(* killed, a leader whose connection works has the lock, and it is the only *)
(* one (es/pgstore/advisory_lock.go).                                       *)
THEOREM MutualExclusion == Spec => []OneConnectedLeader
<1>1. IInv => OneConnectedLeader
  BY DEF IInv, TypeOK, OwnInv, ServerInv, HolderInv, OneConnectedLeader, Connected
<1> QED BY <1>1, Inductive, PTL

(* No event below the checkpoint (es/store.go, Checkpointer) is missing     *)
(* from the read model, whoever led when.                                   *)
THEOREM ResumesWithoutAHole == Spec => []NothingIsSkipped
<1>1. IInv => NothingIsSkipped
  BY DEF IInv
<1> QED BY <1>1, Inductive, PTL

-----------------------------------------------------------------------------
(* Strays and checkpoints.                                                  *)

LeadsWith(r, c) == pc[r] = "leader" /\ conn[r] = c

(* A working session holds the lock once more than unlocks of it were       *)
(* refused only while its leader is in office.                              *)
StrandInv ==
  \A c \in Connections :
    /\ held[c] <= 1 + refused
    /\ c \notin cut /\ held[c] > refused => \E r \in Replicas : LeadsWith(r, c)

(* As long as no connection was cut under its replica, the one leader is at *)
(* or beyond the checkpoint.                                                *)
ResumeInv ==
  /\ \A r \in Replicas : job[r] = "handling" => cursor[r] <= upto[r]
  /\ spent.losses = 0 =>
       /\ \A c \in cut : slot[c] = "closed"
       /\ \A r \in Replicas : job[r] # "start" => checkpoint <= cursor[r]

LEMMA InitMoreInv == Init => StrandInv /\ ResumeInv
BY DEF Init, StrandInv, ResumeInv

(* What the proofs below need of the types.                                 *)
LEMMA NumberTypes ==
  ASSUME TypeOK
  PROVE  /\ \A c \in Connections : held[c] \in Nat
         /\ refused \in Nat /\ checkpoint \in Nat /\ log \in Nat
         /\ \A r \in Replicas : cursor[r] \in Nat /\ upto[r] \in Nat
         /\ spent.losses \in Nat
<1>1. spent.losses \in Nat /\ spent.refusals \in Nat
  BY DEF TypeOK, Bound
<1> QED BY <1>1, LeaderAssumption DEF TypeOK

(* A connection has at most one replica that campaigns or leads with it.    *)
LEMMA OwnConnection ==
  ASSUME IInv, NEW q \in Replicas, NEW r \in Replicas,
         pc[q] # "follower", pc[r] # "follower", conn[q] = conn[r]
  PROVE  q = r
BY DEF IInv, OwnInv

LEMMA StrandStep ==
  ASSUME IInv, StrandInv, [Next]_vars
  PROVE  StrandInv'
<1>0. /\ \A c \in Connections : held[c] \in Nat
      /\ refused \in Nat
      /\ held \in [Connections -> Nat] /\ cut \subseteq Connections
      /\ pc \in [Replicas -> {"follower", "trying", "leader"}]
      /\ conn \in [Replicas -> Connections \cup {NoConnection}]
  BY NumberTypes DEF IInv, TypeOK
<1>1. ASSUME UNCHANGED <<held, refused>>, cut \subseteq cut',
             \A r \in Replicas, c \in Connections \ cut' :
               LeadsWith(r, c) => LeadsWith(r, c)'
      PROVE  StrandInv'
  BY <1>1 DEF StrandInv
<1>2. CASE UNCHANGED vars \/ Commit
  BY <1>1, <1>2 DEF vars, lockVars, faultVars, Commit, LeadsWith
<1>3. ASSUME NEW r \in Replicas, Work(r) PROVE StrandInv'
  BY <1>1, <1>3 DEF Work, GetCheckpoint, Fetch, Handle, SaveCheckpoint, lockVars,
                    faultVars, LeadsWith
<1>4. ASSUME NEW r \in Replicas, TakeConnection(r) PROVE StrandInv'
  <2>1. PICK c \in Connections :
          /\ slot[c] # "closed" \/ held[c] = 0
          /\ cut' = IF slot[c] = "closed" THEN cut \ {c} ELSE cut
          /\ UNCHANGED <<held, refused>>
          /\ conn' = [conn EXCEPT ![r] = c]
          /\ pc[r] = "follower" /\ pc' = [pc EXCEPT ![r] = "trying"]
    BY <1>4 DEF TakeConnection, Pooled, Openable, faultVars
  <2>2. \A q \in Replicas, d \in Connections : LeadsWith(q, d) => LeadsWith(q, d)'
    BY <1>0, <2>1 DEF LeadsWith
  <2>3. ASSUME NEW d \in Connections, d \notin cut', held[d] > refused
        PROVE  \E q \in Replicas : LeadsWith(q, d)'
    <3>1. d \notin cut
      BY <1>0, <2>1, <2>3
    <3> QED BY <2>2, <2>3, <3>1 DEF StrandInv
  <2> QED BY <2>1, <2>3 DEF StrandInv
<1>5. ASSUME NEW r \in Replicas, BecomeLeader(r) \/ GrantIsLost(r) PROVE StrandInv'
  <2>1. PICK c \in Connections : c = conn[r]
    BY <1>5 DEF IInv, OwnInv, BecomeLeader, GrantIsLost
  <2>2. /\ pc[r] = "trying" /\ c \notin cut /\ refused' = refused
        /\ held' = [held EXCEPT ![c] = @ + 1] /\ cut \subseteq cut'
        /\ \/ cut' = cut /\ pc' = [pc EXCEPT ![r] = "leader"] /\ conn' = conn
           \/ c \in cut' /\ pc' = [pc EXCEPT ![r] = "follower"]
              /\ conn' = [conn EXCEPT ![r] = NoConnection]
    BY <1>5, <2>1 DEF BecomeLeader, GrantIsLost, StepsDown, faultVars
  <2>3. \A q \in Replicas : ~LeadsWith(q, c)
    BY <2>1, <2>2, OwnConnection DEF LeadsWith
  <2>4. held[c] <= refused
    BY <1>0, <2>2, <2>3 DEF StrandInv
  <2>5. ASSUME NEW d \in Connections
        PROVE  /\ held'[d] <= 1 + refused
               /\ d \notin cut' /\ held'[d] > refused
                    => \E q \in Replicas : LeadsWith(q, d)'
    <3>1. CASE d = c
      <4>1. held'[d] <= 1 + refused
        BY <1>0, <2>2, <2>4, <3>1
      <4>2. c \notin cut' => LeadsWith(r, c)'
        BY <1>0, <2>1, <2>2 DEF LeadsWith
      <4> QED BY <3>1, <4>1, <4>2
    <3>2. CASE d # c
      <4>1. held'[d] = held[d]
        BY <1>0, <2>2, <3>2
      <4>2. \A q \in Replicas : LeadsWith(q, d) => LeadsWith(q, d)'
        BY <1>0, <2>1, <2>2, <3>2 DEF LeadsWith
      <4> QED BY <2>2, <4>1, <4>2 DEF StrandInv
    <3> QED BY <3>1, <3>2
  <2> QED BY <2>2, <2>5 DEF StrandInv
<1>6. ASSUME NEW r \in Replicas,
             StayFollower(r) \/ TryFails(r) \/ ReleaseFindsItCut(r)
      PROVE  StrandInv'
  <2>1. /\ UNCHANGED <<held, refused, cut>> /\ StepsDown(r)
        /\ pc[r] = "leader" => conn[r] \in cut
    BY <1>6 DEF StayFollower, TryFails, ReleaseFindsItCut, faultVars
  <2>2. \A q \in Replicas, c \in Connections \ cut' :
          LeadsWith(q, c) => LeadsWith(q, c)'
    BY <1>0, <2>1 DEF StepsDown, LeadsWith
  <2> QED BY <1>1, <2>1, <2>2
<1>7. ASSUME NEW r \in Replicas, Release(r) \/ ReleaseIsRefused(r) PROVE StrandInv'
  <2>1. PICK c \in Connections : c = conn[r]
    BY <1>7 DEF IInv, OwnInv, Release, ReleaseIsRefused
  <2>2. /\ pc[r] = "leader" /\ cut' = cut /\ StepsDown(r)
        /\ \/ held' = [held EXCEPT ![c] = @ - 1] /\ refused' = refused /\ held[c] > 0
           \/ held' = held /\ refused' = refused + 1
    BY <1>7, <2>1 DEF Release, ReleaseIsRefused, Unlocked, IInv, HolderInv, Connected
  <2>3. \A q \in Replicas, d \in Connections \ {c} :
          LeadsWith(q, d) => LeadsWith(q, d)'
    BY <1>0, <2>1, <2>2 DEF StepsDown, LeadsWith
  <2>4. /\ held[c] <= 1 + refused
        /\ held'[c] <= refused' /\ refused' \in Nat /\ refused <= refused'
    BY <1>0, <2>2 DEF StrandInv
  <2>5. ASSUME NEW d \in Connections, d # c
        PROVE  /\ held'[d] <= 1 + refused'
               /\ d \notin cut' /\ held'[d] > refused'
                    => \E q \in Replicas : LeadsWith(q, d)'
    <3>1. held'[d] = held[d]
      BY <1>0, <2>2, <2>5
    <3>2. held[d] <= 1 + refused
      BY DEF StrandInv
    <3>3. held[d] > refused' => held[d] > refused
      BY <1>0, <2>4
    <3> QED BY <1>0, <2>2, <2>3, <2>4, <2>5, <3>1, <3>2, <3>3 DEF StrandInv
  <2>6. held'[c] <= 1 + refused' /\ ~(held'[c] > refused')
    <3>1. held'[c] \in Nat
      BY <1>0, <2>2
    <3> QED BY <2>4, <3>1
  <2> QED BY <2>5, <2>6 DEF StrandInv
<1>8. ASSUME NEW r \in Replicas, Crash(r) PROVE StrandInv'
  <2>1. /\ UNCHANGED <<held, refused>> /\ StepsDown(r) /\ cut \subseteq cut'
        /\ pc[r] = "leader" => conn[r] \in cut'
    BY <1>8 DEF Crash, IInv, OwnInv
  <2>2. \A q \in Replicas, c \in Connections \ cut' :
          LeadsWith(q, c) => LeadsWith(q, c)'
    BY <1>0, <2>1 DEF StepsDown, LeadsWith
  <2> QED BY <1>1, <2>1, <2>2
<1>9. ASSUME NEW c \in Connections, PoolCloses(c) \/ LoseConnection(c) \/ Reap(c)
      PROVE  StrandInv'
  <2>1. /\ UNCHANGED <<refused, pc, conn>> /\ cut \subseteq cut'
        /\ \A d \in Connections : held'[d] = held[d] \/ held'[d] = 0
    BY <1>0, <1>9 DEF PoolCloses, LoseConnection, Reap, Spend, faultVars
  <2>2. ASSUME NEW d \in Connections
        PROVE  /\ held'[d] <= 1 + refused
               /\ d \notin cut' /\ held'[d] > refused
                    => \E q \in Replicas : LeadsWith(q, d)
    BY <1>0, <2>1 DEF StrandInv
  <2> QED BY <2>1, <2>2 DEF StrandInv, LeadsWith
<1> QED BY <1>2, <1>3, <1>4, <1>5, <1>6, <1>7, <1>8, <1>9 DEF Next, Campaign

(* Without a cut connection there is one leader, and it is connected.       *)
LEMMA SoleWorker ==
  ASSUME IInv, ResumeInv, spent.losses = 0, NEW q \in Replicas, NEW r \in Replicas,
         pc[q] = "leader", pc[r] = "leader"
  PROVE  q = r
<1>1. conn[q] \notin cut /\ conn[r] \notin cut
  BY DEF IInv, OwnInv, ResumeInv
<1>2. conn[q] = conn[r]
  BY <1>1 DEF IInv, OwnInv, ServerInv, HolderInv, Connected
<1> QED BY <1>2, OwnConnection

LEMMA ResumeStep ==
  ASSUME IInv, ResumeInv, [Next]_vars
  PROVE  ResumeInv' /\ (checkpoint' < checkpoint => spent.losses > 0)
<1>0. /\ spent.losses \in Nat /\ checkpoint \in Nat /\ log \in Nat
      /\ \A r \in Replicas : cursor[r] \in Nat /\ upto[r] \in Nat
      /\ spent \in [DOMAIN Bound -> Nat]
      /\ slot \in [Connections -> {"closed", "pooled", "pinned"}]
      /\ job \in [Replicas -> {"start", "polling", "handling"}]
      /\ cursor \in [Replicas -> 0..log] /\ upto \in [Replicas -> 0..log]
      /\ cut \subseteq Connections
      /\ DOMAIN Bound = {"releases", "losses", "crashes", "refusals"}
  BY NumberTypes DEF IInv, TypeOK, Bound
(* A step of the lock: a worker goes on or is gone.                         *)
<1>1. ASSUME checkpoint' = checkpoint,
             \A r \in Replicas :
               \/ job'[r] = job[r] /\ cursor'[r] = cursor[r] /\ upto'[r] = upto[r]
               \/ job'[r] = "start",
             spent'.losses = 0 =>
               spent.losses = 0 /\ \A c \in cut' : slot'[c] = "closed"
      PROVE  ResumeInv' /\ (checkpoint' < checkpoint => spent.losses > 0)
  BY <1>0, <1>1 DEF ResumeInv
<1>2. ASSUME NEW r \in Replicas, StepsDown(r)
      PROVE  \A q \in Replicas :
               \/ job'[q] = job[q] /\ cursor'[q] = cursor[q] /\ upto'[q] = upto[q]
               \/ job'[q] = "start"
  BY <1>0, <1>2 DEF StepsDown
<1>3. ASSUME NEW kind \in DOMAIN Bound \ {"losses"}, Spend(kind)
      PROVE  spent'.losses = spent.losses
  BY <1>0, <1>3 DEF Spend
<1>4. Spend("losses") => spent'.losses > 0
  BY <1>0 DEF Spend
<1>5. CASE UNCHANGED vars \/ Commit
  BY <1>1, <1>5 DEF vars, lockVars, faultVars, workVars, Commit, ResumeInv
<1>6. ASSUME NEW r \in Replicas, TakeConnection(r)
      PROVE  ResumeInv' /\ (checkpoint' < checkpoint => spent.losses > 0)
  <2>1. PICK c \in Connections :
          /\ slot' = [slot EXCEPT ![c] = "pinned"]
          /\ cut' = IF slot[c] = "closed" THEN cut \ {c} ELSE cut
          /\ UNCHANGED <<faultVars, workVars>>
    BY <1>6 DEF TakeConnection, Pooled, Openable
  <2>2. ASSUME spent.losses = 0, NEW d \in cut' PROVE slot'[d] = "closed"
    <3>1. d \in cut /\ slot[d] = "closed"
      BY <2>1, <2>2 DEF ResumeInv
    <3>2. d # c
      BY <2>1, <2>2, <3>1
    <3> QED BY <1>0, <2>1, <3>1, <3>2
  <2> QED BY <1>1, <2>1, <2>2 DEF faultVars, workVars
<1>7. ASSUME NEW r \in Replicas, BecomeLeader(r)
      PROVE  ResumeInv' /\ (checkpoint' < checkpoint => spent.losses > 0)
  BY <1>1, <1>7 DEF BecomeLeader, Pinned, faultVars, workVars, ResumeInv
<1>8. ASSUME NEW r \in Replicas,
             \/ StayFollower(r) \/ TryFails(r)
             \/ Release(r) \/ ReleaseFindsItCut(r) \/ ReleaseIsRefused(r)
      PROVE  ResumeInv' /\ (checkpoint' < checkpoint => spent.losses > 0)
  <2>1. PICK c \in Connections : c = conn[r]
    BY <1>8 DEF IInv, OwnInv, StayFollower, TryFails, Release, ReleaseFindsItCut,
                ReleaseIsRefused
  <2>2. /\ StepsDown(r) /\ slot' = Returned(c) /\ cut' = cut /\ checkpoint' = checkpoint
        /\ spent'.losses = spent.losses
    BY <1>0, <1>3, <1>8, <2>1
       DEF StayFollower, GivenBack, TryFails, Release, ReleaseFindsItCut,
           ReleaseIsRefused, faultVars
  <2>3. \A d \in cut : slot[d] = "closed" => slot'[d] = "closed"
    BY <1>0, <2>2 DEF Returned
  <2> QED BY <1>1, <1>2, <2>2, <2>3 DEF ResumeInv
<1>9. ASSUME NEW r \in Replicas, Crash(r)
      PROVE  ResumeInv' /\ (checkpoint' < checkpoint => spent.losses > 0)
  <2>1. /\ StepsDown(r) /\ checkpoint' = checkpoint /\ spent'.losses = spent.losses
        /\ \A d \in cut' : d \in cut \/ slot'[d] = "closed"
        /\ \A d \in Connections : slot[d] = "closed" => slot'[d] = "closed"
    BY <1>0, <1>3, <1>9 DEF Crash
  <2> QED BY <1>0, <1>1, <1>2, <2>1 DEF ResumeInv
<1>10. ASSUME NEW r \in Replicas, GrantIsLost(r)
       PROVE  ResumeInv' /\ (checkpoint' < checkpoint => spent.losses > 0)
  <2>1. StepsDown(r) /\ checkpoint' = checkpoint /\ spent'.losses # 0
    BY <1>0, <1>4, <1>10 DEF GrantIsLost
  <2> QED BY <1>1, <1>2, <2>1
<1>11. ASSUME NEW c \in Connections, PoolCloses(c) \/ LoseConnection(c) \/ Reap(c)
       PROVE  ResumeInv' /\ (checkpoint' < checkpoint => spent.losses > 0)
  <2>1. UNCHANGED workVars
    BY <1>11 DEF PoolCloses, LoseConnection, Reap
  <2>2. spent'.losses = 0 =>
          spent.losses = 0 /\ \A d \in cut' : slot'[d] = "closed"
    <3>1. CASE PoolCloses(c) \/ Reap(c)
      <4>1. /\ spent' = spent /\ cut' = cut
            /\ \A d \in Connections : slot[d] = "closed" => slot'[d] = "closed"
        BY <1>0, <3>1 DEF PoolCloses, Reap, faultVars
      <4> QED BY <1>0, <4>1 DEF ResumeInv
    <3>2. CASE LoseConnection(c)
      BY <1>0, <1>4, <3>2 DEF LoseConnection
    <3> QED BY <1>11, <3>1, <3>2
  <2> QED BY <1>1, <2>1, <2>2 DEF workVars
<1>12. ASSUME NEW r \in Replicas, Work(r)
       PROVE  ResumeInv' /\ (checkpoint' < checkpoint => spent.losses > 0)
  <2>1. /\ UNCHANGED <<cut, slot, spent>> /\ pc[r] = "leader"
        /\ \A q \in Replicas \ {r} :
             job'[q] = job[q] /\ cursor'[q] = cursor[q] /\ upto'[q] = upto[q]
    BY <1>0, <1>12 DEF Work, GetCheckpoint, Fetch, Handle, SaveCheckpoint, lockVars,
                       faultVars
  <2>2. ASSUME spent.losses = 0, NEW q \in Replicas \ {r} PROVE job[q] = "start"
    BY <2>1, <2>2, SoleWorker DEF IInv, JobInv
  <2>3. CASE GetCheckpoint(r)
    <3>1. checkpoint' = checkpoint /\ job'[r] = "polling" /\ cursor'[r] = checkpoint
      BY <1>0, <2>3 DEF GetCheckpoint, ResumeFrom
    <3> QED BY <1>0, <2>1, <2>2, <3>1 DEF ResumeInv
  <2>4. CASE Fetch(r)
    <3>1. /\ checkpoint' = checkpoint /\ job[r] = "polling" /\ job'[r] = "handling"
          /\ cursor'[r] = cursor[r] /\ cursor[r] <= upto'[r]
      BY <1>0, <2>4, LeaderAssumption DEF Fetch
    <3> QED BY <1>0, <2>1, <3>1 DEF ResumeInv
  <2>5. CASE Handle(r)
    <3>1. /\ checkpoint' = checkpoint /\ job'[r] = job[r] /\ job[r] = "handling"
          /\ cursor'[r] = cursor[r] + 1 /\ upto'[r] = upto[r] /\ cursor[r] < upto[r]
      BY <1>0, <2>5 DEF Handle
    <3>2. cursor'[r] <= upto'[r] /\ (checkpoint <= cursor[r] => checkpoint' <= cursor'[r])
      BY <1>0, <3>1
    <3> QED BY <1>0, <2>1, <3>1, <3>2 DEF ResumeInv
  <2>6. CASE SaveCheckpoint(r)
    <3>1. /\ job[r] = "handling" /\ job'[r] = "polling"
          /\ cursor'[r] = cursor[r] /\ checkpoint' = cursor[r]
      BY <1>0, <2>6 DEF SaveCheckpoint, LastFetched
    <3>2. spent.losses = 0 => ~(checkpoint' < checkpoint)
      BY <1>0, <3>1 DEF ResumeInv
    <3>3. ResumeInv'
      BY <1>0, <2>1, <2>2, <3>1 DEF ResumeInv
    <3> QED BY <1>0, <3>2, <3>3
  <2> QED BY <1>12, <2>3, <2>4, <2>5, <2>6 DEF Work
<1> QED BY <1>5, <1>6, <1>7, <1>8, <1>9, <1>10, <1>11, <1>12 DEF Next, Campaign

LEMMA MoreInductive == Spec => [](IInv /\ StrandInv /\ ResumeInv)
<1>1. IInv /\ StrandInv /\ ResumeInv /\ [Next]_vars => StrandInv' /\ ResumeInv'
  BY StrandStep, ResumeStep
<1> QED BY <1>1, Inductive, InitMoreInv, PTL DEF Spec

(* "after it releases, another replica can take over"                       *)
(* (test/user/replication_test.go:222), for any replicas, pools and faults: *)
(* the lock stays behind only where the server refused to unlock it.        *)
THEOREM NoStrandedLock == Spec => []OnlyRefusedUnlocksStrand
<1>1. ASSUME IInv, StrandInv PROVE OnlyRefusedUnlocksStrand
  <2>1. refused \in Nat /\ \A c \in Connections : held[c] \in Nat
    BY <1>1, NumberTypes DEF IInv
  <2>2. ASSUME Strays = {} PROVE Cardinality(Strays) <= refused
    <3>1. Cardinality(Strays) = 0
      BY <2>2, FS_EmptySet
    <3> QED BY <2>1, <3>1
  <2>3. ASSUME Strays # {} PROVE Cardinality(Strays) <= refused
    <3>1. PICK c \in Connections : c \in Strays
      BY <2>3 DEF Strays
    <3>2. refused > 0
      BY <1>1, <2>1, <3>1 DEF Strays, StrandInv, LeadsWith
    <3>3. Strays = {c}
      BY <1>1, <3>1 DEF Strays, IInv, ServerInv
    <3>4. Cardinality(Strays) = 1
      BY <3>3, FS_Singleton
    <3>5. \A n \in Nat : n > 0 => 1 <= n
      OBVIOUS
    <3> QED BY <2>1, <3>2, <3>4, <3>5
  <2>4. Cardinality(Strays) <= refused
    BY <2>2, <2>3
  <2> QED BY <1>1, <2>4 DEF OnlyRefusedUnlocksStrand, StrandInv
<1> QED BY <1>1, MoreInductive, PTL

(* Checkpointer.Save never takes a read model back, however often replicas  *)
(* resign, crash or are refused, unless a leader's connection was cut.      *)
THEOREM CheckpointAdvances == Spec => CheckpointFallsBackOnlyAfterCut
<1>1. IInv /\ ResumeInv /\ [Next]_vars
        => [checkpoint' < checkpoint => spent.losses > 0]_vars
  BY ResumeStep
<1> QED BY <1>1, MoreInductive, PTL DEF Spec, CheckpointFallsBackOnlyAfterCut

=============================================================================
