-------------------------- MODULE ProjectionProofs --------------------------
(***************************************************************************)
(* What Projection promises for every set of handlers and users and any     *)
(* number of events and failures.                                           *)
(***************************************************************************)
EXTENDS Projection, FiniteSetTheorems, SequenceTheorems, TLAPS

-----------------------------------------------------------------------------
(* The inductive invariant.                                                 *)

(* Versions of a user grow along the log and count the user's events.       *)
VersionInv ==
  /\ \A p, q \in DOMAIN log :
       p < q /\ log[p].agg = log[q].agg => log[p].ver < log[q].ver
  /\ \A a \in Aggregates :
       \A p \in EventsOf(a) : log[p].ver <= Cardinality(EventsOf(a))

(* What remains of one Dispatch.  A projector that failed has been called.  *)
TodoInv ==
  /\ todo \in {<<>>, <<"notify">>, <<"view", "notify">>, <<"mail", "notify">>,
               <<"view", "mail", "notify">>}
  /\ todo # <<>> => pos # 0
  /\ todo = <<"view", "notify">> => log[pos].kind # "registered"
  /\ ComesNext("view") => ~projectorErr /\ pos \notin failed

(* Whoever has not subscribed yet has an untouched channel of its own.      *)
OwnInv ==
  /\ \A g, h \in Handlers : own[g] = own[h] /\ own[g] # 0 => g = h
  /\ \A h \in Handlers :
       pc[h] = "saved" => own[h] \notin waiters /\ closes[own[h]] = 0

(* The notifier has heard of no version the log does not have, and only of  *)
(* events whose Dispatch is over.                                           *)
NotifiedInv ==
  /\ \A a \in Aggregates : lastProjected[a] <= Cardinality(EventsOf(a))
  /\ \A p \in DOMAIN log :
       AlreadyProjected(p) => p < pos \/ (p = pos /\ todo = <<>>)

(* A closed channel is one of a projected event, and so is that of a        *)
(* handler that was woken.                                                  *)
ClosedInv ==
  /\ \A p \in Positions :
       closes[p] # 0 => p \in DOMAIN log /\ AlreadyProjected(p)
  /\ \A h \in Handlers : pc[h] = "ready" => closes[own[h]] # 0

(* The view shows every event whose projector's turn has come.              *)
ReflectedInv ==
  \A p \in DOMAIN log :
    p < pos \/ (p = pos /\ ~ComesNext("view")) => Reflects(p) \/ p \in failed

(* MailDespiteFailedProjector of events still to be saved as well.          *)
MailInv ==
  \A p \in Positions :
    /\ ~withSideEffects => reactors[p] = "none"
    /\ /\ withSideEffects
       /\ p \in DOMAIN log
       /\ log[p].kind = "registered"
       /\ p < pos \/ (p = pos /\ todo \in {<<>>, <<"notify">>})
       => reactors[p] # "none"

(* The views are the replay, and what they were taken from is dispatched.   *)
ReplayInv ==
  /\ ViewIsReplayOfLog
  /\ \A a \in Aggregates :
       \A kinds \in {Kinds, Personal, {"registered", "name"}} :
         LastOf(a, kinds) \in 0..pos

IInv ==
  /\ TypeOK
  /\ VersionInv
  /\ TodoInv
  /\ OwnInv
  /\ NoLostWakeup
  /\ NotifiedInv
  /\ ClosedInv
  /\ ReflectedInv
  /\ MailInv
  /\ ReplayInv

-----------------------------------------------------------------------------
(* Lemmas about the operators of the model.                                 *)

LEMMA JoinOne ==
  ASSUME NEW S, NEW s \in Seq(S), NEW x \in S
  PROVE  /\ s \o <<x>> \in Seq(S)
         /\ Len(s \o <<x>>) = Len(s) + 1
         /\ \A i \in 1..Len(s) : (s \o <<x>>)[i] = s[i]
         /\ (s \o <<x>>)[Len(s) + 1] = x
  BY AppendProperties, AppendIsConcat

LEMMA ListenersOf ==
  ASSUME NEW e
  PROVE  /\ e.kind = "registered" =>
              ListenersFor(e) = <<"view", "mail", "notify">>
         /\ e.kind # "registered" => ListenersFor(e) = <<"view", "notify">>
<1>1. Matches("view", e.kind) /\ Matches("notify", e.kind)
  BY DEF Matches
<1>2. Matches("mail", e.kind) <=> e.kind = "registered"
  BY DEF Matches
<1>3. Listeners[1] = "view" /\ Listeners[2] = "mail" /\ Listeners[3] = "notify"
  BY DEF Listeners
<1> DEFINE S == {"view", "mail", "notify"}
<1>4. <<"view">> \o <<"mail">> \o <<"notify">> = <<"view", "mail", "notify">>
  <2>1. <<"view">> \in Seq(S) /\ Len(<<"view">>) = 1 /\ <<"view">>[1] = "view"
    OBVIOUS
  <2>2. PICK s : s = <<"view">> \o <<"mail">>
    OBVIOUS
  <2>3. s \in Seq(S) /\ Len(s) = 2 /\ s[1] = "view" /\ s[2] = "mail"
    BY <2>1, <2>2, JoinOne
  <2>4. PICK t : t = s \o <<"notify">>
    OBVIOUS
  <2>5. /\ t \in Seq(S) /\ Len(t) = 3
        /\ t[1] = "view" /\ t[2] = "mail" /\ t[3] = "notify"
    <3>1. "notify" \in S
      OBVIOUS
    <3> HIDE DEF S
    <3>2. s \in Seq(S)
      BY <2>3
    <3>3. PICK x : x = "notify"
      OBVIOUS
    <3>4. x \in S
      BY <3>1, <3>3
    <3>5. /\ s \o <<x>> \in Seq(S)
          /\ Len(s \o <<x>>) = Len(s) + 1
          /\ \A i \in 1..Len(s) : (s \o <<x>>)[i] = s[i]
          /\ (s \o <<x>>)[Len(s) + 1] = x
      BY <3>2, <3>4, JoinOne, Zenon
    <3>6. t = s \o <<x>>
      BY <2>4, <3>3
    <3>7. /\ t \in Seq(S)
          /\ Len(t) = Len(s) + 1
          /\ \A i \in 1..Len(s) : t[i] = s[i]
          /\ t[Len(s) + 1] = x
      BY <3>5, <3>6, Zenon
    <3> QED
      BY <2>3, <3>3, <3>7
  <2> HIDE DEF S
  <2>6. t = <<"view", "mail", "notify">>
    BY <2>5
  <2> QED
    BY <2>2, <2>4, <2>6
<1>5. <<"view">> \o <<>> \o <<"notify">> = <<"view", "notify">>
  <2>1. <<"view">> \in Seq(S) /\ Len(<<"view">>) = 1 /\ <<"view">>[1] = "view"
    OBVIOUS
  <2>2. <<"view">> \o <<>> = <<"view">>
    BY <2>1, ConcatEmptySeq
  <2>3. PICK s : s = <<"view">> \o <<"notify">>
    OBVIOUS
  <2>4. s \in Seq(S) /\ Len(s) = 2 /\ s[1] = "view" /\ s[2] = "notify"
    BY <2>1, <2>3, JoinOne
  <2> HIDE DEF S
  <2>5. s = <<"view", "notify">>
    BY <2>4
  <2> QED
    BY <2>2, <2>3, <2>5
<1> QED
  BY <1>1, <1>2, <1>3, <1>4, <1>5 DEF ListenersFor

(* What Dispatch has left once its next listener is called.                 *)
LEMMA WhatIsLeft ==
  ASSUME TodoInv
  PROVE  /\ ComesNext("mail") =>
              todo = <<"mail", "notify">> /\ Tail(todo) = <<"notify">>
         /\ ComesNext("notify") => todo = <<"notify">> /\ Tail(todo) = <<>>
         /\ ComesNext("view") =>
              \/ todo = <<"view", "notify">> /\ Tail(todo) = <<"notify">>
              \/ /\ todo = <<"view", "mail", "notify">>
                 /\ Tail(todo) = <<"mail", "notify">>
<1>1. /\ Head(<<"notify">>) = "notify"
      /\ Head(<<"view", "notify">>) = "view"
      /\ Head(<<"mail", "notify">>) = "mail"
      /\ Head(<<"view", "mail", "notify">>) = "view"
  OBVIOUS
<1>2. /\ Tail(<<"notify">>) = <<>>
      /\ Tail(<<"view", "notify">>) = <<"notify">>
      /\ Tail(<<"mail", "notify">>) = <<"notify">>
      /\ Tail(<<"view", "mail", "notify">>) = <<"mail", "notify">>
  OBVIOUS
<1>3. "mail" # "view" /\ "mail" # "notify" /\ "view" # "notify"
  OBVIOUS
<1>4. todo \in {<<>>, <<"notify">>, <<"view", "notify">>, <<"mail", "notify">>,
                <<"view", "mail", "notify">>}
  BY DEF TodoInv
<1> QED
  BY <1>1, <1>2, <1>3, <1>4, Zenon DEF ComesNext

(* The view is never next twice.                                            *)
LEMMA ViewIsOver ==
  /\ \A rest \in {<<>>, <<"notify">>, <<"mail", "notify">>} :
       ~(rest # <<>> /\ Head(rest) = "view")
  /\ <<"notify">> # <<>>
  /\ <<"mail", "notify">> # <<>>
  /\ <<"mail", "notify">> # <<"notify">>
  /\ \A rest \in {<<>>, <<"notify">>, <<"mail", "notify">>} :
       rest # <<"view", "notify">>
<1>1. Head(<<"notify">>) = "notify" /\ Head(<<"mail", "notify">>) = "mail"
  OBVIOUS
<1>2. /\ Len(<<>>) = 0 /\ Len(<<"notify">>) = 1
      /\ Len(<<"mail", "notify">>) = 2 /\ Len(<<"view", "notify">>) = 2
  OBVIOUS
<1>3. Head(<<"view", "notify">>) = "view"
  OBVIOUS
<1>4. 0 # 1 /\ 0 # 2 /\ 1 # 2
  OBVIOUS
<1>5. "mail" # "view" /\ "notify" # "view"
  OBVIOUS
<1> QED
  BY <1>1, <1>2, <1>3, <1>4, <1>5, Zenon

(* The last of a set of events, 0 if there is none.                         *)
Newest(S) == IF S = {} THEN 0 ELSE CHOOSE p \in S : \A q \in S : q <= p

AppliedOf(a, kinds) == {p \in Applied(a) : log[p].kind \in kinds}

LEMMA LastIsNewest ==
  \A a, kinds : LastOf(a, kinds) = Newest(AppliedOf(a, kinds))
  BY DEF LastOf, Newest, AppliedOf

LEMMA NewestJoins ==
  ASSUME NEW S \in SUBSET Nat, NEW p \in Nat, \A q \in S : q < p
  PROVE  Newest(S \cup {p}) = p
<1> DEFINE T == S \cup {p}
<1>1. T # {} /\ p \in T /\ \A q \in T : q <= p
  OBVIOUS
<1>2. \A r \in T : (\A q \in T : q <= r) => r = p
  OBVIOUS
<1> HIDE DEF T
<1>3. (CHOOSE r \in T : \A q \in T : q <= r) = p
  BY <1>1, <1>2
<1>4. Newest(T) = p
  BY <1>1, <1>3 DEF Newest
<1> QED
  BY <1>4 DEF T

LEMMA EventsAreCounted ==
  ASSUME TypeOK, NEW a
  PROVE  /\ IsFiniteSet(EventsOf(a))
         /\ Cardinality(EventsOf(a)) \in 0..Len(log)
<1>1. EventsOf(a) \subseteq 1..Len(log)
  BY DEF EventsOf, TypeOK
<1>2. Len(log) \in Nat
  BY DEF TypeOK
<1>3. IsFiniteSet(1..Len(log)) /\ Cardinality(1..Len(log)) = Len(log)
  <2>1. PICK n : n = Len(log)
    OBVIOUS
  <2>2. n \in Nat /\ n - 1 + 1 = n /\ (1 > n => n = 0)
    BY <1>2, <2>1
  <2>3. /\ IsFiniteSet(1..n)
        /\ Cardinality(1..n) = IF 1 > n THEN 0 ELSE n - 1 + 1
    BY <2>2, FS_Interval
  <2>. QED
    BY <2>1, <2>2, <2>3
<1> QED
  BY <1>1, <1>2, <1>3, FS_Subset, FS_CardinalityType

(* As long as the same events are applied, they are the last ones.          *)
LEMMA SameEventsApplied ==
  ASSUME ReplayInv, UNCHANGED <<log, views>>, 0..pos \subseteq 0..pos',
         \A p \in 0..pos : (p \in unrecoverable') = (p \in unrecoverable),
         \A a : Applied(a)' = Applied(a)
  PROVE  ReplayInv'
<1>1. \A a, kinds : AppliedOf(a, kinds)' = AppliedOf(a, kinds)
  BY DEF AppliedOf
<1>2. \A a, kinds : LastOf(a, kinds)' = Newest(AppliedOf(a, kinds)')
  BY DEF LastOf, Newest, AppliedOf
<1>3. \A a, kinds : LastOf(a, kinds)' = LastOf(a, kinds)
  BY <1>1, <1>2, LastIsNewest
<1>4. \A p : VersionAt(p)' = VersionAt(p)
  BY DEF VersionAt
<1> QED
  BY <1>3, <1>4 DEF ReplayInv, ViewIsReplayOfLog

(* The conjuncts of the invariant depend on these variables only.           *)
LEMMA Frames ==
  /\ UNCHANGED log /\ VersionInv => VersionInv'
  /\ UNCHANGED <<log, pos, todo, projectorErr, failed>> /\ TodoInv => TodoInv'
  /\ UNCHANGED <<pc, own, waiters, closes>> /\ OwnInv => OwnInv'
  /\ UNCHANGED <<log, pc, own, lastProjected, waiters, closes>>
       /\ NoLostWakeup => NoLostWakeup'
  /\ UNCHANGED <<log, pos, todo, lastProjected>> /\ NotifiedInv => NotifiedInv'
  /\ UNCHANGED <<log, pc, own, lastProjected, closes>> /\ ClosedInv => ClosedInv'
  /\ UNCHANGED <<log, pos, todo, failed, views>> /\ ReflectedInv => ReflectedInv'
  /\ UNCHANGED <<log, pos, todo, withSideEffects, reactors>> /\ MailInv => MailInv'
  /\ UNCHANGED <<log, pos, todo, failed, unrecoverable, views>>
       /\ ReplayInv => ReplayInv'
<1>1. UNCHANGED log /\ VersionInv => VersionInv'
  BY DEF VersionInv, EventsOf
<1>2. UNCHANGED <<log, pos, todo, projectorErr, failed>> /\ TodoInv => TodoInv'
  BY DEF TodoInv, ComesNext
<1>3. UNCHANGED <<pc, own, waiters, closes>> /\ OwnInv => OwnInv'
  BY DEF OwnInv
<1>4. UNCHANGED <<log, pc, own, lastProjected, waiters, closes>>
        /\ NoLostWakeup => NoLostWakeup'
  BY DEF NoLostWakeup
<1>5. UNCHANGED <<log, pos, todo, lastProjected>> /\ NotifiedInv => NotifiedInv'
  BY DEF NotifiedInv, EventsOf, AlreadyProjected
<1>6. UNCHANGED <<log, pc, own, lastProjected, closes>> /\ ClosedInv => ClosedInv'
  BY DEF ClosedInv, AlreadyProjected
<1>7. UNCHANGED <<log, pos, todo, failed, views>> /\ ReflectedInv => ReflectedInv'
  BY DEF ReflectedInv, Reflects, ComesNext
<1>8. UNCHANGED <<log, pos, todo, withSideEffects, reactors>> /\ MailInv => MailInv'
  BY DEF MailInv
<1>9. UNCHANGED <<log, pos, todo, failed, unrecoverable, views>>
        /\ ReplayInv => ReplayInv'
  <2> SUFFICES ASSUME UNCHANGED <<log, pos, todo, failed, unrecoverable, views>>,
                      ReplayInv
               PROVE  ReplayInv'
    OBVIOUS
  <2>1. \A a : Applied(a)' = Applied(a)
    BY DEF Applied, EventsOf, ComesNext
  <2> QED
    BY <2>1, SameEventsApplied
<1> QED
  BY <1>1, <1>2, <1>3, <1>4, <1>5, <1>6, <1>7, <1>8, <1>9

-----------------------------------------------------------------------------
(* The invariant holds at the start.                                        *)

LEMMA InvHoldsInitially == Init => IInv
<1> SUFFICES ASSUME Init
             PROVE  IInv
  OBVIOUS
<1> USE ProjectionAssumption DEF Init
<1>1. \A p : p \notin DOMAIN log
  OBVIOUS
<1>2. \A a : EventsOf(a) = {}
  BY <1>1 DEF EventsOf
<1>3. TypeOK
  <2>1. <<>> \in Seq(Event) /\ <<>> \in Seq({"view", "mail", "notify"})
    OBVIOUS
  <2>2. views \in [Aggregates -> View]
    BY DEF NoView, View
  <2>3. Len(<<>>) = 0 /\ 0 <= MaxEvents
    OBVIOUS
  <2>4. /\ 0 \in 0..0 /\ 0 \in 0..MaxEvents /\ 0 \in 0..1
    OBVIOUS
  <2> HIDE DEF Init
  <2>5. /\ log = <<>> /\ pos = 0 /\ opened = 0 /\ todo = <<>>
        /\ forgotten = {} /\ unrecoverable = {} /\ failed = {} /\ waiters = {}
        /\ projectorErr = FALSE /\ withSideEffects \in BOOLEAN
    BY DEF Init
  <2>6. /\ pc \in [Handlers ->
             {"idle", "forgetting", "saved", "waiting", "ready", "late"}]
        /\ \A h \in Handlers : pc[h] = "idle"
        /\ own \in [Handlers -> 0..0]
        /\ reactors \in [Positions -> {"none", "running", "ended"}]
        /\ lastProjected \in [Aggregates -> 0..MaxEvents]
        /\ closes \in [Positions -> 0..1]
    BY <2>4 DEF Init
  <2>7. /\ log \in Seq(Event) /\ todo \in Seq({"view", "mail", "notify"})
        /\ Len(log) <= MaxEvents
        /\ own \in [Handlers -> 0..Len(log)]
        /\ pos \in 0..Len(log) /\ opened \in pos..Len(log) /\ opened <= pos + 1
    BY <2>1, <2>3, <2>5, <2>6
  <2>8. \A h \in Handlers : pc[h] # "idle" => own[h] # 0
    BY <2>6
  <2> QED
    BY <2>2, <2>5, <2>6, <2>7, <2>8, Zenon DEF TypeOK
<1>4. VersionInv /\ ReflectedInv
  BY <1>1, <1>2 DEF VersionInv, ReflectedInv
<1>5. TodoInv
  BY ViewIsOver DEF TodoInv, ComesNext
<1>6. OwnInv /\ NoLostWakeup /\ ClosedInv
  BY DEF OwnInv, NoLostWakeup, ClosedInv
<1>7. NotifiedInv
  <2>1. \A a : Cardinality(EventsOf(a)) = 0
    BY <1>2, FS_EmptySet
  <2> QED
    BY <1>1, <2>1 DEF NotifiedInv
<1>8. MailInv
  BY <1>1 DEF MailInv
<1>9. ReplayInv
  <2>1. \A a, kinds : AppliedOf(a, kinds) = {}
    BY <1>2 DEF AppliedOf, Applied
  <2>2. \A a, kinds : LastOf(a, kinds) = 0
    BY <2>1, LastIsNewest DEF Newest
  <2>3. VersionAt(0) = 0
    BY DEF VersionAt
  <2>4. (0 \in unrecoverable) = FALSE
    OBVIOUS
  <2>5. ViewIsReplayOfLog
    BY <2>2, <2>3, <2>4 DEF ViewIsReplayOfLog, NoView
  <2>6. 0 \in 0..pos
    OBVIOUS
  <2> QED
    BY <2>2, <2>5, <2>6 DEF ReplayInv
<1> QED
  BY <1>3, <1>4, <1>5, <1>6, <1>7, <1>8, <1>9 DEF IInv

-----------------------------------------------------------------------------
(* Command handlers.                                                        *)

(* A step that only moves one handler, not to "saved" or "ready".           *)
LEMMA TypeFrame ==
  ASSUME TypeOK, UNCHANGED <<log, workerVars, viewVars, reactorVars>>,
         forgotten' \subseteq Aggregates,
         pc' \in [Handlers ->
           {"idle", "forgetting", "saved", "waiting", "ready", "late"}],
         own' \in [Handlers -> 0..Len(log)],
         \A h \in Handlers : pc'[h] # "idle" => own'[h] # 0,
         lastProjected' = lastProjected,
         waiters' \subseteq 1..Len(log),
         closes' \in [Positions -> 0..1]
  PROVE  TypeOK'
  BY DEF TypeOK, workerVars, viewVars, reactorVars

LEMMA IdleStepInv ==
  ASSUME IInv, NEW h \in Handlers, pc[h] # "idle", BecomesIdle(h),
         forgotten' \subseteq Aggregates,
         UNCHANGED <<log, workerVars, viewVars, reactorVars, notifierVars>>
  PROVE  IInv'
<1> USE DEF IInv, BecomesIdle
<1>1. UNCHANGED <<log, opened, unrecoverable, pos, todo, projectorErr, failed,
                  views, withSideEffects, reactors, lastProjected, waiters,
                  closes>>
  BY DEF workerVars, viewVars, reactorVars, notifierVars
<1>2. pc \in [Handlers -> {"idle", "forgetting", "saved", "waiting", "ready",
                           "late"}] /\ own \in [Handlers -> 0..Len(log)]
  BY DEF TypeOK
<1>3. /\ pc'[h] = "idle" /\ own'[h] = 0
      /\ \A g \in Handlers \ {h} : pc'[g] = pc[g] /\ own'[g] = own[g]
  BY <1>2
<1>4. TypeOK'
  BY <1>1, <1>2, <1>3, TypeFrame DEF TypeOK, notifierVars
<1>5. OwnInv'
  BY <1>1, <1>3 DEF OwnInv
<1>6. NoLostWakeup'
  BY <1>1, <1>3 DEF NoLostWakeup
<1>7. ClosedInv'
  BY <1>1, <1>3 DEF ClosedInv, AlreadyProjected
<1> QED
  BY <1>1, <1>4, <1>5, <1>6, <1>7, Frames

LEMMA ForgetInv ==
  ASSUME IInv, NEW h \in Handlers, Forget(h)
  PROVE  IInv'
<1>1. log[own[h]].agg \in Aggregates
  <2>1. log \in Seq(Event) /\ own[h] \in 1..Len(log)
    BY DEF IInv, TypeOK, Forget
  <2>2. log[own[h]] \in Event
    BY <2>1
  <2> QED
    BY <2>2 DEF Event
<1>2. forgotten' \subseteq Aggregates
  BY <1>1 DEF Forget, IInv, TypeOK
<1> QED
  BY <1>2, IdleStepInv DEF Forget

LEMMA AnswerInv ==
  ASSUME IInv, NEW h \in Handlers, AnswerAtOnce(h) \/ ReadView(h)
  PROVE  IInv'
<1>1. forgotten' \subseteq Aggregates
  BY DEF AnswerAtOnce, ReadView, logVars, IInv, TypeOK
<1> QED
  BY <1>1, IdleStepInv DEF AnswerAtOnce, ReadView, logVars

LEMMA WakeInv ==
  ASSUME IInv, NEW h \in Handlers, Wake(h) \/ TimeOut(h)
  PROVE  IInv'
<1> USE DEF IInv
<1>1. UNCHANGED <<log, forgotten, own, opened, unrecoverable, pos, todo,
                  projectorErr, failed, views, withSideEffects, reactors,
                  lastProjected, waiters, closes>>
  BY DEF Wake, TimeOut, logVars, workerVars, viewVars, reactorVars, notifierVars
<1>2. pc \in [Handlers -> {"idle", "forgetting", "saved", "waiting", "ready",
                           "late"}] /\ own \in [Handlers -> 0..Len(log)]
  BY DEF TypeOK
<1>3. /\ pc[h] = "waiting" /\ pc'[h] \in {"ready", "late"}
      /\ pc'[h] = "ready" => closes[own[h]] > 0
      /\ \A g \in Handlers \ {h} : pc'[g] = pc[g]
      /\ pc' \in [Handlers -> {"idle", "forgetting", "saved", "waiting", "ready",
                               "late"}]
  BY <1>2 DEF Wake, TimeOut
<1>4. TypeOK'
  BY <1>1, <1>3, TypeFrame
     DEF TypeOK, workerVars, viewVars, reactorVars
<1>5. OwnInv'
  BY <1>1, <1>3 DEF OwnInv
<1>6. NoLostWakeup'
  BY <1>1, <1>3 DEF NoLostWakeup
<1>7. ClosedInv'
  BY <1>1, <1>3 DEF ClosedInv, AlreadyProjected
<1> QED
  BY <1>1, <1>4, <1>5, <1>6, <1>7, Frames

LEMMA SubscribeInv ==
  ASSUME IInv, NEW h \in Handlers, Subscribe(h)
  PROVE  IInv'
<1> USE DEF IInv
<1>1. UNCHANGED <<log, forgotten, own, opened, unrecoverable, pos, todo,
                  projectorErr, failed, views, withSideEffects, reactors,
                  lastProjected>>
  BY DEF Subscribe, logVars, workerVars, viewVars, reactorVars
<1>2. /\ pc \in [Handlers -> {"idle", "forgetting", "saved", "waiting", "ready",
                              "late"}]
      /\ own \in [Handlers -> 0..Len(log)] /\ own[h] # 0
      /\ closes \in [Positions -> 0..1]
      /\ waiters \subseteq 1..Len(log)
      /\ Len(log) \in 0..MaxEvents
      /\ lastProjected \in [Aggregates -> 0..MaxEvents]
  BY DEF TypeOK, Subscribe
<1>3. /\ pc[h] = "saved" /\ pc'[h] = "waiting"
      /\ \A g \in Handlers \ {h} : pc'[g] = pc[g]
      /\ pc' \in [Handlers -> {"idle", "forgetting", "saved", "waiting", "ready",
                               "late"}]
  BY <1>2 DEF Subscribe
<1>4. PICK p \in 1..Len(log) : p = own[h]
  BY <1>2
<1>5. p \in Positions /\ p \in DOMAIN log /\ closes[p] = 0 /\ p \notin waiters
  <2>1. p \in Positions
    BY <1>2, <1>4, ProjectionAssumption DEF Positions
  <2>2. p \in DOMAIN log
    BY <1>4 DEF TypeOK
  <2> QED
    BY <1>3, <1>4, <2>1, <2>2 DEF OwnInv
<1>6. log[p].agg \in Aggregates /\ log[p].ver \in Nat
  <2>1. log[p] \in Event
    BY <1>4 DEF TypeOK
  <2> QED
    BY <2>1, ProjectionAssumption DEF Event
<1>7. lastProjected[log[p].agg] \in Nat
  BY <1>2, <1>6
<1>8. \A g \in Handlers \ {h} : own[g] # p
  BY <1>2, <1>4 DEF OwnInv
<1>9. CASE AlreadyProjected(p)
  <2>1. waiters' = waiters /\ closes' = [closes EXCEPT ![p] = @ + 1]
    BY <1>4, <1>9 DEF Subscribe
  <2>2. /\ closes' \in [Positions -> 0..1] /\ closes'[p] = 1
        /\ \A q \in Positions \ {p} : closes'[q] = closes[q]
    BY <1>2, <1>5, <2>1
  <2>3. TypeOK'
    BY <1>1, <1>2, <1>3, <2>1, <2>2, TypeFrame
       DEF TypeOK, workerVars, viewVars, reactorVars
  <2>4. \A g \in Handlers \ {h} : own[g] # 0 =>
          own[g] \in Positions /\ closes'[own[g]] = closes[own[g]]
    <3>1. \A n \in 0..Len(log) : n # 0 => n \in Positions
      BY <1>2, ProjectionAssumption DEF Positions
    <3> QED
      BY <1>2, <1>8, <2>2, <3>1
  <2>5. OwnInv'
    BY <1>1, <1>3, <2>1, <2>4 DEF OwnInv, TypeOK
  <2>6. NoLostWakeup'
    <3>1. \A n \in 1..Len(log) : n \in Positions
      BY <1>2, ProjectionAssumption DEF Positions
    <3>2. \A q \in waiters : q \in Positions /\ q # p
      BY <1>2, <1>5, <3>1
    <3> QED
      BY <1>1, <1>3, <1>4, <2>1, <2>2, <2>4, <3>2 DEF NoLostWakeup, TypeOK
  <2>7. ClosedInv'
    BY <1>1, <1>3, <1>5, <1>9, <2>2, <2>4 DEF ClosedInv, AlreadyProjected, TypeOK
  <2> QED
    BY <1>1, <2>3, <2>5, <2>6, <2>7, Frames
<1>10. CASE ~AlreadyProjected(p)
  <2>1. closes' = closes /\ waiters' = waiters \cup {p}
    BY <1>4, <1>10 DEF Subscribe
  <2>2. lastProjected[log[p].agg] < log[p].ver
    BY <1>6, <1>7, <1>10 DEF AlreadyProjected
  <2>3. TypeOK'
    BY <1>1, <1>2, <1>3, <1>4, <2>1, TypeFrame
       DEF TypeOK, workerVars, viewVars, reactorVars
  <2>4. OwnInv'
    BY <1>1, <1>3, <1>8, <2>1 DEF OwnInv
  <2>5. NoLostWakeup'
    BY <1>1, <1>3, <1>4, <1>5, <2>1, <2>2 DEF NoLostWakeup
  <2>6. ClosedInv'
    BY <1>1, <1>3, <2>1 DEF ClosedInv, AlreadyProjected
  <2> QED
    BY <1>1, <2>3, <2>4, <2>5, <2>6, Frames
<1> QED
  BY <1>9, <1>10

(* The new event is the last of its user and nobody knows of it yet.        *)
LEMMA SaveInv ==
  ASSUME IInv, NEW h \in Handlers, Save(h)
  PROVE  IInv'
<1> USE DEF IInv
<1>0. PICK n : n = Len(log)
  OBVIOUS
<1>1. PICK a \in Aggregates, k \in Kinds :
        /\ k \in Acceptable(a)
        /\ log' = Append(log,
             [agg |-> a, kind |-> k, ver |-> Cardinality(EventsOf(a)) + 1])
        /\ pc' = [pc EXCEPT ![h] = IF k = "erasure" THEN "forgetting" ELSE "saved"]
  BY DEF Save, Acceptable, Kinds
<1>2. UNCHANGED <<forgotten, opened, unrecoverable, pos, todo, projectorErr,
                  failed, views, withSideEffects, reactors, lastProjected,
                  waiters, closes>>
  BY DEF Save, workerVars, viewVars, reactorVars, notifierVars
<1>3. /\ log \in Seq(Event) /\ n = Len(log) /\ n \in 0..MaxEvents /\ n < MaxEvents
      /\ pos \in 0..n /\ opened \in pos..n
      /\ own \in [Handlers -> 0..n]
      /\ pc \in [Handlers -> {"idle", "forgetting", "saved", "waiting", "ready",
                              "late"}]
      /\ waiters \subseteq 1..n
      /\ lastProjected \in [Aggregates -> 0..MaxEvents]
      /\ pc[h] = "idle"
  BY <1>0 DEF TypeOK, Save
<1> DEFINE v == Cardinality(EventsOf(a)) + 1
<1>4. \A b : Cardinality(EventsOf(b)) \in 0..n /\ IsFiniteSet(EventsOf(b))
  BY <1>0, EventsAreCounted
<1>6. v \in 1..MaxEvents
  BY <1>3, <1>4, ProjectionAssumption
<1> DEFINE e == [agg |-> a, kind |-> k, ver |-> v]
<1>7. e \in Event /\ e.agg = a /\ e.ver = v
  BY <1>6 DEF Event
<1>8. log' = Append(log, e)
  BY <1>1
<1> HIDE DEF e
<1>9. /\ log' \in Seq(Event) /\ Len(log') = n + 1
      /\ log'[n + 1] = e
      /\ \A p \in 1..n : log'[p] = log[p]
  BY <1>3, <1>7, <1>8
<1>10. /\ DOMAIN log = 1..n
       /\ DOMAIN log' = 1..(n + 1)
       /\ n \in Nat
       /\ n + 1 \in Positions
       /\ \A p \in 1..n : p \in Positions /\ p # n + 1
  BY <1>3, <1>9, ProjectionAssumption DEF Positions
<1>11. /\ own' = [own EXCEPT ![h] = n + 1]
       /\ own'[h] = n + 1
       /\ \A g \in Handlers \ {h} : own'[g] = own[g] /\ own[g] \in 0..n
       /\ own' \in [Handlers -> 0..(n + 1)]
  BY <1>3, <1>10 DEF Save
<1>12. /\ pc'[h] \in {"forgetting", "saved"}
       /\ \A g \in Handlers \ {h} : pc'[g] = pc[g]
       /\ pc' \in [Handlers -> {"idle", "forgetting", "saved", "waiting", "ready",
                                "late"}]
  BY <1>1, <1>3
<1>13. /\ \A b : EventsOf(b)' = IF b = a THEN EventsOf(b) \cup {n + 1}
                                         ELSE EventsOf(b)
       /\ \A b : n + 1 \notin EventsOf(b)
  BY <1>7, <1>9, <1>10 DEF EventsOf
<1>14. /\ Cardinality(EventsOf(a)') = v
       /\ \A b : b # a => Cardinality(EventsOf(b)') = Cardinality(EventsOf(b))
  <2>1. Cardinality(EventsOf(a) \cup {n + 1}) = v
    BY <1>4, <1>13, FS_AddElement
  <2> QED
    BY <1>13, <2>1
<1>15. \A p \in 1..n : log[p].agg \in Aggregates /\ log[p].ver \in 1..MaxEvents
  <2>1. \A p \in 1..n : log[p] \in Event
    BY <1>3
  <2> QED
    BY <2>1 DEF Event
<1> HIDE DEF v
<1>16. pos \in 0..n /\ opened \in pos..n
  BY <1>3
<1>17. TypeOK'
  <2>1. /\ pos \in 0..(n + 1) /\ opened \in pos..(n + 1)
        /\ waiters \subseteq 1..(n + 1)
        /\ n + 1 <= MaxEvents
    BY <1>3, <1>10, <1>16, ProjectionAssumption
  <2>2. \A g \in Handlers : pc'[g] # "idle" => own'[g] # 0
    BY <1>10, <1>11, <1>12 DEF TypeOK
  <2>3. TypeOK
    OBVIOUS
  <2> QED
    BY <1>2, <1>9, <1>11, <1>12, <2>1, <2>2, <2>3 DEF TypeOK
<1>18. VersionInv'
  <2>1. \A b \in Aggregates : \A p \in EventsOf(b) :
          p \in 1..n /\ log[p].ver <= Cardinality(EventsOf(b))
    BY <1>10 DEF VersionInv, EventsOf
  <2>2. \A b \in Aggregates \ {a} : \A p \in EventsOf(b)' :
          log'[p].ver <= Cardinality(EventsOf(b)')
    BY <1>9, <1>13, <1>14, <2>1
  <2>3. \A p \in EventsOf(a) : log[p].ver < v
    BY <1>4, <1>15, <2>1 DEF v
  <2>4. \A p \in EventsOf(a)' : log'[p].ver <= Cardinality(EventsOf(a)')
    <3> SUFFICES ASSUME NEW p \in EventsOf(a)'
                 PROVE  log'[p].ver <= v
      BY <1>14
    <3>1. CASE p \in EventsOf(a)
      BY <1>6, <1>9, <1>15, <2>1, <2>3, <3>1
    <3>2. CASE p = n + 1
      BY <1>6, <1>7, <1>9, <3>2
    <3> QED
      BY <1>13, <3>1, <3>2
  <2>5. \A p, q \in 1..(n + 1) :
          p < q /\ log'[p].agg = log'[q].agg => log'[p].ver < log'[q].ver
    <3> SUFFICES ASSUME NEW p \in 1..(n + 1), NEW q \in 1..(n + 1), p < q,
                        log'[p].agg = log'[q].agg
                 PROVE  log'[p].ver < log'[q].ver
      OBVIOUS
    <3>1. p \in 1..n
      BY <1>10
    <3>2. CASE q \in 1..n
      BY <1>9, <1>10, <3>1, <3>2 DEF VersionInv
    <3>3. CASE q = n + 1
      BY <1>7, <1>9, <1>10, <2>3, <3>1, <3>3 DEF EventsOf
    <3> QED
      BY <1>10, <3>2, <3>3
  <2> QED
    BY <1>10, <2>2, <2>4, <2>5 DEF VersionInv
<1>19. TodoInv'
  <2>1. pos # 0 => log'[pos] = log[pos]
    BY <1>9, <1>10, <1>16
  <2>2. todo = <<"view", "notify">> => pos # 0
    BY DEF TodoInv, ComesNext
  <2> QED
    BY <1>2, <2>1, <2>2 DEF TodoInv, ComesNext
<1>20. n + 1 \notin waiters /\ closes[n + 1] = 0
  <2>1. n + 1 \notin waiters
    BY <1>3, <1>10
  <2>2. n + 1 \notin DOMAIN log
    BY <1>10
  <2> QED
    BY <1>10, <2>1, <2>2 DEF ClosedInv
<1>21. OwnInv'
  <2>1. \A g \in Handlers \ {h} : own'[g] # n + 1
    BY <1>10, <1>11
  <2> QED
    BY <1>2, <1>11, <1>12, <1>20, <2>1 DEF OwnInv
<1>22. NoLostWakeup'
  <2>1. \A p \in waiters : log'[p] = log[p]
    BY <1>3, <1>9
  <2> QED
    BY <1>2, <1>11, <1>12, <2>1 DEF NoLostWakeup
<1>23. \A p \in 1..n : AlreadyProjected(p)' <=> AlreadyProjected(p)
  BY <1>2, <1>9 DEF AlreadyProjected
<1>24. lastProjected[a] < v
  BY <1>3, <1>4 DEF NotifiedInv, v
<1>25. ~AlreadyProjected(n + 1)'
  <2>1. lastProjected[a] \in Nat /\ v \in Nat
    BY <1>3, <1>6
  <2>2. ~(lastProjected[a] >= v)
    BY <1>24, <2>1
  <2> QED
    BY <1>2, <1>7, <1>9, <2>2 DEF AlreadyProjected
<1>26. NotifiedInv'
  <2>1. \A b \in Aggregates : lastProjected[b] <= Cardinality(EventsOf(b)')
    <3>1. lastProjected[a] <= v
      BY <1>3, <1>6, <1>24
    <3> QED
      BY <1>14, <3>1 DEF NotifiedInv
  <2> QED
    BY <1>2, <1>10, <1>23, <1>25, <2>1 DEF NotifiedInv
<1>27. ClosedInv'
  BY <1>2, <1>10, <1>11, <1>12, <1>20, <1>23 DEF ClosedInv
<1>28. ReflectedInv'
  <2>1. ~(n + 1 < pos) /\ n + 1 # pos
    BY <1>10, <1>16
  <2>2. \A p \in 1..n : Reflects(p)' <=> Reflects(p)
    BY <1>2, <1>9 DEF Reflects
  <2> QED
    BY <1>2, <1>10, <2>1, <2>2 DEF ReflectedInv, ComesNext
<1>29. MailInv'
  <2>1. ~(n + 1 < pos) /\ n + 1 # pos
    BY <1>10, <1>16
  <2> QED
    BY <1>2, <1>9, <1>10, <2>1 DEF MailInv
<1>30. ReplayInv'
  <2>1. \A b : Applied(b)' = Applied(b) /\ Applied(b) \subseteq 1..n
    <3>1. \A b : \A p \in Applied(b) : p \in 1..n
      BY <1>10 DEF Applied, EventsOf
    <3>2. ~(n + 1 <= pos)
      BY <1>10, <1>16
    <3>3. \A b : Applied(b)' = Applied(b)
      BY <1>2, <1>13, <3>2 DEF Applied, ComesNext
    <3> QED
      BY <3>1, <3>3
  <2>2. \A b, kinds : AppliedOf(b, kinds)' = AppliedOf(b, kinds)
    BY <1>9, <2>1 DEF AppliedOf
  <2>3. \A b, kinds : LastOf(b, kinds)' = Newest(AppliedOf(b, kinds)')
    BY DEF LastOf, Newest, AppliedOf
  <2>4. \A b, kinds : LastOf(b, kinds)' = LastOf(b, kinds)
    BY <2>2, <2>3, LastIsNewest
  <2>5. \A p \in 0..pos : VersionAt(p)' = VersionAt(p)
    BY <1>9, <1>10, <1>16 DEF VersionAt
  <2> QED
    BY <1>2, <2>4, <2>5 DEF ReplayInv, ViewIsReplayOfLog
<1> QED
  BY <1>17, <1>18, <1>19, <1>21, <1>22, <1>26, <1>27, <1>28, <1>29, <1>30

-----------------------------------------------------------------------------
(* The worker.                                                              *)

(* The views are taken from events before the one just opened.              *)
LEMMA OpenNextInv ==
  ASSUME IInv, OpenNext
  PROVE  IInv'
<1> USE DEF IInv
<1>1. UNCHANGED <<log, forgotten, pc, own, pos, todo, projectorErr, failed,
                  views, withSideEffects, reactors, lastProjected, waiters,
                  closes>>
  BY DEF OpenNext, logVars, handlerVars, viewVars, reactorVars, notifierVars
<1>2. /\ pos \in 0..Len(log) /\ opened = pos /\ opened < Len(log)
      /\ Len(log) \in Nat
      /\ opened' = opened + 1
      /\ unrecoverable \subseteq 1..opened
  BY DEF TypeOK, OpenNext
<1>3. /\ unrecoverable \subseteq unrecoverable'
      /\ unrecoverable' \subseteq unrecoverable \cup {opened + 1}
  BY DEF OpenNext
<1>4. TypeOK'
  <2>1. /\ opened' \in pos..Len(log) /\ opened' <= pos + 1
        /\ unrecoverable' \subseteq 1..opened'
    BY <1>2, <1>3
  <2> QED
    BY <1>1, <2>1 DEF TypeOK
<1>5. ReplayInv'
  <2>1. \A a : Applied(a)' = Applied(a)
    BY <1>1 DEF Applied, EventsOf, ComesNext
  <2>2. \A p \in 0..pos : (p \in unrecoverable') = (p \in unrecoverable)
    BY <1>2, <1>3
  <2> QED
    BY <1>1, <2>1, <2>2, SameEventsApplied
<1> QED
  BY <1>1, <1>4, <1>5, Frames

(* The view's turn comes first, so nothing is said of the new event yet.    *)
LEMMA ReceiveInv ==
  ASSUME IInv, Receive
  PROVE  IInv'
<1> USE DEF IInv
<1>1. UNCHANGED <<log, forgotten, pc, own, opened, unrecoverable, failed,
                  views, withSideEffects, reactors, lastProjected, waiters,
                  closes>>
  BY DEF Receive, logVars, handlerVars, viewVars, reactorVars, notifierVars
<1>2. /\ pos \in 0..Len(log) /\ pos < opened /\ pos' = pos + 1
      /\ Len(log) \in Nat
      /\ opened \in pos..Len(log)
      /\ failed \subseteq 1..pos
      /\ DOMAIN log = 1..Len(log)
  BY DEF TypeOK, Receive
<1>3. /\ pos' \in 1..Len(log) /\ pos < pos' /\ pos' # 0 /\ pos' \notin failed
      /\ \A p \in 1..Len(log) : p < pos' => p < pos \/ p = pos
      /\ \A p \in 1..Len(log) : p <= pos' => p <= pos \/ p = pos'
  BY <1>2
<1>4. /\ log[pos'].kind = "registered" => todo' = <<"view", "mail", "notify">>
      /\ log[pos'].kind # "registered" => todo' = <<"view", "notify">>
  BY <1>2, ListenersOf DEF Receive
<1>5. /\ Head(<<"view", "notify">>) = "view"
      /\ Head(<<"view", "mail", "notify">>) = "view"
      /\ <<"view", "notify">> # <<>> /\ <<"view", "mail", "notify">> # <<>>
      /\ <<"view", "notify">> # <<"notify">>
      /\ <<"view", "mail", "notify">> # <<"notify">>
  <2>1. /\ Head(<<"view", "notify">>) = "view"
        /\ Head(<<"view", "mail", "notify">>) = "view"
        /\ Head(<<"notify">>) = "notify"
    OBVIOUS
  <2>2. /\ <<"view", "notify">> # <<>> /\ <<"view", "mail", "notify">> # <<>>
    OBVIOUS
  <2>3. "view" # "notify"
    OBVIOUS
  <2> QED
    BY <2>1, <2>2, <2>3, Zenon
<1>6. /\ todo' # <<>> /\ Head(todo') = "view" /\ todo' # <<"notify">>
      /\ todo' \in {<<"view", "notify">>, <<"view", "mail", "notify">>}
  BY <1>4, <1>5, Zenon
<1>7. /\ todo = <<>> /\ ~ComesNext("view") /\ ComesNext("view")'
  BY <1>6 DEF Receive, ComesNext
<1>8. projectorErr' = FALSE
  BY DEF Receive
<1>9. TypeOK'
  <2>1. /\ <<"view", "notify">> \in Seq({"view", "mail", "notify"})
        /\ <<"view", "mail", "notify">> \in Seq({"view", "mail", "notify"})
    OBVIOUS
  <2>2. todo' \in Seq({"view", "mail", "notify"})
    BY <1>6, <2>1, Zenon
  <2>3. /\ pos' \in 0..Len(log) /\ opened \in pos'..Len(log)
        /\ opened <= pos' + 1
        /\ failed \subseteq 1..pos'
    BY <1>2 DEF TypeOK
  <2> QED
    BY <1>1, <1>8, <2>2, <2>3 DEF TypeOK
<1>10. TodoInv'
  <2>1. todo' = <<"view", "notify">> => log[pos'].kind # "registered"
    <3>1. Len(<<"view", "notify">>) = 2 /\ Len(<<"view", "mail", "notify">>) = 3
      OBVIOUS
    <3>2. 2 # 3
      OBVIOUS
    <3> QED
      BY <1>4, <3>1, <3>2, Zenon
  <2>2. todo' \in {<<>>, <<"notify">>, <<"view", "notify">>,
                   <<"mail", "notify">>, <<"view", "mail", "notify">>}
    BY <1>6, Zenon
  <2>3. log' = log /\ pos' # 0 /\ ~projectorErr' /\ pos' \notin failed'
    BY <1>1, <1>3, <1>8
  <2> QED
    BY <2>1, <2>2, <2>3, Zenon DEF TodoInv
<1>11. NotifiedInv'
  <2>1. \A p \in DOMAIN log : AlreadyProjected(p) => p < pos'
    BY <1>2, <1>3, <1>7 DEF NotifiedInv
  <2>2. \A p : AlreadyProjected(p)' <=> AlreadyProjected(p)
    BY <1>1 DEF AlreadyProjected
  <2>3. \A a : EventsOf(a)' = EventsOf(a)
    BY <1>1 DEF EventsOf
  <2> QED
    BY <1>1, <2>1, <2>2, <2>3 DEF NotifiedInv
<1>12. ReflectedInv'
  <2>1. \A p : Reflects(p)' <=> Reflects(p)
    BY <1>1 DEF Reflects
  <2> QED
    BY <1>1, <1>2, <1>3, <1>7, <2>1 DEF ReflectedInv
<1>13. MailInv'
  <2>1. \A p \in DOMAIN log :
          p < pos' \/ (p = pos' /\ todo' \in {<<>>, <<"notify">>})
            => p < pos \/ (p = pos /\ todo \in {<<>>, <<"notify">>})
    BY <1>2, <1>3, <1>6, <1>7
  <2> QED
    BY <1>1, <2>1 DEF MailInv
<1>14. ReplayInv'
  <2>1. \A a : Applied(a)' = Applied(a)
    <3>1. \A a : EventsOf(a)' = EventsOf(a)
      BY <1>1 DEF EventsOf
    <3>2. \A a : EventsOf(a) \subseteq 1..Len(log)
      BY <1>2 DEF EventsOf
    <3>3. \A p \in 1..Len(log) :
            /\ p <= pos /\ ~(p = pos /\ ComesNext("view"))
            <=> p <= pos' /\ ~(p = pos' /\ ComesNext("view")')
      BY <1>2, <1>3, <1>7
    <3> QED
      BY <1>1, <3>1, <3>2, <3>3 DEF Applied
  <2>2. 0..pos \subseteq 0..pos'
    BY <1>2
  <2> QED
    BY <1>1, <2>1, <2>2, SameEventsApplied
<1> QED
  BY <1>1, <1>9, <1>10, <1>11, <1>12, <1>13, <1>14, Frames

(* What any call of a listener leaves to the next ones.                     *)
LEMMA ListenerCalled ==
  ASSUME IInv, ComesNext("view") \/ ComesNext("mail") \/ ComesNext("notify"),
         todo' = Tail(todo), UNCHANGED <<log, pos>>
  PROVE  /\ todo' \in {<<>>, <<"notify">>, <<"mail", "notify">>}
         /\ todo' \in Seq({"view", "mail", "notify"})
         /\ ~ComesNext("view")'
         /\ TodoInv'
         /\ pos \in DOMAIN log
         /\ lastProjected' = lastProjected => NotifiedInv'
<1> USE DEF IInv
<1>1. todo' \in {<<>>, <<"notify">>, <<"mail", "notify">>}
  BY WhatIsLeft, Zenon
<1>2. ~ComesNext("view")'
  BY <1>1, ViewIsOver, Zenon DEF ComesNext
<1>3. todo' \in Seq({"view", "mail", "notify"})
  <2>1. /\ <<>> \in Seq({"view", "mail", "notify"})
        /\ <<"notify">> \in Seq({"view", "mail", "notify"})
        /\ <<"mail", "notify">> \in Seq({"view", "mail", "notify"})
    OBVIOUS
  <2> QED
    BY <1>1, <2>1, Zenon
<1>4. todo # <<>> /\ pos # 0
  BY Zenon DEF ComesNext, TodoInv
<1>5. TodoInv'
  <2>1. todo' # <<"view", "notify">>
    BY <1>1, ViewIsOver, Zenon
  <2>2. todo' \in {<<>>, <<"notify">>, <<"view", "notify">>,
                   <<"mail", "notify">>, <<"view", "mail", "notify">>}
    BY <1>1, Zenon
  <2>3. pos' # 0
    BY <1>4
  <2> QED
    BY <1>2, <2>1, <2>2, <2>3, Zenon DEF TodoInv
<1>6. pos \in DOMAIN log
  BY <1>4 DEF TypeOK
<1>7. lastProjected' = lastProjected => NotifiedInv'
  BY <1>4 DEF NotifiedInv, AlreadyProjected, EventsOf
<1> QED
  BY <1>1, <1>2, <1>3, <1>5, <1>6, <1>7

LEMMA StartReactorInv ==
  ASSUME IInv, StartReactor
  PROVE  IInv'
<1> USE DEF IInv
<1>1. UNCHANGED <<log, forgotten, pc, own, opened, unrecoverable, pos,
                  projectorErr, failed, views, withSideEffects, lastProjected,
                  waiters, closes>>
  BY DEF StartReactor, logVars, handlerVars, viewVars, notifierVars
<1>2. /\ ComesNext("mail")
      /\ todo' = Tail(todo)
      /\ reactors' = [reactors EXCEPT ![pos] = IF withSideEffects THEN "running"
                                                                  ELSE @]
  BY DEF StartReactor, StartsReactor
<1>3. /\ todo' \in Seq({"view", "mail", "notify"})
      /\ ~ComesNext("view")'
      /\ TodoInv' /\ NotifiedInv'
      /\ pos \in DOMAIN log
  BY <1>1, <1>2, ListenerCalled
<1>4. ~ComesNext("view")
  BY <1>2 DEF ComesNext
<1>5. /\ reactors \in [Positions -> {"none", "running", "ended"}]
      /\ pos \in Positions
      /\ DOMAIN log \subseteq Positions
  BY <1>3, ProjectionAssumption DEF TypeOK, Positions
<1>6. /\ reactors' \in [Positions -> {"none", "running", "ended"}]
      /\ withSideEffects => reactors'[pos] = "running"
      /\ ~withSideEffects => reactors' = reactors
      /\ \A p \in Positions \ {pos} : reactors'[p] = reactors[p]
  BY <1>2, <1>5
<1>7. TypeOK'
  BY <1>1, <1>3, <1>6 DEF TypeOK
<1>8. ReflectedInv'
  BY <1>1, <1>3, <1>4 DEF ReflectedInv, Reflects
<1>9. MailInv'
  BY <1>1, <1>6 DEF MailInv
<1>10. ReplayInv'
  <2>1. \A a : Applied(a)' = Applied(a)
    BY <1>1, <1>3, <1>4 DEF Applied, EventsOf
  <2> QED
    BY <1>1, <2>1, SameEventsApplied
<1> QED
  BY <1>1, <1>3, <1>7, <1>8, <1>9, <1>10, Frames

(* Only the notifier comes after a projector that failed.                   *)
LEMMA SkipProjectorInv ==
  ASSUME IInv, SkipProjector
  PROVE  IInv'
<1> USE DEF IInv
<1>1. UNCHANGED <<log, forgotten, pc, own, opened, unrecoverable, pos,
                  projectorErr, failed, views, withSideEffects, reactors,
                  lastProjected, waiters, closes>>
  BY DEF SkipProjector, logVars, handlerVars, viewVars, reactorVars, notifierVars
<1>2. ComesNext("notify") /\ todo' = Tail(todo)
  BY DEF SkipProjector, TodoInv
<1>3. /\ todo' \in Seq({"view", "mail", "notify"})
      /\ ~ComesNext("view")'
      /\ TodoInv' /\ NotifiedInv'
  BY <1>1, <1>2, ListenerCalled
<1>4. ~ComesNext("view") /\ todo = <<"notify">> /\ todo' = <<>>
  BY <1>2, WhatIsLeft DEF ComesNext
<1>5. TypeOK'
  BY <1>1, <1>3 DEF TypeOK
<1>6. ReflectedInv'
  BY <1>1, <1>3, <1>4 DEF ReflectedInv, Reflects
<1>7. MailInv'
  BY <1>1, <1>4 DEF MailInv
<1>8. ReplayInv'
  <2>1. \A a : Applied(a)' = Applied(a)
    BY <1>1, <1>3, <1>4 DEF Applied, EventsOf
  <2> QED
    BY <1>1, <2>1, SameEventsApplied
<1> QED
  BY <1>1, <1>3, <1>5, <1>6, <1>7, <1>8, Frames

(* A failed projector leaves the views, but its event is excused.           *)
LEMMA ProjectorFailsInv ==
  ASSUME IInv, ProjectorFails
  PROVE  IInv'
<1> USE DEF IInv
<1>1. UNCHANGED <<log, forgotten, pc, own, opened, unrecoverable, pos, views,
                  withSideEffects, reactors, lastProjected, waiters, closes>>
  BY DEF ProjectorFails, logVars, handlerVars, reactorVars, notifierVars
<1>2. /\ ComesNext("view") /\ todo' = Tail(todo)
      /\ failed' = failed \cup {pos} /\ projectorErr' = TRUE
  BY DEF ProjectorFails
<1>3. /\ todo' \in Seq({"view", "mail", "notify"})
      /\ ~ComesNext("view")'
      /\ TodoInv' /\ NotifiedInv'
      /\ pos \in DOMAIN log
  BY <1>1, <1>2, ListenerCalled
<1>4. TypeOK'
  <2>1. failed' \subseteq 1..pos
    <3>1. pos \in Nat /\ pos # 0 /\ failed \subseteq 1..pos
      BY <1>3 DEF TypeOK
    <3> QED
      BY <1>2, <3>1
  <2> QED
    BY <1>1, <1>2, <1>3, <2>1 DEF TypeOK
<1>5. ReflectedInv'
  BY <1>1, <1>2, <1>3 DEF ReflectedInv, Reflects
<1>6. MailInv'
  <2>1. todo' \in {<<>>, <<"notify">>} => log[pos].kind # "registered"
    BY <1>2, WhatIsLeft, ViewIsOver, Zenon DEF TodoInv
  <2> QED
    BY <1>1, <2>1 DEF MailInv
<1>7. ReplayInv'
  <2>1. \A a : Applied(a)' = Applied(a)
    BY <1>1, <1>2, <1>3 DEF Applied, EventsOf
  <2> QED
    BY <1>1, <2>1, SameEventsApplied
<1> QED
  BY <1>1, <1>3, <1>4, <1>5, <1>6, <1>7, Frames

(* The event becomes the last applied one for every text it sets.           *)
LEMMA ProjectViewInv ==
  ASSUME IInv, ProjectView
  PROVE  IInv'
<1> USE DEF IInv
<1>1. UNCHANGED <<log, forgotten, pc, own, opened, unrecoverable, pos,
                  projectorErr, failed, withSideEffects, reactors,
                  lastProjected, waiters, closes>>
  BY DEF ProjectView, logVars, handlerVars, reactorVars, notifierVars
<1>2. /\ ComesNext("view") /\ todo' = Tail(todo)
      /\ views' = [views EXCEPT ![log[pos].agg] =
                     Projected(@, log[pos], pos \in unrecoverable)]
  BY DEF ProjectView
<1>3. /\ todo' \in Seq({"view", "mail", "notify"})
      /\ ~ComesNext("view")'
      /\ TodoInv' /\ NotifiedInv'
      /\ pos \in DOMAIN log
  BY <1>1, <1>2, ListenerCalled
<1>4. pos \notin failed
  BY <1>2 DEF TodoInv
<1>5. PICK e : e = log[pos]
  OBVIOUS
<1>6. /\ e \in Event
      /\ e.agg \in Aggregates /\ e.kind \in Kinds /\ e.ver \in 1..MaxEvents
      /\ e.ver \in Nat
  <2>1. e \in Event
    BY <1>3, <1>5 DEF TypeOK
  <2> QED
    BY <2>1, ProjectionAssumption DEF Event
<1>7. views \in [Aggregates -> View]
  BY DEF TypeOK
<1>8. PICK lost \in BOOLEAN : lost = (pos \in unrecoverable)
  <2>1. CASE pos \in unrecoverable
    <3>1. TRUE = (pos \in unrecoverable)
      BY <2>1
    <3> QED
      BY <3>1, Zenon
  <2>2. CASE pos \notin unrecoverable
    <3>1. FALSE = (pos \in unrecoverable)
      BY <2>2
    <3> QED
      BY <3>1, Zenon
  <2> QED
    BY <2>1, <2>2
<1>9. PICK old : old = views[e.agg]
  OBVIOUS
<1>10. /\ old \in View
       /\ old.ver \in 0..MaxEvents /\ old.email \in 0..MaxEvents
       /\ old.erased \in BOOLEAN /\ old.name \in 0..MaxEvents
  <2>1. old \in View
    BY <1>6, <1>7, <1>9
  <2> QED
    BY <2>1 DEF View
<1>11. PICK new : new = Projected(old, e, lost)
  OBVIOUS
<1>12. /\ new.ver = e.ver
       /\ new.email = IF e.kind \in Personal THEN e.ver ELSE old.email
       /\ new.erased = IF e.kind \in Personal THEN lost ELSE old.erased
       /\ new.name = IF e.kind \in {"registered", "name"} THEN e.ver ELSE old.name
       /\ new = [ver |-> new.ver, email |-> new.email, erased |-> new.erased,
                 name |-> new.name]
  BY <1>11 DEF Projected
<1>13. new \in View
  <2>1. /\ e.ver \in 0..MaxEvents
    BY <1>6, ProjectionAssumption
  <2>2. new.ver \in 0..MaxEvents /\ new.email \in 0..MaxEvents
        /\ new.name \in 0..MaxEvents
    BY <1>10, <1>12, <2>1
  <2>3. new.erased \in BOOLEAN
    BY <1>10, <1>12, Zenon
  <2> QED
    BY <1>12, <2>2, <2>3 DEF View
<1>14. /\ views' \in [Aggregates -> View]
       /\ views'[e.agg] = new
       /\ \A a \in Aggregates \ {e.agg} : views'[a] = views[a]
  <2>1. views' = [views EXCEPT ![e.agg] = new]
    BY <1>2, <1>5, <1>8, <1>9, <1>11
  <2> QED
    BY <1>6, <1>7, <1>13, <2>1
<1>15. /\ DOMAIN log = 1..Len(log) /\ Len(log) \in Nat /\ pos \in Nat /\ pos # 0
       /\ \A p \in DOMAIN log : log[p].agg \in Aggregates /\ log[p].ver \in Nat
  <2>1. \A p \in DOMAIN log : log[p] \in Event
    BY DEF TypeOK
  <2>2. \A p \in DOMAIN log : log[p].agg \in Aggregates /\ log[p].ver \in Nat
    BY <2>1, ProjectionAssumption DEF Event
  <2> QED
    BY <1>3, <2>2 DEF TypeOK
<1>16. TypeOK'
  BY <1>1, <1>3, <1>14 DEF TypeOK
<1>17. ReflectedInv'
  <2> SUFFICES ASSUME NEW p \in DOMAIN log, p < pos \/ p = pos, p \notin failed
               PROVE  Reflects(p)'
    BY <1>1 DEF ReflectedInv
  <2>1. CASE p = pos
    <3>1. log'[p] = e /\ views'[log'[p].agg] = new
      BY <1>1, <1>5, <1>14, <2>1
    <3> QED
      BY <1>6, <1>12, <3>1 DEF Reflects
  <2>2. CASE p < pos /\ log[p].agg = e.agg
    <3>1. log[p].ver < e.ver
      BY <1>3, <1>5, <2>2 DEF VersionInv
    <3>2. /\ old.ver >= log[p].ver
          /\ log[p].kind \in Personal => old.email >= log[p].ver
          /\ log[p].kind \in {"registered", "name"} => old.name >= log[p].ver
      BY <1>9, <2>2 DEF ReflectedInv, Reflects
    <3>3. e.ver >= log[p].ver
      BY <1>6, <1>15, <3>1
    <3>4. /\ new.ver >= log[p].ver
          /\ log[p].kind \in Personal => new.email >= log[p].ver
          /\ log[p].kind \in {"registered", "name"} => new.name >= log[p].ver
      BY <1>12, <3>2, <3>3
    <3>5. log'[p] = log[p] /\ views'[log'[p].agg] = new
      BY <1>1, <1>14, <2>2
    <3> QED
      BY <3>4, <3>5 DEF Reflects
  <2>3. CASE p < pos /\ log[p].agg # e.agg
    <3>1. Reflects(p)
      BY <2>3 DEF ReflectedInv
    <3>2. log'[p] = log[p] /\ views'[log[p].agg] = views[log[p].agg]
      BY <1>1, <1>14, <1>15, <2>3
    <3> QED
      BY <3>1, <3>2 DEF Reflects
  <2> QED
    BY <2>1, <2>2, <2>3
<1>18. MailInv'
  <2>1. todo' \in {<<>>, <<"notify">>} => log[pos].kind # "registered"
    BY <1>2, WhatIsLeft, ViewIsOver, Zenon DEF TodoInv
  <2> QED
    BY <1>1, <2>1 DEF MailInv
<1>19. ReplayInv'
  <2>1. \A a : Applied(a)' = IF a = e.agg THEN Applied(a) \cup {pos} ELSE Applied(a)
    <3>1. \A a : EventsOf(a)' = EventsOf(a)
      BY <1>1 DEF EventsOf
    <3>2. \A a : pos \in EventsOf(a) <=> a = e.agg
      BY <1>3, <1>5 DEF EventsOf
    <3>3. \A a : Applied(a)' = {p \in EventsOf(a) : p <= pos /\ p \notin failed}
      BY <1>1, <1>3, <3>1 DEF Applied
    <3>4. \A a : Applied(a) =
                   {p \in EventsOf(a) : p <= pos /\ p \notin failed /\ p # pos}
      BY <1>2 DEF Applied
    <3>5. pos <= pos
      BY <1>15
    <3> QED
      BY <1>4, <3>2, <3>3, <3>4, <3>5
  <2>2. \A a, kinds :
          AppliedOf(a, kinds)' = IF a = e.agg /\ e.kind \in kinds
                                   THEN AppliedOf(a, kinds) \cup {pos}
                                   ELSE AppliedOf(a, kinds)
    BY <1>1, <1>5, <2>1 DEF AppliedOf
  <2>3. \A a, kinds : /\ AppliedOf(a, kinds) \subseteq Nat
                      /\ \A q \in AppliedOf(a, kinds) : q < pos
    <3> SUFFICES ASSUME NEW a, NEW kinds, NEW q \in AppliedOf(a, kinds)
                 PROVE  q \in Nat /\ q < pos
      OBVIOUS
    <3>1. q \in 1..Len(log) /\ q <= pos /\ q # pos
      BY <1>2, <1>15 DEF AppliedOf, Applied, EventsOf
    <3> QED
      BY <1>15, <3>1
  <2>4. \A a, kinds : LastOf(a, kinds)' = Newest(AppliedOf(a, kinds)')
    BY DEF LastOf, Newest, AppliedOf
  <2>5. \A a, kinds :
          LastOf(a, kinds)' = IF a = e.agg /\ e.kind \in kinds
                                THEN pos ELSE LastOf(a, kinds)
    <3> SUFFICES ASSUME NEW a, NEW kinds
                 PROVE  Newest(AppliedOf(a, kinds)') =
                          IF a = e.agg /\ e.kind \in kinds
                            THEN pos ELSE Newest(AppliedOf(a, kinds))
      BY <2>4, LastIsNewest
    <3>1. Newest(AppliedOf(a, kinds) \cup {pos}) = pos
      BY <1>15, <2>3, NewestJoins
    <3> QED
      BY <2>2, <3>1
  <2>6. \A p : VersionAt(p)' = VersionAt(p)
    BY <1>1 DEF VersionAt
  <2>7. VersionAt(pos) = e.ver
    BY <1>5, <1>15 DEF VersionAt
  <2>8. /\ old.ver = VersionAt(LastOf(e.agg, Kinds))
        /\ old.email = VersionAt(LastOf(e.agg, Personal))
        /\ old.erased = (LastOf(e.agg, Personal) \in unrecoverable)
        /\ old.name = VersionAt(LastOf(e.agg, {"registered", "name"}))
    <3>1. old =
            [ver    |-> VersionAt(LastOf(e.agg, Kinds)),
             email  |-> VersionAt(LastOf(e.agg, Personal)),
             erased |-> LastOf(e.agg, Personal) \in unrecoverable,
             name   |-> VersionAt(LastOf(e.agg, {"registered", "name"}))]
      BY <1>6, <1>9, Zenon DEF ReplayInv, ViewIsReplayOfLog
    <3> QED
      BY <3>1, Zenon
  <2>9. /\ new.ver = VersionAt(LastOf(e.agg, Kinds)')
        /\ new.email = VersionAt(LastOf(e.agg, Personal)')
        /\ new.name = VersionAt(LastOf(e.agg, {"registered", "name"})')
    BY <1>6, <1>12, <2>5, <2>7, <2>8
  <2>10. new.erased = (LastOf(e.agg, Personal)' \in unrecoverable)
    BY <1>8, <1>12, <2>5, <2>8, Zenon
  <2>11. \A a \in Aggregates \ {e.agg} : \A kinds :
           LastOf(a, kinds)' = LastOf(a, kinds)
    BY <2>5
  <2>12. ViewIsReplayOfLog'
    <3> SUFFICES ASSUME NEW a \in Aggregates
                 PROVE  views'[a] =
                   [ver    |-> VersionAt(LastOf(a, Kinds))',
                    email  |-> VersionAt(LastOf(a, Personal))',
                    erased |-> (LastOf(a, Personal) \in unrecoverable)',
                    name   |-> VersionAt(LastOf(a, {"registered", "name"}))']
      BY DEF ViewIsReplayOfLog
    <3>1. /\ VersionAt(LastOf(a, Kinds))' = VersionAt(LastOf(a, Kinds)')
          /\ VersionAt(LastOf(a, Personal))' = VersionAt(LastOf(a, Personal)')
          /\ VersionAt(LastOf(a, {"registered", "name"}))'
               = VersionAt(LastOf(a, {"registered", "name"})')
          /\ (LastOf(a, Personal) \in unrecoverable)'
               = (LastOf(a, Personal)' \in unrecoverable)
      BY <1>1, <2>6
    <3>2. CASE a = e.agg
      BY <1>12, <1>14, <2>9, <2>10, <3>1, <3>2
    <3>3. CASE a # e.agg
      BY <1>14, <2>11, <3>1, <3>3 DEF ReplayInv, ViewIsReplayOfLog
    <3> QED
      BY <3>2, <3>3
  <2>13. \A a, kinds : LastOf(a, kinds) \in 0..pos => LastOf(a, kinds)' \in 0..pos
    BY <1>15, <2>5
  <2> QED
    BY <1>1, <2>12, <2>13 DEF ReplayInv
<1> QED
  BY <1>1, <1>3, <1>16, <1>17, <1>18, <1>19, Frames

(* Who is woken waited for a version the notifier now has.                  *)
LEMMA NotifyInv ==
  ASSUME IInv, Notify
  PROVE  IInv'
<1> USE DEF IInv
<1>1. UNCHANGED <<log, forgotten, pc, own, opened, unrecoverable, pos,
                  projectorErr, failed, views, withSideEffects, reactors>>
  BY DEF Notify, logVars, handlerVars, viewVars, reactorVars
<1>2. PICK e : e = log[pos]
  OBVIOUS
<1>3. /\ ComesNext("notify") /\ todo' = Tail(todo)
      /\ lastProjected' =
           [lastProjected EXCEPT ![e.agg] = IF e.ver > @ THEN e.ver ELSE @]
      /\ closes' = [p \in Positions |->
                      closes[p] + IF p \in Satisfied(e) THEN 1 ELSE 0]
      /\ waiters' = waiters \ Satisfied(e)
  BY <1>2 DEF Notify, StillWaiting
<1>4. /\ todo' \in Seq({"view", "mail", "notify"})
      /\ ~ComesNext("view")'
      /\ TodoInv'
      /\ pos \in DOMAIN log
  BY <1>1, <1>3, ListenerCalled
<1>5. ~ComesNext("view") /\ todo = <<"notify">> /\ todo' = <<>>
  BY <1>3, WhatIsLeft DEF ComesNext
<1>6. /\ DOMAIN log = 1..Len(log) /\ Len(log) \in Nat /\ pos \in Nat
      /\ \A p \in DOMAIN log : /\ log[p].agg \in Aggregates
                               /\ log[p].ver \in 1..MaxEvents
                               /\ log[p].ver \in Nat
                               /\ p \in Positions
  <2>1. \A p \in DOMAIN log : log[p] \in Event
    BY DEF TypeOK
  <2>2. \A p \in DOMAIN log : log[p].agg \in Aggregates /\ log[p].ver \in 1..MaxEvents
    BY <2>1 DEF Event
  <2>3. \A m \in 1..MaxEvents : m \in Nat
    BY ProjectionAssumption
  <2>4. \A p \in DOMAIN log : p \in Positions
    BY ProjectionAssumption DEF TypeOK, Positions
  <2> QED
    BY <1>4, <2>2, <2>3, <2>4 DEF TypeOK
<1>7. /\ e.agg \in Aggregates /\ e.ver \in Nat /\ e.ver \in 0..MaxEvents
  BY <1>2, <1>4, <1>6, ProjectionAssumption
<1>8. /\ lastProjected \in [Aggregates -> 0..MaxEvents]
      /\ \A a \in Aggregates : lastProjected[a] \in Nat
      /\ closes \in [Positions -> 0..1]
      /\ waiters \subseteq DOMAIN log
      /\ own \in [Handlers -> 0..Len(log)]
      /\ \A h \in Handlers : pc[h] # "idle" => own[h] # 0
  BY <1>6, ProjectionAssumption DEF TypeOK
<1>9. /\ lastProjected' \in [Aggregates -> 0..MaxEvents]
      /\ \A a \in Aggregates : /\ lastProjected'[a] \in Nat
                               /\ lastProjected'[a] >= lastProjected[a]
      /\ lastProjected'[e.agg] >= e.ver
      /\ lastProjected'[e.agg] \in {e.ver, lastProjected[e.agg]}
      /\ \A a \in Aggregates \ {e.agg} : lastProjected'[a] = lastProjected[a]
  <2>1. lastProjected' \in [Aggregates -> 0..MaxEvents]
    BY <1>3, <1>7, <1>8
  <2>2. /\ lastProjected'[e.agg] = IF e.ver > lastProjected[e.agg]
                                     THEN e.ver ELSE lastProjected[e.agg]
        /\ \A a \in Aggregates \ {e.agg} : lastProjected'[a] = lastProjected[a]
    BY <1>3, <1>7, <1>8
  <2>3. \A m, n \in Nat : /\ (IF m > n THEN m ELSE n) >= n
                          /\ (IF m > n THEN m ELSE n) >= m
                          /\ (IF m > n THEN m ELSE n) \in {m, n}
                          /\ n >= n
    OBVIOUS
  <2>4. \A a \in Aggregates : lastProjected'[a] \in Nat
    BY <2>1, ProjectionAssumption
  <2>5. /\ lastProjected'[e.agg] >= lastProjected[e.agg]
        /\ lastProjected'[e.agg] >= e.ver
        /\ lastProjected'[e.agg] \in {e.ver, lastProjected[e.agg]}
    BY <1>7, <1>8, <2>2, <2>3
  <2>6. \A a \in Aggregates : lastProjected'[a] >= lastProjected[a]
    BY <1>8, <2>2, <2>3, <2>5
  <2> QED
    BY <2>1, <2>2, <2>4, <2>5, <2>6
<1>10. Satisfied(e) = {p \in waiters : log[p].agg = e.agg /\ e.ver >= log[p].ver}
  BY DEF Satisfied
<1> PICK S : S = Satisfied(e)
  OBVIOUS
<1>11. /\ S \subseteq waiters
       /\ \A p \in S : p \in DOMAIN log /\ p \in Positions /\ closes[p] = 0
       /\ \A p \in S : log[p].agg = e.agg /\ e.ver >= log[p].ver
       /\ \A p \in waiters \ S : log[p].agg # e.agg \/ e.ver < log[p].ver
  BY <1>6, <1>7, <1>8, <1>10 DEF NoLostWakeup
<1>12. /\ closes' \in [Positions -> 0..1]
       /\ \A p \in S : closes'[p] = 1
       /\ \A p \in Positions \ S : closes'[p] = closes[p]
       /\ waiters' = waiters \ S
  BY <1>3, <1>8, <1>11
<1>13. \A h \in Handlers : pc[h] # "idle" => own[h] \in Positions
  <2>1. \A m \in 0..Len(log) : m # 0 => m \in DOMAIN log
    BY <1>6
  <2> QED
    BY <1>6, <1>8, <2>1
<1>14. TypeOK'
  BY <1>1, <1>4, <1>9, <1>12 DEF TypeOK
<1>15. OwnInv'
  BY <1>1, <1>11, <1>12, <1>13 DEF OwnInv
<1>16. NoLostWakeup'
  <2>1. \A p \in waiters \ S :
          closes'[p] = 0 /\ lastProjected'[log[p].agg] < log[p].ver
    <3> SUFFICES ASSUME NEW p \in waiters \ S
                 PROVE  closes'[p] = 0 /\ lastProjected'[log[p].agg] < log[p].ver
      OBVIOUS
    <3>1. closes[p] = 0 /\ lastProjected[log[p].agg] < log[p].ver
      BY DEF NoLostWakeup
    <3>2. p \in Positions /\ log[p].agg \in Aggregates
      BY <1>6, <1>8
    <3> QED
      BY <1>9, <1>11, <1>12, <3>1, <3>2
  <2>2. ASSUME NEW h \in Handlers, pc[h] = "waiting"
        PROVE  own[h] \in waiters \ S \/ closes'[own[h]] = 1
    BY <1>12, <1>13, <2>2 DEF NoLostWakeup
  <2> QED
    BY <1>1, <1>12, <2>1, <2>2 DEF NoLostWakeup
<1>17. NotifiedInv'
  <2>1. \A a : EventsOf(a)' = EventsOf(a)
    BY <1>1 DEF EventsOf
  <2>2. e.ver <= Cardinality(EventsOf(e.agg))
    <3>1. pos \in EventsOf(e.agg)
      BY <1>2, <1>4 DEF EventsOf
    <3> QED
      BY <1>2, <1>7, <3>1 DEF VersionInv
  <2>3. \A a \in Aggregates : lastProjected'[a] <= Cardinality(EventsOf(a))
    BY <1>7, <1>9, <2>2 DEF NotifiedInv
  <2>4. ASSUME NEW p \in DOMAIN log, lastProjected'[log[p].agg] >= log[p].ver
        PROVE  p < pos \/ p = pos
    <3>1. CASE AlreadyProjected(p)
      BY <3>1 DEF NotifiedInv
    <3>2. CASE ~AlreadyProjected(p)
      <4>1. log[p].agg = e.agg /\ lastProjected'[e.agg] = e.ver
        BY <1>6, <1>9, <2>4, <3>2 DEF AlreadyProjected
      <4>2. log[pos].ver >= log[p].ver /\ log[pos].agg = log[p].agg
        BY <1>2, <2>4, <4>1
      <4>3. ~(pos < p)
        BY <1>4, <1>6, <4>2 DEF VersionInv
      <4> QED
        BY <1>6, <4>3
    <3> QED
      BY <3>1, <3>2
  <2>5. \A p \in DOMAIN log :
          AlreadyProjected(p)' => lastProjected'[log[p].agg] >= log[p].ver
    BY <1>1 DEF AlreadyProjected
  <2> QED
    BY <1>1, <1>5, <2>1, <2>3, <2>4, <2>5 DEF NotifiedInv
<1>18. ClosedInv'
  <2>1. ASSUME NEW p \in Positions, closes'[p] # 0
        PROVE  p \in DOMAIN log /\ lastProjected'[log[p].agg] >= log[p].ver
    <3>1. CASE p \in S
      BY <1>6, <1>7, <1>9, <1>11, <3>1
    <3>2. CASE p \notin S
      <4>1. p \in DOMAIN log /\ lastProjected[log[p].agg] >= log[p].ver
        BY <1>12, <2>1, <3>2 DEF ClosedInv, AlreadyProjected
      <4> QED
        BY <1>6, <1>8, <1>9, <4>1
    <3> QED
      BY <3>1, <3>2
  <2>2. ASSUME NEW h \in Handlers, pc[h] = "ready"
        PROVE  closes'[own[h]] # 0
    BY <1>12, <1>13, <2>2 DEF ClosedInv
  <2> QED
    BY <1>1, <2>1, <2>2 DEF ClosedInv, AlreadyProjected
<1>19. ReflectedInv'
  BY <1>1, <1>4, <1>5 DEF ReflectedInv, Reflects
<1>20. MailInv'
  BY <1>1, <1>5 DEF MailInv
<1>21. ReplayInv'
  <2>1. \A a : Applied(a)' = Applied(a)
    BY <1>1, <1>4, <1>5 DEF Applied, EventsOf
  <2> QED
    BY <1>1, <2>1, SameEventsApplied
<1>22. VersionInv'
  BY <1>1, Frames
<1> QED
  BY <1>4, <1>14, <1>15, <1>16, <1>17, <1>18, <1>19, <1>20, <1>21, <1>22

LEMMA ReactorEndsInv ==
  ASSUME IInv, NEW p \in Positions, ReactorEnds(p)
  PROVE  IInv'
<1> USE DEF IInv
<1>1. UNCHANGED <<log, forgotten, pc, own, opened, unrecoverable, pos, todo,
                  projectorErr, failed, views, withSideEffects, lastProjected,
                  waiters, closes>>
  BY DEF ReactorEnds, logVars, handlerVars, workerVars, viewVars, notifierVars
<1>2. reactors[p] = "running" /\ reactors' = [reactors EXCEPT ![p] = "ended"]
  BY DEF ReactorEnds
<1>3. reactors \in [Positions -> {"none", "running", "ended"}]
  BY DEF TypeOK
<1>4. TypeOK'
  BY <1>1, <1>2, <1>3 DEF TypeOK
<1>5. MailInv'
  BY <1>1, <1>2, <1>3 DEF MailInv
<1> QED
  BY <1>1, <1>4, <1>5, Frames

-----------------------------------------------------------------------------
LEMMA NextInv == IInv /\ [Next]_vars => IInv'
<1> SUFFICES ASSUME IInv, [Next]_vars
             PROVE  IInv'
  OBVIOUS
<1>1. CASE Next
  <2>1. ASSUME NEW h \in Handlers, HandlerStep(h)
        PROVE  IInv'
    BY <2>1, SaveInv, ForgetInv, AnswerInv, SubscribeInv, WakeInv
       DEF HandlerStep
  <2>2. CASE WorkerStep
    BY <2>2, OpenNextInv, ReceiveInv, StartReactorInv, SkipProjectorInv,
       ProjectViewInv, ProjectorFailsInv, NotifyInv DEF WorkerStep, Dispatching
  <2>3. ASSUME NEW p \in Positions, ReactorEnds(p)
        PROVE  IInv'
    BY <2>3, ReactorEndsInv
  <2> QED
    BY <1>1, <2>1, <2>2, <2>3 DEF Next
<1>2. CASE UNCHANGED vars
  <2>1. UNCHANGED <<log, forgotten, pc, own, opened, unrecoverable, pos, todo,
                    projectorErr, failed, views, withSideEffects, reactors,
                    lastProjected, waiters, closes>>
    BY <1>2 DEF vars, logVars, handlerVars, workerVars, viewVars, reactorVars,
                notifierVars
  <2>2. TypeOK'
    BY <2>1 DEF IInv, TypeOK
  <2> QED
    BY <2>1, <2>2, Frames DEF IInv
<1> QED
  BY <1>1, <1>2

LEMMA InvHolds == Spec => []IInv
  BY InvHoldsInitially, NextInv, PTL DEF Spec

(* Types, and no channel of the notifier is ever closed twice, which would  *)
(* panic, whichever way Subscribe, Notify and timeouts meet.                *)
THEOREM TypeCorrect == Spec => []TypeOK
<1>1. IInv => TypeOK
  BY DEF IInv
<1> QED
  BY <1>1, InvHolds, PTL

(* Between Subscribe and Notify no wake-up is lost: a handler that waits is *)
(* registered or its channel is closed, and nobody is left registered for a *)
(* version the notifier has been told of.                                   *)
THEOREM NoWakeupIsLost == Spec => []NoLostWakeup
<1>1. IInv => NoLostWakeup
  BY DEF IInv
<1> QED
  BY <1>1, InvHolds, PTL

(* A handler the notifier woke reads its own save from the read model, or   *)
(* the projector failed on exactly the event it saved.                      *)
THEOREM WokenReadTheirWrites == Spec => []ReadYourWrites
<1>1. IInv => ReadYourWrites
  <2> SUFFICES ASSUME IInv, NEW h \in Handlers, pc[h] = "ready"
               PROVE  Reflects(own[h]) \/ own[h] \in failed
    BY DEF ReadYourWrites
  <2>1. own[h] \in 0..Len(log) /\ own[h] # 0 /\ Len(log) \in 0..MaxEvents
    BY DEF IInv, TypeOK
  <2>2. own[h] \in Positions
    BY <2>1, ProjectionAssumption DEF Positions
  <2>3. own[h] \in DOMAIN log /\ AlreadyProjected(own[h])
    BY <2>2 DEF IInv, ClosedInv
  <2>4. own[h] < pos \/ (own[h] = pos /\ todo = <<>>)
    BY <2>3 DEF IInv, NotifiedInv
  <2> QED
    BY <2>3, <2>4 DEF IInv, ReflectedInv, ComesNext
<1> QED
  BY <1>1, InvHolds, PTL

(* What UserProjector has read, merged and upserted one event at a time is  *)
(* what a replay of the log without the failed events gives.                *)
THEOREM ReadModelIsReplay == Spec => []ViewIsReplayOfLog
<1>1. IInv => ViewIsReplayOfLog
  BY DEF IInv, ReplayInv
<1> QED
  BY <1>1, InvHolds, PTL

(* Dispatch starts the reactor of a registration whatever became of the     *)
(* projectors before it, and none once side effects are off.                *)
THEOREM ReactorsAreIndependent == Spec => []MailDespiteFailedProjector
<1>1. IInv => MailDespiteFailedProjector
  <2> SUFFICES ASSUME IInv
               PROVE  MailDespiteFailedProjector
    OBVIOUS
  <2>1. \A p \in DOMAIN log : p \in Positions
    BY ProjectionAssumption DEF IInv, TypeOK, Positions
  <2>2. /\ todo = <<"notify">> => todo \in {<<>>, <<"notify">>}
        /\ todo = <<>> => todo \in {<<>>, <<"notify">>}
    BY Zenon
  <2> QED
    BY <2>1, <2>2 DEF IInv, MailInv, MailDespiteFailedProjector
<1> QED
  BY <1>1, InvHolds, PTL

=============================================================================
