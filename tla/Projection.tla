----------------------------- MODULE Projection -----------------------------
(***************************************************************************)
(* The asynchronous read side: es/dispatcher.go and es/notifier.go, wired   *)
(* as in examples/user/main.go.                                             *)
(*                                                                          *)
(* One goroutine receives every event of the log, in order, from            *)
(* PiiEventStore.StreamAll, which opens an event one ahead of it, and       *)
(* dispatches it to the read model's projector, to the welcome mail's       *)
(* reactor and to the notifier.  Command handlers save, wait on the         *)
(* notifier for the version they saved, and read the read model.            *)
(*                                                                          *)
(* Saving is one step here (MemStore and PgStore have its steps), so an     *)
(* event is known by its position in the log, and so is the channel its     *)
(* handler waits on.  A view's texts are the versions they were taken from. *)
(***************************************************************************)
EXTENDS Naturals, Sequences, FiniteSets

CONSTANTS
  Handlers,       \* goroutines that handle commands
  Aggregates,     \* user ids; no two tenants share one
  MaxEvents,      \* bound: events saved
  MaxFailures     \* bound: events the projector fails to apply

ASSUME ProjectionAssumption ==
  /\ MaxEvents \in Nat
  /\ MaxFailures \in Nat

VARIABLES
  log,            \* the store's events
  forgotten,      \* users whose key is destroyed
  pc,             \* handler: where it is
  own,            \* handler: position of the event it saved
  opened,         \* events PiiEventStore.StreamAll has opened
  unrecoverable,  \* those of them with PiiUnrecoverable set
  pos,            \* events received by the worker; the last is dispatched
  todo,           \* the listeners Dispatch has still to call
  projectorErr,   \* Dispatch's projectorErr is not nil
  failed,         \* events whose view projector returned an error
  views,          \* the read model
  withSideEffects,\* Dispatcher.withSideEffects
  reactors,       \* event -> what its mail reactor is doing
  lastProjected,  \* EventNotifier.lastProjected
  waiters,        \* EventNotifier.waiters
  closes          \* event -> times its handler's channel was closed

logVars      == <<log, forgotten>>
handlerVars  == <<pc, own>>
workerVars   == <<opened, unrecoverable, pos, todo, projectorErr>>
viewVars     == <<failed, views>>
reactorVars  == <<withSideEffects, reactors>>
notifierVars == <<lastProjected, waiters, closes>>
vars == <<logVars, handlerVars, workerVars, viewVars, reactorVars,
          notifierVars>>

Positions == 1..MaxEvents

Kinds == {"registered", "email", "name", "erasure"}

(* The kinds whose payload declares the e-mail as a PII field.              *)
Personal == {"registered", "email"}

Event == [agg : Aggregates, kind : Kinds, ver : 1..MaxEvents]

EventsOf(a) == {p \in DOMAIN log : log[p].agg = a}

-----------------------------------------------------------------------------
(* The wiring.                                                              *)

(* Mutation: the notifier is subscribed first.                              *)
NotifierFirst == <<"notify", "view", "mail">>

(* Listeners in the order they are subscribed.                              *)
Listeners == <<"view", "mail", "notify">>

(* patternMatches: "user.*" and "*" match every kind modelled here,         *)
(* "user.registered" only itself.                                           *)
Matches(listener, kind) == listener = "mail" => kind = "registered"

(* GetListenersForEvent: those that match, in their order.                  *)
ListenersFor(e) ==
  LET IfMatched(n) ==
        IF Matches(Listeners[n], e.kind) THEN <<Listeners[n]>> ELSE <<>>
  IN  IfMatched(1) \o IfMatched(2) \o IfMatched(3)

-----------------------------------------------------------------------------
(* Command handlers.                                                        *)

(* What the domain accepts, less new personal data after an erasure, which  *)
(* ends the stream with an error (ReplayKeepsWorking of PiiStore).          *)
Acceptable(a) ==
  IF EventsOf(a) = {} THEN {"registered"}
  ELSE IF \E p \in EventsOf(a) : log[p].kind = "erasure"
       THEN {"name", "erasure"}
       ELSE Kinds \ {"registered"}

(* Load, the domain command and Save.  ForgetUser's Save goes on to destroy *)
(* the user's key.                                                          *)
Save(h) ==
  /\ pc[h] = "idle"
  /\ Len(log) < MaxEvents
  /\ \E a \in Aggregates : \E k \in Acceptable(a) :
       /\ log' = Append(log,
            [agg |-> a, kind |-> k, ver |-> Cardinality(EventsOf(a)) + 1])
       /\ pc' = [pc EXCEPT ![h] = IF k = "erasure" THEN "forgetting" ELSE "saved"]
  /\ own' = [own EXCEPT ![h] = Len(log) + 1]
  /\ UNCHANGED <<forgotten, workerVars, viewVars, reactorVars, notifierVars>>

BecomesIdle(h) ==
  /\ pc' = [pc EXCEPT ![h] = "idle"]
  /\ own' = [own EXCEPT ![h] = 0]

(* The key is destroyed and ForgetUser returns; nobody waits for it.        *)
Forget(h) ==
  /\ pc[h] = "forgetting"
  /\ forgotten' = forgotten \cup {log[own[h]].agg}
  /\ BecomesIdle(h)
  /\ UNCHANGED <<log, workerVars, viewVars, reactorVars, notifierVars>>

(* Most handlers answer from the aggregate and do not wait.                 *)
AnswerAtOnce(h) ==
  /\ pc[h] = "saved"
  /\ BecomesIdle(h)
  /\ UNCHANGED <<logVars, workerVars, viewVars, reactorVars, notifierVars>>

(* Mutation: Subscribe always registers a waiter.                           *)
NotYetProjected(p) == FALSE

AlreadyProjected(p) == lastProjected[log[p].agg] >= log[p].ver

(* EventNotifier.Subscribe(aggregate, version of the save).                 *)
Subscribe(h) ==
  /\ pc[h] = "saved"
  /\ IF AlreadyProjected(own[h])
       THEN /\ closes' = [closes EXCEPT ![own[h]] = @ + 1]
            /\ UNCHANGED waiters
       ELSE /\ waiters' = waiters \cup {own[h]}
            /\ UNCHANGED closes
  /\ pc' = [pc EXCEPT ![h] = "waiting"]
  /\ UNCHANGED <<own, lastProjected, logVars, workerVars, viewVars, reactorVars>>

(* The select: the channel is closed, or the timeout has passed.  A handler *)
(* that timed out leaves its waiter behind.                                 *)
Wake(h) ==
  /\ pc[h] = "waiting"
  /\ closes[own[h]] > 0
  /\ pc' = [pc EXCEPT ![h] = "ready"]
  /\ UNCHANGED <<own, logVars, workerVars, viewVars, reactorVars, notifierVars>>

TimeOut(h) ==
  /\ pc[h] = "waiting"
  /\ pc' = [pc EXCEPT ![h] = "late"]
  /\ UNCHANGED <<own, logVars, workerVars, viewVars, reactorVars, notifierVars>>

(* views.Get, and the answer to the client.                                 *)
ReadView(h) ==
  /\ pc[h] \in {"ready", "late"}
  /\ BecomesIdle(h)
  /\ UNCHANGED <<logVars, workerVars, viewVars, reactorVars, notifierVars>>

-----------------------------------------------------------------------------
(* The worker.                                                              *)

(* The goroutine of PiiEventStore.StreamAll takes an event of the inner     *)
(* stream, opens it with the keys of this moment and waits for the worker.  *)
OpenNext ==
  /\ opened = pos
  /\ opened < Len(log)
  /\ opened' = opened + 1
  /\ unrecoverable' = unrecoverable \cup
       {p \in {opened + 1} : log[p].kind \in Personal /\ log[p].agg \in forgotten}
  /\ UNCHANGED <<pos, todo, projectorErr, logVars, handlerVars, viewVars,
                 reactorVars, notifierVars>>

(* The previous Dispatch returned, its error is only printed.               *)
Receive ==
  /\ todo = <<>>
  /\ pos < opened
  /\ pos' = pos + 1
  /\ todo' = ListenersFor(log[pos + 1])
  /\ projectorErr' = FALSE
  /\ UNCHANGED <<opened, unrecoverable, logVars, handlerVars, viewVars,
                 reactorVars, notifierVars>>

ComesNext(listener) == todo # <<>> /\ Head(todo) = listener

(* Mutation: a projector's error stops reactors too.                        *)
StartsReactorUnlessFailed == withSideEffects /\ ~projectorErr

(* Reactors run whatever became of the projectors.                          *)
StartsReactor == withSideEffects

StartReactor ==
  /\ ComesNext("mail")
  /\ reactors' = [reactors EXCEPT ![pos] = IF StartsReactor THEN "running" ELSE @]
  /\ todo' = Tail(todo)
  /\ UNCHANGED <<opened, unrecoverable, pos, projectorErr, withSideEffects,
                 logVars, handlerVars, viewVars, notifierVars>>

SkipProjector ==
  /\ ComesNext("view") \/ ComesNext("notify")
  /\ projectorErr
  /\ todo' = Tail(todo)
  /\ UNCHANGED <<opened, unrecoverable, pos, projectorErr, logVars, handlerVars,
                 viewVars, reactorVars, notifierVars>>

(* Mutation: the view is built from the event alone.                        *)
ProjectedAnew(view, e, lost) ==
  [ver    |-> e.ver,
   email  |-> IF e.kind \in Personal THEN e.ver ELSE 0,
   erased |-> IF e.kind \in Personal THEN lost ELSE FALSE,
   name   |-> IF e.kind \in {"registered", "name"} THEN e.ver ELSE 0]

(* The view UserProjector.Handle upserts: the present one with the fields   *)
(* of e replaced.  An unrecoverable e-mail is shown as erased.              *)
Projected(view, e, lost) ==
  [ver    |-> e.ver,
   email  |-> IF e.kind \in Personal THEN e.ver ELSE view.email,
   erased |-> IF e.kind \in Personal THEN lost ELSE view.erased,
   name   |-> IF e.kind \in {"registered", "name"} THEN e.ver ELSE view.name]

ProjectView ==
  /\ ComesNext("view")
  /\ ~projectorErr
  /\ views' = [views EXCEPT ![log[pos].agg] =
       Projected(@, log[pos], pos \in unrecoverable)]
  /\ todo' = Tail(todo)
  /\ UNCHANGED <<opened, unrecoverable, pos, projectorErr, failed, logVars,
                 handlerVars, reactorVars, notifierVars>>

(* The view projector returns an error, before it upserts.                  *)
ProjectorFails ==
  /\ ComesNext("view")
  /\ ~projectorErr
  /\ Cardinality(failed) < MaxFailures
  /\ failed' = failed \cup {pos}
  /\ projectorErr' = TRUE
  /\ todo' = Tail(todo)
  /\ UNCHANGED <<opened, unrecoverable, pos, views, logVars, handlerVars,
                 reactorVars, notifierVars>>

(* Mutation: a later version wakes nobody.                                  *)
SatisfiedExactly(e) == {p \in waiters : log[p].agg = e.agg /\ e.ver = log[p].ver}

(* The waiters Notify(e) wakes and removes.                                 *)
Satisfied(e) == {p \in waiters : log[p].agg = e.agg /\ e.ver >= log[p].ver}

(* Mutation: woken waiters stay registered.                                 *)
NobodyLeaves(e) == waiters

StillWaiting(e) == waiters \ Satisfied(e)

(* NotifierListener.Handle, which is EventNotifier.Notify.                  *)
Notify ==
  /\ ComesNext("notify")
  /\ ~projectorErr
  /\ LET e == log[pos] IN
       /\ lastProjected' = [lastProjected EXCEPT ![e.agg] = IF e.ver > @ THEN e.ver ELSE @]
       /\ closes' = [p \in Positions |-> closes[p] + IF p \in Satisfied(e) THEN 1 ELSE 0]
       /\ waiters' = StillWaiting(e)
  /\ todo' = Tail(todo)
  /\ UNCHANGED <<opened, unrecoverable, pos, projectorErr, logVars, handlerVars,
                 viewVars, reactorVars>>

-----------------------------------------------------------------------------
(* WelcomeEmailReactor.Handle of one event, in a goroutine of its own: it   *)
(* mails, skips an unrecoverable address or returns an error, which is only *)
(* logged.                                                                  *)
ReactorEnds(p) ==
  /\ reactors[p] = "running"
  /\ reactors' = [reactors EXCEPT ![p] = "ended"]
  /\ UNCHANGED <<withSideEffects, logVars, handlerVars, workerVars, viewVars,
                 notifierVars>>

-----------------------------------------------------------------------------
NoView == [ver |-> 0, email |-> 0, erased |-> FALSE, name |-> 0]

Init ==
  /\ log = <<>>
  /\ forgotten = {}
  /\ pc = [h \in Handlers |-> "idle"]
  /\ own = [h \in Handlers |-> 0]
  /\ opened = 0
  /\ unrecoverable = {}
  /\ pos = 0
  /\ todo = <<>>
  /\ projectorErr = FALSE
  /\ failed = {}
  /\ views = [a \in Aggregates |-> NoView]
  /\ withSideEffects \in BOOLEAN
  /\ reactors = [p \in Positions |-> "none"]
  /\ lastProjected = [a \in Aggregates |-> 0]
  /\ waiters = {}
  /\ closes = [p \in Positions |-> 0]

HandlerStep(h) ==
  \/ Save(h)
  \/ Forget(h)
  \/ AnswerAtOnce(h)
  \/ Subscribe(h)
  \/ Wake(h)
  \/ TimeOut(h)
  \/ ReadView(h)

Dispatching ==
  \/ StartReactor
  \/ SkipProjector
  \/ ProjectView
  \/ ProjectorFails
  \/ Notify

WorkerStep ==
  \/ OpenNext
  \/ Receive
  \/ Dispatching

Next ==
  \/ \E h \in Handlers : HandlerStep(h)
  \/ WorkerStep
  \/ \E p \in Positions : ReactorEnds(p)

Spec == Init /\ [][Next]_vars

(* The worker and the stream that feeds it are scheduled; as each waits for *)
(* the other after one event, it is enough that one of them moves.  Nothing *)
(* is asked of handlers, reactors or timeouts.                              *)
FairSpec == Spec /\ WF_vars(WorkerStep)

-----------------------------------------------------------------------------
(* Properties.                                                              *)

View == [ver : 0..MaxEvents, email : 0..MaxEvents, erased : BOOLEAN,
         name : 0..MaxEvents]

(* Types.  A channel is closed at most once (closing it twice panics), a    *)
(* waiting handler has an event of its own, the stream is at most one event *)
(* ahead of the worker.                                                     *)
TypeOK ==
  /\ log \in Seq(Event)
  /\ Len(log) <= MaxEvents
  /\ forgotten \subseteq Aggregates
  /\ pc \in [Handlers ->
       {"idle", "forgetting", "saved", "waiting", "ready", "late"}]
  /\ own \in [Handlers -> 0..Len(log)]
  /\ \A h \in Handlers : pc[h] # "idle" => own[h] # 0
  /\ pos \in 0..Len(log)
  /\ opened \in pos..Len(log)
  /\ opened <= pos + 1
  /\ unrecoverable \subseteq 1..opened
  /\ todo \in Seq({"view", "mail", "notify"})
  /\ projectorErr \in BOOLEAN
  /\ failed \subseteq 1..pos
  /\ views \in [Aggregates -> View]
  /\ withSideEffects \in BOOLEAN
  /\ reactors \in [Positions -> {"none", "running", "ended"}]
  /\ lastProjected \in [Aggregates -> 0..MaxEvents]
  /\ waiters \subseteq 1..Len(log)
  /\ closes \in [Positions -> 0..1]

(* The view of p's user shows p: it has reached p's version, and the texts  *)
(* p sets are p's or newer.                                                 *)
Reflects(p) ==
  LET e == log[p]
      view == views[e.agg]
  IN  /\ view.ver >= e.ver
      /\ e.kind \in Personal => view.email >= e.ver
      /\ e.kind \in {"registered", "name"} => view.name >= e.ver

(* Read your writes (EventNotifier): a handler that was woken, and did not  *)
(* time out, finds its own save in the read model, unless the projector     *)
(* failed on exactly that event.                                            *)
ReadYourWrites ==
  \A h \in Handlers :
    pc[h] = "ready" => Reflects(own[h]) \/ own[h] \in failed

(* No lost wake-up: between two calls of the notifier nobody is registered  *)
(* for a version that has been projected, a closed channel has no waiter    *)
(* left, and a handler that waits is registered or its channel is closed,   *)
(* whichever order Subscribe and Notify came in.                            *)
NoLostWakeup ==
  /\ \A p \in waiters : closes[p] = 0 /\ lastProjected[log[p].agg] < log[p].ver
  /\ \A h \in Handlers :
       pc[h] = "waiting" => own[h] \in waiters \/ closes[own[h]] = 1

(* Events of a user the projector has applied.                              *)
Applied(a) ==
  {p \in EventsOf(a) : p <= pos /\ p \notin failed /\ ~(p = pos /\ ComesNext("view"))}

LastOf(a, kinds) ==
  LET these == {p \in Applied(a) : log[p].kind \in kinds}
  IN  IF these = {} THEN 0
      ELSE CHOOSE p \in these : \A q \in these : q <= p

VersionAt(p) == IF p = 0 THEN 0 ELSE log[p].ver

(* The read model is the log replayed in order without the events the       *)
(* projector failed on: each text is that of the last event that sets it,   *)
(* and an e-mail is shown as erased exactly if it was unreadable when the   *)
(* stream opened it (UserProjector.Handle gets, merges and upserts).        *)
ViewIsReplayOfLog ==
  \A a \in Aggregates :
    views[a] =
      [ver    |-> VersionAt(LastOf(a, Kinds)),
       email  |-> VersionAt(LastOf(a, Personal)),
       erased |-> LastOf(a, Personal) \in unrecoverable,
       name   |-> VersionAt(LastOf(a, {"registered", "name"}))]

(* Reactors are independent of the projectors (Dispatch): the welcome mail  *)
(* of each registration whose turn has come is under way or done, whether   *)
(* or not the projector failed on it, and none is if side effects are off.  *)
MailDespiteFailedProjector ==
  \A p \in DOMAIN log :
    LET turnHasCome == p < pos \/ (p = pos /\ todo = <<"notify">>)
                               \/ (p = pos /\ todo = <<>>)
    IN  /\ turnHasCome /\ log[p].kind = "registered" /\ withSideEffects
             => reactors[p] # "none"
        /\ ~withSideEffects => reactors[p] = "none"

(* A registered waiter is woken in the end, even one whose handler has      *)
(* given up, unless the projector fails on the event it waits for: then     *)
(* only a later event of the same user removes it.                          *)
WaitersAreWoken ==
  \A p \in Positions : p \in waiters ~> p \notin waiters \/ p \in failed

=============================================================================
