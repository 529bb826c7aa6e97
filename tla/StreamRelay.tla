----------------------------- MODULE StreamRelay -----------------------------
(***************************************************************************)
(* The streams of MemStore as applications read them: through               *)
(* PiiEventStore.StreamAll (es/pii_store.go), whose goroutine receives from *)
(* the inner stream, opens each event and offers it on a channel of its     *)
(* own, and possibly through a TenantScopedStore (es/tenant_store.go),      *)
(* which settles the scope the inner stream is opened with.                 *)
(*                                                                          *)
(* The consumer of MemStore's out is the relay here; the consumer of the    *)
(* relay is the application.  What opening does is PiiStore; here it        *)
(* succeeds or it fails, and then the relay returns.                        *)
(***************************************************************************)
EXTENDS MemStore

CONSTANTS
  AllTenants,     \* es.WithAllTenants(); es.WithTenant(t) is t itself
  OptionsOf,      \* Streams -> sequences of options: what the caller passes
  NotBound,       \* the store is no TenantScopedStore
  BoundTo,        \* Streams -> Tenants \cup {NotBound}: TenantID()
  MaxOpenErrors   \* bound: events that fail to open

-----------------------------------------------------------------------------
(* The scope of a stream.                                                   *)

(* Mutation: the bound tenant is put first.                                 *)
BoundFirst(opts, t) == <<t>> \o opts

(* withTenant.                                                              *)
BoundLast(opts, t) == Append(opts, t)

WithTenant(s) ==
  IF BoundTo[s] = NotBound THEN OptionsOf[s] ELSE BoundLast(OptionsOf[s], BoundTo[s])

(* The TenantID of ResolveStoreConfig: each WithTenant replaces the one     *)
(* before it, WithAllTenants leaves it as it is.                            *)
ResolveStoreConfig(opts) ==
  LET scoped == {i \in DOMAIN opts : opts[i] # AllTenants} IN
  IF scoped = {} THEN Everything
  ELSE opts[CHOOSE i \in scoped : \A j \in scoped : j <= i]

ResolvedScopes == [s \in Streams |-> ResolveStoreConfig(WithTenant(s))]

ASSUME RelayAssumption ==
  /\ {AllTenants, NotBound} \cap Tenants = {}
  /\ BoundTo \in [Streams -> Tenants \cup {NotBound}]
  /\ OptionsOf \in [Streams -> Seq(Tenants \cup {AllTenants})]
  /\ ScopeOfStream = ResolvedScopes
  /\ MaxOpenErrors \in Nat

VARIABLES
  relay,          \* stream: "off", "receiving", "offering" or "returned"
  inHand,         \* stream: the event the relay offers, 0 for none
  seen,           \* stream: what the application received (history)
  failed,         \* streams whose relay returned with an Open error
  openErrors      \* events that failed to open

relayVars == <<relay, inHand, seen, failed, openErrors>>
allVars == <<vars, relayVars>>

-----------------------------------------------------------------------------
(* StreamAll: the inner stream is opened and the goroutine started.         *)
StartRelay(s) ==
  /\ Subscribe(s)
  /\ relay' = [relay EXCEPT ![s] = "receiving"]
  /\ UNCHANGED <<inHand, seen, failed, openErrors>>

(* e := <-rawOut, and Open succeeds.                                        *)
RelayReceives(s) ==
  /\ relay[s] = "receiving"
  /\ Deliver(s)
  /\ inHand' = [inHand EXCEPT ![s] = got'[s][Len(got'[s])]]
  /\ relay' = [relay EXCEPT ![s] = "offering"]
  /\ UNCHANGED <<seen, failed, openErrors>>

(* Mutation: the event is skipped.                                          *)
GoesOn(s) == [relay EXCEPT ![s] = "receiving"]

ReturnsAtOnce(s) == [relay EXCEPT ![s] = "returned"]

(* e := <-rawOut, and Open returns an error: it goes to errc, out is        *)
(* closed, and nobody receives from rawOut any more.                        *)
OpenFails(s) ==
  /\ relay[s] = "receiving"
  /\ openErrors < MaxOpenErrors
  /\ Deliver(s)
  /\ openErrors' = openErrors + 1
  /\ failed' = failed \cup {s}
  /\ relay' = ReturnsAtOnce(s)
  /\ UNCHANGED <<inHand, seen>>

HandedOver(s) == [inHand EXCEPT ![s] = 0]

(* out <- opened, when the application receives.                            *)
RelayOffers(s) ==
  /\ relay[s] = "offering"
  /\ seen' = [seen EXCEPT ![s] = Append(@, inHand[s])]
  /\ inHand' = HandedOver(s)
  /\ relay' = [relay EXCEPT ![s] = "receiving"]
  /\ UNCHANGED <<failed, openErrors, vars>>

(* The select takes <-ctx.Done(): the event in hand is dropped.             *)
RelayObservesCancel(s) ==
  /\ relay[s] = "offering"
  /\ cancelled[s]
  /\ inHand' = HandedOver(s)
  /\ relay' = [relay EXCEPT ![s] = "returned"]
  /\ UNCHANGED <<seen, failed, openErrors, vars>>

(* rawOut is closed; rawErrc, closed too, holds no error of this store.     *)
RelayEnds(s) ==
  /\ relay[s] = "receiving"
  /\ spc[s] = "closed"
  /\ relay' = [relay EXCEPT ![s] = "returned"]
  /\ UNCHANGED <<inHand, seen, failed, openErrors, vars>>

-----------------------------------------------------------------------------
InitRelay ==
  /\ Init
  /\ relay = [s \in Streams |-> "off"]
  /\ inHand = [s \in Streams |-> 0]
  /\ seen = [s \in Streams |-> <<>>]
  /\ failed = {}
  /\ openErrors = 0

(* What goes on without the relays.                                         *)
InnerStep ==
  \/ \E w \in Writers : WriterStep(w)
  \/ \E s \in Streams : TakeLive(s)
  \/ \E s \in Streams : Cancel(s)
  \/ \E s \in Streams : ObserveCancel(s)
  \/ \E s \in Streams : Unsubscribe(s)

NextRelay ==
  \/ InnerStep /\ UNCHANGED relayVars
  \/ \E s \in Streams : StartRelay(s)
  \/ \E s \in Streams : RelayReceives(s)
  \/ \E s \in Streams : OpenFails(s)
  \/ \E s \in Streams : RelayOffers(s)
  \/ \E s \in Streams : RelayObservesCancel(s)
  \/ \E s \in Streams : RelayEnds(s)

(* Writers and both goroutines of a stream are scheduled, and an            *)
(* application that has not cancelled keeps receiving ("Callers must drain  *)
(* both channels", es/store.go).  Nobody is obliged to open a stream or to  *)
(* cancel one.                                                              *)
RelaySpec ==
  /\ InitRelay
  /\ [][NextRelay]_allVars
  /\ \A w \in Writers : WF_allVars(WriterStep(w) /\ UNCHANGED relayVars)
  /\ \A s \in Streams :
       /\ WF_allVars(TakeLive(s) /\ UNCHANGED relayVars)
       /\ WF_allVars(ObserveCancel(s) /\ UNCHANGED relayVars)
       /\ WF_allVars(Unsubscribe(s) /\ UNCHANGED relayVars)
       /\ WF_allVars(RelayReceives(s) \/ OpenFails(s))
       /\ WF_allVars(~cancelled[s] /\ RelayOffers(s))
       /\ WF_allVars(RelayObservesCancel(s))
       /\ WF_allVars(RelayEnds(s))

-----------------------------------------------------------------------------
(* Properties.                                                              *)

(* "opening every streamed event's PII fields before it reaches out"        *)
(* (es/pii_store.go) neither drops, repeats nor reorders one: the           *)
(* application has received everything the inner stream handed out, but for *)
(* the event in hand, or the one the relay returned with.                   *)
RelayIsExact ==
  \A s \in Streams :
    /\ inHand[s] # 0 <=> relay[s] = "offering"
    /\ Len(seen[s]) <= Len(got[s]) /\ Len(got[s]) <= Len(seen[s]) + 1
    /\ seen[s] = SubSeq(got[s], 1, Len(seen[s]))
    /\ relay[s] = "receiving" => Len(seen[s]) = Len(got[s])
    /\ Len(got[s]) > Len(seen[s]) /\ relay[s] = "returned" =>
         s \in failed \/ cancelled[s]

(* "the bound tenant always wins and can't be silently overridden or        *)
(* forgotten" (es/tenant_store.go): whatever options are passed, a worker   *)
(* on a TenantScopedStore sees events of its tenant and global ones only,   *)
(* and all of them up to the last it saw.                                   *)
BoundTenantWins ==
  \A s \in Streams : BoundTo[s] # NotBound =>
    LET own == {p \in DOMAIN all : all[p].key[1] \in {BoundTo[s], Global}} IN
    /\ \A i \in DOMAIN seen[s] : seen[s][i] \in own
    /\ \A i \in DOMAIN seen[s] : \A p \in own :
         p < seen[s][i] => \E j \in DOMAIN seen[s] : seen[s][j] = p

-----------------------------------------------------------------------------
(* Liveness.                                                                *)

(* The inner stream has lost its reader: its relay failed, or the           *)
(* application cancelled.                                                   *)
Abandoned(s) == s \in failed \/ cancelled[s]

(* Reload and retry ends and no Commit waits for ever on a stream: every    *)
(* writer gets all its commands acknowledged, unless a stream is abandoned, *)
(* which leaves a channel nobody empties in the path of every later Commit. *)
CommandsFinish ==
  \/ \A w \in Writers : <>(cmds[w] = MaxCommands)
  \/ <>(\E s \in Streams : Abandoned(s))

(* "StreamAll pushes every event as it is committed" (es/store.go), through *)
(* both goroutines: an application is handed every event in its scope,      *)
(* unless some stream is abandoned.                                         *)
EventsReachApplications ==
  \A s \in Streams :
    \A p \in 1..(Cardinality(Writers) * MaxCommands * MaxBatch) :
      (relay[s] # "off" /\ p \in DOMAIN all /\ Visible(s, all[p]))
        ~> (\/ \E t \in Streams : Abandoned(t)
            \/ \E i \in DOMAIN seen[s] : seen[s][i] = p)

=============================================================================
