------------------------------ MODULE EventLog ------------------------------
(***************************************************************************)
(* What es.EventStore promises (es/store.go), with no locks, channels or    *)
(* transactions: one append-only log of events.                             *)
(*                                                                          *)
(* A commit appends a whole batch in one step, and only on top of the       *)
(* version its stream has at that moment.  A stream of all events hands     *)
(* out, one at a time and in log order, exactly the events in its scope.    *)
(*                                                                          *)
(* MemStore is shown to implement this module.                              *)
(***************************************************************************)
EXTENDS Naturals, Sequences, FiniteSets

CONSTANTS
  Writers,        \* callers of Repository.Save
  Streams,        \* callers of EventStore.StreamAll
  Aggregates,     \* aggregate ids
  Tenants,        \* tenant ids, Global among them
  Global,         \* es.GlobalTenantID, the nil UUID
  Everything,     \* the scope of a stream opened without es.WithTenant
  ScopeOfStream,  \* Streams -> Tenants \cup {Everything}
  MaxBatch        \* the largest batch one Save commits

VARIABLES
  log,            \* the committed events, in commit order
  got             \* stream -> positions of the log it was handed, in order

vars == <<log, got>>

Keys == Tenants \X Aggregates

(* es.WithTenant(t) sees t's events and the global ones (es/store.go).      *)
InScope(s, e) ==
  \/ ScopeOfStream[s] = Everything
  \/ e.key[1] \in {ScopeOfStream[s], Global}

Positions(k) == {p \in DOMAIN log : log[p].key = k}

(* How many commands of writer w the log already holds.                     *)
CommandsOf(w) == {log[p].cmd : p \in {q \in DOMAIN log : log[q].by = w}}

Batch(w, k, n) ==
  [i \in 1..n |-> [key |-> k,
                   ver |-> Cardinality(Positions(k)) + i,
                   by  |-> w,
                   cmd |-> Cardinality(CommandsOf(w)) + 1,
                   of  |-> n]]

Commit(w, k, n) ==
  /\ log' = log \o Batch(w, k, n)
  /\ UNCHANGED got

(* The next event in scope that stream s has not been handed yet.           *)
Undelivered(s) ==
  {p \in DOMAIN log : /\ InScope(s, log[p])
                      /\ \A i \in DOMAIN got[s] : got[s][i] < p}

Deliver(s) ==
  /\ \E p \in Undelivered(s) :
       /\ \A q \in Undelivered(s) : p <= q
       /\ got' = [got EXCEPT ![s] = Append(@, p)]
  /\ UNCHANGED log

Init ==
  /\ log = <<>>
  /\ got = [s \in Streams |-> <<>>]

Next ==
  \/ \E w \in Writers, k \in Keys, n \in 1..MaxBatch : Commit(w, k, n)
  \/ \E s \in Streams : Deliver(s)

Spec == Init /\ [][Next]_vars

=============================================================================
