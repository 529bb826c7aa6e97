---------------------------- MODULE SubjectExport ----------------------------
(***************************************************************************)
(* What a data subject is answered: FetchByPiiID of the in-memory store and *)
(* SubjectExporter.Export (es/pii_lookup.go), which groups what it returns. *)
(*                                                                          *)
(* FetchByPiiID reads under mu, so an export is what these operators give   *)
(* in a state in which mu is free.  The fields of the events are PiiStore.  *)
(***************************************************************************)
EXTENDS MemStore

(* What WithTenant lets a reader see.                                       *)
Shown(p, scope) == scope = Everything \/ all[p].key[1] \in {scope, Global}

(* Events of subject x that a call with this scope may see: out, after each *)
(* round of the loop over byPii[x].                                         *)
FetchByPiiID(x, scope) ==
  LET out[n \in 0..Len(byPii[x])] ==
        IF n = 0 THEN <<>>
        ELSE IF Shown(byPii[x][n], scope) THEN Append(out[n - 1], byPii[x][n])
        ELSE out[n - 1]
  IN  out[Len(byPii[x])]

(* Mutation: grouped by aggregate id.                                       *)
WithoutTenant(p) == <<Global, all[p].key[2]>>

(* The key of firstSeen: [tenant, aggregate].                               *)
GroupOf(p) == all[p].key

(* The histories that result from adding event p to these.                  *)
AddTo(histories, p) ==
  LET seen == {i \in DOMAIN histories : histories[i].of = GroupOf(p)} IN
  IF seen = {} THEN Append(histories, [of |-> GroupOf(p), events |-> <<p>>])
  ELSE [i \in DOMAIN histories |->
          IF i \in seen THEN [histories[i] EXCEPT !.events = Append(@, p)]
                        ELSE histories[i]]

(* The AggregateHistory values; none stands for ErrSubjectNotFound.         *)
Export(x, scope) ==
  LET events == FetchByPiiID(x, scope)
      after[n \in 0..Len(events)] ==
        IF n = 0 THEN <<>> ELSE AddTo(after[n - 1], events[n])
  IN  after[Len(events)]

-----------------------------------------------------------------------------
(* Properties.                                                              *)

InVersionOrder(events) ==
  \A j \in DOMAIN events : \A k \in 1..(j - 1) :
    all[events[k]].ver < all[events[j]].ver

(* "everything the log holds about this one PiiID" (es/pii_lookup.go): at   *)
(* whatever moment an export runs beside the writers of several tenants,    *)
(* its histories hold the events the scope shows that carry the subject's   *)
(* PiiID and nothing else: one history for each aggregate of each tenant,   *)
(* its events "in AggregateVersion order (which FetchByPiiID's GlobalID     *)
(* ordering implies)", the histories in the order of their first events.    *)
(* A history need not be the whole of its aggregate: an event recorded      *)
(* without WithPiiID is left out, as ChangeName's of examples/user are.     *)
ExportIsWhole ==
  MuFree => \A x \in Subjects : \A scope \in Tenants \cup {Everything} :
    LET histories == Export(x, scope)
        InScope(p) == scope = Everything \/ all[p].key[1] \in {scope, Global}
        Exported(p) == \E i \in DOMAIN histories :
                         \E j \in DOMAIN histories[i].events : histories[i].events[j] = p
    IN  /\ \A p \in DOMAIN all : Exported(p) <=> piiID[p] = x /\ InScope(p)
        /\ \A i \in DOMAIN histories :
             /\ InVersionOrder(histories[i].events)
             /\ \A j \in DOMAIN histories[i].events :
                  all[histories[i].events[j]].key = histories[i].of
        /\ \A i, j \in DOMAIN histories : i < j =>
             /\ histories[i].of # histories[j].of
             /\ histories[i].events[1] < histories[j].events[1]

=============================================================================
