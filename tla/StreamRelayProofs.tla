-------------------------- MODULE StreamRelayProofs --------------------------
(***************************************************************************)
(* Proofs about StreamRelay: what MemStoreProofs shows of the store holds   *)
(* below the relays, and applications read exactly what it hands out.       *)
(***************************************************************************)
EXTENDS StreamRelay, MemStoreProofs

RelayTypes ==
  /\ relay \in [Streams -> {"off", "receiving", "offering", "returned"}]
  /\ inHand \in [Streams -> Nat]
  /\ seen \in [Streams -> Seq(Nat)]

(* The application has not received the last event handed out.              *)
OneBehind(s) ==
  /\ Len(got[s]) = Len(seen[s]) + 1
  /\ \A i \in 1..Len(seen[s]) : seen[s][i] = got[s][i]

(* Where the last event is, by what the relay does.                         *)
HandoverInv(s) ==
  /\ spc[s] = "off" => relay[s] = "off"
  /\ relay[s] \in {"off", "receiving"} => seen[s] = got[s]
  /\ relay[s] = "offering" => OneBehind(s) /\ inHand[s] = got[s][Len(got[s])]
  /\ relay[s] = "returned" =>
       seen[s] = got[s] \/ (OneBehind(s) /\ (s \in failed \/ cancelled[s]))
  /\ inHand[s] # 0 <=> relay[s] = "offering"

RelayInv == RelayTypes /\ \A s \in Streams : HandoverInv(s)

-----------------------------------------------------------------------------
(* Relays receive what consumers may: below them the store does what it     *)
(* does alone.                                                              *)
LEMMA RelaysAreConsumers == RelaySpec => Spec
<1>1. InitRelay => Init
  BY DEF InitRelay
<1>2. [NextRelay]_allVars => [Next]_vars
  <2>1. NextRelay => Next \/ UNCHANGED vars
    BY DEF NextRelay, Next, InnerStep, StartRelay, RelayReceives, OpenFails,
           RelayOffers, RelayObservesCancel, RelayEnds
  <2>2. UNCHANGED allVars => UNCHANGED vars
    BY DEF allVars
  <2>. QED
    BY <2>1, <2>2
<1>. QED
  BY <1>1, <1>2, PTL DEF RelaySpec, Spec

LEMMA InitRelayInv == InitRelay => RelayInv
  BY DEF InitRelay, Init, RelayInv, RelayTypes, HandoverInv

(* Steps of the store that hand nothing out.                                *)
LEMMA InnerKeepsRelays ==
  ASSUME RelayInv, InnerStep, UNCHANGED relayVars, TypeOK
  PROVE  RelayInv'
<1>1. /\ got' = got
      /\ \A s \in Streams : spc'[s] = "off" => spc[s] = "off"
      /\ \A s \in Streams : cancelled[s] => cancelled'[s]
  <2>1. ASSUME NEW w \in Writers, WriterStep(w)
        PROVE  UNCHANGED <<got, spc, cancelled>>
    BY <2>1 DEF WriterStep, LoadAggregate, CommitConflict, CommitBegin,
                AppendEvent, SendLive, CommitReturn, streamVars
  <2>2. ASSUME NEW s \in Streams, TakeLive(s)
        PROVE  UNCHANGED <<got, spc, cancelled>>
    BY <2>2 DEF TakeLive
  <2>3. ASSUME NEW s \in Streams, Cancel(s)
        PROVE  /\ UNCHANGED <<got, spc>>
               /\ \A t \in Streams : cancelled[t] => cancelled'[t]
    BY <2>3 DEF Cancel, TypeOK
  <2>4. ASSUME NEW s \in Streams, ObserveCancel(s) \/ Unsubscribe(s)
        PROVE  /\ UNCHANGED <<got, cancelled>>
               /\ \A t \in Streams : spc'[t] = "off" => spc[t] = "off"
    BY <2>4 DEF ObserveCancel, Unsubscribe, TypeOK
  <2>. QED
    BY <2>1, <2>2, <2>3, <2>4 DEF InnerStep
<1>2. UNCHANGED <<relay, inHand, seen, failed>>
  BY DEF relayVars
<1>. QED
  BY <1>1, <1>2 DEF RelayInv, RelayTypes, HandoverInv, OneBehind

(* A stream nobody else is served by keeps what it has.                     *)
LEMMA OtherRelays ==
  ASSUME RelayInv, NEW s \in Streams,
         UNCHANGED <<spc[s], got[s], cancelled[s], relay[s], inHand[s], seen[s]>>,
         s \in failed => s \in failed'
  PROVE  HandoverInv(s)'
  BY DEF RelayInv, HandoverInv, OneBehind

LEMMA StartKeepsRelays ==
  ASSUME RelayInv, TypeOK, NEW s \in Streams, StartRelay(s)
  PROVE  RelayInv'
<1>1. /\ spc[s] = "off" /\ spc' = [spc EXCEPT ![s] = "open"]
      /\ relay' = [relay EXCEPT ![s] = "receiving"]
      /\ UNCHANGED <<got, cancelled, inHand, seen, failed>>
  BY DEF StartRelay, Subscribe
<1>2. RelayTypes'
  BY <1>1 DEF RelayInv, RelayTypes
<1>3. ASSUME NEW t \in Streams, t # s
      PROVE  HandoverInv(t)'
  BY <1>1, <1>3, OtherRelays DEF RelayInv, RelayTypes, TypeOK
<1>4. HandoverInv(s)'
  BY <1>1 DEF RelayInv, RelayTypes, HandoverInv, TypeOK
<1>. QED
  BY <1>2, <1>3, <1>4 DEF RelayInv

(* What the inner stream hands out comes after all the relay has received.  *)
LEMMA DeliverIsNext ==
  ASSUME RelayInv, TypeOK, StreamInv, NEW s \in Streams,
         relay[s] = "receiving", Deliver(s)
  PROVE  /\ UNCHANGED <<spc, cancelled>>
         /\ spc[s] = "open"
         /\ \A t \in Streams \ {s} : got'[t] = got[t]
         /\ got'[s] \in Seq(Nat)
         /\ Len(got'[s]) = Len(seen[s]) + 1
         /\ \A i \in 1..Len(seen[s]) : seen[s][i] = got'[s][i]
         /\ got'[s][Len(got'[s])] \in Nat
         /\ got'[s][Len(got'[s])] # 0
<1>1. PICK p \in offer[s] : got' = [got EXCEPT ![s] = Append(@, p)]
  BY DEF Deliver
<1>2. UNCHANGED <<spc, cancelled>> /\ spc[s] = "open"
  BY DEF Deliver
<1>3. p \in Nat /\ p # 0
  <2>1. p \in DOMAIN all
    BY DEF StreamInv, InOrder
  <2>2. DOMAIN all = 1..Len(all) /\ Len(all) \in Nat
    BY LenProperties DEF TypeOK
  <2>. QED
    BY <2>1, <2>2
<1>4. got[s] \in Seq(Nat) /\ seen[s] = got[s] /\ got \in [Streams -> Seq(Nat)]
  BY DEF TypeOK, RelayInv, HandoverInv
<1>5. got'[s] = Append(got[s], p) /\ \A t \in Streams \ {s} : got'[t] = got[t]
  BY <1>1, <1>4
<1>6. /\ Append(got[s], p) \in Seq(Nat)
      /\ Len(Append(got[s], p)) = Len(got[s]) + 1
      /\ \A i \in 1..Len(got[s]) : Append(got[s], p)[i] = got[s][i]
      /\ Append(got[s], p)[Len(got[s]) + 1] = p
  BY <1>3, <1>4, AppendProperties
<1>. QED
  BY <1>2, <1>3, <1>4, <1>5, <1>6

LEMMA ReceiveKeepsRelays ==
  ASSUME RelayInv, TypeOK, StreamInv, NEW s \in Streams, RelayReceives(s)
  PROVE  RelayInv'
<1>1. /\ relay[s] = "receiving"
      /\ inHand' = [inHand EXCEPT ![s] = got'[s][Len(got'[s])]]
      /\ relay' = [relay EXCEPT ![s] = "offering"]
      /\ UNCHANGED <<seen, failed>>
  BY DEF RelayReceives
<1>2. /\ UNCHANGED <<spc, cancelled>>
      /\ spc[s] = "open"
      /\ \A t \in Streams \ {s} : got'[t] = got[t]
      /\ Len(got'[s]) = Len(seen[s]) + 1
      /\ \A i \in 1..Len(seen[s]) : seen[s][i] = got'[s][i]
      /\ got'[s][Len(got'[s])] \in Nat
      /\ got'[s][Len(got'[s])] # 0
  BY <1>1, DeliverIsNext DEF RelayReceives
<1>3. RelayTypes
  BY DEF RelayInv
<1>4. RelayTypes'
  BY <1>1, <1>2, <1>3 DEF RelayTypes
<1>5. ASSUME NEW t \in Streams, t # s
      PROVE  HandoverInv(t)'
  BY <1>1, <1>2, <1>3, <1>5, OtherRelays DEF RelayTypes
<1>6. relay'[s] = "offering" /\ inHand'[s] = got'[s][Len(got'[s])]
  BY <1>1, <1>3 DEF RelayTypes
<1>7. HandoverInv(s)'
  BY <1>1, <1>2, <1>6 DEF HandoverInv, OneBehind
<1>. QED
  BY <1>4, <1>5, <1>7 DEF RelayInv

LEMMA OpenFailsKeepsRelays ==
  ASSUME RelayInv, TypeOK, StreamInv, NEW s \in Streams, OpenFails(s)
  PROVE  RelayInv'
<1>1. /\ relay[s] = "receiving"
      /\ failed' = failed \cup {s}
      /\ relay' = [relay EXCEPT ![s] = "returned"]
      /\ UNCHANGED <<inHand, seen>>
  BY DEF OpenFails, ReturnsAtOnce
<1>2. /\ UNCHANGED <<spc, cancelled>>
      /\ spc[s] = "open"
      /\ \A t \in Streams \ {s} : got'[t] = got[t]
      /\ Len(got'[s]) = Len(seen[s]) + 1
      /\ \A i \in 1..Len(seen[s]) : seen[s][i] = got'[s][i]
  BY <1>1, DeliverIsNext DEF OpenFails
<1>3. RelayTypes /\ HandoverInv(s)
  BY DEF RelayInv
<1>4. RelayTypes'
  BY <1>1, <1>3 DEF RelayTypes
<1>5. ASSUME NEW t \in Streams, t # s
      PROVE  HandoverInv(t)'
  BY <1>1, <1>2, <1>3, <1>5, OtherRelays DEF RelayTypes
<1>6. relay'[s] = "returned"
  BY <1>1, <1>3 DEF RelayTypes
<1>7. HandoverInv(s)'
  BY <1>1, <1>2, <1>3, <1>6 DEF HandoverInv, OneBehind
<1>. QED
  BY <1>4, <1>5, <1>7 DEF RelayInv

(* Handing over what is in hand closes the gap.                             *)
LEMMA OfferKeepsRelays ==
  ASSUME RelayInv, TypeOK, NEW s \in Streams, RelayOffers(s)
  PROVE  RelayInv'
<1>1. /\ relay[s] = "offering"
      /\ seen' = [seen EXCEPT ![s] = Append(@, inHand[s])]
      /\ inHand' = [inHand EXCEPT ![s] = 0]
      /\ relay' = [relay EXCEPT ![s] = "receiving"]
      /\ UNCHANGED <<failed, spc, got, cancelled>>
  BY DEF RelayOffers, HandedOver, vars, streamVars
<1>2. RelayTypes /\ HandoverInv(s)
  BY DEF RelayInv
<1>3. /\ OneBehind(s) /\ inHand[s] = got[s][Len(got[s])] /\ spc[s] # "off"
      /\ inHand[s] \in Nat /\ seen[s] \in Seq(Nat) /\ got[s] \in Seq(Nat)
  BY <1>1, <1>2 DEF HandoverInv, RelayTypes, TypeOK
<1>4. PICK r : r = Append(seen[s], inHand[s])
  OBVIOUS
<1>5. /\ r \in Seq(Nat)
      /\ Len(r) = Len(seen[s]) + 1
      /\ \A i \in 1..Len(seen[s]) : r[i] = seen[s][i]
      /\ r[Len(seen[s]) + 1] = inHand[s]
  BY <1>3, <1>4, AppendProperties
<1>6. r = got[s]
  <2>1. Len(r) = Len(got[s]) /\ Len(seen[s]) \in Nat
    BY <1>3, <1>5 DEF OneBehind
  <2>2. ASSUME NEW i \in 1..Len(r)
        PROVE  r[i] = got[s][i]
    <3>1. i \in 1..Len(seen[s]) \/ i = Len(seen[s]) + 1
      BY <1>5, <2>1
    <3>. QED
      BY <1>3, <1>5, <3>1 DEF OneBehind
  <2>. QED
    BY <1>3, <1>5, <2>1, <2>2, SeqEqual
<1>7. /\ seen' \in [Streams -> Seq(Nat)] /\ seen'[s] = r
      /\ \A t \in Streams \ {s} : seen'[t] = seen[t]
  BY <1>1, <1>2, <1>4, <1>5 DEF RelayTypes
<1>8. RelayTypes'
  BY <1>1, <1>2, <1>7 DEF RelayTypes
<1>9. ASSUME NEW t \in Streams, t # s
      PROVE  HandoverInv(t)'
  BY <1>1, <1>2, <1>7, <1>9, OtherRelays DEF RelayTypes
<1>10. relay'[s] = "receiving" /\ inHand'[s] = 0
  BY <1>1, <1>2 DEF RelayTypes
<1>11. HandoverInv(s)'
  BY <1>1, <1>3, <1>6, <1>7, <1>10 DEF HandoverInv
<1>. QED
  BY <1>8, <1>9, <1>11 DEF RelayInv

LEMMA EndKeepsRelays ==
  ASSUME RelayInv, TypeOK, NEW s \in Streams,
         RelayObservesCancel(s) \/ RelayEnds(s)
  PROVE  RelayInv'
<1>1. /\ relay' = [relay EXCEPT ![s] = "returned"]
      /\ inHand' \in {inHand, [inHand EXCEPT ![s] = 0]}
      /\ UNCHANGED <<seen, failed, spc, got, cancelled>>
  BY DEF RelayObservesCancel, RelayEnds, HandedOver, vars, streamVars
<1>2. RelayTypes /\ HandoverInv(s)
  BY DEF RelayInv
<1>3. /\ \/ relay[s] = "offering" /\ cancelled[s] /\ inHand'[s] = 0
         \/ relay[s] = "receiving" /\ spc[s] = "closed" /\ inHand' = inHand
  BY <1>2 DEF RelayObservesCancel, RelayEnds, HandedOver, RelayTypes
<1>4. /\ relay'[s] = "returned" /\ relay' \in [Streams ->
           {"off", "receiving", "offering", "returned"}]
      /\ \A t \in Streams \ {s} : relay'[t] = relay[t] /\ inHand'[t] = inHand[t]
      /\ inHand' \in [Streams -> Nat]
  BY <1>1, <1>2 DEF RelayTypes
<1>5. RelayTypes'
  BY <1>1, <1>2, <1>4 DEF RelayTypes
<1>6. ASSUME NEW t \in Streams, t # s
      PROVE  HandoverInv(t)'
  BY <1>1, <1>4, <1>6, OtherRelays
<1>7. spc[s] # "off"
  BY <1>2, <1>3 DEF HandoverInv
<1>8. HandoverInv(s)'
  BY <1>1, <1>2, <1>3, <1>4, <1>7 DEF HandoverInv, OneBehind
<1>. QED
  BY <1>5, <1>6, <1>8 DEF RelayInv

LEMMA RelayInvStep ==
  IInv /\ StreamInv /\ RelayInv /\ [NextRelay]_allVars => RelayInv'
<1>. SUFFICES ASSUME IInv, StreamInv, RelayInv, [NextRelay]_allVars
              PROVE  RelayInv'
  OBVIOUS
<1>1. TypeOK
  BY DEF IInv
<1>2. CASE UNCHANGED allVars
  BY <1>2 DEF allVars, vars, streamVars, relayVars, RelayInv, RelayTypes,
              HandoverInv, OneBehind
<1>3. CASE NextRelay
  BY <1>1, <1>3, InnerKeepsRelays, StartKeepsRelays, ReceiveKeepsRelays,
     OpenFailsKeepsRelays, OfferKeepsRelays, EndKeepsRelays DEF NextRelay
<1>. QED
  BY <1>2, <1>3

LEMMA RelayInvariance == RelaySpec => []RelayInv
<1>1. RelaySpec => []IInv /\ []StreamInv
  BY RelaysAreConsumers, Invariance, StreamInvariance, PTL
<1>. QED
  BY <1>1, InitRelayInv, RelayInvStep, PTL DEF RelaySpec

-----------------------------------------------------------------------------
(* What an application has received is what the inner stream handed out, or *)
(* all of it but the last event.                                            *)
LEMMA SeenIsPrefix ==
  ASSUME RelayInv, TypeOK, NEW s \in Streams
  PROVE  /\ seen[s] \in Seq(Nat) /\ got[s] \in Seq(Nat)
         /\ Len(seen[s]) \in Nat /\ Len(got[s]) \in Nat
         /\ Len(seen[s]) <= Len(got[s])
         /\ Len(got[s]) <= Len(seen[s]) + 1
         /\ \A i \in 1..Len(seen[s]) : seen[s][i] = got[s][i]
<1>1. seen[s] \in Seq(Nat) /\ got[s] \in Seq(Nat) /\ HandoverInv(s)
  BY DEF RelayInv, RelayTypes, TypeOK
<1>2. Len(seen[s]) \in Nat /\ Len(got[s]) \in Nat
  BY <1>1, LenProperties
<1>3. seen[s] = got[s] \/ OneBehind(s)
  BY <1>1 DEF RelayInv, RelayTypes, HandoverInv
<1>. QED
  BY <1>1, <1>2, <1>3 DEF OneBehind

(* The goroutine of PiiEventStore.StreamAll neither drops, repeats nor      *)
(* reorders an event: the application has received everything the inner     *)
(* stream handed out, but for the event in hand or the one the relay        *)
(* returned with.                                                           *)
THEOREM RelayLosesNothing == RelaySpec => []RelayIsExact
<1>1. ASSUME IInv, RelayInv
      PROVE  RelayIsExact
  <2>. SUFFICES ASSUME NEW s \in Streams
                PROVE
         /\ inHand[s] # 0 <=> relay[s] = "offering"
         /\ Len(seen[s]) <= Len(got[s]) /\ Len(got[s]) <= Len(seen[s]) + 1
         /\ seen[s] = SubSeq(got[s], 1, Len(seen[s]))
         /\ relay[s] = "receiving" => Len(seen[s]) = Len(got[s])
         /\ Len(got[s]) > Len(seen[s]) /\ relay[s] = "returned" =>
              s \in failed \/ cancelled[s]
    BY DEF RelayIsExact
  <2>1. /\ seen[s] \in Seq(Nat) /\ got[s] \in Seq(Nat)
        /\ Len(seen[s]) \in Nat /\ Len(got[s]) \in Nat
        /\ Len(seen[s]) <= Len(got[s])
        /\ Len(got[s]) <= Len(seen[s]) + 1
        /\ \A i \in 1..Len(seen[s]) : seen[s][i] = got[s][i]
    BY <1>1, SeenIsPrefix DEF IInv
  <2>2. HandoverInv(s)
    BY <1>1 DEF RelayInv
  <2>3. inHand[s] # 0 <=> relay[s] = "offering"
    BY <2>2 DEF HandoverInv
  <2>4. relay[s] = "receiving" => Len(seen[s]) = Len(got[s])
    BY <2>2 DEF HandoverInv
  <2>5. Len(got[s]) > Len(seen[s]) /\ relay[s] = "returned" =>
          s \in failed \/ cancelled[s]
    BY <2>1, <2>2 DEF HandoverInv
  <2>6. seen[s] = SubSeq(got[s], 1, Len(seen[s]))
    <3>1. PICK n : n = Len(seen[s])
      OBVIOUS
    <3>2. PICK r : r = SubSeq(got[s], 1, n)
      OBVIOUS
    <3>3. n \in Nat /\ n <= Len(got[s]) /\ \A i \in 1..n : i \in 1..Len(got[s])
      BY <2>1, <3>1
    <3>4. r \in Seq(Nat) /\ Len(r) = n
      BY <2>1, <3>2, <3>3
    <3>5. \A i \in 1..n : r[i] = got[s][i]
      BY <2>1, <3>2, <3>3
    <3>6. r = seen[s]
      BY <2>1, <3>1, <3>4, <3>5, SeqEqual
    <3>. QED
      BY <3>1, <3>2, <3>6
  <2>. QED
    BY <2>1, <2>3, <2>4, <2>5, <2>6
<1>. QED
  BY <1>1, RelaysAreConsumers, Invariance, RelayInvariance, PTL

(* ResolveStoreConfig takes the last tenant given, and withTenant puts the  *)
(* bound one behind all others.                                             *)
LEMMA LastOptionWins ==
  ASSUME NEW s \in Streams, BoundTo[s] # NotBound
  PROVE  ScopeOfStream[s] = BoundTo[s] /\ BoundTo[s] \in Tenants
<1>1. /\ BoundTo[s] \in Tenants /\ BoundTo[s] # AllTenants
      /\ OptionsOf[s] \in Seq(Tenants \cup {AllTenants})
  BY RelayAssumption
<1>2. PICK opts : opts = WithTenant(s)
  OBVIOUS
<1>3. PICK n : n = Len(OptionsOf[s]) + 1
  OBVIOUS
<1>4. opts = Append(OptionsOf[s], BoundTo[s])
  BY <1>2 DEF WithTenant, BoundLast
<1>5. /\ Append(OptionsOf[s], BoundTo[s]) \in Seq(Tenants \cup {AllTenants})
      /\ Len(Append(OptionsOf[s], BoundTo[s])) = n
      /\ Append(OptionsOf[s], BoundTo[s])[n] = BoundTo[s]
  BY <1>1, <1>3, AppendProperties
<1>6. opts \in Seq(Tenants \cup {AllTenants}) /\ Len(opts) = n
      /\ opts[n] = BoundTo[s]
  BY <1>4, <1>5
<1>7. n \in Nat /\ n > 0 /\ DOMAIN opts = 1..n
  BY <1>1, <1>3, <1>6, LenProperties
<1>. DEFINE scoped == {i \in DOMAIN opts : opts[i] # AllTenants}
<1>8. n \in scoped /\ \A j \in scoped : j <= n /\ j \in Nat
  BY <1>1, <1>6, <1>7
<1>. HIDE DEF scoped
<1>9. \A i \in scoped : (\A j \in scoped : j <= i) => i = n
  BY <1>7, <1>8
<1>10. (CHOOSE i \in scoped : \A j \in scoped : j <= i) = n
  BY <1>8, <1>9
<1>11. ResolveStoreConfig(opts) = opts[n]
  BY <1>8, <1>10 DEF ResolveStoreConfig, scoped
<1>12. ScopeOfStream[s] = ResolveStoreConfig(WithTenant(s))
  BY RelayAssumption DEF ResolvedScopes
<1>. QED
  BY <1>1, <1>2, <1>6, <1>11, <1>12

(* Whatever options are passed to a TenantScopedStore's StreamAll, what the *)
(* application sees is of the bound tenant or global, and it sees all of    *)
(* that up to the last event it saw.                                        *)
THEOREM BoundTenantAlwaysWins == RelaySpec => []BoundTenantWins
<1>1. ASSUME IInv, StreamsAreExact, RelayInv
      PROVE  BoundTenantWins
  <2>. SUFFICES ASSUME NEW s \in Streams, BoundTo[s] # NotBound,
                       NEW i \in DOMAIN seen[s]
                PROVE
         LET own == {p \in DOMAIN all : all[p].key[1] \in {BoundTo[s], Global}} IN
           /\ seen[s][i] \in own
           /\ \A p \in own :
                p < seen[s][i] => \E j \in DOMAIN seen[s] : seen[s][j] = p
    BY DEF BoundTenantWins
  <2>1. ScopeOfStream[s] = BoundTo[s] /\ BoundTo[s] # Everything
    BY LastOptionWins, ScopesAssumption
  <2>2. \A e : Contract!InScope(s, e) <=> e.key[1] \in {BoundTo[s], Global}
    BY <2>1 DEF Contract!InScope
  <2>3. /\ seen[s] \in Seq(Nat) /\ got[s] \in Seq(Nat)
        /\ Len(seen[s]) \in Nat /\ Len(got[s]) \in Nat
        /\ Len(seen[s]) <= Len(got[s])
        /\ \A j \in 1..Len(seen[s]) : seen[s][j] = got[s][j]
    BY <1>1, SeenIsPrefix DEF IInv
  <2>4. DOMAIN seen[s] = 1..Len(seen[s]) /\ DOMAIN got[s] = 1..Len(got[s])
    BY <2>3, LenProperties
  <2>5. i \in DOMAIN got[s] /\ i \in Nat /\ seen[s][i] = got[s][i]
    BY <2>3, <2>4
  <2>6. /\ got[s][i] \in DOMAIN all
        /\ Contract!InScope(s, all[got[s][i]])
        /\ \A p \in 1..got[s][i] : Contract!InScope(s, all[p]) =>
             \E j \in 1..i : got[s][j] = p
    BY <1>1, <2>5 DEF StreamsAreExact, HandedOutInOrder
  <2>7. DOMAIN all = 1..Len(all) /\ Len(all) \in Nat
    BY <1>1, LenProperties DEF IInv, TypeOK
  <2>8. ASSUME NEW p \in DOMAIN all, all[p].key[1] \in {BoundTo[s], Global},
               p < seen[s][i]
        PROVE  \E j \in DOMAIN seen[s] : seen[s][j] = p
    <3>1. p \in 1..got[s][i]
      BY <2>5, <2>6, <2>7, <2>8
    <3>2. PICK j \in 1..i : got[s][j] = p
      BY <2>2, <2>6, <2>8, <3>1
    <3>3. \A l \in Nat : i \in 1..l => j \in 1..l
      BY <2>5, <3>2
    <3>4. j \in 1..Len(seen[s])
      BY <2>3, <2>4, <3>3
    <3>5. seen[s][j] = p
      BY <2>3, <3>2, <3>4
    <3>. QED
      BY <2>4, <3>4, <3>5
  <2>. QED
    BY <2>2, <2>5, <2>6, <2>8
<1>. QED
  BY <1>1, RelaysAreConsumers, Invariance, StreamsLoseNothing, RelayInvariance, PTL

=============================================================================
