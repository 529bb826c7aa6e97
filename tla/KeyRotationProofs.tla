------------------------- MODULE KeyRotationProofs --------------------------
(***************************************************************************)
(* Theorems about KeyRotation, for any clients, subjects and wrappers and   *)
(* any number of keys and failures.                                         *)
(***************************************************************************)
EXTENDS KeyRotation, TLAPS

-----------------------------------------------------------------------------
(* The inductive invariant.                                                 *)

(* A Put holds what its step says.                                          *)
PutInv ==
  \A c \in Clients : put[c].step # "none" =>
    /\ put[c].subject \in Subjects
    /\ put[c].key \in Keys
    /\ put[c].step \in {"label", "store"} => put[c].kek \in Wrappers
    /\ put[c].step = "store" => put[c].label \in Wrappers

(* A Put that has met no Rotate has seen one wrapper only.                  *)
AloneInv ==
  \A c \in alone :
    /\ rotating = "no"
    /\ put[c].step # "none"
    /\ put[c].step \in {"label", "store"} => put[c].kek = wrapper
    /\ put[c].step = "store" => put[c].label = wrapper

(* Where a key of s can be: in the ring, with a Put, with Rotate.           *)
HasKey(s, k) ==
  \/ stored[s] # None /\ stored[s].key = k
  \/ \E c \in Clients :
       put[c].step # "none" /\ put[c].subject = s /\ put[c].key = k
  \/ rotating = "put" /\ held = s /\ heldKey = k

(* Every key belongs to one subject, wherever it is.                        *)
KeyInv ==
  /\ \A s \in Subjects : \A k \in Keys : HasKey(s, k) => k <= issued
  /\ \A s, t \in Subjects : \A k \in Keys :
       HasKey(s, k) /\ HasKey(t, k) => s = t

(* The key Rotate is about to store is the one that is settled.             *)
HeldInv ==
  rotating = "put" =>
    /\ settled[held] # 0 => heldKey = settled[held]
    /\ held \in forgotten => held \in overtaken

(* What Rotate has passed is wrapped under its target, or was put since.    *)
PassedInv ==
  rotating # "no" =>
    \A s \in Subjects \ todo :
      /\ settled[s] # 0 => stored[s].label = target
      /\ stored[s] # None =>
           s \in meanwhile \/ (stored[s].label = target /\ stored[s].kek = target)

IInv ==
  /\ TypeOK
  /\ PutInv
  /\ AloneInv
  /\ KeyInv
  /\ HeldInv
  /\ PassedInv
  /\ SettledKeysSurvive
  /\ OnlyKeysPutMeanwhileAreMissed
  /\ OnlyOvertakenForgetsAreUndone

-----------------------------------------------------------------------------
LEMMA InitInv == Init => IInv
BY RotationAssumption, SMT DEF Init, IInv, TypeOK, PutInv, AloneInv, KeyInv,
   HasKey, HeldInv, PassedInv, SettledKeysSurvive,
   OnlyKeysPutMeanwhileAreMissed, OnlyOvertakenForgetsAreUndone, NoPut, Put

LEMMA SealGeneratesKeyInv ==
  ASSUME IInv, NEW c \in Clients, NEW s \in Subjects, SealGeneratesKey(c, s)
  PROVE  IInv'
<1> USE RotationAssumption, NoneIsNoBlob
    DEF IInv, SealGeneratesKey, NewKey,
        clientVars, rotationVars, historyVars, Keys
<1>1. TypeOK'
  <2>1. put' \in [Clients -> Put]
    BY DEF TypeOK, Put
  <2> QED BY <2>1 DEF TypeOK
<1>2. PutInv' /\ AloneInv'
  BY DEF TypeOK, PutInv, AloneInv
<1>3. KeyInv'
  BY DEF TypeOK, KeyInv, HasKey
<1>4. HeldInv'
  BY DEF HeldInv
<1>5. PassedInv'
  BY DEF PassedInv
<1>6. SettledKeysSurvive'
  BY DEF SettledKeysSurvive
<1>7. OnlyKeysPutMeanwhileAreMissed'
  BY DEF OnlyKeysPutMeanwhileAreMissed, Opens
<1>8. OnlyOvertakenForgetsAreUndone'
  BY DEF OnlyOvertakenForgetsAreUndone
<1> QED BY <1>1, <1>2, <1>3, <1>4, <1>5, <1>6, <1>7, <1>8

LEMMA PutWrapsInv ==
  ASSUME IInv, NEW c \in Clients, PutWraps(c)
  PROVE  IInv'
<1> USE RotationAssumption, NoneIsNoBlob
    DEF IInv, PutWraps,
        clientVars, rotationVars, historyVars, Keys
<1>1. TypeOK'
  <2>1. put' \in [Clients -> Put]
    <3>1. put[c] \in Put /\ wrapper \in Wrappers
      BY DEF TypeOK
    <3>2. [put[c] EXCEPT !.step = "label", !.kek = wrapper] \in Put
      BY <3>1 DEF Put
    <3>3. put' = [put EXCEPT ![c] = [put[c] EXCEPT !.step = "label", !.kek = wrapper]]
      OBVIOUS
    <3> QED BY <3>2, <3>3 DEF TypeOK
  <2> QED BY <2>1 DEF TypeOK
<1>2. PutInv' /\ AloneInv'
  BY DEF TypeOK, PutInv, AloneInv
<1>3. KeyInv'
  BY DEF TypeOK, KeyInv, HasKey
<1>4. HeldInv'
  BY DEF HeldInv
<1>5. PassedInv'
  BY DEF PassedInv
<1>6. SettledKeysSurvive'
  BY DEF SettledKeysSurvive
<1>7. OnlyKeysPutMeanwhileAreMissed'
  BY DEF OnlyKeysPutMeanwhileAreMissed, Opens
<1>8. OnlyOvertakenForgetsAreUndone'
  BY DEF OnlyOvertakenForgetsAreUndone
<1> QED BY <1>1, <1>2, <1>3, <1>4, <1>5, <1>6, <1>7, <1>8

LEMMA PutLabelsInv ==
  ASSUME IInv, NEW c \in Clients, PutLabels(c)
  PROVE  IInv'
<1> USE RotationAssumption, NoneIsNoBlob
    DEF IInv, PutLabels,
        clientVars, rotationVars, historyVars, Keys
<1>1. TypeOK'
  <2>1. put' \in [Clients -> Put]
    <3>1. put[c] \in Put /\ wrapper \in Wrappers
      BY DEF TypeOK
    <3>2. [put[c] EXCEPT !.step = "store", !.label = wrapper] \in Put
      BY <3>1 DEF Put
    <3>3. put' = [put EXCEPT ![c] = [put[c] EXCEPT !.step = "store", !.label = wrapper]]
      OBVIOUS
    <3> QED BY <3>2, <3>3 DEF TypeOK
  <2> QED BY <2>1 DEF TypeOK
<1>2. PutInv' /\ AloneInv'
  BY DEF TypeOK, PutInv, AloneInv
<1>3. KeyInv'
  BY DEF TypeOK, KeyInv, HasKey
<1>4. HeldInv'
  BY DEF HeldInv
<1>5. PassedInv'
  BY DEF PassedInv
<1>6. SettledKeysSurvive'
  BY DEF SettledKeysSurvive
<1>7. OnlyKeysPutMeanwhileAreMissed'
  BY DEF OnlyKeysPutMeanwhileAreMissed, Opens
<1>8. OnlyOvertakenForgetsAreUndone'
  BY DEF OnlyOvertakenForgetsAreUndone
<1> QED BY <1>1, <1>2, <1>3, <1>4, <1>5, <1>6, <1>7, <1>8

LEMMA PutStoresInv ==
  ASSUME IInv, NEW c \in Clients, PutStores(c)
  PROVE  IInv'
<1> USE RotationAssumption, NoneIsNoBlob
    DEF IInv, PutStores, NoPut,
        clientVars, rotationVars, historyVars, Keys
<1>1. TypeOK'
  <2>1. put' \in [Clients -> Put]
    BY DEF TypeOK, Put
  <2>2. stored' \in [Subjects -> Blob \cup {None}]
    BY DEF TypeOK, Blob, PutInv
  <2> QED BY <2>1, <2>2 DEF TypeOK, PutInv
<1>2. PutInv' /\ AloneInv'
  BY DEF PutInv, AloneInv
<1>3. KeyInv'
  BY DEF KeyInv, HasKey
<1>4. HeldInv'
  BY DEF HeldInv, AloneInv
<1>5. PassedInv'
  BY DEF TypeOK, PassedInv, AloneInv
<1>6. SettledKeysSurvive'
  <2> SUFFICES ASSUME NEW t \in Subjects, settled'[t] # 0
               PROVE  /\ stored'[t] # None
                      /\ stored'[t].key = settled'[t]
                      /\ stored'[t].kek = stored'[t].label
                      /\ stored'[t].label \in {wrapper', target'}
    BY DEF SettledKeysSurvive
  <2>1. CASE t = put[c].subject
    <3>1. /\ stored'[t] = [label |-> put[c].label, kek |-> put[c].kek,
                           key |-> put[c].key]
          /\ settled'[t] = IF c \in alone THEN put[c].key ELSE 0
      BY <2>1 DEF TypeOK
    <3>2. c \in alone /\ settled'[t] = put[c].key
      BY <3>1
    <3>3. put[c].kek = wrapper /\ put[c].label = wrapper
      BY <3>2 DEF AloneInv
    <3>4. stored'[t] \in Blob
      BY <3>1 DEF PutInv, TypeOK, Put, Blob
    <3> QED BY <3>1, <3>2, <3>3, <3>4
  <2>2. CASE t # put[c].subject
    BY <2>2 DEF TypeOK, SettledKeysSurvive
  <2> QED BY <2>1, <2>2
<1>7. OnlyKeysPutMeanwhileAreMissed'
  <2> SUFFICES ASSUME result = "done", rotating = "no", NEW t \in Subjects,
                      stored'[t] # None, ~Opens(stored'[t])
               PROVE  t \in meanwhile'
    BY DEF OnlyKeysPutMeanwhileAreMissed, Opens
  <2>1. CASE t = put[c].subject
    <3>1. stored'[t] = [label |-> put[c].label, kek |-> put[c].kek,
                        key |-> put[c].key]
      BY <2>1 DEF TypeOK
    <3>2. c \notin alone
      BY <3>1 DEF AloneInv, Opens
    <3> QED BY <2>1, <3>2
  <2>2. CASE t # put[c].subject
    BY <2>2 DEF TypeOK, OnlyKeysPutMeanwhileAreMissed, Opens
  <2> QED BY <2>1, <2>2
<1>8. OnlyOvertakenForgetsAreUndone'
  BY DEF OnlyOvertakenForgetsAreUndone
<1> QED BY <1>1, <1>2, <1>3, <1>4, <1>5, <1>6, <1>7, <1>8

LEMMA PutFailsInv ==
  ASSUME IInv, NEW c \in Clients, PutFails(c)
  PROVE  IInv'
<1> USE RotationAssumption, NoneIsNoBlob
    DEF IInv, PutFails, NoPut,
        clientVars, rotationVars, historyVars, Keys
<1>1. TypeOK'
  <2>1. put' \in [Clients -> Put]
    BY DEF TypeOK, Put
  <2> QED BY <2>1 DEF TypeOK
<1>2. PutInv' /\ AloneInv'
  BY DEF TypeOK, PutInv, AloneInv
<1>3. KeyInv'
  BY DEF TypeOK, KeyInv, HasKey
<1>4. HeldInv'
  BY DEF HeldInv
<1>5. PassedInv'
  BY DEF PassedInv
<1>6. SettledKeysSurvive'
  BY DEF SettledKeysSurvive
<1>7. OnlyKeysPutMeanwhileAreMissed'
  BY DEF OnlyKeysPutMeanwhileAreMissed, Opens
<1>8. OnlyOvertakenForgetsAreUndone'
  BY DEF OnlyOvertakenForgetsAreUndone
<1> QED BY <1>1, <1>2, <1>3, <1>4, <1>5, <1>6, <1>7, <1>8

LEMMA ForgetInv ==
  ASSUME IInv, NEW s \in Subjects, Forget(s)
  PROVE  IInv'
<1> USE RotationAssumption, NoneIsNoBlob
    DEF IInv, Forget, Without,
        clientVars, rotationVars, historyVars, Keys
<1>1. TypeOK'
  BY DEF TypeOK
<1>2. PutInv' /\ AloneInv'
  BY DEF PutInv, AloneInv
<1>3. KeyInv'
  BY DEF KeyInv, HasKey
<1>4. HeldInv'
  BY DEF HeldInv
<1>5. PassedInv'
  BY DEF TypeOK, PassedInv
<1>6. SettledKeysSurvive'
  BY DEF TypeOK, SettledKeysSurvive
<1>7. OnlyKeysPutMeanwhileAreMissed'
  BY DEF OnlyKeysPutMeanwhileAreMissed, Opens
<1>8. OnlyOvertakenForgetsAreUndone'
  BY DEF TypeOK, OnlyOvertakenForgetsAreUndone
<1> QED BY <1>1, <1>2, <1>3, <1>4, <1>5, <1>6, <1>7, <1>8

LEMMA RotateListsInv ==
  ASSUME IInv, RotateLists
  PROVE  IInv'
<1> USE RotationAssumption, NoneIsNoBlob
    DEF IInv, RotateLists, ChoosesTarget, Listed,
        clientVars, rotationVars, historyVars, Keys
<1>1. TypeOK'
  BY DEF TypeOK
<1>2. PutInv' /\ AloneInv'
  BY DEF PutInv, AloneInv
<1>3. KeyInv'
  BY DEF KeyInv, HasKey
<1>4. HeldInv'
  BY DEF HeldInv
<1>5. PassedInv'
  BY DEF PassedInv, SettledKeysSurvive
<1>6. SettledKeysSurvive'
  BY DEF TypeOK, Blob, SettledKeysSurvive
<1>7. OnlyKeysPutMeanwhileAreMissed'
  BY DEF OnlyKeysPutMeanwhileAreMissed
<1>8. OnlyOvertakenForgetsAreUndone'
  BY DEF OnlyOvertakenForgetsAreUndone
<1> QED BY <1>1, <1>2, <1>3, <1>4, <1>5, <1>6, <1>7, <1>8

LEMMA RotateCannotListInv ==
  ASSUME IInv, RotateCannotList
  PROVE  IInv'
<1> USE RotationAssumption, NoneIsNoBlob
    DEF IInv, RotateCannotList, ChoosesTarget,
        clientVars, rotationVars, historyVars, Keys
<1>1. TypeOK'
  BY DEF TypeOK
<1>2. PutInv' /\ AloneInv'
  BY DEF PutInv, AloneInv
<1>3. KeyInv'
  BY DEF KeyInv, HasKey
<1>4. HeldInv'
  BY DEF HeldInv
<1>5. PassedInv'
  BY DEF PassedInv, SettledKeysSurvive
<1>6. SettledKeysSurvive'
  BY DEF TypeOK, Blob, SettledKeysSurvive
<1>7. OnlyKeysPutMeanwhileAreMissed'
  BY DEF OnlyKeysPutMeanwhileAreMissed
<1>8. OnlyOvertakenForgetsAreUndone'
  BY DEF OnlyOvertakenForgetsAreUndone
<1> QED BY <1>1, <1>2, <1>3, <1>4, <1>5, <1>6, <1>7, <1>8

LEMMA RotateGetsInv ==
  ASSUME IInv, RotateGets
  PROVE  IInv'
<1> USE RotationAssumption, NoneIsNoBlob
    DEF IInv, RotateGets, Rewrappable, Decodes,
        clientVars, rotationVars, historyVars, Keys
<1>1. TypeOK'
  BY DEF TypeOK, Blob
<1>2. PutInv' /\ AloneInv'
  BY DEF PutInv, AloneInv
<1>3. KeyInv'
  BY DEF KeyInv, HasKey
<1>4. HeldInv'
  BY DEF TypeOK, HeldInv, SettledKeysSurvive, OnlyOvertakenForgetsAreUndone
<1>5. PassedInv'
  BY DEF PassedInv
<1>6. SettledKeysSurvive'
  BY DEF SettledKeysSurvive
<1>7. OnlyKeysPutMeanwhileAreMissed'
  BY DEF OnlyKeysPutMeanwhileAreMissed
<1>8. OnlyOvertakenForgetsAreUndone'
  BY DEF OnlyOvertakenForgetsAreUndone
<1> QED BY <1>1, <1>2, <1>3, <1>4, <1>5, <1>6, <1>7, <1>8

LEMMA RotatePutsInv ==
  ASSUME IInv, RotatePuts
  PROVE  IInv'
<1> USE RotationAssumption, NoneIsNoBlob
    DEF IInv, RotatePuts, Rewrapped,
        clientVars, rotationVars, historyVars, Keys
<1>1. TypeOK'
  BY DEF TypeOK, Blob
<1>2. PutInv' /\ AloneInv'
  BY DEF PutInv, AloneInv
<1>3. KeyInv'
  BY DEF KeyInv, HasKey
<1>4. HeldInv'
  BY DEF HeldInv
<1>5. PassedInv'
  BY DEF TypeOK, PassedInv
<1>6. SettledKeysSurvive'
  BY DEF TypeOK, Blob, SettledKeysSurvive, HeldInv
<1>7. OnlyKeysPutMeanwhileAreMissed'
  BY DEF OnlyKeysPutMeanwhileAreMissed
<1>8. OnlyOvertakenForgetsAreUndone'
  BY DEF OnlyOvertakenForgetsAreUndone, HeldInv
<1> QED BY <1>1, <1>2, <1>3, <1>4, <1>5, <1>6, <1>7, <1>8

LEMMA RotateRefusesInv ==
  ASSUME IInv, RotateRefuses
  PROVE  IInv'
<1> USE RotationAssumption, NoneIsNoBlob
    DEF IInv, RotateRefuses, RotateErrs,
        clientVars, rotationVars, historyVars, Keys
<1>1. TypeOK'
  BY DEF TypeOK
<1>2. PutInv' /\ AloneInv'
  BY DEF PutInv, AloneInv
<1>3. KeyInv'
  BY DEF KeyInv, HasKey
<1>4. HeldInv'
  BY DEF HeldInv
<1>5. PassedInv'
  BY DEF PassedInv
<1>6. SettledKeysSurvive'
  BY DEF SettledKeysSurvive
<1>7. OnlyKeysPutMeanwhileAreMissed'
  BY DEF OnlyKeysPutMeanwhileAreMissed
<1>8. OnlyOvertakenForgetsAreUndone'
  BY DEF OnlyOvertakenForgetsAreUndone
<1> QED BY <1>1, <1>2, <1>3, <1>4, <1>5, <1>6, <1>7, <1>8

LEMMA RotateFailsInv ==
  ASSUME IInv, RotateFails
  PROVE  IInv'
<1> USE RotationAssumption, NoneIsNoBlob
    DEF IInv, RotateFails, RotateErrs, Rewrapped,
        clientVars, rotationVars, historyVars, Keys
<1>1. TypeOK'
  BY DEF TypeOK, Blob
<1>2. PutInv' /\ AloneInv'
  BY DEF PutInv, AloneInv
<1>3. KeyInv'
  BY DEF TypeOK, KeyInv, HasKey
<1>4. HeldInv'
  BY DEF HeldInv
<1>5. PassedInv'
  BY DEF PassedInv
<1>6. SettledKeysSurvive'
  BY DEF TypeOK, Blob, SettledKeysSurvive, HeldInv
<1>7. OnlyKeysPutMeanwhileAreMissed'
  BY DEF OnlyKeysPutMeanwhileAreMissed
<1>8. OnlyOvertakenForgetsAreUndone'
  BY DEF TypeOK, OnlyOvertakenForgetsAreUndone, HeldInv
<1> QED BY <1>1, <1>2, <1>3, <1>4, <1>5, <1>6, <1>7, <1>8

LEMMA RotateReturnsInv ==
  ASSUME IInv, RotateReturns
  PROVE  IInv'
<1> USE RotationAssumption, NoneIsNoBlob
    DEF IInv, RotateReturns, AllRewrapped,
        clientVars, rotationVars, historyVars, Keys
<1>1. TypeOK'
  BY DEF TypeOK
<1>2. PutInv' /\ AloneInv'
  BY DEF PutInv, AloneInv
<1>3. KeyInv'
  BY DEF KeyInv, HasKey
<1>4. HeldInv'
  BY DEF HeldInv
<1>5. PassedInv'
  BY DEF PassedInv
<1>6. SettledKeysSurvive'
  BY DEF SettledKeysSurvive, PassedInv
<1>7. OnlyKeysPutMeanwhileAreMissed'
  BY DEF OnlyKeysPutMeanwhileAreMissed, Opens, PassedInv
<1>8. OnlyOvertakenForgetsAreUndone'
  BY DEF OnlyOvertakenForgetsAreUndone
<1> QED BY <1>1, <1>2, <1>3, <1>4, <1>5, <1>6, <1>7, <1>8

LEMMA StutterInv ==
  ASSUME IInv, UNCHANGED vars
  PROVE  IInv'
BY DEF IInv, vars, clientVars, rotationVars, historyVars, TypeOK, PutInv,
   AloneInv, KeyInv, HasKey, HeldInv, PassedInv, SettledKeysSurvive,
   OnlyKeysPutMeanwhileAreMissed, Opens, OnlyOvertakenForgetsAreUndone

LEMMA NextInv == IInv /\ [Next]_vars => IInv'
<1> SUFFICES ASSUME IInv, [Next]_vars PROVE IInv'
  OBVIOUS
<1>1. ASSUME NEW c \in Clients, ClientStep(c) PROVE IInv'
  BY <1>1, SealGeneratesKeyInv, PutWrapsInv, PutLabelsInv, PutStoresInv,
     PutFailsInv DEF ClientStep
<1>2. ASSUME NEW s \in Subjects, Forget(s) PROVE IInv'
  BY <1>2, ForgetInv
<1>3. CASE RotateStep
  BY <1>3, RotateListsInv, RotateCannotListInv, RotateGetsInv, RotatePutsInv,
      RotateRefusesInv, RotateFailsInv, RotateReturnsInv
     DEF RotateStep
<1>4. CASE UNCHANGED vars
  BY <1>4, StutterInv
<1> QED BY <1>1, <1>2, <1>3, <1>4 DEF Next

LEMMA Invariance == Spec => []IInv
BY InitInv, NextInv, PTL DEF Spec

-----------------------------------------------------------------------------
(* The variables keep their types, Rotate holds a key exactly between its   *)
(* Get and its Put (WrappedKeyRing.Put, Rotate).                            *)
THEOREM TypeCorrect == Spec => []TypeOK
<1>1. IInv => TypeOK
  BY DEF IInv
<1> QED BY <1>1, Invariance, PTL

(* No two subjects share a key (Seal, Rotate): one erasure destroys one     *)
(* person's data and nobody else's.                                         *)
THEOREM OneKeyPerSubject == Spec => []KeysAreNotShared
<1>1. IInv => KeysAreNotShared
  BY DEF IInv, TypeOK, Blob, KeyInv, HasKey, KeysAreNotShared
<1> QED BY <1>1, Invariance, PTL

(* A key put while no Rotate ran is never lost by one, however many Puts,   *)
(* Forgets, failures and re-runs Rotate meets (WrappedKeyRing.Rotate).      *)
THEOREM RotationLosesNoKey == Spec => []SettledKeysSurvive
<1>1. IInv => SettledKeysSurvive
  BY DEF IInv
<1> QED BY <1>1, Invariance, PTL

(* After a Rotate that returned nil, every key in the ring opens under the  *)
(* new wrapper, those put while it ran excepted.                            *)
THEOREM RotationIsComplete == Spec => []OnlyKeysPutMeanwhileAreMissed
<1>1. IInv => OnlyKeysPutMeanwhileAreMissed
  BY DEF IInv
<1> QED BY <1>1, Invariance, PTL

(* Rotate undoes a Forget only if it came between its own Get and Put of    *)
(* that subject.                                                            *)
THEOREM ForgottenUnlessOvertaken == Spec => []OnlyOvertakenForgetsAreUndone
<1>1. IInv => OnlyOvertakenForgetsAreUndone
  BY DEF IInv
<1> QED BY <1>1, Invariance, PTL

=============================================================================
