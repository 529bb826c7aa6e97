---------------------------- MODULE KeyRotation -----------------------------
(***************************************************************************)
(* es/wrapped_keyring.go: a key ring whose keys are stored wrapped under a  *)
(* key-encryption key (KEK), and Rotate, which re-wraps them one by one     *)
(* under another while the rest of the program keeps using the ring.        *)
(*                                                                          *)
(* The underlying ring (memstore.KeyRing, pgstore.KeyRing) has atomic Get,  *)
(* Put, Forget and Subjects.  A KeyWrapper is its KEK; the label it writes  *)
(* beside the blob names a KEK too.  Keys are numbers.  The field Wrapper   *)
(* of the ring is read and written without a lock: Put reads it twice.      *)
(***************************************************************************)
EXTENDS Naturals, FiniteSets

CONSTANTS
  Clients,        \* goroutines sealing events of subjects without a key
  Subjects,       \* data subjects
  Wrappers,       \* KEKs, and their labels
  None,           \* no blob
  MaxKeys,        \* bound: keys generated
  MaxFailures     \* bound: calls of Rotate that fail

ASSUME RotationAssumption ==
  /\ Wrappers # {}
  /\ None \notin Wrappers \cup Subjects
  /\ MaxKeys \in Nat
  /\ MaxFailures \in Nat

VARIABLES
  stored,         \* the underlying ring: subject -> blob
  wrapper,        \* WrappedKeyRing.Wrapper
  issued,         \* keys generated so far
  put,            \* client: the Put it is in
  rotating,       \* where Rotate is
  target,         \* its newWrapper
  todo,           \* subjects listed and not yet re-wrapped
  held,           \* subject whose key Rotate has unwrapped
  heldKey,        \* that key
  result,         \* what the last Rotate returned
  failures,       \* calls of Rotate that failed so far
  alone,          \* clients in a Put that has met no Rotate so far
  settled,        \* subject -> key put with no Rotate around, 0 if none
  meanwhile,      \* subjects whose last Put overlapped a Rotate
  forgotten,      \* subjects forgotten since their last Put
  overtaken       \* those forgotten between Rotate's Get and Put of them

clientVars   == <<issued, put>>
rotationVars == <<rotating, target, todo, held, heldKey, result, failures>>
historyVars  == <<alone, settled, meanwhile, forgotten, overtaken>>
vars == <<stored, wrapper, clientVars, rotationVars, historyVars>>

Keys == 1..MaxKeys

(* encodeWrappedBlob: a label and key material wrapped under a KEK.         *)
Blob == [label : Wrappers, kek : Wrappers, key : Keys]

ASSUME NoneIsNoBlob == None \notin Blob

(* A Put: step by step it holds the key, then also the KEK it was wrapped   *)
(* under, then also the label.                                              *)
Put == [step : {"none", "wrap", "label", "store"},
        subject : Subjects \cup {None},
        key : 0..MaxKeys,
        kek : Wrappers \cup {None},
        label : Wrappers \cup {None}]

NoPut == [step |-> "none", subject |-> None, key |-> 0, kek |-> None,
          label |-> None]

(* decodeWrappedBlob: an absent blob is too short to decode.                *)
Decodes(b) == b # None

(* WrappedKeyRing.Get of a stored blob: the labels match and GCM opens it.  *)
Opens(b) == b.label = wrapper /\ b.kek = wrapper

-----------------------------------------------------------------------------
(* Clients: PiiAnonymizer.Seal for a subject without a key.  A Get that     *)
(* finds a blob, whether it opens or not, changes nothing.                  *)

(* Mutation: one key for all.                                               *)
SharedKey == 1

NewKey == issued + 1

SealGeneratesKey(c, s) ==
  /\ put[c].step = "none"
  /\ stored[s] = None
  /\ issued < MaxKeys
  /\ issued' = issued + 1
  /\ put' = [put EXCEPT ![c] =
       [step |-> "wrap", subject |-> s, key |-> NewKey, kek |-> None, label |-> None]]
  /\ alone' = IF rotating = "no" THEN alone \cup {c} ELSE alone
  /\ UNCHANGED <<stored, wrapper, settled, meanwhile, forgotten, overtaken,
                 rotationVars>>

(* r.Wrapper.Wrap                                                           *)
PutWraps(c) ==
  /\ put[c].step = "wrap"
  /\ put' = [put EXCEPT ![c].step = "label", ![c].kek = wrapper]
  /\ UNCHANGED <<stored, wrapper, issued, rotationVars, historyVars>>

(* r.Wrapper.Label, of perhaps another wrapper.                             *)
PutLabels(c) ==
  /\ put[c].step = "label"
  /\ put' = [put EXCEPT ![c].step = "store", ![c].label = wrapper]
  /\ UNCHANGED <<stored, wrapper, issued, rotationVars, historyVars>>

(* r.Keys.Put                                                               *)
PutStores(c) ==
  LET p == put[c] IN
  /\ p.step = "store"
  /\ stored' = [stored EXCEPT ![p.subject] =
       [label |-> p.label, kek |-> p.kek, key |-> p.key]]
  /\ settled' = [settled EXCEPT ![p.subject] = IF c \in alone THEN p.key ELSE 0]
  /\ meanwhile' = IF c \in alone THEN meanwhile \ {p.subject}
                                ELSE meanwhile \cup {p.subject}
  /\ forgotten' = forgotten \ {p.subject}
  /\ overtaken' = overtaken \ {p.subject}
  /\ alone' = alone \ {c}
  /\ put' = [put EXCEPT ![c] = NoPut]
  /\ UNCHANGED <<wrapper, issued, rotationVars>>

(* Wrap or the store's Put returns an error: the key is lost with the call. *)
(* (An error after the blob was stored leaves what PutStores leaves.)       *)
PutFails(c) ==
  /\ put[c].step \in {"wrap", "store"}
  /\ put' = [put EXCEPT ![c] = NoPut]
  /\ alone' = alone \ {c}
  /\ UNCHANGED <<stored, wrapper, issued, settled, meanwhile, forgotten,
                 overtaken, rotationVars>>

(* Mutation: a key the wrapper cannot open is not forgotten.                *)
WithoutIfOpens(s) ==
  IF Opens(stored[s]) THEN [stored EXCEPT ![s] = None] ELSE stored

(* The row is deleted without a look at it.                                 *)
Without(s) == [stored EXCEPT ![s] = None]

Forget(s) ==
  /\ stored[s] # None
  /\ stored' = Without(s)
  /\ settled' = [settled EXCEPT ![s] = 0]
  /\ forgotten' = forgotten \cup {s}
  /\ overtaken' = IF held = s THEN overtaken \cup {s} ELSE overtaken \ {s}
  /\ UNCHANGED <<wrapper, alone, meanwhile, clientVars, rotationVars>>

-----------------------------------------------------------------------------
(* Rotate.  One operator runs it, again and again with one newWrapper until *)
(* it succeeds ("on error, re-run with the same newWrapper").               *)

Listed == {s \in Subjects : stored[s] # None}

ChoosesTarget ==
  target' \in IF target = None THEN Wrappers \ {wrapper} ELSE {target}

RotateLists ==
  /\ rotating = "no"
  /\ ChoosesTarget
  /\ rotating' = "next"
  /\ todo' = Listed
  /\ alone' = {}
  /\ UNCHANGED <<stored, wrapper, held, heldKey, result, failures, clientVars,
                 settled, meanwhile, forgotten, overtaken>>

(* Subjects returns an error, and so does Rotate.                           *)
RotateCannotList ==
  /\ rotating = "no"
  /\ ChoosesTarget
  /\ failures < MaxFailures
  /\ failures' = failures + 1
  /\ result' = "error"
  /\ alone' = {}
  /\ UNCHANGED <<stored, wrapper, rotating, todo, held, heldKey, clientVars,
                 settled, meanwhile, forgotten, overtaken>>

(* Rotate's checks of a blob: it decodes, its label is the current          *)
(* wrapper's, it unwraps.                                                   *)
Rewrappable(b) == Decodes(b) /\ Opens(b)

RotateGets ==
  /\ rotating = "next"
  /\ \E s \in todo :
       /\ Rewrappable(stored[s])
       /\ held' = s
       /\ heldKey' = stored[s].key
  /\ rotating' = "put"
  /\ UNCHANGED <<stored, wrapper, target, todo, result, failures, clientVars,
                 historyVars>>

(* Mutation: the new wrapping under the old label.                          *)
RewrappedOldLabel(key) == [label |-> wrapper, kek |-> target, key |-> key]

Rewrapped(key) == [label |-> target, kek |-> target, key |-> key]

RotatePuts ==
  /\ rotating = "put"
  /\ stored' = [stored EXCEPT ![held] = Rewrapped(heldKey)]
  /\ todo' = todo \ {held}
  /\ held' = None
  /\ heldKey' = 0
  /\ rotating' = "next"
  /\ UNCHANGED <<wrapper, target, result, failures, clientVars, historyVars>>

(* An error: Rotate returns and leaves the wrapper as it was.               *)
RotateErrs ==
  /\ rotating' = "no"
  /\ result' = "error"
  /\ todo' = {}
  /\ held' = None
  /\ heldKey' = 0
  /\ UNCHANGED <<wrapper, target, clientVars, historyVars>>

RotateRefuses ==
  /\ rotating = "next"
  /\ \E s \in todo : ~Rewrappable(stored[s])
  /\ RotateErrs
  /\ UNCHANGED <<stored, failures>>

(* Get, Wrap or Put returns an error; a Put may have taken effect.          *)
RotateFails ==
  /\ rotating # "no"
  /\ todo # {}
  /\ failures < MaxFailures
  /\ failures' = failures + 1
  /\ \/ UNCHANGED stored
     \/ /\ rotating = "put"
        /\ stored' = [stored EXCEPT ![held] = Rewrapped(heldKey)]
  /\ RotateErrs

(* Mutation: the loop ends one subject early.                               *)
OneLeft == Cardinality(todo) <= 1

AllRewrapped == todo = {}

(* r.Wrapper = newWrapper                                                   *)
RotateReturns ==
  /\ rotating = "next"
  /\ AllRewrapped
  /\ wrapper' = target
  /\ target' = None
  /\ rotating' = "no"
  /\ result' = "done"
  /\ todo' = {}
  /\ UNCHANGED <<stored, held, heldKey, failures, clientVars, historyVars>>

-----------------------------------------------------------------------------
Init ==
  /\ stored = [s \in Subjects |-> None]
  /\ wrapper \in Wrappers
  /\ issued = 0
  /\ put = [c \in Clients |-> NoPut]
  /\ rotating = "no"
  /\ target = None
  /\ todo = {}
  /\ held = None
  /\ heldKey = 0
  /\ result = "none"
  /\ failures = 0
  /\ alone = {}
  /\ settled = [s \in Subjects |-> 0]
  /\ meanwhile = {}
  /\ forgotten = {}
  /\ overtaken = {}

ClientStep(c) ==
  \/ \E s \in Subjects : SealGeneratesKey(c, s)
  \/ PutWraps(c)
  \/ PutLabels(c)
  \/ PutStores(c)
  \/ PutFails(c)

RotateStep ==
  \/ RotateLists
  \/ RotateCannotList
  \/ RotateGets
  \/ RotatePuts
  \/ RotateRefuses
  \/ RotateFails
  \/ RotateReturns

Next ==
  \/ \E c \in Clients : ClientStep(c)
  \/ \E s \in Subjects : Forget(s)
  \/ RotateStep

Spec == Init /\ [][Next]_vars

(* Whoever rotates goes on, and runs Rotate again after an error.           *)
FairSpec == Spec /\ WF_vars(RotateStep)

-----------------------------------------------------------------------------
(* Properties.                                                              *)

(* Types; Rotate holds a key exactly between its Get and its Put, and knows *)
(* its newWrapper while it runs.                                            *)
TypeOK ==
  /\ stored \in [Subjects -> Blob \cup {None}]
  /\ wrapper \in Wrappers
  /\ issued \in 0..MaxKeys
  /\ put \in [Clients -> Put]
  /\ rotating \in {"no", "next", "put"}
  /\ target \in Wrappers \cup {None}
  /\ target # wrapper
  /\ rotating # "no" => target # None
  /\ todo \subseteq Subjects
  /\ IF rotating = "put" THEN held \in todo /\ heldKey \in Keys
                         ELSE held = None /\ heldKey = 0
  /\ result \in {"none", "error", "done"}
  /\ failures \in 0..MaxFailures
  /\ alone \subseteq Clients
  /\ settled \in [Subjects -> 0..MaxKeys]
  /\ meanwhile \subseteq Subjects
  /\ forgotten \subseteq Subjects
  /\ overtaken \subseteq forgotten

(* No two subjects share a key, so that destroying one person's is enough   *)
(* and takes nobody else's: Rotate puts a key back where it got it, and     *)
(* Seal makes a new one for each subject (KeyRing: "per-data-subject        *)
(* encryption keys").                                                       *)
KeysAreNotShared ==
  \A s, t \in Subjects :
    stored[s] # None /\ stored[t] # None /\ stored[s].key = stored[t].key
      => s = t

(* Rotation loses no key: a key whose Put overlapped no Rotate and which    *)
(* was not forgotten is in the ring, wrapped under the KEK its label names, *)
(* wherever Rotate stands and however often it has failed (Rotate: "the     *)
(* keys already re-wrapped are readable ...").                              *)
SettledKeysSurvive ==
  \A s \in Subjects :
    settled[s] # 0 =>
      /\ stored[s] # None
      /\ stored[s].key = settled[s]
      /\ stored[s].kek = stored[s].label
      /\ stored[s].label \in {wrapper, target}

(* When Rotate has returned nil ("switches the ring to it from then on"),   *)
(* the only keys in the ring that do not open are those a Put stored while  *)
(* it ran: Rotate did not list them, or they were wrapped before and stored *)
(* after the switch.                                                        *)
OnlyKeysPutMeanwhileAreMissed ==
  (result = "done" /\ rotating = "no") =>
     \A s \in Subjects :
       stored[s] # None /\ ~Opens(stored[s]) => s \in meanwhile

(* Rotate brings back a forgotten key only if Forget came between its own   *)
(* Get and Put of that subject; a subject forgotten at any other time,      *)
(* listed or not, "has no key to re-wrap and stays gone" until the subject  *)
(* is issued a new one.                                                     *)
OnlyOvertakenForgetsAreUndone ==
  \A s \in forgotten : stored[s] # None => s \in overtaken

(* Rotate: "on error, re-run with the same newWrapper to converge".  Not    *)
(* so, even with no Put or Forget amid a Rotate: the keys already           *)
(* re-wrapped carry the new label, which the re-run refuses.                *)
RerunConverges ==
  (result = "error") ~> (result = "done" \/ meanwhile # {} \/ overtaken # {})

=============================================================================
