------------------------------- MODULE Verifier -------------------------------
(***************************************************************************)
(* ErasureVerifier.Verify (es/erasure_ledger.go) beside the writers of      *)
(* PiiStore: it reads the ledger, the key ring and the events one after the *)
(* other, with nothing to hold the three still, and each event is opened    *)
(* with the key its subject has at that moment.                             *)
(*                                                                          *)
(* One auditor calls Verify.  A subject without a record gets               *)
(* ErrNoErasureRecord and a failing read an error, at once and without      *)
(* effect: neither needs a step here.  The ledger's chain is PgLedger.      *)
(***************************************************************************)
EXTENDS PiiStore

CONSTANT
  MaxAudits       \* bound: calls of Verify

(* There is somebody to verify the erasure of.                              *)
ASSUME AuditAssumption == MaxAudits \in Nat /\ Subjects # {}

VARIABLES
  step,           \* Verify: "idle", "key", "events" or "opening"
  about,          \* the subject verified
  keyForgotten,   \* proof.KeyForgotten
  upto,           \* length of the log when the events were fetched
  toOpen,         \* events fetched and not opened yet
  decrypts,       \* an event with PII fields was not unrecoverable
  audits,         \* calls of Verify
  proven          \* subject: upto of the last proof that held (history)

auditVars == <<step, about, keyForgotten, upto, toOpen, decrypts,
               audits, proven>>
allVars == <<vars, auditVars>>

-----------------------------------------------------------------------------
EventsAbout(x) == {p \in DOMAIN log : log[p].pii = x}

(* Ledger.Entries has a record of x.                                        *)
ReadLedger(x) ==
  /\ step = "idle"
  /\ audits < MaxAudits
  /\ \E n \in DOMAIN ledger : ledger[n][1] = x
  /\ about' = x
  /\ audits' = audits + 1
  /\ step' = "key"
  /\ UNCHANGED <<keyForgotten, upto, toOpen, decrypts, proven, vars>>

(* Keys.Get.  Verify goes on whatever it finds.                             *)
CheckKey ==
  /\ step = "key"
  /\ keyForgotten' = (key[about] = 0)
  /\ step' = "events"
  /\ UNCHANGED <<about, upto, toOpen, decrypts, audits, proven, vars>>

(* Mutation: the events of the first aggregate only.                        *)
FirstHistory(x) ==
  {p \in EventsAbout(x) : \A q \in EventsAbout(x) :
     (\A r \in EventsAbout(x) : q <= r) => log[p].agg = log[q].agg}

FetchByPiiID(x) == EventsAbout(x)

(* The events as they are stored, still sealed.                             *)
FetchEvents ==
  /\ step = "events"
  /\ upto' = Len(log)
  /\ toOpen' = FetchByPiiID(about)
  /\ step' = "opening"
  /\ UNCHANGED <<about, keyForgotten, decrypts, audits, proven, vars>>

(* len(e.PiiFields) > 0 && !e.PiiUnrecoverable: only what was sealed has    *)
(* PiiFields, a field stored in clear does not count.                       *)
Decrypts(p) == log[p].sealed # <<>> /\ Outcome(log[p]) # "unrecoverable"

NextToOpen == CHOOSE p \in toOpen : \A q \in toOpen : p <= q

(* openAll: one Keys.Get per event.                                         *)
OpenNext ==
  /\ step = "opening"
  /\ toOpen # {}
  /\ Outcome(log[NextToOpen]) # "error"
  /\ toOpen' = toOpen \ {NextToOpen}
  /\ decrypts' = (decrypts \/ Decrypts(NextToOpen))
  /\ UNCHANGED <<step, about, keyForgotten, upto, audits, proven, vars>>

(* Verify returns; its local variables are gone.                            *)
Ends ==
  /\ step' = "idle"
  /\ keyForgotten' = FALSE
  /\ upto' = 0
  /\ toOpen' = {}
  /\ decrypts' = FALSE
  /\ UNCHANGED <<about, audits, vars>>

(* The fields of one event do not decrypt: an error instead of a proof.     *)
OpenFails ==
  /\ step = "opening"
  /\ toOpen # {}
  /\ Outcome(log[NextToOpen]) = "error"
  /\ Ends
  /\ UNCHANGED proven

(* The proof, with an error unless both conditions are met.                 *)
VerifyReturns ==
  /\ step = "opening"
  /\ toOpen = {}
  /\ proven' = IF keyForgotten /\ ~decrypts THEN [proven EXCEPT ![about] = upto]
                                            ELSE proven
  /\ Ends

-----------------------------------------------------------------------------
InitAudit ==
  /\ Init
  /\ step = "idle"
  /\ about = CHOOSE x \in Subjects : TRUE
  /\ keyForgotten = FALSE
  /\ upto = 0
  /\ toOpen = {}
  /\ decrypts = FALSE
  /\ audits = 0
  /\ proven = [x \in Subjects |-> 0]

Verify ==
  \/ \E x \in Subjects : ReadLedger(x)
  \/ CheckKey
  \/ FetchEvents
  \/ OpenNext
  \/ OpenFails
  \/ VerifyReturns

NextAudit ==
  \/ Next /\ UNCHANGED auditVars
  \/ Verify

AuditSpec == InitAudit /\ [][NextAudit]_allVars

-----------------------------------------------------------------------------
(* Properties.                                                              *)

(* The variables of PiiStore and of Verify have their types.                *)
AuditTypeOK ==
  /\ TypeOK
  /\ step \in {"idle", "key", "events", "opening"}
  /\ about \in Subjects
  /\ keyForgotten \in BOOLEAN
  /\ upto \in 0..Len(log)
  /\ toOpen \subseteq 1..upto
  /\ decrypts \in BOOLEAN
  /\ audits \in 0..MaxAudits
  /\ proven \in [Subjects -> 0..Len(log)]

(* "is this subject's data provably gone?" (es/erasure_ledger.go): once     *)
(* Verify returned nil no sealed data the log held of the subject opens     *)
(* ever again, whoever was sealing, shredding or being issued a key while   *)
(* it went from one source to the next, or is afterwards.  Fields stored in *)
(* clear (SealedUnlessUnmarked) are no part of the proof.                   *)
ProofsStayTrue ==
  \A x \in Subjects : \A p \in 1..proven[x] :
    log[p].pii = x /\ log[p].sealed # <<>>
      => Outcome(log[p]) \notin {"plain", "garbled"}

=============================================================================
