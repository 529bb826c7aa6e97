----------------------------- MODULE MCPiiStore -----------------------------
(***************************************************************************)
(* Instances of PiiStore, and of Verifier beside it, for TLC.               *)
(***************************************************************************)
EXTENDS Verifier, TLC

CONSTANTS w1, w2, a1, a2, subject, data, request, farewell, foreign

(* Two aggregates may be about the one person.  "data" declares PII fields, *)
(* "request" asks for the erasure, "farewell" does both, and the registry   *)
(* has no factory for "foreign".                                            *)
AllPayloads == {data, request, farewell, foreign}
WithFields == {data, farewell, foreign}
Erasing == {request, farewell}
Known == AllPayloads \ {foreign}

Marked(payload) == [payload |-> payload, pii |-> subject]
Unmarked(payload) == [payload |-> payload, pii |-> NoSubject]

(* What is sealed and erased, beside what the two loops pass over.          *)
Mixed == {<<Marked(data)>>,
          <<Marked(request)>>,
          <<Marked(data), Marked(request)>>,
          <<Unmarked(data), Marked(farewell)>>,
          <<Marked(foreign), Unmarked(request)>>}

OneByOne == {<<Marked(data)>>, <<Marked(request)>>}

(* The writers are interchangeable, and so are the aggregates.              *)
AnyOrder == Permutations(Writers) \cup Permutations(Aggregates)

=============================================================================
