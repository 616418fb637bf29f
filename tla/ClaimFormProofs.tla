---------------------------- MODULE ClaimFormProofs ----------------------------
(***************************************************************************)
(* Safety of the claim form for any number of texts, seals and clicks      *)
(* under way.                                                              *)
(*                                                                         *)
(* A click writes what it captured, so what the form shows in the end is   *)
(* decided while it is under way: the invariant holds the clicks under way *)
(* to what the form has (CapturedTogether, SealingNothing).                *)
(***************************************************************************)
EXTENDS ClaimForm, TLAPS

Seals == [id : Nat, bundle : Evidence \cup {Blank}]

Payloads == [text : Texts, seal : Nat]

Shape ==
    /\ text \in Texts /\ evidence \in Evidence \cup {Blank}
    /\ seal \in Seals \cup {None} /\ sealed \in Nat
    /\ payload \in Payloads \cup {None}
    /\ {reviewed, touched, cleared} \subseteq BOOLEAN
    /\ \A r \in running :
          /\ r.text \in Texts /\ r.evidence \in Evidence \cup {Blank}
          /\ r.kind \in {"review", "prepare"} => r.seal \in Seals

(* Until text or seal changes under it, an approval under way is of both.  *)
CapturedTogether ==
    seal # None /\ ~touched =>
        \A r \in Under({"review", "prepare"}) : PayloadOf(r.text, r.seal) = PayloadOf(text, seal)

(* No seal under way holds evidence that was cleared. *)
SealingNothing == cleared => \A r \in Under({"seal"}) : r.evidence = Blank

FormInv ==
    /\ Shape /\ StateIsTrue
    /\ ApprovedTogether /\ CapturedTogether
    /\ ClearedStaysClear /\ SealingNothing

LEMMA FormStart == Init => FormInv
  <1> SUFFICES ASSUME Init PROVE FormInv
    OBVIOUS
  <1>1. /\ text \in Texts /\ evidence = Blank /\ seal = None /\ payload = None
        /\ sealed = 0 /\ running = {} /\ state = "DRAFT"
        /\ ~reviewed /\ ~touched /\ ~cleared
    BY DEF Init
  <1>2. {reviewed, touched, cleared} \subseteq BOOLEAN
    BY Zenon DEF Init
  <1>3. Shape
    BY <1>1, <1>2 DEF Shape
  <1>4. QED
    BY <1>1, <1>3 DEF FormInv, StateIsTrue, ApprovedTogether, CapturedTogether,
                      ClearedStaysClear, SealingNothing

(* A seal, a payload and a click under way have the fields they are given. *)
LEMMA SealIs ==
    ASSUME NEW n \in Nat, NEW b \in Evidence \cup {Blank}
    PROVE  /\ SealOf(n, b) \in Seals /\ SealOf(n, b) # None
           /\ SealOf(n, b).id = n /\ SealOf(n, b).bundle = b
  BY FormAssumption DEF SealOf, Seals

LEMMA PayloadIs ==
    ASSUME NEW t \in Texts, NEW s \in Seals
    PROVE  PayloadOf(t, s) \in Payloads /\ PayloadOf(t, s) # None
  BY FormAssumption DEF PayloadOf, Payloads, Seals

LEMMA WorkIs ==
    ASSUME NEW k, NEW t, NEW s, NEW p, NEW e
    PROVE  /\ Work(k, t, s, p, e).kind = k /\ Work(k, t, s, p, e).text = t
           /\ Work(k, t, s, p, e).seal = s /\ Work(k, t, s, p, e).evidence = e
  BY DEF Work

-----------------------------------------------------------------------------
(* One lemma for each part of the form. *)

LEMMA EditKeeps ==
    ASSUME FormInv, update \/ updatePrivateEvidence \/ continueStep
    PROVE  FormInv'
  <1> USE DEF FormInv, Shape, StateIsTrue, ApprovedTogether, CapturedTogether,
              ClearedStaysClear, SealingNothing, Under
  <1>1. CASE update
    BY <1>1 DEF update, Approval
  <1>2. CASE updatePrivateEvidence
    BY <1>2 DEF updatePrivateEvidence
  <1>3. CASE continueStep
    BY <1>3 DEF continueStep, nextClaimState
  <1>4. QED
    BY <1>1, <1>2, <1>3

LEMMA ClearKeeps ==
    ASSUME FormInv, clearPrivateEvidence \/ reset \/ loadExample \/ WalletChanged
    PROVE  FormInv'
  <1> USE DEF FormInv, Shape, StateIsTrue, ApprovedTogether, CapturedTogether,
              ClearedStaysClear, SealingNothing, Under
  <1>1. CASE clearPrivateEvidence
    BY <1>1 DEF clearPrivateEvidence, Clear, resetClaimDraft, Forget
  <1>2. CASE reset
    BY <1>2 DEF reset, Clear, resetClaimDraft, Forget
  <1>3. CASE loadExample
    BY <1>3 DEF loadExample, Forget
  <1>4. CASE WalletChanged
    BY <1>4 DEF WalletChanged, Forget
  <1>5. QED
    BY <1>1, <1>2, <1>3, <1>4

LEMMA SealKeeps ==
    ASSUME FormInv, generateSeal \/ SealGenerated \/ SealFails
    PROVE  FormInv'
  <1> USE DEF FormInv, Shape, StateIsTrue, ApprovedTogether, CapturedTogether,
              ClearedStaysClear, SealingNothing, Under
  <1>1. CASE generateSeal
    BY <1>1, WorkIs DEF generateSeal, Start, nextClaimState
  <1>2. CASE SealGenerated
    <2>1. PICK r \in Under({"seal"}) :
             seal' = SealOf(sealed + 1, r.evidence) /\ running' = running \ {r}
      BY <1>2 DEF SealGenerated
    <2>2. /\ seal' \in Seals /\ seal' # None
          /\ seal'.bundle = r.evidence
      <3>1. sealed + 1 \in Nat /\ r.evidence \in Evidence \cup {Blank}
        OBVIOUS
      <3>2. QED
        BY <2>1, <3>1, SealIs
    <2>3. /\ sealed' = sealed + 1 /\ state' = "SEAL_GENERATED"
          /\ touched' = (touched \/ Approval)
          /\ UNCHANGED <<text, evidence, reviewed, payload, cleared>>
      BY <1>2 DEF SealGenerated, nextClaimState
    <2>4. Shape'
      <3>1. touched' \in BOOLEAN
        BY <2>3, Zenon
      <3>2. QED
        BY <2>1, <2>2, <2>3, <3>1
    <2>5. StateIsTrue'
      BY <2>2, <2>3
    <2>6. touched' \/ (payload' = None /\ Under({"review", "prepare"})' = {})
      BY <2>1, <2>3 DEF Approval
    <2>7. ClearedStaysClear' /\ SealingNothing'
      BY <2>1, <2>2, <2>3
    <2>8. QED
      BY <2>4, <2>5, <2>6, <2>7
  <1>3. CASE SealFails
    BY <1>3 DEF SealFails
  <1>4. QED
    BY <1>1, <1>2, <1>3

LEMMA ApproveKeeps ==
    ASSUME FormInv, confirmReview \/ Approved \/ publish \/ Prepared \/ PublishFails
    PROVE  FormInv'
  <1> USE DEF FormInv, Shape, StateIsTrue, ApprovedTogether, CapturedTogether,
              ClearedStaysClear, SealingNothing, Under
  <1>1. CASE confirmReview
    BY <1>1, WorkIs DEF confirmReview, Start, draft
  <1>2. CASE Approved
    <2>1. PICK r \in Under({"review"}) :
             payload' = PayloadOf(r.text, r.seal) /\ running' = running \ {r}
      BY <1>2 DEF Approved
    <2>2. payload' \in Payloads /\ payload' # None
      BY <2>1, PayloadIs
    <2>3. seal # None /\ ~touched => payload' = PayloadOf(text, seal)
      BY <2>1
    <2>4. QED
      BY <1>2, <2>1, <2>2, <2>3 DEF Approved, nextClaimState
  <1>3. CASE publish
    BY <1>3, WorkIs DEF publish, Start, nextClaimState
  <1>4. CASE Prepared
    <2>1. PICK r \in Under({"prepare"}) :
             /\ payload' = PayloadOf(r.text, r.seal) /\ running' = running \ {r}
             /\ UNCHANGED <<draft, sealed, reviewed, link, touched, cleared>>
      BY <1>4 DEF Prepared
    <2>2. payload' \in Payloads /\ payload' # None
      BY <2>1, PayloadIs
    <2>3. seal # None /\ ~touched => payload' = PayloadOf(text, seal)
      BY <2>1
    <2>4. QED
      BY <2>1, <2>2, <2>3 DEF draft
  <1>5. CASE PublishFails
    BY <1>5 DEF PublishFails
  <1>6. QED
    BY <1>1, <1>2, <1>3, <1>4, <1>5

LEMMA LinkKeeps ==
    ASSUME FormInv, createContinuation \/ LinkCreated \/ LinkFails \/ LoadContinuation
    PROVE  FormInv'
  <1> USE DEF FormInv, Shape, StateIsTrue, ApprovedTogether, CapturedTogether,
              ClearedStaysClear, SealingNothing, Under
  <1>1. CASE createContinuation
    BY <1>1, WorkIs DEF createContinuation, Start, draft
  <1>2. CASE LinkCreated
    BY <1>2 DEF LinkCreated, draft
  <1>3. CASE LinkFails
    BY <1>3 DEF LinkFails, draft
  <1>4. CASE LoadContinuation
    <2>1. PICK t \in Texts : text' = t /\ payload' = [text |-> t, seal |-> sealed + 1]
      BY <1>4 DEF LoadContinuation, setPublicPayload
    <2>2. /\ seal' = SealOf(sealed + 1, Blank) /\ seal' \in Seals /\ seal' # None
          /\ seal'.id = sealed + 1 /\ seal'.bundle = Blank
      <3>1. sealed + 1 \in Nat
        OBVIOUS
      <3>2. QED
        BY <1>4, <3>1, SealIs DEF LoadContinuation
    <2>3. payload' = PayloadOf(text', seal') /\ payload' \in Payloads /\ payload' # None
      BY <2>1, <2>2, PayloadIs DEF PayloadOf
    <2>4. /\ sealed' = sealed + 1 /\ evidence' = Blank
          /\ state' = "PUBLIC_CLAIM_REVIEWED" /\ reviewed'
          /\ touched' = (touched \/ Under({"review", "prepare"}) # {})
          /\ UNCHANGED <<running, cleared>>
      BY <1>4 DEF LoadContinuation
    <2>5. {reviewed', touched', cleared'} \subseteq BOOLEAN
      <3>1. reviewed' \in BOOLEAN /\ touched' \in BOOLEAN
        BY <1>4, Zenon DEF LoadContinuation
      <3>2. QED
        BY <2>4, <3>1
    <2>6. Shape'
      BY <2>1, <2>2, <2>3, <2>4, <2>5
    <2>7. StateIsTrue'
      BY <2>3, <2>4
    <2>8. touched' \/ Under({"review", "prepare"})' = {}
      BY <2>4
    <2>9. QED
      BY <2>2, <2>3, <2>4, <2>6, <2>7, <2>8
  <1>5. QED
    BY <1>1, <1>2, <1>3, <1>4

LEMMA FormStep == FormInv /\ [Next]_vars => FormInv'
  <1> SUFFICES ASSUME FormInv, [Next]_vars PROVE FormInv'
    OBVIOUS
  <1>1. CASE UNCHANGED vars
    BY <1>1 DEF vars, draft, FormInv, Shape, StateIsTrue, ApprovedTogether,
                CapturedTogether, ClearedStaysClear, SealingNothing, Under
  <1>2. QED
    BY <1>1, EditKeeps, ClearKeeps, SealKeeps, ApproveKeeps, LinkKeeps DEF Next

LEMMA FormKept == Spec => []FormInv
  BY FormStart, FormStep, PTL DEF Spec

-----------------------------------------------------------------------------
(***************************************************************************)
(* The state of the draft is true, for any number of clicks under way.     *)
(***************************************************************************)
THEOREM FormStateTrue == Spec => []StateIsTrue
  BY FormKept, PTL DEF FormInv

(***************************************************************************)
(* Seal and payload are one approved claim (claim-wizard.tsx:1663-1746),   *)
(* unless text or seal changed under an approval.                          *)
(***************************************************************************)
THEOREM OneApprovedClaim == Spec => []ApprovedTogether
  BY FormKept, PTL DEF FormInv

(***************************************************************************)
(* Cleared evidence is neither in the form nor in its recovery bundle.     *)
(***************************************************************************)
THEOREM EvidenceGone == Spec => []ClearedStaysClear
  BY FormKept, PTL DEF FormInv
=============================================================================
