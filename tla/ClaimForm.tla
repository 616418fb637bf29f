----------------------------- MODULE ClaimForm -----------------------------
(***************************************************************************)
(* The form half of apps/web/src/components/claim-wizard.tsx with          *)
(* lib/claim-flow.ts: the draft, its private seal, the approval of the     *)
(* public claim and the continuation link for another browser.             *)
(*                                                                         *)
(* Sealing, approving, linking and preparing await digests or the API.     *)
(* Each works on the draft and the seal its click captured and writes into *)
(* whatever the form has become.  The rail leads to any step of the form   *)
(* at any time, so that every button is always within reach.               *)
(*                                                                         *)
(* A text stands for the fields of a step; a seal for its digests, with    *)
(* the private evidence that its recovery bundle holds.  ClaimWizard is    *)
(* the rest of publish().                                                  *)
(***************************************************************************)
EXTENDS Naturals, FiniteSets

CONSTANTS
    Texts,      \* what the public fields may hold
    Evidence,   \* what the private fields may hold
    Blank,      \* no private evidence
    MaxSeals,   \* bound on seals, of this browser or another
    MaxRunning, \* bound on clicks under way
    None

ASSUME FormAssumption ==
    /\ Blank \notin Evidence
    /\ None \notin [id : Nat, bundle : Evidence \cup {Blank}]
    /\ None \notin [text : Texts, seal : Nat]
    /\ {MaxSeals, MaxRunning} \subseteq Nat

VARIABLES
    text,       \* public fields
    evidence,   \* draft.privateEvidence
    seal,       \* draft.privateSeal
    sealed,     \* seals made so far
    state,      \* draft.state
    reviewed,
    payload,    \* publicPayload
    link,       \* what the link on screen leads to
    running,    \* clicks whose awaited calls are under way
    touched,    \* history: text or seal changed under an approval
    cleared     \* history: evidence was cleared with no seal under way, and
                \* none was entered since

draft == <<text, evidence, seal, state>>
vars == <<draft, sealed, reviewed, payload, link, running, touched, cleared>>

SealOf(id, bundle) == [id |-> id, bundle |-> bundle]

(* buildPublicPayloadAsync, of the draft and seal that a click captured.   *)
PayloadOf(t, s) == [text |-> t, seal |-> s.id]

Work(kind, t, s, p, e) ==
    [kind |-> kind, text |-> t, seal |-> s, payload |-> p, evidence |-> e]

Under(kinds) == {r \in running : r.kind \in kinds}

(* Something shows or will show what the user approved earlier.            *)
Approval == payload # None \/ Under({"review", "prepare"}) # {}

(* Two clicks under way that captured the same values are one.             *)
Start(r) ==
    /\ Cardinality(running) < MaxRunning
    /\ r \notin running
    /\ running' = running \cup {r}

Init ==
    /\ text \in Texts /\ evidence = Blank
    /\ seal = None /\ sealed = 0 /\ state = "DRAFT"
    /\ reviewed = FALSE /\ payload = None /\ link = None
    /\ running = {} /\ touched = FALSE /\ cleared = FALSE

-----------------------------------------------------------------------------
(* STATE_TRANSITIONS of claim-flow.ts; the wizard always names the state   *)
(* it means to be in.                                                      *)
nextClaimState(current, action) ==
    CASE current = "DRAFT" /\ action = "privateEvidenceReady" -> "PRIVATE_EVIDENCE_READY"
      [] current = "PRIVATE_EVIDENCE_READY" /\ action = "startSeal" -> "SEAL_GENERATING"
      [] current = "SEAL_GENERATING" /\ action = "sealGenerated" -> "SEAL_GENERATED"
      [] current = "SEAL_GENERATED" /\ action = "reviewPublicClaim" -> "PUBLIC_CLAIM_REVIEWED"
      [] current = "PUBLIC_CLAIM_REVIEWED" /\ action = "requestWallet" -> "AWAITING_WALLET"
      [] OTHER -> current

update ==
    /\ \E t \in Texts \ {text} : text' = t
    /\ touched' = (touched \/ Approval)
    /\ UNCHANGED <<evidence, seal, state, sealed, reviewed, payload, link,
                   running, cleared>>

updatePrivateEvidence ==
    /\ evidence' \in (Evidence \cup {Blank}) \ {evidence}
    /\ cleared' = FALSE
    /\ UNCHANGED <<text, seal, state, sealed, reviewed, payload, link, running, touched>>

(* Every private field is filled in, with no look at what it says.         *)
validatePrivateEvidenceStep(e) == e # Blank

continueStep ==
    /\ validatePrivateEvidenceStep(evidence)
    /\ state' = nextClaimState("DRAFT", "privateEvidenceReady")
    /\ UNCHANGED <<text, evidence, seal, sealed, reviewed, payload, link,
                   running, touched, cleared>>

-----------------------------------------------------------------------------
(* Clearing.  A late answer may still bring something back.                *)

Forget ==
    /\ payload' = None
    /\ touched' = (touched /\ Under({"review", "prepare"}) # {})

(* Mutant: the seal stays. *)
SealStays == evidence' = Blank /\ UNCHANGED seal

resetClaimDraft == evidence' = Blank /\ seal' = None

Clear ==
    /\ resetClaimDraft /\ state' = "DRAFT"
    /\ reviewed' = FALSE /\ Forget
    /\ cleared' = (Under({"seal"}) = {})
    /\ UNCHANGED <<sealed, running>>

clearPrivateEvidence == Clear /\ UNCHANGED <<text, link>>

(* In try mode the public fields are emptied, too. *)
reset == Clear /\ text' \in Texts /\ link' = None

loadExample ==
    /\ text' \in Texts /\ evidence' \in Evidence
    /\ seal' = None /\ state' = "DRAFT"
    /\ reviewed' = FALSE /\ Forget
    /\ cleared' = FALSE
    /\ UNCHANGED <<sealed, link, running>>

(* Another wallet: clearWalletScopedDraftState keeps the private evidence. *)
(* Mutant: the approval of the public claim is kept for the new wallet. *)
KeepReview ==
    /\ seal' = None /\ state' = "DRAFT"
    /\ Forget
    /\ link' = None
    /\ UNCHANGED <<text, evidence, sealed, reviewed, running, cleared>>

WalletChanged ==
    /\ seal' = None /\ state' = "DRAFT"
    /\ reviewed' = FALSE /\ Forget
    /\ link' = None
    /\ UNCHANGED <<text, evidence, sealed, running, cleared>>

-----------------------------------------------------------------------------
(* Sealing *)

generateSeal ==
    /\ Start(Work("seal", text, None, None, evidence))
    /\ state' = nextClaimState("PRIVATE_EVIDENCE_READY", "startSeal")
    /\ UNCHANGED <<text, evidence, seal, sealed, reviewed, payload, link,
                   touched, cleared>>

SealGenerated ==
    /\ sealed < MaxSeals
    /\ \E r \in Under({"seal"}) :
        /\ seal' = SealOf(sealed + 1, r.evidence)
        /\ running' = running \ {r}
    /\ sealed' = sealed + 1
    /\ state' = nextClaimState("SEAL_GENERATING", "sealGenerated")
    /\ touched' = (touched \/ Approval)
    /\ UNCHANGED <<text, evidence, reviewed, payload, link, cleared>>

(* WebCrypto is unavailable. *)
SealFails ==
    /\ \E r \in Under({"seal"}) : running' = running \ {r}
    /\ state' = "FAILED"
    /\ UNCHANGED <<text, evidence, seal, sealed, reviewed, payload, link,
                   touched, cleared>>

-----------------------------------------------------------------------------
(* Approving the public claim *)

confirmReview ==
    /\ seal # None
    /\ Start(Work("review", text, seal, None, Blank))
    /\ UNCHANGED <<draft, sealed, reviewed, payload, link, touched, cleared>>

Approved ==
    /\ \E r \in Under({"review"}) :
        /\ payload' = PayloadOf(r.text, r.seal)
        /\ running' = running \ {r}
    /\ reviewed' = TRUE
    /\ state' = nextClaimState("SEAL_GENERATED", "reviewPublicClaim")
    /\ UNCHANGED <<text, evidence, seal, sealed, link, touched, cleared>>

-----------------------------------------------------------------------------
(* Preparing: what publish() does to the form, see ClaimWizard.  The retry *)
(* button of the receipt view leads here without an approval.              *)

publish ==
    /\ seal # None
    /\ Start(Work("prepare", text, seal, None, Blank))
    /\ state' = nextClaimState("PUBLIC_CLAIM_REVIEWED", "requestWallet")
    /\ UNCHANGED <<text, evidence, seal, sealed, reviewed, payload, link,
                   touched, cleared>>

Prepared ==
    \E r \in Under({"prepare"}) :
        /\ payload' = PayloadOf(r.text, r.seal)
        /\ running' = running \ {r}
        /\ UNCHANGED <<draft, sealed, reviewed, link, touched, cleared>>

PublishFails ==
    \E r \in Under({"prepare"}) :
        /\ running' = running \ {r}
        /\ state' = "FAILED"
        /\ UNCHANGED <<text, evidence, seal, sealed, reviewed, payload, link,
                       touched, cleared>>

-----------------------------------------------------------------------------
(* Continuation links                                                      *)

(* What is sent is public: the seal goes without its recovery bundle.      *)
publicClaimFromDraft(r) == [text |-> r.text, seal |-> r.seal.id, payload |-> r.payload]

createContinuation ==
    /\ seal # None /\ payload # None
    /\ Start(Work("link", text, seal, payload, Blank))
    /\ UNCHANGED <<draft, sealed, reviewed, payload, link, touched, cleared>>

LinkCreated ==
    \E r \in Under({"link"}) :
        /\ running' = running \ {r}
        /\ link' = publicClaimFromDraft(r)
        /\ UNCHANGED <<draft, sealed, reviewed, payload, touched, cleared>>

LinkFails ==
    \E r \in Under({"link"}) :
        /\ running' = running \ {r}
        /\ UNCHANGED <<draft, sealed, reviewed, payload, link, touched, cleared>>

(* The claim of another browser replaces the draft.  Mutant: it leaves the *)
(* payload. *)
PayloadKept(t, id) == UNCHANGED payload

setPublicPayload(t, id) == payload' = [text |-> t, seal |-> id]

LoadContinuation ==
    /\ sealed < MaxSeals
    /\ sealed' = sealed + 1
    /\ \E t \in Texts : text' = t /\ setPublicPayload(t, sealed + 1)
    /\ evidence' = Blank
    /\ seal' = SealOf(sealed + 1, Blank)
    /\ state' = "PUBLIC_CLAIM_REVIEWED"
    /\ reviewed' = TRUE
    /\ touched' = (touched \/ Under({"review", "prepare"}) # {})
    /\ UNCHANGED <<link, running, cleared>>

Next ==
    \/ update \/ updatePrivateEvidence \/ continueStep
    \/ clearPrivateEvidence \/ reset \/ loadExample \/ WalletChanged
    \/ generateSeal \/ SealGenerated \/ SealFails
    \/ confirmReview \/ Approved
    \/ publish \/ Prepared \/ PublishFails
    \/ createContinuation \/ LinkCreated \/ LinkFails
    \/ LoadContinuation

Spec == Init /\ [][Next]_vars

-----------------------------------------------------------------------------
(* What the form says of itself is so: it generates a seal only while a    *)
(* run of generateSeal is under way, has one when it says so, and a claim  *)
(* that counts as reviewed has the payload that was approved.              *)
StateIsTrue ==
    /\ state = "SEAL_GENERATING" => Under({"seal"}) # {}
    /\ state = "SEAL_GENERATED" => seal # None
    /\ state = "PUBLIC_CLAIM_REVIEWED" => reviewed
    /\ reviewed => payload # None

(* The seal and the payload that createContinuation puts into a link, and  *)
(* that publish() stamps, are one claim as it was approved, as long as     *)
(* neither text nor seal was changed under an approval: late digests and   *)
(* answers, wallet changes and links loaded meanwhile do not mix claims.   *)
ApprovedTogether ==
    seal # None /\ payload # None /\ ~touched => payload = PayloadOf(text, seal)

(* Private evidence that was cleared is gone from the form and from the    *)
(* recovery bundle, whatever else finishes, unless a seal was under way.   *)
ClearedStaysClear ==
    cleared => /\ evidence = Blank
               /\ seal # None => seal.bundle = Blank
=============================================================================
