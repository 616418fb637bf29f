--------------------------- MODULE ClaimRegistry ---------------------------
(***************************************************************************)
(* The Soroban contract of contracts/claim_registry/src/lib.rs: instance   *)
(* storage, the submit_claim entry point with its four refusals, and the   *)
(* ledger sequence it stamps on a receipt.  The getters only read and are  *)
(* the operators get_claim, get_researcher_commitment,                     *)
(* is_claim_commitment_used and is_nullifier_used.                         *)
(*                                                                         *)
(* A contract call runs alone.  When it returns Err the Soroban host       *)
(* discards what the call wrote, the researcher record of lib.rs:81        *)
(* included; the contract itself undoes nothing.                           *)
(***************************************************************************)
EXTENDS Naturals

CONSTANTS
    Researchers,       \* account addresses that can authorise a call
    Commitments,       \* non-zero researcher commitments
    ClaimCommitments,  \* non-zero claim commitments
    Nullifiers,        \* non-zero nullifiers
    Zero,              \* the 32-byte identifier of zeros
    None,              \* an absent storage entry
    MaxLedger          \* bound on the ledger sequence

ASSUME RegistryAssumption ==
    /\ Zero \notin Commitments \cup ClaimCommitments \cup Nullifiers
    /\ None \notin Commitments
    /\ MaxLedger \in Nat \ {0}

VARIABLES
    researcherRecord,     \* DataKey::Researcher, the commitment or None
    usedClaimCommitments, \* DataKey::UsedClaimCommitment
    usedNullifiers,       \* DataKey::UsedNullifier
    receipts,             \* DataKey::Receipt, the stored ClaimReceipt values
    published,            \* the ClaimSubmitted events of accepted calls
    ledger,               \* env.ledger().sequence()
    result                \* what the last call returned

storage == <<researcherRecord, usedClaimCommitments, usedNullifiers, receipts>>
vars == <<storage, published, ledger, result>>

-----------------------------------------------------------------------------
(* Types *)

Claims == [researcher : Researchers, researcherCommitment : Commitments,
           claimCommitment : ClaimCommitments, nullifier : Nullifiers]

ClaimReceipt == [claim : Claims, acceptedLedger : Nat]

Errors == {"ZeroIdentifier", "ResearcherCommitmentMismatch",
           "ClaimCommitmentAlreadyUsed", "NullifierAlreadyUsed"}

(* The shape of the storage, of the ledger and of the returned result. *)
TypeOK ==
    /\ researcherRecord \in [Researchers -> Commitments \cup {None}]
    /\ usedClaimCommitments \subseteq ClaimCommitments
    /\ usedNullifiers \subseteq Nullifiers
    /\ receipts \subseteq ClaimReceipt
    /\ published \subseteq Claims
    /\ ledger \in Nat
    /\ result \in Errors \cup {"none", "Ok"}

Init ==
    /\ researcherRecord = [r \in Researchers |-> None]
    /\ usedClaimCommitments = {}
    /\ usedNullifiers = {}
    /\ receipts = {}
    /\ published = {}
    /\ ledger = 1
    /\ result = "none"

-----------------------------------------------------------------------------
(* Getters *)

get_claim(cc) == {rec \in receipts : rec.claim.claimCommitment = cc}

get_researcher_commitment(r) == researcherRecord[r]

(* Mutants: a flag is read under the wrong key, so it never reads as set. *)
CommitmentFlagMissed(cc) == cc \in usedNullifiers
NullifierFlagMissed(n) == n \in usedClaimCommitments

is_claim_commitment_used(cc) == cc \in usedClaimCommitments

is_nullifier_used(n) == n \in usedNullifiers

-----------------------------------------------------------------------------
(* submit_claim.  Each refusal is the first check of lib.rs:66-98 that     *)
(* fails.  The record written at lib.rs:81 before the last two checks is   *)
(* what WithResearcher holds.                                              *)

(* Mutant: the nullifier is not checked. *)
NonzeroCommitments(rc, cc, n) == Zero \notin {rc, cc}

Nonzero(rc, cc, n) == Zero \notin {rc, cc, n}

(* Mutant: a known researcher may present any commitment. *)
NeverMismatched(r, rc) == get_researcher_commitment(r) = Zero

Mismatched(r, rc) == get_researcher_commitment(r) \notin {None, rc}

WithResearcher(r, rc) ==
    [researcherRecord EXCEPT ![r] = IF @ = None THEN rc ELSE @]

Refusal(r, rc, cc, n, error) ==
    \/ error = "ZeroIdentifier" /\ ~Nonzero(rc, cc, n)
    \/ /\ Nonzero(rc, cc, n)
       /\ \/ error = "ResearcherCommitmentMismatch" /\ Mismatched(r, rc)
          \/ /\ ~Mismatched(r, rc)
             /\ \/ /\ error = "ClaimCommitmentAlreadyUsed"
                   /\ is_claim_commitment_used(cc)
                \/ /\ error = "NullifierAlreadyUsed"
                   /\ ~is_claim_commitment_used(cc)
                   /\ is_nullifier_used(n)

(* Mutant: the record of lib.rs:81 outlives the refusal. *)
RefuseKeepingRecord(r, rc, cc, n) ==
    \E error \in Errors :
        /\ Refusal(r, rc, cc, n, error)
        /\ result' = error
        /\ researcherRecord' = IF error \in {"ClaimCommitmentAlreadyUsed", "NullifierAlreadyUsed"}
                                 THEN WithResearcher(r, rc) ELSE researcherRecord
        /\ UNCHANGED <<usedClaimCommitments, usedNullifiers, receipts, published, ledger>>

(* The call returns Err: the host restores the storage the call began with. *)
Refuse(r, rc, cc, n) ==
    \E error \in Errors :
        /\ Refusal(r, rc, cc, n, error)
        /\ result' = error
        /\ UNCHANGED <<storage, published, ledger>>

(* Mutant: the nullifier flag is not written. *)
NullifierNotSpent(n) == usedNullifiers

SpendNullifier(n) == usedNullifiers \cup {n}

(* The call returns Ok(receipt). *)
Accept(r, rc, cc, n) ==
    LET claim == [researcher |-> r, researcherCommitment |-> rc,
                  claimCommitment |-> cc, nullifier |-> n]
    IN  /\ \A error \in Errors : ~Refusal(r, rc, cc, n, error)
        /\ researcherRecord' = WithResearcher(r, rc)
        /\ usedClaimCommitments' = usedClaimCommitments \cup {cc}
        /\ usedNullifiers' = SpendNullifier(n)
        /\ receipts' = {rec \in receipts : rec.claim.claimCommitment # cc}
                         \cup {[claim |-> claim, acceptedLedger |-> ledger]}
        /\ published' = published \cup {claim}
        /\ result' = "Ok"
        /\ UNCHANGED ledger

submit_claim(r, rc, cc, n) == Refuse(r, rc, cc, n) \/ Accept(r, rc, cc, n)

(* The network closes a ledger; MaxLedger bounds the model. *)
CloseLedger ==
    /\ ledger < MaxLedger
    /\ ledger' = ledger + 1
    /\ UNCHANGED <<storage, published, result>>

Next ==
    \/ CloseLedger
    \/ \E r \in Researchers, rc \in Commitments \cup {Zero},
          cc \in ClaimCommitments \cup {Zero}, n \in Nullifiers \cup {Zero} :
            submit_claim(r, rc, cc, n)

Spec == Init /\ [][Next]_vars

-----------------------------------------------------------------------------
(* Properties *)

(***************************************************************************)
(* A claim commitment or a nullifier is flagged used exactly when a stored *)
(* receipt carries it, and the events a reader of the chain sees are those *)
(* of the stored receipts, although flags, receipt and event are written   *)
(* by separate calls (lib.rs:108-120).                                     *)
(***************************************************************************)
FlagsMatchReceipts ==
    /\ published = {rec.claim : rec \in receipts}
    /\ usedClaimCommitments = {rec.claim.claimCommitment : rec \in receipts}
    /\ usedNullifiers = {rec.claim.nullifier : rec \in receipts}

(***************************************************************************)
(* No two stored receipts conflict: a nullifier is spent once, a claim     *)
(* commitment is stamped once, and every receipt of a researcher carries   *)
(* the same researcher commitment, whatever the order of the calls.        *)
(***************************************************************************)
ReceiptsNeverConflict ==
    \A a, b \in receipts :
        a # b => /\ a.claim.nullifier # b.claim.nullifier
                 /\ a.claim.claimCommitment # b.claim.claimCommitment
                 /\ a.claim.researcher = b.claim.researcher =>
                      a.claim.researcherCommitment = b.claim.researcherCommitment

(***************************************************************************)
(* A researcher is bound to a commitment only by a claim that was          *)
(* accepted: the record written before the later checks does not outlive   *)
(* a call they refuse (lib.rs:80-98).                                      *)
(***************************************************************************)
BoundByAcceptedClaim ==
    \A r \in Researchers :
        researcherRecord[r] # None =>
            \E rec \in receipts :
                /\ rec.claim.researcher = r
                /\ rec.claim.researcherCommitment = researcherRecord[r]

(***************************************************************************)
(* A receipt once stored is stored for good with the ledger it was         *)
(* accepted in, and a researcher's commitment never changes.               *)
(***************************************************************************)
StampsAreFinal ==
    [][/\ receipts \subseteq receipts'
       /\ \A r \in Researchers : researcherRecord[r] \in {None, researcherRecord'[r]}
      ]_vars

(***************************************************************************)
(* The contract implements the ledger of claims that the API relies on.    *)
(***************************************************************************)
Ledger == INSTANCE ClaimLedger WITH accepted <- {rec.claim : rec \in receipts}

ImplementsClaimLedger == Ledger!Spec
=============================================================================
