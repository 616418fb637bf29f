------------------------ MODULE ClaimRegistryProofs ------------------------
(***************************************************************************)
(* Proofs about ClaimRegistry for every set of researchers and             *)
(* identifiers.  The inductive invariant Inv joins the type invariant with *)
(* what ties the flags and the researcher records to the stored receipts.  *)
(***************************************************************************)
EXTENDS ClaimRegistry, TLAPS

(* A stored receipt carries the commitment its researcher is recorded with. *)
ReceiptsCarryRecord ==
    \A rec \in receipts :
        rec.claim.researcherCommitment = researcherRecord[rec.claim.researcher]

Inv ==
    /\ TypeOK
    /\ FlagsMatchReceipts
    /\ ReceiptsNeverConflict
    /\ ReceiptsCarryRecord
    /\ BoundByAcceptedClaim

(***************************************************************************)
(* An accepted call found its researcher free or bound to the same         *)
(* commitment, and its claim commitment and nullifier unused.              *)
(***************************************************************************)
LEMMA AcceptGuards ==
    ASSUME NEW r \in Researchers, NEW rc \in Commitments \cup {Zero},
           NEW cc \in ClaimCommitments \cup {Zero}, NEW n \in Nullifiers \cup {Zero},
           Accept(r, rc, cc, n)
    PROVE  /\ rc \in Commitments /\ cc \in ClaimCommitments /\ n \in Nullifiers
           /\ researcherRecord[r] \in {None, rc}
           /\ cc \notin usedClaimCommitments
           /\ n \notin usedNullifiers
  <1>1. \A error \in Errors : ~Refusal(r, rc, cc, n, error)
    BY DEF Accept
  <1>2. Nonzero(rc, cc, n)
    BY <1>1 DEF Refusal, Errors
  <1>3. ~Mismatched(r, rc)
    BY <1>1, <1>2 DEF Refusal, Errors
  <1>4. ~is_claim_commitment_used(cc)
    BY <1>1, <1>2, <1>3 DEF Refusal, Errors
  <1>5. ~is_nullifier_used(n)
    BY <1>1, <1>2, <1>3, <1>4 DEF Refusal, Errors
  <1>6. QED
    BY <1>2, <1>3, <1>4, <1>5
       DEF Nonzero, Mismatched, get_researcher_commitment,
           is_claim_commitment_used, is_nullifier_used

(***************************************************************************)
(* Under the invariant an accepted call adds one receipt, replaces none,   *)
(* and leaves every other researcher's record alone.                       *)
(***************************************************************************)
LEMMA AcceptAdds ==
    ASSUME Inv,
           NEW r \in Researchers, NEW rc \in Commitments \cup {Zero},
           NEW cc \in ClaimCommitments \cup {Zero}, NEW n \in Nullifiers \cup {Zero},
           Accept(r, rc, cc, n)
    PROVE  LET claim == [researcher |-> r, researcherCommitment |-> rc,
                         claimCommitment |-> cc, nullifier |-> n]
           IN  /\ claim \in Claims
               /\ receipts' = receipts \cup {[claim |-> claim, acceptedLedger |-> ledger]}
               /\ researcherRecord' = [researcherRecord EXCEPT ![r] = rc]
               /\ \A rec \in receipts :
                      /\ rec.claim \in Claims
                      /\ rec.claim.claimCommitment # cc
                      /\ rec.claim.nullifier # n
                      /\ rec.claim.researcher = r => rec.claim.researcherCommitment = rc
  <1>1. /\ rc \in Commitments /\ cc \in ClaimCommitments /\ n \in Nullifiers
        /\ researcherRecord[r] \in {None, rc}
        /\ cc \notin usedClaimCommitments
        /\ n \notin usedNullifiers
    BY AcceptGuards
  <1>2. \A rec \in receipts : rec.claim \in Claims
    BY DEF Inv, TypeOK, ClaimReceipt
  <1>3. \A rec \in receipts : rec.claim.claimCommitment # cc /\ rec.claim.nullifier # n
    BY <1>1 DEF Inv, FlagsMatchReceipts
  <1>4. \A rec \in receipts :
            rec.claim.researcher = r => rec.claim.researcherCommitment = rc
    <2> SUFFICES ASSUME NEW rec \in receipts, rec.claim.researcher = r
                 PROVE  rec.claim.researcherCommitment = rc
      OBVIOUS
    <2>1. rec.claim.researcherCommitment = researcherRecord[r]
      BY DEF Inv, ReceiptsCarryRecord
    <2>2. rec.claim.researcherCommitment \in Commitments
      BY <1>2 DEF Claims
    <2>3. QED
      BY <2>1, <2>2, <1>1, RegistryAssumption DEF RegistryAssumption
  <1>5. researcherRecord' = [researcherRecord EXCEPT ![r] = rc]
    BY <1>1 DEF Accept, WithResearcher, Inv, TypeOK
  <1>6. receipts' = receipts \cup
            {[claim |-> [researcher |-> r, researcherCommitment |-> rc,
                         claimCommitment |-> cc, nullifier |-> n],
              acceptedLedger |-> ledger]}
    BY <1>3 DEF Accept
  <1>7. QED
    BY <1>1, <1>2, <1>3, <1>4, <1>5, <1>6 DEF Claims

LEMMA InitInv == Init => Inv
  BY DEF Init, Inv, TypeOK, FlagsMatchReceipts, ReceiptsNeverConflict,
         ReceiptsCarryRecord, BoundByAcceptedClaim, Errors

(***************************************************************************)
(* An accepted call keeps the invariant.                                   *)
(***************************************************************************)
LEMMA AcceptInv ==
    ASSUME Inv,
           NEW r \in Researchers, NEW rc \in Commitments \cup {Zero},
           NEW cc \in ClaimCommitments \cup {Zero}, NEW n \in Nullifiers \cup {Zero},
           Accept(r, rc, cc, n)
    PROVE  Inv'
  <1> DEFINE claim == [researcher |-> r, researcherCommitment |-> rc,
                       claimCommitment |-> cc, nullifier |-> n]
             new == [claim |-> claim, acceptedLedger |-> ledger]
  <1>1. /\ claim \in Claims
        /\ receipts' = receipts \cup {new}
        /\ researcherRecord' = [researcherRecord EXCEPT ![r] = rc]
        /\ \A rec \in receipts :
               /\ rec.claim \in Claims
               /\ rec.claim.claimCommitment # cc
               /\ rec.claim.nullifier # n
               /\ rec.claim.researcher = r => rec.claim.researcherCommitment = rc
    BY AcceptAdds
  <1>2. /\ usedClaimCommitments' = usedClaimCommitments \cup {cc}
        /\ usedNullifiers' = usedNullifiers \cup {n}
        /\ published' = published \cup {claim}
        /\ ledger' = ledger
        /\ result' = "Ok"
    BY DEF Accept, SpendNullifier
  <1>3. /\ new.claim = claim
        /\ claim.claimCommitment = cc
        /\ claim.nullifier = n
        /\ claim.researcher = r
        /\ claim.researcherCommitment = rc
    OBVIOUS
  <1>4. TypeOK'
    <2>1. new \in ClaimReceipt
      BY <1>1 DEF Inv, TypeOK, ClaimReceipt
    <2>2. rc \in Commitments /\ cc \in ClaimCommitments /\ n \in Nullifiers
      BY <1>1 DEF Claims
    <2>3. QED
      BY <1>1, <1>2, <2>1, <2>2 DEF Inv, TypeOK
  <1>5. FlagsMatchReceipts'
    <2> HIDE DEF claim, new
    <2>1. QED
      BY <1>1, <1>2, <1>3 DEF Inv, FlagsMatchReceipts
  <1>6. ReceiptsNeverConflict'
    <2> HIDE DEF claim, new
    <2>1. QED
      BY <1>1, <1>3 DEF Inv, ReceiptsNeverConflict
  <1>7. ReceiptsCarryRecord'
    <2> HIDE DEF claim, new
    <2> SUFFICES ASSUME NEW rec \in receipts'
                 PROVE  rec.claim.researcherCommitment = researcherRecord'[rec.claim.researcher]
      BY DEF ReceiptsCarryRecord
    <2>1. rec.claim.researcher \in Researchers
      BY <1>1, <1>3 DEF Claims
    <2>2. QED
      BY <2>1, <1>1, <1>3 DEF Inv, ReceiptsCarryRecord, TypeOK
  <1>8. BoundByAcceptedClaim'
    <2> HIDE DEF claim, new
    <2>1. QED
      BY <1>1, <1>3 DEF Inv, BoundByAcceptedClaim, TypeOK
  <1>9. QED
    BY <1>4, <1>5, <1>6, <1>7, <1>8 DEF Inv

LEMMA NextInv == Inv /\ [Next]_vars => Inv'
  <1> SUFFICES ASSUME Inv, [Next]_vars
               PROVE  Inv'
    OBVIOUS
  <1>1. CASE CloseLedger
    BY <1>1 DEF Inv, CloseLedger, storage, TypeOK, FlagsMatchReceipts,
               ReceiptsNeverConflict, ReceiptsCarryRecord, BoundByAcceptedClaim
  <1>2. ASSUME NEW r \in Researchers, NEW rc \in Commitments \cup {Zero},
               NEW cc \in ClaimCommitments \cup {Zero}, NEW n \in Nullifiers \cup {Zero},
               Refuse(r, rc, cc, n)
        PROVE  Inv'
    BY <1>2 DEF Inv, Refuse, storage, TypeOK, FlagsMatchReceipts,
               ReceiptsNeverConflict, ReceiptsCarryRecord, BoundByAcceptedClaim
  <1>3. ASSUME NEW r \in Researchers, NEW rc \in Commitments \cup {Zero},
               NEW cc \in ClaimCommitments \cup {Zero}, NEW n \in Nullifiers \cup {Zero},
               Accept(r, rc, cc, n)
        PROVE  Inv'
    BY <1>3, AcceptInv
  <1>4. CASE UNCHANGED vars
    BY <1>4 DEF Inv, vars, storage, TypeOK, FlagsMatchReceipts,
               ReceiptsNeverConflict, ReceiptsCarryRecord, BoundByAcceptedClaim
  <1>5. QED
    BY <1>1, <1>2, <1>3, <1>4 DEF Next, submit_claim

(***************************************************************************)
(* In every reachable state of the contract the storage has its type,      *)
(* flags and events match the receipts, no two receipts conflict and       *)
(* every researcher record comes from an accepted claim.                   *)
(***************************************************************************)
THEOREM RegistrySafe ==
    Spec => [](TypeOK /\ FlagsMatchReceipts /\ ReceiptsNeverConflict /\ BoundByAcceptedClaim)
  <1>1. Inv => TypeOK /\ FlagsMatchReceipts /\ ReceiptsNeverConflict /\ BoundByAcceptedClaim
    BY DEF Inv
  <1>2. QED
    BY InitInv, NextInv, <1>1, PTL DEF Spec

(* The storage keeps its types through every sequence of calls.            *)
THEOREM RegistryTypeCorrect == Spec => []TypeOK
  BY RegistrySafe, PTL

(* A commitment or nullifier is flagged as used exactly when a receipt was *)
(* stored and an event published for it, although lib.rs writes each apart. *)
THEOREM FlagsCorrect == Spec => []FlagsMatchReceipts
  BY RegistrySafe, PTL

(* A refused call leaves no researcher record behind, although lib.rs:81   *)
(* writes one before the last two checks.                                  *)
THEOREM BindingCorrect == Spec => []BoundByAcceptedClaim
  BY RegistrySafe, PTL

(***************************************************************************)
(* No call of the contract removes or rewrites a receipt or changes the    *)
(* commitment of a researcher.                                             *)
(***************************************************************************)
THEOREM RegistryStampsAreFinal == Spec => StampsAreFinal
  <1> DEFINE Final == /\ receipts \subseteq receipts'
                      /\ \A r \in Researchers : researcherRecord[r] \in {None, researcherRecord'[r]}
  <1>1. Inv /\ [Next]_vars => [Final]_vars
    <2> SUFFICES ASSUME Inv, Next PROVE Final
      OBVIOUS
    <2>1. CASE CloseLedger
      BY <2>1 DEF CloseLedger, storage
    <2>2. ASSUME NEW r \in Researchers, NEW rc \in Commitments \cup {Zero},
                 NEW cc \in ClaimCommitments \cup {Zero}, NEW n \in Nullifiers \cup {Zero},
                 Refuse(r, rc, cc, n)
          PROVE  Final
      BY <2>2 DEF Refuse, storage
    <2>3. ASSUME NEW r \in Researchers, NEW rc \in Commitments \cup {Zero},
                 NEW cc \in ClaimCommitments \cup {Zero}, NEW n \in Nullifiers \cup {Zero},
                 Accept(r, rc, cc, n)
          PROVE  Final
      <3> DEFINE claim == [researcher |-> r, researcherCommitment |-> rc,
                           claimCommitment |-> cc, nullifier |-> n]
                 new == [claim |-> claim, acceptedLedger |-> ledger]
      <3>1. /\ claim \in Claims
            /\ receipts' = receipts \cup {new}
            /\ researcherRecord' = [researcherRecord EXCEPT ![r] = rc]
        BY <2>3, AcceptAdds
      <3>2. researcherRecord[r] \in {None, rc}
        BY <2>3, AcceptGuards
      <3>3. QED
        BY <3>1, <3>2 DEF Inv, TypeOK
    <2>4. QED
      BY <2>1, <2>2, <2>3 DEF Next, submit_claim
  <1>2. QED
    BY InitInv, NextInv, <1>1, PTL DEF Spec, StampsAreFinal

(***************************************************************************)
(* The contract implements the ledger of claims: every accepted call is an *)
(* Accept step of ClaimLedger and every other step changes nothing there.  *)
(***************************************************************************)
THEOREM RegistryImplementsClaimLedger == Spec => ImplementsClaimLedger
  <1> DEFINE bar == {rec.claim : rec \in receipts}
  <1>1. Init => Ledger!Init
    BY DEF Init, Ledger!Init
  <1>2. Inv /\ [Next]_vars => [Ledger!Next]_bar
    <2> SUFFICES ASSUME Inv, [Next]_vars PROVE [Ledger!Next]_bar
      OBVIOUS
    <2>1. CASE CloseLedger
      BY <2>1 DEF CloseLedger, storage
    <2>2. ASSUME NEW r \in Researchers, NEW rc \in Commitments \cup {Zero},
                 NEW cc \in ClaimCommitments \cup {Zero}, NEW n \in Nullifiers \cup {Zero},
                 Refuse(r, rc, cc, n)
          PROVE  bar' = bar
      BY <2>2 DEF Refuse, storage
    <2>3. ASSUME NEW r \in Researchers, NEW rc \in Commitments \cup {Zero},
                 NEW cc \in ClaimCommitments \cup {Zero}, NEW n \in Nullifiers \cup {Zero},
                 Accept(r, rc, cc, n)
          PROVE  Ledger!Next
      <3> DEFINE claim == [researcher |-> r, researcherCommitment |-> rc,
                           claimCommitment |-> cc, nullifier |-> n]
                 new == [claim |-> claim, acceptedLedger |-> ledger]
      <3>1. /\ claim \in Claims
            /\ receipts' = receipts \cup {new}
            /\ \A rec \in receipts :
                   /\ rec.claim.claimCommitment # cc
                   /\ rec.claim.nullifier # n
                   /\ rec.claim.researcher = r => rec.claim.researcherCommitment = rc
        BY <2>3, AcceptAdds
      <3>2. \A d \in bar : ~Ledger!Conflicting(claim, d)
        BY <3>1 DEF Ledger!Conflicting
      <3>3. bar' = bar \cup {claim}
        <4>1. new.claim = claim
          OBVIOUS
        <4> HIDE DEF claim, new
        <4>2. QED
          BY <3>1, <4>1
      <3>4. Ledger!Accept(claim)
        BY <3>2, <3>3 DEF Ledger!Accept
      <3>5. QED
        BY <3>1, <3>4 DEF Ledger!Next
    <2>4. CASE UNCHANGED vars
      BY <2>4 DEF vars, storage
    <2>5. QED
      BY <2>1, <2>2, <2>3, <2>4 DEF Next, submit_claim
  <1>3. QED
    BY InitInv, NextInv, <1>1, <1>2, PTL DEF Spec, ImplementsClaimLedger, Ledger!Spec
=============================================================================
