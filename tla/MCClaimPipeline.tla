-------------------------- MODULE MCClaimPipeline --------------------------
(* One claim, drafted with commitment rc1, two concurrent requests and two *)
(* verifications.  Of the artifacts x1 and x2 fit the claim, x3 is another *)
(* researcher's and x4 contradicts itself.  The circuit the artifacts are  *)
(* of is evaluated on words of two bits.                                   *)
EXTENDS ClaimPipeline, ImpactCircuit

CONSTANTS n1, rc1, rc2, x1, x2, x3, x4

MCDrafted == [n \in Nullifiers |-> rc1]

Good == [schema |-> TRUE, inputLength |-> 224, statedInputLength |-> 224,
         proofLength |-> 64, statedProofLength |-> 64,
         proofDigest |-> "right", inputDigest |-> "none",
         commitment |-> rc1, statedCommitment |-> rc1,
         nullifier |-> n1, statedNullifier |-> n1]

MCShape == [x \in Artifacts |->
    CASE x = x3 -> [Good EXCEPT !.commitment = rc2, !.statedCommitment = rc2]
      [] x = x4 -> [Good EXCEPT !.commitment = rc2]
      [] OTHER  -> Good]

(* ImpactExact, for every input. *)
ASSUME
    \A i \in Impact, minimum_loss \in Word :
        assert_private_impact(i, minimum_loss) <=>
            /\ ~i.actor_is_privileged /\ minimum_loss > 0
            /\ {i.first_withdrawal, i.second_withdrawal} \subseteq 0 .. i.entitlement
            /\ Loss(i) >= minimum_loss

(* And a threshold equal to the whole entitlement can be proved. *)
ASSUME
    \E i \in Impact : i.entitlement = W - 1 /\ assert_private_impact(i, W - 1)
=============================================================================
