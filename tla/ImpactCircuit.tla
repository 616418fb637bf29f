--------------------------- MODULE ImpactCircuit ---------------------------
(***************************************************************************)
(* The Noir circuits, as the set of private inputs they accept and the     *)
(* public outputs they give: circuits/proof_of_claim and the older         *)
(* circuits/proof_of_impact, which proves the impact alone.                *)
(*                                                                         *)
(* An amount is a machine word; W is the number of words (2^64).  A field  *)
(* element is a number below a prime above W, so that a word cast to the   *)
(* field keeps its value.                                                  *)
(***************************************************************************)
EXTENDS Integers

CONSTANT W

ASSUME WordAssumption == W \in Nat /\ W >= 2

Word == 0 .. W - 1

(* The private inputs of an impact. *)
Impact == [entitlement : Word, first_withdrawal : Word, second_withdrawal : Word,
           actor_is_privileged : BOOLEAN]

(* The sum of two words cast to double words, which wrap at W * W. *)
total_withdrawal(i) == (i.first_withdrawal + i.second_withdrawal) % (W * W)

(* main of proof_of_impact; its threshold may be zero. *)
impact_shown(i, minimum_loss) ==
    /\ ~i.actor_is_privileged
    /\ i.first_withdrawal <= i.entitlement
    /\ i.second_withdrawal <= i.entitlement
    /\ total_withdrawal(i) > i.entitlement
    /\ total_withdrawal(i) - i.entitlement >= minimum_loss

(* assert_private_impact of proof_of_claim *)
assert_private_impact(i, minimum_loss) ==
    minimum_loss > 0 /\ impact_shown(i, minimum_loss)

(* Pedersen hashing, taken to have no collisions. *)
pedersen_hash(preimage) == preimage

(* The public outputs.  c is the claim: its identifiers and the researcher *)
(* secret, all field elements; 1, 2 and 3 separate the three hashes.       *)
derive_public_claim(c, minimum_loss, entitlement) ==
    [program_id            |-> c.program_id,
     snapshot_id           |-> c.snapshot_id,
     impact_rule_id        |-> c.impact_rule_id,
     minimum_loss          |-> minimum_loss,
     state_commitment      |-> pedersen_hash(<<2, c.program_id, c.snapshot_id, entitlement>>),
     researcher_commitment |-> pedersen_hash(<<1, c.researcher_secret>>),
     nullifier             |-> pedersen_hash(<<3, c.program_id, c.snapshot_id,
                                               c.impact_rule_id, c.researcher_secret>>)]

(* main of proof_of_claim: the public outputs x can be proved from c and i. *)
proves(x, c, i) ==
    /\ 0 \notin {c.program_id, c.snapshot_id, c.impact_rule_id, c.researcher_secret}
    /\ assert_private_impact(i, x.minimum_loss)
    /\ x = derive_public_claim(c, x.minimum_loss, i.entitlement)

(* What was lost, as a whole number. *)
Loss(i) == i.first_withdrawal + i.second_withdrawal - i.entitlement
=============================================================================
