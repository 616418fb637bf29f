---------------------------- MODULE MCSettlement ----------------------------
(* Settlement with two transactions of one claim: h1, and h2 that the      *)
(* wallet signed when the client tried again.  The registry accepts at     *)
(* most one of them.  MCDrafts has a draft that names the nullifier with   *)
(* another researcher commitment.                                          *)
EXTENDS Verification, TLC

CONSTANTS n1, alice, rc1, rc2, cc1

ClaimOf(rc) == [researcher |-> alice, researcherCommitment |-> rc,
                claimCommitment |-> cc1, nullifier |-> n1]

MCCall == [h \in Hashes |-> ClaimOf(rc1)]

OwnDrafts == {ClaimOf(rc1)}

MCDrafts == OwnDrafts \cup {ClaimOf(rc2)}

Symmetry == Permutations(Api) \cup Permutations(Workers) \cup Permutations(Hashes)
=============================================================================
