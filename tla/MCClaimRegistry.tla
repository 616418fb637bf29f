-------------------------- MODULE MCClaimRegistry --------------------------
(* ClaimRegistry on two researchers and two or three values of every       *)
(* identifier, all of them interchangeable.                                *)
EXTENDS ClaimRegistry, TLC

Symmetry == Permutations(Researchers) \cup Permutations(Commitments)
              \cup Permutations(ClaimCommitments) \cup Permutations(Nullifiers)
=============================================================================
