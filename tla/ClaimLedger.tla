---------------------------- MODULE ClaimLedger ----------------------------
(***************************************************************************)
(* What the claim registry promises to everybody who reads it: a growing   *)
(* set of accepted claims in which no two claims conflict.  ClaimRegistry  *)
(* (the contract) implements this specification, and Settlement (the API   *)
(* and its workers) relies on it: the chain the API reconciles against is  *)
(* a ClaimLedger.                                                          *)
(***************************************************************************)
CONSTANT Claims   \* the public claims that can be submitted

VARIABLE accepted \* the claims accepted so far

(***************************************************************************)
(* Two claims cannot both be accepted when they share a claim commitment   *)
(* or a nullifier, or bind one researcher to two commitments.              *)
(***************************************************************************)
Conflicting(c, d) ==
    \/ c.claimCommitment = d.claimCommitment
    \/ c.nullifier = d.nullifier
    \/ /\ c.researcher = d.researcher
       /\ c.researcherCommitment # d.researcherCommitment

Init == accepted = {}

Accept(c) ==
    /\ \A d \in accepted : ~Conflicting(c, d)
    /\ accepted' = accepted \cup {c}

Next == \E c \in Claims : Accept(c)

Spec == Init /\ [][Next]_accepted
=============================================================================
