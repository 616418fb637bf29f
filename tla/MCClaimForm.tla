---------------------------- MODULE MCClaimForm ----------------------------
(* Two texts, one body of evidence, three seals and two clicks under way.  *)
EXTENDS ClaimForm

CONSTANTS t1, t2, e1
=============================================================================
