--------------------------- MODULE MCClaimWizard ---------------------------
(* Two accounts whose user switches, disconnects or reloads once and may   *)
(* connect again, two seals and transactions, two overlapping runs of      *)
(* publish().                                                              *)
EXTENDS ClaimWizard, TLC

CONSTANTS alice, bob, h1, h2

MCWallets == {alice, bob}
MCHandlers == {h1, h2}

Symmetry == Permutations(MCWallets) \cup Permutations(MCHandlers)
=============================================================================
