-------------------------- MODULE MCWalletSession --------------------------
(* Two accounts: an answer can be older than the account now in use.       *)
EXTENDS WalletSession

CONSTANTS a1, a2
=============================================================================
