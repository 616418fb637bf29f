-------------------------- MODULE MCContinuations --------------------------
(* What the public side of the site keeps beside the claim itself: links,  *)
(* two of them, with four requests that create, open and, by both, prune;  *)
(* the receipts of a browser, with two accounts, two hashes and two tabs;  *)
(* the public pages, with two identifiers and two wallets.  The three      *)
(* share nothing, so each moves while the others rest as they started.     *)
EXTENDS Continuations, ReceiptStore, ReceiptPages, TLC

LinksRest == now = 0 /\ req = [r \in Requests |-> Fresh]
StoreRests == saves = 0 /\ \A a \in Accounts : index[a] = {} /\ legacy[a] = None
PagesRest == PageInit

SideInit == Init /\ StoreInit /\ PageInit

SideNext ==
    \/ Next      /\ StoreRests /\ PagesRest  /\ UNCHANGED <<storeVars, pageVars>>
    \/ StoreNext /\ LinksRest  /\ PagesRest  /\ UNCHANGED <<vars, pageVars>>
    \/ PageNext  /\ LinksRest  /\ StoreRests /\ UNCHANGED <<vars, storeVars>>

SideSpec == SideInit /\ [][SideNext]_<<vars, storeVars, pageVars>>

Symmetry == Permutations(Requests) \cup Permutations(Tokens)
=============================================================================
