---------------------------- MODULE ReceiptLedger ----------------------------
(***************************************************************************)
(* What ZeroSeal promises about receipts, as a reader of them sees it:     *)
(* the chain accepts claims, a receipt is issued for an accepted claim, no *)
(* claim gets two, and an issued receipt is never changed or withdrawn.    *)
(* Settlement, the API with its queue and workers, implements this.        *)
(***************************************************************************)
EXTENDS ClaimLedger

CONSTANT Ids    \* receipt identifiers

VARIABLE issued \* the receipts issued so far

ReceiptInit == Init /\ issued = {}

Issue(id, c) ==
    /\ c \in accepted
    /\ \A r \in issued : r.claim # c
    /\ issued' = issued \cup {[id |-> id, claim |-> c]}
    /\ UNCHANGED accepted

ReceiptNext ==
    \/ Next /\ UNCHANGED issued
    \/ \E id \in Ids, c \in Claims : Issue(id, c)

ReceiptSpec == ReceiptInit /\ [][ReceiptNext]_<<accepted, issued>>
=============================================================================
