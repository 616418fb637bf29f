----------------------------- MODULE Lifecycle -----------------------------
(***************************************************************************)
(* apps/api/src/lifecycle.ts: the statuses of a claim and the transitions  *)
(* assertTransition lets through.  Absent stands for a claim that has no   *)
(* row yet.                                                                *)
(***************************************************************************)
Absent == "ABSENT"

ClaimStatus ==
    {"DRAFT", "AWAITING_PROOF", "PROOF_RECEIVED", "VERIFYING", "VERIFIED",
     "AWAITING_WALLET_SIGNATURE", "SUBMITTED", "CONFIRMED", "RECEIPT_ISSUED",
     "PROOF_REJECTED", "TRANSACTION_FAILED", "EXPIRED", "CANCELLED"}

Withdrawn == {"CANCELLED", "EXPIRED"}

allowedTransitions ==
    [from \in ClaimStatus |->
        CASE from = "DRAFT"          -> Withdrawn \cup {"AWAITING_PROOF"}
          [] from = "AWAITING_PROOF" -> Withdrawn \cup {"PROOF_RECEIVED", "SUBMITTED"}
          [] from = "PROOF_RECEIVED" -> Withdrawn \cup {"VERIFYING", "SUBMITTED", "PROOF_REJECTED"}
          [] from = "VERIFYING"      -> Withdrawn \cup {"VERIFIED", "AWAITING_WALLET_SIGNATURE",
                                                         "SUBMITTED", "PROOF_REJECTED"}
          [] from = "VERIFIED"       -> Withdrawn \cup {"AWAITING_WALLET_SIGNATURE"}
          [] from = "AWAITING_WALLET_SIGNATURE" -> Withdrawn \cup {"SUBMITTED"}
          [] from = "SUBMITTED"      -> {"CONFIRMED", "TRANSACTION_FAILED"}
          [] from = "CONFIRMED"      -> {"RECEIPT_ISSUED"}
          [] OTHER                   -> {}]

(* assertTransition(from, to) returns instead of throwing. *)
Allowed(from, to) == to \in allowedTransitions[from]
=============================================================================
