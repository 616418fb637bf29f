---------------------------- MODULE Verification ----------------------------
(***************************************************************************)
(* The public verification of a stamp: VerificationService.verify, the     *)
(* receipt lookup it rests on, and what the /verify page makes of the      *)
(* answer.  It writes nothing, so it is a set of operators over the state  *)
(* of Settlement.                                                          *)
(*                                                                         *)
(* A request reads a row, waits for Stellar, and reads a receipt, while    *)
(* clients and workers go on.  Outcomes and receipts only ever appear, so  *)
(* an earlier read saw either what is there now or nothing: the operators  *)
(* take what was read early as a parameter.  A request that throws (404,   *)
(* 503) has no answer.                                                     *)
(***************************************************************************)
EXTENDS Settlement

(* An identifier a visitor can type, by the pattern it matches; any other  *)
(* is INVALID or refused without a look at the tables.                     *)
Identifiers ==
    [kind : {"receiptId"}, value : ReceiptIds] \cup
    [kind : {"uuid"}, value : Nullifiers] \cup
    [kind : {"transactionHash"}, value : Hashes]

ById(kind, value) == [kind |-> kind, value |-> value]

(* ReceiptsService.getByIdentifier *)
getByIdentifier(id) ==
    {r \in receipts : \/ id.kind = "receiptId" /\ r.id = id.value
                      \/ id.kind = "uuid" /\ r.claimId = id.value
                      \/ id.kind = "transactionHash" /\ r.hash = id.value}

(* The claim commitment of a receipt is not kept with it: it is read from  *)
(* the claim row as that row is now.                                       *)
serializePublicReceipt(r) ==
    [r.claim EXCEPT !.claimCommitment = claimPublic[r.claimId].claimCommitment]

getForClaim(n) == {r \in receipts : r.claimId = n}

(* The public list shows at most 25 of these.                              *)
listPublicReceipts == {r \in receipts : txStatus[r.hash] = "CONFIRMED"}

Answer(status, hash, receipt) == [status |-> status, hash |-> hash, receipt |-> receipt]

(* A ledger number is copied from the same Stellar record and agrees; the  *)
(* source account of a submit_claim is its researcher.                     *)
SourceAgrees(r) == r.claim.researcher = Call[r.hash].researcher

verifyReceipt(r, chain) ==
    Answer(CASE chain = "absent"  -> "PENDING_CONFIRMATION"
             [] chain = "failed"  -> "FAILED"
             [] chain = "success" -> IF SourceAgrees(r) THEN "VERIFIED" ELSE "MISMATCHED",
           r.hash, r)

(* verifyTransaction, of which row and chain were read first; a chain that *)
(* had nothing then is asked again when there is a receipt.                *)
verifyTransaction(h, row, chain) ==
    LET found == getByIdentifier(ById("transactionHash", h))
    IN  CASE chain = "absent" /\ row = Absent -> {Answer("NOT_FOUND", h, None)}
          [] chain = "failed" -> {Answer("FAILED", h, None)}
          [] OTHER -> IF found # {}
                        THEN {verifyReceipt(r, outcome[h]) : r \in found}
                        ELSE {Answer("PENDING_CONFIRMATION", h, None)}

(* Mutant: the newest transaction is judged before the receipt. *)
FailedFirst(n) ==
    LET found == getByIdentifier(ById("uuid", n))
        failed == {h \in Hashes : txClaim[h] = n /\ txStatus[h] = "FAILED"}
    IN  IF failed # {} THEN {Answer("FAILED", h, None) : h \in failed}
        ELSE {verifyReceipt(r, outcome[r.hash]) : r \in found}

(* verifyClaim; which of a claim's transactions is the newest is left open. *)
verifyClaim(n) ==
    LET found == getByIdentifier(ById("uuid", n))
        failed == {h \in Hashes : txClaim[h] = n /\ txStatus[h] = "FAILED"}
    IN  CASE claimStatus[n] = Absent -> {}
          [] found # {} -> {verifyReceipt(r, outcome[r.hash]) : r \in found}
          [] OTHER -> {Answer("FAILED", h, None) : h \in failed} \cup
                      {Answer("PENDING_CONFIRMATION", None, None)}

verifyReceiptIdentifier(i) ==
    {verifyReceipt(r, outcome[r.hash]) : r \in getByIdentifier(ById("receiptId", i))}

(* The answers of a request that reads everything now. *)
verify(id) ==
    CASE id.kind = "receiptId"       -> verifyReceiptIdentifier(id.value)
      [] id.kind = "uuid"            -> verifyClaim(id.value)
      [] id.kind = "transactionHash" ->
            verifyTransaction(id.value, txStatus[id.value], outcome[id.value])

(* The answers of a request on its way, which may have read before. *)
LateAnswers(id) ==
    verify(id) \cup
    IF id.kind = "transactionHash"
      THEN UNION {verifyTransaction(id.value, row, chain) :
                     row \in {Absent, txStatus[id.value]},
                     chain \in {"absent", outcome[id.value]}}
      ELSE {}

(* VerificationResultCard shows the stamp for a verified receipt alone. *)
StampShown(answer) == answer.status = "VERIFIED" /\ answer.receipt # None

-----------------------------------------------------------------------------
(***************************************************************************)
(* A receipt is not shown as verified unless the transaction exists and    *)
(* succeeded (PRODUCTION_ACCEPTANCE.md:17), and the page then shows what   *)
(* the transaction carried, although the receipt was copied from a claim   *)
(* row and the claim commitment is read from that row again; FAILED names  *)
(* a transaction that did fail; no receipt is MISMATCHED.  This holds of   *)
(* every answer, however late what it read, and of the public list.        *)
(***************************************************************************)
VerdictTrue(a) ==
    /\ StampShown(a) => /\ outcome[a.hash] = "success"
                        /\ serializePublicReceipt(a.receipt) = Call[a.hash]
    /\ a.status = "FAILED" => outcome[a.hash] = "failed"
    /\ a.status # "MISMATCHED"

VerdictsTrue ==
    /\ \A id \in Identifiers : \A a \in LateAnswers(id) : VerdictTrue(a)
    /\ \A r \in listPublicReceipts :
          outcome[r.hash] = "success" /\ serializePublicReceipt(r) = Call[r.hash]

(***************************************************************************)
(* A stamp verifies by its receipt id, its claim id and its transaction    *)
(* hash (README.md:69-73), and by all of them as the same receipt, also    *)
(* when another transaction of the claim failed later or a worker has      *)
(* overwritten the status of a row.                                        *)
(***************************************************************************)
AllIdentifiersAgree ==
    \A r \in receipts :
        /\ getForClaim(r.claimId) = {r}
        /\ \A id \in {ById("receiptId", r.id), ById("uuid", r.claimId),
                      ById("transactionHash", r.hash)} :
               verify(id) = {Answer("VERIFIED", r.hash, r)}
=============================================================================
