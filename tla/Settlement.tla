----------------------------- MODULE Settlement -----------------------------
(***************************************************************************)
(* How a signed submit_claim transaction becomes a receipt: the claim,     *)
(* chain_transaction and claim_receipt tables of PostgreSQL, the handlers  *)
(* of the API that write them (claims.service.ts, transactions.service.ts, *)
(* receipts.service.ts), the BullMQ reconciliation queue and the worker    *)
(* that consumes it (worker-runtime.ts).                                   *)
(*                                                                         *)
(* A handler is cut where it awaits: it reads rows, waits for the database *)
(* or for Stellar, and writes later from what it read.  A Prisma           *)
(* $transaction commits in one step, and a row it read before its first    *)
(* write may have changed by then (PostgreSQL's READ COMMITTED).           *)
(*                                                                         *)
(* The nullifier of a claim row is unique (schema.prisma:193) and every    *)
(* wizard claim has one, so the row of a claim is named by its nullifier.  *)
(* A client reports for a hash the values its transaction carries.         *)
(***************************************************************************)
EXTENDS Naturals, Lifecycle

CONSTANTS
    Hashes,       \* transaction hashes
    Researchers, Commitments, ClaimCommitments,
    Nullifiers,   \* nullifiers, which name claim rows
    Call,         \* Call[h] is the public claim transaction h submits
    Drafts,       \* the public claims clients create claim rows for
    Api,          \* concurrent API requests
    Workers,      \* slots of the reconciliation worker (concurrency: 2)
    MaxAttempts,  \* attempts of a queue job (12 in the code)
    MaxFaults,    \* bound on faults
    None

(* What a submit_claim call publishes (lib.rs:24-31). *)
Claims == [researcher : Researchers, researcherCommitment : Commitments,
           claimCommitment : ClaimCommitments, nullifier : Nullifiers]

ASSUME SettlementAssumption ==
    /\ Call \in [Hashes -> Claims]
    /\ Drafts \subseteq Claims
    /\ None \notin Nullifiers \cup Hashes \cup Claims
    /\ Api \cap Workers = {}
    /\ {"none", "waiting", "failed"} \cap Workers = {}
    /\ MaxAttempts \in Nat \ {0}
    /\ MaxFaults \in Nat

(***************************************************************************)
(* The nullifier is a salted SHA-256 over the claim commitment             *)
(* (claim-flow.ts:355-374): one nullifier, one claim commitment.           *)
(***************************************************************************)
ASSUME SealBinding ==
    \A c, d \in Drafts \cup {Call[h] : h \in Hashes} :
        c.nullifier = d.nullifier => c.claimCommitment = d.claimCommitment

VARIABLES
    outcome,     \* what Stellar says of each hash
    claimStatus, \* claim.status by nullifier
    claimPublic, \* wallet and commitments of the claim row, or None
    txStatus,    \* chain_transaction.status by hash
    txClaim,     \* chain_transaction.claimId
    receipts,    \* the rows of claim_receipt
    queue,       \* the BullMQ job of a hash: its state, or the slot running it
    attempts,    \* failed attempts of that job
    run,         \* what each request or worker slot is doing
    recovering,  \* the process started and recoverQueueJobs has not read yet
    todo,        \* transactions recoverQueueJobs read and has yet to add
    redisKept,   \* Redis has not lost its data
    faults       \* faults so far

tables == <<claimStatus, claimPublic, txStatus, txClaim, receipts>>
jobs == <<queue, attempts>>
recovery == <<recovering, todo>>
environment == <<redisKept, faults>>
vars == <<outcome, tables, jobs, run, recovery, environment>>

-----------------------------------------------------------------------------
(* Types *)

(* The program never writes UNKNOWN, the fifth status of schema.prisma:54. *)
TxStatus == {"SUBMITTED", "PENDING", "CONFIRMED", "FAILED"}
NonTerminal == {"SUBMITTED", "PENDING"}
Handlers == Api \cup Workers

(* A receipt's id is drawn at random when the receipt is built, and named  *)
(* here after who built it, for which claim and transaction: it may be     *)
(* built twice, but the unique indexes keep one row of a claim.            *)
ReceiptIds == Handlers \X Nullifiers \X Hashes

Receipt == [id : ReceiptIds, claimId : Nullifiers, hash : Hashes, claim : Claims]

(* A handler's position and the values it read and still holds. *)
Local ==
    [pc    : {"idle", "record", "enqueue", "reconcile", "fetch", "pending",
              "reject", "confirm", "issueRead", "issue"},
     hash  : Hashes \cup {None},
     claim : Nullifiers \cup {None},
     seen  : ClaimStatus \cup {Absent},
     built : Receipt \cup {None}]

Idle == [pc |-> "idle", hash |-> None, claim |-> None, seen |-> Absent, built |-> None]

(* Shape of the tables, of the queue and of the handlers' local values. *)
TypeOK ==
    /\ outcome \in [Hashes -> {"absent", "success", "failed"}]
    /\ claimStatus \in [Nullifiers -> ClaimStatus \cup {Absent}]
    /\ claimPublic \in [Nullifiers -> Claims \cup {None}]
    /\ txStatus \in [Hashes -> TxStatus \cup {Absent}]
    /\ txClaim \in [Hashes -> Nullifiers \cup {None}]
    /\ receipts \subseteq Receipt
    /\ queue \in [Hashes -> {"none", "waiting", "failed"} \cup Workers]
    /\ attempts \in [Hashes -> 0 .. MaxAttempts]
    /\ run \in [Handlers -> Local]
    /\ recovering \in BOOLEAN
    /\ todo \subseteq Hashes
    /\ redisKept \in BOOLEAN
    /\ faults \in 0 .. MaxFaults

Init ==
    /\ outcome = [h \in Hashes |-> "absent"]
    /\ claimStatus = [n \in Nullifiers |-> Absent]
    /\ claimPublic = [n \in Nullifiers |-> None]
    /\ txStatus = [h \in Hashes |-> Absent]
    /\ txClaim = [h \in Hashes |-> None]
    /\ receipts = {}
    /\ queue = [h \in Hashes |-> "none"]
    /\ attempts = [h \in Hashes |-> 0]
    /\ run = [p \in Handlers |-> Idle]
    /\ recovering = FALSE
    /\ todo = {}
    /\ redisKept = TRUE
    /\ faults = 0

-----------------------------------------------------------------------------
(* Stellar.  The registry accepts claims as ClaimLedger says; a            *)
(* transaction keeps the outcome it once had.                              *)

Chain == INSTANCE ClaimLedger WITH
            accepted <- {Call[h] : h \in {g \in Hashes : outcome[g] = "success"}}

Land(h, o) ==
    /\ outcome[h] = "absent"
    /\ o = "success" =>
          \A g \in Hashes : outcome[g] = "success" => ~Chain!Conflicting(Call[h], Call[g])
    /\ outcome' = [outcome EXCEPT ![h] = o]
    /\ UNCHANGED <<tables, jobs, run, recovery, environment>>

-----------------------------------------------------------------------------
(* ClaimsService.createClaim: one transaction; a second request for the    *)
(* same nullifier gets the row back or hits its unique index.              *)

CreateClaim(draft) ==
    LET n == draft.nullifier
    IN  /\ claimStatus[n] = Absent
        /\ claimStatus' = [claimStatus EXCEPT ![n] = "AWAITING_PROOF"]
        /\ claimPublic' = [claimPublic EXCEPT ![n] = draft]
        /\ UNCHANGED <<outcome, txStatus, txClaim, receipts, jobs, run, recovery, environment>>

-----------------------------------------------------------------------------
(* ClaimsService.recordTransaction, method submit_claim.                   *)

Recordable == {"AWAITING_PROOF", "PROOF_RECEIVED", "VERIFYING", "VERIFIED",
               "AWAITING_WALLET_SIGNATURE", "SUBMITTED"}

(* Mutant: the researcher commitment is not compared either. *)
SameWallet(c, d) == c.researcher = d.researcher

(* The wallet and the researcher commitment the client reports are those   *)
(* of the claim row c; the claim commitment is not compared.               *)
RecordMatches(c, d) ==
    /\ c.researcher = d.researcher
    /\ c.researcherCommitment = d.researcherCommitment

RecordRead(a, h) ==
    LET n == Call[h].nullifier
    IN  /\ run[a].pc = "idle"
        /\ claimStatus[n] \in Recordable
        /\ RecordMatches(claimPublic[n], Call[h])
        /\ run' = [run EXCEPT ![a] = [Idle EXCEPT !.pc = "record", !.hash = h,
                                        !.claim = n, !.seen = claimStatus[n]]]
        /\ UNCHANGED <<outcome, tables, jobs, recovery, environment>>

(* Of the recordable statuses assertTransition refuses VERIFIED alone,     *)
(* which the program never writes.                                         *)
RecordCommit(a) ==
    LET h == run[a].hash
        n == run[a].claim
    IN  /\ run[a].pc = "record"
        /\ run[a].seen = "SUBMITTED" \/ Allowed(run[a].seen, "SUBMITTED")
        /\ txStatus' = [txStatus EXCEPT ![h] = IF @ = Absent THEN "SUBMITTED" ELSE @]
        /\ txClaim' = [txClaim EXCEPT ![h] = n]
        /\ claimStatus' = [claimStatus EXCEPT ![n] =
                              IF run[a].seen = "SUBMITTED" THEN @ ELSE "SUBMITTED"]
        /\ run' = [run EXCEPT ![a].pc = "enqueue", ![a].seen = Absent]
        /\ UNCHANGED <<outcome, claimPublic, receipts, jobs, recovery, environment>>

-----------------------------------------------------------------------------
(* The queue, BullMQ.  Queue.add with a job id is ignored while a job with *)
(* that id is kept, and a failed job is kept (removeOnFail: false).  A     *)
(* completed job is removed, a failed attempt is retried after a back-off  *)
(* that is not modelled.                                                   *)

Added(hs) == [h \in Hashes |-> IF h \in hs /\ queue[h] = "none" THEN "waiting" ELSE queue[h]]

(* Mutant: one attempt more than allowed. *)
OneAttemptMore(h) == attempts[h] >= MaxAttempts

LastAttempt(h) == attempts[h] + 1 >= MaxAttempts

FailAttempt(h) ==
    /\ queue' = [queue EXCEPT ![h] = IF LastAttempt(h) THEN "failed" ELSE "waiting"]
    /\ attempts' = [attempts EXCEPT ![h] = @ + 1]

CompleteJob(h) ==
    /\ queue' = [queue EXCEPT ![h] = "none"]
    /\ attempts' = [attempts EXCEPT ![h] = 0]

(* p is a worker slot and its job is still in Redis. *)
HoldsJob(p) == p \in Workers /\ queue[run[p].hash] = p

(* Handler p returns, or throws: a worker slot settles its job by that. *)
Return(p) ==
    /\ run' = [run EXCEPT ![p] = Idle]
    /\ IF HoldsJob(p) THEN CompleteJob(run[p].hash) ELSE UNCHANGED jobs

Throw(p) ==
    /\ run' = [run EXCEPT ![p] = Idle]
    /\ IF HoldsJob(p) THEN FailAttempt(run[p].hash) ELSE UNCHANGED jobs

(* The last step of recordTransaction: waits for Redis as long as it takes *)
(* (maxRetriesPerRequest: null).                                           *)
Enqueue(a) ==
    /\ run[a].pc = "enqueue"
    /\ queue' = Added({run[a].hash})
    /\ run' = [run EXCEPT ![a] = Idle]
    /\ UNCHANGED <<outcome, tables, attempts, recovery, environment>>

-----------------------------------------------------------------------------
(* TransactionsService.reconcileSubmitClaimHash.  A success on the ledger  *)
(* stays one, so the fetch and the reads of the transaction that follows   *)
(* it are one step.                                                        *)

(* Mutant: any transaction on the ledger is taken for a success. *)
AnyInvocation(h) == outcome[h] # "absent"

SubmitClaimInvocation(h) == outcome[h] = "success"

ReconcileMatches(c, d) ==
    RecordMatches(c, d) /\ c.claimCommitment = d.claimCommitment

ReconcileRead(a, h) ==
    LET n == Call[h].nullifier
    IN  /\ run[a].pc = "idle"
        /\ SubmitClaimInvocation(h)
        /\ claimStatus[n] # Absent => ReconcileMatches(claimPublic[n], Call[h])
        /\ run' = [run EXCEPT ![a] = [Idle EXCEPT !.pc = "reconcile", !.hash = h,
                                        !.claim = n, !.seen = claimStatus[n]]]
        /\ UNCHANGED <<outcome, tables, jobs, recovery, environment>>

(* Mutant: reconciliation obeys assertTransition. *)
LifecycleStatus(seen) ==
    IF seen = Absent \/ (seen \in ClaimStatus /\ Allowed(seen, "CONFIRMED"))
      THEN "CONFIRMED" ELSE seen

ReconciledStatus(seen) == IF seen = "RECEIPT_ISSUED" THEN seen ELSE "CONFIRMED"

ReconcileCommit(a) ==
    LET h == run[a].hash
        n == run[a].claim
    IN  /\ run[a].pc = "reconcile"
        /\ run[a].seen = Absent => claimStatus[n] = Absent
        /\ claimStatus' = [claimStatus EXCEPT ![n] = ReconciledStatus(run[a].seen)]
        /\ claimPublic' = [claimPublic EXCEPT ![n] = Call[h]]
        /\ txStatus' = [txStatus EXCEPT ![h] = "CONFIRMED"]
        /\ txClaim' = [txClaim EXCEPT ![h] = n]
        /\ run' = [run EXCEPT ![a].pc = "issueRead", ![a].seen = Absent]
        /\ UNCHANGED <<outcome, receipts, jobs, recovery, environment>>

(* The claim row appeared after the read: its unique index refuses a second. *)
ReconcileConflict(a) ==
    /\ run[a].pc = "reconcile"
    /\ run[a].seen = Absent /\ claimStatus[run[a].claim] # Absent
    /\ Throw(a)
    /\ UNCHANGED <<outcome, tables, recovery, environment>>

(* StellarService.recoverSubmitClaim: an account's successful submissions; *)
(* which of them is the newest and passes the filters is left open.        *)
recoverSubmitClaim(account) ==
    {h \in Hashes : SubmitClaimInvocation(h) /\ Call[h].researcher = account}

(* TransactionsService.recoverResearcherRegistration: one upsert of the     *)
(* transaction row, of which a new one has no claim.                       *)
RecoverRegistration(h) ==
    /\ \E account \in Researchers : h \in recoverSubmitClaim(account)
    /\ txStatus' = [txStatus EXCEPT ![h] = "CONFIRMED"]
    /\ UNCHANGED <<outcome, claimStatus, claimPublic, txClaim, receipts, jobs, run,
                   recovery, environment>>

-----------------------------------------------------------------------------
(* ReceiptsService.issueIfReady.  A claim of the wizard has public inputs  *)
(* and no proof artifact, so VERIFICATION_NOT_READY is not raised.         *)

HasReceipt(n) == \E r \in receipts : r.claimId = n

ConfirmedFor(n) == {h \in Hashes : txClaim[h] = n /\ txStatus[h] = "CONFIRMED"}

ReadyForReceipt(n) == claimStatus[n] = "CONFIRMED" /\ ConfirmedFor(n) # {}

IssueRead(p) ==
    LET n == run[p].claim
    IN  /\ run[p].pc = "issueRead"
        /\ ~HasReceipt(n) /\ ReadyForReceipt(n)
        /\ \E h \in ConfirmedFor(n) :
              run' = [run EXCEPT ![p] = [@ EXCEPT !.pc = "issue",
                                           !.built = [id |-> <<p, n, h>>, claimId |-> n, hash |-> h,
                                                      claim |-> claimPublic[n]]]]
        /\ UNCHANGED <<outcome, tables, jobs, recovery, environment>>

(* The receipt exists, or RECEIPT_NOT_READY, which a worker swallows. *)
NothingToIssue(p) ==
    LET n == run[p].claim
    IN  /\ run[p].pc = "issueRead"
        /\ HasReceipt(n) \/ ~ReadyForReceipt(n)
        /\ Return(p)
        /\ UNCHANGED <<outcome, tables, recovery, environment>>

(* Mutant: the receipt table has no unique indexes. *)
NoUniqueIndex(b) == b \notin receipts

UniqueReceipt(b) == \A r \in receipts : r.claimId # b.claimId /\ r.hash # b.hash

IssueCommit(p) ==
    LET b == run[p].built
    IN  /\ run[p].pc = "issue"
        /\ UniqueReceipt(b)
        /\ receipts' = receipts \cup {b}
        /\ claimStatus' = [claimStatus EXCEPT ![b.claimId] = "RECEIPT_ISSUED"]
        /\ Return(p)
        /\ UNCHANGED <<outcome, claimPublic, txStatus, txClaim, recovery, environment>>

IssueConflict(p) ==
    /\ run[p].pc = "issue"
    /\ ~UniqueReceipt(run[p].built)
    /\ Throw(p)
    /\ UNCHANGED <<outcome, tables, recovery, environment>>

-----------------------------------------------------------------------------
(* The reconciliation worker: TransactionsService.reconcile as the job     *)
(* processor of worker-runtime.ts runs it.  Its comparison of the source   *)
(* account with the wallet of the row (lines 420-422) cannot fail: the row *)
(* got the wallet of a claim that RecordMatches compared.                  *)

Settled == {"CONFIRMED", "FAILED"}

(* The early return: the job of a settled transaction completes. *)
WorkerSkip(w, h) ==
    /\ run[w].pc = "idle" /\ queue[h] = "waiting"
    /\ txStatus[h] \in Settled
    /\ CompleteJob(h)
    /\ UNCHANGED <<outcome, tables, run, recovery, environment>>

WorkerTake(w, h) ==
    LET n == txClaim[h]
    IN  /\ run[w].pc = "idle" /\ queue[h] = "waiting"
        /\ txStatus[h] \notin Settled
        /\ queue' = [queue EXCEPT ![h] = w]
        /\ run' = [run EXCEPT ![w] = [Idle EXCEPT !.pc = "fetch", !.hash = h, !.claim = n,
                                        !.seen = IF n = None THEN Absent ELSE claimStatus[n]]]
        /\ UNCHANGED <<outcome, tables, attempts, recovery, environment>>

(* Mutant: a transaction found on the ledger is taken for a success. *)
FoundIsSuccess(o) == IF o = "absent" THEN "pending" ELSE "confirm"

Verdict(o) ==
    CASE o = "absent" -> "pending" [] o = "failed" -> "reject" [] o = "success" -> "confirm"

(* fetchTransaction answers. *)
WorkerFetch(w) ==
    /\ run[w].pc = "fetch"
    /\ run' = [run EXCEPT ![w].pc = Verdict(outcome[run[w].hash])]
    /\ UNCHANGED <<outcome, tables, jobs, recovery, environment>>

(* Mutant: a PENDING result completes the job instead of retrying it. *)
PendingIsDone(w) == Return(w)

(* A SUBMITTED or PENDING result is thrown, for BullMQ to retry. *)
RetryLater(w) == Throw(w)

WorkerPending(w) ==
    /\ run[w].pc = "pending"
    /\ txStatus' = [txStatus EXCEPT ![run[w].hash] = "PENDING"]
    /\ RetryLater(w)
    /\ UNCHANGED <<outcome, claimStatus, claimPublic, txClaim, receipts, recovery, environment>>

(* assertTransition judges the claim status read before the fetch. *)
WorkerMay(w, to) == run[w].claim = None \/ Allowed(run[w].seen, to)

MoveClaim(w, to) ==
    claimStatus' = [n \in Nullifiers |-> IF n = run[w].claim THEN to ELSE claimStatus[n]]

WorkerReject(w) ==
    /\ run[w].pc = "reject"
    /\ WorkerMay(w, "TRANSACTION_FAILED")
    /\ txStatus' = [txStatus EXCEPT ![run[w].hash] = "FAILED"]
    /\ MoveClaim(w, "TRANSACTION_FAILED")
    /\ Return(w)
    /\ UNCHANGED <<outcome, claimPublic, txClaim, receipts, recovery, environment>>

(* Then issueIfReady, for the claim the updated row names. *)
WorkerConfirm(w) ==
    LET h == run[w].hash
    IN  /\ run[w].pc = "confirm"
        /\ WorkerMay(w, "CONFIRMED")
        /\ txStatus' = [txStatus EXCEPT ![h] = "CONFIRMED"]
        /\ MoveClaim(w, "CONFIRMED")
        /\ IF txClaim[h] = None
             THEN Return(w)
             ELSE /\ run' = [run EXCEPT ![w].pc = "issueRead", ![w].claim = txClaim[h],
                                       ![w].seen = Absent]
                  /\ UNCHANGED jobs
        /\ UNCHANGED <<outcome, claimPublic, txClaim, receipts, recovery, environment>>

(* INVALID_LIFECYCLE_TRANSITION: the transaction rolls back. *)
WorkerRefused(w) ==
    /\ \/ run[w].pc = "reject" /\ ~WorkerMay(w, "TRANSACTION_FAILED")
       \/ run[w].pc = "confirm" /\ ~WorkerMay(w, "CONFIRMED")
    /\ Throw(w)
    /\ UNCHANGED <<outcome, tables, recovery, environment>>

-----------------------------------------------------------------------------
(* recoverQueueJobs, run when the process starts.                          *)

(* Mutant: transactions no worker has looked at yet are not recovered. *)
OnlyPending == {"PENDING"}

Recoverable == NonTerminal

RecoverRead ==
    /\ recovering
    /\ recovering' = FALSE
    /\ todo' = {h \in Hashes : txStatus[h] \in Recoverable}
    /\ UNCHANGED <<outcome, tables, jobs, run, environment>>

RecoverAdd(h) ==
    /\ h \in todo
    /\ queue' = Added({h})
    /\ todo' = todo \ {h}
    /\ UNCHANGED <<outcome, tables, attempts, run, recovering, environment>>

-----------------------------------------------------------------------------
(* Faults, at most MaxFaults of them.                                      *)

Fault == faults < MaxFaults /\ faults' = faults + 1

(* The database or Stellar is unavailable: a transaction rolls back. *)
HandlerFails(p) ==
    /\ Fault
    /\ run[p].pc \notin {"idle", "enqueue"}
    /\ Throw(p)
    /\ UNCHANGED <<outcome, tables, recovery, redisKept>>

(* The API process, which runs the worker too, stops and starts; the job a *)
(* slot was running is stalled and goes back to waiting.                   *)
Restart ==
    /\ Fault
    /\ run' = [p \in Handlers |-> Idle]
    /\ queue' = [h \in Hashes |-> IF queue[h] \in Workers THEN "waiting" ELSE queue[h]]
    /\ recovering' = TRUE
    /\ todo' = {}
    /\ UNCHANGED <<outcome, tables, attempts, redisKept>>

(* Redis restarts without its data. *)
RedisLoss ==
    /\ Fault
    /\ redisKept' = FALSE
    /\ queue' = [h \in Hashes |-> "none"]
    /\ attempts' = [h \in Hashes |-> 0]
    /\ UNCHANGED <<outcome, tables, run, recovery>>

-----------------------------------------------------------------------------
(* The next-state relation.                                                *)

ApiStep(a) ==
    \/ \E h \in Hashes : RecordRead(a, h) \/ ReconcileRead(a, h)
    \/ RecordCommit(a) \/ Enqueue(a)
    \/ ReconcileCommit(a) \/ ReconcileConflict(a)

IssueStep(p) == IssueRead(p) \/ NothingToIssue(p) \/ IssueCommit(p) \/ IssueConflict(p)

WorkerStep(w) ==
    \/ \E h \in Hashes : WorkerSkip(w, h) \/ WorkerTake(w, h)
    \/ WorkerFetch(w) \/ WorkerPending(w) \/ WorkerReject(w)
    \/ WorkerConfirm(w) \/ WorkerRefused(w)

Next ==
    \/ \E h \in Hashes, o \in {"success", "failed"} : Land(h, o)
    \/ \E draft \in Drafts : CreateClaim(draft)
    \/ \E a \in Api : ApiStep(a)
    \/ \E h \in Hashes : RecoverRegistration(h)
    \/ \E p \in Handlers : IssueStep(p)
    \/ \E w \in Workers : WorkerStep(w)
    \/ RecoverRead
    \/ \E h \in Hashes : RecoverAdd(h)
    \/ \E p \in Handlers : HandlerFails(p)
    \/ Restart
    \/ RedisLoss

Spec == Init /\ [][Next]_vars

-----------------------------------------------------------------------------
(* Safety                                                                  *)

(***************************************************************************)
(* A transaction row is CONFIRMED only if the transaction succeeded on     *)
(* Stellar and FAILED only if it failed there, whoever settled it: the     *)
(* worker, a client's reconciliation or the recovery of a registration.    *)
(***************************************************************************)
SettledStatusTrue ==
    \A h \in Hashes : /\ txStatus[h] = "CONFIRMED" => outcome[h] = "success"
                      /\ txStatus[h] = "FAILED" => outcome[h] = "failed"

(***************************************************************************)
(* A receipt states what the ledger holds: its transaction succeeded and   *)
(* carried exactly the researcher, commitments and nullifier it shows,     *)
(* although they are copied from a claim row that the client drafted       *)
(* before the transaction existed.                                         *)
(***************************************************************************)
ReceiptBacked ==
    \A r \in receipts :
        /\ outcome[r.hash] = "success"
        /\ r.claim = Call[r.hash]
        /\ r.claimId = r.claim.nullifier

(***************************************************************************)
(* A claim's status is never ahead of the facts (DEMO_RUNBOOK.md:44-46):   *)
(* SUBMITTED with a recorded transaction, CONFIRMED with one of its        *)
(* transactions successful on the ledger, RECEIPT_ISSUED with a receipt,   *)
(* TRANSACTION_FAILED with a transaction that failed.                      *)
(***************************************************************************)
ClaimStatusTrue ==
    \A n \in Nullifiers :
        /\ claimStatus[n] = "SUBMITTED" =>
              \E h \in Hashes : txClaim[h] = n /\ txStatus[h] # Absent
        /\ claimStatus[n] = "CONFIRMED" =>
              \E h \in Hashes : Call[h].nullifier = n /\ outcome[h] = "success"
        /\ claimStatus[n] = "RECEIPT_ISSUED" => HasReceipt(n)
        /\ claimStatus[n] = "TRANSACTION_FAILED" =>
              \E h \in Hashes : Call[h].nullifier = n /\ outcome[h] = "failed"

(***************************************************************************)
(* While Redis keeps its data no unsettled transaction is forgotten: it    *)
(* has a job, or the request that recorded it is about to add one, or the  *)
(* recovery at startup will.  Commit and enqueue are two steps             *)
(* (claims.service.ts:451-501) and a crash can separate them.              *)
(***************************************************************************)
UnfinishedWorkIsCarried ==
    redisKept =>
        \A h \in Hashes :
            txStatus[h] \in NonTerminal =>
                \/ queue[h] # "none"
                \/ recovering \/ h \in todo
                \/ \E a \in Api : run[a].pc = "enqueue" /\ run[a].hash = h

(***************************************************************************)
(* The API, its queue and its workers implement the ledger of receipts:    *)
(* a receipt is issued only for a claim the chain accepted, once, and is   *)
(* never changed, however requests and workers race to issue it.           *)
(***************************************************************************)
AcceptedClaims == {Call[h] : h \in {g \in Hashes : outcome[g] = "success"}}

Issued == {[id |-> r.id, claim |-> r.claim] : r \in receipts}

Receipts == INSTANCE ReceiptLedger WITH
                Ids <- ReceiptIds, accepted <- AcceptedClaims, issued <- Issued

ImplementsReceiptLedger == Receipts!ReceiptSpec

-----------------------------------------------------------------------------
(* What the repository says of itself and the code does not do.            *)

(***************************************************************************)
(* RECEIPT_ISSUED is the end of a claim's life: lifecycle.ts:20 gives it   *)
(* no successor and reconcileSubmitClaimHash takes care to keep it.        *)
(***************************************************************************)
ReceiptIssuedIsTerminal ==
    [][\A n \in Nullifiers : claimStatus[n] = "RECEIPT_ISSUED" =>
                                claimStatus'[n] = "RECEIPT_ISSUED"]_vars

(***************************************************************************)
(* Queue recovery requeues non-terminal work (PRODUCT_GLOSSARY.md:64-65):  *)
(* when it is through with an unsettled transaction, its job is waiting or *)
(* running.                                                                *)
(***************************************************************************)
RecoveryRequeues ==
    [][\A h \in todo \ todo' :
          txStatus[h] \in NonTerminal /\ ~recovering' =>
              queue'[h] \in {"waiting"} \cup Workers]_vars

(***************************************************************************)
(* When Redis restarts, the API recovers reconciliation work from          *)
(* PostgreSQL (RENDER_DEPLOYMENT.md:17): a recorded transaction is settled *)
(* or given up even if Redis lost its job.                                 *)
(***************************************************************************)
RedisRestartRecovered ==
    \A h \in Hashes :
        txStatus[h] \in NonTerminal ~> txStatus[h] \in Settled \/ queue[h] = "failed"

-----------------------------------------------------------------------------
(* Liveness                                                                *)

(***************************************************************************)
(* Awaited calls return, so a handler that began goes on; BullMQ hands     *)
(* waiting jobs to free slots in order, so every waiting job is taken; the *)
(* recovery that started goes on.  Nothing is assumed of clients, of the   *)
(* ledger, or of faults.                                                   *)
(***************************************************************************)
HandlerStep(p) ==
    \/ p \in Api /\ (RecordCommit(p) \/ Enqueue(p) \/ ReconcileCommit(p) \/ ReconcileConflict(p))
    \/ IssueStep(p)
    \/ /\ p \in Workers
       /\ \/ WorkerFetch(p) \/ WorkerPending(p) \/ WorkerReject(p)
          \/ WorkerConfirm(p) \/ WorkerRefused(p)

Fairness ==
    /\ \A p \in Handlers : WF_vars(HandlerStep(p))
    /\ \A h \in Hashes : SF_vars(\E w \in Workers : WorkerSkip(w, h) \/ WorkerTake(w, h))
    /\ WF_vars(RecoverRead)
    /\ \A h \in Hashes : WF_vars(RecoverAdd(h))

FairSpec == Spec /\ Fairness

(***************************************************************************)
(* The patience of the wizard (claim-wizard.tsx:485-545): a client whose   *)
(* transaction succeeded asks for its reconciliation again and again.      *)
(***************************************************************************)
PatientSpec ==
    FairSpec /\ \A h \in Hashes : SF_vars(\E a \in Api : ReconcileRead(a, h))

(***************************************************************************)
(* While Redis keeps its data, a recorded transaction is settled in the    *)
(* database in the end, or its job has been given up after its attempts:   *)
(* neither a crash of the process between any two steps, nor a transition  *)
(* the lifecycle refuses, nor a late answer of Stellar leaves it waiting.  *)
(***************************************************************************)
RecordedIsDecided ==
    \A h \in Hashes :
        txStatus[h] \in NonTerminal ~>
            txStatus[h] \in Settled \/ queue[h] = "failed" \/ ~redisKept

(***************************************************************************)
(* A patient client gets its receipt: a successful submit_claim ends with  *)
(* a receipt unless its claim row was drafted with other values, whatever  *)
(* worker, crash or failed sibling transaction left in the claim status.   *)
(***************************************************************************)
ReceiptInTheEnd ==
    \A h \in Hashes :
        outcome[h] = "success" ~>
            \/ \E r \in receipts : r.hash = h
            \/ claimPublic[Call[h].nullifier] \notin {None, Call[h]}
=============================================================================
