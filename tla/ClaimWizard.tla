---------------------------- MODULE ClaimWizard ----------------------------
(***************************************************************************)
(* The stamping half of apps/web/src/components/claim-wizard.tsx: seal,    *)
(* review, prepare, approve, submit (lib/stellar/submit-transaction.ts),   *)
(* sync with the API, retry, and the one slot of local storage that        *)
(* survives a reload.                                                      *)
(*                                                                         *)
(* publish() and what it calls run on an event loop: a handler is a record *)
(* with the values its closure captured at the click and is cut at its     *)
(* awaits, so that wallet changes, resets, edits and other clicks fall     *)
(* between two of its steps.  The effect that reads the slot runs with     *)
(* every step that changes what it depends on.                             *)
(*                                                                         *)
(* The ledger and the API are what the wizard can learn of them.           *)
(***************************************************************************)
EXTENDS Naturals, Sequences, FiniteSets

CONSTANTS
    Wallets,        \* accounts of the browser's wallet
    Handlers,       \* concurrent runs of publish()
    MaxSeals,       \* bound on generated seals
    MaxSent,        \* bound on transactions sent
    MaxVisits,      \* bound on reloads and on changes of a connected wallet
    MaxAttempts,    \* retryDelays.length
    MaxFaults,      \* bound on remote calls that fail for no other reason
    None

ASSUME WizardAssumption ==
    /\ {MaxSeals, MaxSent, MaxVisits, MaxAttempts} \subseteq Nat \ {0}
    /\ MaxFaults \in Nat
    /\ None \notin Wallets \cup Nat

Seals == 1 .. MaxSeals
Hashes == 1 .. MaxSent

VARIABLES
    address,        \* the connected wallet
    visits,         \* reloads and changes of a connected wallet so far
    seal,           \* draft.privateSeal
    nextSeal,       \* seals generated so far
    reviewed,
    receiptView,    \* draft.receipt is set: only the retry button is shown
    stage,          \* publishState
    prepared,       \* preparedActionRef
    review,         \* preparedReview, with hasPreparedTransaction
    approving,      \* approvalInFlightRef
    backendClaim,   \* backendClaim
    pending,        \* pendingTransaction, a hash
    receipt,        \* backendReceipt, the hash it confirms
    slot,           \* local storage: pending receipt sync
    run,            \* the running handlers
    sent,           \* transactions sent to the network, by hash
    outcome,        \* what the ledger did with each
    registered,     \* commitment the registry holds for a wallet
    recorded,       \* hashes the API has recorded
    issued,         \* hashes the API has issued a receipt for
    faults,         \* failed calls so far
    latest,         \* history: the last hash whose success the wizard saw,
                    \* until it has shown its receipt
    disturbed       \* history: a wallet change, a reset or a second click
                    \* met a running handler

scoped == <<seal, nextSeal, reviewed, receiptView>>
stamp  == <<stage, prepared, review>>
sync   == <<pending, receipt, slot>>
remote == <<sent, outcome, registered, recorded, issued>>
vars == <<address, visits, scoped, stamp, approving, backendClaim, sync, run,
          remote, faults, latest, disturbed>>

-----------------------------------------------------------------------------
(* A prepared action, and the claim row it belongs to *)

Rows == [wallet : Wallets, commitment : Seals, seal : Seals]
Actions == [wallet : Wallets, seal : Seals, claim : Rows]

ASSUME NoneAssumption ==
    None \notin Rows \cup Actions \cup [hash : Hashes, wallet : Wallets]

Idle == [pc |-> "idle", wallet |-> None, seal |-> None, claim |-> None,
         act |-> None, hash |-> None, held |-> None, attempt |-> 0,
         retry |-> FALSE]

Running == {h \in Handlers : run[h].pc # "idle"}

(* What says that something is under way.                                  *)
Busy == {"checking_readiness", "preparing", "awaiting_wallet", "signed",
         "submitted", "confirming", "issuing_receipt"}

Stages == Busy \cup {"idle", "reviewing", "wallet_retry", "confirmed",
                     "backend_sync_failed", "failed"}

Go(h, r) == run' = [run EXCEPT ![h] = r]

EndOf(h) == Go(h, Idle)

Init ==
    /\ address = None /\ visits = 0
    /\ seal = None /\ nextSeal = 0 /\ reviewed = FALSE /\ receiptView = FALSE
    /\ stage = "idle" /\ prepared = None /\ review = None
    /\ approving = FALSE /\ backendClaim = None
    /\ pending = None /\ receipt = None /\ slot = None
    /\ run = [h \in Handlers |-> Idle]
    /\ sent = <<>> /\ outcome = <<>>
    /\ registered = [w \in Wallets |-> None]
    /\ recorded = {} /\ issued = {}
    /\ faults = 0 /\ latest = None /\ disturbed = FALSE

-----------------------------------------------------------------------------
(* The slot and the effect that reads it *)

readPendingReceiptSync(w) ==
    IF slot # None /\ slot.wallet = w THEN slot.hash ELSE None

(* What is left after a step that forgets the pending transaction and the  *)
(* receipt: the effect takes back what the slot holds for this wallet.     *)
(* Mutant: it looks only when the page loads. *)
ForgottenFor(w, visible) ==
    /\ pending' = None /\ receipt' = None
    /\ stage' = "idle" /\ receiptView' = visible

RestoreFor(w, visible) ==
    LET found == IF w = None THEN None ELSE readPendingReceiptSync(w) IN
    /\ pending' = found
    /\ receipt' = None
    /\ stage' = IF found = None THEN "idle" ELSE "backend_sync_failed"
    /\ receiptView' = (visible \/ found # None)

Dropped == prepared' = None /\ review' = None

-----------------------------------------------------------------------------
(* Wallet, page and form *)

(* The wallet context reports another account, or none.                    *)
WalletChange ==
    /\ address # None => visits < MaxVisits
    /\ visits' = visits + IF address # None THEN 1 ELSE 0
    /\ \E w \in (Wallets \cup {None}) \ {address} :
        /\ address' = w
        /\ IF address # None
           THEN /\ seal' = None /\ reviewed' = FALSE
                /\ approving' = FALSE
                /\ Dropped
                /\ RestoreFor(w, FALSE)
                /\ disturbed' = (disturbed \/ Running # {})
           ELSE /\ IF pending = None /\ receipt = None /\ readPendingReceiptSync(w) # None
                   THEN RestoreFor(w, receiptView)
                   ELSE UNCHANGED <<pending, receipt, stage, receiptView>>
                /\ UNCHANGED <<seal, reviewed, approving, prepared, review, disturbed>>
    /\ UNCHANGED <<nextSeal, backendClaim, slot, run, remote, faults, latest>>

(* Everything but local storage is gone; the wallet reconnects later.      *)
Reload ==
    /\ visits < MaxVisits
    /\ visits' = visits + 1
    /\ address' = None
    /\ seal' = None /\ reviewed' = FALSE /\ receiptView' = FALSE
    /\ stage' = "idle" /\ Dropped
    /\ approving' = FALSE /\ backendClaim' = None
    /\ pending' = None /\ receipt' = None
    /\ run' = [h \in Handlers |-> Idle]
    /\ UNCHANGED <<nextSeal, slot, remote, faults, latest, disturbed>>

(* update() and updatePrivateEvidence(): an edit drops what was prepared. *)
(* Mutant: what is on screen stays. *)
InvalidatedRef ==
    IF prepared # None \/ review # None
    THEN /\ prepared' = None
         /\ stage' = IF stage = "reviewing" THEN "idle" ELSE stage
         /\ UNCHANGED review
    ELSE UNCHANGED stamp

Invalidated ==
    IF prepared # None \/ review # None
    THEN /\ Dropped
         /\ stage' = IF stage = "reviewing" THEN "idle" ELSE stage
    ELSE UNCHANGED stamp

Edit ==
    /\ prepared # None
    /\ Invalidated
    /\ UNCHANGED <<address, visits, scoped, approving, backendClaim, sync, run,
                   remote, faults, latest, disturbed>>

generateSeal ==
    /\ nextSeal < MaxSeals
    /\ nextSeal' = nextSeal + 1
    /\ seal' = nextSeal + 1
    /\ Invalidated
    /\ UNCHANGED <<address, visits, reviewed, receiptView, approving,
                   backendClaim, sync, run, remote, faults, latest, disturbed>>

confirmReview ==
    /\ seal # None
    /\ reviewed' = TRUE
    /\ Invalidated
    /\ UNCHANGED <<address, visits, seal, nextSeal, receiptView, approving,
                   backendClaim, sync, run, remote, faults, latest, disturbed>>

clearPrivateEvidence ==
    /\ seal' = None /\ reviewed' = FALSE
    /\ Dropped
    /\ UNCHANGED <<address, visits, nextSeal, receiptView, stage, approving,
                   backendClaim, sync, run, remote, faults, latest, disturbed>>

(* A continuation link of another browser arrives: its seal and approval   *)
(* replace the draft, whatever else is on screen.                          *)
LoadContinuation ==
    /\ nextSeal < MaxSeals
    /\ nextSeal' = nextSeal + 1
    /\ seal' = nextSeal + 1 /\ reviewed' = TRUE /\ receiptView' = FALSE
    /\ UNCHANGED <<address, visits, stamp, approving, backendClaim, sync, run,
                   remote, faults, latest, disturbed>>

(* reset, and loadExample, which leaves the approval guard as it is.       *)
reset(guard) ==
    /\ seal' = None /\ reviewed' = FALSE
    /\ Dropped
    /\ RestoreFor(address, FALSE)
    /\ approving' = guard
    /\ disturbed' = (disturbed \/ Running # {})
    /\ UNCHANGED <<address, visits, nextSeal, backendClaim, slot, run, remote,
                   faults, latest>>

Reset == reset(FALSE)
loadExample == reset(approving)
-----------------------------------------------------------------------------
(* publish().  What the click starts depends on what is on screen.         *)

(* The stage offers an approval, and an edit has dropped its action.       *)
ApprovalDropped == stage \in {"reviewing", "wallet_retry"} /\ prepared = None

(* Without a wallet the button is there to connect one.                    *)
Enabled ==
    IF receiptView THEN pending # None
    ELSE /\ reviewed
         /\ address # None =>
                /\ ~ApprovalDropped
                /\ stage = "backend_sync_failed" => pending # None
                /\ stage \notin (Busy \ {"signed"}) \cup {"confirmed"}

Click(h) ==
    /\ run[h].pc = "idle"
    /\ Enabled /\ seal # None
    /\ disturbed' = (disturbed \/ Running # {})
    /\ UNCHANGED <<address, visits, scoped, backendClaim, sync, remote, faults,
                   latest>>

Offered == stage \in {"reviewing", "wallet_retry"} /\ prepared # None

Retriable == stage = "backend_sync_failed" /\ pending # None

approvePreparedTransaction(h) ==
    /\ Click(h) /\ Offered
    /\ ~approving
    /\ approving' = TRUE
    /\ stage' = "awaiting_wallet"
    /\ Go(h, [Idle EXCEPT !.pc = "signing", !.wallet = address,
                          !.act = prepared, !.held = pending])
    /\ UNCHANGED <<prepared, review>>

retrySync(h) ==
    /\ Click(h) /\ Retriable
    /\ Go(h, [Idle EXCEPT !.pc = "rechecking", !.wallet = address,
                          !.hash = pending, !.retry = TRUE])
    /\ UNCHANGED <<stamp, approving>>

prepareStamp(h) ==
    /\ Click(h) /\ ~Offered /\ ~Retriable
    /\ address # None
    /\ stage' = "checking_readiness"
    /\ Dropped
    /\ Go(h, [Idle EXCEPT !.pc = "readiness", !.wallet = address, !.seal = seal,
                          !.claim = backendClaim, !.held = pending])
    /\ UNCHANGED approving

-----------------------------------------------------------------------------
(* Preparing: readiness, claim row, simulation *)

Ready(h) ==
    /\ run[h].pc = "readiness"
    /\ stage' = "preparing"
    /\ Go(h, [run[h] EXCEPT !.pc = "preparing"])
    /\ UNCHANGED <<address, visits, scoped, prepared, review, approving,
                   backendClaim, sync, remote, faults, latest, disturbed>>

resolveOnChainResearcherCommitment(w, fingerprint) ==
    IF registered[w] = None THEN fingerprint ELSE registered[w]

(* A row made earlier is used again when its commitment is the wallet's.   *)
(* Mutant: any row made earlier is used again. *)
AnyRow(r, commitment) ==
    IF r.claim # None THEN r.claim
    ELSE [wallet |-> r.wallet, commitment |-> commitment, seal |-> r.seal]

RowFor(r, commitment) ==
    IF r.claim # None /\ r.claim.commitment = commitment THEN r.claim
    ELSE [wallet |-> r.wallet, commitment |-> commitment, seal |-> r.seal]

ChooseClaim(h) ==
    /\ run[h].pc = "preparing"
    /\ LET row == RowFor(run[h],
                  resolveOnChainResearcherCommitment(run[h].wallet, run[h].seal)) IN
        /\ backendClaim' = row
        /\ Go(h, [run[h] EXCEPT !.pc = "simulating", !.claim = row])
    /\ UNCHANGED <<address, visits, scoped, stamp, approving, sync, remote,
                   faults, latest, disturbed>>

Accepted(s) == \E t \in DOMAIN sent : outcome[t] = "ok" /\ sent[t].seal = s

(* What a simulation, or the ledger, accepts of a call.                    *)
Acceptable(act) ==
    /\ ~Accepted(act.seal)
    /\ registered[act.wallet] \in {None, act.claim.commitment}

ActionOf(r) == [wallet |-> r.wallet, seal |-> r.seal, claim |-> r.claim]

Simulated(h) ==
    /\ run[h].pc = "simulating"
    /\ Acceptable(ActionOf(run[h]))
    /\ prepared' = ActionOf(run[h]) /\ review' = ActionOf(run[h])
    /\ stage' = "reviewing"
    /\ EndOf(h)
    /\ UNCHANGED <<address, visits, scoped, approving, backendClaim, sync,
                   remote, faults, latest, disturbed>>

(* The branches of the two catch clauses for a transaction held before, or *)
(* none.  Failing is also an update() of the draft.                        *)
Failed == stage' = "failed" /\ Dropped

Fault == faults < MaxFaults /\ faults' = faults + 1

PrepareFails(h) ==
    /\ \/ run[h].pc \in {"readiness", "preparing", "simulating"} /\ Fault
       \/ /\ run[h].pc = "simulating"
          /\ ~Acceptable(ActionOf(run[h]))
          /\ UNCHANGED faults
    /\ IF run[h].held # None
       THEN stage' = "backend_sync_failed" /\ UNCHANGED <<prepared, review>>
       ELSE Failed
    /\ EndOf(h)
    /\ UNCHANGED <<address, visits, scoped, approving, backendClaim, sync,
                   remote, latest, disturbed>>

-----------------------------------------------------------------------------
(* Approving, submitting, polling *)

(* An envelope that Freighter may return: unsigned, not assembled with its *)
(* Soroban data and fee, or carrying another call than the one reviewed.   *)
Envelopes(act) ==
    [signatures : 0 .. 1, assembled : BOOLEAN,
     call : {act} \cup {[act EXCEPT !.seal = s] : s \in Seals}]

(* Whatever does not decode as one submit_claim call counts as another.    *)
decodeSubmitClaimArgsFromXdr(x) == x.call

assertSubmitClaimSignedXdrReady(x, expected) ==
    /\ x.signatures >= 1 /\ x.assembled
    /\ decodeSubmitClaimArgsFromXdr(x) = expected

SignApproved(h) ==
    /\ run[h].pc = "signing"
    /\ \E x \in Envelopes(run[h].act) :
        /\ assertSubmitClaimSignedXdrReady(x, run[h].act)
        /\ Go(h, [run[h] EXCEPT !.pc = "sending", !.act = x.call])
    /\ stage' = "signed"
    /\ UNCHANGED <<address, visits, scoped, prepared, review, approving,
                   backendClaim, sync, remote, faults, latest, disturbed>>

SignRefused(h) ==
    /\ run[h].pc = "signing"
    /\ stage' = "wallet_retry"
    /\ approving' = FALSE
    /\ EndOf(h)
    /\ UNCHANGED <<address, visits, scoped, prepared, review, backendClaim,
                   sync, remote, faults, latest, disturbed>>

Broadcast(h) ==
    /\ Len(sent) < MaxSent
    /\ sent' = Append(sent, run[h].act)
    /\ outcome' = Append(outcome, "sent")
    /\ UNCHANGED <<registered, recorded, issued>>

(* What the RPC answers: its status, and the hash it names, if any.  The   *)
(* transaction was accepted, already known, or turned away.                *)
Replies(hash) ==
    [status : {"PENDING", "DUPLICATE"}, hash : {hash, None}] \cup
    [status : {"ERROR", "TRY_AGAIN_LATER"}, hash : {hash}]

responseStatus(reply) == reply.status

(* At the top of the reply or nested in it; only a valid one counts.       *)
responseHash(reply) == reply.hash

TurnedAway(reply) == responseStatus(reply) \in {"ERROR", "TRY_AGAIN_LATER"}

sendTransaction(h) ==
    /\ run[h].pc = "sending"
    /\ Broadcast(h)
    /\ \E reply \in Replies(Len(sent) + 1) :
        /\ ~TurnedAway(reply) /\ responseHash(reply) # None
        /\ Go(h, [run[h] EXCEPT !.pc = "polling", !.hash = responseHash(reply)])
    /\ UNCHANGED <<address, visits, scoped, stamp, approving, backendClaim,
                   sync, faults, latest, disturbed>>

(* The approval ends without a known hash: refused by the network, failed  *)
(* on the ledger, or unknown when the RPC throws or polling runs out.      *)
ApprovalFails(h) ==
    /\ IF run[h].held # None
       THEN /\ stage' = "backend_sync_failed"
            /\ pending' = run[h].held
            /\ UNCHANGED <<prepared, review>>
       ELSE Failed /\ UNCHANGED pending
    /\ approving' = FALSE
    /\ EndOf(h)
    /\ UNCHANGED <<address, visits, scoped, backendClaim, receipt, slot, latest,
                   disturbed>>

(* Nothing was sent: an envelope was refused, or the RPC turned it away.   *)
SendFails(h) ==
    /\ \/ /\ run[h].pc = "signing"
          /\ \E x \in Envelopes(run[h].act) :
                ~assertSubmitClaimSignedXdrReady(x, run[h].act)
       \/ /\ run[h].pc = "sending"
          /\ \E reply \in Replies(Len(sent) + 1) : TurnedAway(reply)
    /\ Fault
    /\ ApprovalFails(h)
    /\ UNCHANGED remote

(* The RPC took it, and answered nothing or without a valid hash.          *)
SendUnanswered(h) ==
    /\ run[h].pc = "sending"
    /\ Fault
    /\ Broadcast(h)
    /\ ApprovalFails(h)

PollFailed(h) ==
    /\ run[h].pc = "polling"
    /\ outcome[run[h].hash] = "failed"
    /\ ApprovalFails(h)
    /\ UNCHANGED <<remote, faults>>

PollGivesUp(h) ==
    /\ run[h].pc = "polling"
    /\ Fault
    /\ ApprovalFails(h)
    /\ UNCHANGED remote

-----------------------------------------------------------------------------
(* Syncing with the API.  From the answer of the poll, or of the readiness *)
(* check of a retry, to the first await everything is one step: the hash   *)
(* is on screen and in the slot.                                           *)

pendingReceiptSyncFromTransaction(hash, w) == [hash |-> hash, wallet |-> w]

(* Mutant: the slot is written once the API has answered. *)
WriteLater(hash, w) == UNCHANGED slot

writePendingReceiptSync(hash, w) ==
    slot' = pendingReceiptSyncFromTransaction(hash, w)

clearPendingReceiptSync == slot' = None

(* The hash, and draft.receipt, which leaves only the retry button.        *)
preserveSignedTransaction(hash) == pending' = hash /\ receiptView' = TRUE

BeginSync(h) ==
    /\ stage' = "confirming"
    /\ writePendingReceiptSync(run[h].hash, run[h].wallet)
    /\ pending' = run[h].hash
    /\ Go(h, [run[h] EXCEPT !.pc = "recording"])
    /\ UNCHANGED <<approving, receipt>>

(* The catch clauses of an approval and of a retry.  Mutant: the retry has *)
(* none. *)
RetryLeavesStage(h) ==
    IF run[h].retry THEN UNCHANGED <<stage, pending>>
    ELSE stage' = "backend_sync_failed" /\ pending' = run[h].hash

KeepForRetry(h) ==
    /\ stage' = "backend_sync_failed"
    /\ IF run[h].retry THEN UNCHANGED pending ELSE pending' = run[h].hash

(* Without a wallet the sync throws.                                       *)
RefuseSync(h) ==
    /\ KeepForRetry(h)
    /\ approving' = (approving /\ run[h].retry)
    /\ EndOf(h)
    /\ UNCHANGED <<receipt, slot>>

PollSucceeds(h) ==
    /\ run[h].pc = "polling"
    /\ outcome[run[h].hash] = "ok"
    /\ latest' = run[h].hash
    /\ preserveSignedTransaction(run[h].hash)
    /\ Dropped
    /\ IF run[h].wallet # None THEN BeginSync(h) ELSE RefuseSync(h)
    /\ UNCHANGED <<address, visits, seal, nextSeal, reviewed, backendClaim,
                   remote, faults, disturbed>>

RetryReady(h) ==
    /\ run[h].pc = "rechecking"
    /\ IF run[h].wallet # None THEN BeginSync(h) ELSE RefuseSync(h)
    /\ UNCHANGED <<address, visits, scoped, prepared, review, backendClaim,
                   remote, faults, latest, disturbed>>

(* The row is the one the wizard named; recordTransaction refuses another  *)
(* wallet or nullifier, and a claim that has its receipt.                  *)
Recordable(hash, w) ==
    LET act == sent[hash] IN
    /\ act.claim.wallet = w
    /\ act.claim.seal = act.seal
    /\ \A t \in issued : sent[t].claim # act.claim

recordBackendTransaction(h) ==
    /\ run[h].pc = "recording"
    /\ Recordable(run[h].hash, run[h].wallet)
    /\ recorded' = recorded \cup {run[h].hash}
    /\ stage' = "issuing_receipt"
    /\ Go(h, [run[h] EXCEPT !.pc = "reconciling"])
    /\ UNCHANGED <<address, visits, scoped, prepared, review, approving,
                   backendClaim, sync, sent, outcome, registered, issued, faults,
                   latest, disturbed>>

(* reconcileUntilReceipt: another attempt, and what ends the attempts.     *)
ReconcileAgain(h) ==
    /\ run[h].pc = "reconciling"
    /\ run[h].attempt + 1 < MaxAttempts
    /\ Go(h, [run[h] EXCEPT !.attempt = @ + 1])
    /\ UNCHANGED <<address, visits, scoped, stamp, approving, backendClaim,
                   sync, remote, faults, latest, disturbed>>

OutOfAttempts(h) ==
    run[h].pc = "reconciling" /\ run[h].attempt + 1 >= MaxAttempts

ReceiptFound(h) ==
    /\ run[h].pc = "reconciling"
    /\ run[h].hash \in issued
    /\ receipt' = run[h].hash /\ receiptView' = TRUE
    /\ stage' = "confirmed"
    /\ pending' = None
    /\ clearPendingReceiptSync
    /\ approving' = (approving /\ run[h].retry)
    /\ latest' = IF latest = run[h].hash THEN None ELSE latest
    /\ EndOf(h)
    /\ UNCHANGED <<address, visits, seal, nextSeal, reviewed, prepared, review,
                   backendClaim, remote, faults, disturbed>>

SyncFails(h) ==
    /\ \/ run[h].pc \in {"rechecking", "recording", "reconciling"} /\ Fault
       \/ /\ run[h].pc = "recording"
          /\ ~Recordable(run[h].hash, run[h].wallet)
          /\ UNCHANGED faults
       \/ OutOfAttempts(h) /\ UNCHANGED faults
    /\ KeepForRetry(h)
    /\ approving' = (approving /\ run[h].retry)
    /\ EndOf(h)
    /\ UNCHANGED <<address, visits, scoped, prepared, review, backendClaim,
                   receipt, slot, remote, latest, disturbed>>

-----------------------------------------------------------------------------
(* The ledger closes over a transaction; the API issues a receipt.         *)

Land(t) ==
    /\ outcome[t] = "sent"
    /\ \/ /\ Acceptable(sent[t])
          /\ outcome' = [outcome EXCEPT ![t] = "ok"]
          /\ registered' = [registered EXCEPT ![sent[t].wallet] =
                               sent[t].claim.commitment]
          /\ UNCHANGED faults
       \/ /\ Acceptable(sent[t]) => faults < MaxFaults
          /\ faults' = faults + IF Acceptable(sent[t]) THEN 1 ELSE 0
          /\ outcome' = [outcome EXCEPT ![t] = "failed"]
          /\ UNCHANGED registered
    /\ UNCHANGED <<address, visits, scoped, stamp, approving, backendClaim,
                   sync, run, sent, recorded, issued, latest, disturbed>>

IssueReceipt(t) ==
    /\ t \in recorded \ issued
    /\ outcome[t] = "ok"
    /\ issued' = issued \cup {t}
    /\ UNCHANGED <<address, visits, scoped, stamp, approving, backendClaim,
                   sync, run, sent, outcome, registered, recorded, faults, latest,
                   disturbed>>

-----------------------------------------------------------------------------
HandlerStep(h) ==
    \/ Ready(h) \/ ChooseClaim(h) \/ Simulated(h) \/ PrepareFails(h)
    \/ SignApproved(h) \/ SignRefused(h) \/ sendTransaction(h)
    \/ SendFails(h) \/ SendUnanswered(h)
    \/ PollFailed(h) \/ PollGivesUp(h) \/ PollSucceeds(h)
    \/ RetryReady(h) \/ recordBackendTransaction(h)
    \/ ReconcileAgain(h) \/ ReceiptFound(h) \/ SyncFails(h)

Publish ==
    \E h \in Handlers :
        approvePreparedTransaction(h) \/ retrySync(h) \/ prepareStamp(h)

Remote == \E t \in DOMAIN sent : Land(t) \/ IssueReceipt(t)

Keeping ==
    \/ WalletChange \/ Reload
    \/ Edit \/ generateSeal \/ confirmReview \/ LoadContinuation
    \/ Publish
    \/ \E h \in Handlers : HandlerStep(h)
    \/ Remote

Discarding == clearPrivateEvidence \/ Reset \/ loadExample

Next == Keeping \/ Discarding

Spec == Init /\ [][Next]_vars

(* A user who never throws the draft away and keeps pressing the button    *)
(* that is offered; awaited calls are answered, the ledger closes, the API *)
(* works its queue.                                                        *)
ResumeSpec ==
    /\ Init /\ [][Keeping]_vars
    /\ \A h \in Handlers : WF_vars(HandlerStep(h))
    /\ WF_vars(Remote)
    /\ WF_vars(Publish)

-----------------------------------------------------------------------------
(* Safety *)

(* What the screen asks the user to approve is what Freighter would be     *)
(* given (preparedReview and preparedActionRef), through edits, resets,    *)
(* wallet changes and preparations that finish late.                       *)
ReviewShowsPrepared == review = prepared

(* A stamp is prepared, signed and sent for a claim row of its own wallet, *)
(* although rows are kept across wallet changes and resets and used again. *)
ClaimOfItsWallet ==
    /\ prepared # None => prepared.claim.wallet = prepared.wallet
    /\ \A t \in DOMAIN sent : sent[t].claim.wallet = sent[t].wallet

(* A stage that says something is under way has a run of publish().        *)
BusyIsCarried == stage \in Busy => Running # {}

(* The screen never waits for something that nobody is doing.  At rest no  *)
(* stage says that something is under way; and if nothing interrupted a    *)
(* running handler, the button is closed, or gone, only when the receipt   *)
(* was issued or an edit dropped the action to approve (the dead end of    *)
(* getPublishActionState: nothing leads out of it but a reset, a reload or *)
(* another wallet).                                                        *)
DisabledIsCarried ==
    /\ BusyIsCarried
    /\ ~disturbed /\ (receiptView \/ reviewed) /\ ~Enabled
       => Running # {} \/ stage = "confirmed" \/ ApprovalDropped

(* If nothing interrupted a running handler, the hash of the last stamp    *)
(* the ledger confirmed is in local storage until its receipt was shown,   *)
(* through reloads, resets, wallet changes and failed retries.             *)
LatestConfirmedKept ==
    ~disturbed /\ latest # None => slot # None /\ slot.hash = latest

(* If nothing interrupted a running handler, a wallet whose stamp is in    *)
(* the slot is offered the retry whenever the wizard is at rest.           *)
RetryOffered ==
    /\ ~disturbed /\ Running = {} /\ receipt = None
    /\ address # None /\ slot # None /\ slot.wallet = address
    => pending = slot.hash /\ stage = "backend_sync_failed"

-----------------------------------------------------------------------------
(* What the wizard says of itself and does not keep *)

(* A pending receipt sync of the connected wallet can be resumed: if       *)
(* nothing interrupted a running handler, a retry takes it up, unless it   *)
(* ends or the wallet goes.  What the retry comes to is not asked.         *)
PendingSyncResumes ==
    \A w \in Wallets :
        (address = w /\ readPendingReceiptSync(w) # None)
            ~> \/ address # w \/ readPendingReceiptSync(w) = None
               \/ Running # {} \/ disturbed
=============================================================================
