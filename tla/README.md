# ZeroSeal: a TLA+ verification of a claim's way from the form to its receipt

ZeroSeal lets a security researcher stamp a claim on Stellar without showing the
private evidence. A browser wizard derives a seal, the wallet signs one
`submit_claim` call of a Soroban contract, and an API turns the confirmed
transaction into a public receipt. This directory models that path, the wallet
session, the continuation links and the circuits beside it, checks the models
with TLC and proves their safety properties with TLAPS.

Paths below are relative to the root of the repository's source.

## 1. Inventory

| Component | State it keeps | Operations | Talks to |
|---|---|---|---|
| Claim registry contract, `contracts/claim_registry/src/lib.rs` | researcher records, used claim commitments and nullifiers, receipts (instance storage) | `submit_claim`, four getters | events read by the API |
| Claims service, `apps/api/src/claims.service.ts` | `claim`, `proof_artifact`, `verification_job`, `chain_transaction` rows | create, attach evidence, submit proof, request verification, record transaction | PostgreSQL, both queues |
| Reconciliation, `transactions.service.ts` | `chain_transaction` and `claim` rows | `reconcileSubmitClaimHash` (a client asks), `reconcile` (the worker), `recoverResearcherRegistration` | Stellar RPC and Horizon, receipts |
| Receipts, `receipts.service.ts` | `claim_receipt` rows | `issueIfReady`, lookups | PostgreSQL |
| Worker runtime, `worker-runtime.ts`, `main.ts`, `worker.ts` | two BullMQ queues in Redis, recovery timer | job processors, `recoverQueueJobs` at start | Redis, PostgreSQL, reconciliation |
| Lifecycle, `lifecycle.ts` | none | `assertTransition` | used by all writers of `claim.status` |
| Continuations, `continuations.service.ts` | one row per link | create, consume, prune | PostgreSQL |
| Verification queries, `verification.service.ts` | none | classify a claim, a transaction, a receipt | PostgreSQL, Stellar |
| Proof validation, `proof.service.ts` | none | check an uploaded artifact against itself | used by `submitProof` |
| Claim wizard, `apps/web/src/components/claim-wizard.tsx` | React state, one pending-sync slot in local storage | seal, review, publish, approve, sync, retry, reset, link | API, Freighter, RPC |
| Submission, `lib/stellar/submit-transaction.ts` | none | check the envelope, send, poll, give up | RPC |
| Receipt store, `lib/receipt-store.ts` | receipts of this browser, their index, the last one of each account (local storage) | persist, look up | wizard, home page |
| Public pages, `app/page.tsx` with its two boards, `app/receipt/`, `app/verify/` | what is shown, requests under way, timers | open, change link or wallet, verify, retry | API, wallet session, receipt store |
| Wallet session, `context/wallet-context.tsx` | address, network, status | connect, restore, disconnect, watch | Freighter |
| Circuits, `circuits/*/src/main.nr` | none | impact relation, commitments | prover |

What is hard in it:

* **Reads that outlive their truth.** Every handler reads rows, awaits the
  database or Stellar, and writes from what it read. Nothing locks a row; the
  transactions run at READ COMMITTED. A request, the worker and the recovery of
  a registration can settle one transaction at the same time.
* **Two stores.** PostgreSQL commits first and Redis gets the job later. A crash
  separates the two; Redis can lose its data; BullMQ keeps a job that used up
  its attempts and ignores another with its id.
* **The ledger answers late.** Twelve attempts may end before the ledger closes.
* **One claim, several transactions.** A wallet may sign again; the registry
  accepts at most one, the others fail and are settled too.
* **The client decides what to report,** gives up, comes back, changes wallets.
* **One event loop, many awaits.** A click in the browser captures what it sees
  and finishes after edits, resets, wallet changes and other clicks. React state
  is written by whoever finishes last.
* **Other people's state.** Freighter changes account, network or permission
  between two questions of one request.

What makes each part correct:

* Contract: no two accepted claims conflict, refused calls leave nothing, flags,
  receipts and events agree, stamps are final.
* Claims and reconciliation: a status is never ahead of the ledger; a settled
  transaction has the outcome the ledger gave it; everything recorded is decided.
* Receipts: one per claim, only for an accepted claim, with exactly its values,
  never changed; a client that keeps asking gets it.
* Queue: no unsettled transaction is forgotten.
* Verification pipeline: a claim that is being verified is carried to an end,
  results stay, and a claim never says more of its evidence than is true.
* Verification queries: what a visitor is shown is true of the ledger, however
  he asks and whenever the answer was put together.
* Continuations: a link opens once, and is refused only when it is spent.
* Wallet session: an address is shown only with Testnet; a disconnect stays one.
* Wizard: what is approved is what is signed, for a row of the same wallet; a
  confirmed stamp is not lost; a closed button comes back. Form: what was
  approved is one claim; cleared evidence stays cleared.
* Receipt store: a stamp that was kept is found again. Pages: what is shown is of
  the wallet, link or identifier that is asked for.
* Circuits: the loss is computed without wrapping, and bounds the threshold.

The hazards, each at its line, are listed in `PROJECT.json`.

## 2. Modules

| Module | Models |
|---|---|
| `ClaimLedger` | abstract: a growing set of accepted claims, no two conflicting |
| `ClaimRegistry` | the contract; implements `ClaimLedger` |
| `ReceiptLedger` | abstract: extends `ClaimLedger` with issued receipts |
| `Lifecycle` | claim statuses and `assertTransition` |
| `Settlement` | recording, reconciliation, receipts, their queue, worker, recovery, faults; implements `ReceiptLedger`, uses `ClaimLedger` for what the chain accepts |
| `Verification` | extends `Settlement`: what the public verification answers in each of its states |
| `ClaimPipeline` | evidence, proofs, verification, their queue, worker and recovery, on the claim row that settlement writes, too |
| `OneShotLink` | abstract: a link that is taken once, before its deadline |
| `Continuations` | the links' table and the requests on it; implements `OneShotLink` |
| `ClaimForm` | the wizard's draft: evidence, seal, approval, link |
| `ClaimWizard` | the wizard's stamp: prepare, approve, submit, sync, retry, the slot |
| `WalletSession` | connecting, restoring, watching and disconnecting a wallet |
| `ReceiptStore` | the receipts a browser keeps in local storage, saved from several tabs |
| `ReceiptPages` | the home page with its boards, the receipt page, the verification page |
| `ImpactCircuit` | the Noir circuits as relations |
| `*Proofs` | theorems of the module they are named after |
| `MC*` | instances for TLC |

How they meet:

* The contract implements `ClaimLedger`, and `Settlement` assumes of the chain
  only that. The abstract module is the interface; no run joins the two.
* `Settlement` and `ClaimPipeline` share `claim.status`. The pipeline lets every
  status that settlement writes appear at any time (`SettlementWrites`), so what
  it shows holds for every behaviour of settlement. In the other direction
  `Settlement` is about claims of the wizard, whose client never uploads a proof.
* `ClaimWizard` has of API and ledger what the wizard can learn of them: a record
  is accepted or refused, a transaction lands or fails, a receipt is there. In
  `Settlement` the wizard is the environment that creates, records and asks.
* `ClaimForm` and `ClaimWizard` are two views of one component. The form keeps
  texts and seals and has one action for a preparation; the wizard keeps the
  preparation and has one action for an edit.
* `WalletSession` produces the address that is `WalletChange` in the other two and
  `AddressChanges` on the home page.
* `ReceiptStore` is written by the wizard and read by the home page, which has of it
  that `readReceipt` finds nothing or a receipt of the account it is asked for
  (`ReadTimer`); `ReceiptPages` has of `Verification` an answer about what was asked.

### ClaimRegistry

A call is one step. `Refusal` names the first failing check in the order of
`lib.rs:66-98`; `Refuse` is a call that returns an error, after which the host
restores the storage; `Accept` writes the record, both flags, the receipt and
the event. `Receipt` is keyed by claim commitment, so an insertion replaces a
receipt with the same key; that it never does is `StampsAreFinal`. `CloseLedger` advances the
sequence number stamped on receipts up to `MaxLedger`.

### Settlement

State and code:

| Variable | Code |
|---|---|
| `outcome` | what Horizon or RPC says of a hash |
| `claimStatus`, `claimPublic` | `claim.status`; wallet, researcher commitment, nullifier and public inputs of the row |
| `txStatus`, `txClaim` | `chain_transaction.status`, `.claimId` |
| `receipts` | `claim_receipt` |
| `queue`, `attempts` | the BullMQ job of a transaction: none, waiting, failed, or the slot running it |
| `run` | program counter and local values of each request and worker slot |
| `recovering`, `todo` | `recoverQueueJobs`: about to read; read and not yet added |
| `redisKept`, `faults` | history: Redis never lost data; number of faults |

Handlers are cut at their awaits:

| Handler | Actions |
|---|---|
| `createClaim` | `CreateClaim` |
| `recordTransaction` | `RecordRead`, `RecordCommit`, `Enqueue` |
| `reconcileSubmitClaimHash` | `ReconcileRead`, then `ReconcileCommit` or `ReconcileConflict`, then `IssueRead`... |
| `issueIfReady` | `NothingToIssue`, or `IssueRead` then `IssueCommit` or `IssueConflict` |
| `reconcile` as a job | `WorkerSkip`, or `WorkerTake`, `WorkerFetch` and then `WorkerPending`, `WorkerReject`, `WorkerConfirm` (+ issue) or `WorkerRefused` |
| `recoverResearcherRegistration` | `RecoverRegistration` |
| `recoverQueueJobs` | `RecoverRead`, `RecoverAdd` |

`Return` and `Throw` are how a handler ends; for a worker slot they complete its
job or fail an attempt of it. Faults, at most `MaxFaults`: `HandlerFails` (an
awaited call fails and the database transaction rolls back), `Restart` (the
process stops and starts), `RedisLoss`.

Abstractions, and why they are safe to make:

* A claim row is named by its nullifier. `schema.prisma:193` makes it unique and
  every wizard claim has one. The idempotency key of `createClaim` returns the
  same row.
* A client reports for a hash the values its transaction carries, and a wizard
  claim has public inputs and no proof artifact. Requests that lie are outside
  the scope of the model; the checks that compare a report with a *row* are in it.
* `SealBinding`: a nullifier determines the claim commitment, because the wizard
  hashes the claim material into it (`lib/claim-flow.ts:355-374`). Without it
  `ReceiptBacked` could fail: `recordTransaction` does not compare claim
  commitments.
* A successful transaction stays successful, so in `reconcileSubmitClaimHash`
  the fetch and the first reads are one step.
* Back-off times, rate limits and BullMQ's limit on stalls are not modelled. The
  last could matter only with more than one restart while one job runs.
* `EXPIRED`, `CANCELLED`, `VERIFIED` and the `UNKNOWN` transaction status are
  never written by the program.
* Proof upload and the verification queue are in `ClaimPipeline`.

### Verification

No variables of its own. `verify` is the answer of a request that reads
everything now; `LateAnswers` adds those of a request whose reads happened
before. Outcomes and receipts only appear, so an earlier read saw what is there
now or nothing. A request that throws, such as for an unknown receipt, has no
answer. Stellar copies a call's source account from its researcher, so
`MISMATCHED` should never appear; the model checks that it does not.

### ClaimPipeline

| Handler | Actions |
|---|---|
| `attachEvidence` | `AttachRead`, `AttachCommit` |
| `submitProof` | `SubmitRead` (with `validateArtifact`), `SubmitCommit` |
| `requestVerification` | `RequestRead`, `RequestCommit`, `RequestEnqueue` |
| `processVerificationJob` | `VerifyNothing`, or `VerifyTake`, `VerifyStart`, `VerifyCommit`, `VerifyDone` |
| verification half of `recoverQueueJobs` | `VRecoverRead`, `VRecoverAdd`, `VRecovered` |
| all of `Settlement` | `SettlementWrites`: any status, and a binding made local |

`proofs`, `public`, `adapters`, `evidence` and `binding` are the artifact rows and
the columns of a claim; `job` the `verification_job` rows; `vqueue` their BullMQ
jobs, which have one attempt; `vrun` the worker; `prun` the requests. Faults:
`RequestFails`, `VerifyFails`, `Restart`, `RedisLoss`. Each write stands for what a
READ COMMITTED transaction writes from an earlier read. The worker takes any
unfinished row of the claim where the code takes the newest.

### Continuations

A request is `CreatePrune`, `CreateRow`, or `ConsumePrune`, `ConsumeRead`,
`ConsumeClaim`, `Reply`; `Tick` passes time and `Lose` ends a request at any await.
`row` is the table by token hash, `deadline` what the creator was told. Tokens are
random and never drawn twice. The refinement maps a won claim to `Take`.

### ClaimForm

`running` is the set of clicks under way, each with what it captured: `seal`,
`review`, `prepare`, `link`; two that captured the same values are one. They finish as
`SealGenerated`, `Approved`, `Prepared`, `LinkCreated` or fail. All other actions are
single steps of the event loop. `publish` needs no approval, since the retry button of
the receipt view may lead to it without one. Two history variables say when a promise
is off: `touched` (text or seal changed under an approval) and `cleared` (evidence was
cleared with no seal under way).

### ClaimWizard

| Code | Actions |
|---|---|
| `publish()`, first part | `approvePreparedTransaction`, `retrySync`, `prepareStamp` |
| its preparation | `Ready`, `ChooseClaim`, `Simulated`, `PrepareFails` |
| signing and submission | `SignApproved`, `SignRefused`, `sendTransaction`, `SendFails`, `SendUnanswered` |
| polling | `PollFailed`, `PollGivesUp`, `PollSucceeds` |
| `syncBackendTransaction`, `reconcileUntilReceipt` | `RetryReady`, `recordBackendTransaction`, `ReconcileAgain`, `ReceiptFound`, `SyncFails` |
| effects and buttons | `WalletChange`, `Reload`, `Edit`, `generateSeal`, `confirmReview`, `clearPrivateEvidence`, `LoadContinuation`, `Reset`, `loadExample` |
| ledger and API | `Land`, `IssueReceipt` |

`run` holds what each run of `publish()` captured at its click. The effect that
reads the slot runs with every step that changes what it depends on
(`RestoreFor`). Without a wallet the button only connects one (`Enabled`). `slot`, `sent`, `outcome`, `registered`, `recorded` and `issued`
survive a reload; the rest does not. `latest` and `disturbed` are history.

Abstractions: an envelope is its number of signatures, whether it is assembled and
its call; a seal stands for the digests computed from it; the retry delays sum to
62 s and the last attempt begins at 54 s, so the attempts end the loop and never
`maxWaitMs`; the branch of a transaction result without a hash is dead code, as
`submitSignedXdr` throws first.

### WalletSession

`connecting` and `restoring` are the runs of `connect` and `restoreSession`, cut at
their requests to Freighter; a ref keeps each from overlapping itself. `watcher` is
the account watcher with its poll; `strays` are polls that a stopped watcher still
awaits. `Render` is setting address and status together with the two effects that
depend on them. `freighter` changes at any time; the watcher's two questions, for the
account and for the network, are one step. One tab.

### ReceiptStore

`persistReceipt` is four calls of local storage: `PutReceipt`, `ReadIndex`,
`WriteIndex`, `WriteLegacy`; a save stops at any of them (`StopSave`), since a call
may throw or the tab close. `saved`, `index` and `legacy` are the three kinds of
keys, `save` the save under way in each tab. `readReceipts` and `readReceipt`
are operators. The clock never gives two saves one time. `done` and
`raced` are history: the newest stamp that was kept to the last write, and whether
an index changed between a tab's read and its write.

### ReceiptPages

One page is mounted; `page` is its state, `address` the wallet's.

| Code | Actions |
|---|---|
| the list of the home page, `on-chain-activity.tsx` | `OpenHome`, `ListAnswered`, `ListFails` |
| the board of the wallet, `stellar-activity.tsx` | `AddressChanges`, `ReadTimer`, `ClearTimer`, `LoadingTimer`, `ActivityAnswered` |
| `receipt/[transactionHash]/page.tsx` | `OpenReceipt`, `HashChanges`, `ReceiptAnswers`, `AbortedAnswers` |
| `verify/page.tsx` | `OpenVerify`, `LinkChanges`, `EditQuery`, `verify`, `Retry`, `VerifyAnswers`, `VerifyFails` |

Effects are cleaned up and restarted with the step that changes what they depend
on. Requests answer in any order, cancelled ones too. `overlapped` is history: a
changed link sent a verification while another was under way, which the button and
the retry never do.

### ImpactCircuit

An amount is a word below `W`; the sum of two is taken modulo `W * W`, as the
circuit casts to the wider word. `proves(x, c, i)` is the main function: the public
outputs `x` follow from the private claim `c` and impact `i`. Hashes are their
preimages, which is the assumption that they do not collide.

## 3. Runs

| Run | Question | Result |
|---|---|---|
| `MCClaimRegistry.cfg` | the contract's invariants, finality, `ImplementsClaimLedger` | holds, 446 states |
| `MCSettlement.cfg` | safety of settlement and verification, `ImplementsReceiptLedger` | holds, 1.09 million states |
| `SettlementLiveness.cfg` | `RecordedIsDecided`, `ReceiptInTheEnd` | holds, 109 thousand states |
| `MCClaimPipeline.cfg` | safety and liveness of the verification pipeline | holds, 763 thousand states |
| `MCContinuations.cfg` | links, kept receipts and public pages | holds, 31.6 thousand states |
| `MCClaimForm.cfg` | the form | holds, 1.16 million states |
| `MCClaimWizard.cfg` | safety of the wizard | holds, 1.55 million states |
| `MCWalletSession.cfg` | safety of the session, `FollowsAccount` | holds, 98.6 thousand states |
| `SettlementTerminalReceipt.cfg` | is `RECEIPT_ISSUED` terminal? | no |
| `SettlementFailedJob.cfg` | does recovery requeue all non-terminal work? | no |
| `SettlementRedisLoss.cfg` | is work recovered when Redis restarts empty? | no |
| `WizardResume.cfg` | can a pending receipt sync be resumed after a reload? | no |

Properties, in words:

* `FlagsMatchReceipts`, `ReceiptsNeverConflict`, `BoundByAcceptedClaim`,
  `StampsAreFinal`: see the contract above.
* `SettledStatusTrue`: CONFIRMED only if the ledger says success, FAILED only if
  it says failure, whichever of three writers settled the row.
* `ReceiptBacked`: a receipt shows the values of a successful transaction,
  although it is copied from a row drafted before that transaction existed.
* `ClaimStatusTrue`: a claim's status has a fact behind it. A status may
  regress, see the first finding, but never runs ahead.
* `UnfinishedWorkIsCarried`: while Redis keeps its data an unsettled transaction
  has a job, or the request or the recovery that is about to add one.
* `ImplementsReceiptLedger`: seen from outside there are only accepted claims and
  receipts, one per claim, never changed.
* `RecordedIsDecided`: a recorded transaction is settled, or its job is given up.
* `ReceiptInTheEnd`: a patient client gets the receipt of its successful
  transaction unless the claim row was drafted with other values.
* `VerdictsTrue`: every answer of the public verification is true of the ledger,
  however late what it read, and so is the public list.
* `AllIdentifiersAgree`: a receipt verifies by receipt id, claim id and hash, and
  by all of them as the same receipt.
* `VerifyingIsCarried`, `VerificationEnds`: a claim in `VERIFYING` has a job, or
  someone about to add one, and leaves that status, unless its only attempt
  failed or Redis lost its data. Both exceptions are real: nothing retries them
  before the next start of the process.
* `SucceededIsFinal`: a verification that succeeded keeps its digests, although
  jobs may work on rows other than their own and updates are unguarded.
* `BindingNeverOverclaims`, `DraftedCommitmentKept`: evidence binding and
  researcher commitment stay true under concurrent uploads.
* `RefusedOnlyWhenSpent`, `ImplementsOneShotLink`: one browser gets the seal, and
  nobody is refused a link that is still good.
* `ReviewShowsPrepared`: what the screen asks to approve is what Freighter gets.
* `ClaimOfItsWallet`: rows are reused by commitment only, and still a stamp is
  always for a row of its own wallet.
* `DisabledIsCarried`: a stage that says something is under way has a handler; and
  unless something met a running handler, a closed or missing stamp button means a
  running handler, an issued receipt, or `ApprovalDropped`, the dead end below.
* `LatestConfirmedKept`, `RetryOffered`: the last confirmed hash stays in the slot
  until its receipt is shown, and the retry is offered whenever the wizard rests.
  Both are limited to runs in which nothing met a running handler (`disturbed`):
  the slot has one place, and a second run may overwrite or clear it.
* `KeptStampIsFound`: a stamp kept to the last write is found again, as a confirmed
  one of its account; unless two tabs raced on the index, nothing older hides it.
  After a race an older one may: the index has no lock.
* `BoardIsOfWallet`, `ReceiptIsOfLink`: data of another wallet or link stays on a
  page only until the timer or request that replaces it is done.
* `VerdictIsOfLastAsked`: the verdict is about the identifier asked for last and the
  button closed just while a request is under way. After an overlap only that the
  button does not stay closed for good: then the answer that comes last is shown.
* `StateIsTrue`, `ApprovedTogether`, `ClearedStaysClear`: see the form above.
* `AddressOnTestnet`, `ConnectingIsCarried`, `DisconnectHolds`, `FollowsAccount`:
  see the session above. The last two exclude what the code does not promise: a
  request under way at the disconnect brings the address back, and a request that
  ends in a session already connected may leave an older account
  (`overtaken`), since the watcher reports only what differs from its last report.

Bounds. *Contract:* two researchers, two researcher commitments and three values
of the other identifiers, so that a third call can conflict with two accepted
ones in different ways; three ledgers, so that a later call has a different
stamp. *Settlement:* two hashes of one claim (one success and one failure, or
two failures; the registry never accepts both), two concurrent requests and one
worker slot, so that three handlers overlap on one row; two attempts, so that a
job can be retried and can be given up; one fault at any step; one draft with
the right values and one with another researcher commitment. Hashes, requests
and slots are interchangeable, hence the symmetry. More of each is covered by
the proofs, which have no bounds. The liveness run has one request and no
symmetry. A quiescent state is no error, so deadlock is not checked in the
settlement runs.

*Pipeline:* one claim, drafted with a commitment; two artifacts that fit, one of
another researcher, one that contradicts itself; two concurrent requests, two
verifications and one fault. Claims do not interact. With two requests a stale
read meets a commit; with two job rows a job meets a row not its own. Requests may
stop, so deadlock is not checked. *Continuations:* two links and four requests, so
that two race for one link while two others prune; a lifetime of two in a time of
three, so that links expire before, between and after the steps. Requests end, so
deadlock is not checked. *Receipts and pages*, in the same run: two accounts, hashes
and tabs and two saves, so that two tabs race on one index and one of them stops;
two identifiers and wallets and two requests for an identifier (`MaxFlights`), so
that an answer is late. The three modules share no state: each moves while the
others rest as they started, which is every behaviour of each and no product of
them. *Form:* two texts, one private evidence beside the blank
one, two seals, two clicks under way: a late one meets any newer state. A reload is
a return to `Init`. *Wizard:* two wallets, two handlers, two seals, two
transactions, two attempts, one fault, and one reload or change of a connected wallet;
reconnecting is free. So a stamp may be followed by a reload and a reconnection, and a
second stamp may overtake a first, under another wallet. Wallets and
handlers are interchangeable. Nobody has to press a button, so deadlock is not
checked. *Session:* two accounts, one late poll. *Circuit:* words of two bits, every
input, in assumptions of `MCClaimPipeline`.

Fairness. An awaited call returns or fails, so a handler that began takes its
next step (weak fairness per handler). BullMQ hands waiting jobs to free slots in
order; other jobs come in between, so a waiting job is taken under *strong*
fairness per hash. Recovery that began goes on (weak). Nothing is assumed of
clients, the ledger or faults. `ReceiptInTheEnd` additionally assumes a patient
client (`PatientSpec`): the wizard's retry loop (`claim-wizard.tsx:485-545`) and
its pending-sync slot ask for the same hash again. This is an assumption on the
environment: the loop is finite, and a person has to reopen the page after it.
In the pipeline a request that committed reaches its queue, the worker and the
recovery go on (weak), and BullMQ hands out waiting jobs (strong, as above). In the
session the watcher's timer fires (weak) and its polls are answered now and then
(strong: single polls may fail). `WizardResume.cfg` assumes that awaited calls are
answered, that ledger and API work, and that the user keeps pressing and never throws
the draft away: `ResumeSpec` takes resets and clears out of `Next` (`Keeping`).

### Findings

1. **`RECEIPT_ISSUED` is overwritten.** Two reconciliations of one hash: the
   second reads the claim as `SUBMITTED` or `CONFIRMED`, the first issues the
   receipt, the second writes `CONFIRMED` (`transactions.service.ts:177`). The
   receipt stays, the claim's status no longer shows it, and `issueIfReady`
   returns the receipt without repair. `recordTransaction` and the worker have
   the same pattern (`claims.service.ts:486`, `transactions.service.ts:437`).
2. **A given-up job is never requeued.** `removeOnFail: false`
   (`worker-runtime.ts:73`) keeps it under the id recovery uses, so the add of
   recovery is ignored. A client can still reconcile the hash.
3. **Redis restarting alone is not recovered from.** Recovery runs at the start
   of the process until it first succeeds (`worker-runtime.ts:208-233`).
4. **A restored receipt sync cannot be resumed.** A wallet change or a reload drops
   the private seal. The slot brings back the hash and the retry button, and leaves
   no other; but `publish()` first asks for a seal (`claim-wizard.tsx:1820`) and
   returns. TLC's trace: connect, stamp, a sync that fails, reload, reconnect, and then
   a retry that starts nothing. The message does ask for a seal; only a new one over
   the emptied draft, made in an earlier step of the form, gets the retry going.

Two smaller observations are among the hazards without a run. When the prepared action
is dropped while the stage still offers an approval (an edit after the wallet refused,
or evidence that is cleared under review, sealed and approved again), the stamp button
stays disabled until a reset, a reload or another wallet, although it says to prepare
again. And a verification page that starts a second request shows whichever answer
comes last.

Some hazards are what the code does: a disconnect that a late answer undoes, text or
seal changed under an approval, evidence cleared under a running seal, an overlapped
verification, an overlapped sync. The property next to each excludes exactly that with
a history variable (`left`, `touched`, `cleared`, `overlapped`, `disturbed`,
`overtaken`) and says that nothing else breaks the promise; the notes in
`PROJECT.json` say so, one by one.

## 4. Proofs

All theorems hold for every value of the constants that satisfies the named
assumptions, which TLC evaluates in the runs: `RegistryAssumption` (identifiers are
not zero, `None` is not a commitment), `SettlementAssumption` (shapes; requests and
worker slots are distinct; at least one attempt), `SealBinding`,
`ContinuationAssumption`, `FormAssumption`, `WizardAssumption`, `NoneAssumption`,
`WalletAssumption`, `StoreAssumption`, `PageAssumption` (bounds are numbers, `None`
and `Blank` are no value of the kind they are used for) and `WordAssumption` (at least two words). The number of requests, slots, handlers, transactions, seals,
claims, links, accounts, attempts and faults is arbitrary.

| Module | Theorems | Inductive invariant |
|---|---|---|
| `ClaimRegistryProofs` | `RegistrySafe`, `RegistryTypeCorrect`, `FlagsCorrect`, `BindingCorrect`, `RegistryStampsAreFinal`, `RegistryImplementsClaimLedger` | `Inv` |
| `SettlementProofs` | see below | `IndInv`, `CarryInv`, `StoreInv` |
| `ClaimPipelineProofs` | `PipelineTypes`, `VerifyingIsCarriedHolds`, `BindingNeverOverclaimsHolds`, `DraftedCommitmentKeptHolds`, `SucceededIsFinalHolds` | `PipelineInv` |
| `ContinuationsProofs` | `RefusalsJustified`, `LinkTakenOnce` | `LinkInv` |
| `ClaimFormProofs` | `FormStateTrue`, `OneApprovedClaim`, `EvidenceGone` | `FormInv` |
| `ClaimWizardProofs` | `ReviewCorrect`, `WaitingCorrect`, `StampOfItsWallet`, `ConfirmedKept`, `RetryIsOffered` | `WizardInv`, `SlotInv` |
| `WalletSessionProofs` | `ShownOnTestnet`, `ConnectingEnds`, `DisconnectPersists` | `SessionInv` |
| `ReceiptProofs` | `StoreTypesHold`, `KeptStampIsFoundHolds`; `PageTypesHold`, `BoardIsOfWalletHolds`, `ReceiptIsOfLinkHolds`, `VerdictIsOfLastAskedHolds` | `StoreInv`; `PageInv` |
| `ClaimPipelineProofs`, of `ImpactCircuit` | `ImpactExact`, `LossBounded` | none: no behaviour |

`ClaimRegistryProofs`: the invariant is inductive once the flags are known to match
the receipts: then the check of a flag is a check of all receipts.

`SettlementProofs` proves every safety property the settlement run checks, those of
`Verification` included:

| Theorem | States |
|---|---|
| `TypeCorrect` | `Spec => []TypeOK` |
| `SettledCorrect` | `Spec => []SettledStatusTrue` |
| `ReceiptsCorrect` | `Spec => []ReceiptBacked` |
| `StatusCorrect` | `Spec => []ClaimStatusTrue` |
| `NothingForgotten` | `Spec => []UnfinishedWorkIsCarried` |
| `SettlementImplementsReceiptLedger` | `Spec => ImplementsReceiptLedger` |
| `VerificationTrue` | `Spec => []VerdictsTrue` |
| `AllIdentifiersAgreeHolds` | `Spec => []AllIdentifiersAgree` |

None of these invariants is inductive: what a handler writes depends on what it
read earlier. The inductive invariant `IndInv` adds

* `HandlersSound`: what a handler holds is *still* sound although others wrote
  meanwhile. It works because it only speaks of things that are never undone
  (`Lasting`: an outcome, the values of a row, a receipt), and never of the
  status a handler saw;
* `RowsAgree`: a row has the nullifier it is named by, and a transaction row
  refers to a claim row with the transaction's values. `SealBinding` is used
  here, where the code does not compare claim commitments;
* `AttemptsLeft`: a job not given up has an attempt left.

`Lasting`, `Writers` and `Movers` say once what a step may change; the proof of
each conjunct then looks only at the actions that write what it mentions.

`NothingForgotten` needs two more facts while Redis keeps its data, collected in
`CarryInv`: a busy slot holds the job of its transaction and nobody else does
(`SlotsHoldJobs`), and a slot that issues a receipt has seen its transaction
settled, which nobody can undo while it holds the job (`IssuingIsSettled`). So
when a job is completed its transaction is settled.

The refinement maps `accepted` to the calls of successful hashes and `issued` to
id and claim of the stored receipts. A success on the ledger is an `Accept`;
`IssueCommit` is an `Issue`, where the unique index on the claim and
`ReceiptBacked` give that the claim has no receipt yet; all else stutters.

`VerdictsTrue` needs that a receipt's claim row still has the values the receipt was
copied from, which is `ReceiptBacked`, and that the row is still there
(`ReceiptHasRow`). `AllIdentifiersAgree` needs that no two receipts share a claim
(`ReceiptsUnique`) or an id. An id is random in the code and in the model the name of
its handler, claim and hash; `IdsNamed` says so of every stored receipt, so that equal
ids are equal claims.

`ClaimPipelineProofs`: a handler writes what it decided from a claim it read earlier,
and the worker works on a row that need not be its queue job's. `PipelineInv` says
what stays true of those values while they are held: a request's claim and proof
still fit (`RequestsSound`), the row being worked on is unfinished and of the queue
job's claim (`WorkerSound`). And it says why a claim that is `VERIFYING` still has an
unfinished row (`VerifyingHasWork`) with a queue job that is not spent (`Carried`):
some job of it is in the queue, or a request or the recovery is about to add one.

`ContinuationsProofs`: the table forgets, since a pruned row no longer says whether
it was consumed or expired. `LinkInv` ties a missing or consumed row to the request
that won it or to its deadline. A claim is then a `Take` of the abstract link.

`ClaimFormProofs`: what the form will show is decided while a click is under way,
so `FormInv` holds the clicks under way to what the form has.

`ClaimWizardProofs`: that a stamp is for a row of its wallet follows because a
commitment is the seal of one wallet only: a seal is dropped with its wallet, and a
new one has not been used (`Uses`, `Owned`, `Unused`). For the slot, `SlotInv` says
where a confirmed hash is while its handler is on its way, and that an undisturbed
wizard has one handler. It also says that the retry always has a hash and that a
receipt view without one shows the receipt, from which `WaitingCorrect` follows.

`WalletSessionProofs`: a request is bound by the account it read before its last
await; a disconnect holds because nothing is left that could bring the address back
(`Quiet`).

`ReceiptProofs`, the store: the entry behind a listed hash is never taken away or
made older (`Filed`), a save that has written the index finds its hash there until a
race (`SavesSound`), and every set of entries has a newest one (`HasNewest`), by
which the lookups choose. The pages: the request of the board that is not cancelled
is for the wallet's account (`AskedIsWallet`), so what it shows is, too; without an
overlap at most one verification is under way, for the identifier asked for last,
and neither a verdict nor an error stands beside it (`OneRequest`), so that the
retry, which appears with an error only, cannot overlap it.

`ImpactCircuit`: `WideSum` says that two words never wrap in a double word; then
`ImpactExact` reads the circuit over the integers, and `LossBounded` says what a
published threshold can be. Nothing is claimed of the circuit's nullifier: the one the
registry sees is a digest of the wizard's seal.

Only model-checked: the liveness properties (`RecordedIsDecided`,
`ReceiptInTheEnd`, `VerificationEnds`, `FollowsAccount`), since fairness and ENABLED
are out of the prover's reach. Every safety and action property and every refinement
that a run shows to hold is also a theorem. The four refuted properties are
counterexamples of TLC.

## 5. Not modelled

* The wizard's navigation between its steps and the validation of fields: the rail
  leads to every step at any time, so no action may rely on them. Idempotency keys,
  which only return the same row again.
* Several tabs of the wizard: its pending-sync slot has one writer in `ClaimWizard`.
  The kept receipts have several, in `ReceiptStore`.
* `clearReceipt`, which nothing calls, `storePublicReceipt`, whose entry nothing reads,
  and how receipts and pages are presented.
* `researcher-registration.tsx` and `xlm-payment.tsx`, with the helpers only they
  use. No route mounts them, and the registration page calls contract functions and
  reads error codes that this contract does not have. A model of it would be
  checked against nothing.
* Request parsing and schemas, XDR encoding and decoding, hashing,
  paging through Horizon, rate limits and back-off times,
  programme seeds, configuration, health probes, generated bindings, scripts,
  presentation. They keep no state of interest, or none that a property here is
  about.

What could be added: a composition of wizard and settlement in one instance, where
now each has the other as its environment.
