--------------------------- MODULE ClaimPipeline ---------------------------
(***************************************************************************)
(* The way of a claim through proof and verification: attachEvidence,      *)
(* submitProof and requestVerification (claims.service.ts), the            *)
(* verification queue, processVerificationJob and the verification half of *)
(* recoverQueueJobs (worker-runtime.ts).                                   *)
(*                                                                         *)
(* These handlers decide from a claim they read before their transaction,  *)
(* and write claim.status although a wallet may have signed, recorded and  *)
(* settled a transaction meanwhile.  The handlers of Settlement share the  *)
(* claim row; here they are SettlementWrites, which writes any status they *)
(* write, at any time.                                                     *)
(*                                                                         *)
(* An artifact stands for its digests.  proof.service.ts is                *)
(* validateArtifact.                                                       *)
(***************************************************************************)
EXTENDS Naturals, Sequences, Lifecycle

CONSTANTS
    Nullifiers,  \* name the claim rows, as in Settlement
    Commitments, \* researcher commitments
    Drafted,     \* the commitment a claim was created with, or None
    Artifacts,   \* proof artifacts
    Shape,       \* what an artifact holds and states of itself
    Jobs,        \* rows of verification_job
    Uploaders,   \* concurrent requests
    MaxFaults,   \* bound on faults
    None

(* Lengths are in bytes; a digest that is stated is right or wrong.  The   *)
(* last two public inputs are the commitment and the nullifier.            *)
ArtifactShape ==
    [schema : BOOLEAN, inputLength : Nat, statedInputLength : Nat,
     proofLength : Nat, statedProofLength : Nat,
     proofDigest : {"none", "right", "wrong"}, inputDigest : {"none", "right", "wrong"},
     commitment : Commitments, statedCommitment : Commitments,
     nullifier : Nullifiers, statedNullifier : Nullifiers]

JobRow == [status : {"QUEUED", "RUNNING", "SUCCEEDED"}, claim : Nullifiers, proof : Artifacts]

ASSUME PipelineAssumption ==
    /\ None \notin Nullifiers \cup Artifacts \cup Jobs \cup Commitments
    /\ None \notin JobRow
    /\ Drafted \in [Nullifiers -> Commitments \cup {None}]
    /\ Shape \in [Artifacts -> ArtifactShape]
    /\ MaxFaults \in Nat

VARIABLES
    claimStatus, \* claim.status
    proofs,     \* proof_artifact rows of a claim in order of creation
    public,     \* the artifact of its public inputs and STRUCTURAL result
    adapters,   \* the artifact of its CRYPTOGRAPHIC and SOROBAN results
    evidence,   \* the claim has an evidence commitment
    binding,    \* claim.evidenceBindingStatus
    job,        \* verification_job
    vqueue,     \* the BullMQ job of a verification_job row
    vrun,       \* the verification worker (concurrency: 1)
    prun,       \* requests
    vrecovery,  \* verification part of recoverQueueJobs: none, read or add
    vtodo,      \* rows it has yet to add
    redisKept,  \* Redis has not lost its data
    faults      \* faults so far

artifacts == <<proofs, public, adapters, evidence, binding>>
worker == <<vqueue, vrun>>
recovery == <<vrecovery, vtodo>>
environment == <<redisKept, faults>>
vars == <<claimStatus, artifacts, job, worker, prun, recovery, environment>>

Unfinished == {"QUEUED", "RUNNING"}

Binding == {"LOCAL_ONLY", "ATTACHED_TO_CLAIM", "CIRCUIT_UNSUPPORTED"}

Upload == [pc : {"idle", "attach", "proof", "request", "enqueue"},
           claim : Nullifiers \cup {None},
           binding : Binding \cup {None},   \* decided from the claim it read
           item : Artifacts \cup Jobs \cup {None}]

NoUpload == [pc |-> "idle", claim |-> None, binding |-> None, item |-> None]

NoVerification == [qjob |-> None, row |-> None, proof |-> None]

(* Shape of the tables, of the queue and of the handlers' local values. *)
TypeOK ==
    /\ claimStatus \in [Nullifiers -> ClaimStatus]
    /\ proofs \in [Nullifiers -> Seq(Artifacts)]
    /\ public \in [Nullifiers -> Artifacts \cup {None}]
    /\ adapters \in [Nullifiers -> Artifacts \cup {None}]
    /\ binding \in [Nullifiers -> Binding]
    /\ evidence \in [Nullifiers -> BOOLEAN]
    /\ job \in [Jobs -> JobRow \cup {None}]
    /\ vqueue \in [Jobs -> {"none", "waiting", "active", "completed", "failed"}]
    /\ \A q \in Jobs : vqueue[q] = "active" => vrun.qjob = q
    /\ vrun \in [qjob : Jobs \cup {None}, row : Jobs \cup {None}, proof : Artifacts \cup {None}]
    /\ prun \in [Uploaders -> Upload]
    /\ vrecovery \in {"none", "read", "add"} /\ vtodo \subseteq Jobs
    /\ redisKept \in BOOLEAN /\ faults \in 0 .. MaxFaults

(* Claims as createClaim makes them, with or without evidence. *)
Init ==
    /\ claimStatus = [n \in Nullifiers |-> "AWAITING_PROOF"]
    /\ proofs = [n \in Nullifiers |-> <<>>]
    /\ public = [n \in Nullifiers |-> None]
    /\ adapters = [n \in Nullifiers |-> None]
    /\ evidence \in [Nullifiers -> BOOLEAN]
    /\ binding = [n \in Nullifiers |-> IF evidence[n] THEN "ATTACHED_TO_CLAIM" ELSE "LOCAL_ONLY"]
    /\ job = [j \in Jobs |-> None]
    /\ vqueue = [j \in Jobs |-> "none"]
    /\ vrun = NoVerification
    /\ prun = [u \in Uploaders |-> NoUpload]
    /\ vrecovery = "none"
    /\ vtodo = {}
    /\ redisKept = TRUE
    /\ faults = 0

Latest(n) == proofs[n][Len(proofs[n])]

Begin(u, pc, n, bind, item) ==
    /\ prun[u].pc = "idle"
    /\ prun' = [prun EXCEPT ![u] = [pc |-> pc, claim |-> n, binding |-> bind, item |-> item]]

End(u) == prun' = [prun EXCEPT ![u] = NoUpload]

-----------------------------------------------------------------------------
(* attachEvidence *)

BindingAfterAttach(status) ==
    IF status = "PROOF_RECEIVED" THEN "CIRCUIT_UNSUPPORTED" ELSE "ATTACHED_TO_CLAIM"

AttachRead(u, n) ==
    /\ claimStatus[n] \in {"AWAITING_PROOF", "PROOF_RECEIVED"}
    /\ Begin(u, "attach", n, BindingAfterAttach(claimStatus[n]), None)
    /\ UNCHANGED <<claimStatus, artifacts, job, worker, recovery, environment>>

AttachCommit(u) ==
    LET n == prun[u].claim
    IN  /\ prun[u].pc = "attach"
        /\ evidence' = [evidence EXCEPT ![n] = TRUE]
        /\ binding' = [binding EXCEPT ![n] = prun[u].binding]
        /\ End(u)
        /\ UNCHANGED <<claimStatus, proofs, public, adapters, job, worker, recovery, environment>>

-----------------------------------------------------------------------------
(* submitProof.  It needs AWAITING_PROOF: no other status but that may     *)
(* become PROOF_RECEIVED.  What it later writes depends on whether the     *)
(* claim it read had evidence.                                             *)

EXPECTED_PUBLIC_INPUTS == 7

(* The error validateArtifact throws, or "none": checks in its order. *)
validateArtifact(x) ==
    LET a == Shape[x]
    IN  CASE ~a.schema -> "PROOF_ARTIFACT_INVALID"
          [] a.inputLength # 32 * EXPECTED_PUBLIC_INPUTS -> "PROOF_PUBLIC_INPUTS_UNSUPPORTED"
          [] a.statedInputLength # a.inputLength -> "PROOF_PUBLIC_INPUT_LENGTH_MISMATCH"
          [] a.statedProofLength # a.proofLength -> "PROOF_BYTE_LENGTH_MISMATCH"
          [] a.proofDigest = "wrong" -> "PROOF_DIGEST_MISMATCH"
          [] a.inputDigest = "wrong" -> "PUBLIC_INPUT_DIGEST_MISMATCH"
          [] a.statedCommitment # a.commitment -> "RESEARCHER_COMMITMENT_MISMATCH"
          [] a.statedNullifier # a.nullifier -> "NULLIFIER_MISMATCH"
          [] OTHER -> "none"

(* claim.researcherCommitment: drafted, then that of the last artifact. *)
researcherCommitment(n) ==
    IF public[n] = None THEN Drafted[n] ELSE Shape[public[n]].commitment

(* Mutant: the artifact is only checked against itself. *)
ValidArtifact(n, x) == validateArtifact(x) = "none"

Acceptable(n, x) ==
    /\ validateArtifact(x) = "none"
    /\ researcherCommitment(n) \in {None, Shape[x].commitment}

(* Mutant: a proof always binds its evidence. *)
BoundAnyway(hadEvidence) == "CIRCUIT_UNSUPPORTED"

BindingAfterProof(hadEvidence) == IF hadEvidence THEN "CIRCUIT_UNSUPPORTED" ELSE "LOCAL_ONLY"

SubmitRead(u, n, x) ==
    /\ claimStatus[n] = "AWAITING_PROOF"
    /\ Acceptable(n, x)
    /\ Begin(u, "proof", n, BindingAfterProof(evidence[n]), x)
    /\ UNCHANGED <<claimStatus, artifacts, job, worker, recovery, environment>>

(* upsert on (claimId, artifactDigest): the same artifact is one row. *)
WithArtifact(rows, x) ==
    IF \E i \in 1 .. Len(rows) : rows[i] = x THEN rows ELSE Append(rows, x)

SubmitCommit(u) ==
    LET n == prun[u].claim
        x == prun[u].item
    IN  /\ prun[u].pc = "proof"
        /\ proofs' = [proofs EXCEPT ![n] = WithArtifact(@, x)]
        /\ public' = [public EXCEPT ![n] = x]
        /\ binding' = [binding EXCEPT ![n] = prun[u].binding]
        /\ claimStatus' = [claimStatus EXCEPT ![n] = "PROOF_RECEIVED"]
        /\ End(u)
        /\ UNCHANGED <<environment, adapters, evidence, job, worker, recovery>>

-----------------------------------------------------------------------------
(* requestVerification: the claim becomes VERIFYING and a job row is made  *)
(* in one transaction, the queue job follows.                              *)

RequestRead(u, n) ==
    /\ claimStatus[n] # Absent /\ Allowed(claimStatus[n], "VERIFYING")
    /\ proofs[n] # <<>>
    /\ Begin(u, "request", n, None, Latest(n))
    /\ UNCHANGED <<claimStatus, artifacts, job, worker, recovery, environment>>

RequestCommit(u, j) ==
    LET n == prun[u].claim
    IN  /\ prun[u].pc = "request"
        /\ job[j] = None
        /\ job' = [job EXCEPT ![j] = [status |-> "QUEUED", claim |-> n, proof |-> prun[u].item]]
        /\ claimStatus' = [claimStatus EXCEPT ![n] = "VERIFYING"]
        /\ prun' = [prun EXCEPT ![u].pc = "enqueue", ![u].item = j]
        /\ UNCHANGED <<environment, artifacts, worker, recovery>>

(* BullMQ keeps completed and failed jobs of this queue and ignores a      *)
(* second one with the same id.                                            *)
VAdded(j) == [vqueue EXCEPT ![j] = IF @ = "none" THEN "waiting" ELSE @]

RequestEnqueue(u) ==
    /\ prun[u].pc = "enqueue"
    /\ vqueue' = VAdded(prun[u].item)
    /\ End(u)
    /\ UNCHANGED <<claimStatus, artifacts, job, vrun, recovery, environment>>

-----------------------------------------------------------------------------
(* processVerificationJob.  It works on an unfinished row of the claim, not *)
(* necessarily on the row its queue job was added for: the latest, where   *)
(* the model takes any.  Its branch for a claim without a proof cannot be  *)
(* reached, since a row is made for a claim with one.                      *)

(* Mutant: any row of the claim is worked on. *)
AnyRows(n) == {j \in Jobs : job[j] # None /\ job[j].claim = n}

UnfinishedRows(n) == {j \in Jobs : job[j] # None /\ job[j].claim = n /\ job[j].status \in Unfinished}

(* Mutant: a second worker starts while one is busy. *)
AnyTime(q) == vqueue[q] \in {"waiting", "active"}

MayTake(q) == vqueue[q] = "waiting" /\ vrun = NoVerification

VerifyNothing(q) ==
    /\ MayTake(q)
    /\ UnfinishedRows(job[q].claim) = {}
    /\ vqueue' = [vqueue EXCEPT ![q] = "completed"]
    /\ UNCHANGED <<claimStatus, artifacts, job, vrun, prun, recovery, environment>>

(* findFirst; the row it found may be stale when it is marked RUNNING. *)
VerifyTake(q) ==
    /\ MayTake(q)
    /\ \E r \in UnfinishedRows(job[q].claim) :
          vrun' = [qjob |-> q, row |-> r, proof |-> None]
    /\ vqueue' = [vqueue EXCEPT ![q] = "active"]
    /\ UNCHANGED <<claimStatus, artifacts, job, prun, recovery, environment>>

(* The update to RUNNING and the read of the latest proof that follows. *)
VerifyStart ==
    LET r == vrun.row
    IN  /\ r # None /\ vrun.proof = None
        /\ job' = [job EXCEPT ![r].status = "RUNNING"]
        /\ vrun' = [vrun EXCEPT !.proof = Latest(job[r].claim)]
        /\ UNCHANGED <<claimStatus, artifacts, vqueue, prun, recovery, environment>>

VerifyCommit ==
    LET r == vrun.row
        n == job[r].claim
    IN  /\ vrun.proof # None
        /\ adapters' = [adapters EXCEPT ![n] = vrun.proof]
        /\ job' = [job EXCEPT ![r].status = "SUCCEEDED", ![r].proof = vrun.proof]
        /\ claimStatus' = [claimStatus EXCEPT ![n] = "AWAITING_WALLET_SIGNATURE"]
        /\ vrun' = [NoVerification EXCEPT !.qjob = vrun.qjob]
        /\ UNCHANGED <<environment, vqueue, proofs, public, evidence, binding, prun, recovery>>

(* BullMQ completes the job after the handler has returned. *)
VerifyDone ==
    /\ vrun.qjob # None /\ vrun.row = None
    /\ vqueue' = [vqueue EXCEPT ![vrun.qjob] = IF @ = "active" THEN "completed" ELSE @]
    /\ vrun' = NoVerification
    /\ UNCHANGED <<claimStatus, artifacts, job, prun, recovery, environment>>

-----------------------------------------------------------------------------
(* recoverQueueJobs: verification jobs first, then Settlement's.           *)

(* Mutant: only rows of claims that do not say VERIFYING yet. *)
NotYetVerifying(j) == job[j].status \in Unfinished /\ claimStatus[job[j].claim] = "PROOF_RECEIVED"

RecoverableRow(j) ==
    /\ job[j].status \in Unfinished
    /\ claimStatus[job[j].claim] \in {"PROOF_RECEIVED", "VERIFYING"}

VRecoverRead ==
    /\ vrecovery = "read"
    /\ vtodo' = {j \in Jobs : job[j] # None /\ RecoverableRow(j)}
    /\ vrecovery' = "add"
    /\ UNCHANGED <<claimStatus, artifacts, job, worker, prun, environment>>

VRecoverAdd(j) ==
    /\ j \in vtodo
    /\ vqueue' = VAdded(j)
    /\ vtodo' = vtodo \ {j}
    /\ UNCHANGED <<claimStatus, artifacts, job, vrun, prun, vrecovery, environment>>

(* It goes on with the transactions, see Settlement. *)
VRecovered ==
    /\ vrecovery = "add" /\ vtodo = {}
    /\ vrecovery' = "none"
    /\ UNCHANGED <<claimStatus, artifacts, job, worker, prun, vtodo, environment>>

-----------------------------------------------------------------------------
(* Faults: a call to the database fails, which ends the only attempt of a  *)
(* verification job; the process restarts; Redis loses its data.           *)

Fault == faults < MaxFaults /\ faults' = faults + 1

RequestFails(u) ==
    /\ Fault
    /\ prun[u].pc \notin {"idle", "enqueue"}
    /\ End(u)
    /\ UNCHANGED <<claimStatus, recovery, redisKept, artifacts, job, worker>>

VerifyFails ==
    /\ Fault
    /\ vrun.row # None
    /\ vqueue' = [vqueue EXCEPT ![vrun.qjob] = IF @ = "active" THEN "failed" ELSE @]
    /\ vrun' = NoVerification
    /\ UNCHANGED <<claimStatus, recovery, redisKept, artifacts, job, prun>>

Restart ==
    /\ Fault
    /\ prun' = [u \in Uploaders |-> NoUpload]
    /\ vqueue' = [j \in Jobs |-> IF vqueue[j] = "active" THEN "waiting" ELSE vqueue[j]]
    /\ vrun' = NoVerification
    /\ vrecovery' = "read"
    /\ vtodo' = {}
    /\ UNCHANGED <<claimStatus, artifacts, job, redisKept>>

RedisLoss ==
    /\ Fault
    /\ redisKept' = FALSE
    /\ vqueue' = [j \in Jobs |-> "none"]
    /\ UNCHANGED <<claimStatus, artifacts, job, vrun, prun, recovery>>

-----------------------------------------------------------------------------

UploaderStep(u) ==
    \/ \E n \in Nullifiers : AttachRead(u, n) \/ RequestRead(u, n)
    \/ \E n \in Nullifiers, x \in Artifacts : SubmitRead(u, n, x)
    \/ AttachCommit(u) \/ SubmitCommit(u)
    \/ \E j \in Jobs : RequestCommit(u, j)
    \/ RequestEnqueue(u)

(* recordTransaction, reconcile, issueIfReady, and reconcileSubmitClaimHash, *)
(* which also makes the evidence local.  It found the claim by the nullifier *)
(* it writes and refuses another commitment than the claim's: what it writes *)
(* of these is what is there.  A claim with neither is not in the model.     *)
SettlementWrites(n) ==
    /\ \E to \in {"SUBMITTED", "CONFIRMED", "TRANSACTION_FAILED", "RECEIPT_ISSUED"} :
        /\ claimStatus' = [claimStatus EXCEPT ![n] = to]
        /\ binding' \in {binding} \cup
               IF to \in {"CONFIRMED", "RECEIPT_ISSUED"}
               THEN {[binding EXCEPT ![n] = "LOCAL_ONLY"]} ELSE {}
    /\ UNCHANGED <<proofs, public, adapters, evidence, job, worker, prun, recovery,
                   environment>>

Next ==
    \/ \E u \in Uploaders : UploaderStep(u) \/ RequestFails(u)
    \/ \E q \in Jobs : VerifyNothing(q) \/ VerifyTake(q) \/ VRecoverAdd(q)
    \/ VerifyStart \/ VerifyCommit \/ VerifyDone \/ VerifyFails
    \/ VRecoverRead \/ VRecovered
    \/ \E n \in Nullifiers : SettlementWrites(n)
    \/ Restart
    \/ RedisLoss

Spec == Init /\ [][Next]_vars

-----------------------------------------------------------------------------

(***************************************************************************)
(* While Redis keeps its data, a claim that is VERIFYING is not stuck for  *)
(* want of a job: one of its rows has a queue job that waits or runs, or   *)
(* used its only attempt, or is about to be added by the request that made *)
(* the row or by the recovery at startup (claims.service.ts:354-376).      *)
(***************************************************************************)
VerifyingIsCarried ==
    redisKept =>
        \A n \in Nullifiers :
            claimStatus[n] = "VERIFYING" =>
                \/ vrecovery = "read"
                \/ \E j \in Jobs :
                      /\ job[j] # None /\ job[j].claim = n
                      /\ \/ vqueue[j] \in {"waiting", "active", "failed"}
                         \/ j \in vtodo
                         \/ \E u \in Uploaders : prun[u].pc = "enqueue" /\ prun[u].item = j

(***************************************************************************)
(* A claim, and so a receipt, never says more of its evidence than is      *)
(* true: without an evidence commitment it is LOCAL_ONLY, whichever of     *)
(* attachEvidence and submitProof read the claim first and wrote it last.  *)
(***************************************************************************)
BindingNeverOverclaims ==
    \A n \in Nullifiers : ~evidence[n] => binding[n] = "LOCAL_ONLY"

(***************************************************************************)
(* The researcher commitment a claim was drafted with is never replaced:   *)
(* whatever is uploaded, twice or at once, the public values of the claim  *)
(* carry that commitment (claims.service.ts:264-269).                      *)
(***************************************************************************)
DraftedCommitmentKept ==
    \A n \in Nullifiers :
        Drafted[n] # None => researcherCommitment(n) = Drafted[n]

(***************************************************************************)
(* A verification that SUCCEEDED stays so and keeps its digests: the       *)
(* unguarded updates of processVerificationJob never reopen it, although   *)
(* jobs, restarts and recovery process rows other than their own.          *)
(***************************************************************************)
SucceededIsFinal ==
    [][\A j \in Jobs : job[j] # None /\ job[j].status = "SUCCEEDED" => job'[j] = job[j]]_vars

(***************************************************************************)
(* A request that committed goes on to its queue; the worker goes on with  *)
(* what it took; the recovery that started goes on; BullMQ hands waiting   *)
(* jobs to the worker in order.  Nothing is assumed of clients or faults.  *)
(***************************************************************************)
Fairness ==
    /\ \A u \in Uploaders : WF_vars(RequestEnqueue(u))
    /\ \A q \in Jobs : SF_vars(VerifyNothing(q) \/ VerifyTake(q)) /\ WF_vars(VRecoverAdd(q))
    /\ WF_vars(VerifyStart \/ VerifyCommit \/ VerifyDone)
    /\ WF_vars(VRecoverRead) /\ WF_vars(VRecovered)

FairSpec == Spec /\ Fairness

(***************************************************************************)
(* A verification ends: while Redis keeps its data, a claim does not stay  *)
(* VERIFYING unless its queue job failed in its only attempt.              *)
(***************************************************************************)
VerificationEnds ==
    \A n \in Nullifiers :
        claimStatus[n] = "VERIFYING" ~>
            \/ claimStatus[n] # "VERIFYING"
            \/ ~redisKept
            \/ \E j \in Jobs : vqueue[j] = "failed"

=============================================================================
