------------------------- MODULE ClaimPipelineProofs -------------------------
(***************************************************************************)
(* Theorems about ClaimPipeline, for every set of claims, artifacts, jobs  *)
(* and requests and every number of faults.                                *)
(*                                                                         *)
(* A handler writes what it decided from a claim it read earlier, and the  *)
(* worker works on a row that is not its queue job's.  PipelineInv says    *)
(* what stays true of those values while they are held (RequestsSound,     *)
(* WorkerSound) and why a claim that is VERIFYING still has an unfinished  *)
(* row (VerifyingHasWork) whose queue job is not spent (Carried).          *)
(*                                                                         *)
(* Last, what the circuit behind the artifacts admits (ImpactCircuit), for *)
(* every width of a word.                                                  *)
(***************************************************************************)
EXTENDS ClaimPipeline, ImpactCircuit, TLAPS

(* Queue jobs and rows to recover are rows, of claims that have a proof.   *)
RowsKnown ==
    /\ \A j \in Jobs : job[j] # None => proofs[job[j].claim] # <<>>
    /\ \A j \in Jobs : vqueue[j] # "none" => job[j] # None
    /\ \A j \in vtodo : job[j] # None

(* What a request decided before its transaction still holds.              *)
Decided(u) ==
    /\ prun[u].pc # "idle" => prun[u].claim \in Nullifiers
    /\ prun[u].pc = "attach" => prun[u].binding \in Binding
    /\ prun[u].pc = "proof" =>
          /\ prun[u].item \in Artifacts
          /\ prun[u].binding \in Binding
          /\ prun[u].binding # "LOCAL_ONLY" => evidence[prun[u].claim]
          /\ Drafted[prun[u].claim] # None =>
                Shape[prun[u].item].commitment = Drafted[prun[u].claim]
    /\ prun[u].pc = "request" =>
          prun[u].item \in Artifacts /\ proofs[prun[u].claim] # <<>>
    /\ prun[u].pc = "enqueue" =>
          /\ prun[u].item \in Jobs
          /\ job[prun[u].item] # None /\ job[prun[u].item].claim = prun[u].claim

RequestsSound == \A u \in Uploaders : Decided(u)

(* The row being worked on is unfinished and of the queue job's claim.     *)
WorkerSound ==
    /\ vrun.qjob = None => vrun = NoVerification
    /\ vrun.qjob # None => job[vrun.qjob] # None
    /\ vrun.row # None =>
          /\ vrun.qjob # None
          /\ job[vrun.row] # None /\ job[vrun.row].status \in Unfinished
          /\ job[vrun.row].claim = job[vrun.qjob].claim
    /\ vrun.proof # None => vrun.row # None

VerifyingHasWork ==
    \A n \in Nullifiers : claimStatus[n] = "VERIFYING" => UnfinishedRows(n) # {}

(* The queue job of row j is not spent, and is added if it is missing.     *)
Live(j) ==
    /\ vqueue[j] # "completed"
    /\ ~(vrun.qjob = j /\ vrun.row = None)
    /\ \/ vrecovery = "read"
       \/ vqueue[j] # "none"
       \/ j \in vtodo
       \/ \E u \in Uploaders : prun[u].pc = "enqueue" /\ prun[u].item = j

Carried ==
    redisKept => \A n \in Nullifiers :
        claimStatus[n] = "VERIFYING" => \E j \in UnfinishedRows(n) : Live(j)

PipelineInv ==
    /\ TypeOK /\ RowsKnown /\ RequestsSound /\ WorkerSound
    /\ VerifyingHasWork /\ Carried
    /\ BindingNeverOverclaims /\ DraftedCommitmentKept

LEMMA PipelineStart == Init => PipelineInv
  <1> SUFFICES ASSUME Init PROVE PipelineInv
    OBVIOUS
  <1> USE PipelineAssumption DEF Init
  <1>1. TypeOK
    BY DEF TypeOK, ClaimStatus, Binding, Upload, NoUpload, NoVerification
  <1>2. RowsKnown /\ RequestsSound /\ WorkerSound
    BY DEF RowsKnown, RequestsSound, Decided, WorkerSound, NoUpload, NoVerification
  <1>3. VerifyingHasWork /\ Carried /\ BindingNeverOverclaims /\ DraftedCommitmentKept
    BY DEF VerifyingHasWork, Carried, BindingNeverOverclaims, DraftedCommitmentKept,
           researcherCommitment
  <1>4. QED
    BY <1>1, <1>2, <1>3 DEF PipelineInv

-----------------------------------------------------------------------------
(* What each table is written by.                                          *)

LEMMA ArtifactWrites ==
    ASSUME [Next]_vars
    PROVE  /\ \/ UNCHANGED <<evidence, binding>>
              \/ \E u \in Uploaders : AttachCommit(u) \/ SubmitCommit(u)
              \/ \E n \in Nullifiers : SettlementWrites(n)
           /\ \/ UNCHANGED <<proofs, public>>
              \/ \E u \in Uploaders : SubmitCommit(u)
           /\ \/ UNCHANGED adapters
              \/ VerifyCommit
  BY DEF Next, vars, artifacts, worker, recovery, environment, UploaderStep,
         AttachRead, AttachCommit, SubmitRead, SubmitCommit, RequestRead, RequestCommit,
         RequestEnqueue, RequestFails, VerifyNothing, VerifyTake, VerifyStart, VerifyCommit,
         VerifyDone, VerifyFails, VRecoverRead, VRecoverAdd, VRecovered, SettlementWrites,
         Restart, RedisLoss

LEMMA StatusWrites ==
    ASSUME [Next]_vars
    PROVE  \/ UNCHANGED claimStatus
           \/ \E u \in Uploaders : SubmitCommit(u) \/ \E j \in Jobs : RequestCommit(u, j)
           \/ VerifyCommit
           \/ \E n \in Nullifiers : SettlementWrites(n)
  BY DEF Next, vars, artifacts, worker, recovery, environment, UploaderStep,
         AttachRead, AttachCommit, SubmitRead, SubmitCommit, RequestRead, RequestCommit,
         RequestEnqueue, RequestFails, VerifyNothing, VerifyTake, VerifyStart, VerifyCommit,
         VerifyDone, VerifyFails, VRecoverRead, VRecoverAdd, VRecovered, SettlementWrites,
         Restart, RedisLoss

LEMMA JobWrites ==
    ASSUME [Next]_vars
    PROVE  \/ UNCHANGED job
           \/ \E u \in Uploaders, j \in Jobs : RequestCommit(u, j)
           \/ VerifyStart \/ VerifyCommit
  BY DEF Next, vars, artifacts, worker, recovery, environment, UploaderStep,
         AttachRead, AttachCommit, SubmitRead, SubmitCommit, RequestRead, RequestCommit,
         RequestEnqueue, RequestFails, VerifyNothing, VerifyTake, VerifyStart, VerifyCommit,
         VerifyDone, VerifyFails, VRecoverRead, VRecoverAdd, VRecovered, SettlementWrites,
         Restart, RedisLoss

LEMMA QueueWrites ==
    ASSUME [Next]_vars
    PROVE  /\ \/ UNCHANGED vqueue
              \/ \E u \in Uploaders : RequestEnqueue(u)
              \/ \E q \in Jobs : VerifyNothing(q) \/ VerifyTake(q) \/ VRecoverAdd(q)
              \/ VerifyDone \/ VerifyFails \/ Restart \/ RedisLoss
           /\ \/ UNCHANGED vrun
              \/ \E q \in Jobs : VerifyTake(q)
              \/ VerifyStart \/ VerifyCommit \/ VerifyDone \/ VerifyFails \/ Restart
           /\ \/ UNCHANGED recovery
              \/ \E q \in Jobs : VRecoverAdd(q)
              \/ VRecoverRead \/ VRecovered \/ Restart
           /\ \/ UNCHANGED environment
              \/ \E u \in Uploaders : RequestFails(u)
              \/ VerifyFails \/ Restart \/ RedisLoss
  BY DEF Next, vars, artifacts, worker, recovery, environment, UploaderStep,
         AttachRead, AttachCommit, SubmitRead, SubmitCommit, RequestRead, RequestCommit,
         RequestEnqueue, RequestFails, VerifyNothing, VerifyTake, VerifyStart, VerifyCommit,
         VerifyDone, VerifyFails, VRecoverRead, VRecoverAdd, VRecovered, SettlementWrites,
         Restart, RedisLoss

LEMMA RequestWrites ==
    ASSUME [Next]_vars
    PROVE  \/ UNCHANGED prun
           \/ Restart
           \/ \E u \in Uploaders :
                 \/ \E n \in Nullifiers : AttachRead(u, n) \/ RequestRead(u, n)
                 \/ \E n \in Nullifiers, x \in Artifacts : SubmitRead(u, n, x)
                 \/ \E j \in Jobs : RequestCommit(u, j)
                 \/ AttachCommit(u) \/ SubmitCommit(u) \/ RequestEnqueue(u) \/ RequestFails(u)
  BY DEF Next, vars, artifacts, worker, recovery, environment, UploaderStep,
         AttachRead, AttachCommit, SubmitRead, SubmitCommit, RequestRead, RequestCommit,
         RequestEnqueue, RequestFails, VerifyNothing, VerifyTake, VerifyStart, VerifyCommit,
         VerifyDone, VerifyFails, VRecoverRead, VRecoverAdd, VRecovered, SettlementWrites,
         Restart, RedisLoss

-----------------------------------------------------------------------------
(* What the parts of the invariant say of one request, row or worker.      *)

LEMMA RunningRow ==
    ASSUME PipelineInv, vrun.row # None
    PROVE  /\ vrun.row \in Jobs /\ vrun.qjob \in Jobs /\ job[vrun.row] \in JobRow
           /\ job[vrun.row].claim \in Nullifiers
           /\ job[vrun.row].claim = job[vrun.qjob].claim
           /\ job[vrun.row].status \in Unfinished
           /\ proofs[job[vrun.row].claim] # <<>>
  BY DEF PipelineInv, TypeOK, WorkerSound, RowsKnown, JobRow

LEMMA NewRow ==
    ASSUME PipelineInv, NEW u \in Uploaders, NEW j \in Jobs, RequestCommit(u, j)
    PROVE  /\ prun[u].claim \in Nullifiers /\ prun[u].item \in Artifacts
           /\ proofs[prun[u].claim] # <<>>
           /\ job[j] = None
           /\ job' = [job EXCEPT ![j] = [status |-> "QUEUED", claim |-> prun[u].claim,
                                         proof |-> prun[u].item]]
           /\ job'[j] \in JobRow /\ job'[j] # None
           /\ job'[j].claim = prun[u].claim /\ job'[j].status = "QUEUED"
           /\ job' \in [Jobs -> JobRow \cup {None}]
           /\ \A i \in Jobs \ {j} : job'[i] = job[i]
  BY PipelineAssumption DEF PipelineInv, TypeOK, RequestsSound, Decided, RequestCommit, JobRow

LEMMA LatestIsArtifact ==
    ASSUME TypeOK, NEW n \in Nullifiers, proofs[n] # <<>>
    PROVE  Latest(n) \in Artifacts
  BY DEF TypeOK, Latest

LEMMA ArtifactAdded ==
    ASSUME NEW rows \in Seq(Artifacts), NEW x \in Artifacts
    PROVE  WithArtifact(rows, x) \in Seq(Artifacts) /\ WithArtifact(rows, x) # <<>>
  <1>1. CASE \E i \in 1 .. Len(rows) : rows[i] = x
    BY <1>1 DEF WithArtifact
  <1>2. CASE ~\E i \in 1 .. Len(rows) : rows[i] = x
    BY <1>2 DEF WithArtifact
  <1>3. QED
    BY <1>1, <1>2

(* What VerifyStart and VerifyCommit do to the table of jobs.              *)
LEMMA WorkerWrites ==
    ASSUME PipelineInv, VerifyStart \/ VerifyCommit
    PROVE  /\ vrun.row # None
           /\ job' \in [Jobs -> JobRow \cup {None}]
           /\ job'[vrun.row] # None
           /\ job'[vrun.row].claim = job[vrun.row].claim
           /\ \A i \in Jobs \ {vrun.row} : job'[i] = job[i]
           /\ VerifyStart => job'[vrun.row].status = "RUNNING"
  <1>1. vrun.row # None
    BY DEF VerifyStart, VerifyCommit, PipelineInv, WorkerSound
  <1>2. vrun.row \in Jobs /\ job[vrun.row] \in JobRow
    BY <1>1, RunningRow
  <1>3. vrun.proof \in Artifacts \cup {None}
    BY DEF PipelineInv, TypeOK
  <1>4. CASE VerifyStart
    <2> DEFINE new == [job[vrun.row] EXCEPT !.status = "RUNNING"]
    <2>1. new \in JobRow /\ new.claim = job[vrun.row].claim /\ new.status = "RUNNING"
      BY <1>2 DEF JobRow
    <2>2. job' = [job EXCEPT ![vrun.row] = new]
      BY <1>4 DEF VerifyStart
    <2> HIDE DEF new
    <2>3. QED
      BY <1>1, <1>2, <2>1, <2>2, PipelineAssumption DEF PipelineInv, TypeOK
  <1>5. CASE VerifyCommit
    <2> DEFINE new == [job[vrun.row] EXCEPT !.status = "SUCCEEDED", !.proof = vrun.proof]
    <2>1. vrun.proof # None
      BY <1>5 DEF VerifyCommit
    <2>2. new \in JobRow /\ new.claim = job[vrun.row].claim
      BY <1>2, <1>3, <2>1 DEF JobRow
    <2>3. job' = [job EXCEPT ![vrun.row] = new]
      BY <1>5 DEF VerifyCommit
    <2>4. ~VerifyStart
      BY <2>1 DEF VerifyStart
    <2> HIDE DEF new
    <2>5. QED
      BY <1>1, <1>2, <2>2, <2>3, <2>4, PipelineAssumption DEF PipelineInv, TypeOK
  <1>6. QED
    BY <1>4, <1>5

(* Nothing that was decided on is taken back: a claim keeps its evidence   *)
(* and has a proof once it had one; a row stays, and stays of its claim.   *)
LEMMA NothingTakenBack ==
    ASSUME PipelineInv, [Next]_vars
    PROVE  /\ \A n \in Nullifiers : proofs[n] # <<>> => proofs'[n] # <<>>
           /\ \A n \in Nullifiers : evidence[n] => evidence'[n]
           /\ \A j \in Jobs : job[j] # None => job'[j] # None /\ job'[j].claim = job[j].claim
  <1>1. \A n \in Nullifiers : proofs[n] # <<>> => proofs'[n] # <<>>
    <2>1. CASE UNCHANGED <<proofs, public>>
      BY <2>1
    <2>2. ASSUME NEW u \in Uploaders, SubmitCommit(u)
          PROVE  \A n \in Nullifiers : proofs[n] # <<>> => proofs'[n] # <<>>
      <3>1. prun[u].item \in Artifacts
        BY <2>2 DEF SubmitCommit, PipelineInv, RequestsSound, Decided
      <3>2. proofs' = [proofs EXCEPT ![prun[u].claim] = WithArtifact(@, prun[u].item)]
        BY <2>2 DEF SubmitCommit
      <3>3. QED
        BY <3>1, <3>2, ArtifactAdded DEF PipelineInv, TypeOK
    <2>3. QED
      BY <2>1, <2>2, ArtifactWrites
  <1>2. \A n \in Nullifiers : evidence[n] => evidence'[n]
    BY ArtifactWrites DEF AttachCommit, SubmitCommit, SettlementWrites, PipelineInv, TypeOK
  <1>3. \A j \in Jobs : job[j] # None => job'[j] # None /\ job'[j].claim = job[j].claim
    BY JobWrites, NewRow, WorkerWrites
  <1>4. QED
    BY <1>1, <1>2, <1>3

(* The settlement side leaves the evidence and may only clear a binding.   *)
LEMMA SettlementLeaves ==
    ASSUME binding \in [Nullifiers -> Binding], NEW n \in Nullifiers, SettlementWrites(n)
    PROVE  evidence' = evidence /\ binding' \in [Nullifiers -> Binding]
  <1>1. PICK to \in {"SUBMITTED", "CONFIRMED", "TRANSACTION_FAILED", "RECEIPT_ISSUED"} :
           binding' \in {binding} \cup
               IF to \in {"CONFIRMED", "RECEIPT_ISSUED"}
               THEN {[binding EXCEPT ![n] = "LOCAL_ONLY"]} ELSE {}
    BY DEF SettlementWrites
  <1>2. binding' = binding \/ binding' = [binding EXCEPT ![n] = "LOCAL_ONLY"]
    BY <1>1
  <1>3. binding' \in [Nullifiers -> Binding]
    BY <1>2 DEF Binding
  <1>4. QED
    BY <1>3 DEF SettlementWrites

-----------------------------------------------------------------------------
(* Every step keeps the types.                                             *)

LEMMA PipelineTypeStep ==
    ASSUME PipelineInv, [Next]_vars
    PROVE  TypeOK'
  <1> USE PipelineAssumption DEF PipelineInv, TypeOK
  <1>1. claimStatus' \in [Nullifiers -> ClaimStatus]
    BY StatusWrites DEF SubmitCommit, RequestCommit, VerifyCommit, SettlementWrites, ClaimStatus
  <1>2. /\ proofs' \in [Nullifiers -> Seq(Artifacts)]
        /\ public' \in [Nullifiers -> Artifacts \cup {None}]
    <2>1. ASSUME NEW u \in Uploaders, SubmitCommit(u)
          PROVE  /\ proofs' \in [Nullifiers -> Seq(Artifacts)]
                 /\ public' \in [Nullifiers -> Artifacts \cup {None}]
      <3>1. prun[u].claim \in Nullifiers /\ prun[u].item \in Artifacts
        BY <2>1 DEF SubmitCommit, RequestsSound, Decided
      <3>2. WithArtifact(proofs[prun[u].claim], prun[u].item) \in Seq(Artifacts)
        BY <3>1, ArtifactAdded
      <3>3. QED
        BY <2>1, <3>1, <3>2 DEF SubmitCommit
    <2>2. QED
      BY <2>1, ArtifactWrites
  <1>3. adapters' \in [Nullifiers -> Artifacts \cup {None}]
    BY ArtifactWrites DEF VerifyCommit
  <1>4. evidence' \in [Nullifiers -> BOOLEAN] /\ binding' \in [Nullifiers -> Binding]
    <2>1. ASSUME NEW u \in Uploaders, AttachCommit(u) \/ SubmitCommit(u)
          PROVE  prun[u].binding \in Binding
      BY <2>1 DEF AttachCommit, SubmitCommit, RequestsSound, Decided
    <2>2. ASSUME NEW u \in Uploaders, AttachCommit(u)
          PROVE  evidence' \in [Nullifiers -> BOOLEAN] /\ binding' \in [Nullifiers -> Binding]
      BY <2>1, <2>2 DEF AttachCommit
    <2>3. ASSUME NEW u \in Uploaders, SubmitCommit(u)
          PROVE  evidence' \in [Nullifiers -> BOOLEAN] /\ binding' \in [Nullifiers -> Binding]
      BY <2>1, <2>3 DEF SubmitCommit
    <2>4. ASSUME NEW n \in Nullifiers, SettlementWrites(n)
          PROVE  evidence' \in [Nullifiers -> BOOLEAN] /\ binding' \in [Nullifiers -> Binding]
      BY <2>4, SettlementLeaves
    <2>5. QED
      BY <2>2, <2>3, <2>4, ArtifactWrites
  <1>5. job' \in [Jobs -> JobRow \cup {None}]
    BY JobWrites, NewRow, WorkerWrites
  <1>6. vrun' \in [qjob : Jobs \cup {None}, row : Jobs \cup {None}, proof : Artifacts \cup {None}]
    <2>1. CASE VerifyStart
      BY <2>1, RunningRow, LatestIsArtifact DEF VerifyStart
    <2>2. ASSUME NEW q \in Jobs, VerifyTake(q)
          PROVE  vrun' \in [qjob : Jobs \cup {None}, row : Jobs \cup {None},
                            proof : Artifacts \cup {None}]
      BY <2>2 DEF VerifyTake, UnfinishedRows
    <2>3. QED
      BY <2>1, <2>2, QueueWrites
         DEF VerifyCommit, VerifyDone, VerifyFails, Restart, NoVerification
  <1>7. /\ vqueue' \in [Jobs -> {"none", "waiting", "active", "completed", "failed"}]
        /\ \A q \in Jobs : vqueue'[q] = "active" => vrun'.qjob = q
    <2>1. CASE UNCHANGED vqueue
      <3>1. vrun'.qjob = vrun.qjob \/ vrun.qjob = None \/ VerifyDone \/ VerifyFails \/ Restart
        BY QueueWrites DEF VerifyTake, MayTake, NoVerification, VerifyStart, VerifyCommit
      <3>2. QED
        BY <2>1, <3>1 DEF VerifyDone, VerifyFails, Restart, WorkerSound
    <2>2. CASE \E u \in Uploaders : RequestEnqueue(u)
      <3>1. PICK u \in Uploaders : RequestEnqueue(u)
        BY <2>2
      <3>2. vrun' = vrun /\ vqueue' = VAdded(prun[u].item)
        BY <3>1 DEF RequestEnqueue
      <3>3. QED
        BY <3>2 DEF VAdded
    <2>3. CASE \E q \in Jobs : VerifyNothing(q)
      BY <2>3 DEF VerifyNothing, MayTake
    <2>4. CASE \E q \in Jobs : VRecoverAdd(q)
      BY <2>4 DEF VRecoverAdd, VAdded
    <2>5. CASE \E q \in Jobs : VerifyTake(q)
      BY <2>5 DEF VerifyTake, MayTake, NoVerification
    <2>6. CASE VerifyDone
      BY <2>6 DEF VerifyDone
    <2>7. CASE VerifyFails
      BY <2>7 DEF VerifyFails, WorkerSound
    <2>8. CASE Restart
      BY <2>8 DEF Restart
    <2>9. CASE RedisLoss
      BY <2>9 DEF RedisLoss
    <2>10. QED
      BY <2>1, <2>2, <2>3, <2>4, <2>5, <2>6, <2>7, <2>8, <2>9, QueueWrites
  <1>8. prun' \in [Uploaders -> Upload]
    <2>1. NoUpload \in Upload
      BY DEF NoUpload, Upload
    <2>2. ASSUME NEW u \in Uploaders, NEW n \in Nullifiers, AttachRead(u, n) \/ RequestRead(u, n)
          PROVE  prun' \in [Uploaders -> Upload]
      <3>1. CASE AttachRead(u, n)
        BY <3>1 DEF AttachRead, Begin, Upload, BindingAfterAttach, Binding
      <3>2. CASE RequestRead(u, n)
        <4>1. Latest(n) \in Artifacts
          BY <3>2, LatestIsArtifact DEF RequestRead
        <4>2. QED
          BY <3>2, <4>1 DEF RequestRead, Begin, Upload
      <3>3. QED
        BY <2>2, <3>1, <3>2
    <2>3. ASSUME NEW u \in Uploaders, NEW n \in Nullifiers, NEW x \in Artifacts, SubmitRead(u, n, x)
          PROVE  prun' \in [Uploaders -> Upload]
      BY <2>3 DEF SubmitRead, Begin, Upload, BindingAfterProof, Binding
    <2>4. ASSUME NEW u \in Uploaders, NEW j \in Jobs, RequestCommit(u, j)
          PROVE  prun' \in [Uploaders -> Upload]
      <3> DEFINE new == [prun[u] EXCEPT !.pc = "enqueue", !.item = j]
      <3>1. new \in Upload
        <4>1. prun[u] \in Upload
          OBVIOUS
        <4>2. QED
          BY <4>1 DEF Upload
      <3>2. prun' = [prun EXCEPT ![u] = new]
        BY <2>4 DEF RequestCommit
      <3> HIDE DEF new
      <3>3. QED
        BY <3>1, <3>2
    <2>5. ASSUME NEW u \in Uploaders,
                 AttachCommit(u) \/ SubmitCommit(u) \/ RequestEnqueue(u) \/ RequestFails(u)
          PROVE  prun' \in [Uploaders -> Upload]
      <3>1. End(u)
        BY <2>5 DEF AttachCommit, SubmitCommit, RequestEnqueue, RequestFails
      <3>2. QED
        BY <2>1, <3>1 DEF End
    <2>6. CASE Restart
      BY <2>1, <2>6 DEF Restart
    <2>7. QED
      BY <2>2, <2>3, <2>4, <2>5, <2>6, RequestWrites
  <1>9. /\ vrecovery' \in {"none", "read", "add"} /\ vtodo' \subseteq Jobs
        /\ redisKept' \in BOOLEAN /\ faults' \in 0 .. MaxFaults
    <2>1. vrecovery' \in {"none", "read", "add"} /\ vtodo' \subseteq Jobs
      BY QueueWrites DEF recovery, VRecoverAdd, VRecoverRead, VRecovered, Restart
    <2>2. redisKept' \in BOOLEAN /\ faults' \in 0 .. MaxFaults
      <3>1. UNCHANGED environment \/ Fault
        BY QueueWrites DEF RequestFails, VerifyFails, Restart, RedisLoss
      <3>2. redisKept' = redisKept \/ redisKept' = FALSE
        BY QueueWrites DEF environment, RequestFails, VerifyFails, Restart, RedisLoss
      <3>3. faults' \in 0 .. MaxFaults
        BY <3>1 DEF environment, Fault
      <3>4. redisKept' \in BOOLEAN
        BY <3>2
      <3>5. QED
        BY <3>3, <3>4
    <2>3. QED
      BY <2>1, <2>2
  <1>10. QED
    BY <1>1, <1>2, <1>3, <1>4, <1>5, <1>6, <1>7, <1>8, <1>9

-----------------------------------------------------------------------------
(* Every step keeps what is true of rows, requests and the worker.         *)

LEMMA RowsStep ==
    ASSUME PipelineInv, [Next]_vars
    PROVE  RowsKnown'
  <1> USE DEF PipelineInv, TypeOK
  <1>1. \A j \in Jobs : job'[j] # None => proofs'[job'[j].claim] # <<>>
    <2>1. \A j \in Jobs : job[j] # None => job[j].claim \in Nullifiers
      BY DEF JobRow
    <2>2. \A j \in Jobs : job'[j] # None /\ job[j] # None => proofs'[job'[j].claim] # <<>>
      BY <2>1, NothingTakenBack DEF RowsKnown
    <2>3. ASSUME NEW u \in Uploaders, NEW j \in Jobs, RequestCommit(u, j)
          PROVE  \A i \in Jobs : job'[i] # None => proofs'[job'[i].claim] # <<>>
      <3>1. /\ \A i \in Jobs \ {j} : job'[i] = job[i]
            /\ job'[j].claim = prun[u].claim /\ prun[u].claim \in Nullifiers
            /\ proofs[prun[u].claim] # <<>>
        BY <2>3, NewRow
      <3>2. proofs'[prun[u].claim] # <<>>
        BY <3>1, NothingTakenBack
      <3>3. QED
        BY <2>2, <3>1, <3>2
    <2>4. CASE VerifyStart \/ VerifyCommit
      <3>1. vrun.row \in Jobs /\ job[vrun.row] # None
        BY <2>4, WorkerWrites, RunningRow DEF WorkerSound
      <3>2. \A i \in Jobs \ {vrun.row} : job'[i] = job[i]
        BY <2>4, WorkerWrites
      <3>3. QED
        BY <2>2, <3>1, <3>2
    <2>5. QED
      BY <2>2, <2>3, <2>4, JobWrites
  <1>2. \A j \in Jobs : vqueue'[j] # "none" => job[j] # None
    <2>1. ASSUME NEW u \in Uploaders, RequestEnqueue(u)
          PROVE  \A j \in Jobs : vqueue'[j] # "none" => job[j] # None
      BY <2>1 DEF RequestEnqueue, VAdded, RequestsSound, Decided, RowsKnown
    <2>2. ASSUME NEW q \in Jobs, VerifyNothing(q) \/ VerifyTake(q) \/ VRecoverAdd(q)
          PROVE  \A j \in Jobs : vqueue'[j] # "none" => job[j] # None
      BY <2>2 DEF VerifyNothing, VerifyTake, VRecoverAdd, MayTake, VAdded, RowsKnown
    <2>3. CASE VerifyDone \/ VerifyFails \/ Restart \/ RedisLoss
      BY <2>3 DEF VerifyDone, VerifyFails, Restart, RedisLoss, RowsKnown
    <2>4. QED
      BY <2>1, <2>2, <2>3, QueueWrites DEF RowsKnown
  <1>3. \A j \in vtodo' : job[j] # None
    BY QueueWrites DEF recovery, VRecoverAdd, VRecoverRead, VRecovered, Restart, RowsKnown
  <1>4. vtodo' \subseteq Jobs
    BY PipelineTypeStep
  <1>5. QED
    BY <1>1, <1>2, <1>3, <1>4, NothingTakenBack DEF RowsKnown

(* What a request decides is true when it decides it.                      *)
LEMMA DecisionsRight ==
    ASSUME PipelineInv, NEW u \in Uploaders, NEW n \in Nullifiers,
           AttachRead(u, n) \/ RequestRead(u, n) \/ \E x \in Artifacts : SubmitRead(u, n, x)
    PROVE  Decided(u)' /\ \A v \in Uploaders \ {u} : prun'[v] = prun[v]
  <1> USE DEF PipelineInv, TypeOK
  <1>1. CASE AttachRead(u, n)
    BY <1>1 DEF AttachRead, Begin, Decided, BindingAfterAttach, Binding
  <1>2. CASE RequestRead(u, n)
    BY <1>2, LatestIsArtifact DEF RequestRead, Begin, Decided, artifacts
  <1>3. ASSUME NEW x \in Artifacts, SubmitRead(u, n, x)
        PROVE  Decided(u)' /\ \A v \in Uploaders \ {u} : prun'[v] = prun[v]
    <2>1. Drafted[n] # None => Shape[x].commitment = Drafted[n]
      BY <1>3, PipelineAssumption DEF SubmitRead, Acceptable, DraftedCommitmentKept
    <2>2. /\ BindingAfterProof(evidence[n]) \in Binding
          /\ BindingAfterProof(evidence[n]) # "LOCAL_ONLY" => evidence[n]
      BY DEF BindingAfterProof, Binding
    <2>3. /\ prun'[u] = [pc |-> "proof", claim |-> n, binding |-> BindingAfterProof(evidence[n]),
                         item |-> x]
          /\ evidence' = evidence
          /\ \A v \in Uploaders \ {u} : prun'[v] = prun[v]
      BY <1>3 DEF SubmitRead, Begin, artifacts
    <2>4. QED
      BY <2>1, <2>2, <2>3 DEF Decided
  <1>4. QED
    BY <1>1, <1>2, <1>3

LEMMA DecidedStays ==
    ASSUME PipelineInv, [Next]_vars, NEW u \in Uploaders, prun'[u] = prun[u]
    PROVE  Decided(u)'
  BY NothingTakenBack DEF PipelineInv, RequestsSound, Decided

LEMMA RequestsStep ==
    ASSUME PipelineInv, [Next]_vars
    PROVE  RequestsSound'
  <1> USE DEF PipelineInv, TypeOK
  <1>1. CASE UNCHANGED prun
    BY <1>1, DecidedStays DEF RequestsSound
  <1>2. CASE Restart
    BY <1>2 DEF Restart, RequestsSound, Decided, NoUpload
  <1>3. ASSUME NEW u \in Uploaders, NEW n \in Nullifiers,
               AttachRead(u, n) \/ RequestRead(u, n) \/ \E x \in Artifacts : SubmitRead(u, n, x)
        PROVE  RequestsSound'
    BY <1>3, DecisionsRight, DecidedStays DEF RequestsSound
  <1>4. ASSUME NEW u \in Uploaders,
               AttachCommit(u) \/ SubmitCommit(u) \/ RequestEnqueue(u) \/ RequestFails(u)
        PROVE  RequestsSound'
    <2>1. prun' = [prun EXCEPT ![u] = NoUpload]
      BY <1>4 DEF AttachCommit, SubmitCommit, RequestEnqueue, RequestFails, End
    <2>2. Decided(u)'
      BY <2>1 DEF Decided, NoUpload
    <2>3. QED
      BY <2>1, <2>2, DecidedStays DEF RequestsSound
  <1>5. ASSUME NEW u \in Uploaders, NEW j \in Jobs, RequestCommit(u, j)
        PROVE  RequestsSound'
    <2>1. /\ prun'[u].pc = "enqueue" /\ prun'[u].item = j /\ prun'[u].claim = prun[u].claim
          /\ \A v \in Uploaders \ {u} : prun'[v] = prun[v]
      BY <1>5 DEF RequestCommit, Upload
    <2>2. Decided(u)'
      BY <1>5, <2>1, NewRow DEF Decided
    <2>3. QED
      BY <2>1, <2>2, DecidedStays DEF RequestsSound
  <1>6. QED
    BY <1>1, <1>2, <1>3, <1>4, <1>5, RequestWrites

LEMMA WorkerStep ==
    ASSUME PipelineInv, [Next]_vars
    PROVE  WorkerSound'
  <1> USE PipelineAssumption DEF PipelineInv, TypeOK
  <1>1. ASSUME UNCHANGED vrun, ~VerifyStart, ~VerifyCommit
        PROVE  WorkerSound'
    <2>1. \A i \in Jobs : job[i] # None => job'[i] = job[i]
      BY <1>1, JobWrites, NewRow
    <2>2. vrun.row \in Jobs \cup {None} /\ vrun.qjob \in Jobs \cup {None}
      OBVIOUS
    <2>3. QED
      BY <1>1, <2>1, <2>2 DEF WorkerSound
  <1>2. ASSUME NEW q \in Jobs, VerifyTake(q)
        PROVE  WorkerSound'
    <2>1. PICK r \in UnfinishedRows(job[q].claim) : vrun' = [qjob |-> q, row |-> r, proof |-> None]
      BY <1>2 DEF VerifyTake
    <2>2. job' = job /\ job[q] # None
      BY <1>2 DEF VerifyTake, MayTake, RowsKnown
    <2>3. r \in Jobs /\ job[r] # None /\ job[r].status \in Unfinished /\ job[r].claim = job[q].claim
      BY DEF UnfinishedRows
    <2>4. QED
      BY <2>1, <2>2, <2>3 DEF WorkerSound
  <1>3. CASE VerifyStart
    <2>1. vrun' = [vrun EXCEPT !.proof = Latest(job[vrun.row].claim)] /\ vrun.row # None
      BY <1>3 DEF VerifyStart
    <2>2. vrun'.row = vrun.row /\ vrun'.qjob = vrun.qjob
      BY <2>1
    <2>3. /\ job'[vrun.row] # None /\ job'[vrun.row].status \in Unfinished
          /\ job'[vrun.row].claim = job[vrun.row].claim
      BY <1>3, WorkerWrites DEF Unfinished
    <2>4. vrun.qjob # None /\ job'[vrun.qjob] # None /\ job'[vrun.qjob].claim = job[vrun.qjob].claim
      BY <2>1, RunningRow, NothingTakenBack DEF WorkerSound
    <2>5. QED
      BY <2>1, <2>2, <2>3, <2>4, RunningRow DEF WorkerSound
  <1>4. CASE VerifyCommit
    <2>1. vrun' = [NoVerification EXCEPT !.qjob = vrun.qjob]
      BY <1>4 DEF VerifyCommit
    <2>2. vrun'.qjob = vrun.qjob /\ vrun'.row = None /\ vrun'.proof = None
      BY <2>1 DEF NoVerification
    <2>3. vrun.qjob \in Jobs /\ job'[vrun.qjob] # None
      BY <1>4, WorkerWrites, RunningRow, NothingTakenBack DEF WorkerSound
    <2>4. QED
      BY <2>2, <2>3 DEF WorkerSound
  <1>5. CASE VerifyDone \/ VerifyFails \/ Restart
    BY <1>5 DEF VerifyDone, VerifyFails, Restart, WorkerSound, NoVerification
  <1>6. QED
    BY <1>1, <1>2, <1>3, <1>4, <1>5, QueueWrites

-----------------------------------------------------------------------------
(* Every step keeps the safety properties.                                 *)

LEMMA BindingStep ==
    ASSUME PipelineInv, [Next]_vars
    PROVE  BindingNeverOverclaims'
  <1> USE DEF PipelineInv, TypeOK
  <1>1. CASE UNCHANGED <<evidence, binding>>
    BY <1>1 DEF BindingNeverOverclaims
  <1>2. ASSUME NEW u \in Uploaders, AttachCommit(u)
        PROVE  BindingNeverOverclaims'
    BY <1>2 DEF AttachCommit, BindingNeverOverclaims
  <1>3. ASSUME NEW u \in Uploaders, SubmitCommit(u)
        PROVE  BindingNeverOverclaims'
    <2>1. prun[u].binding # "LOCAL_ONLY" => evidence[prun[u].claim]
      BY <1>3 DEF SubmitCommit, RequestsSound, Decided
    <2>2. evidence' = evidence /\ binding' = [binding EXCEPT ![prun[u].claim] = prun[u].binding]
      BY <1>3 DEF SubmitCommit
    <2>3. QED
      BY <2>1, <2>2 DEF BindingNeverOverclaims
  <1>4. ASSUME NEW n \in Nullifiers, SettlementWrites(n)
        PROVE  BindingNeverOverclaims'
    BY <1>4 DEF SettlementWrites, BindingNeverOverclaims
  <1>5. QED
    BY <1>1, <1>2, <1>3, <1>4, ArtifactWrites

LEMMA CommitmentStep ==
    ASSUME PipelineInv, [Next]_vars
    PROVE  DraftedCommitmentKept'
  <1> USE PipelineAssumption DEF PipelineInv, TypeOK
  <1>1. CASE UNCHANGED <<proofs, public>>
    BY <1>1 DEF DraftedCommitmentKept, researcherCommitment
  <1>2. ASSUME NEW u \in Uploaders, SubmitCommit(u)
        PROVE  DraftedCommitmentKept'
    <2>1. /\ prun[u].claim \in Nullifiers /\ prun[u].item \in Artifacts
          /\ Drafted[prun[u].claim] # None =>
                Shape[prun[u].item].commitment = Drafted[prun[u].claim]
      BY <1>2 DEF SubmitCommit, RequestsSound, Decided
    <2>2. public' = [public EXCEPT ![prun[u].claim] = prun[u].item]
      BY <1>2 DEF SubmitCommit
    <2>3. QED
      BY <2>1, <2>2 DEF DraftedCommitmentKept, researcherCommitment
  <1>3. QED
    BY <1>1, <1>2, ArtifactWrites

(* The only step that finishes a row also ends its claim's verification.   *)
LEMMA WorkStep ==
    ASSUME PipelineInv, [Next]_vars
    PROVE  VerifyingHasWork'
  <1> USE DEF PipelineInv, TypeOK
  <1>1. CASE VerifyCommit
    <2>1. /\ vrun.row # None
          /\ \A i \in Jobs \ {vrun.row} : job'[i] = job[i]
      BY <1>1, WorkerWrites
    <2>2. claimStatus' = [claimStatus EXCEPT ![job[vrun.row].claim] = "AWAITING_WALLET_SIGNATURE"]
      BY <1>1 DEF VerifyCommit
    <2>3. \A n \in Nullifiers :
             n # job[vrun.row].claim => UnfinishedRows(n) \subseteq UnfinishedRows(n)'
      BY <2>1 DEF UnfinishedRows
    <2>4. \A n \in Nullifiers : claimStatus'[n] = "VERIFYING" =>
             claimStatus[n] = "VERIFYING" /\ n # job[vrun.row].claim
      BY <2>2
    <2>5. QED
      BY <2>3, <2>4 DEF VerifyingHasWork
  <1>2. ASSUME NEW u \in Uploaders, NEW j \in Jobs, RequestCommit(u, j)
        PROVE  VerifyingHasWork'
    <2>1. claimStatus' = [claimStatus EXCEPT ![prun[u].claim] = "VERIFYING"]
      BY <1>2 DEF RequestCommit
    <2>2. \A n \in Nullifiers : n = prun[u].claim => UnfinishedRows(n)' # {}
      BY <1>2, NewRow DEF UnfinishedRows, Unfinished
    <2>3. \A n \in Nullifiers : UnfinishedRows(n) \subseteq UnfinishedRows(n)'
      BY <1>2, NewRow DEF UnfinishedRows
    <2>4. QED
      BY <2>1, <2>2, <2>3 DEF VerifyingHasWork
  <1>3. ASSUME ~VerifyCommit, \A u \in Uploaders, j \in Jobs : ~RequestCommit(u, j)
        PROVE  VerifyingHasWork'
    <2>1. \A n \in Nullifiers : claimStatus'[n] = "VERIFYING" => claimStatus[n] = "VERIFYING"
      BY <1>3, StatusWrites DEF SubmitCommit, SettlementWrites
    <2>2. \A n \in Nullifiers : UnfinishedRows(n) \subseteq UnfinishedRows(n)'
      BY <1>3, JobWrites, WorkerWrites DEF UnfinishedRows, Unfinished
    <2>3. QED
      BY <2>1, <2>2 DEF VerifyingHasWork
  <1>4. QED
    BY <1>1, <1>2, <1>3

(* A queue job that is not spent stays so, but for the commit that ends    *)
(* the verification of its claim; only Redis may lose it.                  *)
LEMMA LiveStays ==
    ASSUME PipelineInv, [Next]_vars, redisKept', ~VerifyCommit, ~VRecoverRead,
           NEW n \in Nullifiers, NEW k \in UnfinishedRows(n), Live(k)
    PROVE  Live(k)'
  <1> USE PipelineAssumption DEF PipelineInv, TypeOK
  <1>1. k \in Jobs /\ job[k] # None /\ job[k].claim = n /\ ~RedisLoss
    BY DEF UnfinishedRows, RedisLoss
  <1>2. vqueue'[k] # "completed"
    <2>1. ASSUME NEW q \in Jobs, VerifyNothing(q)
          PROVE  vqueue'[k] # "completed"
      BY <1>1, <2>1 DEF VerifyNothing, UnfinishedRows, Live
    <2>2. ASSUME NEW q \in Jobs, VerifyTake(q) \/ VRecoverAdd(q)
          PROVE  vqueue'[k] # "completed"
      BY <1>1, <2>2 DEF VerifyTake, VRecoverAdd, VAdded, Live
    <2>3. ASSUME NEW u \in Uploaders, RequestEnqueue(u)
          PROVE  vqueue'[k] # "completed"
      BY <1>1, <2>3 DEF RequestEnqueue, VAdded, Live
    <2>4. CASE VerifyDone \/ VerifyFails \/ Restart
      <3>1. CASE VerifyDone
        BY <1>1, <3>1 DEF VerifyDone, Live
      <3>2. CASE VerifyFails
        BY <1>1, <3>2 DEF VerifyFails, Live
      <3>3. CASE Restart
        BY <1>1, <3>3 DEF Restart, Live
      <3>4. QED
        BY <2>4, <3>1, <3>2, <3>3
    <2>5. QED
      BY <1>1, <2>1, <2>2, <2>3, <2>4, QueueWrites DEF Live
  <1>3. ~(vrun'.qjob = k /\ vrun'.row = None)
    <2>1. CASE VerifyStart
      <3>1. vrun'.qjob = vrun.qjob /\ vrun'.row = vrun.row
        BY <2>1 DEF VerifyStart
      <3>2. QED
        BY <3>1 DEF Live
    <2>2. ASSUME NEW q \in Jobs, VerifyTake(q)
          PROVE  vrun'.row # None
      BY <2>2 DEF VerifyTake, UnfinishedRows
    <2>3. CASE VerifyDone \/ VerifyFails \/ Restart
      <3>1. vrun' = NoVerification /\ NoVerification.qjob = None
        BY <2>3 DEF VerifyDone, VerifyFails, Restart, NoVerification
      <3>2. QED
        BY <1>1, <3>1
    <2>4. QED
      BY <2>1, <2>2, <2>3, QueueWrites DEF Live
  <1>4. \/ vrecovery' = "read" \/ vqueue'[k] # "none" \/ k \in vtodo'
        \/ \E u \in Uploaders : prun'[u].pc = "enqueue" /\ prun'[u].item = k
    <2>1. CASE Restart
      BY <2>1 DEF Restart
    <2>2. CASE vrecovery = "read" /\ ~Restart
      BY <2>2, QueueWrites DEF recovery, VRecoverAdd, VRecovered
    <2>3. CASE vqueue[k] # "none"
      <3>1. ASSUME NEW q \in Jobs, VerifyNothing(q) \/ VerifyTake(q) \/ VRecoverAdd(q)
            PROVE  vqueue'[k] # "none"
        BY <1>1, <2>3, <3>1 DEF VerifyNothing, VerifyTake, VRecoverAdd, VAdded
      <3>2. ASSUME NEW u \in Uploaders, RequestEnqueue(u)
            PROVE  vqueue'[k] # "none"
        BY <1>1, <2>3, <3>2 DEF RequestEnqueue, VAdded
      <3>3. CASE VerifyDone \/ VerifyFails \/ Restart
        <4>1. CASE VerifyDone
          BY <1>1, <2>3, <4>1 DEF VerifyDone
        <4>2. CASE VerifyFails
          BY <1>1, <2>3, <4>2 DEF VerifyFails
        <4>3. CASE Restart
          BY <1>1, <2>3, <4>3 DEF Restart
        <4>4. QED
          BY <3>3, <4>1, <4>2, <4>3
      <3>4. QED
        BY <1>1, <2>3, <3>1, <3>2, <3>3, QueueWrites
    <2>4. CASE k \in vtodo /\ ~Restart
      <3>1. ASSUME NEW q \in Jobs, VRecoverAdd(q)
            PROVE  k \in vtodo' \/ vqueue'[k] # "none"
        BY <1>1, <2>4, <3>1 DEF VRecoverAdd, VAdded
      <3>2. QED
        BY <2>4, <3>1, QueueWrites DEF recovery, VRecovered
    <2>5. ASSUME NEW u \in Uploaders, prun[u].pc = "enqueue", prun[u].item = k, ~Restart
          PROVE  vqueue'[k] # "none" \/ (prun'[u].pc = "enqueue" /\ prun'[u].item = k)
      <3>1. CASE RequestEnqueue(u)
        BY <1>1, <2>5, <3>1 DEF RequestEnqueue, VAdded
      <3>2. CASE ~RequestEnqueue(u)
        <4>1. ASSUME NEW v \in Uploaders, NEW m \in Nullifiers,
                     AttachRead(v, m) \/ RequestRead(v, m) \/ \E x \in Artifacts : SubmitRead(v, m, x)
              PROVE  prun'[u] = prun[u]
          BY <2>5, <4>1 DEF AttachRead, RequestRead, SubmitRead, Begin
        <4>2. ASSUME NEW v \in Uploaders, NEW j \in Jobs, RequestCommit(v, j)
              PROVE  prun'[u] = prun[u]
          BY <2>5, <4>2 DEF RequestCommit
        <4>3. ASSUME NEW v \in Uploaders, AttachCommit(v) \/ SubmitCommit(v) \/ RequestFails(v)
              PROVE  prun'[u] = prun[u]
          BY <2>5, <4>3 DEF AttachCommit, SubmitCommit, RequestFails, End
        <4>4. ASSUME NEW v \in Uploaders, RequestEnqueue(v)
              PROVE  prun'[u] = prun[u]
          BY <3>2, <4>4 DEF RequestEnqueue, End
        <4>5. prun'[u] = prun[u]
          BY <2>5, <4>1, <4>2, <4>3, <4>4, RequestWrites
        <4>6. QED
          BY <2>5, <4>5
      <3>3. QED
        BY <3>1, <3>2
    <2>6. QED
      BY <2>1, <2>2, <2>3, <2>4, <2>5 DEF Live
  <1>5. QED
    BY <1>2, <1>3, <1>4 DEF Live

LEMMA CarriedStep ==
    ASSUME PipelineInv, [Next]_vars
    PROVE  Carried'
  <1> USE PipelineAssumption DEF PipelineInv, TypeOK
  <1> SUFFICES ASSUME redisKept', NEW n \in Nullifiers, claimStatus'[n] = "VERIFYING"
               PROVE  \E j \in UnfinishedRows(n)' : Live(j)'
    BY DEF Carried
  <1>1. redisKept
    BY QueueWrites DEF environment, RequestFails, VerifyFails, Restart, RedisLoss
  <1>2. ASSUME NEW u \in Uploaders, NEW j \in Jobs, RequestCommit(u, j), prun[u].claim = n
        PROVE  \E i \in UnfinishedRows(n)' : Live(i)'
    <2>1. j \in UnfinishedRows(n)'
      BY <1>2, NewRow DEF UnfinishedRows, Unfinished
    <2>2. vqueue[j] = "none" /\ vrun.qjob # j
      BY <1>2, NewRow DEF RowsKnown, WorkerSound
    <2>3. vqueue' = vqueue /\ vrun' = vrun
      BY <1>2 DEF RequestCommit, worker
    <2>4. prun'[u].pc = "enqueue" /\ prun'[u].item = j
      BY <1>2 DEF RequestCommit, Upload
    <2>5. Live(j)'
      BY <2>2, <2>3, <2>4 DEF Live
    <2>6. QED
      BY <2>1, <2>5
  <1>3. CASE VerifyCommit
    <2>1. n # job[vrun.row].claim /\ claimStatus[n] = "VERIFYING"
      BY <1>3 DEF VerifyCommit
    <2>2. PICK k \in UnfinishedRows(n) : Live(k)
      BY <1>1, <2>1 DEF Carried
    <2>3. k \in Jobs /\ job[k] # None /\ job[k].claim = n /\ job[k].status \in Unfinished
      BY DEF UnfinishedRows
    <2>4. k # vrun.row /\ k # vrun.qjob
      BY <1>3, <2>1, <2>3, WorkerWrites, RunningRow
    <2>5. k \in UnfinishedRows(n)'
      BY <1>3, <2>3, <2>4, WorkerWrites DEF UnfinishedRows
    <2>6. /\ UNCHANGED <<vqueue, prun, vrecovery, vtodo>>
          /\ vrun' = [NoVerification EXCEPT !.qjob = vrun.qjob]
      BY <1>3 DEF VerifyCommit, recovery
    <2>7. vrun'.qjob = vrun.qjob
      BY <2>6 DEF NoVerification
    <2>8. Live(k)'
      BY <2>2, <2>4, <2>6, <2>7 DEF Live
    <2>9. QED
      BY <2>5, <2>8
  <1>4. CASE VRecoverRead
    <2>1. claimStatus[n] = "VERIFYING" /\ UNCHANGED <<vqueue, vrun, job>>
      BY <1>4 DEF VRecoverRead, worker
    <2>2. PICK k \in UnfinishedRows(n) : Live(k)
      BY <1>1, <2>1 DEF Carried
    <2>3. k \in vtodo'
      BY <1>4, <2>1 DEF VRecoverRead, RecoverableRow, UnfinishedRows
    <2>4. Live(k)' /\ k \in UnfinishedRows(n)'
      BY <2>1, <2>2, <2>3 DEF Live, UnfinishedRows
    <2>5. QED
      BY <2>4
  <1>5. ASSUME ~VerifyCommit, ~VRecoverRead,
               \A u \in Uploaders, j \in Jobs : RequestCommit(u, j) => prun[u].claim # n
        PROVE  \E j \in UnfinishedRows(n)' : Live(j)'
    <2>1. claimStatus[n] = "VERIFYING"
      <3>1. ASSUME NEW u \in Uploaders, NEW j \in Jobs, RequestCommit(u, j)
            PROVE  claimStatus'[n] = claimStatus[n]
        BY <1>5, <3>1 DEF RequestCommit
      <3>2. ASSUME NEW u \in Uploaders, SubmitCommit(u)
            PROVE  claimStatus[n] = "VERIFYING"
        BY <3>2 DEF SubmitCommit
      <3>3. ASSUME NEW m \in Nullifiers, SettlementWrites(m)
            PROVE  claimStatus[n] = "VERIFYING"
        BY <3>3 DEF SettlementWrites
      <3>4. QED
        BY <1>5, <3>1, <3>2, <3>3, StatusWrites
    <2>2. PICK k \in UnfinishedRows(n) : Live(k)
      BY <1>1, <2>1 DEF Carried
    <2>3. k \in UnfinishedRows(n)'
      BY <1>5, JobWrites, NewRow, WorkerWrites DEF UnfinishedRows, Unfinished
    <2>4. QED
      BY <1>5, <2>2, <2>3, LiveStays
  <1>6. QED
    BY <1>2, <1>3, <1>4, <1>5

LEMMA PipelineInvInductive == PipelineInv /\ [Next]_vars => PipelineInv'
  BY PipelineTypeStep, RowsStep, RequestsStep, WorkerStep, WorkStep, CarriedStep,
     BindingStep, CommitmentStep
     DEF PipelineInv

LEMMA PipelineInvariant == Spec => []PipelineInv
  <1>1. Init => PipelineInv
    BY PipelineStart
  <1>2. PipelineInv /\ [Next]_vars => PipelineInv'
    BY PipelineInvInductive
  <1>3. QED
    BY <1>1, <1>2, PTL DEF Spec

-----------------------------------------------------------------------------
(***************************************************************************)
(* Tables, queue and the values held by requests and by the worker keep    *)
(* their shape.                                                            *)
(***************************************************************************)
THEOREM PipelineTypes == Spec => []TypeOK
  BY PipelineInvariant, PTL DEF PipelineInv

(***************************************************************************)
(* While Redis keeps its data, a claim that is VERIFYING has a queue job   *)
(* that is not spent, whatever restarts and however many requests and rows *)
(* (requestVerification, processVerificationJob, recoverQueueJobs).        *)
(***************************************************************************)
THEOREM VerifyingIsCarriedHolds == Spec => []VerifyingIsCarried
  <1>1. PipelineInv => VerifyingIsCarried
    <2> SUFFICES ASSUME PipelineInv, redisKept, NEW n \in Nullifiers, claimStatus[n] = "VERIFYING"
                 PROVE  \/ vrecovery = "read"
                        \/ \E j \in Jobs :
                              /\ job[j] # None /\ job[j].claim = n
                              /\ \/ vqueue[j] \in {"waiting", "active", "failed"}
                                 \/ j \in vtodo
                                 \/ \E u \in Uploaders : prun[u].pc = "enqueue" /\ prun[u].item = j
      BY DEF VerifyingIsCarried
    <2>1. PICK j \in UnfinishedRows(n) : Live(j)
      BY DEF PipelineInv, Carried
    <2>2. j \in Jobs /\ job[j] # None /\ job[j].claim = n
      BY DEF UnfinishedRows
    <2>3. vqueue[j] \in {"none", "waiting", "active", "completed", "failed"}
      BY <2>2 DEF PipelineInv, TypeOK
    <2>4. QED
      BY <2>1, <2>2, <2>3 DEF Live
  <1>2. QED
    BY <1>1, PipelineInvariant, PTL

(***************************************************************************)
(* A claim without an evidence commitment is LOCAL_ONLY, in whatever order *)
(* attachEvidence and submitProof read and write it.                       *)
(***************************************************************************)
THEOREM BindingNeverOverclaimsHolds == Spec => []BindingNeverOverclaims
  BY PipelineInvariant, PTL DEF PipelineInv

(***************************************************************************)
(* A claim keeps the researcher commitment it was drafted with, whatever   *)
(* artifacts are uploaded and however their uploads overlap                *)
(* (submitProof, claims.service.ts:264-269).                               *)
(***************************************************************************)
THEOREM DraftedCommitmentKeptHolds == Spec => []DraftedCommitmentKept
  BY PipelineInvariant, PTL DEF PipelineInv

(***************************************************************************)
(* No step of any handler changes a verification that SUCCEEDED: the       *)
(* worker's updates have no guard, but the row it holds is unfinished      *)
(* (processVerificationJob).                                               *)
(***************************************************************************)
THEOREM SucceededIsFinalHolds == Spec => SucceededIsFinal
  <1>1. PipelineInv /\ [Next]_vars =>
            [\A j \in Jobs : job[j] # None /\ job[j].status = "SUCCEEDED" => job'[j] = job[j]]_vars
    <2> SUFFICES ASSUME PipelineInv, [Next]_vars, NEW j \in Jobs, job[j] # None,
                        job[j].status = "SUCCEEDED"
                 PROVE  job'[j] = job[j]
      OBVIOUS
    <2>1. ASSUME NEW u \in Uploaders, NEW i \in Jobs, RequestCommit(u, i)
          PROVE  job'[j] = job[j]
      BY <2>1, NewRow
    <2>2. CASE VerifyStart \/ VerifyCommit
      BY <2>2, WorkerWrites, RunningRow DEF Unfinished
    <2>3. QED
      BY <2>1, <2>2, JobWrites
  <1>2. QED
    BY <1>1, PipelineInvariant, PTL DEF Spec, SucceededIsFinal

-----------------------------------------------------------------------------
(* Nothing wraps: the sum of two words fits a double word, whatever the    *)
(* width of a word.                                                        *)
LEMMA WideSum ==
    ASSUME NEW i \in Impact
    PROVE  total_withdrawal(i) = i.first_withdrawal + i.second_withdrawal
PROOF
  <1> DEFINE a == i.first_withdrawal
             b == i.second_withdrawal
  <1>1. a \in 0 .. W - 1 /\ b \in 0 .. W - 1
    BY DEF Impact, Word
  <1>2. W \in Nat /\ W >= 2
    BY WordAssumption
  <1>3. W * W >= 2 * W
    BY <1>2
  <1>4. W * W \in Nat /\ a + b \in Nat /\ a + b < W * W
    BY <1>1, <1>2, <1>3
  <1> HIDE DEF a, b
  <1>5. (a + b) % (W * W) = a + b
    <2> DEFINE m == W * W
               s == a + b
    <2>1. m \in Nat /\ s \in Nat /\ s < m
      BY <1>4
    <2> HIDE DEF m, s
    <2>2. s % m = s
      BY <2>1
    <2>3. QED
      BY <2>2 DEF m, s
  <1>6. QED
    BY <1>5 DEF total_withdrawal, a, b

(***************************************************************************)
(* The predicate of proof_of_claim is the one it claims to be: it accepts  *)
(* exactly the unprivileged withdrawals, each within the entitlement, that *)
(* together lose at least the published threshold, and the threshold is    *)
(* not zero; for every width of a word (main.nr:19-21 widens before it     *)
(* adds).                                                                  *)
(***************************************************************************)
THEOREM ImpactExact ==
    ASSUME NEW i \in Impact, NEW minimum_loss \in Word
    PROVE  assert_private_impact(i, minimum_loss) <=>
             /\ ~i.actor_is_privileged
             /\ i.first_withdrawal <= i.entitlement
             /\ i.second_withdrawal <= i.entitlement
             /\ minimum_loss > 0
             /\ Loss(i) >= minimum_loss
PROOF
  <1>1. /\ i.entitlement \in Int /\ i.first_withdrawal \in Int
        /\ i.second_withdrawal \in Int /\ minimum_loss \in Int
    BY WordAssumption DEF Impact, Word
  <1>2. total_withdrawal(i) = i.first_withdrawal + i.second_withdrawal
    BY WideSum
  <1>3. QED
    BY <1>1, <1>2 DEF assert_private_impact, impact_shown, Loss

(***************************************************************************)
(* Whatever public values can be proved (main.nr:85-117), the threshold    *)
(* among them is positive and no more than the loss, and a loss is never   *)
(* more than the entitlement: a threshold above it can be proved by        *)
(* nobody, and the circuit shows a double withdrawal, no more.             *)
(***************************************************************************)
THEOREM LossBounded ==
    ASSUME NEW x, NEW c, NEW i \in Impact, x.minimum_loss \in Word,
           proves(x, c, i)
    PROVE  /\ 0 < x.minimum_loss /\ x.minimum_loss <= Loss(i)
           /\ Loss(i) <= i.entitlement
PROOF
  <1>1. /\ i.entitlement \in Int /\ i.first_withdrawal \in Int
        /\ i.second_withdrawal \in Int /\ x.minimum_loss \in Int
    BY WordAssumption DEF Impact, Word
  <1>2. assert_private_impact(i, x.minimum_loss)
    BY DEF proves
  <1>3. /\ i.first_withdrawal <= i.entitlement
        /\ i.second_withdrawal <= i.entitlement
        /\ x.minimum_loss > 0 /\ Loss(i) >= x.minimum_loss
    BY <1>2, ImpactExact
  <1>4. QED
    BY <1>1, <1>3 DEF Loss
=============================================================================
