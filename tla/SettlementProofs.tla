-------------------------- MODULE SettlementProofs --------------------------
(***************************************************************************)
(* Theorems about Settlement and Verification, for every set of            *)
(* transactions, claims, requests and worker slots and every bound.        *)
(*                                                                         *)
(* None of the invariants of Settlement is inductive: what a handler       *)
(* writes depends on what it read before it waited.  IndInv adds what is   *)
(* true of those values for as long as they are held (HandlersSound), of   *)
(* the rows that refer to each other (RowsAgree) and of the attempts of a  *)
(* job (AttemptsLeft).                                                     *)
(***************************************************************************)
EXTENDS Verification, TLAPS

(* A job that was not given up has an attempt left. *)
AttemptsLeft == \A h \in Hashes : queue[h] # "failed" => attempts[h] < MaxAttempts

(* A claim row has the nullifier it is named by, and the row of a          *)
(* transaction refers to a claim row with the values of the transaction.   *)
RowsAgree ==
    /\ \A n \in Nullifiers :
          /\ claimStatus[n] = Absent <=> claimPublic[n] = None
          /\ claimPublic[n] # None =>
                /\ claimPublic[n] \in Drafts \cup {Call[h] : h \in Hashes}
                /\ claimPublic[n].nullifier = n
    /\ \A h \in Hashes :
          txClaim[h] # None => /\ txClaim[h] = Call[h].nullifier
                               /\ claimPublic[txClaim[h]] = Call[h]

(* A receipt, issued or about to be, that the ledger supports. *)
Backed(r) ==
    /\ outcome[r.hash] = "success"
    /\ r.claim = Call[r.hash]
    /\ r.claimId = Call[r.hash].nullifier

(* The values a handler holds are those of its transaction, and what it    *)
(* saw is still true: a row it saw still agrees with the transaction, a    *)
(* receipt it saw is still there, the ledger's answer still stands.        *)
Holding(p) ==
    /\ run[p].hash \in Hashes
    /\ run[p].pc \in {"record", "reconcile", "issueRead", "issue"} => run[p].claim \in Nullifiers
    /\ run[p].claim # None => run[p].claim = Call[run[p].hash].nullifier
    /\ run[p].claim # None /\ run[p].pc # "reconcile" =>
          claimPublic[run[p].claim] = Call[run[p].hash]
    /\ run[p].pc = "reconcile" =>
          /\ outcome[run[p].hash] = "success"
          /\ run[p].seen # Absent => claimPublic[run[p].claim] = Call[run[p].hash]
          /\ run[p].seen = "RECEIPT_ISSUED" => HasReceipt(run[p].claim)
    /\ run[p].pc = "reject" => outcome[run[p].hash] = "failed"
    /\ run[p].pc = "confirm" => outcome[run[p].hash] = "success"
    /\ run[p].pc = "issue" => /\ run[p].built \in Receipt
                              /\ run[p].built.id = <<p, run[p].claim, run[p].built.hash>>
                              /\ run[p].built.claimId = run[p].claim
                              /\ Backed(run[p].built)

HandlersSound ==
    \A p \in Handlers : /\ run[p].pc # "idle" => Holding(p)
                        /\ run[p].pc \in {"record", "enqueue", "reconcile"} => p \in Api

IndInv ==
    /\ TypeOK /\ AttemptsLeft /\ RowsAgree /\ HandlersSound
    /\ SettledStatusTrue /\ ReceiptBacked /\ ClaimStatusTrue

-----------------------------------------------------------------------------
(* What settling a job does, whichever way.                                *)

(* Settling a job, by completion or by a failed attempt, keeps its types.  *)
LEMMA JobTypes ==
    ASSUME TypeOK, AttemptsLeft, NEW h \in Hashes, queue[h] # "failed",
           CompleteJob(h) \/ FailAttempt(h)
    PROVE  /\ queue' \in [Hashes -> {"none", "waiting", "failed"} \cup Workers]
           /\ attempts' \in [Hashes -> 0 .. MaxAttempts]
           /\ AttemptsLeft'
  <1> USE SettlementAssumption
  <1>1. CASE CompleteJob(h)
    BY <1>1 DEF CompleteJob, TypeOK, AttemptsLeft
  <1>2. CASE FailAttempt(h)
    BY <1>2 DEF FailAttempt, LastAttempt, TypeOK, AttemptsLeft
  <1>3. QED
    BY <1>1, <1>2

(* A handler that returns or throws is idle again, and so are the types.   *)
LEMMA HandlerEnds ==
    ASSUME TypeOK, AttemptsLeft, NEW p \in Handlers, run[p].hash \in Hashes,
           Return(p) \/ Throw(p)
    PROVE  /\ queue' \in [Hashes -> {"none", "waiting", "failed"} \cup Workers]
           /\ attempts' \in [Hashes -> 0 .. MaxAttempts]
           /\ AttemptsLeft'
           /\ run' = [run EXCEPT ![p] = Idle]
           /\ run' \in [Handlers -> Local]
  <1>1. run' = [run EXCEPT ![p] = Idle]
    BY DEF Return, Throw
  <1>2. run' \in [Handlers -> Local]
    BY <1>1 DEF TypeOK, Local, Idle
  <1>3. CASE UNCHANGED jobs
    BY <1>1, <1>2, <1>3 DEF TypeOK, AttemptsLeft, jobs
  <1>4. CASE HoldsJob(p) /\ (CompleteJob(run[p].hash) \/ FailAttempt(run[p].hash))
    <2>1. queue[run[p].hash] # "failed"
      BY <1>4, SettlementAssumption DEF HoldsJob
    <2>2. QED
      BY <1>1, <1>2, <1>4, <2>1, JobTypes
  <1>5. QED
    BY <1>3, <1>4 DEF Return, Throw

(* Only the steps of a handler that is not idle need the facts about it.   *)
LEMMA BusyHandler ==
    ASSUME IndInv, NEW p \in Handlers, run[p].pc # "idle"
    PROVE  /\ Holding(p)
           /\ run[p].hash \in Hashes
           /\ run[p] \in Local
           /\ Call[run[p].hash] \in Claims
           /\ Call[run[p].hash].nullifier \in Nullifiers
  BY SettlementAssumption DEF IndInv, HandlersSound, Holding, TypeOK, Claims

-----------------------------------------------------------------------------
(* Types and attempts are preserved.                                       *)
LEMMA TypeStep ==
    ASSUME IndInv, [Next]_vars
    PROVE  TypeOK' /\ AttemptsLeft'
  <1> USE DEF IndInv, TypeOK, AttemptsLeft, environment, recovery, jobs, tables, vars
  <1>a1. ASSUME NEW h \in Hashes, NEW o \in {"success", "failed"}, Land(h, o)
       PROVE  TypeOK' /\ AttemptsLeft'
    BY <1>a1 DEF Land
  <1>a2. ASSUME NEW draft \in Drafts, CreateClaim(draft)
       PROVE  TypeOK' /\ AttemptsLeft'
    BY <1>a2, SettlementAssumption DEF CreateClaim, Claims, ClaimStatus
  <1>a3. ASSUME NEW a \in Api, NEW h \in Hashes, RecordRead(a, h)
       PROVE  TypeOK' /\ AttemptsLeft'
    BY <1>a3, SettlementAssumption
       DEF RecordRead, Claims, Local, Idle, ClaimStatus, Recordable, Handlers
  <1>a4. ASSUME NEW a \in Api, RecordCommit(a)
       PROVE  TypeOK' /\ AttemptsLeft'
    <2>1. run[a].hash \in Hashes /\ run[a].claim \in Nullifiers /\ run[a] \in Local
      BY <1>a4, BusyHandler DEF RecordCommit, Holding, Handlers
    <2>2. run' \in [Handlers -> Local]
      <3>1. run[a] \in Local /\ a \in Handlers
        BY <1>a4 DEF Handlers
      <3>2. [run[a] EXCEPT !.pc = "enqueue", !.seen = Absent] \in Local
        BY <3>1 DEF Local
      <3>3. run' = [run EXCEPT ![a] = [run[a] EXCEPT !.pc = "enqueue", !.seen = Absent]]
        BY <1>a4, <3>1 DEF RecordCommit, Local
      <3>4. QED
        BY <3>1, <3>2, <3>3
    <2>3. QED
      BY <1>a4, <2>1, <2>2 DEF RecordCommit, ClaimStatus, TxStatus
  <1>a5. ASSUME NEW a \in Api, Enqueue(a)
       PROVE  TypeOK' /\ AttemptsLeft'
    <2>1. run[a].hash \in Hashes
      BY <1>a5, BusyHandler DEF Enqueue, Handlers
    <2>2. QED
      BY <1>a5, <2>1 DEF Enqueue, Added, Local, Idle, Handlers
  <1>a6. ASSUME NEW a \in Api, NEW h \in Hashes, ReconcileRead(a, h)
       PROVE  TypeOK' /\ AttemptsLeft'
    BY <1>a6, SettlementAssumption DEF ReconcileRead, Claims, Local, Idle, Handlers
  <1>a7. ASSUME NEW a \in Api, ReconcileCommit(a)
       PROVE  TypeOK' /\ AttemptsLeft'
    <2>1. /\ run[a].hash \in Hashes /\ run[a].claim \in Nullifiers
          /\ Call[run[a].hash] \in Claims
      BY <1>a7, BusyHandler DEF ReconcileCommit, Holding, Handlers
    <2>2. run' \in [Handlers -> Local]
      <3>1. run[a] \in Local /\ a \in Handlers
        BY <1>a7 DEF Handlers
      <3>2. [run[a] EXCEPT !.pc = "issueRead", !.seen = Absent] \in Local
        BY <3>1 DEF Local
      <3>3. run' = [run EXCEPT ![a] = [run[a] EXCEPT !.pc = "issueRead", !.seen = Absent]]
        BY <1>a7, <3>1 DEF ReconcileCommit, Local
      <3>4. QED
        BY <3>1, <3>2, <3>3
    <2>3. QED
      BY <1>a7, <2>1, <2>2 DEF ReconcileCommit, ReconciledStatus, ClaimStatus, TxStatus
  <1>a8. ASSUME NEW a \in Api, ReconcileConflict(a)
       PROVE  TypeOK' /\ AttemptsLeft'
    <2>1. run[a].hash \in Hashes
      BY <1>a8, BusyHandler DEF ReconcileConflict, Handlers
    <2>2. QED
      BY <1>a8, <2>1, HandlerEnds
         DEF ReconcileConflict, TypeOK, ClaimStatus, TxStatus, NonTerminal, MoveClaim,
             RetryLater, Handlers, environment, recovery, tables, Fault, Receipt
  <1>a9. ASSUME NEW h \in Hashes, RecoverRegistration(h)
       PROVE  TypeOK' /\ AttemptsLeft'
    BY <1>a9 DEF RecoverRegistration, TxStatus
  <1>a10. ASSUME NEW p \in Handlers, IssueRead(p)
       PROVE  TypeOK' /\ AttemptsLeft'
    <2> DEFINE n == run[p].claim
    <2>1. n \in Nullifiers
      BY <1>a10, BusyHandler DEF IssueRead, Holding
    <2>2. PICK h \in ConfirmedFor(n) :
              run' = [run EXCEPT ![p] = [run[p] EXCEPT !.pc = "issue",
                                           !.built = [id |-> <<p, n, h>>, claimId |-> n, hash |-> h,
                                                      claim |-> claimPublic[n]]]]
      BY <1>a10 DEF IssueRead
    <2>3. claimPublic[n] \in Claims
      BY <2>1, <2>2, SettlementAssumption DEF ConfirmedFor, IndInv, RowsAgree
    <2>4. h \in Hashes
      BY DEF ConfirmedFor
    <2> DEFINE b == [id |-> <<p, n, h>>, claimId |-> n, hash |-> h, claim |-> claimPublic[n]]
    <2>5. b \in Receipt
      BY <2>1, <2>3, <2>4 DEF Receipt, ReceiptIds
    <2>6. run' = [run EXCEPT ![p] = [run[p] EXCEPT !.pc = "issue", !.built = b]]
      BY <2>2
    <2> HIDE DEF b, n
    <2>7. [run[p] EXCEPT !.pc = "issue", !.built = b] \in Local
      <3>1. run[p] \in Local
        OBVIOUS
      <3>2. QED
        BY <2>5, <3>1 DEF Local
    <2>8. run' \in [Handlers -> Local]
      BY <2>6, <2>7
    <2>9. QED
      BY <1>a10, <2>8 DEF IssueRead
  <1>a11. ASSUME NEW p \in Handlers, NothingToIssue(p)
       PROVE  TypeOK' /\ AttemptsLeft'
    <2>1. run[p].hash \in Hashes
      BY <1>a11, BusyHandler DEF NothingToIssue, Handlers
    <2>2. QED
      BY <1>a11, <2>1, HandlerEnds
         DEF NothingToIssue, TypeOK, ClaimStatus, TxStatus, NonTerminal, MoveClaim,
             RetryLater, Handlers, environment, recovery, tables, Fault, Receipt
  <1>a12. ASSUME NEW p \in Handlers, IssueCommit(p)
       PROVE  TypeOK' /\ AttemptsLeft'
    <2>1. run[p].hash \in Hashes /\ run[p].built \in Receipt
      BY <1>a12, BusyHandler DEF IssueCommit, Holding
    <2>2. QED
      BY <1>a12, <2>1, HandlerEnds
         DEF IssueCommit, TypeOK, ClaimStatus, environment, recovery, Receipt
  <1>a13. ASSUME NEW p \in Handlers, IssueConflict(p)
       PROVE  TypeOK' /\ AttemptsLeft'
    <2>1. run[p].hash \in Hashes
      BY <1>a13, BusyHandler DEF IssueConflict, Handlers
    <2>2. QED
      BY <1>a13, <2>1, HandlerEnds
         DEF IssueConflict, TypeOK, ClaimStatus, TxStatus, NonTerminal, MoveClaim,
             RetryLater, Handlers, environment, recovery, tables, Fault, Receipt
  <1>a14. ASSUME NEW w \in Workers, NEW h \in Hashes, WorkerSkip(w, h)
       PROVE  TypeOK' /\ AttemptsLeft'
    <2>1. queue[h] # "failed"
      BY <1>a14 DEF WorkerSkip
    <2>2. QED
      BY <1>a14, <2>1, JobTypes DEF WorkerSkip
  <1>a15. ASSUME NEW w \in Workers, NEW h \in Hashes, WorkerTake(w, h)
       PROVE  TypeOK' /\ AttemptsLeft'
    <2>1. txClaim[h] = None \/ txClaim[h] \in Nullifiers
      OBVIOUS
    <2>2. run' \in [Handlers -> Local]
      BY <1>a15, <2>1 DEF WorkerTake, Local, Idle, Handlers
    <2>3. QED
      BY <1>a15, <2>2 DEF WorkerTake
  <1>a16. ASSUME NEW w \in Workers, WorkerFetch(w)
       PROVE  TypeOK' /\ AttemptsLeft'
    <2>1. run[w].hash \in Hashes
      BY <1>a16, BusyHandler DEF WorkerFetch, Handlers
    <2>2. Verdict(outcome[run[w].hash]) \in {"pending", "reject", "confirm"}
      BY <2>1 DEF Verdict
    <2>3. run' \in [Handlers -> Local]
      BY <1>a16, <2>2 DEF WorkerFetch, Local, Handlers
    <2>4. QED
      BY <1>a16, <2>3 DEF WorkerFetch
  <1>a17. ASSUME NEW w \in Workers, WorkerPending(w)
       PROVE  TypeOK' /\ AttemptsLeft'
    <2>1. run[w].hash \in Hashes
      BY <1>a17, BusyHandler DEF WorkerPending, Handlers
    <2>2. QED
      BY <1>a17, <2>1, HandlerEnds
         DEF WorkerPending, TypeOK, ClaimStatus, TxStatus, NonTerminal, MoveClaim,
             RetryLater, Handlers, environment, recovery, tables, Fault, Receipt
  <1>a18. ASSUME NEW w \in Workers, WorkerReject(w)
       PROVE  TypeOK' /\ AttemptsLeft'
    <2>1. run[w].hash \in Hashes
      BY <1>a18, BusyHandler DEF WorkerReject, Handlers
    <2>2. QED
      BY <1>a18, <2>1, HandlerEnds
         DEF WorkerReject, TypeOK, ClaimStatus, TxStatus, NonTerminal, MoveClaim,
             RetryLater, Handlers, environment, recovery, tables, Fault, Receipt
  <1>a19. ASSUME NEW w \in Workers, WorkerConfirm(w)
       PROVE  TypeOK' /\ AttemptsLeft'
    <2>1. run[w].hash \in Hashes
      BY <1>a19, BusyHandler DEF WorkerConfirm, Handlers
    <2>2. claimStatus' \in [Nullifiers -> ClaimStatus \cup {Absent}]
      BY <1>a19 DEF WorkerConfirm, MoveClaim, ClaimStatus
    <2>3. CASE Return(w)
      BY <1>a19, <2>1, <2>2, <2>3, HandlerEnds DEF WorkerConfirm, TxStatus, Handlers
    <2>4. CASE ~Return(w)
      <3>1. run' \in [Handlers -> Local]
        BY <1>a19, <2>1, <2>4 DEF WorkerConfirm, Local, Handlers
      <3>2. QED
        BY <1>a19, <2>1, <2>2, <2>4, <3>1 DEF WorkerConfirm, TxStatus
    <2>5. QED
      BY <2>3, <2>4
  <1>a20. ASSUME NEW w \in Workers, WorkerRefused(w)
       PROVE  TypeOK' /\ AttemptsLeft'
    <2>1. run[w].hash \in Hashes
      BY <1>a20, BusyHandler DEF WorkerRefused, Handlers
    <2>2. QED
      BY <1>a20, <2>1, HandlerEnds
         DEF WorkerRefused, TypeOK, ClaimStatus, TxStatus, NonTerminal, MoveClaim,
             RetryLater, Handlers, environment, recovery, tables, Fault, Receipt
  <1>a21. CASE RecoverRead
    BY <1>a21 DEF RecoverRead
  <1>a22. ASSUME NEW h \in Hashes, RecoverAdd(h)
       PROVE  TypeOK' /\ AttemptsLeft'
    BY <1>a22 DEF RecoverAdd, Added
  <1>a23. ASSUME NEW p \in Handlers, HandlerFails(p)
       PROVE  TypeOK' /\ AttemptsLeft'
    <2>1. run[p].hash \in Hashes
      BY <1>a23, BusyHandler DEF HandlerFails
    <2>2. QED
      BY <1>a23, <2>1, HandlerEnds, SettlementAssumption DEF HandlerFails, Fault
  <1>a24. CASE Restart
    <2>1. run' \in [Handlers -> Local]
      BY <1>a24 DEF Restart, Local, Idle
    <2>2. QED
      BY <1>a24, <2>1, SettlementAssumption DEF Restart, Fault
  <1>a25. CASE RedisLoss
    <2>1. /\ queue' \in [Hashes -> {"none", "waiting", "failed"} \cup Workers]
          /\ attempts' \in [Hashes -> 0 .. MaxAttempts]
          /\ AttemptsLeft'
      BY <1>a25, SettlementAssumption DEF RedisLoss
    <2>2. faults' \in 0 .. MaxFaults
      BY <1>a25, SettlementAssumption DEF RedisLoss, Fault
    <2>3. redisKept' \in BOOLEAN
      BY <1>a25, Zenon DEF RedisLoss
    <2>4. QED
      BY <1>a25, <2>1, <2>2, <2>3 DEF RedisLoss
  <1>a26. CASE UNCHANGED vars
    BY <1>a26
  <1> QED
    BY <1>a1, <1>a2, <1>a3, <1>a4, <1>a5, <1>a6, <1>a7, <1>a8, <1>a9, <1>a10, <1>a11,
       <1>a12, <1>a13, <1>a14, <1>a15, <1>a16, <1>a17, <1>a18, <1>a19, <1>a20, <1>a21,
       <1>a22, <1>a23, <1>a24, <1>a25, <1>a26
       DEF Next, ApiStep, IssueStep, WorkerStep

-----------------------------------------------------------------------------
(* Which actions write which table.                                        *)
OnlyWriters ==
    /\ outcome' = outcome \/ \E h \in Hashes, o \in {"success", "failed"} : Land(h, o)
    /\ receipts' = receipts \/ \E p \in Handlers : IssueCommit(p)
    /\ claimPublic' = claimPublic \/ (\E d \in Drafts : CreateClaim(d))
                                  \/ (\E a \in Api : ReconcileCommit(a))
    /\ txClaim' = txClaim \/ \E a \in Api : RecordCommit(a) \/ ReconcileCommit(a)
    /\ txStatus' = txStatus
         \/ (\E a \in Api : RecordCommit(a) \/ ReconcileCommit(a))
         \/ (\E h \in Hashes : RecoverRegistration(h))
         \/ (\E w \in Workers : WorkerPending(w) \/ WorkerReject(w) \/ WorkerConfirm(w))
    /\ claimStatus' = claimStatus
         \/ (\E d \in Drafts : CreateClaim(d))
         \/ (\E a \in Api : RecordCommit(a) \/ ReconcileCommit(a))
         \/ (\E p \in Handlers : IssueCommit(p))
         \/ (\E w \in Workers : WorkerReject(w) \/ WorkerConfirm(w))

(* Each part of the database is written by the actions OnlyWriters names.  *)
LEMMA Writers ==
    ASSUME [Next]_vars
    PROVE  OnlyWriters
  <1> USE DEF tables, OnlyWriters
  <1>a1. ASSUME NEW h \in Hashes, NEW o \in {"success", "failed"}, Land(h, o)
       PROVE  OnlyWriters
    BY <1>a1 DEF Land, vars
  <1>a2. ASSUME NEW draft \in Drafts, CreateClaim(draft)
       PROVE  OnlyWriters
    BY <1>a2 DEF CreateClaim, vars
  <1>a3. ASSUME NEW a \in Api, NEW h \in Hashes, RecordRead(a, h)
       PROVE  OnlyWriters
    BY <1>a3 DEF RecordRead, vars
  <1>a4. ASSUME NEW a \in Api, RecordCommit(a)
       PROVE  OnlyWriters
    BY <1>a4 DEF RecordCommit, vars
  <1>a5. ASSUME NEW a \in Api, Enqueue(a)
       PROVE  OnlyWriters
    BY <1>a5 DEF Enqueue, vars
  <1>a6. ASSUME NEW a \in Api, NEW h \in Hashes, ReconcileRead(a, h)
       PROVE  OnlyWriters
    BY <1>a6 DEF ReconcileRead, vars
  <1>a7. ASSUME NEW a \in Api, ReconcileCommit(a)
       PROVE  OnlyWriters
    BY <1>a7 DEF ReconcileCommit, vars
  <1>a8. ASSUME NEW a \in Api, ReconcileConflict(a)
       PROVE  OnlyWriters
    BY <1>a8 DEF ReconcileConflict, vars
  <1>a9. ASSUME NEW h \in Hashes, RecoverRegistration(h)
       PROVE  OnlyWriters
    BY <1>a9 DEF RecoverRegistration, vars
  <1>a10. ASSUME NEW p \in Handlers, IssueRead(p)
       PROVE  OnlyWriters
    BY <1>a10 DEF IssueRead, vars
  <1>a11. ASSUME NEW p \in Handlers, NothingToIssue(p)
       PROVE  OnlyWriters
    BY <1>a11 DEF NothingToIssue, vars
  <1>a12. ASSUME NEW p \in Handlers, IssueCommit(p)
       PROVE  OnlyWriters
    BY <1>a12 DEF IssueCommit, vars
  <1>a13. ASSUME NEW p \in Handlers, IssueConflict(p)
       PROVE  OnlyWriters
    BY <1>a13 DEF IssueConflict, vars
  <1>a14. ASSUME NEW w \in Workers, NEW h \in Hashes, WorkerSkip(w, h)
       PROVE  OnlyWriters
    BY <1>a14 DEF WorkerSkip, vars
  <1>a15. ASSUME NEW w \in Workers, NEW h \in Hashes, WorkerTake(w, h)
       PROVE  OnlyWriters
    BY <1>a15 DEF WorkerTake, vars
  <1>a16. ASSUME NEW w \in Workers, WorkerFetch(w)
       PROVE  OnlyWriters
    BY <1>a16 DEF WorkerFetch, vars
  <1>a17. ASSUME NEW w \in Workers, WorkerPending(w)
       PROVE  OnlyWriters
    BY <1>a17 DEF WorkerPending, vars
  <1>a18. ASSUME NEW w \in Workers, WorkerReject(w)
       PROVE  OnlyWriters
    BY <1>a18 DEF WorkerReject, vars
  <1>a19. ASSUME NEW w \in Workers, WorkerConfirm(w)
       PROVE  OnlyWriters
    BY <1>a19 DEF WorkerConfirm, vars
  <1>a20. ASSUME NEW w \in Workers, WorkerRefused(w)
       PROVE  OnlyWriters
    BY <1>a20 DEF WorkerRefused, vars
  <1>a21. CASE RecoverRead
    BY <1>a21 DEF RecoverRead, vars
  <1>a22. ASSUME NEW h \in Hashes, RecoverAdd(h)
       PROVE  OnlyWriters
    BY <1>a22 DEF RecoverAdd, vars
  <1>a23. ASSUME NEW p \in Handlers, HandlerFails(p)
       PROVE  OnlyWriters
    BY <1>a23 DEF HandlerFails, vars
  <1>a24. CASE Restart
    BY <1>a24 DEF Restart, vars
  <1>a25. CASE RedisLoss
    BY <1>a25 DEF RedisLoss, vars
  <1>a26. CASE UNCHANGED vars
    BY <1>a26 DEF vars
  <1> QED
    BY <1>a1, <1>a2, <1>a3, <1>a4, <1>a5, <1>a6, <1>a7, <1>a8, <1>a9, <1>a10, <1>a11,
       <1>a12, <1>a13, <1>a14, <1>a15, <1>a16, <1>a17, <1>a18, <1>a19, <1>a20, <1>a21,
       <1>a22, <1>a23, <1>a24, <1>a25, <1>a26
       DEF Next, ApiStep, IssueStep, WorkerStep

-----------------------------------------------------------------------------
(* What a step never takes back: an outcome, the values of a claim row, a  *)
(* receipt.                                                                *)
LEMMA Lasting ==
    ASSUME IndInv, [Next]_vars
    PROVE  /\ \A h \in Hashes : outcome[h] # "absent" => outcome'[h] = outcome[h]
           /\ \A n \in Nullifiers : claimPublic[n] # None => claimPublic'[n] = claimPublic[n]
           /\ receipts \subseteq receipts'
           /\ \A n : HasReceipt(n) => HasReceipt(n)'
           /\ \A r \in Receipt : Backed(r) => Backed(r)'
  <1>0. OnlyWriters
    BY Writers
  <1>1. \A h \in Hashes : outcome[h] # "absent" => outcome'[h] = outcome[h]
    BY <1>0 DEF OnlyWriters, Land, IndInv, TypeOK
  <1>2. ASSUME NEW n \in Nullifiers, claimPublic[n] # None
        PROVE  claimPublic'[n] = claimPublic[n]
    <2>1. ASSUME NEW d \in Drafts, CreateClaim(d)
          PROVE  claimPublic'[n] = claimPublic[n]
      BY <1>2, <2>1 DEF CreateClaim, IndInv, RowsAgree, TypeOK
    <2>2. ASSUME NEW a \in Api, ReconcileCommit(a)
          PROVE  claimPublic'[n] = claimPublic[n]
      <3>1. Holding(a) /\ run[a].claim \in Nullifiers
        BY <2>2, BusyHandler DEF ReconcileCommit, Handlers, Holding
      <3>2. run[a].seen = Absent => claimPublic[run[a].claim] = None
        BY <2>2, <3>1 DEF ReconcileCommit, IndInv, RowsAgree
      <3>3. run[a].seen # Absent => claimPublic[run[a].claim] = Call[run[a].hash]
        BY <2>2, <3>1 DEF ReconcileCommit, Holding
      <3>4. QED
        BY <1>2, <2>2, <3>2, <3>3 DEF ReconcileCommit, IndInv, TypeOK
    <2>3. QED
      BY <1>0, <1>2, <2>1, <2>2 DEF OnlyWriters
  <1>3. receipts \subseteq receipts'
    BY <1>0 DEF OnlyWriters, IssueCommit
  <1>4. \A n : HasReceipt(n) => HasReceipt(n)'
    BY <1>3 DEF HasReceipt
  <1>5. \A r \in Receipt : Backed(r) => Backed(r)'
    BY <1>1 DEF Backed, Receipt
  <1>6. QED
    BY <1>1, <1>2, <1>3, <1>4, <1>5

-----------------------------------------------------------------------------
(* The rows keep referring to each other correctly.                        *)
LEMMA RowsStep ==
    ASSUME IndInv, [Next]_vars
    PROVE  RowsAgree'
  <1> USE DEF TypeOK
  <1>0. OnlyWriters /\ TypeOK
    BY Writers DEF IndInv
  <1>1. ASSUME NEW d \in Drafts, CreateClaim(d)
        PROVE  RowsAgree'
    <2>1. d.nullifier \in Nullifiers /\ d # None
      BY SettlementAssumption DEF Claims
    <2>2. \A h \in Hashes : txClaim[h] # None => txClaim[h] # d.nullifier
      BY <1>0, <1>1, SettlementAssumption DEF CreateClaim, IndInv, RowsAgree, Claims
    <2>3. QED
      BY <1>0, <1>1, <2>1, <2>2 DEF CreateClaim, IndInv, RowsAgree, Absent
  <1>2. ASSUME NEW a \in Api, RecordCommit(a)
        PROVE  RowsAgree'
    <2>1. /\ Holding(a) /\ run[a].pc = "record" /\ run[a].hash \in Hashes
          /\ run[a].claim \in Nullifiers
      BY <1>2, BusyHandler DEF RecordCommit, Handlers, Holding
    <2>2. /\ claimPublic[run[a].claim] = Call[run[a].hash]
          /\ run[a].claim = Call[run[a].hash].nullifier
      BY <2>1, SettlementAssumption DEF Holding
    <2>3. claimPublic[run[a].claim] # None
      BY <2>1, <2>2, SettlementAssumption
    <2>4. claimStatus[run[a].claim] # Absent
      BY <2>1, <2>3 DEF IndInv, RowsAgree
    <2>5. QED
      BY <1>0, <1>2, <2>1, <2>2, <2>3, <2>4 DEF RecordCommit, IndInv, RowsAgree, Absent
  <1>3. ASSUME NEW a \in Api, ReconcileCommit(a)
        PROVE  RowsAgree'
    <2> DEFINE h == run[a].hash
               n == run[a].claim
    <2>1. Holding(a) /\ h \in Hashes /\ n \in Nullifiers /\ n = Call[h].nullifier
      BY <1>3, BusyHandler, SettlementAssumption DEF ReconcileCommit, Handlers, Holding
    <2>2. Call[h] # None
      BY <2>1, SettlementAssumption
    <2>3. \A m \in Nullifiers : claimPublic[m] # None => claimPublic'[m] = claimPublic[m]
      BY Lasting
    <2>4. /\ claimPublic' = [claimPublic EXCEPT ![n] = Call[h]]
          /\ txClaim' = [txClaim EXCEPT ![h] = n]
          /\ claimStatus' = [claimStatus EXCEPT ![n] = ReconciledStatus(run[a].seen)]
      BY <1>3 DEF ReconcileCommit
    <2>5. ReconciledStatus(run[a].seen) # Absent
      BY DEF ReconciledStatus, Absent
    <2> HIDE DEF h, n
    <2>6. ASSUME NEW m \in Nullifiers
          PROVE  /\ claimStatus'[m] = Absent <=> claimPublic'[m] = None
                 /\ claimPublic'[m] # None =>
                       /\ claimPublic'[m] \in Drafts \cup {Call[g] : g \in Hashes}
                       /\ claimPublic'[m].nullifier = m
      <3>1. CASE m = n
        BY <1>0, <2>1, <2>2, <2>4, <2>5, <3>1
      <3>2. CASE m # n
        BY <1>0, <2>4, <3>2 DEF IndInv, RowsAgree
      <3>3. QED
        BY <3>1, <3>2
    <2>7. ASSUME NEW g \in Hashes, txClaim'[g] # None
          PROVE  /\ txClaim'[g] = Call[g].nullifier
                 /\ claimPublic'[txClaim'[g]] = Call[g]
      <3>1. CASE g = h
        BY <1>0, <2>1, <2>4, <3>1
      <3>2. CASE g # h
        <4>1. txClaim[g] # None /\ txClaim'[g] = txClaim[g] /\ txClaim[g] \in Nullifiers
          BY <1>0, <2>1, <2>4, <2>7, <3>2
        <4>2. /\ txClaim[g] = Call[g].nullifier
              /\ claimPublic[txClaim[g]] = Call[g]
          BY <4>1 DEF IndInv, RowsAgree
        <4>3. QED
          BY <2>3, <4>1, <4>2, SettlementAssumption
      <3>3. QED
        BY <3>1, <3>2
    <2>8. QED
      BY <2>6, <2>7 DEF RowsAgree
  <1>4. ASSUME NEW p \in Handlers, IssueCommit(p)
        PROVE  RowsAgree'
    <2>1. Backed(run[p].built) /\ run[p].built \in Receipt
      BY <1>4, BusyHandler DEF IssueCommit, Holding
    <2>2. run[p].built.claimId \in Nullifiers
      BY <2>1 DEF Receipt
    <2>3. claimPublic[run[p].built.claimId] # None
      BY <1>4, <2>2, BusyHandler, SettlementAssumption DEF IssueCommit, Holding
    <2>4. QED
      BY <1>0, <1>4, <2>2, <2>3 DEF IssueCommit, IndInv, RowsAgree, Absent
  <1>5. ASSUME NEW w \in Workers, WorkerReject(w) \/ WorkerConfirm(w)
        PROVE  RowsAgree'
    <2>1. Holding(w) /\ w \in Handlers /\ run[w].hash \in Hashes
      BY <1>5, BusyHandler DEF WorkerReject, WorkerConfirm, Handlers
    <2>2. run[w].claim \in Nullifiers => claimPublic[run[w].claim] # None
      BY <1>5, <2>1, SettlementAssumption DEF WorkerReject, WorkerConfirm, Holding
    <2>3. QED
      BY <1>0, <1>5, <2>1, <2>2
         DEF WorkerReject, WorkerConfirm, MoveClaim, IndInv, RowsAgree, Absent
  <1>6. CASE UNCHANGED <<claimStatus, claimPublic, txClaim>>
    BY <1>6 DEF IndInv, RowsAgree
  <1>7. QED
    BY <1>0, <1>1, <1>2, <1>3, <1>4, <1>5, <1>6 DEF OnlyWriters

-----------------------------------------------------------------------------
(* The handlers a step moves on; any other goes on as it was or ends.      *)
Movers ==
    \A q \in Handlers :
        \/ run'[q] \in {run[q], Idle}
        \/ q \in Api /\ \/ \E h \in Hashes : RecordRead(q, h) \/ ReconcileRead(q, h)
                        \/ RecordCommit(q) \/ ReconcileCommit(q)
        \/ IssueRead(q)
        \/ q \in Workers /\ \/ \E h \in Hashes : WorkerTake(q, h)
                            \/ WorkerFetch(q) \/ WorkerConfirm(q)

(* A handler moves on only by the steps Movers lists, or becomes idle.     *)
LEMMA OnlyMovers ==
    ASSUME TypeOK, [Next]_vars
    PROVE  Movers
  <1> USE DEF Movers, TypeOK
  <1>a1. ASSUME NEW h \in Hashes, NEW o \in {"success", "failed"}, Land(h, o)
       PROVE  Movers
    BY <1>a1 DEF Land, Handlers
  <1>a2. ASSUME NEW draft \in Drafts, CreateClaim(draft)
       PROVE  Movers
    BY <1>a2 DEF CreateClaim, Handlers
  <1>a3. ASSUME NEW a \in Api, NEW h \in Hashes, RecordRead(a, h)
       PROVE  Movers
    BY <1>a3 DEF RecordRead, Handlers
  <1>a4. ASSUME NEW a \in Api, RecordCommit(a)
       PROVE  Movers
    BY <1>a4 DEF RecordCommit, Handlers
  <1>a5. ASSUME NEW a \in Api, Enqueue(a)
       PROVE  Movers
    BY <1>a5 DEF Enqueue, Handlers
  <1>a6. ASSUME NEW a \in Api, NEW h \in Hashes, ReconcileRead(a, h)
       PROVE  Movers
    BY <1>a6 DEF ReconcileRead, Handlers
  <1>a7. ASSUME NEW a \in Api, ReconcileCommit(a)
       PROVE  Movers
    BY <1>a7 DEF ReconcileCommit, Handlers
  <1>a8. ASSUME NEW a \in Api, ReconcileConflict(a)
       PROVE  Movers
    BY <1>a8 DEF ReconcileConflict, Return, Throw, Handlers
  <1>a9. ASSUME NEW h \in Hashes, RecoverRegistration(h)
       PROVE  Movers
    BY <1>a9 DEF RecoverRegistration, Handlers
  <1>a10. ASSUME NEW p \in Handlers, IssueRead(p)
       PROVE  Movers
    BY <1>a10 DEF IssueRead, Handlers
  <1>a11. ASSUME NEW p \in Handlers, NothingToIssue(p)
       PROVE  Movers
    BY <1>a11 DEF NothingToIssue, Return, Throw, Handlers
  <1>a12. ASSUME NEW p \in Handlers, IssueCommit(p)
       PROVE  Movers
    BY <1>a12 DEF IssueCommit, Return, Throw, Handlers
  <1>a13. ASSUME NEW p \in Handlers, IssueConflict(p)
       PROVE  Movers
    BY <1>a13 DEF IssueConflict, Return, Throw, Handlers
  <1>a14. ASSUME NEW w \in Workers, NEW h \in Hashes, WorkerSkip(w, h)
       PROVE  Movers
    BY <1>a14 DEF WorkerSkip, Handlers
  <1>a15. ASSUME NEW w \in Workers, NEW h \in Hashes, WorkerTake(w, h)
       PROVE  Movers
    BY <1>a15 DEF WorkerTake, Handlers
  <1>a16. ASSUME NEW w \in Workers, WorkerFetch(w)
       PROVE  Movers
    BY <1>a16 DEF WorkerFetch, Handlers
  <1>a17. ASSUME NEW w \in Workers, WorkerPending(w)
       PROVE  Movers
    BY <1>a17 DEF WorkerPending, Return, Throw, RetryLater, Handlers
  <1>a18. ASSUME NEW w \in Workers, WorkerReject(w)
       PROVE  Movers
    BY <1>a18 DEF WorkerReject, Return, Throw, Handlers
  <1>a19. ASSUME NEW w \in Workers, WorkerConfirm(w)
       PROVE  Movers
    BY <1>a19 DEF WorkerConfirm, Return, Throw, Handlers
  <1>a20. ASSUME NEW w \in Workers, WorkerRefused(w)
       PROVE  Movers
    BY <1>a20 DEF WorkerRefused, Return, Throw, Handlers
  <1>a21. CASE RecoverRead
    BY <1>a21 DEF RecoverRead, Handlers
  <1>a22. ASSUME NEW h \in Hashes, RecoverAdd(h)
       PROVE  Movers
    BY <1>a22 DEF RecoverAdd, Handlers
  <1>a23. ASSUME NEW p \in Handlers, HandlerFails(p)
       PROVE  Movers
    BY <1>a23 DEF HandlerFails, Return, Throw, Handlers
  <1>a24. CASE Restart
    BY <1>a24 DEF Restart, Handlers
  <1>a25. CASE RedisLoss
    BY <1>a25 DEF RedisLoss, Handlers
  <1>a26. CASE UNCHANGED vars
    BY <1>a26 DEF vars
  <1> QED
    BY <1>a1, <1>a2, <1>a3, <1>a4, <1>a5, <1>a6, <1>a7, <1>a8, <1>a9, <1>a10, <1>a11,
       <1>a12, <1>a13, <1>a14, <1>a15, <1>a16, <1>a17, <1>a18, <1>a19, <1>a20, <1>a21,
       <1>a22, <1>a23, <1>a24, <1>a25, <1>a26
       DEF Next, ApiStep, IssueStep, WorkerStep

-----------------------------------------------------------------------------
(* What the handlers hold stays true while they wait, and is true when     *)
(* they read it.                                                           *)

Sound(q) == /\ run[q].pc # "idle" => Holding(q)
            /\ run[q].pc \in {"record", "enqueue", "reconcile"} => q \in Api

(* The wizard's nullifier fixes the claim commitment, so a claim row that  *)
(* passes the checks of a request has the values of its transaction.       *)
LEMMA MatchingRow ==
    ASSUME IndInv, NEW h \in Hashes, claimStatus[Call[h].nullifier] # Absent,
           RecordMatches(claimPublic[Call[h].nullifier], Call[h])
    PROVE  claimPublic[Call[h].nullifier] = Call[h]
  <1> DEFINE n == Call[h].nullifier
             c == claimPublic[n]
  <1>1. Call[h] \in Claims /\ n \in Nullifiers
    BY SettlementAssumption DEF Claims
  <1>2. c # None
    BY <1>1 DEF IndInv, RowsAgree
  <1>3. c \in Drafts \cup {Call[g] : g \in Hashes} /\ c.nullifier = n
    BY <1>1, <1>2 DEF IndInv, RowsAgree
  <1>4. c \in Claims
    BY <1>3, SettlementAssumption
  <1>5. c.claimCommitment = Call[h].claimCommitment
    BY <1>3, SealBinding
  <1>6. QED
    BY <1>1, <1>3, <1>4, <1>5 DEF RecordMatches, Claims

(* What handlers hold stays sound, although others write meanwhile.        *)
LEMMA HandlersStep ==
    ASSUME IndInv, [Next]_vars
    PROVE  HandlersSound'
  <1> SUFFICES ASSUME NEW q \in Handlers
               PROVE  Sound(q)'
    BY DEF HandlersSound, Sound
  <1> USE DEF TypeOK
  <1>0. TypeOK /\ Sound(q) /\ Movers
    BY OnlyMovers DEF IndInv, HandlersSound, Sound
  <1>a. \A h \in Hashes : Call[h] \in Claims /\ Call[h].nullifier \in Nullifiers
    BY SettlementAssumption DEF Claims
  <1>1. CASE run'[q] = run[q]
    <2>1. CASE run[q].pc = "idle"
      BY <1>1, <2>1 DEF Sound
    <2>2. CASE run[q].pc # "idle"
      <3>1. Holding(q) /\ run[q].hash \in Hashes /\ run[q] \in Local
        BY <2>2, BusyHandler
      <3>2. Call[run[q].hash] # None /\ Call[run[q].hash].nullifier \in Nullifiers
        BY <3>1, <1>a, SettlementAssumption
      <3>3. Holding(q)'
        BY <1>1, <3>1, <3>2, Lasting, SettlementAssumption DEF Holding
      <3>4. QED
        BY <1>0, <1>1, <3>3 DEF Sound
    <2>3. QED
      BY <2>1, <2>2
  <1>2. CASE run'[q] = Idle
    BY <1>2 DEF Sound, Idle
  <1>3. ASSUME NEW h \in Hashes, RecordRead(q, h), q \in Api
        PROVE  Sound(q)'
    <2>1. claimPublic[Call[h].nullifier] = Call[h]
      BY <1>3, MatchingRow DEF RecordRead, Recordable, Absent
    <2>2. run'[q] = [Idle EXCEPT !.pc = "record", !.hash = h, !.claim = Call[h].nullifier,
                                 !.seen = claimStatus[Call[h].nullifier]]
      BY <1>0, <1>3 DEF RecordRead
    <2>3. QED
      BY <1>3, <2>1, <2>2, <1>a DEF RecordRead, tables, Sound, Holding, Idle
  <1>4. ASSUME NEW h \in Hashes, ReconcileRead(q, h), q \in Api
        PROVE  Sound(q)'
    <2> DEFINE n == Call[h].nullifier
    <2>1. claimStatus[n] # Absent => claimPublic[n] = Call[h]
      BY <1>4, MatchingRow DEF ReconcileRead, ReconcileMatches
    <2>2. run'[q] = [Idle EXCEPT !.pc = "reconcile", !.hash = h, !.claim = n,
                                 !.seen = claimStatus[n]]
      BY <1>0, <1>4 DEF ReconcileRead
    <2>3. claimStatus[n] = "RECEIPT_ISSUED" => HasReceipt(n)
      BY <1>a DEF IndInv, ClaimStatusTrue
    <2>4. outcome[h] = "success" /\ UNCHANGED <<outcome, claimPublic, receipts>>
      BY <1>4 DEF ReconcileRead, SubmitClaimInvocation, tables
    <2>5. HasReceipt(n) => HasReceipt(n)'
      BY Lasting
    <2>6. QED
      BY <1>4, <2>1, <2>2, <2>3, <2>4, <2>5, <1>a DEF Sound, Holding, Idle
  <1>5. CASE q \in Api /\ RecordCommit(q)
    <2>1. Holding(q) /\ run[q] \in Local
      BY <1>5, BusyHandler DEF RecordCommit
    <2>2. run'[q] = [run[q] EXCEPT !.pc = "enqueue", !.seen = Absent]
      BY <1>0, <2>1, <1>5 DEF RecordCommit, Local
    <2>3. UNCHANGED <<outcome, claimPublic, receipts>>
      BY <1>5 DEF RecordCommit
    <2>4. q \in Api /\ run[q].pc = "record"
      BY <1>5 DEF RecordCommit
    <2>5. /\ run'[q].pc = "enqueue"
          /\ run'[q].hash = run[q].hash /\ run'[q].claim = run[q].claim
      BY <2>1, <2>2 DEF Local
    <2>6. QED
      BY <2>1, <2>3, <2>4, <2>5 DEF Sound, Holding
  <1>6. CASE q \in Api /\ ReconcileCommit(q)
    <2>1. Holding(q) /\ run[q] \in Local /\ run[q].hash \in Hashes /\ run[q].claim \in Nullifiers
      BY <1>6, BusyHandler DEF ReconcileCommit, Holding
    <2>2. run'[q] = [run[q] EXCEPT !.pc = "issueRead", !.seen = Absent]
      BY <1>0, <2>1, <1>6 DEF ReconcileCommit, Local
    <2>3. claimPublic'[run[q].claim] = Call[run[q].hash]
      BY <1>0, <1>6, <2>1 DEF ReconcileCommit
    <2>4. QED
      BY <1>6, <2>1, <2>2, <2>3 DEF Sound, Holding, Local
  <1>7. CASE IssueRead(q)
    <2> DEFINE n == run[q].claim
    <2>1. Holding(q) /\ run[q] \in Local /\ run[q].hash \in Hashes /\ n \in Nullifiers
      BY <1>7, BusyHandler DEF IssueRead, Holding
    <2>2. PICK h \in ConfirmedFor(n) :
              run' = [run EXCEPT ![q] = [run[q] EXCEPT !.pc = "issue",
                                           !.built = [id |-> <<q, n, h>>, claimId |-> n, hash |-> h,
                                                      claim |-> claimPublic[n]]]]
      BY <1>7 DEF IssueRead
    <2> DEFINE b == [id |-> <<q, n, h>>, claimId |-> n, hash |-> h, claim |-> claimPublic[n]]
    <2>3. h \in Hashes /\ txClaim[h] = n /\ txStatus[h] = "CONFIRMED"
      BY DEF ConfirmedFor
    <2>4. outcome[h] = "success" /\ n = Call[h].nullifier /\ claimPublic[n] = Call[h]
      BY <2>1, <2>3, SettlementAssumption DEF IndInv, SettledStatusTrue, RowsAgree
    <2>5. b \in Receipt /\ Backed(b)
      BY <2>1, <2>3, <2>4, <1>a DEF Receipt, ReceiptIds, Backed
    <2>6. run'[q] = [run[q] EXCEPT !.pc = "issue", !.built = b]
      BY <1>0, <2>2
    <2>7. /\ run'[q].pc = "issue" /\ run'[q].built = b
          /\ run'[q].hash = run[q].hash /\ run'[q].claim = n
      BY <2>1, <2>6 DEF Local
    <2>8. UNCHANGED <<outcome, claimPublic, receipts>>
      BY <1>7 DEF IssueRead, tables
    <2>9. PICK r \in Receipt : r = b
      BY <2>5
    <2>10. r.id = <<q, n, r.hash>> /\ r.claimId = n /\ Backed(r)'
      BY <2>5, <2>9, Lasting
    <2> HIDE DEF b
    <2>11. Holding(q)'
      BY <1>7, <2>1, <2>7, <2>8, <2>9, <2>10 DEF Holding, IssueRead, Backed
    <2>12. QED
      BY <2>7, <2>11 DEF Sound
  <1>8. ASSUME NEW h \in Hashes, WorkerTake(q, h), q \in Workers
        PROVE  Sound(q)'
    <2>1. /\ run'[q].pc = "fetch" /\ run'[q].hash = h /\ run'[q].claim = txClaim[h]
      BY <1>0, <1>8 DEF WorkerTake, Idle
    <2>2. txClaim[h] # None => /\ txClaim[h] = Call[h].nullifier
                               /\ claimPublic[txClaim[h]] = Call[h]
      BY DEF IndInv, RowsAgree
    <2>3. UNCHANGED claimPublic
      BY <1>8 DEF WorkerTake, tables
    <2>4. QED
      BY <2>1, <2>2, <2>3 DEF Sound, Holding
  <1>9. CASE q \in Workers /\ WorkerFetch(q)
    <2>1. Holding(q) /\ run[q] \in Local /\ run[q].hash \in Hashes
      BY <1>9, BusyHandler DEF WorkerFetch
    <2>2. run'[q] = [run[q] EXCEPT !.pc = Verdict(outcome[run[q].hash])]
      BY <1>0, <1>9 DEF WorkerFetch
    <2>3. UNCHANGED <<outcome, claimPublic>>
      BY <1>9 DEF WorkerFetch, tables
    <2>4. /\ run'[q].pc = Verdict(outcome[run[q].hash])
          /\ run'[q].hash = run[q].hash /\ run'[q].claim = run[q].claim
      BY <2>1, <2>2 DEF Local
    <2>5. /\ run'[q].pc \in {"pending", "reject", "confirm"}
          /\ run'[q].pc = "reject" => outcome[run[q].hash] = "failed"
          /\ run'[q].pc = "confirm" => outcome[run[q].hash] = "success"
      BY <1>0, <2>1, <2>4 DEF Verdict
    <2>6. QED
      BY <1>9, <2>1, <2>3, <2>4, <2>5 DEF Sound, Holding, WorkerFetch
  <1>10. CASE q \in Workers /\ WorkerConfirm(q) /\ run'[q] # Idle
    <2> DEFINE h == run[q].hash
    <2>1. Holding(q) /\ run[q] \in Local /\ h \in Hashes
      BY <1>10, BusyHandler DEF WorkerConfirm
    <2>2. /\ txClaim[h] # None
          /\ run' = [run EXCEPT ![q].pc = "issueRead", ![q].claim = txClaim[h],
                                ![q].seen = Absent]
      BY <1>0, <1>10 DEF WorkerConfirm, Return
    <2>3. run'[q].pc = "issueRead" /\ run'[q].claim = txClaim[h] /\ run'[q].hash = h
      BY <1>0, <2>1, <2>2 DEF Local
    <2>4. /\ txClaim[h] \in Nullifiers
          /\ txClaim[h] = Call[h].nullifier
          /\ claimPublic[txClaim[h]] = Call[h]
      BY <2>1, <2>2 DEF IndInv, RowsAgree
    <2>5. UNCHANGED claimPublic
      BY <1>10 DEF WorkerConfirm
    <2>6. QED
      BY <2>1, <2>3, <2>4, <2>5 DEF Sound, Holding
  <1>11. QED
    BY <1>0, <1>1, <1>2, <1>3, <1>4, <1>5, <1>6, <1>7, <1>8, <1>9, <1>10 DEF Movers

-----------------------------------------------------------------------------
(* The safety invariants are preserved.                                    *)

(* SettledStatusTrue is preserved, whoever settles the transaction.        *)
LEMMA SettledStep ==
    ASSUME IndInv, [Next]_vars
    PROVE  SettledStatusTrue'
  <1> USE DEF TypeOK, IndInv
  <1> SUFFICES ASSUME NEW h \in Hashes
               PROVE  /\ txStatus'[h] = "CONFIRMED" => outcome'[h] = "success"
                      /\ txStatus'[h] = "FAILED" => outcome'[h] = "failed"
    BY DEF SettledStatusTrue
  <1>1. OnlyWriters /\ \A g \in Hashes : outcome[g] # "absent" => outcome'[g] = outcome[g]
    BY Writers, Lasting
  <1>2. /\ txStatus[h] = "CONFIRMED" => outcome'[h] = "success"
        /\ txStatus[h] = "FAILED" => outcome'[h] = "failed"
    BY <1>1 DEF SettledStatusTrue
  <1>3. ASSUME NEW a \in Api, RecordCommit(a)
        PROVE  txStatus'[h] \in {txStatus[h], "SUBMITTED"}
    BY <1>3 DEF RecordCommit
  <1>4. ASSUME NEW a \in Api, ReconcileCommit(a), txStatus'[h] # txStatus[h]
        PROVE  txStatus'[h] = "CONFIRMED" /\ outcome'[h] = "success"
    <2>1. Holding(a)
      BY <1>4, BusyHandler DEF ReconcileCommit, Handlers
    <2>2. run[a].hash = h /\ txStatus'[h] = "CONFIRMED"
      BY <1>4 DEF ReconcileCommit
    <2>3. QED
      BY <1>1, <1>4, <2>1, <2>2 DEF Holding, ReconcileCommit
  <1>5. ASSUME NEW g \in Hashes, RecoverRegistration(g), txStatus'[h] # txStatus[h]
        PROVE  txStatus'[h] = "CONFIRMED" /\ outcome'[h] = "success"
    BY <1>5 DEF RecoverRegistration, recoverSubmitClaim, SubmitClaimInvocation
  <1>6. ASSUME NEW w \in Workers, WorkerPending(w)
        PROVE  txStatus'[h] \in {txStatus[h], "PENDING"}
    BY <1>6 DEF WorkerPending
  <1>7. ASSUME NEW w \in Workers, WorkerReject(w), txStatus'[h] # txStatus[h]
        PROVE  txStatus'[h] = "FAILED" /\ outcome'[h] = "failed"
    <2>1. Holding(w)
      BY <1>7, BusyHandler DEF WorkerReject, Handlers
    <2>2. run[w].hash = h /\ txStatus'[h] = "FAILED"
      BY <1>7 DEF WorkerReject
    <2>3. QED
      BY <1>1, <1>7, <2>1, <2>2 DEF Holding, WorkerReject
  <1>8. ASSUME NEW w \in Workers, WorkerConfirm(w), txStatus'[h] # txStatus[h]
        PROVE  txStatus'[h] = "CONFIRMED" /\ outcome'[h] = "success"
    <2>1. Holding(w)
      BY <1>8, BusyHandler DEF WorkerConfirm, Handlers
    <2>2. run[w].hash = h /\ txStatus'[h] = "CONFIRMED"
      BY <1>8 DEF WorkerConfirm
    <2>3. QED
      BY <1>1, <1>8, <2>1, <2>2 DEF Holding, WorkerConfirm
  <1>9. QED
    BY <1>1, <1>2, <1>3, <1>4, <1>5, <1>6, <1>7, <1>8 DEF OnlyWriters

(* ReceiptBacked is preserved: a receipt was built from a matching row.    *)
LEMMA ReceiptStep ==
    ASSUME IndInv, [Next]_vars
    PROVE  ReceiptBacked'
  <1> SUFFICES ASSUME NEW r \in receipts'
               PROVE  Backed(r)' /\ r.claimId = r.claim.nullifier
    BY DEF ReceiptBacked, Backed
  <1>1. \A b \in Receipt : Backed(b) => Backed(b)'
    BY Lasting
  <1>2. CASE r \in receipts
    BY <1>1, <1>2 DEF IndInv, TypeOK, ReceiptBacked, Backed
  <1>3. CASE r \notin receipts
    <2>1. PICK p \in Handlers : IssueCommit(p)
      BY <1>3, Writers DEF OnlyWriters
    <2>2. r = run[p].built
      BY <1>3, <2>1 DEF IssueCommit
    <2>3. r \in Receipt /\ Backed(r)
      BY <2>1, <2>2, BusyHandler DEF IssueCommit, Holding
    <2>4. QED
      BY <1>1, <2>3 DEF Backed
  <1>4. QED
    BY <1>2, <1>3

(* ClaimStatusTrue is preserved, by writes of stale statuses too.          *)
LEMMA StatusStep ==
    ASSUME IndInv, [Next]_vars
    PROVE  ClaimStatusTrue'
  <1> USE DEF TypeOK, IndInv
  <1> SUFFICES ASSUME NEW n \in Nullifiers
               PROVE  /\ claimStatus'[n] = "SUBMITTED" =>
                            \E h \in Hashes : txClaim'[h] = n /\ txStatus'[h] # Absent
                      /\ claimStatus'[n] = "CONFIRMED" =>
                            \E h \in Hashes : Call[h].nullifier = n /\ outcome'[h] = "success"
                      /\ claimStatus'[n] = "RECEIPT_ISSUED" => HasReceipt(n)'
                      /\ claimStatus'[n] = "TRANSACTION_FAILED" =>
                            \E h \in Hashes : Call[h].nullifier = n /\ outcome'[h] = "failed"
    BY DEF ClaimStatusTrue
  <1> DEFINE Goal == /\ claimStatus'[n] = "SUBMITTED" =>
                            \E h \in Hashes : txClaim'[h] = n /\ txStatus'[h] # Absent
                     /\ claimStatus'[n] = "CONFIRMED" =>
                            \E h \in Hashes : Call[h].nullifier = n /\ outcome'[h] = "success"
                     /\ claimStatus'[n] = "RECEIPT_ISSUED" => HasReceipt(n)'
                     /\ claimStatus'[n] = "TRANSACTION_FAILED" =>
                            \E h \in Hashes : Call[h].nullifier = n /\ outcome'[h] = "failed"
  <1>1. /\ OnlyWriters
        /\ \A g \in Hashes : outcome[g] # "absent" => outcome'[g] = outcome[g]
        /\ HasReceipt(n) => HasReceipt(n)'
    BY Writers, Lasting
  <1>2. ASSUME NEW h \in Hashes, txClaim[h] = n, txStatus[h] # Absent
        PROVE  txClaim'[h] = n /\ txStatus'[h] # Absent
    <2>1. n = Call[h].nullifier
      BY <1>2, SettlementAssumption DEF RowsAgree
    <2>2. ASSUME NEW a \in Api, RecordCommit(a) \/ ReconcileCommit(a), run[a].hash = h
          PROVE  run[a].claim = n
      <3>1. Holding(a) /\ run[a].claim \in Nullifiers
        BY <2>2, BusyHandler DEF RecordCommit, ReconcileCommit, Handlers, Holding
      <3>2. QED
        BY <2>1, <2>2, <3>1, SettlementAssumption DEF Holding
    <2>3. txClaim'[h] = n
      <3>1. ASSUME NEW a \in Api, RecordCommit(a) \/ ReconcileCommit(a)
            PROVE  txClaim' = [txClaim EXCEPT ![run[a].hash] = run[a].claim]
        BY <3>1 DEF RecordCommit, ReconcileCommit
      <3>2. ASSUME NEW a \in Api, RecordCommit(a) \/ ReconcileCommit(a)
            PROVE  txClaim'[h] = n
        BY <1>2, <2>2, <3>1, <3>2
      <3>3. QED
        BY <1>1, <1>2, <3>2 DEF OnlyWriters
    <2>4. txStatus'[h] # Absent
      BY <1>1, <1>2 DEF OnlyWriters, RecordCommit, ReconcileCommit, RecoverRegistration,
                        WorkerPending, WorkerReject, WorkerConfirm, Absent
    <2>5. QED
      BY <2>3, <2>4
  <1>3. CASE claimStatus'[n] = claimStatus[n]
    BY <1>1, <1>2, <1>3 DEF ClaimStatusTrue
  <1>4. ASSUME NEW d \in Drafts, CreateClaim(d), claimStatus'[n] # claimStatus[n]
        PROVE  Goal
    <2>1. claimStatus'[n] = "AWAITING_PROOF"
      BY <1>4 DEF CreateClaim
    <2>2. QED
      BY <2>1
  <1>5. ASSUME NEW a \in Api, RecordCommit(a), claimStatus'[n] # claimStatus[n]
        PROVE  Goal
    <2>1. run[a].hash \in Hashes
      BY <1>5, BusyHandler DEF RecordCommit, Handlers
    <2>2. run[a].claim = n /\ claimStatus'[n] = "SUBMITTED"
      BY <1>5 DEF RecordCommit
    <2>3. txClaim'[run[a].hash] = n /\ txStatus'[run[a].hash] # Absent
      BY <1>5, <2>1, <2>2 DEF RecordCommit, Absent
    <2>4. QED
      BY <2>1, <2>2, <2>3
  <1>6. ASSUME NEW a \in Api, ReconcileCommit(a), claimStatus'[n] # claimStatus[n]
        PROVE  Goal
    <2>1. run[a].claim = n /\ claimStatus'[n] = ReconciledStatus(run[a].seen)
      BY <1>6 DEF ReconcileCommit
    <2>2. run[a].hash \in Hashes /\ Holding(a) /\ run[a].pc = "reconcile"
      BY <1>6, BusyHandler DEF ReconcileCommit, Handlers
    <2>3. Call[run[a].hash].nullifier = n /\ outcome'[run[a].hash] = "success"
      BY <1>1, <2>1, <2>2, SettlementAssumption DEF Holding
    <2>4. claimStatus'[n] = "RECEIPT_ISSUED" => HasReceipt(n)
      BY <2>1, <2>2 DEF Holding, ReconciledStatus
    <2>5. claimStatus'[n] \in {"RECEIPT_ISSUED", "CONFIRMED"}
      BY <2>1 DEF ReconciledStatus
    <2>6. QED
      BY <1>1, <2>2, <2>3, <2>4, <2>5
  <1>7. ASSUME NEW p \in Handlers, IssueCommit(p), claimStatus'[n] # claimStatus[n]
        PROVE  Goal
    <2>1. run[p].built \in Receipt
      BY <1>7, BusyHandler DEF IssueCommit, Holding
    <2>2. run[p].built.claimId = n /\ claimStatus'[n] = "RECEIPT_ISSUED"
      BY <1>7, <2>1 DEF IssueCommit, Receipt
    <2>3. HasReceipt(n)'
      BY <1>7, <2>2 DEF IssueCommit, HasReceipt
    <2>4. QED
      BY <2>2, <2>3
  <1>8. ASSUME NEW w \in Workers, WorkerReject(w) \/ WorkerConfirm(w),
               claimStatus'[n] # claimStatus[n]
        PROVE  Goal
    <2>1. run[w].hash \in Hashes /\ Holding(w)
      BY <1>8, BusyHandler DEF WorkerReject, WorkerConfirm, Handlers
    <2>2. n = run[w].claim
      BY <1>8 DEF WorkerReject, WorkerConfirm, MoveClaim
    <2>3. n = Call[run[w].hash].nullifier
      BY <2>1, <2>2, SettlementAssumption DEF Holding
    <2>4. CASE WorkerReject(w)
      <3>1. claimStatus'[n] = "TRANSACTION_FAILED" /\ outcome'[run[w].hash] = "failed"
        BY <1>1, <2>1, <2>2, <2>4 DEF WorkerReject, MoveClaim, Holding
      <3>2. QED
        BY <2>1, <2>3, <3>1
    <2>5. CASE WorkerConfirm(w)
      <3>1. claimStatus'[n] = "CONFIRMED" /\ outcome'[run[w].hash] = "success"
        BY <1>1, <2>1, <2>2, <2>5 DEF WorkerConfirm, MoveClaim, Holding
      <3>2. QED
        BY <2>1, <2>3, <3>1
    <2>6. QED
      BY <1>8, <2>4, <2>5
  <1>9. Goal
    BY <1>1, <1>3, <1>4, <1>5, <1>6, <1>7, <1>8 DEF OnlyWriters
  <1>10. QED
    BY <1>9

(* The inductive invariant holds in the initial state.                     *)
LEMMA Initially == Init => IndInv
  <1> SUFFICES ASSUME Init
               PROVE  IndInv
    OBVIOUS
  <1> USE SettlementAssumption DEF Init
  <1>1. run \in [Handlers -> Local]
    BY DEF Idle, Local
  <1>2. TypeOK
    <2>1. recovering \in BOOLEAN /\ redisKept \in BOOLEAN
      BY Zenon
    <2>2. /\ attempts \in [Hashes -> 0 .. MaxAttempts]
          /\ faults \in 0 .. MaxFaults
      OBVIOUS
    <2>3. QED
      BY <1>1, <2>1, <2>2 DEF TypeOK
  <1>3. AttemptsLeft /\ RowsAgree
    BY DEF AttemptsLeft, RowsAgree
  <1>4. HandlersSound
    BY DEF HandlersSound, Idle
  <1>5. SettledStatusTrue /\ ReceiptBacked /\ ClaimStatusTrue
    BY DEF SettledStatusTrue, ReceiptBacked, ClaimStatusTrue, Absent
  <1>6. QED
    BY <1>2, <1>3, <1>4, <1>5 DEF IndInv

(* Every step preserves the inductive invariant.                           *)
LEMMA Inductive == IndInv /\ [Next]_vars => IndInv'
  <1> SUFFICES ASSUME IndInv, [Next]_vars
               PROVE  IndInv'
    OBVIOUS
  <1> QED
    BY TypeStep, RowsStep, HandlersStep, SettledStep, ReceiptStep, StatusStep DEF IndInv

(* The inductive invariant holds in every reachable state.                 *)
LEMMA Invariant == Spec => []IndInv
  BY Initially, Inductive, PTL DEF Spec

-----------------------------------------------------------------------------
(* Theorems.                                                               *)

(***************************************************************************)
(* The tables, the queue and the values the handlers hold keep their       *)
(* shapes, and no job takes more than its attempts.                        *)
(***************************************************************************)
THEOREM TypeCorrect == Spec => []TypeOK
  BY Invariant, PTL DEF IndInv

(***************************************************************************)
(* CONFIRMED and FAILED in the database mean success and failure on the    *)
(* ledger, whoever wrote them and whatever it read before.                 *)
(***************************************************************************)
THEOREM SettledCorrect == Spec => []SettledStatusTrue
  BY Invariant, PTL DEF IndInv

(***************************************************************************)
(* Every receipt states the public claim that the ledger accepted in its   *)
(* transaction.  This rests on SealBinding: recordTransaction does not     *)
(* compare the claim commitment, and the nullifier stands for it.          *)
(***************************************************************************)
THEOREM ReceiptsCorrect == Spec => []ReceiptBacked
  BY Invariant, PTL DEF IndInv

(***************************************************************************)
(* The status of a claim is never ahead of the facts it reports.           *)
(***************************************************************************)
THEOREM StatusCorrect == Spec => []ClaimStatusTrue
  BY Invariant, PTL DEF IndInv

-----------------------------------------------------------------------------
(* No unsettled transaction is forgotten.  What is needed beside IndInv:   *)
(* while Redis keeps its data a busy slot holds its job, alone, and a slot *)
(* that issues a receipt has seen its transaction settled for good.        *)

SlotsHoldJobs ==
    redisKept => \A w \in Workers : run[w].pc # "idle" => queue[run[w].hash] = w

IssuingIsSettled ==
    redisKept => \A w \in Workers : run[w].pc \in {"issueRead", "issue"} =>
                                        txStatus[run[w].hash] \in Settled

CarryInv == SlotsHoldJobs /\ IssuingIsSettled /\ UnfinishedWorkIsCarried

(* What a step may do to the jobs. *)
JobMoves ==
    \/ Restart \/ RedisLoss
    \/ \A h \in Hashes :
          \/ queue'[h] = queue[h]
          \/ queue[h] \in {"none", "waiting"} /\ queue'[h] \in {"waiting"} \cup Workers
          \/ queue[h] = "waiting" /\ txStatus'[h] \in Settled
          \/ \E w \in Workers :
                /\ queue[h] = w /\ run[w].hash = h /\ run'[w] = Idle
                /\ \/ queue'[h] # "none"
                   \/ txStatus'[h] \in Settled
                   \/ run[w].pc \in {"issueRead", "issue"} /\ txStatus' = txStatus

(* A handler that throws fails its own job only.                           *)
LEMMA ThrownJob ==
    ASSUME IndInv, NEW p \in Handlers, run[p].pc # "idle", Throw(p)
    PROVE  JobMoves
  <1>1. TypeOK /\ run[p].hash \in Hashes /\ run'[p] = Idle
    BY BusyHandler DEF Throw, IndInv, TypeOK
  <1>2. CASE UNCHANGED jobs
    BY <1>2 DEF JobMoves, jobs
  <1>3. CASE HoldsJob(p) /\ FailAttempt(run[p].hash)
    <2> DEFINE g == run[p].hash
    <2>1. p \in Workers /\ queue[g] = p
      BY <1>3 DEF HoldsJob
    <2>2. queue'[g] # "none"
      BY <1>1, <1>3 DEF FailAttempt, TypeOK
    <2>3. \A h \in Hashes : h # g => queue'[h] = queue[h]
      BY <1>1, <1>3 DEF FailAttempt, TypeOK
    <2>4. QED
      BY <1>1, <2>1, <2>2, <2>3 DEF JobMoves
  <1>4. QED
    BY <1>2, <1>3 DEF Throw

(* A handler that returns completes its own job only, and is settled.      *)
LEMMA ReturnedJob ==
    ASSUME IndInv, NEW p \in Handlers, run[p].pc # "idle", Return(p),
           \/ txStatus'[run[p].hash] \in Settled
           \/ run[p].pc \in {"issueRead", "issue"} /\ txStatus' = txStatus
    PROVE  JobMoves
  <1>1. TypeOK /\ run[p].hash \in Hashes /\ run'[p] = Idle
    BY BusyHandler DEF Return, IndInv, TypeOK
  <1>2. CASE UNCHANGED jobs
    BY <1>2 DEF JobMoves, jobs
  <1>3. CASE HoldsJob(p) /\ CompleteJob(run[p].hash)
    <2> DEFINE g == run[p].hash
    <2>1. p \in Workers /\ queue[g] = p
      BY <1>3 DEF HoldsJob
    <2>2. \A h \in Hashes : h # g => queue'[h] = queue[h]
      BY <1>1, <1>3 DEF CompleteJob, TypeOK
    <2>3. QED
      BY <1>1, <2>1, <2>2 DEF JobMoves
  <1>4. QED
    BY <1>2, <1>3 DEF Return

(* Jobs are added, taken, retried, given up and completed, no more.        *)
LEMMA OnlyJobMoves ==
    ASSUME IndInv, [Next]_vars
    PROVE  JobMoves
  <1> USE DEF jobs, tables
  <1> TypeOK
    BY DEF IndInv
  <1>a1. ASSUME NEW h \in Hashes, NEW o \in {"success", "failed"}, Land(h, o)
       PROVE  JobMoves
    BY <1>a1 DEF Land, JobMoves
  <1>a2. ASSUME NEW draft \in Drafts, CreateClaim(draft)
       PROVE  JobMoves
    BY <1>a2 DEF CreateClaim, JobMoves
  <1>a3. ASSUME NEW a \in Api, NEW h \in Hashes, RecordRead(a, h)
       PROVE  JobMoves
    BY <1>a3 DEF RecordRead, JobMoves
  <1>a4. ASSUME NEW a \in Api, RecordCommit(a)
       PROVE  JobMoves
    BY <1>a4 DEF RecordCommit, JobMoves
  <1>a5. ASSUME NEW a \in Api, Enqueue(a)
       PROVE  JobMoves
    BY <1>a5 DEF Enqueue, Added, JobMoves
  <1>a6. ASSUME NEW a \in Api, NEW h \in Hashes, ReconcileRead(a, h)
       PROVE  JobMoves
    BY <1>a6 DEF ReconcileRead, JobMoves
  <1>a7. ASSUME NEW a \in Api, ReconcileCommit(a)
       PROVE  JobMoves
    BY <1>a7 DEF ReconcileCommit, JobMoves
  <1>a8. ASSUME NEW a \in Api, ReconcileConflict(a)
       PROVE  JobMoves
    BY <1>a8, ThrownJob DEF ReconcileConflict, Handlers
  <1>a9. ASSUME NEW h \in Hashes, RecoverRegistration(h)
       PROVE  JobMoves
    BY <1>a9 DEF RecoverRegistration, JobMoves
  <1>a10. ASSUME NEW p \in Handlers, IssueRead(p)
       PROVE  JobMoves
    BY <1>a10 DEF IssueRead, JobMoves
  <1>a11. ASSUME NEW p \in Handlers, NothingToIssue(p)
       PROVE  JobMoves
    <2>1. p \in Handlers /\ run[p].pc # "idle"
      BY <1>a11 DEF NothingToIssue, Handlers
    <2>2. run[p].hash \in Hashes
      BY <2>1, BusyHandler
    <2>3. \/ txStatus'[run[p].hash] \in Settled
          \/ run[p].pc \in {"issueRead", "issue"} /\ txStatus' = txStatus
      BY <1>a11, <2>2 DEF NothingToIssue, TypeOK, tables, Settled
    <2>4. QED
      BY <1>a11, <2>1, <2>3, ReturnedJob DEF NothingToIssue, JobMoves, jobs
  <1>a12. ASSUME NEW p \in Handlers, IssueCommit(p)
       PROVE  JobMoves
    <2>1. p \in Handlers /\ run[p].pc # "idle"
      BY <1>a12 DEF IssueCommit, Handlers
    <2>2. run[p].hash \in Hashes
      BY <2>1, BusyHandler
    <2>3. \/ txStatus'[run[p].hash] \in Settled
          \/ run[p].pc \in {"issueRead", "issue"} /\ txStatus' = txStatus
      BY <1>a12, <2>2 DEF IssueCommit, TypeOK, tables, Settled
    <2>4. QED
      BY <1>a12, <2>1, <2>3, ReturnedJob DEF IssueCommit, JobMoves, jobs
  <1>a13. ASSUME NEW p \in Handlers, IssueConflict(p)
       PROVE  JobMoves
    BY <1>a13, ThrownJob DEF IssueConflict, Handlers
  <1>a14. ASSUME NEW w \in Workers, NEW h \in Hashes, WorkerSkip(w, h)
       PROVE  JobMoves
    BY <1>a14 DEF WorkerSkip, CompleteJob, JobMoves, TypeOK, tables
  <1>a15. ASSUME NEW w \in Workers, NEW h \in Hashes, WorkerTake(w, h)
       PROVE  JobMoves
    BY <1>a15 DEF WorkerTake, JobMoves, TypeOK
  <1>a16. ASSUME NEW w \in Workers, WorkerFetch(w)
       PROVE  JobMoves
    BY <1>a16 DEF WorkerFetch, JobMoves
  <1>a17. ASSUME NEW w \in Workers, WorkerPending(w)
       PROVE  JobMoves
    BY <1>a17, ThrownJob DEF WorkerPending, RetryLater, Handlers
  <1>a18. ASSUME NEW w \in Workers, WorkerReject(w)
       PROVE  JobMoves
    <2>1. w \in Handlers /\ run[w].pc # "idle"
      BY <1>a18 DEF WorkerReject, Handlers
    <2>2. run[w].hash \in Hashes
      BY <2>1, BusyHandler
    <2>3. \/ txStatus'[run[w].hash] \in Settled
          \/ run[w].pc \in {"issueRead", "issue"} /\ txStatus' = txStatus
      BY <1>a18, <2>2 DEF WorkerReject, TypeOK, tables, Settled
    <2>4. QED
      BY <1>a18, <2>1, <2>3, ReturnedJob DEF WorkerReject, JobMoves, jobs
  <1>a19. ASSUME NEW w \in Workers, WorkerConfirm(w)
       PROVE  JobMoves
    <2>1. w \in Handlers /\ run[w].pc # "idle"
      BY <1>a19 DEF WorkerConfirm, Handlers
    <2>2. run[w].hash \in Hashes
      BY <2>1, BusyHandler
    <2>3. \/ txStatus'[run[w].hash] \in Settled
          \/ run[w].pc \in {"issueRead", "issue"} /\ txStatus' = txStatus
      BY <1>a19, <2>2 DEF WorkerConfirm, TypeOK, tables, Settled
    <2>4. QED
      BY <1>a19, <2>1, <2>3, ReturnedJob DEF WorkerConfirm, JobMoves, jobs
  <1>a20. ASSUME NEW w \in Workers, WorkerRefused(w)
       PROVE  JobMoves
    BY <1>a20, ThrownJob DEF WorkerRefused, Handlers
  <1>a21. CASE RecoverRead
    BY <1>a21 DEF RecoverRead, JobMoves
  <1>a22. ASSUME NEW h \in Hashes, RecoverAdd(h)
       PROVE  JobMoves
    BY <1>a22 DEF RecoverAdd, Added, JobMoves
  <1>a23. ASSUME NEW p \in Handlers, HandlerFails(p)
       PROVE  JobMoves
    BY <1>a23, ThrownJob DEF HandlerFails, Handlers
  <1>a24. CASE Restart
    BY <1>a24 DEF JobMoves
  <1>a25. CASE RedisLoss
    BY <1>a25 DEF JobMoves
  <1>a26. CASE UNCHANGED vars
    BY <1>a26 DEF vars, JobMoves
  <1> QED
    BY <1>a1, <1>a2, <1>a3, <1>a4, <1>a5, <1>a6, <1>a7, <1>a8, <1>a9, <1>a10, <1>a11,
       <1>a12, <1>a13, <1>a14, <1>a15, <1>a16, <1>a17, <1>a18, <1>a19, <1>a20, <1>a21,
       <1>a22, <1>a23, <1>a24, <1>a25, <1>a26
       DEF Next, ApiStep, IssueStep, WorkerStep

(* A request about to add its job stays so until it has added it.          *)
EnqueueMoves ==
    Restart \/ \A a \in Api : run[a].pc = "enqueue" => run'[a] = run[a] \/ Enqueue(a)

(* A request that recorded a transaction adds its job, or is cut off.      *)
LEMMA OnlyEnqueueMoves ==
    ASSUME TypeOK, [Next]_vars
    PROVE  EnqueueMoves
  <1>a1. ASSUME NEW h \in Hashes, NEW o \in {"success", "failed"}, Land(h, o)
       PROVE  EnqueueMoves
    BY <1>a1 DEF Land, Handlers, TypeOK, EnqueueMoves
  <1>a2. ASSUME NEW draft \in Drafts, CreateClaim(draft)
       PROVE  EnqueueMoves
    BY <1>a2 DEF CreateClaim, Handlers, TypeOK, EnqueueMoves
  <1>a3. ASSUME NEW a \in Api, NEW h \in Hashes, RecordRead(a, h)
       PROVE  EnqueueMoves
    BY <1>a3 DEF RecordRead, Handlers, TypeOK, EnqueueMoves
  <1>a4. ASSUME NEW a \in Api, RecordCommit(a)
       PROVE  EnqueueMoves
    BY <1>a4 DEF RecordCommit, Handlers, TypeOK, EnqueueMoves
  <1>a5. ASSUME NEW a \in Api, Enqueue(a)
       PROVE  EnqueueMoves
    BY <1>a5 DEF Enqueue, Added, TypeOK, Handlers, EnqueueMoves
  <1>a6. ASSUME NEW a \in Api, NEW h \in Hashes, ReconcileRead(a, h)
       PROVE  EnqueueMoves
    BY <1>a6 DEF ReconcileRead, Handlers, TypeOK, EnqueueMoves
  <1>a7. ASSUME NEW a \in Api, ReconcileCommit(a)
       PROVE  EnqueueMoves
    BY <1>a7 DEF ReconcileCommit, Handlers, TypeOK, EnqueueMoves
  <1>a8. ASSUME NEW a \in Api, ReconcileConflict(a)
       PROVE  EnqueueMoves
    BY <1>a8 DEF ReconcileConflict, Throw, Return, Handlers, TypeOK, EnqueueMoves
  <1>a9. ASSUME NEW h \in Hashes, RecoverRegistration(h)
       PROVE  EnqueueMoves
    BY <1>a9 DEF RecoverRegistration, Handlers, TypeOK, EnqueueMoves
  <1>a10. ASSUME NEW p \in Handlers, IssueRead(p)
       PROVE  EnqueueMoves
    BY <1>a10 DEF IssueRead, Handlers, TypeOK, EnqueueMoves
  <1>a11. ASSUME NEW p \in Handlers, NothingToIssue(p)
       PROVE  EnqueueMoves
    BY <1>a11 DEF NothingToIssue, Throw, Return, Handlers, TypeOK, EnqueueMoves
  <1>a12. ASSUME NEW p \in Handlers, IssueCommit(p)
       PROVE  EnqueueMoves
    BY <1>a12 DEF IssueCommit, Throw, Return, Handlers, TypeOK, EnqueueMoves
  <1>a13. ASSUME NEW p \in Handlers, IssueConflict(p)
       PROVE  EnqueueMoves
    BY <1>a13 DEF IssueConflict, Throw, Return, Handlers, TypeOK, EnqueueMoves
  <1>a14. ASSUME NEW w \in Workers, NEW h \in Hashes, WorkerSkip(w, h)
       PROVE  EnqueueMoves
    BY <1>a14 DEF WorkerSkip, Handlers, TypeOK, EnqueueMoves
  <1>a15. ASSUME NEW w \in Workers, NEW h \in Hashes, WorkerTake(w, h)
       PROVE  EnqueueMoves
    BY <1>a15 DEF WorkerTake, Handlers, TypeOK, EnqueueMoves
  <1>a16. ASSUME NEW w \in Workers, WorkerFetch(w)
       PROVE  EnqueueMoves
    BY <1>a16 DEF WorkerFetch, Handlers, TypeOK, EnqueueMoves
  <1>a17. ASSUME NEW w \in Workers, WorkerPending(w)
       PROVE  EnqueueMoves
    BY <1>a17 DEF WorkerPending, Throw, Return, RetryLater, Handlers, TypeOK, EnqueueMoves
  <1>a18. ASSUME NEW w \in Workers, WorkerReject(w)
       PROVE  EnqueueMoves
    BY <1>a18 DEF WorkerReject, Throw, Return, Handlers, TypeOK, EnqueueMoves
  <1>a19. ASSUME NEW w \in Workers, WorkerConfirm(w)
       PROVE  EnqueueMoves
    BY <1>a19 DEF WorkerConfirm, Throw, Return, Handlers, TypeOK, EnqueueMoves
  <1>a20. ASSUME NEW w \in Workers, WorkerRefused(w)
       PROVE  EnqueueMoves
    BY <1>a20 DEF WorkerRefused, Throw, Return, Handlers, TypeOK, EnqueueMoves
  <1>a21. CASE RecoverRead
    BY <1>a21 DEF RecoverRead, Handlers, TypeOK, EnqueueMoves
  <1>a22. ASSUME NEW h \in Hashes, RecoverAdd(h)
       PROVE  EnqueueMoves
    BY <1>a22 DEF RecoverAdd, Handlers, TypeOK, EnqueueMoves
  <1>a23. ASSUME NEW p \in Handlers, HandlerFails(p)
       PROVE  EnqueueMoves
    BY <1>a23 DEF HandlerFails, Throw, Return, Handlers, TypeOK, EnqueueMoves
  <1>a24. CASE Restart
    BY <1>a24 DEF EnqueueMoves
  <1>a25. CASE RedisLoss
    BY <1>a25 DEF RedisLoss, Handlers, TypeOK, EnqueueMoves
  <1>a26. CASE UNCHANGED vars
    BY <1>a26 DEF vars, TypeOK, EnqueueMoves
  <1> QED
    BY <1>a1, <1>a2, <1>a3, <1>a4, <1>a5, <1>a6, <1>a7, <1>a8, <1>a9, <1>a10, <1>a11,
       <1>a12, <1>a13, <1>a14, <1>a15, <1>a16, <1>a17, <1>a18, <1>a19, <1>a20, <1>a21,
       <1>a22, <1>a23, <1>a24, <1>a25, <1>a26
       DEF Next, ApiStep, IssueStep, WorkerStep

(* Only a loss of Redis ends redisKept.                                    *)
LEMMA RedisKeptStep ==
    ASSUME [Next]_vars
    PROVE  RedisLoss \/ UNCHANGED redisKept
  BY DEF Next, ApiStep, IssueStep, WorkerStep, vars, environment, Land, CreateClaim,
         RecordRead, RecordCommit, Enqueue, ReconcileRead, ReconcileCommit,
         ReconcileConflict, RecoverRegistration, IssueRead, NothingToIssue, IssueCommit,
         IssueConflict, WorkerSkip, WorkerTake, WorkerFetch, WorkerPending, WorkerReject,
         WorkerConfirm, WorkerRefused, HandlerFails, RecoverRead, RecoverAdd, Restart

(* Only a start of the process and its recovery touch what is to recover.  *)
LEMMA RecoveryStep ==
    ASSUME [Next]_vars
    PROVE  Restart \/ RecoverRead \/ (\E g \in Hashes : RecoverAdd(g)) \/ UNCHANGED recovery
  BY DEF Next, ApiStep, IssueStep, WorkerStep, vars, recovery, Land, CreateClaim,
         RecordRead, RecordCommit, Enqueue, ReconcileRead, ReconcileCommit,
         ReconcileConflict, RecoverRegistration, IssueRead, NothingToIssue, IssueCommit,
         IssueConflict, WorkerSkip, WorkerTake, WorkerFetch, WorkerPending, WorkerReject,
         WorkerConfirm, WorkerRefused, HandlerFails, RedisLoss

(* The carrying invariant is preserved: a recorded transaction keeps its   *)
(* job, or the request or the recovery that adds it, until it is settled.  *)
LEMMA CarryStep ==
    ASSUME IndInv, CarryInv, [Next]_vars
    PROVE  CarryInv'
  <1>0. /\ TypeOK /\ JobMoves /\ Movers /\ OnlyWriters /\ EnqueueMoves
        /\ Workers \subseteq Handlers /\ Api \subseteq Handlers
    BY OnlyJobMoves, OnlyMovers, Writers, OnlyEnqueueMoves DEF IndInv, Handlers
  <1>1. redisKept' => redisKept /\ ~RedisLoss
    BY Zenon, RedisKeptStep DEF RedisLoss
  <1>r. ASSUME Restart, NEW w \in Handlers
        PROVE  run'[w] = Idle
    <2>1. run' = [p \in Handlers |-> Idle]
      BY <1>r, Zenon DEF Restart
    <2>2. QED
      BY <2>1
  <1>2. ASSUME redisKept', NEW w \in Workers, run'[w].pc # "idle"
        PROVE  /\ queue'[run'[w].hash] = w
               /\ run'[w].hash = run[w].hash \/ run'[w].pc = "fetch"
    <2>2. run'[w] # Idle
      BY <1>2 DEF Idle
    <2>1. ~Restart
      BY <1>0, <1>r, <2>2
    <2>3. ASSUME run[w].pc # "idle"
          PROVE  queue'[run[w].hash] = w
      <3>1. queue[run[w].hash] = w /\ run[w].hash \in Hashes
        BY <1>0, <1>1, <1>2, <2>3, BusyHandler DEF CarryInv, SlotsHoldJobs
      <3>2. w \notin {"none", "waiting", "failed"}
        BY SettlementAssumption
      <3>3. QED
        BY <1>0, <1>1, <1>2, <2>1, <2>2, <3>1, <3>2 DEF JobMoves
    <2>4. ASSUME NEW h \in Hashes, WorkerTake(w, h)
          PROVE  queue'[run'[w].hash] = w /\ run'[w].pc = "fetch"
      BY <1>0, <2>4 DEF WorkerTake, TypeOK, Idle
    <2>5. ASSUME IssueRead(w) \/ WorkerFetch(w) \/ WorkerConfirm(w)
          PROVE  run[w].pc # "idle" /\ run'[w].hash = run[w].hash
      <3>1. run[w].pc # "idle" /\ run[w] \in Local
        BY <1>0, <2>5 DEF IssueRead, WorkerFetch, WorkerConfirm, TypeOK
      <3>2. CASE IssueRead(w)
        BY <1>0, <3>1, <3>2 DEF IssueRead, TypeOK, Local
      <3>3. CASE WorkerFetch(w)
        BY <1>0, <3>1, <3>3 DEF WorkerFetch, TypeOK, Local
      <3>4. CASE WorkerConfirm(w)
        BY <1>0, <2>2, <3>1, <3>4 DEF WorkerConfirm, Return, TypeOK, Local
      <3>5. QED
        BY <2>5, <3>2, <3>3, <3>4, <3>1
    <2>6. w \notin Api
      BY SettlementAssumption
    <2>7. CASE run'[w] = run[w]
      BY <1>2, <2>3, <2>7
    <2>8. QED
      BY <1>0, <2>2, <2>3, <2>4, <2>5, <2>6, <2>7 DEF Movers
  <1>3. SlotsHoldJobs'
    BY <1>2 DEF SlotsHoldJobs
  <1>4. IssuingIsSettled'
    <2> SUFFICES ASSUME redisKept', NEW w \in Workers, run'[w].pc \in {"issueRead", "issue"}
                 PROVE  txStatus'[run'[w].hash] \in Settled
      BY DEF IssuingIsSettled
    <2> DEFINE h == run[w].hash
    <2>1. /\ run'[w].hash = h /\ queue'[h] = w /\ run'[w] # Idle /\ ~Restart
      <3>1. run'[w] # Idle /\ run'[w].pc \notin {"idle", "fetch"}
        BY DEF Idle
      <3>2. QED
        BY <1>0, <1>2, <1>r, <3>1
    <2>2. \/ WorkerConfirm(w)
          \/ run[w].pc \in {"issueRead", "issue"}
      <3>1. ASSUME NEW g \in Hashes, WorkerTake(w, g)
            PROVE  run'[w].pc = "fetch"
        BY <1>0, <3>1 DEF WorkerTake, TypeOK, Idle
      <3>2. ASSUME WorkerFetch(w)
            PROVE  run'[w].pc \in {"pending", "reject", "confirm"}
        <4>1. run[w].hash \in Hashes
          BY <1>0, <3>2, BusyHandler DEF WorkerFetch
        <4>2. Verdict(outcome[run[w].hash]) \in {"pending", "reject", "confirm"}
          BY <1>0, <4>1 DEF TypeOK, Verdict
        <4>3. QED
          BY <1>0, <3>2, <4>2 DEF WorkerFetch, TypeOK, Local
      <3>3. w \notin Api
        BY SettlementAssumption
      <3>4. IssueRead(w) => run[w].pc = "issueRead"
        BY DEF IssueRead
      <3>5. QED
        BY <1>0, <2>1, <3>1, <3>2, <3>3, <3>4 DEF Movers
    <2>3. h \in Hashes /\ run[w].pc # "idle"
      BY <1>0, <2>2, BusyHandler DEF WorkerConfirm
    <2>4. CASE WorkerConfirm(w)
      BY <1>0, <2>1, <2>3, <2>4 DEF WorkerConfirm, TypeOK, Settled
    <2>5. CASE run[w].pc \in {"issueRead", "issue"}
      <3>1. txStatus[h] \in Settled /\ queue[h] = w
        BY <1>1, <2>3, <2>5 DEF CarryInv, IssuingIsSettled, SlotsHoldJobs
      <3>2. ASSUME NEW v \in Workers, WorkerPending(v), run[v].hash = h
            PROVE  FALSE
        <4>1. queue[h] = v
          BY <1>1, <3>2 DEF CarryInv, SlotsHoldJobs, WorkerPending
        <4>2. QED
          BY <2>5, <3>1, <3>2, <4>1 DEF WorkerPending
      <3>3. ASSUME NEW v \in Workers, WorkerPending(v)
            PROVE  txStatus'[h] = txStatus[h]
        BY <1>0, <2>3, <3>2, <3>3 DEF WorkerPending, TypeOK
      <3>4. ASSUME NEW a \in Api, RecordCommit(a)
            PROVE  txStatus'[h] = txStatus[h]
        BY <1>0, <2>3, <3>1, <3>4 DEF RecordCommit, TypeOK, Settled, Absent
      <3>5. ASSUME NEW a \in Api, ReconcileCommit(a)
            PROVE  txStatus'[h] \in Settled
        BY <1>0, <2>3, <3>1, <3>5 DEF ReconcileCommit, TypeOK, Settled
      <3>6. ASSUME NEW g \in Hashes, RecoverRegistration(g)
            PROVE  txStatus'[h] \in Settled
        BY <1>0, <2>3, <3>1, <3>6 DEF RecoverRegistration, TypeOK, Settled
      <3>7. ASSUME NEW v \in Workers, WorkerReject(v) \/ WorkerConfirm(v)
            PROVE  txStatus'[h] \in Settled
        BY <1>0, <2>3, <3>1, <3>7 DEF WorkerReject, WorkerConfirm, TypeOK, Settled
      <3>8. QED
        BY <1>0, <2>1, <3>1, <3>3, <3>4, <3>5, <3>6, <3>7 DEF OnlyWriters
    <2>6. QED
      BY <2>1, <2>2, <2>4, <2>5
  <1>5. UnfinishedWorkIsCarried'
    <2> SUFFICES ASSUME redisKept', NEW h \in Hashes, txStatus'[h] \in NonTerminal,
                        ~recovering'
                 PROVE  \/ queue'[h] # "none"
                        \/ h \in todo'
                        \/ \E a \in Api : run'[a].pc = "enqueue" /\ run'[a].hash = h
      BY DEF UnfinishedWorkIsCarried
    <2>1. ~Restart /\ ~RedisLoss /\ redisKept
      BY <1>1 DEF Restart
    <2>2. CASE txStatus[h] \notin NonTerminal
      <3>1. \/ \E a \in Api : RecordCommit(a) /\ run[a].hash = h
            \/ \E w \in Workers : WorkerPending(w) /\ run[w].hash = h
        BY <1>0, <2>2 DEF OnlyWriters, RecordCommit, ReconcileCommit, RecoverRegistration,
               WorkerPending, WorkerReject, WorkerConfirm, TypeOK, NonTerminal
      <3>2. ASSUME NEW a \in Api, RecordCommit(a), run[a].hash = h
            PROVE  run'[a].pc = "enqueue" /\ run'[a].hash = h
        BY <1>0, <3>2 DEF RecordCommit, TypeOK, Local
      <3>3. ASSUME NEW w \in Workers, WorkerPending(w), run[w].hash = h
            PROVE  queue'[h] # "none"
        <4>1. queue[h] = w
          BY <2>1, <3>3 DEF CarryInv, SlotsHoldJobs, WorkerPending
        <4>2. FailAttempt(h)
          BY <3>3, <4>1 DEF WorkerPending, RetryLater, Throw, HoldsJob
        <4>3. QED
          BY <1>0, <4>2 DEF FailAttempt, TypeOK
      <3>4. QED
        BY <3>1, <3>2, <3>3
    <2>3. CASE txStatus[h] \in NonTerminal /\ queue[h] # "none"
      <3>1. txStatus'[h] \notin Settled
        BY DEF NonTerminal, Settled
      <3>2. ASSUME NEW w \in Workers, queue[h] = w, run[w].hash = h,
                   run[w].pc \in {"issueRead", "issue"}
            PROVE  FALSE
        BY <2>1, <2>3, <3>2 DEF CarryInv, IssuingIsSettled, NonTerminal, Settled
      <3>3. QED
        BY <1>0, <2>1, <2>3, <3>1, <3>2, SettlementAssumption DEF JobMoves
    <2>4. CASE txStatus[h] \in NonTerminal /\ (recovering \/ h \in todo)
      <3>1. \/ RecoverRead
            \/ \E g \in Hashes : RecoverAdd(g)
            \/ UNCHANGED recovery
        BY <2>1, RecoveryStep
      <3>2. CASE RecoverRead
        BY <2>4, <3>2 DEF RecoverRead, Recoverable
      <3>3. ASSUME NEW g \in Hashes, RecoverAdd(g)
            PROVE  queue'[h] # "none" \/ h \in todo'
        BY <2>4, <3>3 DEF RecoverAdd, Added
      <3>4. CASE UNCHANGED recovery
        BY <2>4, <3>4 DEF recovery
      <3>5. QED
        BY <3>1, <3>2, <3>3, <3>4
    <2>5. ASSUME txStatus[h] \in NonTerminal,
                 NEW a \in Api, run[a].pc = "enqueue", run[a].hash = h
          PROVE  \/ queue'[h] # "none"
                 \/ run'[a].pc = "enqueue" /\ run'[a].hash = h
      <3>1. run'[a] = run[a] \/ Enqueue(a)
        BY <1>0, <2>1, <2>5 DEF EnqueueMoves
      <3>2. CASE Enqueue(a)
        BY <2>5, <3>2 DEF Enqueue, Added
      <3>3. QED
        BY <2>5, <3>1, <3>2
    <2>6. QED
      BY <2>1, <2>2, <2>3, <2>4, <2>5 DEF CarryInv, UnfinishedWorkIsCarried
  <1>6. QED
    BY <1>3, <1>4, <1>5 DEF CarryInv

(***************************************************************************)
(* While Redis keeps its data, every unsettled transaction has a job or    *)
(* somebody who will add it, across crashes between commit and enqueue.    *)
(***************************************************************************)
THEOREM NothingForgotten == Spec => []UnfinishedWorkIsCarried
  <1>1. Init => CarryInv
    BY DEF Init, CarryInv, SlotsHoldJobs, IssuingIsSettled, UnfinishedWorkIsCarried,
           NonTerminal, Absent, Handlers, Idle
  <1>2. IndInv /\ CarryInv /\ [Next]_vars => CarryInv'
    BY CarryStep
  <1>3. CarryInv => UnfinishedWorkIsCarried
    BY DEF CarryInv
  <1>4. QED
    BY <1>1, <1>2, <1>3, Invariant, PTL DEF Spec

-----------------------------------------------------------------------------
(* Settlement implements ReceiptLedger.                                    *)

(* A success on the ledger is an Accept of the receipt ledger, anything    *)
(* else Stellar answers changes nothing there.                             *)
LEMMA LandAccepts ==
    ASSUME IndInv, NEW h \in Hashes, NEW o \in {"success", "failed"}, Land(h, o)
    PROVE  Receipts!ReceiptNext \/ UNCHANGED <<AcceptedClaims, Issued>>
  <1>1. outcome \in [Hashes -> {"absent", "success", "failed"}] /\ Call[h] \in Claims
    BY SettlementAssumption DEF IndInv, TypeOK
  <1>2. UNCHANGED Issued
    BY DEF Land, tables, Issued
  <1>3. CASE o = "failed"
    <2>1. \A g \in Hashes : outcome'[g] = "success" <=> outcome[g] = "success"
      BY <1>1, <1>3 DEF Land
    <2>2. AcceptedClaims' = AcceptedClaims
      BY <2>1 DEF AcceptedClaims
    <2>3. QED
      BY <1>2, <2>2
  <1>4. CASE o = "success"
    <2>1. \A g \in Hashes : outcome'[g] = "success" <=> outcome[g] = "success" \/ g = h
      BY <1>1, <1>4 DEF Land
    <2>2. AcceptedClaims' = AcceptedClaims \cup {Call[h]}
      BY <2>1 DEF AcceptedClaims
    <2>3. \A d \in AcceptedClaims : ~Receipts!Conflicting(Call[h], d)
      BY <1>4 DEF Land, AcceptedClaims, Chain!Conflicting, Receipts!Conflicting
    <2>4. Receipts!Accept(Call[h])
      BY <2>2, <2>3 DEF Receipts!Accept
    <2>5. QED
      BY <1>1, <1>2, <2>4 DEF Receipts!ReceiptNext, Receipts!Next
  <1>5. QED
    BY <1>3, <1>4

(* The receipt a handler stores is for an accepted claim that has none:    *)
(* had it one, that receipt would carry the same nullifier, which is the   *)
(* claimId the unique index compares.                                      *)
LEMMA CommitIssues ==
    ASSUME IndInv, NEW p \in Handlers, IssueCommit(p)
    PROVE  Receipts!ReceiptNext
  <1> DEFINE b == run[p].built
  <1>1. /\ b \in Receipt /\ Backed(b) /\ UniqueReceipt(b)
        /\ receipts' = receipts \cup {b} /\ outcome' = outcome
    BY BusyHandler DEF IssueCommit, Holding
  <1>2. /\ b.id \in ReceiptIds /\ b.claim \in Claims /\ b.claim \in AcceptedClaims
        /\ b.claimId = b.claim.nullifier
    BY <1>1 DEF Receipt, Backed, AcceptedClaims
  <1>3. \A r \in receipts : r.claim # b.claim
    BY <1>1, <1>2 DEF UniqueReceipt, IndInv, ReceiptBacked
  <1>4. \A i \in Issued : i.claim # b.claim
    <2> SUFFICES ASSUME NEW r \in receipts
                 PROVE  [id |-> r.id, claim |-> r.claim].claim # b.claim
      BY DEF Issued
    <2>1. QED
      BY <1>3
  <1>5. Issued' = Issued \cup {[id |-> b.id, claim |-> b.claim]}
    <2> HIDE DEF b
    <2>1. QED
      BY <1>1 DEF Issued
  <1>6. UNCHANGED AcceptedClaims
    BY <1>1 DEF AcceptedClaims
  <1>7. Receipts!Issue(b.id, b.claim)
    BY <1>2, <1>4, <1>5, <1>6 DEF Receipts!Issue
  <1>8. QED
    BY <1>2, <1>7 DEF Receipts!ReceiptNext

(***************************************************************************)
(* Every behaviour of the API, its queue and its workers is a behaviour of *)
(* the receipt ledger: a receipt is issued for an accepted claim, once,    *)
(* and stays, however handlers race, crash and repeat their work.          *)
(***************************************************************************)
THEOREM SettlementImplementsReceiptLedger == Spec => ImplementsReceiptLedger
  <1>1. Init => Receipts!ReceiptInit
    BY DEF Init, Receipts!ReceiptInit, Receipts!Init, AcceptedClaims, Issued
  <1>2. IndInv /\ [Next]_vars => [Receipts!ReceiptNext]_<<AcceptedClaims, Issued>>
    <2> SUFFICES ASSUME IndInv, [Next]_vars
                 PROVE  Receipts!ReceiptNext \/ UNCHANGED <<AcceptedClaims, Issued>>
      OBVIOUS
    <2>1. OnlyWriters
      BY Writers
    <2>2. CASE outcome' = outcome /\ receipts' = receipts
      BY <2>2 DEF AcceptedClaims, Issued
    <2>3. CASE \E h \in Hashes, o \in {"success", "failed"} : Land(h, o)
      BY <2>3, LandAccepts
    <2>4. CASE \E p \in Handlers : IssueCommit(p)
      BY <2>4, CommitIssues
    <2>5. QED
      BY <2>1, <2>2, <2>3, <2>4 DEF OnlyWriters
  <1>3. QED
    BY <1>1, <1>2, Invariant, PTL DEF Spec, ImplementsReceiptLedger, Receipts!ReceiptSpec

-----------------------------------------------------------------------------
(***************************************************************************)
(* What the public verification answers is true.  IndInv says that a       *)
(* receipt carries the claim its transaction published.  The page shows    *)
(* the claim commitment of the row instead, so the proof adds that a       *)
(* receipt has its row; that it is the only one of its claim, of its       *)
(* transaction and of its id is what makes identifiers of a stamp agree.   *)
(***************************************************************************)
ReceiptHasRow == \A r \in receipts : claimPublic[r.claimId] # None

ReceiptsUnique ==
    \A r, s \in receipts : r.claimId = s.claimId \/ r.hash = s.hash => r = s

IdsNamed == \A r \in receipts : \E p \in Handlers : r.id = <<p, r.claimId, r.hash>>

StoreInv == IndInv /\ ReceiptHasRow /\ ReceiptsUnique /\ IdsNamed

LEMMA StoreStep == StoreInv /\ [Next]_vars => StoreInv'
  <1> SUFFICES ASSUME StoreInv, [Next]_vars
               PROVE  ReceiptHasRow' /\ ReceiptsUnique' /\ IdsNamed'
    BY Inductive DEF StoreInv
  <1> USE DEF StoreInv
  <1>1. \A r \in receipts : r.claimId \in Nullifiers
    BY DEF IndInv, TypeOK, Receipt
  <1>2. \A r \in receipts : claimPublic'[r.claimId] # None
    BY <1>1, Lasting DEF ReceiptHasRow
  <1>3. CASE receipts' = receipts
    BY <1>2, <1>3 DEF ReceiptHasRow, ReceiptsUnique, IdsNamed
  <1>4. ASSUME NEW p \in Handlers, IssueCommit(p)
        PROVE  ReceiptHasRow' /\ ReceiptsUnique' /\ IdsNamed'
    <2> DEFINE b == run[p].built
    <2>1. /\ receipts' = receipts \cup {b} /\ UniqueReceipt(b)
          /\ claimPublic' = claimPublic
      BY <1>4 DEF IssueCommit
    <2>2. Holding(p) /\ run[p].pc = "issue"
      BY <1>4, BusyHandler DEF IssueCommit
    <2>3. /\ run[p].hash \in Hashes
          /\ run[p].claim \in Nullifiers /\ run[p].claim # None
          /\ b.claimId = run[p].claim
          /\ b.id = <<p, b.claimId, b.hash>>
      BY <2>2, SettlementAssumption DEF Holding
    <2>4. claimPublic[b.claimId] = Call[run[p].hash]
      BY <2>2, <2>3 DEF Holding
    <2>5. claimPublic[b.claimId] # None
      BY <2>3, <2>4, SettlementAssumption
    <2> HIDE DEF b
    <2>6. ReceiptHasRow' /\ ReceiptsUnique'
      BY <1>2, <2>1, <2>5 DEF ReceiptHasRow, ReceiptsUnique, UniqueReceipt
    <2>7. IdsNamed'
      BY <2>1, <2>3 DEF IdsNamed
    <2>8. QED
      BY <2>6, <2>7
  <1>5. QED
    BY <1>3, <1>4, Writers DEF OnlyWriters

LEMMA StoreKept == Spec => []StoreInv
  <1>1. Init => StoreInv
    BY Initially DEF Init, StoreInv, ReceiptHasRow, ReceiptsUnique, IdsNamed
  <1>2. QED
    BY <1>1, StoreStep, PTL DEF Spec

-----------------------------------------------------------------------------
(***************************************************************************)
(* The claim a receipt is shown with is the one its transaction published, *)
(* although the claim commitment is read from the claim row: row and       *)
(* transaction share the nullifier, which binds the commitment.            *)
(***************************************************************************)
LEMMA ShownClaim ==
    ASSUME StoreInv, NEW r \in receipts
    PROVE  /\ r.hash \in Hashes
           /\ outcome[r.hash] = "success"
           /\ serializePublicReceipt(r) = Call[r.hash]
           /\ SourceAgrees(r)
  <1> USE DEF StoreInv
  <1>1. /\ r.hash \in Hashes /\ r.claimId \in Nullifiers
        /\ outcome[r.hash] = "success"
        /\ r.claim = Call[r.hash]
        /\ r.claimId = r.claim.nullifier
    BY DEF IndInv, TypeOK, Receipt, ReceiptBacked
  <1>2. Call[r.hash] \in Claims
    BY <1>1, SettlementAssumption
  <1> DEFINE row == claimPublic[r.claimId]
  <1>3. /\ row \in Drafts \cup {Call[h] : h \in Hashes}
        /\ row.nullifier = Call[r.hash].nullifier
    BY <1>1 DEF ReceiptHasRow, IndInv, RowsAgree
  <1>4. row.claimCommitment = Call[r.hash].claimCommitment
    BY <1>1, <1>3, SealBinding
  <1>5. serializePublicReceipt(r) =
            [Call[r.hash] EXCEPT !.claimCommitment = Call[r.hash].claimCommitment]
    BY <1>1, <1>4 DEF serializePublicReceipt
  <1>6. serializePublicReceipt(r) = Call[r.hash]
    BY <1>2, <1>5 DEF Claims
  <1>7. QED
    BY <1>1, <1>6 DEF SourceAgrees

(* A receipt is answered for with what its transaction came to. *)
LEMMA ReceiptAnswer ==
    ASSUME StoreInv, NEW r \in receipts
    PROVE  /\ verifyReceipt(r, outcome[r.hash]) = Answer("VERIFIED", r.hash, r)
           /\ VerdictTrue(Answer("VERIFIED", r.hash, r))
  <1>1. verifyReceipt(r, outcome[r.hash]) = Answer("VERIFIED", r.hash, r)
    BY ShownClaim DEF verifyReceipt
  <1>2. QED
    BY <1>1, ShownClaim DEF VerdictTrue, StampShown, Answer

(* Every answer about a transaction, whatever was read before. *)
LEMMA TransactionAnswer ==
    ASSUME StoreInv, NEW h \in Hashes, NEW row,
           NEW chain \in {"absent", outcome[h]},
           NEW a \in verifyTransaction(h, row, chain)
    PROVE  VerdictTrue(a)
  <1> DEFINE found == getByIdentifier(ById("transactionHash", h))
  <1>1. \A r \in found : r \in receipts /\ r.hash = h
    BY DEF getByIdentifier, ById
  <1>2. CASE a \in {verifyReceipt(r, outcome[h]) : r \in found}
    BY <1>1, <1>2, ReceiptAnswer
  <1>3. CASE a \in {Answer("NOT_FOUND", h, None), Answer("PENDING_CONFIRMATION", h, None)}
    BY <1>3 DEF VerdictTrue, StampShown, Answer
  <1>4. CASE chain = "failed" /\ a = Answer("FAILED", h, None)
    BY <1>4 DEF VerdictTrue, StampShown, Answer
  <1>5. QED
    BY <1>2, <1>3, <1>4 DEF verifyTransaction

(* Every answer about a claim. *)
LEMMA ClaimAnswer ==
    ASSUME StoreInv, NEW n \in Nullifiers, NEW a \in verifyClaim(n)
    PROVE  VerdictTrue(a)
  <1> DEFINE found == getByIdentifier(ById("uuid", n))
             failed == {h \in Hashes : txClaim[h] = n /\ txStatus[h] = "FAILED"}
  <1>1. found \subseteq receipts
    BY DEF getByIdentifier
  <1>2. CASE a \in {verifyReceipt(r, outcome[r.hash]) : r \in found}
    BY <1>1, <1>2, ReceiptAnswer
  <1>3. CASE a \in {Answer("FAILED", h, None) : h \in failed}
    BY <1>3 DEF VerdictTrue, StampShown, Answer, StoreInv, IndInv, SettledStatusTrue
  <1>4. CASE a = Answer("PENDING_CONFIRMATION", None, None)
    BY <1>4 DEF VerdictTrue, StampShown, Answer
  <1>5. QED
    BY <1>2, <1>3, <1>4 DEF verifyClaim

LEMMA EveryVerdict == StoreInv => VerdictsTrue
  <1> SUFFICES ASSUME StoreInv PROVE VerdictsTrue
    OBVIOUS
  <1>1. ASSUME NEW id \in Identifiers, NEW a \in LateAnswers(id)
        PROVE  VerdictTrue(a)
    <2>1. CASE id.kind = "receiptId"
      <3>1. a \in verifyReceiptIdentifier(id.value)
        BY <1>1, <2>1 DEF LateAnswers, verify
      <3>2. QED
        BY <3>1, ReceiptAnswer DEF verifyReceiptIdentifier, getByIdentifier
    <2>2. CASE id.kind = "uuid"
      <3>1. id.value \in Nullifiers /\ a \in verifyClaim(id.value)
        BY <1>1, <2>2 DEF LateAnswers, verify, Identifiers
      <3>2. QED
        BY <3>1, ClaimAnswer
    <2>3. CASE id.kind = "transactionHash"
      <3>1. /\ id.value \in Hashes
            /\ \E row, chain : /\ chain \in {"absent", outcome[id.value]}
                               /\ a \in verifyTransaction(id.value, row, chain)
        BY <1>1, <2>3 DEF LateAnswers, verify, Identifiers
      <3>2. QED
        BY <3>1, TransactionAnswer
    <2>4. QED
      BY <1>1, <2>1, <2>2, <2>3 DEF Identifiers
  <1>2. QED
    BY <1>1, ShownClaim DEF VerdictsTrue, listPublicReceipts

(***************************************************************************)
(* No answer of the verification, however late what it read, and no entry  *)
(* of the public list shows a stamp that the ledger does not hold, calls a *)
(* transaction failed that did not fail, or finds a receipt mismatched.    *)
(***************************************************************************)
THEOREM VerificationTrue == Spec => []VerdictsTrue
  BY StoreKept, EveryVerdict, PTL

(***************************************************************************)
(* A stamp verifies by its receipt id, by its claim id and by its          *)
(* transaction hash as the one receipt of its claim, whatever became of    *)
(* other transactions of the claim.                                        *)
(***************************************************************************)
THEOREM AllIdentifiersAgreeHolds == Spec => []AllIdentifiersAgree
  <1>1. ASSUME StoreInv, NEW r \in receipts
        PROVE  /\ getForClaim(r.claimId) = {r}
               /\ verify(ById("receiptId", r.id)) = {Answer("VERIFIED", r.hash, r)}
               /\ verify(ById("uuid", r.claimId)) = {Answer("VERIFIED", r.hash, r)}
               /\ verify(ById("transactionHash", r.hash)) = {Answer("VERIFIED", r.hash, r)}
    <2>1. \A s \in receipts : s.id = r.id => s = r
      BY <1>1 DEF StoreInv, IdsNamed, ReceiptsUnique
    <2>2. /\ getByIdentifier(ById("receiptId", r.id)) = {r}
          /\ getByIdentifier(ById("uuid", r.claimId)) = {r}
          /\ getByIdentifier(ById("transactionHash", r.hash)) = {r}
      BY <1>1, <2>1 DEF StoreInv, ReceiptsUnique, getByIdentifier, ById
    <2>3. r.claimId \in Nullifiers /\ r.hash \in Hashes /\ outcome[r.hash] = "success"
      BY <1>1, ShownClaim DEF StoreInv, IndInv, TypeOK, Receipt
    <2>4. claimStatus[r.claimId] # Absent
      BY <1>1, <2>3 DEF StoreInv, ReceiptHasRow, IndInv, RowsAgree
    <2>5. verifyReceipt(r, outcome[r.hash]) = Answer("VERIFIED", r.hash, r)
      BY <1>1, ReceiptAnswer
    <2>6. verifyReceiptIdentifier(r.id) = {Answer("VERIFIED", r.hash, r)}
      BY <2>2, <2>5 DEF verifyReceiptIdentifier
    <2>7. verifyClaim(r.claimId) = {Answer("VERIFIED", r.hash, r)}
      BY <2>2, <2>4, <2>5 DEF verifyClaim
    <2>8. verifyTransaction(r.hash, txStatus[r.hash], outcome[r.hash]) =
              {Answer("VERIFIED", r.hash, r)}
      BY <2>2, <2>3, <2>5 DEF verifyTransaction
    <2>9. getForClaim(r.claimId) = {r}
      BY <1>1 DEF StoreInv, ReceiptsUnique, getForClaim
    <2>10. QED
      BY <2>6, <2>7, <2>8, <2>9 DEF verify, ById
  <1>2. StoreInv => AllIdentifiersAgree
    BY <1>1 DEF AllIdentifiersAgree
  <1>3. QED
    BY <1>2, StoreKept, PTL
=============================================================================
