--------------------------- MODULE JobQueueProofs ---------------------------
(***************************************************************************)
(* Proofs that every transaction on the job queue preserves the attempt    *)
(* budget, the meaning of a lease, exclusive execution and dependency      *)
(* order, for any number of jobs, workflows, workers and lease holders,    *)
(* and that the run of an agent cites the prompt it was given.             *)
(***************************************************************************)
EXTENDS JobQueue, AgentRuns, TLAPS

\* How long, in seconds, a prover may work on a step.
USE SMTT(30), ZenonT(30)

-----------------------------------------------------------------------------
(* JobQueue.                                                               *)

\* The five invariants are inductive together: exclusive execution and the
\* meaning of a lease tell what status the rows written by a worker's commit
\* and by release_lease are in, and the other two rest on that.
IInv ==
  /\ TypeOK
  /\ AttemptWithinBudget
  /\ LeaseMeansRunning
  /\ OneExecutor
  /\ PredecessorsSucceeded

USE DEF NotCreated, NoTime

-----------------------------------------------------------------------------
\* The initial state has no rows, so all five invariants hold.
LEMMA InitIInv == Init => IInv
  <1> SUFFICES ASSUME Init PROVE IInv
    OBVIOUS
  <1> USE IdentityAssumption, RowAssumption, BudgetAssumption DEF Init
  <1>1. TypeOK
    BY DEF TypeOK, Idle, EffectStates, JobStatus
  <1>2. AttemptWithinBudget
    BY DEF AttemptWithinBudget
  <1>3. LeaseMeansRunning
    BY DEF LeaseMeansRunning
  <1>4. OneExecutor
    BY DEF OneExecutor, Idle
  <1>5. PredecessorsSucceeded
    BY DEF PredecessorsSucceeded
  <1> QED
    BY <1>1, <1>2, <1>3, <1>4, <1>5 DEF IInv

\* A step that writes no status, attempt, lease or lock keeps the invariant
\* as soon as it keeps the types.
LEMMA QuietStep ==
  ASSUME IInv, TypeOK', UNCHANGED <<status, attempt, leaseVars, txn>>
  PROVE  IInv'
  BY DEF IInv, AttemptWithinBudget, LeaseMeansRunning, OneExecutor, PredecessorsSucceeded, leaseVars

\* Effect rows, the death of a holder, dependency marks and time are quiet.
LEMMA QuietActions ==
  ASSUME IInv,
         \/ \E h \in Holders, j \in Jobs, state \in EffectStates \ {"NONE"} :
              RecordEffect(h, j, state)
         \/ \E h \in Holders : HolderDies(h)
         \/ \E d \in Jobs : SatisfyDependency(d)
         \/ Tick
  PROVE  IInv'
  <1> SUFFICES TypeOK' /\ UNCHANGED <<status, attempt, leaseVars, txn>>
    BY QuietStep, Zenon
  <1>1. TypeOK
    BY DEF IInv
  <1> USE DEF wfVars, leaseVars
  <1>2. CASE \E h \in Holders, j \in Jobs, state \in EffectStates \ {"NONE"} :
               RecordEffect(h, j, state)
    BY <1>1, <1>2 DEF RecordEffect, TypeOK
  <1>3. CASE \E h \in Holders : HolderDies(h)
    BY <1>1, <1>3, Zenon DEF HolderDies, TypeOK
  <1>4. CASE \E d \in Jobs : SatisfyDependency(d)
    BY <1>1, <1>4 DEF SatisfyDependency, TypeOK
  <1>5. CASE Tick
    BY <1>1, <1>5 DEF Tick, TypeOK
  <1> QED
    BY <1>2, <1>3, <1>4, <1>5, Zenon

\* start_workflow inserts PENDING rows with a whole budget, no lease and no lock.
LEMMA StartWorkflowIInv ==
  ASSUME IInv, NEW w \in Workflows, NEW terminal \in BOOLEAN,
         StartWorkflow(w, terminal)
  PROVE  IInv'
  <1> USE DEF IInv, StartWorkflow, InsertPending, leaseVars
  <1>1. TypeOK'
    BY DEF TypeOK, JobStatus
  <1>2. AttemptWithinBudget'
    BY DEF TypeOK, AttemptWithinBudget
  <1>3. LeaseMeansRunning'
    BY DEF TypeOK, LeaseMeansRunning
  <1>4. OneExecutor'
    BY DEF TypeOK, OneExecutor
  <1>5. PredecessorsSucceeded'
    BY RowAssumption DEF TypeOK, PredecessorsSucceeded
  <1> QED
    BY <1>1, <1>2, <1>3, <1>4, <1>5

\* retry_failed_job makes READY only a job whose next attempt is below the budget.
LEMMA RetryFailedJobIInv ==
  ASSUME IInv, NEW j \in Jobs,
         RetryFailedJob(j)
  PROVE  IInv'
  <1> USE DEF IInv, RetryFailedJob, SetStatus, leaseVars, wfVars
  <1>1. TypeOK'
    BY TimeAssumption, BudgetAssumption DEF TypeOK, JobStatus, AttemptWithinBudget
  <1>2. AttemptWithinBudget'
    BY BudgetAssumption DEF TypeOK, AttemptWithinBudget, CanRetry
  <1>3. LeaseMeansRunning'
    BY DEF TypeOK, LeaseMeansRunning
  <1>4. OneExecutor'
    BY DEF TypeOK, OneExecutor
  <1>5. PredecessorsSucceeded'
    BY DEF TypeOK, PredecessorsSucceeded
  <1> QED
    BY <1>1, <1>2, <1>3, <1>4, <1>5

\* cancel_workflow touches PENDING and READY rows that no worker has locked.
LEMMA CancelWorkflowIInv ==
  ASSUME IInv, NEW w \in Workflows,
         CancelWorkflow(w)
  PROVE  IInv'
  <1> USE DEF IInv, CancelWorkflow, leaseVars
  <1>1. TypeOK'
    BY DEF TypeOK, JobStatus
  <1>2. AttemptWithinBudget'
    BY DEF TypeOK, AttemptWithinBudget
  <1>3. LeaseMeansRunning'
    BY DEF TypeOK, LeaseMeansRunning
  <1>4. OneExecutor'
    BY DEF TypeOK, OneExecutor, Unlocked
  <1>5. PredecessorsSucceeded'
    BY RowAssumption DEF TypeOK, PredecessorsSucceeded
  <1> QED
    BY <1>1, <1>2, <1>3, <1>4, <1>5

\* An operator's verdict leaves UNCERTAIN_EXTERNAL_EFFECT, where no lease exists.
LEMMA ReconcileUncertainEffectIInv ==
  ASSUME IInv, NEW j \in Jobs, NEW verdict \in {"CONFIRMED", "ABSENT"},
         ReconcileUncertainEffect(j, verdict)
  PROVE  IInv'
  <1> USE DEF IInv, ReconcileUncertainEffect, SetStatus, leaseVars, wfVars
  <1>1. TypeOK'
    BY DEF TypeOK, JobStatus, EffectStates
  <1>2. AttemptWithinBudget'
    BY DEF TypeOK, AttemptWithinBudget
  <1>3. LeaseMeansRunning'
    BY DEF TypeOK, LeaseMeansRunning
  <1>4. OneExecutor'
    BY DEF TypeOK, OneExecutor
  <1>5. PredecessorsSucceeded'
    BY DEF TypeOK, PredecessorsSucceeded
  <1> QED
    BY <1>1, <1>2, <1>3, <1>4, <1>5

\* claim_ready_job locks a READY row that no other worker has locked.
LEMMA WorkerClaimIInv ==
  ASSUME IInv, NEW p \in Workers, NEW j \in Jobs,
         WorkerClaim(p, j)
  PROVE  IInv'
  <1> USE DEF IInv, WorkerClaim, leaseVars, wfVars
  <1>1. TypeOK'
    BY DEF TypeOK
  <1>2. AttemptWithinBudget'
    BY DEF TypeOK, AttemptWithinBudget
  <1>3. LeaseMeansRunning'
    BY DEF TypeOK, LeaseMeansRunning
  <1>4. OneExecutor'
    BY DEF TypeOK, OneExecutor, OldestClaimable, ClaimableBy, Unlocked
  <1>5. PredecessorsSucceeded'
    BY Zenon DEF TypeOK, PredecessorsSucceeded
  <1> QED
    BY <1>1, <1>2, <1>3, <1>4, <1>5

\* A worker's commit writes its locked READY row, and PENDING successors.
LEMMA WorkerCommitIInv ==
  ASSUME IInv, NEW p \in Workers, NEW result \in AgentRunStatus, NEW emitted \in BOOLEAN,
         WorkerCommit(p, result, emitted)
  PROVE  IInv'
  <1> USE DEF IInv, WorkerCommit, ClearLeases, FinalStatus, wfVars
  <1>1. TypeOK'
    BY Zenon DEF TypeOK, JobStatus, Idle
  <1>2. AttemptWithinBudget'
    BY Zenon DEF TypeOK, AttemptWithinBudget, OneExecutor
  <1>3. LeaseMeansRunning'
    BY IdentityAssumption, Zenon DEF TypeOK, LeaseMeansRunning
  <1>4. OneExecutor'
    BY ZenonT(30) DEF TypeOK, OneExecutor, Idle
  <1>5. PredecessorsSucceeded'
    BY RowAssumption, Zenon DEF TypeOK, PredecessorsSucceeded, OneExecutor
  <1> QED
    BY <1>1, <1>2, <1>3, <1>4, <1>5, Zenon

\* A missing implementation leaves the worker's own id on a FAILED row.
LEMMA WorkerMissingImplementationIInv ==
  ASSUME IInv, NEW p \in Workers,
         WorkerMissingImplementation(p)
  PROVE  IInv'
  <1> USE DEF IInv, WorkerMissingImplementation, SetStatus, wfVars
  <1>1. TypeOK'
    BY TimeAssumption DEF TypeOK, JobStatus, Idle
  <1>2. AttemptWithinBudget'
    BY DEF TypeOK, AttemptWithinBudget, OneExecutor
  <1>3. LeaseMeansRunning'
    BY IdentityAssumption DEF TypeOK, LeaseMeansRunning
  <1>4. OneExecutor'
    BY DEF TypeOK, OneExecutor, Idle
  <1>5. PredecessorsSucceeded'
    BY RowAssumption DEF TypeOK, PredecessorsSucceeded, OneExecutor
  <1> QED
    BY <1>1, <1>2, <1>3, <1>4, <1>5

\* A rollback changes no row and frees the lock.
LEMMA WorkerRollbackIInv ==
  ASSUME IInv, NEW p \in Workers,
         WorkerRollback(p)
  PROVE  IInv'
  <1> USE DEF IInv, WorkerRollback, leaseVars, wfVars
  <1>1. TypeOK'
    BY DEF TypeOK, Idle
  <1>2. AttemptWithinBudget'
    BY DEF TypeOK, AttemptWithinBudget
  <1>3. LeaseMeansRunning'
    BY DEF TypeOK, LeaseMeansRunning
  <1>4. OneExecutor'
    BY DEF TypeOK, OneExecutor, Idle
  <1>5. PredecessorsSucceeded'
    BY Zenon DEF TypeOK, PredecessorsSucceeded
  <1> QED
    BY <1>1, <1>2, <1>3, <1>4, <1>5

\* A committed claim names the holder on a READY row that no worker has locked.
LEMMA RunWorkerOnceIInv ==
  ASSUME IInv, NEW h \in Holders, NEW j \in Jobs,
         RunWorkerOnce(h, j)
  PROVE  IInv'
  <1> USE DEF IInv, RunWorkerOnce, OldestClaimable, ClaimableBy, SetStatus, GrantLease, wfVars
  <1>1. TypeOK'
    BY TimeAssumption DEF TypeOK, JobStatus
  <1>2. AttemptWithinBudget'
    BY DEF TypeOK, AttemptWithinBudget
  <1>3. LeaseMeansRunning'
    BY TimeAssumption DEF TypeOK, LeaseMeansRunning
  <1>4. OneExecutor'
    BY Zenon DEF TypeOK, OneExecutor, Unlocked
  <1>5. PredecessorsSucceeded'
    BY DEF TypeOK, PredecessorsSucceeded
  <1> QED
    BY <1>1, <1>2, <1>3, <1>4, <1>5

\* A build job is taken when it is new (and has no predecessors), READY, or
\* RUNNING under a lease that has expired.
LEMMA ClaimBuildJobIInv ==
  ASSUME IInv, NEW h \in Holders, NEW j \in Jobs, ClaimBuildJob(h, j)
  PROVE  IInv'
  <1> USE DEF IInv, ClaimBuildJob, SetStatus, GrantLease
  <1>1. TypeOK'
    <2>1. wf' \in [Workflows -> {"NONE", "ACTIVE", "COMPLETED"}]
      BY RowAssumption DEF TypeOK
    <2>2. scheduledAt' \in [Jobs -> Nat]
      BY Zenon DEF TypeOK
    <2>3. status' \in [Jobs -> JobStatus \cup {NotCreated}]
      BY Zenon DEF TypeOK, JobStatus
    <2>4. /\ owner' \in [Jobs -> Holders \cup {WorkerId, NoOwner}]
          /\ expires' \in [Jobs -> Nat \cup {NoTime}]
          /\ beat' \in [Jobs -> Nat \cup {NoTime}]
      BY TimeAssumption DEF TypeOK
    <2>5. UNCHANGED <<productTerminal, attempt, satisfied, effect, txn, alive, clock>>
      OBVIOUS
    <2> HIDE DEF ClaimBuildJob, SetStatus, GrantLease
    <2> QED
      BY <2>1, <2>2, <2>3, <2>4, <2>5 DEF TypeOK
  <1>2. AttemptWithinBudget'
    BY Zenon DEF TypeOK, AttemptWithinBudget
  <1>3. LeaseMeansRunning'
    BY TimeAssumption DEF TypeOK, LeaseMeansRunning
  <1>4. OneExecutor'
    BY Zenon DEF TypeOK, OneExecutor, Unlocked
  <1>5. PredecessorsSucceeded'
    BY BuildAssumption, RowAssumption, Zenon DEF TypeOK, PredecessorsSucceeded
  <1> QED
    BY <1>1, <1>2, <1>3, <1>4, <1>5

\* heartbeat moves the times of a lease that its caller owns.
LEMMA HeartbeatIInv ==
  ASSUME IInv, NEW h \in Holders, NEW j \in Jobs, NEW extend \in BOOLEAN,
         Heartbeat(h, j, extend)
  PROVE  IInv'
  <1> USE DEF IInv, Heartbeat, wfVars
  <1>1. TypeOK'
    BY TimeAssumption DEF TypeOK
  <1>2. AttemptWithinBudget'
    BY DEF TypeOK, AttemptWithinBudget
  <1>3. LeaseMeansRunning'
    BY TimeAssumption DEF TypeOK, LeaseMeansRunning
  <1>4. OneExecutor'
    BY Zenon DEF TypeOK, OneExecutor
  <1>5. PredecessorsSucceeded'
    BY Zenon DEF TypeOK, PredecessorsSucceeded
  <1> QED
    BY <1>1, <1>2, <1>3, <1>4, <1>5, Zenon

\* The owner check of release_lease implies that the row is RUNNING.
LEMMA ReleaseLeaseIInv ==
  ASSUME IInv, NEW h \in Holders, NEW j \in Jobs, NEW final \in JobStatus,
         ReleaseLease(h, j, final)
  PROVE  IInv'
  <1> USE DEF IInv, ReleaseLease, SetStatus, ClearLeases, RequireJobTransition, JOB_TRANSITIONS, wfVars
  <1>1. TypeOK'
    BY Zenon DEF TypeOK
  <1>2. AttemptWithinBudget'
    BY Zenon DEF TypeOK, AttemptWithinBudget, LeaseMeansRunning
  <1>3. LeaseMeansRunning'
    BY IdentityAssumption DEF TypeOK, LeaseMeansRunning
  <1>4. OneExecutor'
    BY ZenonT(30) DEF TypeOK, OneExecutor, Unlocked
  <1>5. PredecessorsSucceeded'
    BY DEF TypeOK, PredecessorsSucceeded, LeaseMeansRunning
  <1> QED
    BY <1>1, <1>2, <1>3, <1>4, <1>5, Zenon

\* Giving up a lease keeps its owner and its heartbeat.
LEMMA ExpireOwnLeaseIInv ==
  ASSUME IInv, NEW h \in Holders, NEW j \in Jobs,
         ExpireOwnLease(h, j)
  PROVE  IInv'
  <1> USE DEF IInv, ExpireOwnLease, wfVars
  <1>1. TypeOK'
    BY Zenon DEF TypeOK
  <1>2. AttemptWithinBudget'
    BY Zenon DEF TypeOK, AttemptWithinBudget
  <1>3. LeaseMeansRunning'
    BY DEF TypeOK, LeaseMeansRunning
  <1>4. OneExecutor'
    BY Zenon DEF TypeOK, OneExecutor
  <1>5. PredecessorsSucceeded'
    BY ZenonT(30) DEF TypeOK, PredecessorsSucceeded
  <1> QED
    BY <1>1, <1>2, <1>3, <1>4, <1>5, Zenon

\* Only PENDING rows are blocked when a predecessor has failed.
LEMMA PropagateDependencyFailureIInv ==
  ASSUME IInv, NEW d \in Jobs,
         PropagateDependencyFailure(d)
  PROVE  IInv'
  <1> USE DEF IInv, PropagateDependencyFailure, leaseVars, wfVars
  <1>1. TypeOK'
    BY Zenon DEF TypeOK, JobStatus
  <1>2. AttemptWithinBudget'
    BY Zenon DEF TypeOK, AttemptWithinBudget
  <1>3. LeaseMeansRunning'
    BY Zenon DEF TypeOK, LeaseMeansRunning
  <1>4. OneExecutor'
    BY Zenon DEF TypeOK, OneExecutor
  <1>5. PredecessorsSucceeded'
    BY RowAssumption, Zenon DEF TypeOK, PredecessorsSucceeded
  <1> QED
    BY <1>1, <1>2, <1>3, <1>4, <1>5, Zenon

\* A maturity timer is a new PENDING row.
LEMMA ScheduleMaturityTimerIInv ==
  ASSUME IInv, NEW j \in Jobs, NEW at \in clock..MaxTime,
         ScheduleMaturityTimer(j, at)
  PROVE  IInv'
  <1> USE DEF IInv, ScheduleMaturityTimer, InsertPending, leaseVars, wfVars
  <1>1. TypeOK'
    BY TimeAssumption DEF TypeOK, JobStatus
  <1>2. AttemptWithinBudget'
    BY Zenon DEF TypeOK, AttemptWithinBudget
  <1>3. LeaseMeansRunning'
    BY Zenon DEF TypeOK, LeaseMeansRunning
  <1>4. OneExecutor'
    BY Zenon DEF TypeOK, OneExecutor
  <1>5. PredecessorsSucceeded'
    BY RowAssumption, Zenon DEF TypeOK, PredecessorsSucceeded
  <1> QED
    BY <1>1, <1>2, <1>3, <1>4, <1>5

\* Reclaim and stall detection spend an attempt of a RUNNING row, which has
\* one left; promotion asks for the success of every predecessor.
LEMMA SchedulerCycleIInv ==
  ASSUME IInv, SchedulerCycle
  PROVE  IInv'
  <1>1. PICK reclaimed \in Oldest(Expired, expires, Limit),
             stalled \in Oldest(Stalled, beat, Limit),
             examined \in Oldest(Due, scheduledAt, Limit) :
          /\ status' = [j \in Jobs |->
                          IF j \in reclaimed THEN ReclaimStatus(j)
                          ELSE IF j \in stalled THEN "FAILED"
                          ELSE IF j \in examined /\ EvaluateJobReadiness(j) THEN "READY"
                          ELSE status[j]]
          /\ attempt' = [j \in Jobs |-> IF j \in reclaimed \cup stalled THEN attempt[j] + 1
                                        ELSE attempt[j]]
          /\ ClearLeases(reclaimed \cup stalled)
          /\ UNCHANGED <<wfVars, scheduledAt, satisfied, effect, txn, alive, clock>>
    BY Zenon DEF SchedulerCycle
  <1>2. /\ \A j \in reclaimed \cup stalled : j \in Jobs /\ status[j] = "RUNNING"
        /\ \A j \in examined : j \in Jobs /\ status[j] = "PENDING"
    BY Zenon DEF Oldest, Expired, Stalled, Due
  <1>3. \A j \in Jobs :
          /\ ReclaimStatus(j) \in {"TERMINAL_FAILURE", "FAILED", "READY"}
          /\ ReclaimStatus(j) = "READY" => attempt[j] + 1 < MaxAttempts
    BY BudgetAssumption DEF IInv, TypeOK, ReclaimStatus
  <1> HIDE DEF ReclaimStatus
  <1> USE DEF IInv, ClearLeases, wfVars
  <1>4. TypeOK'
    BY <1>1, <1>2, <1>3 DEF TypeOK, JobStatus
  <1>5. AttemptWithinBudget'
    <2> SUFFICES ASSUME NEW j \in Jobs
                 PROVE  /\ attempt'[j] <= MaxAttempts
                        /\ attempt'[j] = MaxAttempts
                             => status'[j] \in {"FAILED", "TERMINAL_FAILURE"}
      BY Zenon DEF AttemptWithinBudget
    <2>1. /\ attempt[j] \in Nat /\ MaxAttempts \in Nat
          /\ attempt[j] <= MaxAttempts
          /\ attempt[j] = MaxAttempts => status[j] \in {"FAILED", "TERMINAL_FAILURE"}
      BY BudgetAssumption DEF TypeOK, AttemptWithinBudget
    <2>2. CASE j \in reclaimed
      <3>1. /\ attempt'[j] = attempt[j] + 1 /\ status'[j] = ReclaimStatus(j)
            /\ status[j] = "RUNNING"
        BY <1>1, <1>2, <2>2, Zenon
      <3> QED
        BY <1>3, <2>1, <3>1
    <2>3. CASE j \in stalled \ reclaimed
      <3>1. /\ attempt'[j] = attempt[j] + 1 /\ status'[j] = "FAILED"
            /\ status[j] = "RUNNING"
        BY <1>1, <1>2, <2>3, Zenon
      <3> QED
        BY <2>1, <3>1
    <2>4. CASE j \notin reclaimed \cup stalled
      BY <1>1, <1>2, <2>1, <2>4, Zenon
    <2> QED
      BY <2>2, <2>3, <2>4, Zenon
  <1>6. LeaseMeansRunning'
    BY <1>1, <1>2, <1>3, IdentityAssumption, Zenon DEF TypeOK, LeaseMeansRunning, EvaluateJobReadiness
  <1>7. OneExecutor'
    BY <1>1, <1>2, Zenon DEF TypeOK, OneExecutor, EvaluateJobReadiness
  <1>8. PredecessorsSucceeded'
    BY <1>1, <1>2, RowAssumption, Zenon
    DEF TypeOK, PredecessorsSucceeded, EvaluateJobReadiness, DependenciesSatisfied
  <1> QED
    BY <1>4, <1>5, <1>6, <1>7, <1>8

-----------------------------------------------------------------------------
\* Every transaction of every process preserves the five invariants.
LEMMA NextIInv == IInv /\ [Next]_vars => IInv'
  <1> SUFFICES ASSUME IInv, [Next]_vars PROVE IInv'
    OBVIOUS
  <1>1. CASE OperatorStep
    BY <1>1, StartWorkflowIInv, CancelWorkflowIInv, RetryFailedJobIInv,
       ReconcileUncertainEffectIInv DEF OperatorStep
  <1>2. CASE \E p \in Workers : WorkerStep(p)
    BY <1>2, WorkerClaimIInv, WorkerCommitIInv, WorkerMissingImplementationIInv,
       WorkerRollbackIInv DEF WorkerStep
  <1>3. CASE \E h \in Holders : HolderStep(h)
    BY <1>3, RunWorkerOnceIInv, ClaimBuildJobIInv, HeartbeatIInv, ReleaseLeaseIInv,
       ExpireOwnLeaseIInv, QuietActions DEF HolderStep
  <1>4. CASE ResolverStep
    BY <1>4, QuietActions, PropagateDependencyFailureIInv DEF ResolverStep
  <1>5. CASE TimerStep
    BY <1>5, ScheduleMaturityTimerIInv DEF TimerStep
  <1>6. CASE SchedulerCycle
    BY <1>6, SchedulerCycleIInv
  <1>7. CASE Tick
    BY <1>7, QuietActions
  <1>8. CASE UNCHANGED vars
    BY <1>8, Zenon DEF IInv, TypeOK, AttemptWithinBudget, LeaseMeansRunning, OneExecutor,
                PredecessorsSucceeded, vars
  <1> QED
    BY <1>1, <1>2, <1>3, <1>4, <1>5, <1>6, <1>7, <1>8 DEF Next

\* The inductive invariant holds in every behaviour.
LEMMA SpecIInv == Spec => []IInv
  BY InitIInv, NextIInv, PTL DEF Spec

\* The rows and locks of the queue are well typed in every behaviour.
THEOREM TypeCorrect == Spec => []TypeOK
  BY SpecIInv, PTL DEF IInv

\* No sequence of reclaims, stalls, operator retries and worker commits makes
\* an executable job out of a spent one, or breaks the CHECK on attempt.
THEOREM AttemptBudget == Spec => []AttemptWithinBudget
  BY SpecIInv, PTL DEF IInv

\* A lease holder's name is on a row exactly while that job is RUNNING.
THEOREM LeaseDiscipline == Spec => []LeaseMeansRunning
  BY SpecIInv, PTL DEF IInv

\* Two parties never execute the same job: workers exclude each other by the
\* row lock, and lease holders see a locked row as READY and locked.
THEOREM ExclusiveExecution == Spec => []OneExecutor
  BY SpecIInv, PTL DEF IInv

\* A job past its gate has only succeeded predecessors.
THEOREM DependencyOrder == Spec => []PredecessorsSucceeded
  BY SpecIInv, PTL DEF IInv
-----------------------------------------------------------------------------
\* The edges of the canonical graph, and the two-edge moves of the worker's
\* transaction and of reclaim, that the steps below take.
LEMMA TakenEdges ==
  /\ \A s \in JobStatus \cup {NotCreated} : LegalMove(s, s)
  /\ \A s \in {"PENDING", "RUNNING"} : LegalMove(NotCreated, s)
  /\ \A s \in {"READY", "BLOCKED", "CANCELLED"} : LegalMove("PENDING", s)
  /\ \A s \in {"RUNNING", "CANCELLED", "SUCCEEDED", "FAILED", "BLOCKED"} : LegalMove("READY", s)
  /\ \A s \in {"FAILED", "TERMINAL_FAILURE", "READY"} : LegalMove("RUNNING", s)
  /\ LegalMove("FAILED", "READY")
  /\ \A s \in {"SUCCEEDED", "FAILED"} : LegalMove("UNCERTAIN_EXTERNAL_EFFECT", s)
  /\ \A s \in JobStatus : RequireJobTransition("RUNNING", s) => LegalMove("RUNNING", s)
  BY Zenon DEF LegalMove, Hop, RequireJobTransition, JOB_TRANSITIONS, JobStatus

\* The operator moves a job along one edge.
LEMMA OperatorLegal ==
  ASSUME IInv, OperatorStep
  PROVE  \A j \in Jobs : LegalMove(status[j], status'[j])
  <1>0. status \in [Jobs -> JobStatus \cup {NotCreated}]
    BY DEF IInv, TypeOK
  <1> USE <1>0, TakenEdges
  <1>1. CASE \E w \in Workflows, terminal \in BOOLEAN : StartWorkflow(w, terminal)
    BY <1>1, Zenon DEF StartWorkflow, InsertPending
  <1>2. CASE \E w \in Workflows : CancelWorkflow(w)
    BY <1>2, Zenon DEF CancelWorkflow
  <1>3. CASE \E j \in Jobs : RetryFailedJob(j)
    BY <1>3 DEF RetryFailedJob, SetStatus
  <1>4. CASE \E j \in Jobs, verdict \in {"CONFIRMED", "ABSENT"} : ReconcileUncertainEffect(j, verdict)
    BY <1>4 DEF ReconcileUncertainEffect, SetStatus
  <1> QED
    BY <1>1, <1>2, <1>3, <1>4, Zenon DEF OperatorStep

\* A worker's transaction takes its READY row through RUNNING.
LEMMA WorkerLegal ==
  ASSUME IInv, NEW p \in Workers, WorkerStep(p)
  PROVE  \A j \in Jobs : LegalMove(status[j], status'[j])
  <1>1. CASE WorkerRollback(p) \/ \E j \in Jobs : WorkerClaim(p, j)
    BY <1>1, TakenEdges, Zenon DEF WorkerRollback, WorkerClaim, IInv, TypeOK
  <1>2. CASE \E result \in AgentRunStatus, emitted \in BOOLEAN : WorkerCommit(p, result, emitted)
    <2>1. PICK result \in AgentRunStatus, emitted \in BOOLEAN : WorkerCommit(p, result, emitted)
      BY <1>2
    <2>2. txn[p].job # NoJob
      BY Zenon, <2>1 DEF WorkerCommit
    <2>3. status[txn[p].job] = "READY"
      BY <2>2, Zenon DEF IInv, OneExecutor
    <2>4. FinalStatus(result) \in {"SUCCEEDED", "FAILED", "BLOCKED"}
      BY DEF FinalStatus
    <2>5. ASSUME NEW j \in Jobs
          PROVE  \/ status'[j] = status[j]
                 \/ status[j] = NotCreated /\ status'[j] = "PENDING"
                 \/ j = txn[p].job /\ status'[j] = FinalStatus(result)
      BY Zenon, <2>1 DEF WorkerCommit
    <2> QED
      BY <2>3, <2>4, <2>5, TakenEdges DEF IInv, TypeOK
  <1>3. CASE WorkerMissingImplementation(p)
    BY <1>3, TakenEdges DEF WorkerMissingImplementation, SetStatus, OneExecutor, IInv, TypeOK
  <1> QED
    BY <1>1, <1>2, <1>3, Zenon DEF WorkerStep

\* A holder releases what it owns, and what it owns is RUNNING.
LEMMA HolderLegal ==
  ASSUME IInv, NEW h \in Holders, HolderStep(h)
  PROVE  \A j \in Jobs : LegalMove(status[j], status'[j])
  <1>0. /\ status \in [Jobs -> JobStatus \cup {NotCreated}]
        /\ \A j \in Jobs : owner[j] = h => status[j] = "RUNNING"
    BY Zenon DEF IInv, TypeOK, LeaseMeansRunning
  <1> USE <1>0, TakenEdges
  <1>1. CASE \E j \in Jobs : RunWorkerOnce(h, j)
    BY <1>1 DEF RunWorkerOnce, OldestClaimable, ClaimableBy, SetStatus
  <1>2. CASE \E j \in Jobs : ClaimBuildJob(h, j)
    BY <1>2 DEF ClaimBuildJob, SetStatus, JobStatus
  <1>3. CASE \E j \in Jobs, final \in JobStatus : ReleaseLease(h, j, final)
    BY <1>3 DEF ReleaseLease, SetStatus
  <1>4. CASE UNCHANGED status
    BY <1>4, Zenon
  <1> QED
    BY <1>1, <1>2, <1>3, <1>4, Zenon
    DEF HolderStep, Heartbeat, ExpireOwnLease, RecordEffect, HolderDies

\* The cycle promotes PENDING rows, and fails, ends or requeues RUNNING ones.
LEMMA SchedulerLegal ==
  ASSUME IInv, SchedulerCycle
  PROVE  \A j \in Jobs : LegalMove(status[j], status'[j])
  <1>1. \A j \in Jobs :
          \/ status'[j] = status[j]
          \/ status[j] = "RUNNING" /\ status'[j] \in {"FAILED", "TERMINAL_FAILURE", "READY"}
          \/ status[j] = "PENDING" /\ status'[j] = "READY"
    BY Zenon DEF SchedulerCycle, Oldest, Expired, Stalled, EvaluateJobReadiness, ReclaimStatus
  <1> QED
    BY <1>1, TakenEdges, Zenon DEF IInv, TypeOK

\* Every step of the system keeps every job on the canonical graph.
LEMMA NextLegal ==
  IInv /\ [Next]_vars => \A j \in Jobs : LegalMove(status[j], status'[j])
  <1> SUFFICES ASSUME IInv, [Next]_vars
               PROVE  \A j \in Jobs : LegalMove(status[j], status'[j])
    BY Zenon
  <1>1. CASE ResolverStep
    BY <1>1, TakenEdges, Zenon
    DEF ResolverStep, SatisfyDependency, PropagateDependencyFailure, IInv, TypeOK
  <1>2. CASE TimerStep
    BY <1>2, TakenEdges DEF TimerStep, ScheduleMaturityTimer, InsertPending, IInv, TypeOK
  <1>3. CASE UNCHANGED status
    BY <1>3, TakenEdges, Zenon DEF IInv, TypeOK
  <1>4. Tick \/ UNCHANGED vars => UNCHANGED status
    BY DEF Tick, vars
  <1> QED
    BY <1>1, <1>2, <1>3, <1>4, OperatorLegal, WorkerLegal, HolderLegal, SchedulerLegal, Zenon DEF Next

\* jobs.status only ever moves along JOB_TRANSITIONS, also where the code
\* assigns it without asking require_job_transition about the row it has.
THEOREM CanonicalStatus == Spec => StatusFollowsGuard
  BY SpecIInv, NextLegal, PTL DEF Spec, StatusFollowsGuard

-----------------------------------------------------------------------------
(* AgentRuns.                                                              *)

\* The prompt rows, as far as the recorded runs cite them.
Pinned(rows) ==
  \A i \in DOMAIN runs :
    runs[i].sha \in DOMAIN rows /\ rows[runs[i].sha].reference = runs[i].reference

\* A run at work cites the text it was given, under a row that is still there.
CitesItsText(r) ==
  runner_at[r] = "executing" => cited[r].text = cited[r].sha /\ cited[r].sha \in DOMAIN prompts

\* A runner's reviews have the numbers of their places.
ReviewsInOrder(r) ==
  artifacts[r] \in Seq(Nat) /\ \A i \in DOMAIN artifacts[r] : artifacts[r][i] = i

\* The inductive invariant of AgentRuns.
RunsInv ==
  /\ \E S : runs \in Seq(S)
  /\ DOMAIN runner_at = Runners /\ DOMAIN cited = Runners /\ DOMAIN artifacts = Runners
  /\ Pinned(prompts)
  /\ \A i \in DOMAIN runs : runs[i].text = runs[i].sha
  /\ \A r \in Runners : CitesItsText(r) /\ ReviewsInOrder(r)

\* One prompt file leaves the rows that runs cite alone, or refuses the seed.
LEMMA SeedPromptKeeps ==
  ASSUME NEW ok, NEW rows, NEW v, Pinned(rows),
         SeedPrompt([ok |-> ok, rows |-> rows], v).ok = TRUE
  PROVE  LET next == SeedPrompt([ok |-> ok, rows |-> rows], v)
         IN  Pinned(next.rows) /\ DOMAIN rows \subseteq DOMAIN next.rows
  <1> DEFINE c == files[v]
             row == IF c \in DOMAIN rows THEN [rows[c] EXCEPT !.reference = v]
                    ELSE [reference |-> v, version |-> v]
             next == SeedPrompt([ok |-> ok, rows |-> rows], v)
             added == [d \in DOMAIN rows \union {c} |-> IF d = c THEN row ELSE rows[d]]
  <1>1. \/ next.rows = rows
        \/ next.rows = added /\ ~(c \in DOMAIN rows /\ Cites(c, rows[c].reference))
    BY DEF SeedPrompt, Refused
  <1>2. CASE next.rows = rows
    BY <1>2, Zenon
  <1>3. CASE next.rows = added /\ ~(c \in DOMAIN rows /\ Cites(c, rows[c].reference))
    <2>1. ASSUME NEW i \in DOMAIN runs
          PROVE  runs[i].sha \in DOMAIN added /\ added[runs[i].sha].reference = runs[i].reference
      <3>1. runs[i].sha \in DOMAIN rows /\ rows[runs[i].sha].reference = runs[i].reference
        BY Zenon DEF Pinned
      <3>2. runs[i].sha # c
        BY <1>3, <3>1 DEF Cites
      <3> QED
        BY <3>1, <3>2
    <2>2. Pinned(added) /\ DOMAIN rows \subseteq DOMAIN added
      BY Zenon, <2>1 DEF Pinned
    <2> QED
      BY <1>3, <2>2
  <1> QED
    BY <1>1, <1>2, <1>3

\* A seed that succeeds keeps the rows that runs cite.
LEMMA SeedKeeps ==
  ASSUME RunsInv, Seed
  PROVE  RunsInv'
  <1> DEFINE first == SeedPrompt([ok |-> TRUE, rows |-> prompts], 1)
             second == SeedPrompt(first, 2)
  <1>1. second.ok /\ prompts' = second.rows
    BY Zenon DEF Seed, SeedPrompts
  <1>2. first = [ok |-> first.ok, rows |-> first.rows] /\ first.ok \in BOOLEAN
    BY Zenon DEF SeedPrompt, Refused
  <1>3. first.ok
    BY Zenon, <1>1, <1>2 DEF SeedPrompt
  <1>4. Pinned(first.rows) /\ DOMAIN prompts \subseteq DOMAIN first.rows
    BY Zenon, <1>2, <1>3, SeedPromptKeeps DEF RunsInv
  <1>5. Pinned(second.rows) /\ DOMAIN first.rows \subseteq DOMAIN second.rows
    BY Zenon, <1>1, <1>2, <1>3, <1>4, SeedPromptKeeps
  <1>6. UNCHANGED <<runs, runner_at, cited, artifacts>>
    BY DEF Seed
  <1>7. \A r \in Runners : CitesItsText(r)' /\ ReviewsInOrder(r)'
    BY Zenon, <1>1, <1>4, <1>5, <1>6 DEF RunsInv, CitesItsText, ReviewsInOrder
  <1>8. Pinned(prompts)'
    BY Zenon, <1>1, <1>5, <1>6 DEF Pinned
  <1> QED
    BY <1>6, <1>7, <1>8, Zenon DEF RunsInv

\* A run begins with the text of the row it cites, and with no reviews.
LEMMA BeginKeeps ==
  ASSUME RunsInv, NEW r \in Runners, Begin(r)
  PROVE  RunsInv'
  <1>1. UNCHANGED <<runs, prompts>>
    BY DEF Begin
  <1>2. PICK c \in DOMAIN prompts :
          \E v : cited' = [cited EXCEPT ![r] = [reference |-> v, sha |-> c, text |-> c]]
    <2>1. PICK c \in ByReference(loaded[r].reference) :
            PromptLoads(loaded[r].reference, c) /\ BeginRun(r, loaded[r].reference, c)
      BY Zenon DEF Begin
    <2> QED
      BY Zenon, <2>1 DEF BeginRun, ByReference, PromptLoads
  <1>3. /\ DOMAIN runner_at' = Runners /\ DOMAIN cited' = Runners /\ DOMAIN artifacts' = Runners
        /\ cited'[r].text = c /\ cited'[r].sha = c /\ artifacts'[r] = << >>
        /\ \A o \in Runners : o # r =>
             runner_at'[o] = runner_at[o] /\ cited'[o] = cited[o] /\ artifacts'[o] = artifacts[o]
    <2>1. /\ runner_at' = [runner_at EXCEPT ![r] = "executing"]
          /\ artifacts' = [artifacts EXCEPT ![r] = << >>]
      BY Zenon DEF Begin
    <2>2. DOMAIN runner_at = Runners /\ DOMAIN cited = Runners /\ DOMAIN artifacts = Runners
      BY Zenon DEF RunsInv
    <2>3. /\ DOMAIN cited' = Runners /\ cited'[r].text = c /\ cited'[r].sha = c
          /\ \A o \in Runners : o # r => cited'[o] = cited[o]
      <3>1. PICK v : cited' = [cited EXCEPT ![r] = [reference |-> v, sha |-> c, text |-> c]]
        BY <1>2, Zenon
      <3>2. cited'[r] = [reference |-> v, sha |-> c, text |-> c]
        BY <2>2, <3>1, Zenon
      <3> QED
        BY <2>2, <3>1, <3>2, Zenon
    <2>4. /\ DOMAIN runner_at' = Runners /\ DOMAIN artifacts' = Runners /\ artifacts'[r] = << >>
          /\ \A o \in Runners : o # r =>
               runner_at'[o] = runner_at[o] /\ artifacts'[o] = artifacts[o]
      BY <2>1, <2>2
    <2> QED
      BY <2>3, <2>4, Zenon
  <1>4. ReviewsInOrder(r)' /\ CitesItsText(r)'
    <2>1. ReviewsInOrder(r)'
      BY <1>3 DEF ReviewsInOrder
    <2>2. CitesItsText(r)'
      BY <1>1, <1>3, Zenon DEF CitesItsText
    <2> QED
      BY <2>1, <2>2
  <1>5. \A o \in Runners : o # r => CitesItsText(o)' /\ ReviewsInOrder(o)'
    BY <1>1, <1>3, Zenon DEF RunsInv, CitesItsText, ReviewsInOrder
  <1> QED
    BY <1>1, <1>3, <1>4, <1>5, Zenon DEF RunsInv, Pinned

\* A runner that stops leaves the others alone.
LEMMA IdleKeeps ==
  ASSUME RunsInv, NEW r \in Runners, RunnerIdle(r), prompts' = prompts
  PROVE  /\ DOMAIN runner_at' = Runners /\ DOMAIN cited' = Runners /\ DOMAIN artifacts' = Runners
         /\ \A o \in Runners : CitesItsText(o)' /\ ReviewsInOrder(o)'
  <1>1. /\ DOMAIN runner_at' = Runners /\ DOMAIN cited' = Runners /\ DOMAIN artifacts' = Runners
        /\ runner_at'[r] = "idle" /\ artifacts'[r] = << >>
        /\ \A o \in Runners : o # r =>
             runner_at'[o] = runner_at[o] /\ cited'[o] = cited[o] /\ artifacts'[o] = artifacts[o]
    BY Zenon DEF RunnerIdle, RunsInv
  <1>2. ReviewsInOrder(r)' /\ CitesItsText(r)'
    <2>1. ReviewsInOrder(r)'
      BY <1>1 DEF ReviewsInOrder
    <2>2. CitesItsText(r)'
      BY <1>1, Zenon DEF CitesItsText
    <2> QED
      BY <2>1, <2>2
  <1>3. \A o \in Runners : o # r => CitesItsText(o)' /\ ReviewsInOrder(o)'
    BY <1>1, Zenon DEF RunsInv, CitesItsText, ReviewsInOrder
  <1> QED
    BY <1>1, <1>2, <1>3, Zenon

\* A run is recorded only while its row still has the reference it cites.
LEMMA FinishKeeps ==
  ASSUME RunsInv, NEW r \in Runners, Finish(r)
  PROVE  RunsInv'
  <1>1. prompts' = prompts /\ RunnerIdle(r) /\ runner_at[r] = "executing"
        /\ prompts[cited[r].sha].reference = cited[r].reference
    BY Zenon DEF Finish
  <1>2. PICK run : /\ runs' = Append(runs, run) /\ run.sha = cited[r].sha
                   /\ run.text = cited[r].text /\ run.reference = cited[r].reference
    <2>1. PICK end : FinalizeRun(r, end)
      BY Zenon DEF Finish
    <2> DEFINE row == [number |-> number[r], status |-> end, reference |-> cited[r].reference,
                       sha |-> cited[r].sha, text |-> cited[r].text]
    <2>2. runs' = Append(runs, row)
      BY Zenon, <2>1 DEF FinalizeRun
    <2>3. row.sha = cited[r].sha /\ row.text = cited[r].text /\ row.reference = cited[r].reference
      BY Zenon
    <2> HIDE DEF row
    <2> QED
      BY Zenon, <2>2, <2>3
  <1>3. /\ run.text = run.sha /\ run.sha \in DOMAIN prompts
        /\ prompts[run.sha].reference = run.reference
    BY Zenon, <1>1, <1>2 DEF RunsInv, CitesItsText
  <1>4. PICK S : runs \in Seq(S)
    BY Zenon DEF RunsInv
  <1>5. /\ runs' \in Seq(S \cup {run})
        /\ \A i \in DOMAIN runs' : (i \in DOMAIN runs /\ runs'[i] = runs[i]) \/ runs'[i] = run
    BY <1>2, <1>4
  <1>6. \A i \in DOMAIN runs' :
          /\ runs'[i].text = runs'[i].sha
          /\ runs'[i].sha \in DOMAIN prompts /\ prompts[runs'[i].sha].reference = runs'[i].reference
    BY Zenon, <1>3, <1>5 DEF RunsInv, Pinned
  <1>7. Pinned(prompts)'
    BY <1>1, <1>6, Zenon DEF Pinned
  <1> QED
    BY Zenon, <1>1, <1>5, <1>6, <1>7, IdleKeeps DEF RunsInv

\* A review gets the number after the last one.
LEMMA ReviewKeeps ==
  ASSUME RunsInv, NEW r \in Runners, ReviewAnswered(r)
  PROVE  RunsInv'
  <1>1. UNCHANGED <<runs, prompts, runner_at, cited>>
    BY DEF ReviewAnswered
  <1>2. \/ artifacts' = artifacts
        \/ artifacts' = [artifacts EXCEPT ![r] = Append(artifacts[r], Len(artifacts[r]) + 1)]
    BY DEF ReviewAnswered, ReviewNumber
  <1>3. ReviewsInOrder(r)'
    <2>1. artifacts[r] \in Seq(Nat) /\ \A i \in DOMAIN artifacts[r] : artifacts[r][i] = i
      BY Zenon DEF RunsInv, ReviewsInOrder
    <2>2. \/ artifacts'[r] = artifacts[r]
          \/ artifacts'[r] = Append(artifacts[r], Len(artifacts[r]) + 1)
      BY <1>2, Zenon DEF RunsInv
    <2>3. ASSUME NEW s \in Seq(Nat), \A i \in DOMAIN s : s[i] = i, NEW n, n = Len(s) + 1
          PROVE  Append(s, n) \in Seq(Nat) /\ \A i \in DOMAIN Append(s, n) : Append(s, n)[i] = i
      BY <2>3
    <2> QED
      BY Zenon, <2>1, <2>2, <2>3 DEF ReviewsInOrder
  <1>4. DOMAIN artifacts' = Runners /\ \A o \in Runners : o # r => artifacts'[o] = artifacts[o]
    BY <1>2, Zenon DEF RunsInv
  <1>5. \A o \in Runners : CitesItsText(o)' /\ ReviewsInOrder(o)'
    BY Zenon, <1>1, <1>3, <1>4 DEF RunsInv, CitesItsText, ReviewsInOrder
  <1> QED
    BY Zenon, <1>1, <1>4, <1>5 DEF RunsInv, Pinned

\* RunsCiteTheirText, for any number of runners, contents, edits and runs.
THEOREM CitationsHold == RunsSpec => []RunsCiteTheirText
  <1>1. RunsInit => RunsInv
    <2> SUFFICES ASSUME RunsInit PROVE RunsInv
      OBVIOUS
    <2>1. /\ runs = << >>
          /\ runner_at = [r \in Runners |-> "idle"] /\ DOMAIN cited = Runners
          /\ artifacts = [r \in Runners |-> << >>]
      BY Zenon DEF RunsInit
    <2>2. \A r \in Runners : CitesItsText(r)
      BY <2>1, Zenon DEF CitesItsText
    <2>3. \A r \in Runners : ReviewsInOrder(r)
      BY <2>1 DEF ReviewsInOrder
    <2>4. runs \in Seq({}) /\ DOMAIN runs = {}
      BY <2>1
    <2> QED
      BY <2>1, <2>2, <2>3, <2>4, Zenon DEF RunsInv, Pinned
  <1>2. RunsInv /\ [RunsNext]_runVars => RunsInv'
    <2> SUFFICES ASSUME RunsInv, [RunsNext]_runVars PROVE RunsInv'
      OBVIOUS
    <2>1. ASSUME UNCHANGED <<runs, prompts, runner_at, cited, artifacts>> PROVE RunsInv'
      BY <2>1, Zenon DEF RunsInv, Pinned, CitesItsText, ReviewsInOrder
    <2>2. ASSUME NEW r \in Runners, Lose(r) PROVE RunsInv'
      BY <2>2, IdleKeeps, Zenon DEF Lose, RunsInv, Pinned
    <2>3. CASE EditFile \/ UNCHANGED runVars
      BY <2>1, <2>3 DEF EditFile, runVars
    <2>4. ASSUME NEW r \in Runners, Start(r) \/ RequestReview(r) PROVE RunsInv'
      BY Zenon, <2>1, <2>4 DEF Start, RequestReview
    <2> QED
      BY <2>2, <2>3, <2>4, SeedKeeps, BeginKeeps, FinishKeeps, ReviewKeeps DEF RunsNext
  <1>3. RunsInv => RunsCiteTheirText
    BY Zenon DEF RunsInv, Pinned, ReviewsInOrder, RunsCiteTheirText
  <1> QED
    BY <1>1, <1>2, <1>3, PTL DEF RunsSpec
=============================================================================
