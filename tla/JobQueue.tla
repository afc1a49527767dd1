------------------------------ MODULE JobQueue ------------------------------
(***************************************************************************)
(* The durable job queue: the jobs and workflow_runs rows in PostgreSQL    *)
(* and every transaction that changes a job's status or lease.             *)
(*                                                                         *)
(*   worker processes   orchestration/worker.py: claim, execute, release   *)
(*                      and dispatch inside ONE transaction, so the row    *)
(*                      stays READY (and locked) until the commit;         *)
(*   lease holders      cli/real_draft.py and library callers of           *)
(*                      leases.py, which commit the claim and work outside *)
(*                      the transaction;                                   *)
(*   the scheduler      scheduler.py: reclaim, stall detection, promotion  *)
(*                      in one transaction;                                *)
(*   the operator       engine.py: start, retry, cancel, reconcile.        *)
(*                                                                         *)
(* A committed transaction is one step, except the worker's, whose row     *)
(* lock outlives many steps of the others.  Time is a logical clock.       *)
(***************************************************************************)
EXTENDS TransitionGuard, RetryPolicy, FiniteSets

CONSTANTS
  Jobs, Workflows,
  Workers,            \* worker processes
  Holders,            \* lease owners that commit their claim (one per process)
  WorkerId,           \* deterministic_worker_id(1): every worker process's id
  NoJob, NoOwner,
  WorkflowOf,         \* jobs.workflow_id
  EntryJobs,          \* spawned by start_workflow
  BuildJobs,          \* RealProductBuild jobs of cli/real_draft.py
  TimerJobs,          \* maturity timers
  SuccessorsOf,       \* jobs created by the events a job's result emits
  DependsOn,          \* job_dependencies rows inserted with the job
  KeyReservedByOther, \* jobs whose idempotency key another job has reserved
  RetryClassOf,
  MaxAttempts,
  LeaseDuration,      \* LEASE_DURATION of the worker and of run_worker_once
  BuildLease,         \* the two hours of claim_build_job
  StallThreshold,     \* DEFAULT_STALL_THRESHOLD
  Limit,              \* reclaim_limit, stall_limit and promote_limit
  Backoff,            \* backoff delay per attempt number
  MaxTime             \* bound on the clock, for model checking

ASSUME IdentityAssumption ==
  /\ NoJob \notin Jobs
  /\ WorkerId \notin Holders
  /\ NoOwner \notin Holders \cup {WorkerId}

ASSUME RowAssumption ==
  /\ WorkflowOf \in [Jobs -> Workflows]
  /\ EntryJobs \subseteq Jobs /\ BuildJobs \subseteq Jobs /\ TimerJobs \subseteq Jobs
  /\ SuccessorsOf \in [Jobs -> SUBSET Jobs]
  /\ DependsOn \in [Jobs -> SUBSET Jobs]
  /\ KeyReservedByOther \subseteq Jobs
  /\ RetryClassOf \in [Jobs -> RetryClass]

\* No code inserts a dependency row for a RealProductBuild job.
ASSUME BuildAssumption == \A j \in BuildJobs : DependsOn[j] = {}

\* jobs has CHECK (max_attempts > 0).
ASSUME BudgetAssumption == MaxAttempts \in Nat \ {0}

ASSUME TimeAssumption ==
  /\ LeaseDuration \in Nat /\ BuildLease \in Nat /\ StallThreshold \in Nat
  /\ Backoff \in [0..MaxAttempts -> Nat]
  /\ MaxTime \in Nat /\ Limit \in Nat

VARIABLES
  wf,              \* workflow_runs: absent, active, or completed_at set
  productTerminal, \* workflow_runs.product_state is REJECTED or DEACTIVATED
  status, attempt, scheduledAt,
  owner, expires, beat,  \* lease_owner, lease_expires_at, heartbeat_at
  satisfied,       \* the predecessors whose dependency row has satisfied_at
  effect,          \* effect_state of the job's latest effect_attempts row
  txn,             \* the job each worker's open transaction has claimed, and when
  alive,           \* lease holders that have not died
  clock

leaseVars == <<owner, expires, beat>>
wfVars    == <<wf, productTerminal>>
vars == <<wf, productTerminal, status, attempt, scheduledAt, owner, expires, beat,
          satisfied, effect, txn, alive, clock>>

NotCreated == "NOT_CREATED"   \* no row yet
NoTime     == -1              \* SQL NULL
Idle       == [job |-> NoJob, now |-> 0]
EffectStates == {"NONE", "UNKNOWN", "ABSENT", "CONFIRMED"}

TypeOK ==
  /\ wf \in [Workflows -> {"NONE", "ACTIVE", "COMPLETED"}]
  /\ productTerminal \in [Workflows -> BOOLEAN]
  /\ status \in [Jobs -> JobStatus \cup {NotCreated}]
  /\ attempt \in [Jobs -> Nat]
  /\ scheduledAt \in [Jobs -> Nat]
  /\ owner \in [Jobs -> Holders \cup {WorkerId, NoOwner}]
  /\ expires \in [Jobs -> Nat \cup {NoTime}]
  /\ beat \in [Jobs -> Nat \cup {NoTime}]
  /\ satisfied \in [Jobs -> SUBSET Jobs]
  /\ effect \in [Jobs -> EffectStates]
  /\ txn \in [Workers -> [job : Jobs \cup {NoJob}, now : Nat]]
  /\ alive \in [Holders -> BOOLEAN]
  /\ clock \in Nat

Init ==
  /\ wf = [w \in Workflows |-> "NONE"]
  /\ productTerminal = [w \in Workflows |-> FALSE]
  /\ status = [j \in Jobs |-> NotCreated]
  /\ attempt = [j \in Jobs |-> 0]
  /\ scheduledAt = [j \in Jobs |-> 0]
  /\ owner = [j \in Jobs |-> NoOwner]
  /\ expires = [j \in Jobs |-> NoTime]
  /\ beat = [j \in Jobs |-> NoTime]
  /\ satisfied = [j \in Jobs |-> {}]
  /\ effect = [j \in Jobs |-> "NONE"]
  /\ txn = [p \in Workers |-> Idle]
  /\ alive = [h \in Holders |-> TRUE]
  /\ clock = 0

-----------------------------------------------------------------------------
(* Row helpers.                                                            *)

Unlocked(j) == \A p \in Workers : txn[p].job # j

\* A new jobs row: PENDING, attempt 0, no lease (the defaults of Init).
InsertPending(new, at) ==
  /\ status' = [j \in Jobs |-> IF j \in new THEN "PENDING" ELSE status[j]]
  /\ scheduledAt' = [j \in Jobs |-> IF j \in new THEN at ELSE scheduledAt[j]]

SetStatus(j, s) == status' = [status EXCEPT ![j] = s]

GrantLease(j, who, duration) ==
  /\ owner' = [owner EXCEPT ![j] = who]
  /\ expires' = [expires EXCEPT ![j] = clock + duration]
  /\ beat' = [beat EXCEPT ![j] = clock]

ClearLeases(S) ==
  /\ owner' = [j \in Jobs |-> IF j \in S THEN NoOwner ELSE owner[j]]
  /\ expires' = [j \in Jobs |-> IF j \in S THEN NoTime ELSE expires[j]]
  /\ beat' = [j \in Jobs |-> IF j \in S THEN NoTime ELSE beat[j]]

\* ORDER BY key LIMIT n over the rows S: ties are in no particular order.
Oldest(S, key, n) ==
  {B \in SUBSET S :
     /\ Cardinality(B) = IF Cardinality(S) <= n THEN Cardinality(S) ELSE n
     /\ \A j \in B, k \in S \ B : key[j] <= key[k]}

-----------------------------------------------------------------------------
(* The operator: engine.py through the CLI and the API.                    *)

\* start_workflow commits the workflow row and its PENDING entry jobs; the
\* caller names the product state, which may be a terminal one.
StartWorkflow(w, terminal) ==
  /\ wf[w] = "NONE"
  /\ wf' = [wf EXCEPT ![w] = "ACTIVE"]
  /\ productTerminal' = [productTerminal EXCEPT ![w] = terminal]
  /\ InsertPending({j \in EntryJobs : WorkflowOf[j] = w /\ status[j] = NotCreated}, clock)
  /\ UNCHANGED <<attempt, leaseVars, satisfied, effect, txn, alive, clock>>

\* retry_failed_job: neither the attempt nor the workflow is looked at again.
RetryFailedJob(j) ==
  /\ status[j] = "FAILED"
  /\ CanRetry(RetryClassOf[j], attempt[j], MaxAttempts, effect[j] \in {"CONFIRMED", "ABSENT"})
  /\ SetStatus(j, "READY")
  /\ scheduledAt' = [scheduledAt EXCEPT ![j] = clock + Backoff[attempt[j]]]
  /\ UNCHANGED <<wfVars, attempt, leaseVars, satisfied, effect, txn, alive, clock>>

\* cancel_workflow waits for the locks of the workflow's PENDING and READY rows.
CancelWorkflow(w) ==
  LET cancelled == {j \in Jobs : WorkflowOf[j] = w /\ status[j] \in {"PENDING", "READY"}}
  IN  /\ wf[w] # "NONE"
      /\ \A j \in cancelled : Unlocked(j)
      /\ wf' = [wf EXCEPT ![w] = "COMPLETED"]
      /\ status' = [j \in Jobs |-> IF j \in cancelled THEN "CANCELLED" ELSE status[j]]
      /\ UNCHANGED <<productTerminal, attempt, scheduledAt, leaseVars, satisfied, effect,
                     txn, alive, clock>>

\* engine.reconcile_uncertain_effect: the operator's verdict on the latest row.
ReconcileUncertainEffect(j, verdict) ==
  /\ status[j] = "UNCERTAIN_EXTERNAL_EFFECT"
  /\ effect[j] # "NONE"
  /\ effect' = [effect EXCEPT ![j] = verdict]
  /\ SetStatus(j, IF verdict = "CONFIRMED" THEN "SUCCEEDED" ELSE "FAILED")
  /\ UNCHANGED <<wfVars, attempt, scheduledAt, leaseVars, satisfied, txn, alive, clock>>

-----------------------------------------------------------------------------
(* Worker processes.  The claim is a lock on a READY row inside an open    *)
(* transaction; nothing is visible to the others until the commit.         *)

\* A plausible slip: no FOR UPDATE SKIP LOCKED on the claim query.
ClaimableBy_NoLock(j) == status[j] = "READY" /\ scheduledAt[j] <= clock

ClaimableBy(j) == status[j] = "READY" /\ scheduledAt[j] <= clock /\ Unlocked(j)

\* claim_ready_job takes the oldest due READY row that nobody has locked.
OldestClaimable(j) ==
  /\ ClaimableBy(j)
  /\ \A k \in Jobs : ClaimableBy(k) => scheduledAt[j] <= scheduledAt[k]

WorkerClaim(p, j) ==
  /\ txn[p].job = NoJob
  /\ OldestClaimable(j)
  /\ txn' = [txn EXCEPT ![p] = [job |-> j, now |-> clock]]
  /\ UNCHANGED <<wfVars, status, attempt, scheduledAt, leaseVars, satisfied, effect, alive, clock>>

\* The result's status decides the final one; BLOCKED and
\* UNCERTAIN_EXTERNAL_EFFECT results both become BLOCKED.
FinalStatus(result) ==
  IF result = "SUCCESS" THEN "SUCCEEDED" ELSE IF result = "FAILURE" THEN "FAILED" ELSE "BLOCKED"

\* Heartbeat, release and dispatch commit together with the claim.  An event
\* that is new creates its successors; one already recorded creates none.
WorkerCommit(p, result, emitted) ==
  LET j == txn[p].job
      spawned == IF emitted THEN {k \in SuccessorsOf[j] : status[k] = NotCreated} ELSE {}
  IN  /\ j # NoJob
      /\ status' = [k \in Jobs |-> IF k = j THEN FinalStatus(result)
                                   ELSE IF k \in spawned THEN "PENDING" ELSE status[k]]
      /\ scheduledAt' = [k \in Jobs |-> IF k # j /\ k \in spawned THEN txn[p].now
                                        ELSE scheduledAt[k]]
      /\ ClearLeases({j})
      /\ txn' = [txn EXCEPT ![p] = Idle]
      /\ UNCHANGED <<wfVars, attempt, satisfied, effect, alive, clock>>

\* An agent without an implementation: FAILED is committed with the claim's
\* lease fields still set.
WorkerMissingImplementation(p) ==
  LET j == txn[p].job
  IN  /\ j # NoJob
      /\ SetStatus(j, "FAILED")
      /\ owner' = [owner EXCEPT ![j] = WorkerId]
      /\ expires' = [expires EXCEPT ![j] = txn[p].now + LeaseDuration]
      /\ beat' = [beat EXCEPT ![j] = txn[p].now]
      /\ txn' = [txn EXCEPT ![p] = Idle]
      /\ UNCHANGED <<wfVars, attempt, scheduledAt, satisfied, effect, alive, clock>>

\* Any other exception, or the death of the process, rolls everything back.
WorkerRollback(p) ==
  /\ txn[p].job # NoJob
  /\ txn' = [txn EXCEPT ![p] = Idle]
  /\ UNCHANGED <<wfVars, status, attempt, scheduledAt, leaseVars, satisfied, effect, alive, clock>>

-----------------------------------------------------------------------------
(* Lease holders: the claim is committed, the work is outside any          *)
(* transaction, and the row is RUNNING for everyone to see.                *)

\* run_worker_once / claim_ready_job in a transaction of its own.
RunWorkerOnce(h, j) ==
  /\ alive[h]
  /\ OldestClaimable(j)
  /\ clock + LeaseDuration <= MaxTime
  /\ SetStatus(j, "RUNNING")
  /\ GrantLease(j, h, LeaseDuration)
  /\ UNCHANGED <<wfVars, attempt, scheduledAt, satisfied, effect, txn, alive, clock>>

\* prepare_run and claim_build_job commit together: the first run creates the
\* job, a later one takes a READY row or a RUNNING one whose lease has expired.
ClaimBuildJob(h, j) ==
  /\ alive[h] /\ j \in BuildJobs /\ Unlocked(j)
  /\ clock + BuildLease <= MaxTime
  /\ \/ /\ status[j] = NotCreated
        /\ wf' = [wf EXCEPT ![WorkflowOf[j]] = IF @ = "NONE" THEN "ACTIVE" ELSE @]
        /\ scheduledAt' = [scheduledAt EXCEPT ![j] = clock]
     \/ /\ status[j] = "READY" \/ (status[j] = "RUNNING" /\ expires[j] <= clock)
        /\ UNCHANGED <<wf, scheduledAt>>
  /\ SetStatus(j, "RUNNING")
  /\ GrantLease(j, h, BuildLease)
  /\ UNCHANGED <<productTerminal, attempt, satisfied, effect, txn, alive, clock>>

\* heartbeat: refused once the lease has expired; the extension is optional.
Heartbeat(h, j, extend) ==
  /\ alive[h]
  /\ owner[j] = h /\ Unlocked(j)
  /\ ~(expires[j] # NoTime /\ expires[j] < clock)
  /\ extend => clock + LeaseDuration <= MaxTime
  /\ beat' = [beat EXCEPT ![j] = clock]
  /\ expires' = IF extend THEN [expires EXCEPT ![j] = clock + LeaseDuration] ELSE expires
  /\ UNCHANGED <<wfVars, status, attempt, scheduledAt, owner, satisfied, effect, txn, alive, clock>>

\* A plausible slip: the lease owner is not compared with the caller.
ReleaseLease_AnyCaller(h, j, final) ==
  /\ alive[h] /\ Unlocked(j) /\ status[j] # NotCreated
  /\ RequireJobTransition("RUNNING", final)
  /\ SetStatus(j, final)
  /\ ClearLeases({j})
  /\ UNCHANGED <<wfVars, attempt, scheduledAt, satisfied, effect, txn, alive, clock>>

\* release_lease checks the owner, and neither the expiry nor the row's status:
\* the transition it validates starts from the constant RUNNING.
ReleaseLease(h, j, final) ==
  /\ alive[h]
  /\ owner[j] = h /\ Unlocked(j)
  /\ RequireJobTransition("RUNNING", final)
  /\ SetStatus(j, final)
  /\ ClearLeases({j})
  /\ UNCHANGED <<wfVars, attempt, scheduledAt, satisfied, effect, txn, alive, clock>>

\* The finally clause of real_draft.execute gives an unfinished lease up.
ExpireOwnLease(h, j) ==
  /\ alive[h]
  /\ status[j] = "RUNNING" /\ owner[j] = h
  /\ expires' = [expires EXCEPT ![j] = clock]
  /\ UNCHANGED <<wfVars, status, attempt, scheduledAt, owner, beat, satisfied, effect, txn, alive, clock>>

\* record_effect_attempt by SqlDraftEffects: the id of an accepted object is
\* recorded (as UNKNOWN) whoever holds the lease, a verdict only by its owner.
RecordEffect(h, j, state) ==
  /\ alive[h]
  /\ j \in BuildJobs /\ status[j] # NotCreated /\ Unlocked(j)
  /\ state = "UNKNOWN" \/ (status[j] = "RUNNING" /\ owner[j] = h /\ expires[j] > clock)
  /\ effect' = [effect EXCEPT ![j] = state]
  /\ UNCHANGED <<wfVars, status, attempt, scheduledAt, leaseVars, satisfied, txn, alive, clock>>

HolderDies(h) ==
  /\ alive[h]
  /\ alive' = [alive EXCEPT ![h] = FALSE]
  /\ UNCHANGED <<wfVars, status, attempt, scheduledAt, leaseVars, satisfied, effect, txn, clock>>

-----------------------------------------------------------------------------
(* The dependency resolver.                                                *)

\* A plausible slip: the mark is trusted and the predecessor not looked at.
DependenciesSatisfied_MarkOnly(j) == DependsOn[j] \subseteq satisfied[j]

\* check_dependencies_satisfied wants both the mark and the success.
DependenciesSatisfied(j) ==
  \A d \in DependsOn[j] : d \in satisfied[j] /\ status[d] = "SUCCEEDED"

\* evaluate_job_readiness for a PENDING job that is due.
EvaluateJobReadiness(j) ==
  /\ status[j] = "PENDING"
  /\ scheduledAt[j] <= clock
  /\ DependenciesSatisfied(j)
  /\ wf[WorkflowOf[j]] = "ACTIVE"
  /\ ~productTerminal[WorkflowOf[j]]
  /\ j \notin KeyReservedByOther

\* satisfy_dependency marks the rows without asking for the job's status.
SatisfyDependency(d) ==
  /\ status[d] # NotCreated
  /\ satisfied' = [j \in Jobs |-> IF status[j] # NotCreated /\ d \in DependsOn[j]
                                  THEN satisfied[j] \cup {d} ELSE satisfied[j]]
  /\ UNCHANGED <<wfVars, status, attempt, scheduledAt, leaseVars, effect, txn, alive, clock>>

PropagateDependencyFailure(d) ==
  /\ status[d] # NotCreated
  /\ status' = [j \in Jobs |-> IF status[j] = "PENDING" /\ d \in DependsOn[j]
                               THEN "BLOCKED" ELSE status[j]]
  /\ UNCHANGED <<wfVars, attempt, scheduledAt, leaseVars, satisfied, effect, txn, alive, clock>>

-----------------------------------------------------------------------------
(* The scheduler.                                                          *)

\* A plausible slip: leases of a completed workflow's jobs are left alone.
Expired_ActiveOnly ==
  {j \in Jobs : /\ status[j] = "RUNNING" /\ expires[j] # NoTime /\ expires[j] <= clock
                /\ wf[WorkflowOf[j]] = "ACTIVE"}

Expired == {j \in Jobs : status[j] = "RUNNING" /\ expires[j] # NoTime /\ expires[j] <= clock}

Stalled == {j \in Jobs : /\ status[j] = "RUNNING" /\ beat[j] # NoTime
                         /\ beat[j] < clock - StallThreshold
                         /\ expires[j] > clock}

\* A plausible slip: the comparison with now is the wrong way round.
Due_Reversed == {j \in Jobs : status[j] = "PENDING" /\ scheduledAt[j] >= clock}

Due == {j \in Jobs : status[j] = "PENDING" /\ scheduledAt[j] <= clock}

\* reclaim_expired_leases: RUNNING -> FAILED, and on from there by retry class.
ReclaimStatus(j) ==
  IF RetryClassOf[j] = "MANUAL_RESUME" THEN "FAILED"
  ELSE IF RetryClassOf[j] = "NEVER" \/ attempt[j] + 1 >= MaxAttempts THEN "TERMINAL_FAILURE"
  ELSE "READY"

\* run_scheduler_cycle: reclaim, then detect stalls, then promote, in one
\* transaction.  The three read disjoint rows, and neither of the first two
\* produces the SUCCEEDED predecessor the third looks for.
SchedulerCycle ==
  \E reclaimed \in Oldest(Expired, expires, Limit),
     stalled \in Oldest(Stalled, beat, Limit),
     examined \in Oldest(Due, scheduledAt, Limit) :
    /\ status' = [j \in Jobs |->
                    IF j \in reclaimed THEN ReclaimStatus(j)
                    ELSE IF j \in stalled THEN "FAILED"
                    ELSE IF j \in examined /\ EvaluateJobReadiness(j) THEN "READY"
                    ELSE status[j]]
    /\ attempt' = [j \in Jobs |-> IF j \in reclaimed \cup stalled THEN attempt[j] + 1
                                  ELSE attempt[j]]
    /\ ClearLeases(reclaimed \cup stalled)
    /\ UNCHANGED <<wfVars, scheduledAt, satisfied, effect, txn, alive, clock>>

\* schedule_maturity_timer: only for a workflow that is still active.
ScheduleMaturityTimer(j, at) ==
  /\ j \in TimerJobs /\ status[j] = NotCreated
  /\ wf[WorkflowOf[j]] = "ACTIVE"
  /\ InsertPending({j}, at)
  /\ UNCHANGED <<wfVars, attempt, leaseVars, satisfied, effect, txn, alive, clock>>

Tick ==
  /\ clock < MaxTime
  /\ clock' = clock + 1
  /\ UNCHANGED <<wfVars, status, attempt, scheduledAt, leaseVars, satisfied, effect, txn, alive>>

-----------------------------------------------------------------------------
AgentRunStatus == {"SUCCESS", "FAILURE", "BLOCKED", "UNCERTAIN_EXTERNAL_EFFECT"}

OperatorStep ==
  \/ \E w \in Workflows, terminal \in BOOLEAN : StartWorkflow(w, terminal)
  \/ \E w \in Workflows : CancelWorkflow(w)
  \/ \E j \in Jobs : RetryFailedJob(j)
  \/ \E j \in Jobs, verdict \in {"CONFIRMED", "ABSENT"} : ReconcileUncertainEffect(j, verdict)

WorkerStep(p) ==
  \/ \E j \in Jobs : WorkerClaim(p, j)
  \/ \E result \in AgentRunStatus, emitted \in BOOLEAN : WorkerCommit(p, result, emitted)
  \/ WorkerMissingImplementation(p)
  \/ WorkerRollback(p)

HolderStep(h) ==
  \/ \E j \in Jobs : RunWorkerOnce(h, j)
  \/ \E j \in Jobs : ClaimBuildJob(h, j)
  \/ \E j \in Jobs, extend \in BOOLEAN : Heartbeat(h, j, extend)
  \/ \E j \in Jobs, final \in JobStatus : ReleaseLease(h, j, final)
  \/ \E j \in Jobs : ExpireOwnLease(h, j)
  \/ \E j \in Jobs, state \in EffectStates \ {"NONE"} : RecordEffect(h, j, state)
  \/ HolderDies(h)

ResolverStep ==
  \/ \E d \in Jobs : SatisfyDependency(d)
  \/ \E d \in Jobs : PropagateDependencyFailure(d)

TimerStep == \E j \in Jobs, at \in clock..MaxTime : ScheduleMaturityTimer(j, at)

Next ==
  \/ OperatorStep
  \/ \E p \in Workers : WorkerStep(p)
  \/ \E h \in Holders : HolderStep(h)
  \/ ResolverStep
  \/ TimerStep
  \/ SchedulerCycle
  \/ Tick

Spec == Init /\ [][Next]_vars

\* The scheduler cycle is run again and again, and time passes.  Nothing is
\* assumed of workers, holders or the operator.
FairSpec == Spec /\ WF_vars(SchedulerCycle) /\ WF_vars(Tick)

-----------------------------------------------------------------------------
(* Safety.                                                                 *)

\* A job that can still be executed has attempts left, and no row ever breaks
\* the jobs table's CHECK (attempt <= max_attempts): a cycle that bumped a
\* spent attempt would fail on the constraint and reclaim nothing at all.
AttemptWithinBudget ==
  \A j \in Jobs :
    /\ attempt[j] <= MaxAttempts
    /\ attempt[j] = MaxAttempts => status[j] \in {"FAILED", "TERMINAL_FAILURE"}

\* A holder named on a row is the holder of a RUNNING job, and a RUNNING job
\* names its holder, expiry and heartbeat.  Only the worker's own id can stay
\* behind on a job that is not running.  release_lease relies on this: it
\* checks the owner and assumes the status.
LeaseMeansRunning ==
  \A j \in Jobs :
    /\ owner[j] \in Holders => status[j] = "RUNNING"
    /\ status[j] = "RUNNING" =>
         owner[j] \in Holders /\ expires[j] # NoTime /\ beat[j] # NoTime

\* No job is executed by two parties at once: two workers never hold the same
\* row, and a row a worker is executing is READY for everyone else, so that no
\* lease holder has it and no cancellation, reclaim or retry has moved it.
OneExecutor ==
  \A p \in Workers :
    txn[p].job # NoJob =>
      /\ status[txn[p].job] = "READY"
      /\ \A q \in Workers \ {p} : txn[q].job # txn[p].job

\* A job gets past PENDING, BLOCKED and CANCELLED only after every
\* predecessor has succeeded, whatever satisfied_at says, and the predecessor
\* stays succeeded.
PredecessorsSucceeded ==
  \A j \in Jobs :
    status[j] \notin {NotCreated, "PENDING", "BLOCKED", "CANCELLED"} =>
      \A d \in DependsOn[j] : status[d] = "SUCCEEDED"

-----------------------------------------------------------------------------
(* Action properties.                                                      *)

\* One committed step takes a job along one edge of JOB_TRANSITIONS, or along
\* two when the transaction itself passes through RUNNING (the worker) or
\* FAILED (reclaim).  release_lease and the two direct assignments of FAILED
\* in the worker never leave the graph.
Hop(s, t) == RequireJobTransition(s, t)

LegalMove(s, t) ==
  \/ s = t
  \/ s = NotCreated /\ t \in {"PENDING", "RUNNING"}
  \/ s \in JobStatus /\ t \in JobStatus
       /\ \/ Hop(s, t)
          \/ s = "READY" /\ Hop("RUNNING", t)
          \/ s = "RUNNING" /\ Hop("FAILED", t)

StatusFollowsGuard ==
  [][\A j \in Jobs : LegalMove(status[j], status'[j])]_vars

\* What docs/adr/0002 says of an expired lease: "Expired leases return only
\* safely retryable work to eligibility".  A RECONCILE_FIRST job whose effect
\* is not known does not go back to READY before somebody has looked.
UncertainNotRequeued ==
  [][\A j \in Jobs :
       RetryClassOf[j] = "RECONCILE_FIRST" /\ status[j] = "RUNNING" /\ effect[j] = "UNKNOWN" =>
         status'[j] # "READY"]_vars

-----------------------------------------------------------------------------
(* Liveness.                                                               *)

\* The lease of a process that died is taken from it: reclaim after expiry,
\* or stall detection before that.
AbandonedLeaseRecovered ==
  \A h \in Holders, j \in Jobs :
    (~alive[h] /\ owner[j] = h) ~> (owner[j] # h)

\* A PENDING job that stays eligible is promoted.
EligibleJobPromoted ==
  \A j \in Jobs : EvaluateJobReadiness(j) ~> ~EvaluateJobReadiness(j)
=============================================================================
