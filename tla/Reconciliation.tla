--------------------------- MODULE Reconciliation ---------------------------
(***************************************************************************)
(* orchestration/reconciliation.py: a job whose external write may or may  *)
(* not have happened is settled by asking the provider.  Reconcilers run   *)
(* in overlapping transactions and take no lock on the job; the operator   *)
(* (engine.reconcile_uncertain_effect) settles the same job by hand and    *)
(* does lock it; retry_failed_job then reads the verdict.                  *)
(*                                                                         *)
(* One job and its effect_attempts rows, which are unique per              *)
(* reconciliation_attempt.  The provider's answer is any of the three.     *)
(***************************************************************************)
EXTENDS TransitionGuard, RetryPolicy, Integers

CONSTANTS
  Reconcilers,
  MaxReconciliation  \* max_reconciliation_attempts

ASSUME ReconciliationAssumption == MaxReconciliation \in Nat

VARIABLES
  uncertain_job,  \* the committed row: status and version
  attempt_rows,   \* effect_state of the committed effect_attempts row of each number
  reconcile_call  \* per reconciler: where its transaction is, what it has read and found

reconcileVars == <<uncertain_job, attempt_rows, reconcile_call>>

EffectState == {"CONFIRMED", "ABSENT", "UNKNOWN"}
NoAttempt == "NO_ROW"
Numbers == 0..MaxReconciliation
Idle == [at |-> "idle", version |-> 0, number |-> 0, verdict |-> "UNKNOWN"]

\* The write was recorded as attempt 0, or its process died before that.
ReconcileInit ==
  /\ uncertain_job = [status |-> "UNCERTAIN_EXTERNAL_EFFECT", version |-> 1]
  /\ \E first \in {"UNKNOWN", NoAttempt} :
       attempt_rows = [n \in Numbers |-> IF n = 0 THEN first ELSE NoAttempt]
  /\ reconcile_call = [r \in Reconcilers |-> Idle]

\* get_latest_effect_attempt: the highest number, among committed rows.
IsLatest(n) == attempt_rows[n] # NoAttempt /\ \A m \in Numbers : m > n => attempt_rows[m] = NoAttempt

LatestNumber == IF \A n \in Numbers : attempt_rows[n] = NoAttempt THEN 0
                ELSE CHOOSE n \in Numbers : IsLatest(n)

\* A plausible slip: the last UNKNOWN counts as absent.
NextStatus_LastFails(verdict, number) ==
  IF verdict = "CONFIRMED" THEN "SUCCEEDED"
  ELSE IF verdict = "ABSENT" \/ number >= MaxReconciliation THEN "FAILED"
  ELSE "UNCERTAIN_EXTERNAL_EFFECT"

\* The status a verdict leads to; the last UNKNOWN blocks the job.
NextStatus(verdict, number) ==
  IF verdict = "CONFIRMED" THEN "SUCCEEDED"
  ELSE IF verdict = "ABSENT" THEN "FAILED"
  ELSE IF number >= MaxReconciliation THEN "BLOCKED" ELSE "UNCERTAIN_EXTERNAL_EFFECT"

Settles(r) == NextStatus(reconcile_call[r].verdict, reconcile_call[r].number) # "UNCERTAIN_EXTERNAL_EFFECT"

\* A transaction that has flushed its row, and its update of the job.
HasInserted(r) == reconcile_call[r].at \in {"apply", "commit"}
HoldsJob(r)    == reconcile_call[r].at = "commit" /\ Settles(r)
UncertainUnlocked    == \A r \in Reconcilers : ~HoldsJob(r)

-----------------------------------------------------------------------------
(* reconcile_uncertain_effect, then apply_reconciliation_result.           *)

\* session.get takes no lock; another status is refused.
LoadUncertainJob(r) ==
  /\ reconcile_call[r].at = "idle"
  /\ uncertain_job.status = "UNCERTAIN_EXTERNAL_EFFECT"
  /\ reconcile_call' = [reconcile_call EXCEPT ![r].at = "read", ![r].version = uncertain_job.version]
  /\ UNCHANGED <<uncertain_job, attempt_rows>>

\* The next number, or ReconciliationBudgetExhausted.
ReadLatest(r) ==
  /\ reconcile_call[r].at = "read"
  /\ reconcile_call' = IF LatestNumber + 1 > MaxReconciliation
                       THEN [reconcile_call EXCEPT ![r] = Idle]
                       ELSE [reconcile_call EXCEPT ![r].at = "query", ![r].number = LatestNumber + 1]
  /\ UNCHANGED <<uncertain_job, attempt_rows>>

QueryProvider(r, answer) ==
  /\ reconcile_call[r].at = "query"
  /\ reconcile_call' = [reconcile_call EXCEPT ![r].at = "insert", ![r].verdict = answer]
  /\ UNCHANGED <<uncertain_job, attempt_rows>>

\* record_effect_attempt: waits for an open insert of the same number, and
\* fails on a committed one.
RecordAttempt(r) ==
  /\ reconcile_call[r].at = "insert"
  /\ \A o \in Reconcilers \ {r} : HasInserted(o) => reconcile_call[o].number # reconcile_call[r].number
  /\ reconcile_call' = IF attempt_rows[reconcile_call[r].number] = NoAttempt
                       THEN [reconcile_call EXCEPT ![r].at = "apply"]
                       ELSE [reconcile_call EXCEPT ![r] = Idle]
  /\ UNCHANGED <<uncertain_job, attempt_rows>>

\* UNKNOWN with budget left touches no job row.  A settlement is an UPDATE of
\* the version this session loaded, and a stale one rolls the call back.
ApplyResult(r) ==
  /\ reconcile_call[r].at = "apply"
  /\ Settles(r) => UncertainUnlocked
  /\ reconcile_call' = IF Settles(r) /\ reconcile_call[r].version # uncertain_job.version
                       THEN [reconcile_call EXCEPT ![r] = Idle]
                       ELSE [reconcile_call EXCEPT ![r].at = "commit"]
  /\ UNCHANGED <<uncertain_job, attempt_rows>>

CommitReconcile(r) ==
  /\ reconcile_call[r].at = "commit"
  /\ attempt_rows' = [attempt_rows EXCEPT ![reconcile_call[r].number] = reconcile_call[r].verdict]
  /\ uncertain_job' = IF Settles(r)
                      THEN [status |-> NextStatus(reconcile_call[r].verdict, reconcile_call[r].number),
                            version |-> uncertain_job.version + 1]
                      ELSE uncertain_job
  /\ reconcile_call' = [reconcile_call EXCEPT ![r] = Idle]

\* The query raises, the caller rolls back, or the process dies.
AbandonReconcile(r) ==
  /\ reconcile_call[r].at # "idle"
  /\ reconcile_call' = [reconcile_call EXCEPT ![r] = Idle]
  /\ UNCHANGED <<uncertain_job, attempt_rows>>

-----------------------------------------------------------------------------
(* engine.py on the same job.                                              *)

\* The operator overwrites the latest row of the job it has locked.
OperatorReconciles(verdict) ==
  /\ uncertain_job.status = "UNCERTAIN_EXTERNAL_EFFECT" /\ UncertainUnlocked
  /\ \E n \in Numbers : IsLatest(n) /\ attempt_rows' = [attempt_rows EXCEPT ![n] = verdict]
  /\ uncertain_job' = [status |-> IF verdict = "CONFIRMED" THEN "SUCCEEDED" ELSE "FAILED",
             version |-> uncertain_job.version + 1]
  /\ UNCHANGED reconcile_call

\* A plausible slip: an attempt row is enough, whatever it says.
Resolved_AnyRow == \E n \in Numbers : IsLatest(n)

Resolved == \E n \in Numbers : IsLatest(n) /\ attempt_rows[n] \in {"CONFIRMED", "ABSENT"}

\* retry_failed_job of a RECONCILE_FIRST job on its first attempt of three.
RetryFailedJob ==
  /\ uncertain_job.status = "FAILED"
  /\ CanRetry("RECONCILE_FIRST", 0, 3, Resolved)
  /\ uncertain_job' = [status |-> "READY", version |-> uncertain_job.version + 1]
  /\ UNCHANGED <<attempt_rows, reconcile_call>>

Reconcile(r) ==
  \/ LoadUncertainJob(r)
  \/ ReadLatest(r)
  \/ \E answer \in EffectState : QueryProvider(r, answer)
  \/ RecordAttempt(r)
  \/ ApplyResult(r)
  \/ CommitReconcile(r)
  \/ AbandonReconcile(r)

ReconcileNext ==
  \/ \E r \in Reconcilers : Reconcile(r)
  \/ \E verdict \in {"CONFIRMED", "ABSENT"} : OperatorReconciles(verdict)
  \/ RetryFailedJob

ReconcileSpec == ReconcileInit /\ [][ReconcileNext]_reconcileVars

-----------------------------------------------------------------------------
\* A settled job has the row that settled it: SUCCEEDED a CONFIRMED one, FAILED
\* (and the READY of a retry) an ABSENT one, BLOCKED the last UNKNOWN of its
\* budget.  No verdict is applied whose row was rolled back.
SettledOnEvidence ==
  /\ uncertain_job.status = "SUCCEEDED" => \E n \in Numbers : attempt_rows[n] = "CONFIRMED"
  /\ uncertain_job.status \in {"FAILED", "READY"} => \E n \in Numbers : attempt_rows[n] = "ABSENT"
  /\ uncertain_job.status = "BLOCKED" => attempt_rows[MaxReconciliation] = "UNKNOWN"

\* Contradicting answers do not fight: the first settlement stands, and only
\* the operator's retry moves the job again, while the latest row says that the
\* effect is absent, so that the retry cannot repeat a write that happened.
FirstSettlementStands ==
  [][uncertain_job.status # "UNCERTAIN_EXTERNAL_EFFECT" /\ uncertain_job'.status # uncertain_job.status =>
       /\ uncertain_job.status = "FAILED" /\ uncertain_job'.status = "READY"
       /\ \E n \in Numbers : IsLatest(n) /\ attempt_rows[n] = "ABSENT"]_reconcileVars
=============================================================================
