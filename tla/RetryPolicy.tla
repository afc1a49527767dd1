----------------------------- MODULE RetryPolicy -----------------------------
(***************************************************************************)
(* The pure retry decisions of orchestration/retry.py.                     *)
(***************************************************************************)
EXTENDS Integers

\* domain/enums.py: RetryClass.
RetryClass == {"SAFE", "IDEMPOTENT", "RECONCILE_FIRST", "MANUAL_RESUME", "NEVER"}

\* A plausible slip: the budget is compared with <= instead of <.
CanRetry_OffByOne(retryClass, currentAttempt, maxAttempts, resolved) ==
  /\ currentAttempt <= maxAttempts
  /\ \/ retryClass \in {"SAFE", "IDEMPOTENT"}
     \/ retryClass = "RECONCILE_FIRST" /\ resolved

\* evaluate_retry returns can_retry = True.  It raises when the attempt has
\* already reached the budget and refuses when the next one would, so in both
\* cases the caller does not move the job.
CanRetry(retryClass, currentAttempt, maxAttempts, resolved) ==
  /\ currentAttempt + 1 < maxAttempts
  /\ \/ retryClass \in {"SAFE", "IDEMPOTENT"}
     \/ retryClass = "RECONCILE_FIRST" /\ resolved

\* _calculate_backoff: exponential, capped.
CalculateBackoff(attempt, baseDelay, multiplier, maxDelay) ==
  LET delay == baseDelay * multiplier^attempt
  IN  IF delay <= maxDelay THEN delay ELSE maxDelay
=============================================================================
