\* Two lease holders and a worker around a build job, an entry job and a timer.
CONSTANTS
  w1 = w1  a = a  b = b  c = c
  Jobs = {a, c}
  Workflows = {w1}
  Workers = {p1}
  Holders = {h1, h2}
  WorkerId = worker_1
  NoJob = NoJob
  NoOwner = NoOwner
  WorkflowOf <- ChainWorkflowOf
  EntryJobs = {}
  BuildJobs = {c}
  TimerJobs = {a}
  SuccessorsOf <- ChainSuccessorsOf
  DependsOn <- ChainDependsOn
  KeyReservedByOther = {}
  RetryClassOf <- ChainRetryClassOf
  MaxAttempts = 2
  LeaseDuration = 2
  BuildLease = 3
  StallThreshold = 1
  Limit = 2
  Backoff <- MCBackoff
  MaxTime = 3
SPECIFICATION Spec
SYMMETRY Symmetry
INVARIANT AttemptWithinBudget
