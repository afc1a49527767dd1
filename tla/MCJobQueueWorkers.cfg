\* Two workers and a scheduler on a predecessor and its dependent successor.
CONSTANTS
  w1 = w1  a = a  b = b  c = c
  Jobs = {a, b}
  Workflows = {w1}
  Workers = {p1, p2}
  Holders = {h1}
  WorkerId = worker_1
  NoJob = NoJob
  NoOwner = NoOwner
  WorkflowOf <- ChainWorkflowOf
  EntryJobs = {a}
  BuildJobs = {}
  TimerJobs = {}
  SuccessorsOf <- ChainSuccessorsOf
  DependsOn <- ChainDependsOn
  KeyReservedByOther = {}
  RetryClassOf <- ChainRetryClassOf
  MaxAttempts = 2
  LeaseDuration = 2
  BuildLease = 3
  StallThreshold = 0
  Limit = 2
  Backoff <- MCBackoff
  MaxTime = 3
SPECIFICATION FairSpec
INVARIANTS OneExecutor PredecessorsSucceeded
PROPERTIES StatusFollowsGuard  
