\* One SAFE job whose holder falls silent, under a scheduler that keeps running.
CONSTANTS
  w1 = w1
  Jobs = {a}
  Workflows = {w1}
  Workers = {}
  Holders = {h1}
  WorkerId = worker_1
  NoJob = NoJob
  NoOwner = NoOwner
  WorkflowOf <- OneWorkflowOf
  EntryJobs = {a}
  BuildJobs = {}
  TimerJobs = {}
  SuccessorsOf <- NoSuccessors
  DependsOn <- NoSuccessors
  KeyReservedByOther = {}
  RetryClassOf <- AllSafe
  MaxAttempts = 2
  LeaseDuration = 3
  BuildLease = 3
  StallThreshold = 1
  Limit = 1
  Backoff <- MCBackoff
  MaxTime = 3
SPECIFICATION FairHistorySpec
PROPERTY StalledJobRetried
