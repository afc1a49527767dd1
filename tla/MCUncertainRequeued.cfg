\* A build job with an unknown effect whose lease expires.
CONSTANTS
  w1 = w1  a = a  b = b  c = c
  Jobs = {c}
  Workflows = {w1}
  Workers = {}
  Holders = {h1}
  WorkerId = worker_1
  NoJob = NoJob
  NoOwner = NoOwner
  WorkflowOf <- ChainWorkflowOf
  EntryJobs = {}
  BuildJobs = {c}
  TimerJobs = {}
  SuccessorsOf <- ChainSuccessorsOf
  DependsOn <- ChainDependsOn
  KeyReservedByOther = {}
  RetryClassOf <- ChainRetryClassOf
  MaxAttempts = 2
  LeaseDuration = 2
  BuildLease = 3
  StallThreshold = 1
  Limit = 2
  Backoff <- MCBackoff
  MaxTime = 3
SPECIFICATION Spec
PROPERTY UncertainNotRequeued
