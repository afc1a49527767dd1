\* Calls end and jobs may stay settled or blocked for ever.
SPECIFICATION TransactionsSpec
CONSTANTS
  Runs = {r1, r2, r3}
  NoId = NoId
  Calls = {"c1", "c2", "c3"}
  None = NoId
  MaxConcurrent = 1
  Reconcilers = {"r1", "r2", "r3"}
  MaxReconciliation = 3
  Dispatches = {"c1", "c2", "c3", "c4"}
  Decisions = {"m1", "m2", "hold"}
  MultiplyDecisions = {"m1", "m2"}
  Parent = p
  Workflows = {p, s1, s2}
  DecisionOf <- MCDecisionOf
  JobOf <- MCJobOf
  SuccessorOf <- MCSuccessorOf
  SpecOf <- MCSpecOf
  MaxParentVersion = 7
  Reports = {"c1", "c2", "c3"}
  ReportedBy <- MCReportedBy
  LegacyOf = {"w1"}
  MaxJobVersion = 6
  p = p  s1 = s1  s2 = s2
INVARIANTS
  DecisionAtomic
  
  SettledOnEvidence
PROPERTIES
  OncePromise
  EtsyOncePromise
  SpawnLeavesSuccessorSpec
  NoStaleRevival
  FirstSettlementStands
CHECK_DEADLOCK FALSE
