SPECIFICATION Spec
CONSTANTS
  l1 = l1
  l2 = l2
  l3 = l3
  Listings = {l1, l2, l3}
  Rows <- MCRows
  PeriodTicks = 2
  MaturityPeriods = 1
  MinCohort = 3
  CullPercent = 80
  GapTicks = 2
  MaxTime = 3
  MaxMishaps = 1
PROPERTY DefectRepairedAtOnce
CHECK_DEADLOCK FALSE
