SPECIFICATION ResumedSpec
CONSTANTS
  BuildDatabases = 2
  Hubs = 2
  Samples = 2
  Colours = 2
  MaxBuildCrashes = 3
  MaxFailures = 2
  Databases = {"d1", "d2"}
  Files = 2
  MaxCrashes = 3
  Procs = {"p1", "p2"}
  Legacy7 = 7
  LastSession = 15
  Contracts = {7, 8}
  Free = "free"
  Stale = "stale"
  MaxCommits = 5
  MaxDeaths = 2
INVARIANTS
  RecordBacked
  CompletedIsWhole
  CompleteIsProved
PROPERTIES
  BuildFinished
  DraftRollsForward
  RevisionsAdvanceOnce
  
