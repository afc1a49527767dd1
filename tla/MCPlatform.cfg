\* Callers, runs and shops stop; each component may.
SPECIFICATION PlatformSpec
CONSTANTS
  Colours = 2
  Answers = {"new", "other_space", "elsewhere", "stale", "again", "again_other_space"}
  Used <- MCUsed
  MaxObjects = 2
  MaxCalls = 2
  MaxPersonEdits = 1
  Outputs = {"o1", "o2"}
  ImagesWanted = 1
  MaxAssets = 3
  Workflows = {"w1", "w2"}
  Concepts <- MCConcepts
  About <- MCAbout
  Words <- MCWords
  Traits <- MCTraits
  Results <- MCResults
  YoungFast = {3}
  Unpriced = {4}
  MinObservations = 2
  MaxObservations = 3
  TargetCount = 3
  ShortlistSize = 2
  Threshold = 30
  MaxResearchRuns = 2
  MaxSpecs = 2
  PublishingEnabled = TRUE
  InitialCap = 2
  HardCap = 3
  RollingWindow = 3
  Prompt = TRUE
  MaxRampTime = 8
  MaxPublications = 5
  Logs = {"g1", "g2"}
  Keys = {"k1", "k2", "k3"}
  MaxLocks = 3
  MaxFaults = 2
  Writers = {"w1", "w2"}
  MaxPuts = 4
  MaxStoreFaults = 3
  Runners = {"r1", "r2"}
  Contents = {"c1", "c2", "c3"}
  Unsound = {"c3"}
  MaxReviewsPerJob = 2
  LastContract = 2
  MaxEdits = 2
  MaxRuns = 2
  MaxAsks = 2
  IssueReports = {"q1"}
  RepairKeys = {"k1", "k2"}
  Hashes = {"h1", "h2"}
  MaxTime = 4
  Profiles = {"q1", "q2"}
  MutationKeys = {"m1", "m2"}
  MaxOpens = 4
  NoFile = NoFile
  NotLoaded = NotLoaded
  Nobody = Nobody
  Nothing = Nothing
  Torn = Torn
  Corrupt = Corrupt
  None = None
INVARIANTS
  
  ClickedOnce
  
  ReceiptsStay
  NamedIsWhole
  ReadyIsCurrent
  RunsCiteTheirText
  
  
  PicksAsPromised
  ResolvedOnLaterRead
CHECK_DEADLOCK FALSE
