SPECIFICATION FairSpec
CONSTANTS
  Runs = {r1, r2}
  NoRun = NoRun
  Themes <- MCThemes
  Sources <- MCSources
  HubViews <- MCHubViews
  Guides <- MCGuides
  HomeViews <- MCHomeViews
  MaxAttempts = 2
  Alterable = {"home"}
  MaxMishaps = 2
INVARIANTS Rooted ManifestBacked
PROPERTIES OnlyOwnerEnds BuildEnds
CHECK_DEADLOCK FALSE
