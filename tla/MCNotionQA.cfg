SPECIFICATION FairSpec
CONSTANTS
  Variants = 2
  Alterable = {"hub_page", "variant_title"}
  MaxTroubles = 3
INVARIANTS PassIsLive OneProof RepairsKept
PROPERTY QaPasses
