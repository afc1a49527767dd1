SPECIFICATION Spec
CONSTANTS
  Variants = 1
  Alterable = {"view"}
  MaxTroubles = 2
PROPERTY FixedIsReplanned
