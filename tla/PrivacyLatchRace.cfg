SPECIFICATION Spec
CONSTANTS
  EarlySearch = FALSE
INVARIANT FittedIsListed
