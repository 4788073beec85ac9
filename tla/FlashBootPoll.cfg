SPECIFICATION Spec
CONSTANTS
  Pieces = 2
  Room = 3
  PollLimit = 2
PROPERTY PollTolerates
