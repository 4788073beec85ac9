SPECIFICATION FairSpec
CONSTANTS
  Pieces = 2
  Room = 3
  PollLimit = 2
INVARIANTS
  OnlyTheImage
  BackupFirst
  UnfitUntouched
  VerdictTrue
PROPERTY Ends
