SPECIFICATION LibrarySpec
CONSTANTS
  Threads = {t1, t2}
  Headers <- SmallHeaders
  Trees <- SmallTrees
  Submits <- SmallSubmits
  Texts <- SmallTexts
  Recheck = 2
  TokenMax = 3
  Sweep <- SmallSweep
  Words = 7
  Triples = {0, 4}
  Gains = {320, 700}
  Filler = 400
  Stores <- OffOrOn
  Reread = 2
  Unset = Unset
INVARIANTS
  MapInverts
  KnownSubmitsRun
  ForwardedOnce
  AnswersAgree
  HookTransparent
  HookVerdict
  NeverCompounds
PROPERTY FreshGainsCorrected
CHECK_DEADLOCK FALSE
