SPECIFICATION StudySpec
CONSTANTS
  Threads = {t1, t2}
  Lone = t1
  Handles = {h1, h2}
  Props <- SomeOfEach
  Streams <- AFewStreams
  Frames = {a, b}
  Only = a
  Silence = silence
  Block = 2
  MaxRead = 3
  NoThread = NoThread
  NoPcm = NoPcm
  Packed <- EdgeSamples
  Levels <- EdgeLevels
INVARIANTS
  LoopOwnsSession
  SessionHandleOpen
  Conserved
  NoUnderrun
  NothingLeftBehind
  
  SampleKept
PROPERTIES
  EndedByOwnerOrOpen
  ImplementsDelayLine
  LockReleased
