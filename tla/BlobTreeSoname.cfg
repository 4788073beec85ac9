\* The same dumps and blobs.
SPECIFICATION Spec
CONSTANTS
  Devices = {"cronos", "crown"}
  Home = "cronos"
  Libs = {"pipe", "listener"}
  HalModule = "pipe"
  CONSUMERS = {"pipe"}
  TARGETS = {"pipe", "listener"}
  Listener = "listener"
INVARIANT PrivateSoname
