\* Two dumps, a fetch for either, the tree of the first.  Two blobs: one that
\* both scripts link, fetched last, and the listener.
SPECIFICATION Spec
CONSTANTS
  Devices = {"cronos", "crown"}
  Home = "cronos"
  Libs = {"pipe", "listener"}
  HalModule = "pipe"
  CONSUMERS = {"pipe"}
  TARGETS = {"pipe", "listener"}
  Listener = "listener"
INVARIANTS BlobsOfDevice FitToBuild
