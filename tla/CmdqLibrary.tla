---------------------------- MODULE CmdqLibrary ------------------------------
(***************************************************************************)
(* What is preloaded into cameraserver, as a whole: the ioctl wrappers of  *)
(* libcmdqevent and of the diagnosis tools (CmdqHook), and libcmdqevent's  *)
(* wrapper of handleAWB (AwbTrim).  The two share the library and nothing  *)
(* in it: ioctl touches neither the output struct nor the trims, handleAWB *)
(* makes no ioctl.  A behaviour therefore explores one of the two, with    *)
(* the other at rest.                                                      *)
(***************************************************************************)
EXTENDS CmdqHook, AwbTrim

VARIABLE exploring

AwbAtRest ==
  /\ store = CHOOSE s \in Stores : TRUE
  /\ raw = [k \in Triples |-> [g \in Gain |-> CHOOSE v \in Gains : TRUE]]
IoctlAtRest ==
  /\ client = "shim"
  /\ header = CHOOSE h \in Headers : TRUE
  /\ tree = CHOOSE d \in Trees : TRUE

LibraryInit ==
  /\ HookInit /\ AwbInit
  /\ \/ exploring = "ioctl" /\ AwbAtRest
     \/ exploring = "handleAWB" /\ IoctlAtRest

LibraryNext ==
  /\ UNCHANGED exploring
  /\ \/ exploring = "ioctl" /\ HookNext /\ UNCHANGED awb_vars
     \/ exploring = "handleAWB" /\ AwbNext /\ UNCHANGED library_vars

LibrarySpec == LibraryInit /\ [][LibraryNext]_<<library_vars, awb_vars, exploring>>
=============================================================================
