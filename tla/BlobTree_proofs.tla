--------------------------- MODULE BlobTree_proofs ---------------------------
(***************************************************************************)
(* Proofs about the preparation of the blobs, for any devices, any set of  *)
(* blobs and any lists of blobs to link.                                   *)
(***************************************************************************)
EXTENDS BlobTree, TLAPS

USE BlobAssumption

-----------------------------------------------------------------------------
(* Type correctness.                                                       *)

LEMMA LinkTypes ==
  ASSUME TypeOK, NEW lib \in Libs, NEW need \in {PRIVATE, SHIM, "libsensor.so"}, Link(lib, need)
  PROVE  tree' \in [Libs -> Blob]
<1>1. tree[lib] \in Blob
  BY DEF TypeOK
<1>2. [tree[lib] EXCEPT !.needs = @ \cup {need}] \in Blob
  BY <1>1 DEF Blob
<1>3. [[tree[lib] EXCEPT !.needs = @ \cup {need}] EXCEPT !.whole = FALSE] \in Blob
  BY <1>2 DEF Blob
<1> QED
  BY <1>2, <1>3 DEF Link, TypeOK

LEMMA LinkControl ==
  ASSUME TypeOK, NEW lib \in Libs, NEW need, Link(lib, need), pc # "patch"
  PROVE  /\ pc' \in {pc, "idle"} /\ dev' = dev /\ todo' \subseteq todo /\ said' = said
BY DEF Link, Ends, Proceeds

(* The fetch and install scripts.                                          *)
LEMMA FilesTyped == TypeOK /\ (FetchScript \/ InstallScript) => TypeOK'
<1> SUFFICES ASSUME TypeOK, FetchScript \/ InstallScript PROVE TypeOK'
  OBVIOUS
<1> USE DEF TypeOK, Places, SpeaksAsync, Ends, Reports, Starts, Proceeds, Goes
<1>1. NoBlob \in Blob /\ \A whole \in BOOLEAN : Stock(whole) \in Blob
  BY DEF NoBlob, Stock, Blob
<1>2. \A blob \in Blob : [blob EXCEPT !.whole = FALSE] \in Blob
  BY DEF Blob
<1>3. ASSUME NEW d \in Devices, StartFetch(d) PROVE TypeOK'
  BY <1>3 DEF StartFetch
<1>4. CASE Clear
  BY <1>1, <1>4 DEF Clear, NoBlobs
<1>5. CASE WriteStamp
  BY <1>5 DEF WriteStamp
<1>6. ASSUME NEW lib \in Libs, FetchLib(lib) PROVE TypeOK'
  <2>1. cache' \in [Libs -> Blob]
    BY <1>1, <1>6 DEF FetchLib
  <2>2. pc' \in {"fetch", "idle"} /\ todo' \subseteq Libs
    BY <1>6 DEF FetchLib
  <2>3. UNCHANGED <<dev, said, stamp, tree, private>>
    BY <1>6 DEF FetchLib
  <2> QED BY <2>1, <2>2, <2>3
<1>7. CASE StartInstall
  BY <1>7 DEF StartInstall
<1>8. CASE Placed
  BY <1>8 DEF Placed
<1>9. ASSUME NEW lib \in Libs, CopyLib(lib) PROVE TypeOK'
  BY <1>2, <1>9 DEF CopyLib
<1> QED
  BY <1>3, <1>4, <1>5, <1>6, <1>7, <1>8, <1>9 DEF FetchScript, InstallScript

LEMMA WriteTypes ==
  ASSUME NEW library \in Library, library.build = "async", library.part # "stump",
         NEW label, Writes(library, label)
  PROVE  /\ private' \in Library
         /\ \/ pc' = label /\ todo' = todo /\ private' = library
            \/ pc' = "idle" /\ todo' = {}
         /\ dev' = dev /\ said' = said
<1>1. ASSUME NEW part \in {"head", "stump"} PROVE [library EXCEPT !.part = part] \in Library
  BY <1>1 DEF Library
<1> QED
  BY <1>1 DEF Writes, Goes, Ends

(* The private library and the links.                                      *)
LEMMA LinksTyped == TypeOK /\ (PrivateScript \/ LinkScript) => TypeOK'
<1> SUFFICES ASSUME TypeOK, PrivateScript \/ LinkScript PROVE TypeOK'
  OBVIOUS
<1> USE DEF TypeOK, Places, SpeaksAsync, Ends, Reports, Starts, Goes
<1>1. CASE StartPrivate
  BY <1>1 DEF StartPrivate, NoLibrary, Library
<1>2. CASE Download
  <2> DEFINE fresh == [build |-> "async", part |-> "whole", soname |-> FALSE, patched |-> FALSE]
  <2>1. fresh \in Library /\ fresh.build = "async" /\ fresh.part = "whole"
    BY DEF Library
  <2>2. CASE Writes(fresh, "soname")
    BY <1>2, <2>1, <2>2, WriteTypes DEF Download
  <2>3. CASE ~Writes(fresh, "soname")
    BY <1>2, <2>3 DEF Download
  <2> QED
    BY <2>2, <2>3
<1>3. CASE SetSoname
  <2> DEFINE named == [private EXCEPT !.soname = TRUE]
  <2>1. named \in Library /\ named.build = "async" /\ named.part # "stump"
    BY <1>3 DEF SetSoname, Library
  <2> QED
    BY <1>3, <2>1, WriteTypes DEF SetSoname
<1>4. CASE PatchLibrary
  BY <1>4 DEF PatchLibrary, Writes, Library
<1>5. CASE Repointed
  BY <1>5 DEF Repointed
<1>6. ASSUME NEW lib \in Libs, Repoint(lib) PROVE TypeOK'
  <2>1. tree' \in [Libs -> Blob]
    BY <1>6, LinkTypes DEF Repoint
  <2> QED
    BY <1>6, <2>1, LinkControl DEF Repoint
<1>7. CASE StartLinks
  BY <1>7 DEF StartLinks
<1>8. CASE LinkListener
  <2>1. CASE Link(Listener, "libsensor.so")
    <3>1. tree' \in [Libs -> Blob]
      BY <2>1, LinkTypes
    <3> QED
      BY <1>8, <2>1, <3>1, LinkControl DEF LinkListener
  <2>2. CASE ~Link(Listener, "libsensor.so")
    BY <1>8, <2>2 DEF LinkListener
  <2> QED
    BY <2>1, <2>2
<1>9. ASSUME NEW lib \in Libs, LinkTarget(lib) PROVE TypeOK'
  <2>1. tree' \in [Libs -> Blob]
    BY <1>9, LinkTypes DEF LinkTarget
  <2> QED
    BY <1>9, <2>1, LinkControl DEF LinkTarget
<1>10. CASE Linked
  BY <1>10 DEF Linked
<1> QED
  BY <1>1, <1>2, <1>3, <1>4, <1>5, <1>6, <1>7, <1>8, <1>9, <1>10 DEF PrivateScript, LinkScript

(* TypeOK: the scripts keep to their types, and patch and link only with a *)
(* library of the build the kernel serves.                                 *)
THEOREM ScriptTypes == Spec => []TypeOK
<1>1. Init => TypeOK
  <2>1. NoBlob \in Blob
    BY DEF NoBlob, Blob
  <2>2. NoLibrary \in Library /\ LegacyLibrary \in Library
    BY DEF NoLibrary, LegacyLibrary, Library
  <2> QED
    BY <2>1, <2>2 DEF Init, TypeOK, NoBlobs, Places
<1>2. TypeOK /\ [Next]_vars => TypeOK'
  <2> SUFFICES ASSUME TypeOK, [Next]_vars PROVE TypeOK'
    OBVIOUS
  <2>1. CASE Killed
    BY <2>1 DEF Killed, Ends, TypeOK, Places, SpeaksAsync
  <2>2. CASE UNCHANGED vars
    BY <2>2 DEF vars, TypeOK, SpeaksAsync
  <2> QED
    BY <2>1, <2>2, FilesTyped, LinksTyped DEF Next
<1> QED
  BY <1>1, <1>2, PTL DEF Spec

-----------------------------------------------------------------------------
(* The device the blobs are for.                                           *)

Holds(device, lib) == cache[lib].of = device

\* What a fetch relies on while it goes on, and what it has done.
FetchInv ==
  /\ pc = "fetch" =>
       /\ stamp \in {"none", dev}
       /\ \A lib \in Libs : cache[lib].of \in {dev, "none"}
       /\ \A lib \in Libs \ todo : Holds(dev, lib)
  /\ pc \in {"clear", "fetch"} => "fetched" \notin said

\* What a copy from a cache of this device has done.
CopyInv ==
  /\ pc = "install" /\ stamp = Home => \A lib \in Libs \ todo : tree[lib].of = Home
  /\ pc = "install" => "own" \notin said

DeviceInv == StampTrue /\ BlobsOfDevice /\ FetchInv /\ CopyInv

LEMMA FetchKeepsDevices == TypeOK /\ DeviceInv /\ FetchScript => DeviceInv'
<1> SUFFICES ASSUME TypeOK, DeviceInv, FetchScript PROVE DeviceInv'
  OBVIOUS
<1> USE DEF DeviceInv, StampTrue, BlobsOfDevice, FetchInv, CopyInv, Holds,
            TypeOK, Ends, Reports, Starts, Proceeds, Goes
<1>1. NoBlob.of = "none" /\ \A whole \in BOOLEAN : Stock(whole).of = dev
  BY DEF NoBlob, Stock
<1>2. ASSUME NEW d \in Devices, StartFetch(d) PROVE DeviceInv'
  BY <1>2 DEF StartFetch, Cached
<1>3. CASE Clear
  <2>1. \A lib \in Libs : cache'[lib] \in {cache[lib], NoBlob}
    BY <1>3 DEF Clear, NoBlobs
  <2>2. pc' = "fetch" => stamp' = "none" /\ \A lib \in Libs : cache'[lib] = NoBlob
    BY <1>3 DEF Clear, NoBlobs
  <2> QED
    BY <1>1, <1>3, <2>1, <2>2 DEF Clear
<1>4. CASE WriteStamp
  BY <1>4 DEF WriteStamp
<1>5. ASSUME NEW lib \in Libs, FetchLib(lib) PROVE DeviceInv'
  <2>1. /\ pc = "fetch" /\ dev' = dev /\ stamp' = stamp /\ tree' = tree /\ said' = said
        /\ pc' = "fetch" => todo' = todo \ {lib}
        /\ pc' \in {"fetch", "idle"}
    BY <1>5 DEF FetchLib
  <2>2. \A other \in Libs : cache'[other].of \in {cache[other].of, dev}
    BY <1>1, <1>5 DEF FetchLib
  <2>3. pc' = "fetch" => cache'[lib].of = dev
    BY <1>1, <1>5 DEF FetchLib, Cached
  <2> QED
    BY <2>1, <2>2, <2>3
<1> QED
  BY <1>2, <1>3, <1>4, <1>5 DEF FetchScript

LEMMA InstallKeepsDevices == TypeOK /\ DeviceInv /\ InstallScript => DeviceInv'
<1> SUFFICES ASSUME TypeOK, DeviceInv, InstallScript PROVE DeviceInv'
  OBVIOUS
<1> USE DEF DeviceInv, StampTrue, BlobsOfDevice, FetchInv, CopyInv, Holds,
            TypeOK, Ends, Reports, Starts, Proceeds, Goes
<1>1. CASE StartInstall
  BY <1>1 DEF StartInstall
<1>2. CASE Placed
  BY <1>2 DEF Placed
<1>3. ASSUME NEW lib \in Libs, CopyLib(lib) PROVE DeviceInv'
  <2>1. lib \in Cached => cache[lib].of # "none"
    BY DEF Cached
  <2> QED
    BY <1>3, <2>1 DEF CopyLib
<1> QED
  BY <1>1, <1>2, <1>3 DEF InstallScript

\* The other two scripts leave the device of every blob.
LEMMA LinkKeepsDevice ==
  ASSUME TypeOK, NEW lib \in Libs, NEW need, Link(lib, need)
  PROVE  \A other \in Libs : tree'[other].of = tree[other].of
<1>1. tree[lib] \in Blob
  BY DEF TypeOK
<1>2. [tree[lib] EXCEPT !.needs = @ \cup {need}].of = tree[lib].of
  BY <1>1 DEF Blob
<1>3. [[tree[lib] EXCEPT !.needs = @ \cup {need}] EXCEPT !.whole = FALSE].of = tree[lib].of
  BY <1>1 DEF Blob
<1> QED
  BY <1>2, <1>3 DEF Link, TypeOK

LEMMA OthersKeepDevices == TypeOK /\ DeviceInv /\ (PrivateScript \/ LinkScript) => DeviceInv'
<1> SUFFICES ASSUME TypeOK, DeviceInv, PrivateScript \/ LinkScript PROVE DeviceInv'
  OBVIOUS
<1>1. /\ cache' = cache /\ stamp' = stamp /\ dev' = dev
      /\ pc' \notin {"clear", "fetch", "install"}
      /\ "fetched" \in said' <=> "fetched" \in said
      /\ "own" \in said' <=> "own" \in said
  BY DEF PrivateScript, LinkScript, StartPrivate, Download, SetSoname, PatchLibrary, Repointed,
         Repoint, StartLinks, LinkListener, Linked, LinkTarget, Writes, Link, Ends, Reports,
         Starts, Proceeds, Goes
<1>2. \A lib \in Libs : tree'[lib].of = tree[lib].of
  <2>1. CASE tree' = tree
    BY <2>1
  <2>2. CASE \E lib \in Libs, need \in {PRIVATE, SHIM, "libsensor.so"} : Link(lib, need)
    BY <2>2, LinkKeepsDevice
  <2> QED
    BY <2>1, <2>2 DEF PrivateScript, LinkScript, StartPrivate, Download, SetSoname, PatchLibrary,
       Repointed, Repoint, StartLinks, LinkListener, Linked, LinkTarget
<1> QED
  BY <1>1, <1>2 DEF DeviceInv, StampTrue, BlobsOfDevice, FetchInv, CopyInv, Holds

LEMMA DevicesKept == Spec => []DeviceInv
<1>1. Init => DeviceInv
  BY DEF Init, NoBlobs, NoBlob, DeviceInv, StampTrue, BlobsOfDevice, FetchInv, CopyInv
<1>2. TypeOK /\ DeviceInv /\ [Next]_vars => DeviceInv'
  <2> SUFFICES ASSUME TypeOK, DeviceInv, [Next]_vars PROVE DeviceInv'
    OBVIOUS
  <2>1. CASE Killed \/ UNCHANGED vars
    BY <2>1 DEF Killed, Ends, vars, DeviceInv, StampTrue, BlobsOfDevice, FetchInv, CopyInv, Holds
  <2> QED
    BY <2>1, FetchKeepsDevices, InstallKeepsDevices, OthersKeepDevices DEF Next
<1> QED
  BY <1>1, <1>2, ScriptTypes, PTL DEF Spec

(* StampTrue: a cache cut off anywhere still holds what its stamp says.    *)
THEOREM StampsTrue == Spec => []StampTrue
<1>1. DeviceInv => StampTrue
  BY DEF DeviceInv
<1> QED
  BY <1>1, DevicesKept, PTL

(* BlobsOfDevice: what a fetch and a copy of a stamped cache report.       *)
THEOREM BlobsForDevice == Spec => []BlobsOfDevice
<1>1. DeviceInv => BlobsOfDevice
  BY DEF DeviceInv
<1> QED
  BY <1>1, DevicesKept, PTL

-----------------------------------------------------------------------------
(* The links and the private library.                                      *)

Done(lib, need) == tree[lib].whole /\ need \in tree[lib].needs
Served == private.build = "async" /\ private.part = "whole" /\ private.patched

\* What each of the two scripts has done so far.
Progress ==
  /\ pc \in {"download", "soname", "patch"} => todo = CONSUMERS
  /\ pc = "repoint" =>
       Served /\ todo \subseteq CONSUMERS /\ \A lib \in CONSUMERS \ todo : Done(lib, PRIVATE)
  /\ pc = "listener" =>
       todo \subseteq {Listener} /\ (todo = {} => "libsensor.so" \in tree[Listener].needs)
  /\ pc = "links" =>
       /\ todo \subseteq TARGETS /\ "libsensor.so" \in tree[Listener].needs
       /\ \A lib \in TARGETS \ todo : Done(lib, SHIM)

\* A script takes its last report back when it starts, the copy both.
Retracted ==
  /\ pc = "install" => "private" \notin said /\ "linked" \notin said
  /\ pc \in {"download", "soname", "patch", "repoint"} => "private" \notin said
  /\ pc \in {"listener", "links"} => "linked" \notin said

\* The blobs one of them links can be torn only by itself since its report;
\* those both link, by whichever did not report.
Spared ==
  /\ "linked" \in said => \A lib \in TARGETS \ CONSUMERS : tree[lib].whole
  /\ "private" \in said => \A lib \in CONSUMERS \ TARGETS : tree[lib].whole

LinkInv == FitToBuild /\ Progress /\ Retracted /\ Spared

\* One turn of either loop: links stay; a blob it passes is done, and only
\* the one at which it ends may be torn.
LEMMA LinkTurn ==
  ASSUME TypeOK, NEW lib \in Libs, NEW need \in {PRIVATE, SHIM, "libsensor.so"}, Link(lib, need)
  PROVE  /\ said' = said
         /\ \A other \in Libs : \A n : n \in tree[other].needs => n \in tree'[other].needs
         /\ \A other \in Libs \ {lib} : tree[other].whole => tree'[other].whole
         /\ pc' = "idle" \/ (pc' = pc /\ todo' = todo \ {lib} /\ Done(lib, need)')
<1>1. tree[lib] \in Blob
  BY DEF TypeOK
<1> DEFINE linked == [tree[lib] EXCEPT !.needs = @ \cup {need}]
<1>2. linked.needs = tree[lib].needs \cup {need} /\ linked.whole = tree[lib].whole
  BY <1>1 DEF Blob
<1>3. [linked EXCEPT !.whole = FALSE].needs = tree[lib].needs \cup {need}
  BY <1>1 DEF Blob
<1>4. \/ tree' = tree
      \/ tree' = [tree EXCEPT ![lib] = linked]
      \/ tree' = [tree EXCEPT ![lib] = [linked EXCEPT !.whole = FALSE]]
  BY DEF Link
<1>6. /\ \A other \in Libs : \A n : n \in tree[other].needs => n \in tree'[other].needs
      /\ \A other \in Libs \ {lib} : tree[other].whole => tree'[other].whole
  BY <1>2, <1>3, <1>4 DEF TypeOK
<1>7. CASE pc' = "idle" /\ said' = said
  BY <1>6, <1>7
<1>8. CASE Proceeds(lib) /\ tree' = tree /\ tree[lib].whole /\ need \in tree[lib].needs
  BY <1>6, <1>8 DEF Proceeds, Done
<1>9. CASE Proceeds(lib) /\ tree' = [tree EXCEPT ![lib] = linked] /\ tree[lib].whole
  <2>1. tree'[lib] = linked
    BY <1>9 DEF TypeOK
  <2> QED
    BY <1>2, <1>6, <1>9, <2>1 DEF Proceeds, Done
<1> QED
  BY <1>7, <1>8, <1>9 DEF Link, Ends

LEMMA FilesKeepLinks == TypeOK /\ LinkInv /\ (FetchScript \/ InstallScript) => LinkInv'
<1> SUFFICES ASSUME TypeOK, LinkInv, FetchScript \/ InstallScript PROVE LinkInv'
  OBVIOUS
<1> USE DEF LinkInv, FitToBuild, Progress, Retracted, Spared, Done, Served
<1>1. CASE FetchScript
  BY <1>1 DEF FetchScript, StartFetch, Clear, WriteStamp, FetchLib, Ends, Reports, Starts, Proceeds, Goes
<1>2. CASE InstallScript
  BY <1>2 DEF InstallScript, StartInstall, Placed, CopyLib, Ends, Reports, Starts, Proceeds
<1> QED
  BY <1>1, <1>2

LEMMA PrivateKeepsLinks == TypeOK /\ LinkInv /\ PrivateScript => LinkInv'
<1> SUFFICES ASSUME TypeOK, LinkInv, PrivateScript PROVE LinkInv'
  OBVIOUS
<1>1. CASE StartPrivate \/ Download \/ SetSoname
  <2>1. /\ tree' = tree /\ "private" \notin said' /\ pc' \in {"download", "soname", "patch", "idle"}
        /\ "linked" \in said' <=> "linked" \in said
    BY <1>1 DEF StartPrivate, Download, SetSoname, Writes, Starts, Goes, Ends, LinkInv, Retracted
  <2>2. pc' # "idle" => todo' = CONSUMERS
    BY <1>1 DEF StartPrivate, Download, SetSoname, Writes, Starts, Goes, Ends, LinkInv, Progress
  <2> QED
    BY <2>1, <2>2 DEF LinkInv, FitToBuild, Progress, Retracted, Spared
<1>2. CASE PatchLibrary
  <2> DEFINE patched == [private EXCEPT !.patched = TRUE]
  <2>1. /\ pc = "patch" /\ todo = CONSUMERS /\ "private" \notin said /\ tree' = tree /\ said' = said
    BY <1>2 DEF PatchLibrary, Writes, Goes, Ends, LinkInv, Progress, Retracted
  <2>2. private.part = "whole" => patched.build = "async" /\ patched.part = "whole" /\ patched.patched
    BY <2>1 DEF TypeOK, SpeaksAsync, Library
  <2>3. (pc' = "repoint" /\ todo' = todo /\ private' = patched /\ private.part = "whole") \/ pc' = "idle"
    BY <1>2 DEF PatchLibrary, Writes, Goes, Ends
  <2> QED
    BY <2>1, <2>2, <2>3 DEF LinkInv, FitToBuild, Progress, Retracted, Spared, Served
<1>3. CASE Repointed
  BY <1>3 DEF Repointed, Reports, LinkInv, FitToBuild, Progress, Retracted, Spared, Served, Done
<1>4. ASSUME NEW lib \in Libs, Repoint(lib) PROVE LinkInv'
  <2>1. pc = "repoint" /\ lib \in CONSUMERS /\ private' = private /\ Link(lib, PRIVATE)
    BY <1>4 DEF Repoint, LinkInv, Progress
  <2>2. /\ said' = said
        /\ \A other \in Libs : \A n : n \in tree[other].needs => n \in tree'[other].needs
        /\ \A other \in Libs \ {lib} : tree[other].whole => tree'[other].whole
        /\ pc' = "idle" \/ (pc' = pc /\ todo' = todo \ {lib} /\ Done(lib, PRIVATE)')
    BY <2>1, LinkTurn
  <2>3. FitToBuild'
    BY <2>1, <2>2 DEF LinkInv, FitToBuild, Retracted, Done
  <2>4. Progress'
    BY <2>1, <2>2 DEF LinkInv, Progress, Served, Done
  <2>5. Retracted' /\ Spared'
    BY <2>1, <2>2 DEF LinkInv, Retracted, Spared
  <2> QED
    BY <2>3, <2>4, <2>5 DEF LinkInv
<1> QED
  BY <1>1, <1>2, <1>3, <1>4 DEF PrivateScript

LEMMA LinksKeepLinks == TypeOK /\ LinkInv /\ LinkScript => LinkInv'
<1> SUFFICES ASSUME TypeOK, LinkInv, LinkScript PROVE LinkInv'
  OBVIOUS
<1>1. CASE StartLinks
  BY <1>1 DEF StartLinks, Starts, LinkInv, FitToBuild, Progress, Retracted, Spared, Served, Done
<1>2. CASE LinkListener /\ Link(Listener, "libsensor.so")
  <2>1. pc = "listener" /\ Listener \in TARGETS /\ private' = private /\ Link(Listener, "libsensor.so")
    BY <1>2 DEF LinkListener
  <2>2. /\ said' = said
        /\ \A other \in Libs : \A n : n \in tree[other].needs => n \in tree'[other].needs
        /\ \A other \in Libs \ {Listener} : tree[other].whole => tree'[other].whole
        /\ pc' = "idle" \/ (pc' = pc /\ todo' = todo \ {Listener} /\ Done(Listener, "libsensor.so")')
    BY <2>1, LinkTurn
  <2>3. FitToBuild'
    BY <2>1, <2>2 DEF LinkInv, FitToBuild, Retracted, Done
  <2>4. Progress'
    BY <2>1, <2>2 DEF LinkInv, Progress, Served, Done
  <2>5. Retracted' /\ Spared'
    BY <2>1, <2>2 DEF LinkInv, Retracted, Spared
  <2> QED
    BY <2>3, <2>4, <2>5 DEF LinkInv
<1>5. CASE LinkListener /\ ~Link(Listener, "libsensor.so")
  BY <1>5 DEF LinkListener, Goes, LinkInv, FitToBuild, Progress, Retracted, Spared, Served, Done
<1>3. ASSUME NEW lib \in Libs, LinkTarget(lib) PROVE LinkInv'
  <2>1. pc = "links" /\ lib \in TARGETS /\ private' = private /\ Link(lib, SHIM)
    BY <1>3 DEF LinkTarget, LinkInv, Progress
  <2>2. /\ said' = said
        /\ \A other \in Libs : \A n : n \in tree[other].needs => n \in tree'[other].needs
        /\ \A other \in Libs \ {lib} : tree[other].whole => tree'[other].whole
        /\ pc' = "idle" \/ (pc' = pc /\ todo' = todo \ {lib} /\ Done(lib, SHIM)')
    BY <2>1, LinkTurn
  <2>3. FitToBuild'
    BY <2>1, <2>2 DEF LinkInv, FitToBuild, Retracted, Done
  <2>4. Progress'
    BY <2>1, <2>2 DEF LinkInv, Progress, Served, Done
  <2>5. Retracted' /\ Spared'
    BY <2>1, <2>2 DEF LinkInv, Retracted, Spared
  <2> QED
    BY <2>3, <2>4, <2>5 DEF LinkInv
<1>4. CASE Linked
  BY <1>4 DEF Linked, Reports, LinkInv, FitToBuild, Progress, Retracted, Spared, Served, Done
<1> QED
  BY <1>1, <1>2, <1>3, <1>4, <1>5 DEF LinkScript

(* FitToBuild: whatever was cut off in between, the reports of the two     *)
(* scripts together mean a tree with every blob whole and linked.          *)
THEOREM ReportedTreesFit == Spec => []FitToBuild
<1>1. Init => LinkInv
  BY DEF Init, LinkInv, FitToBuild, Progress, Retracted, Spared
<1>2. TypeOK /\ LinkInv /\ [Next]_vars => LinkInv'
  <2> SUFFICES ASSUME TypeOK, LinkInv, [Next]_vars PROVE LinkInv'
    OBVIOUS
  <2>1. CASE Killed \/ UNCHANGED vars
    BY <2>1 DEF Killed, Ends, vars, LinkInv, FitToBuild, Progress, Retracted, Spared, Served, Done
  <2> QED
    BY <2>1, FilesKeepLinks, PrivateKeepsLinks, LinksKeepLinks DEF Next
<1>3. LinkInv => FitToBuild
  BY DEF LinkInv
<1> QED
  BY <1>1, <1>2, <1>3, ScriptTypes, PTL DEF Spec
=============================================================================
