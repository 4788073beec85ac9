------------------------------ MODULE BlobTree -------------------------------
(***************************************************************************)
(* The four scripts that bring the camera blobs into the build tree, run   *)
(* by hand, one at a time, each as often as wanted and in any order:       *)
(*   scripts/fetch-camera-blobs.sh         dump to stock/lib, the cache    *)
(*   scripts/install-blobs-to-tree.sh      cache to tree                   *)
(*   scripts/install-private-dpframework.sh  the private libdpframework,   *)
(*                                         and the blobs linked to it      *)
(*   scripts/patch-shim-needed.sh          the blobs linked to the shim    *)
(* Any of them may be cut off at any point, in the middle of a file too.   *)
(* All four run under set -e, so that a failing command ends the script.   *)
(***************************************************************************)
EXTENDS Integers, Sequences, FiniteSets

CONSTANTS
  Devices,   \* code names with a dump
  Home,      \* the device whose tree is built; fetches may be for another
  Libs,      \* what the fetch loop brings, and camera.mt8163, which is
  HalModule, \*   fetched last, by a command of its own
  CONSUMERS, TARGETS, Listener \* blobs to link to the private library, to
                               \* the shim, and to libsensor.so

ASSUME BlobAssumption ==
  /\ Home \in Devices /\ Devices \cap {"none", "empty"} = {}
  /\ HalModule \in Libs /\ Listener \in TARGETS
  /\ CONSUMERS \subseteq Libs /\ TARGETS \subseteq Libs

\* A blob: the device it is for ("none": there is no file), whether the file
\* is complete, and what was added to its DT_NEEDED.
PRIVATE == "libdpframework_cam.so"
SHIM == "libcamera_shim.so"
Blob == [of : Devices \cup {"none"}, whole : BOOLEAN,
         needs : SUBSET {PRIVATE, SHIM, "libsensor.so"}]
NoBlob == [of |-> "none", whole |-> FALSE, needs |-> {}]

\* The private library: its build, how much of it is there ("head": cut off
\* behind the constant the build is told by; "stump": before it), and what
\* was done to it.
Library == [build : {"none", "legacy", "async"}, part : {"whole", "head", "stump"},
            soname : BOOLEAN, patched : BOOLEAN]
NoLibrary == [build |-> "none", part |-> "stump", soname |-> FALSE, patched |-> FALSE]
LegacyLibrary == [build |-> "legacy", part |-> "whole", soname |-> TRUE, patched |-> TRUE]

VARIABLES
  cache, stamp,  \* stock/lib and its .device ("empty": created, not written)
  tree, private, \* the blobs and the private library in the vendor tree
  pc, dev,       \* the running script's place, and CAMERA_DEVICE of a fetch
  todo,          \* what is left of its loop
  said           \* the scripts whose last run ended well on the present tree

vars == <<cache, stamp, tree, private, pc, dev, todo, said>>

NoBlobs == [lib \in Libs |-> NoBlob]

\* The private library may be there from an older version of its script.
Init ==
  /\ cache = NoBlobs /\ stamp = "none" /\ tree = NoBlobs
  /\ private \in {NoLibrary, LegacyLibrary}
  /\ pc = "idle" /\ dev = Home /\ todo = {} /\ said = {}

\* The script ends without a report: a command failed, or it was cut off.
Ends == pc' = "idle" /\ todo' = {} /\ UNCHANGED <<dev, said>>
Killed == pc # "idle" /\ Ends /\ UNCHANGED <<cache, stamp, tree, private>>
\* It ends with its report.
Reports(verdicts) == pc' = "idle" /\ said' = said \cup verdicts /\ UNCHANGED <<dev, todo>>
Starts(label, work, undone) ==
  /\ pc = "idle" /\ pc' = label /\ todo' = work /\ said' = said \ undone
Proceeds(lib) == todo' = todo \ {lib} /\ UNCHANGED <<pc, dev, said>>
Goes(label, work) == pc' = label /\ todo' = work /\ UNCHANGED <<dev, said>>

-----------------------------------------------------------------------------
(* fetch-camera-blobs.sh                                                   *)

Cached == {lib \in Libs : cache[lib].of # "none"}

\* FAULTY: the cache is used whatever device it was fetched for.
StartFetchUnstamped(d) ==
  /\ Starts("fetch", Libs, {"fetched"}) /\ dev' = d
  /\ UNCHANGED <<cache, stamp, tree, private>>

\* A cache of another device, or of an unknown one, has to go.
StartFetch(d) ==
  /\ Starts(IF stamp = d \/ (stamp = "none" /\ Cached = {}) THEN "fetch" ELSE "clear",
            Libs, {"fetched"})
  /\ dev' = d
  /\ UNCHANGED <<cache, stamp, tree, private>>

\* rm -f *.so .device: one after the other, the stamp last.
Clear ==
  /\ pc = "clear"
  /\ \/ /\ cache' = NoBlobs /\ stamp' = "none"
        /\ Goes("fetch", Libs)
     \/ /\ \E gone \in SUBSET Libs :
             cache' = [lib \in Libs |-> IF lib \in gone THEN NoBlob ELSE cache[lib]]
        /\ Ends /\ UNCHANGED stamp
  /\ UNCHANGED <<tree, private>>

Stock(whole) == [of |-> dev, whole |-> whole, needs |-> {}]

\* One library.  Where the curls fail the file is removed, but for the module.
FetchLib(lib) ==
  /\ pc = "fetch" /\ lib \in todo /\ (lib = HalModule => todo = {HalModule})
  /\ \/ lib \in Cached /\ Proceeds(lib) /\ UNCHANGED cache
     \/ lib \notin Cached /\ Proceeds(lib) /\ cache' = [cache EXCEPT ![lib] = Stock(TRUE)]
     \/ lib \notin Cached /\ Ends /\ UNCHANGED cache                            \* failed
     \/ lib \notin Cached /\ Ends /\ cache' = [cache EXCEPT ![lib] = Stock(FALSE)] \* cut off
  /\ UNCHANGED <<stamp, tree, private>>

WriteStamp ==
  /\ pc = "fetch" /\ todo = {}
  /\ \/ stamp' = dev /\ Reports({"fetched"})
     \/ stamp' = "empty" /\ Ends
  /\ UNCHANGED <<cache, tree, private>>

-----------------------------------------------------------------------------
(* install-blobs-to-tree.sh.  The copy brings the blobs without the links   *)
(* the other two scripts add.                                              *)

StartInstall ==
  /\ Starts("install", Libs, {"placed", "own", "private", "linked"})
  /\ UNCHANGED <<cache, stamp, tree, private, dev>>

CopyLib(lib) ==
  /\ pc = "install" /\ lib \in todo
  /\ \/ lib \in Cached /\ Proceeds(lib) /\ tree' = [tree EXCEPT ![lib] = cache[lib]]
     \/ lib \in Cached /\ Ends /\ tree' = [tree EXCEPT ![lib] = [cache[lib] EXCEPT !.whole = FALSE]]
     \/ lib \notin Cached /\ Ends /\ UNCHANGED tree
  /\ UNCHANGED <<cache, stamp, private>>

\* "own" stands for a copy made while the cache was stamped for this device.
Placed ==
  /\ pc = "install" /\ todo = {}
  /\ Reports({"placed"} \cup IF stamp = Home THEN {"own"} ELSE {})
  /\ UNCHANGED <<cache, stamp, tree, private>>

-----------------------------------------------------------------------------
(* install-private-dpframework.sh                                          *)

\* A copy without the constant of the interface the kernel serves is removed.
SpeaksAsync == private.build = "async" /\ private.part # "stump"
StartPrivate ==
  /\ Starts(IF SpeaksAsync THEN "patch" ELSE "download", CONSUMERS, {"private"})
  /\ private' = IF SpeaksAsync THEN private ELSE NoLibrary
  /\ UNCHANGED <<cache, stamp, tree, dev>>

\* A write to the private library: done, or cut off.
Writes(library, label) ==
  \/ private' = library /\ Goes(label, todo)
  \/ \E part \in {"head", "stump"} : private' = [library EXCEPT !.part = part] /\ Ends

Download ==
  /\ pc = "download"
  /\ \/ Writes([build |-> "async", part |-> "whole", soname |-> FALSE, patched |-> FALSE], "soname")
     \/ Ends /\ UNCHANGED private \* failed
  /\ UNCHANGED <<cache, stamp, tree>>

SetSoname ==
  /\ pc = "soname"
  /\ Writes([private EXCEPT !.soname = TRUE], "patch")
  /\ UNCHANGED <<cache, stamp, tree>>

\* patchelf --print-soname, which takes a whole file, and the three patches,
\* each made or found made.
PatchLibrary ==
  /\ pc = "patch"
  /\ \/ private.part = "whole" /\ Writes([private EXCEPT !.patched = TRUE], "repoint")
     \/ private.part # "whole" /\ Ends /\ UNCHANGED private
  /\ UNCHANGED <<cache, stamp, tree>>

-----------------------------------------------------------------------------
(* Links: patchelf on the blobs in the tree, by both scripts.              *)

\* One blob of a script's loop.  Without the file, or with a torn one, the
\* script ends; a link that is there is not added again.
Link(lib, need) ==
  LET blob == tree[lib]
      linked == [blob EXCEPT !.needs = @ \cup {need}]
  IN  \/ ~blob.whole /\ Ends /\ UNCHANGED tree
      \/ blob.whole /\ need \in blob.needs /\ Proceeds(lib) /\ UNCHANGED tree
      \/ /\ blob.whole /\ need \notin blob.needs
         /\ \/ Proceeds(lib) /\ tree' = [tree EXCEPT ![lib] = linked]
            \/ Ends /\ tree' = [tree EXCEPT ![lib] = [linked EXCEPT !.whole = FALSE]] \* cut off

\* FAULTY: a blob that is not there is passed over.
RepointPresent(lib) ==
  /\ pc = "repoint" /\ lib \in todo
  /\ \/ tree[lib].of = "none" /\ Proceeds(lib) /\ UNCHANGED tree
     \/ tree[lib].of # "none" /\ Link(lib, PRIVATE)
  /\ UNCHANGED <<cache, stamp, private>>

Repoint(lib) ==
  /\ pc = "repoint" /\ lib \in todo /\ Link(lib, PRIVATE)
  /\ UNCHANGED <<cache, stamp, private>>

Repointed ==
  /\ pc = "repoint" /\ todo = {} /\ Reports({"private"})
  /\ UNCHANGED <<cache, stamp, tree, private>>

\* patch-shim-needed.sh: the listener's libsensor.so first, then the shim.
StartLinks ==
  /\ Starts("listener", {Listener}, {"linked"})
  /\ UNCHANGED <<cache, stamp, tree, private, dev>>

LinkListener ==
  /\ pc = "listener"
  /\ \/ todo # {} /\ Link(Listener, "libsensor.so")
     \/ todo = {} /\ Goes("links", TARGETS) /\ UNCHANGED tree
  /\ UNCHANGED <<cache, stamp, private>>

LinkTarget(lib) ==
  /\ pc = "links" /\ lib \in todo /\ Link(lib, SHIM)
  /\ UNCHANGED <<cache, stamp, private>>

Linked ==
  /\ pc = "links" /\ todo = {} /\ Reports({"linked"})
  /\ UNCHANGED <<cache, stamp, tree, private>>

-----------------------------------------------------------------------------
FetchScript ==
  \/ \E d \in Devices : StartFetch(d)
  \/ Clear \/ WriteStamp
  \/ \E lib \in Libs : FetchLib(lib)
InstallScript == StartInstall \/ Placed \/ \E lib \in Libs : CopyLib(lib)
PrivateScript ==
  \/ StartPrivate \/ Download \/ SetSoname \/ PatchLibrary \/ Repointed
  \/ \E lib \in Libs : Repoint(lib)
LinkScript == StartLinks \/ LinkListener \/ Linked \/ \E lib \in Libs : LinkTarget(lib)

Next == FetchScript \/ InstallScript \/ PrivateScript \/ LinkScript \/ Killed
Spec == Init /\ [][Next]_vars

-----------------------------------------------------------------------------
(* What must hold.                                                         *)

Places == {"idle", "clear", "fetch", "install", "download", "soname", "patch",
           "repoint", "listener", "links"}

\* Type invariant.  The private library is only patched, and the blobs only
\* linked to it, in a build the kernel serves.
TypeOK ==
  /\ cache \in [Libs -> Blob] /\ stamp \in Devices \cup {"none", "empty"}
  /\ tree \in [Libs -> Blob] /\ private \in Library
  /\ pc \in Places /\ dev \in Devices /\ todo \subseteq Libs
  /\ said \subseteq {"fetched", "placed", "own", "private", "linked"}
  /\ pc \in {"soname", "patch", "repoint"} => SpeaksAsync

\* Whatever was cut off before, a stamped cache holds blobs of that device
\* only, so that a later fetch may skip what it finds (the comment at
\* fetch-camera-blobs.sh:22-28 tells of the camera with the wrong colours).
StampTrue ==
  stamp \in Devices => \A lib \in Libs : cache[lib].of \in {stamp, "none"}

\* The cache is what its stamp says, a fetch that reported has all blobs of its
\* device, and blobs copied while the cache was stamped for this tree's device
\* are all this device's.
BlobsOfDevice ==
  /\ StampTrue
  /\ "fetched" \in said => stamp = dev /\ \A lib \in Libs : cache[lib].of = dev
  /\ "own" \in said => \A lib \in Libs : tree[lib].of = Home

\* Once the steps on the tree have reported, in any order and after any
\* number of runs that were cut off, the tree is fit to build: no blob that
\* is linked is torn, every link is there, and the private library is whole,
\* patched and of the build the kernel serves (INSTALL.md, 6.3 to 6.5).
FitToBuild ==
  /\ "linked" \in said =>
       /\ \A lib \in TARGETS : SHIM \in tree[lib].needs
       /\ "libsensor.so" \in tree[Listener].needs
  /\ "private" \in said =>
       /\ \A lib \in CONSUMERS : PRIVATE \in tree[lib].needs
       /\ private.build = "async" /\ private.part = "whole" /\ private.patched
  /\ {"linked", "private"} \subseteq said =>
       \A lib \in TARGETS \cup CONSUMERS : tree[lib].whole

\* The camera's libdpframework has a soname of its own, so that the blobs get
\* it and not the system's (install-private-dpframework.sh:18-23).
PrivateSoname == "private" \in said => private.soname
=============================================================================
