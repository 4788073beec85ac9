--------------------------- MODULE TuningLibrary -----------------------------
(***************************************************************************)
(* scripts/patch-awb-d65.sh and scripts/patch-obc-pedestal.sh: two binary  *)
(* corrections of one library on the device, libcameracustom.so, that      *)
(* share one backup beside it.  One step of the model is one command; a    *)
(* command that writes on the device may be cut off, by the link or the    *)
(* power going, and leaves part of the file.  Between runs the camera      *)
(* install may push the library again and a ROM flash replace /system.     *)
(***************************************************************************)
EXTENDS Integers

CONSTANT Absent \* no such file

Patches == {"awb", "obc"}
Scripts == Patches \cup {"restore"}

\* A library: is it complete, and what do the sites of each patch hold?  A part
\* of one may have lost the sites.
Site == {"stock", "patched", "gone"}
Library ==
  {f \in [whole : BOOLEAN, awb : Site, obc : Site] : f.whole => "gone" \notin {f.awb, f.obc}}
Stock == [whole |-> TRUE, awb |-> "stock", obc |-> "stock"]

Partial(f) ==
  {[whole |-> FALSE, awb |-> a, obc |-> o] : a \in {f.awb, "gone"}, o \in {f.obc, "gone"}}

VARIABLES
  lib,    \* LIB on the device
  orig,   \* LIB.orig
  script, \* the script that runs or ran last
  pc,     \* its next command, or "idle"
  host,   \* in.so, then out.so
  said,   \* what it reported
  before  \* history: LIB when it began

vars == <<lib, orig, script, pc, host, said, before>>

Init ==
  /\ lib = Stock /\ orig = Absent
  /\ script = "restore" /\ pc = "idle" /\ host = Absent /\ said = "nothing"
  /\ before = Stock

Stop(verdict) == pc' = "idle" /\ said' = verdict
\* The command that runs is cut off, and with it the script.
Cut == Stop("nothing")

-----------------------------------------------------------------------------
(* Around the scripts.                                                     *)

Start(s) ==
  /\ pc = "idle"
  /\ script' = s /\ pc' = IF s = "restore" THEN "restore" ELSE "backup"
  /\ said' = "nothing" /\ before' = lib /\ host' = Absent
  /\ UNCHANGED <<lib, orig>>

\* scripts/install-camera.sh:66-71 pushes every blob from the build tree.
InstallCamera ==
  /\ pc = "idle" /\ said' = "nothing"
  /\ lib' = Stock
  /\ UNCHANGED <<orig, script, pc, host, before>>

\* A ROM flash replaces /system, the backup with it.
ReinstallRom ==
  /\ pc = "idle" /\ said' = "nothing"
  /\ lib' = Stock /\ orig' = Absent
  /\ UNCHANGED <<script, pc, host, before>>

-----------------------------------------------------------------------------
(* The commands.                                                           *)

\* FAULTY: the backup is made anew by every run.
BackUpAlways ==
  /\ pc = "backup" /\ lib # Absent
  /\ \/ orig' = lib /\ pc' = "pull" /\ UNCHANGED said
     \/ orig' \in Partial(lib) /\ Cut
  /\ UNCHANGED <<lib, script, host, before>>

\* [ -f $LIB.orig ] || cp $LIB $LIB.orig
BackUp ==
  /\ pc = "backup"
  /\ \/ orig # Absent /\ pc' = "pull" /\ UNCHANGED <<orig, said>>
     \/ orig = Absent /\ lib # Absent /\ orig' = lib /\ pc' = "pull" /\ UNCHANGED said
     \/ orig = Absent /\ lib # Absent /\ orig' \in Partial(lib) /\ Cut
  /\ UNCHANGED <<lib, script, host, before>>

\* FAULTY: both scripts start from the backup.
PullOrig ==
  /\ pc = "pull"
  /\ host' = orig /\ pc' = "patch" /\ UNCHANGED said
  /\ UNCHANGED <<lib, orig, script, before>>

\* The white balance starts from the backup, the black level from the library
\* as it is.
Pull ==
  /\ pc = "pull"
  /\ LET from == IF script = "awb" THEN orig ELSE lib
     IN IF from = Absent THEN Stop("refused") /\ UNCHANGED host
                         ELSE host' = from /\ pc' = "patch" /\ UNCHANGED said
  /\ UNCHANGED <<lib, orig, script, before>>

\* The search for stock bytes, on the host; nothing found ends the script.
Patch ==
  /\ pc = "patch"
  /\ IF host[script] = "stock"
     THEN host' = [host EXCEPT ![script] = "patched"] /\ pc' = "push" /\ UNCHANGED said
     ELSE Stop("refused") /\ UNCHANGED host
  /\ UNCHANGED <<lib, orig, script, before>>

\* adb push over LIB, chmod, and the report.
Push ==
  /\ pc = "push"
  /\ \/ lib' = host /\ Stop("patched")
     \/ lib' \in Partial(host) \cup {Absent} /\ Cut
  /\ UNCHANGED <<orig, script, host, before>>

\* [ -f $LIB.orig ] && cp $LIB.orig $LIB
Restore ==
  /\ pc = "restore"
  /\ \/ orig = Absent /\ Stop("unsaved") /\ UNCHANGED lib
     \/ orig # Absent /\ lib' = orig /\ Stop("restored")
     \/ orig # Absent /\ lib' \in Partial(orig) /\ Cut
  /\ UNCHANGED <<orig, script, host, before>>

Next ==
  \/ \E s \in Scripts : Start(s)
  \/ InstallCamera \/ ReinstallRom
  \/ BackUp \/ Pull \/ Patch \/ Push \/ Restore

Spec == Init /\ [][Next]_vars

-----------------------------------------------------------------------------
(* Properties.                                                             *)

\* Every variable keeps its type.
TypeOK ==
  /\ {lib, orig, host, before} \subseteq Library \cup {Absent}
  /\ script \in Scripts /\ pc \in {"idle", "backup", "pull", "patch", "push", "restore"}
  /\ said \in {"nothing", "refused", "patched", "restored", "unsaved"}

\* The shared backup never holds a patched library, in whatever order the
\* scripts are run, run again, cut off and followed by a reinstall: without that
\* "--restore" could not undo both.
BackupUnpatched == orig # Absent => "patched" \notin {orig.awb, orig.obc}

\* patch-obc-pedestal.sh:48, "patch the CURRENT lib, not .orig: this stacks with
\* patch-awb-d65.sh": the black level leaves the white balance as it was.
ObcStacks ==
  (pc = "idle" /\ script = "obc" /\ said = "patched") => lib.awb = before.awb
=============================================================================
