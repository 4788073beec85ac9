------------------------ MODULE TuningLibrary_proofs -------------------------
(* What the two tuning scripts keep, whatever is cut off and in any order. *)
EXTENDS TuningLibrary, TLAPS

Unpatched(f) == f # Absent => (f.awb # "patched" /\ f.obc # "patched")

\* A patched library has its backup beside it: the patch was written by a run
\* that had one.
BackupInv ==
  /\ pc \in {"idle", "backup", "pull", "patch", "push", "restore"}
  /\ Unpatched(orig)
  /\ orig = Absent => Unpatched(lib)
  /\ pc \in {"pull", "patch", "push"} => orig # Absent

LEMMA BackupStep == BackupInv /\ [Next]_vars => BackupInv'
<1> SUFFICES ASSUME BackupInv, [Next]_vars PROVE BackupInv'
  OBVIOUS
<1> USE DEF BackupInv, Unpatched, Stop, Cut, Partial, Stock
<1>1. CASE UNCHANGED vars BY <1>1 DEF vars
<1>2. ASSUME NEW s \in Scripts, Start(s) PROVE BackupInv' BY <1>2 DEF Start
<1>3. CASE InstallCamera BY <1>3 DEF InstallCamera
<1>4. CASE ReinstallRom BY <1>4 DEF ReinstallRom
<1>5. CASE BackUp BY <1>5 DEF BackUp
<1>6. CASE Pull BY <1>6 DEF Pull
<1>7. CASE Patch BY <1>7 DEF Patch
<1>8. CASE Push BY <1>8 DEF Push
<1>9. CASE Restore
  <2>1. CASE orig = Absent BY <1>9, <2>1 DEF Restore
  <2>2. CASE orig # Absent
    <3>1. pc' = "idle" /\ orig' = orig BY <1>9, <2>2 DEF Restore
    <3> QED BY <2>2, <3>1
  <2> QED BY <2>1, <2>2
<1> QED BY <1>1, <1>2, <1>3, <1>4, <1>5, <1>6, <1>7, <1>8, <1>9 DEF Next

\* The backup the two scripts share is never a patched library
\* (patch-awb-d65.sh:57, patch-obc-pedestal.sh:47).
THEOREM BackupStaysUnpatched == Spec => []BackupUnpatched
<1>1. Init => BackupInv BY DEF Init, BackupInv, Unpatched, Stock
<1>2. BackupInv => BackupUnpatched BY DEF BackupInv, Unpatched, BackupUnpatched
<1> QED BY <1>1, <1>2, BackupStep, PTL DEF Spec

\* While the black level script runs, the white balance it will write is the one
\* it found.
StackInv ==
  /\ pc \in {"idle", "backup", "pull", "patch", "push", "restore"}
  /\ pc \in {"backup", "pull", "patch", "push"} => (lib = before /\ said = "nothing")
  /\ (pc \in {"patch", "push"} /\ script = "obc") => host.awb = before.awb
  /\ (pc \in {"patch", "push"} /\ script # "restore") => host \in Library
  /\ pc \in {"backup", "pull", "patch", "push"} => script \in Patches
  /\ lib \in Library \cup {Absent} /\ orig \in Library \cup {Absent}
  /\ ObcStacks

LEMMA PartialIsLibrary ==
  ASSUME NEW f \in Library, NEW g \in Partial(f) PROVE g \in Library
<1>1. PICK a \in {f.awb, "gone"}, o \in {f.obc, "gone"} :
        g = [whole |-> FALSE, awb |-> a, obc |-> o]
  BY DEF Partial
<1>2. f.awb \in Site /\ f.obc \in Site /\ a \in Site /\ o \in Site
  BY DEF Library, Site
<1>3. g \in [whole : BOOLEAN, awb : Site, obc : Site] /\ ~g.whole
  BY <1>1, <1>2
<1> QED
  BY <1>3 DEF Library

LEMMA StackStep == StackInv /\ [Next]_vars => StackInv'
<1> SUFFICES ASSUME StackInv, [Next]_vars PROVE StackInv'
  OBVIOUS
<1> USE DEF StackInv, ObcStacks, Stop, Cut, Patches
<1>0. Stock \in Library BY DEF Stock, Library, Site
<1>1. CASE UNCHANGED vars BY <1>1 DEF vars
<1>2. ASSUME NEW s \in Scripts, Start(s) PROVE StackInv' BY <1>2 DEF Start, Scripts
<1>3. CASE InstallCamera BY <1>0, <1>3 DEF InstallCamera
<1>4. CASE ReinstallRom BY <1>0, <1>4 DEF ReinstallRom
<1>5. CASE BackUp BY <1>5, PartialIsLibrary DEF BackUp
<1>6. CASE Pull BY <1>6 DEF Pull
<1>7. CASE Patch
  <2>1. host \in Library /\ script \in Patches BY <1>7 DEF Patch
  <2>2. CASE host[script] = "stock"
    <3>1. [host EXCEPT ![script] = "patched"] \in Library
      BY <2>1, <2>2 DEF Library, Site
    <3>2. script = "obc" => [host EXCEPT ![script] = "patched"].awb = host.awb
      BY <2>1 DEF Library
    <3> QED BY <1>7, <2>1, <2>2, <3>1, <3>2 DEF Patch
  <2>3. CASE host[script] # "stock" BY <1>7, <2>3 DEF Patch
  <2> QED BY <2>2, <2>3
<1>8. CASE Push BY <1>8, PartialIsLibrary DEF Push
<1>9. CASE Restore BY <1>9, PartialIsLibrary DEF Restore
<1> QED BY <1>1, <1>2, <1>3, <1>4, <1>5, <1>6, <1>7, <1>8, <1>9 DEF Next

\* The black level patch leaves the white balance as it found it
\* (patch-obc-pedestal.sh:48-49).
THEOREM BlackLevelStacks == Spec => []ObcStacks
<1>1. Init => StackInv BY DEF Init, StackInv, ObcStacks, Stock, Library, Site
<1>2. StackInv => ObcStacks BY DEF StackInv
<1> QED BY <1>1, <1>2, StackStep, PTL DEF Spec

\* The library, its backup and the host's copy are whole or partial libraries,
\* or not there, at every command of the two scripts.
THEOREM TypeCorrect == Spec => []TypeOK
<1>1. Init => TypeOK BY DEF Init, TypeOK, Stock, Library, Site, Scripts, Patches
<1>2. StackInv /\ TypeOK /\ [Next]_vars => TypeOK'
  <2> SUFFICES ASSUME StackInv, TypeOK, [Next]_vars PROVE TypeOK'
    OBVIOUS
  <2> USE DEF TypeOK, Stop, Cut
  <2>0. Stock \in Library BY DEF Stock, Library, Site
  <2>1. CASE UNCHANGED vars BY <2>1 DEF vars
  <2>2. ASSUME NEW s \in Scripts, Start(s) PROVE TypeOK' BY <2>2 DEF Start
  <2>3. CASE InstallCamera BY <2>0, <2>3 DEF InstallCamera
  <2>4. CASE ReinstallRom BY <2>0, <2>4 DEF ReinstallRom
  <2>5. CASE BackUp BY <2>5, PartialIsLibrary DEF BackUp
  <2>6. CASE Pull BY <2>6 DEF Pull
  <2>7. CASE Patch
    <3>1. host \in Library /\ script \in Patches BY <2>7 DEF Patch, StackInv, Patches
    <3>2. host[script] = "stock" => [host EXCEPT ![script] = "patched"] \in Library
      BY <3>1 DEF Library, Site, Patches
    <3> QED BY <2>7, <3>1, <3>2 DEF Patch
  <2>8. CASE Push
    <3>1. host \in Library BY <2>8 DEF Push, StackInv, Patches
    <3> QED BY <2>8, <3>1, PartialIsLibrary DEF Push
  <2>9. CASE Restore BY <2>9, PartialIsLibrary DEF Restore
  <2> QED BY <2>1, <2>2, <2>3, <2>4, <2>5, <2>6, <2>7, <2>8, <2>9 DEF Next
<1>3. Init => StackInv BY DEF Init, StackInv, ObcStacks, Stock, Library, Site
<1> QED BY <1>1, <1>2, <1>3, StackStep, PTL DEF Spec

=============================================================================
