----------------------------- MODULE FlashBoot -------------------------------
(***************************************************************************)
(* scripts/flash-boot.sh: write a freshly built boot.img to the boot       *)
(* partition of a running device over adb.  One step of the model is one   *)
(* command of the script; between two commands the USB link may go and     *)
(* come back, a transfer may lose or damage what it carries, and a file    *)
(* left by an earlier run may lie where the image is to go.                *)
(*                                                                         *)
(* The script runs under "set -euo pipefail": a command that fails ends    *)
(* it, and so does an assignment whose pipeline fails.                     *)
(***************************************************************************)
EXTENDS Integers, Sequences

CONSTANTS
  Pieces,    \* the image in pieces: the 1 MB chunks of split
  Room,      \* the size of the boot partition, in pieces
  PollLimit  \* bound: polls of adb_wait_root in its 60 s

Attempts == 3 \* tries for one chunk

ASSUME FlashAssumption ==
  /\ Pieces \in Nat \ {0} /\ Room \in Nat \ {0} /\ PollLimit \in Nat \ {0}

VARIABLES
  pc,         \* the command that comes next; "dead": the script has ended early
  said,       \* the verdict it printed last
  image,      \* what lies at the path of the build: "plain", or "broken", which
              \* is anything the layout check refuses
  userdebug,  \* does "adb root" work on this build?
  generation, \* of amonet on the device
  link,       \* is the device on the host's bus?
  root,       \* does adbd run as root?
  polls,      \* of adb_wait_root
  header,     \* the start of the recovery partition as the host got it
  boot,       \* the boot partition: piece by piece, Old or one of the image
  backup,     \* the backup file on the host
  dest,       \* DEST on the device
  part,       \* the file of the chunk in hand on the device
  chunk,      \* which one it is
  attempt,    \* its tries so far
  copy        \* what was read back from the partition

inputs == <<image, userdebug, generation>>
files == <<header, boot, backup, dest, part, copy>>
count == <<polls, chunk, attempt>>
vars == <<pc, said, inputs, link, root, files, count>>

Old == 0          \* what the partition held before
Bad == -1         \* a damaged or foreign piece
None == <<-2>>    \* no such file
Image == [i \in 1..Pieces |-> i]
Begins(f) == Len(f) >= Pieces /\ \A i \in 1..Pieces : f[i] = i
OldBoot == [i \in 1..Room |-> Old]
Piece == {Old, Bad, -2} \cup 1..Pieces

\* The partition once n pieces of a file have been written at its start.
Overlay(b, f, n) == [i \in 1..Room |-> IF i <= n /\ i <= Len(f) THEN f[i] ELSE b[i]]

Steps == {"state", "root", "poll", "generation", "backup", "check", "size", "sanity",
          "clear", "push", "hash", "restart", "chunk", "chunkhash", "append", "verify",
          "flash", "readback", "compare", "dead", "done"}
Verdicts == {"nothing", "refused", "exhausted", "unwritten", "mismatch", "flashed"}

Init ==
  /\ pc = "state" /\ said = "nothing"
  /\ image \in {"plain", "broken"} /\ userdebug \in BOOLEAN /\ generation \in {1, 2}
  /\ link \in BOOLEAN /\ root \in BOOLEAN /\ (root => userdebug)
  /\ header = "unread" /\ boot = OldBoot /\ backup = None /\ part = None /\ copy = None
  /\ dest \in {None, Image, <<Bad>>}
  /\ polls = 0 /\ chunk = 1 /\ attempt = 1

Go(from, to) == pc = from /\ pc' = to
Die(from, verdict) == Go(from, "dead") /\ said' = verdict
\* A command on the device fails and takes the script with it.
LinkDies(from) ==
  ~link /\ Die(from, said) /\ UNCHANGED <<inputs, link, root, files, count>>

-----------------------------------------------------------------------------
(* The link.  Nobody but the USB stack decides when it is there.           *)

Unplug == link /\ link' = FALSE /\ UNCHANGED <<pc, said, inputs, root, files, count>>
Replug == ~link /\ link' = TRUE /\ UNCHANGED <<pc, said, inputs, root, files, count>>

-----------------------------------------------------------------------------
(* Coming up as root.                                                      *)

\* get-state, whose failure counts as "not in recovery".
CheckState ==
  /\ \/ Go("state", "root") /\ UNCHANGED said
     \/ link /\ Die("state", "refused")
  /\ UNCHANGED <<inputs, link, root, files, count>>

\* adb root, which restarts adbd and drops the link, or fails and is ignored.
AdbRoot ==
  /\ Go("root", "poll")
  /\ \/ link /\ userdebug /\ ~root /\ root' = TRUE /\ link' \in BOOLEAN
     \/ (~link \/ ~userdebug \/ root) /\ UNCHANGED <<root, link>>
  /\ polls' = 0
  /\ UNCHANGED <<said, inputs, files, chunk, attempt>>

\* adb_wait_root's loop.  The link being away fails the pipeline that is
\* assigned to uid, which ends the script from inside the loop.
PollRoot ==
  \/ polls = PollLimit /\ Die("poll", "refused") /\ UNCHANGED <<inputs, link, root, files, count>>
  \/ polls < PollLimit /\ LinkDies("poll")
  \/ /\ polls < PollLimit /\ link
     /\ IF root THEN Go("poll", "generation") /\ UNCHANGED polls
                ELSE Go("poll", "poll") /\ polls' = polls + 1
     /\ UNCHANGED <<said, inputs, link, root, files, chunk, attempt>>

-----------------------------------------------------------------------------
(* Everything that must be so before the device is written to.             *)

\* What the pull of the recovery's first kilobyte brings: what is there, or
\* something empty or damaged, in which no microloader is found.
Headers == {IF generation = 1 THEN "microloader" ELSE "plain", "damaged"}

\* dd, pull, rm and the grep, which refuses what it finds and lets pass all
\* that it does not.
CheckGeneration ==
  \/ LinkDies("generation")
  \/ /\ link /\ header' \in Headers
     /\ IF header' = "microloader" THEN Die("generation", "refused")
                                   ELSE Go("generation", "backup") /\ UNCHANGED said
     /\ UNCHANGED <<inputs, link, root, boot, backup, dest, part, copy, count>>

BackUp ==
  \/ LinkDies("backup")
  \/ /\ link /\ Go("backup", "check")
     /\ backup' \in {boot, [boot EXCEPT ![1] = Bad]}
     /\ UNCHANGED <<said, inputs, link, root, header, boot, dest, part, copy, count>>

\* FAULTY: what was pulled is taken for the partition.
BackupUnchecked ==
  /\ Go("check", "size")
  /\ UNCHANGED <<said, inputs, link, root, files, count>>

\* A hash that cannot be had is a hash that differs.
CheckBackup ==
  /\ IF link /\ backup = boot THEN Go("check", "size") /\ UNCHANGED said
                              ELSE Die("check", "refused")
  /\ UNCHANGED <<inputs, link, root, files, count>>

CheckSize ==
  \/ LinkDies("size")
  \/ /\ link
     /\ IF Pieces <= Room THEN Go("size", "sanity") /\ UNCHANGED said
                          ELSE Die("size", "refused")
     /\ UNCHANGED <<inputs, link, root, files, count>>

\* FAULTY: the layout check reports and goes on.
SanityReports ==
  /\ Go("sanity", "clear")
  /\ UNCHANGED <<said, inputs, link, root, files, count>>

CheckSanity ==
  /\ IF image = "plain" THEN Go("sanity", "clear") /\ UNCHANGED said
                        ELSE Die("sanity", "refused")
  /\ UNCHANGED <<inputs, link, root, files, count>>

-----------------------------------------------------------------------------
(* Getting the image onto the device.  Failures are not the end here, and  *)
(* the rm of a leftover DEST may fail as well.                             *)

RemoveDest(from, to) ==
  /\ Go(from, to)
  /\ dest' = IF link THEN None ELSE dest
  /\ UNCHANGED <<said, inputs, link, root, header, boot, backup, part, copy>>

ClearDest == RemoveDest("clear", "push") /\ UNCHANGED count

\* What a push of s leaves behind: all of it, something else, or nothing.
Arrives(s) == {s, [s EXCEPT ![Len(s)] = Bad], None}

PushWhole ==
  /\ Go("push", "hash")
  /\ IF link THEN dest' \in Arrives(Image) ELSE UNCHANGED dest
  /\ UNCHANGED <<said, inputs, link, root, header, boot, backup, part, copy, count>>

HashWhole ==
  /\ IF link /\ dest = Image THEN Go("hash", "verify") ELSE Go("hash", "restart")
  /\ UNCHANGED <<said, inputs, link, root, files, count>>

\* rm, and split on the host.
Restart ==
  /\ RemoveDest("restart", "chunk")
  /\ chunk' = 1 /\ attempt' = 1 /\ UNCHANGED polls

PushChunk ==
  /\ Go("chunk", "chunkhash")
  /\ IF link THEN part' \in Arrives(<<chunk>>) ELSE UNCHANGED part
  /\ UNCHANGED <<said, inputs, link, root, header, boot, backup, dest, copy, count>>

\* FAULTY: the tries of a chunk are not counted.
TryChunkForever ==
  \/ (~link \/ part = None) /\ Die("chunkhash", said)
       /\ UNCHANGED <<inputs, link, root, files, count>>
  \/ /\ link /\ part # None
     /\ IF part = <<chunk>> THEN Go("chunkhash", "append") ELSE Go("chunkhash", "chunk")
     /\ UNCHANGED <<said, inputs, link, root, files, count>>

\* The hash of the chunk on the device.  A file that is not there fails the
\* pipeline assigned to got, which ends the script whatever the attempt.
HashChunk ==
  \/ (~link \/ part = None) /\ Die("chunkhash", said)
       /\ UNCHANGED <<inputs, link, root, files, count>>
  \/ /\ link /\ part # None
     /\ \/ part = <<chunk>> /\ Go("chunkhash", "append") /\ UNCHANGED <<said, attempt>>
        \/ /\ part # <<chunk>> /\ attempt = Attempts
           /\ Die("chunkhash", "exhausted") /\ UNCHANGED attempt
        \/ /\ part # <<chunk>> /\ attempt < Attempts
           /\ Go("chunkhash", "chunk") /\ attempt' = attempt + 1 /\ UNCHANGED said
     /\ UNCHANGED <<inputs, link, root, files, polls, chunk>>

\* cat part >> DEST && rm part.  The cat may be cut short.
AppendChunk ==
  \/ LinkDies("append")
  \/ /\ link
     /\ LET sofar == IF dest = None THEN <<>> ELSE dest
        IN \/ /\ dest' = sofar \o part /\ part' = None /\ UNCHANGED said
              /\ IF chunk = Pieces
                 THEN Go("append", "verify") /\ UNCHANGED <<chunk, attempt>>
                 ELSE Go("append", "chunk") /\ chunk' = chunk + 1 /\ attempt' = 1
           \/ /\ dest' = Append(sofar, Bad) /\ UNCHANGED <<part, chunk, attempt>>
              /\ Die("append", said)
     /\ UNCHANGED <<inputs, link, root, header, boot, backup, copy, polls>>

\* FAULTY: the chunks were each verified, so their sum is taken to be.
VerifySkipped ==
  /\ Go("verify", "flash")
  /\ UNCHANGED <<said, inputs, link, root, files, count>>

\* DEST as a whole, however it came to be.
VerifyWhole ==
  /\ \/ (~link \/ dest = None) /\ Die("verify", said)
     \/ link /\ dest # None /\ dest # Image /\ Die("verify", "unwritten")
     \/ link /\ dest = Image /\ Go("verify", "flash") /\ UNCHANGED said
  /\ UNCHANGED <<inputs, link, root, files, count>>

-----------------------------------------------------------------------------
(* Flashing, and reading back.                                             *)

\* dd.  It may stop anywhere, which ends the script, and what it reports
\* written may not all have reached the storage.
Flash ==
  \/ LinkDies("flash")
  \/ /\ link
     /\ \E n \in 0..Room : boot' = Overlay(boot, dest, n)
     /\ Go("flash", "readback") \/ Go("flash", "dead")
     /\ UNCHANGED <<said, inputs, link, root, header, backup, dest, part, copy, count>>

\* FAULTY: the file that was flashed is read back, not the partition.
ReadDest ==
  /\ link /\ Go("readback", "compare")
  /\ copy' = dest /\ dest' = None
  /\ UNCHANGED <<said, inputs, link, root, header, boot, backup, part, count>>

\* dd, pull, and rm of both files.
ReadBack ==
  \/ LinkDies("readback")
  \/ /\ link /\ Go("readback", "compare")
     /\ copy' \in {boot, [boot EXCEPT ![1] = Bad]} /\ dest' = None
     /\ UNCHANGED <<said, inputs, link, root, header, boot, backup, part, count>>

\* Only as much as the image is long.
Compare ==
  /\ IF Begins(copy) THEN Go("compare", "done") /\ said' = "flashed"
                                        ELSE Die("compare", "mismatch")
  /\ UNCHANGED <<inputs, link, root, files, count>>

Script ==
  \/ CheckState \/ AdbRoot \/ PollRoot \/ CheckGeneration \/ BackUp \/ CheckBackup
  \/ CheckSize \/ CheckSanity \/ ClearDest \/ PushWhole \/ HashWhole \/ Restart
  \/ PushChunk \/ HashChunk \/ AppendChunk \/ VerifyWhole \/ Flash \/ ReadBack \/ Compare

Next == Script \/ Unplug \/ Replug

Spec == Init /\ [][Next]_vars

\* Every adb command of the script returns, whether the device is there or
\* not; nothing is assumed of the link.
FairSpec == Spec /\ WF_vars(Script)
-----------------------------------------------------------------------------
(* Properties.                                                             *)

\* Every variable keeps its type.
TypeOK ==
  /\ pc \in Steps /\ said \in Verdicts
  /\ image \in {"plain", "broken"} /\ userdebug \in BOOLEAN /\ generation \in {1, 2}
  /\ link \in BOOLEAN /\ root \in BOOLEAN
  /\ header \in {"unread", "microloader", "plain", "damaged"}
  /\ boot \in [1..Room -> Piece] /\ {backup, dest, part, copy} \subseteq Seq(Piece)
  /\ polls \in 0..PollLimit /\ chunk \in 1..Pieces /\ attempt \in 1..Attempts

\* flash-boot.sh:135-137, "nothing is written to the boot partition until the
\* device holds a byte-perfect copy": whatever transfers went wrong and whatever
\* an earlier run left, no byte reaches the partition that is not the image's,
\* and each lands in its own place.
OnlyTheImage == \A i \in 1..Room : boot[i] # Old => (i \in 1..Pieces /\ boot[i] = i)

\* The way back exists before the first byte is written: the backup on the host
\* is the partition as it was, and stays so.
BackupFirst == boot # OldBoot => backup = OldBoot

\* An image of the retired layout and one that does not fit leave the partition
\* untouched, whatever else goes wrong, and so does a device of that layout whose
\* header reached the host whole.  One whose header did not is taken for a newer
\* one: the test of flash-boot.sh:72 is for a word that is not there.
UnfitUntouched ==
  \/ image # "plain" \/ Pieces > Room
  \/ generation = 1 /\ header # "damaged"
  => boot = OldBoot

\* What the operator is told is so: "flashed" means the partition holds the whole
\* image, and the refusals that say nothing was written mean it.
VerdictTrue ==
  /\ said = "flashed" => Begins(boot)
  /\ said \in {"refused", "exhausted", "unwritten"} => boot = OldBoot

\* However the link behaves, the script comes to an end: no loop of it waits
\* for the device for ever.
Ends == <>(pc \in {"done", "dead"})

\* adb-lib.sh:19-21, "it tolerates the device vanishing however many times the
\* passthrough needs": the poll ends early only with root proved.
PollTolerates ==
  [][(pc = "poll" /\ pc' = "dead") => polls = PollLimit]_vars

=============================================================================
