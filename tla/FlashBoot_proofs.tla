-------------------------- MODULE FlashBoot_proofs ---------------------------
(***************************************************************************)
(* What flash-boot.sh may leave on the device, for an image and a          *)
(* partition of any size.  The invariant follows the script: which checks  *)
(* lie behind it at each command, and what they have established.          *)
(***************************************************************************)
EXTENDS FlashBoot, SequenceTheorems, TLAPS

\* The commands before the partition is written to ...
Unwritten == {"state", "root", "poll", "generation", "backup", "check", "size", "sanity",
              "clear", "push", "hash", "restart", "chunk", "chunkhash", "append", "verify",
              "flash"}
\* ... and those behind the checks of the amonet generation, the backup, the
\* size and the layout.
Fetched == {"clear", "push", "hash", "restart", "chunk", "chunkhash", "append", "verify",
            "flash", "readback", "compare", "done"}
Sized == Fetched \cup {"sanity"}
BackedUp == Sized \cup {"size"}
Known == BackedUp \cup {"backup", "check"}

Established ==
  /\ pc \in Unwritten => boot = OldBoot
  /\ pc \in Known => generation = 2 \/ header = "damaged"
  /\ pc \in BackedUp => backup = OldBoot
  /\ pc \in Sized => Pieces <= Room
  /\ pc \in Fetched => image = "plain"
  /\ pc = "flash" => dest = Image

Told ==
  /\ pc \notin {"done", "dead"} => said = "nothing"
  /\ pc = "compare" => (Begins(copy) => Begins(boot))

FlashInv ==
  /\ pc \in Steps /\ generation \in {1, 2}
  /\ boot \in [1..Room -> {Old} \cup 1..Pieces]
  /\ Established /\ Told
  /\ OnlyTheImage /\ BackupFirst /\ UnfitUntouched /\ VerdictTrue

USE FlashAssumption

\* A write of the image from its start leaves the old piece or its own in each
\* place.
LEMMA OverlayImage ==
  ASSUME NEW b \in [1..Room -> {Old} \cup 1..Pieces], NEW n \in Int,
         \A i \in 1..Room : b[i] # Old => (i \in 1..Pieces /\ b[i] = i)
  PROVE  /\ Overlay(b, Image, n) \in [1..Room -> {Old} \cup 1..Pieces]
         /\ \A i \in 1..Room : Overlay(b, Image, n)[i] # Old =>
              (i \in 1..Pieces /\ Overlay(b, Image, n)[i] = i)
<1>1. Len(Image) = Pieces /\ \A i \in 1..Pieces : Image[i] = i
  BY DEF Image
<1> QED BY <1>1 DEF Overlay, Old

\* A copy damaged in its first piece is not taken for the image.
LEMMA DamageShows ==
  ASSUME boot \in [1..Room -> {Old} \cup 1..Pieces]
  PROVE  ~Begins([boot EXCEPT ![1] = Bad])
<1>1. 1 \in 1..Room /\ 1 \in 1..Pieces
  BY FlashAssumption
<1>2. Bad # 1
  BY DEF Bad
<1>3. [boot EXCEPT ![1] = Bad][1] = Bad
  BY <1>1
<1> QED
  BY <1>1, <1>2, <1>3 DEF Begins

LEMMA InitInv == Init => FlashInv
BY DEF Init, FlashInv, Established, Told, OnlyTheImage, BackupFirst, UnfitUntouched,
       VerdictTrue, Unwritten, Fetched, Sized, BackedUp, Known, Steps, OldBoot, Old

\* A step that leaves the partition, the backup, the flashed file and what was
\* read back alone keeps the invariant if it goes no further than its checks
\* allow.
LEMMA Quiet ==
  ASSUME FlashInv, UNCHANGED <<header, boot, backup, inputs>>, pc' \in Steps,
         pc' \in Unwritten => pc \in Unwritten,
         pc' \in Known => generation = 2 \/ header = "damaged",
         pc' \in BackedUp => backup = OldBoot,
         pc' \in Sized => Pieces <= Room,
         pc' \in Fetched => image = "plain",
         pc' = "flash" => dest' = Image,
         Told', VerdictTrue'
  PROVE  FlashInv'
BY DEF FlashInv, Established, OnlyTheImage, BackupFirst, UnfitUntouched, inputs

LEMMA StepInv == FlashInv /\ [Next]_vars => FlashInv'
<1> SUFFICES ASSUME FlashInv, [Next]_vars PROVE FlashInv'
  OBVIOUS
<1> USE DEF FlashInv, Established, Told, VerdictTrue, Begins, Unwritten, Fetched, Sized,
            BackedUp, Known, Steps, Go, Die, LinkDies, inputs, files, count
<1>1. CASE UNCHANGED vars BY <1>1 DEF vars, OnlyTheImage, BackupFirst, UnfitUntouched
<1>2. CASE Unplug \/ Replug BY <1>2, Quiet DEF Unplug, Replug
<1>3. CASE CheckState BY <1>3, Quiet DEF CheckState
<1>4. CASE AdbRoot BY <1>4, Quiet DEF AdbRoot
<1>5. CASE PollRoot BY <1>5, Quiet DEF PollRoot
<1>6. CASE CheckGeneration
  <2>1. CASE LinkDies("generation") BY <2>1, Quiet
  <2>2. CASE ~LinkDies("generation")
    <3>1. /\ pc = "generation" /\ header' \in Headers /\ UNCHANGED <<inputs, boot, backup>>
          /\ \/ header' = "microloader" /\ pc' = "dead" /\ said' = "refused"
             \/ header' # "microloader" /\ pc' = "backup" /\ UNCHANGED said
      BY <1>6, <2>2 DEF CheckGeneration
    <3>2. Established'
      BY <3>1 DEF Headers
    <3> QED BY <3>1, <3>2 DEF OnlyTheImage, BackupFirst, UnfitUntouched
  <2> QED BY <2>1, <2>2
<1>7. CASE BackUp
  BY <1>7 DEF BackUp, OnlyTheImage, BackupFirst, UnfitUntouched
<1>8. CASE CheckBackup BY <1>8, Quiet DEF CheckBackup
<1>9. CASE CheckSize BY <1>9, Quiet DEF CheckSize
<1>10. CASE CheckSanity BY <1>10, Quiet DEF CheckSanity
<1>11. CASE ClearDest \/ Restart BY <1>11, Quiet DEF ClearDest, Restart, RemoveDest
<1>12. CASE PushWhole BY <1>12, Quiet DEF PushWhole
<1>13. CASE HashWhole BY <1>13, Quiet DEF HashWhole
<1>14. CASE PushChunk BY <1>14, Quiet DEF PushChunk
<1>15. CASE HashChunk BY <1>15, Quiet DEF HashChunk
<1>16. CASE AppendChunk BY <1>16, Quiet DEF AppendChunk
<1>17. CASE VerifyWhole BY <1>17, Quiet DEF VerifyWhole
<1>18. CASE Flash
  <2>1. CASE LinkDies("flash") BY <2>1, Quiet
  <2>2. ASSUME NEW n \in 0..Room, boot' = Overlay(boot, dest, n), pc = "flash",
               pc' \in {"readback", "dead"}, UNCHANGED <<said, inputs, header, backup>>
        PROVE  FlashInv'
    <3>1. /\ boot' \in [1..Room -> {Old} \cup 1..Pieces] /\ OnlyTheImage'
      BY <2>2, OverlayImage DEF OnlyTheImage
    <3>2. Established' /\ Told' /\ BackupFirst' /\ UnfitUntouched' /\ VerdictTrue'
      BY <2>2 DEF BackupFirst, UnfitUntouched
    <3> QED BY <2>2, <3>1, <3>2
  <2> QED BY <1>18, <2>1, <2>2 DEF Flash
<1>19. CASE ReadBack
  <2>1. CASE LinkDies("readback") BY <2>1, Quiet
  <2>2. ASSUME pc = "readback", pc' = "compare", copy' \in {boot, [boot EXCEPT ![1] = Bad]},
               UNCHANGED <<said, inputs, header, boot, backup>>
        PROVE  FlashInv'
    <3>1. ~Begins([boot EXCEPT ![1] = Bad]) BY DamageShows
    <3>2. Told' BY <2>2, <3>1
    <3> QED BY <2>2, <3>2, Quiet
  <2> QED BY <1>19, <2>1, <2>2 DEF ReadBack
<1>20. CASE Compare BY <1>20, Quiet DEF Compare
<1> QED
  BY <1>1, <1>2, <1>3, <1>4, <1>5, <1>6, <1>7, <1>8, <1>9, <1>10, <1>11, <1>12, <1>13,
     <1>14, <1>15, <1>16, <1>17, <1>18, <1>19, <1>20 DEF Next, Script

LEMMA Invariance == Spec => []FlashInv
BY InitInv, StepInv, PTL DEF Spec

\* No byte that is not the image's reaches the boot partition, whatever the
\* transfers did (flash-boot.sh:135-184).
THEOREM FlashesOnlyTheImage == Spec => []OnlyTheImage
<1>1. FlashInv => OnlyTheImage BY DEF FlashInv
<1> QED BY <1>1, Invariance, PTL

\* A partition that has been written to has its verified backup on the host
\* (flash-boot.sh:90-101).
THEOREM BackupExists == Spec => []BackupFirst
<1>1. FlashInv => BackupFirst BY DEF FlashInv
<1> QED BY <1>1, Invariance, PTL

\* A foreign image and one that does not fit never lead to a write, and neither
\* does the retired layout once its header has reached the host whole
\* (flash-boot.sh:68-125).
THEOREM RefusalsHold == Spec => []UnfitUntouched
<1>1. FlashInv => UnfitUntouched BY DEF FlashInv
<1> QED BY <1>1, Invariance, PTL

\* "flashed" and the messages that nothing was written are true when printed
\* and stay true (flash-boot.sh:153-202).
THEOREM VerdictsTrue == Spec => []VerdictTrue
<1>1. FlashInv => VerdictTrue BY DEF FlashInv
<1> QED BY <1>1, Invariance, PTL

-----------------------------------------------------------------------------
LEMMA TypeStep == TypeOK /\ [Next]_vars => TypeOK'
<1> SUFFICES ASSUME TypeOK, [Next]_vars PROVE TypeOK'
  OBVIOUS
<1> USE DEF TypeOK, Steps, Verdicts, Go, Die, LinkDies, inputs, files, count
<1>0. /\ None \in Seq(Piece) /\ <<>> \in Seq(Piece) /\ Image \in Seq(Piece)
      /\ Bad \in Piece /\ Old \in Piece
      /\ \A f \in [1..Room -> Piece] : f \in Seq(Piece)
  BY DEF None, Image, Piece, Old, Bad
<1>1. CASE UNCHANGED vars BY <1>1 DEF vars
<1>2. CASE Unplug \/ Replug
  <2>1. link' \in BOOLEAN /\ UNCHANGED <<pc, said, inputs, root, files, count>>
    BY <1>2 DEF Unplug, Replug
  <2> QED BY <2>1
<1>3. CASE CheckState BY <1>3 DEF CheckState
<1>4. CASE AdbRoot
  <2>1. link' \in BOOLEAN /\ root' \in BOOLEAN BY <1>4 DEF AdbRoot
  <2> QED BY <1>4, <2>1 DEF AdbRoot
<1>5. CASE PollRoot BY <1>5, SMTT(30) DEF PollRoot
<1>6. CASE CheckGeneration BY <1>6 DEF CheckGeneration, Headers
<1>7. CASE BackUp
  <2>1. {boot, [boot EXCEPT ![1] = Bad]} \subseteq Seq(Piece) BY <1>0
  <2>2. CASE LinkDies("backup") BY <2>2
  <2>3. CASE ~LinkDies("backup")
    <3>1. {backup', dest', part', copy'} \subseteq Seq(Piece) BY <1>7, <2>1, <2>3 DEF BackUp
    <3> QED BY <1>7, <2>3, <3>1 DEF BackUp
  <2> QED BY <2>2, <2>3
<1>8. CASE CheckBackup BY <1>8 DEF CheckBackup
<1>9. CASE CheckSize BY <1>9 DEF CheckSize
<1>10. CASE CheckSanity BY <1>10 DEF CheckSanity
<1>11. CASE ClearDest \/ Restart
  <2>1. dest' \in Seq(Piece) BY <1>0, <1>11 DEF ClearDest, Restart, RemoveDest
  <2>2. chunk' \in 1..Pieces /\ attempt' \in 1..Attempts /\ polls' = polls
    BY <1>11 DEF ClearDest, Restart, RemoveDest, Attempts
  <2>3. pc' \in Steps /\ UNCHANGED <<said, inputs, link, root, header, boot, backup, part, copy>>
    BY <1>11 DEF ClearDest, Restart, RemoveDest
  <2> QED BY <2>1, <2>2, <2>3
<1>12. CASE PushWhole
  <2>1. Len(Image) = Pieces /\ Len(Image) \in 1..Len(Image) BY DEF Image
  <2>2. [Image EXCEPT ![Len(Image)] = Bad] \in Seq(Piece)
    BY <1>0, <2>1, ExceptSeq
  <2>3. Arrives(Image) \subseteq Seq(Piece) BY <1>0, <2>2 DEF Arrives
  <2> QED BY <1>12, <2>3 DEF PushWhole
<1>13. CASE HashWhole BY <1>13 DEF HashWhole
<1>14. CASE PushChunk
  <2>1. <<chunk>> \in Seq(Piece) /\ [<<chunk>> EXCEPT ![Len(<<chunk>>)] = Bad] \in Seq(Piece)
    BY <1>0 DEF Piece
  <2>2. Arrives(<<chunk>>) \subseteq Seq(Piece) BY <1>0, <2>1 DEF Arrives
  <2> QED BY <1>14, <2>2 DEF PushChunk
<1>15. CASE HashChunk BY <1>15, SMTT(30) DEF HashChunk, Attempts
<1>16. CASE AppendChunk
  <2>1. CASE LinkDies("append") BY <2>1
  <2> DEFINE sofar == IF dest = None THEN <<>> ELSE dest
  <2>2. sofar \in Seq(Piece) /\ sofar \o part \in Seq(Piece) /\ Append(sofar, Bad) \in Seq(Piece)
    BY <1>0
  <2> HIDE DEF sofar
  <2>3. ASSUME dest' = sofar \o part, part' = None, UNCHANGED said,
               IF chunk = Pieces
               THEN Go("append", "verify") /\ UNCHANGED <<chunk, attempt>>
               ELSE Go("append", "chunk") /\ chunk' = chunk + 1 /\ attempt' = 1,
               UNCHANGED <<inputs, link, root, header, boot, backup, copy, polls>>
        PROVE  TypeOK'
    <3>1. pc' \in Steps /\ chunk' \in 1..Pieces /\ attempt' \in 1..Attempts
      BY <2>3 DEF Attempts
    <3>2. {backup', dest', part', copy'} \subseteq Seq(Piece)
      BY <1>0, <2>2, <2>3
    <3> QED BY <2>3, <3>1, <3>2
  <2>4. ASSUME dest' = Append(sofar, Bad), UNCHANGED <<part, chunk, attempt>>,
               Die("append", said),
               UNCHANGED <<inputs, link, root, header, boot, backup, copy, polls>>
        PROVE  TypeOK'
    <3>1. {backup', dest', part', copy'} \subseteq Seq(Piece)
      BY <2>2, <2>4
    <3> QED BY <2>4, <3>1
  <2> QED BY <1>16, <2>1, <2>3, <2>4 DEF AppendChunk, sofar
<1>17. CASE VerifyWhole BY <1>17 DEF VerifyWhole
<1>18. CASE Flash
  <2>1. \A n \in 0..Room : Overlay(boot, dest, n) \in [1..Room -> Piece]
    BY DEF Overlay
  <2> QED BY <1>18, <2>1 DEF Flash
<1>19. CASE ReadBack
  <2>1. {boot, [boot EXCEPT ![1] = Bad]} \subseteq Seq(Piece) BY <1>0
  <2>2. CASE LinkDies("readback") BY <2>2
  <2>3. CASE ~LinkDies("readback")
    <3>1. {backup', dest', part', copy'} \subseteq Seq(Piece)
      BY <1>0, <1>19, <2>1, <2>3 DEF ReadBack
    <3> QED BY <1>19, <2>3, <3>1 DEF ReadBack
  <2> QED BY <2>2, <2>3
<1>20. CASE Compare BY <1>20 DEF Compare
<1> QED
  BY <1>1, <1>2, <1>3, <1>4, <1>5, <1>6, <1>7, <1>8, <1>9, <1>10, <1>11, <1>12, <1>13,
     <1>14, <1>15, <1>16, <1>17, <1>18, <1>19, <1>20 DEF Next, Script

\* The files keep to pieces of the partition's kind, and the polls and tries of
\* flash-boot.sh:55-170 to their bounds.
THEOREM TypeCorrect == Spec => []TypeOK
<1>1. Init => TypeOK
  <2> SUFFICES ASSUME Init PROVE TypeOK
    OBVIOUS
  <2>1. None \in Seq(Piece) /\ Image \in Seq(Piece) /\ <<Bad>> \in Seq(Piece)
    BY DEF None, Image, Piece, Bad
  <2>2. {backup, dest, part, copy} \subseteq Seq(Piece) BY <2>1 DEF Init
  <2>3. boot \in [1..Room -> Piece] BY DEF Init, OldBoot, Piece
  <2>4. /\ pc \in Steps /\ said \in Verdicts /\ polls \in 0..PollLimit /\ chunk \in 1..Pieces
        /\ attempt \in 1..Attempts
    BY DEF Init, Steps, Verdicts, Attempts
  <2> QED BY <2>2, <2>3, <2>4 DEF Init, TypeOK
<1> QED BY <1>1, TypeStep, PTL DEF Spec

-----------------------------------------------------------------------------
(* The script runs down.                                                   *)

\* The commands that can still follow: those of the chunks that are left, with
\* all their tries, and those before and after them.
Left ==
  CASE pc = "state"      -> 7 * Pieces + PollLimit + 16
    [] pc = "root"       -> 7 * Pieces + PollLimit + 15
    [] pc = "poll"       -> 7 * Pieces + (PollLimit - polls) + 14
    [] pc = "generation" -> 7 * Pieces + 13
    [] pc = "backup"     -> 7 * Pieces + 12
    [] pc = "check"      -> 7 * Pieces + 11
    [] pc = "size"       -> 7 * Pieces + 10
    [] pc = "sanity"     -> 7 * Pieces + 9
    [] pc = "clear"      -> 7 * Pieces + 8
    [] pc = "push"       -> 7 * Pieces + 7
    [] pc = "hash"       -> 7 * Pieces + 6
    [] pc = "restart"    -> 7 * Pieces + 5
    [] pc = "chunk"      -> 7 * (Pieces - chunk) + 2 * (Attempts - attempt) + 7
    [] pc = "chunkhash"  -> 7 * (Pieces - chunk) + 2 * (Attempts - attempt) + 6
    [] pc = "append"     -> 7 * (Pieces - chunk) + 2 * (Attempts - attempt) + 5
    [] pc = "verify"     -> 4
    [] pc = "flash"      -> 3
    [] pc = "readback"   -> 2
    [] pc = "compare"    -> 1
    [] OTHER             -> 0

LEMMA LeftBounded == TypeOK => Left \in 0 .. 7 * Pieces + PollLimit + 16
<1> SUFFICES ASSUME TypeOK PROVE Left \in 0 .. 7 * Pieces + PollLimit + 16
  OBVIOUS
<1>1. /\ Pieces - chunk \in 0..Pieces - 1 /\ Attempts - attempt \in 0..2
      /\ PollLimit - polls \in 0..PollLimit /\ Pieces \in Nat \ {0} /\ PollLimit \in Nat
  BY FlashAssumption DEF TypeOK, Attempts
<1> DEFINE c == Pieces - chunk
           a == Attempts - attempt
           p == PollLimit - polls
<1>2. CASE pc \in {"chunk", "chunkhash", "append"}
  <2>1. Left \in {7 * c + 2 * a + 7, 7 * c + 2 * a + 6, 7 * c + 2 * a + 5}
    BY <1>2 DEF Left
  <2> HIDE DEF c, a
  <2>2. c \in 0..Pieces - 1 /\ a \in 0..2
    BY <1>1 DEF c, a
  <2> QED BY <1>1, <2>1, <2>2
<1>3. CASE pc \notin {"chunk", "chunkhash", "append"}
  <2>1. Left \in {7 * Pieces + p + 14} \cup 0..4
                 \cup {7 * Pieces + k : k \in 5..13}
                 \cup {7 * Pieces + PollLimit + 15, 7 * Pieces + PollLimit + 16}
    BY <1>3 DEF Left
  <2> HIDE DEF p
  <2>2. p \in 0..PollLimit
    BY <1>1 DEF p
  <2> QED BY <1>1, <2>1, <2>2
<1> QED BY <1>2, <1>3

\* Every command leaves fewer to come.
LEMMA CommandLowers == TypeOK /\ Script => Left' < Left
<1> SUFFICES ASSUME TypeOK, Script PROVE Left' < Left
  OBVIOUS
<1>0. /\ polls \in 0..PollLimit /\ chunk \in 1..Pieces /\ attempt \in 1..3
      /\ Pieces \in Nat \ {0} /\ PollLimit \in Nat \ {0} /\ Attempts = 3
  BY FlashAssumption DEF TypeOK, Attempts
\* A command that ends the script.
<1>1. ASSUME pc' = "dead", pc \in Steps \ {"dead", "done"} PROVE Left' < Left
  BY <1>0, <1>1 DEF Left, Steps
<1> USE DEF Go, Die, LinkDies, count
<1>2. CASE pc' = "dead"
  <2>1. pc \in Steps \ {"dead", "done"}
    BY <1>2 DEF Script, CheckState, AdbRoot, PollRoot, CheckGeneration, BackUp, CheckBackup,
                CheckSize, CheckSanity, ClearDest, PushWhole, HashWhole, Restart, RemoveDest,
                PushChunk, HashChunk, AppendChunk, VerifyWhole, Flash, ReadBack, Compare, Steps
  <2> QED BY <1>1, <1>2, <2>1
<1>3. CASE pc' # "dead" /\ CheckState BY <1>0, <1>3 DEF CheckState, Left
<1>4. CASE AdbRoot BY <1>0, <1>4 DEF AdbRoot, Left
<1>5. CASE pc' # "dead" /\ PollRoot BY <1>0, <1>5 DEF PollRoot, Left
<1>6. CASE pc' # "dead" /\ CheckGeneration BY <1>0, <1>6 DEF CheckGeneration, Left
<1>7. CASE pc' # "dead" /\ BackUp BY <1>0, <1>7 DEF BackUp, Left
<1>8. CASE pc' # "dead" /\ CheckBackup BY <1>0, <1>8 DEF CheckBackup, Left
<1>9. CASE pc' # "dead" /\ CheckSize BY <1>0, <1>9 DEF CheckSize, Left
<1>10. CASE pc' # "dead" /\ CheckSanity BY <1>0, <1>10 DEF CheckSanity, Left
<1>11. CASE ClearDest BY <1>0, <1>11 DEF ClearDest, RemoveDest, Left
<1>12. CASE Restart BY <1>0, <1>12 DEF Restart, RemoveDest, Left
<1>13. CASE PushWhole BY <1>0, <1>13 DEF PushWhole, Left
<1>14. CASE HashWhole BY <1>0, <1>14 DEF HashWhole, Left
<1>15. CASE PushChunk BY <1>0, <1>15 DEF PushChunk, Left
<1>16. CASE pc' # "dead" /\ HashChunk BY <1>0, <1>16 DEF HashChunk, Left
<1>17. CASE pc' # "dead" /\ AppendChunk
  <2>1. /\ pc = "append"
        /\ \/ pc' = "verify"
           \/ pc' = "chunk" /\ chunk' = chunk + 1 /\ attempt' = 1 /\ chunk # Pieces
    BY <1>17 DEF AppendChunk
  <2>2. Left = 7 * (Pieces - chunk) + 2 * (3 - attempt) + 5
    BY <1>0, <2>1 DEF Left
  <2>3. CASE pc' = "verify"
    BY <1>0, <2>2, <2>3 DEF Left
  <2>4. CASE pc' = "chunk" /\ chunk' = chunk + 1 /\ attempt' = 1
    <3>1. Left' = 7 * (Pieces - (chunk + 1)) + 2 * (3 - 1) + 7
      BY <1>0, <2>4 DEF Left, Attempts
    <3> QED BY <1>0, <2>2, <3>1
  <2> QED BY <2>1, <2>3, <2>4
<1>18. CASE pc' # "dead" /\ VerifyWhole BY <1>0, <1>18 DEF VerifyWhole, Left
<1>19. CASE pc' # "dead" /\ Flash BY <1>0, <1>19 DEF Flash, Left
<1>20. CASE pc' # "dead" /\ ReadBack BY <1>0, <1>20 DEF ReadBack, Left
<1>21. CASE Compare BY <1>0, <1>21 DEF Compare, Left
<1> QED
  BY <1>2, <1>3, <1>4, <1>5, <1>6, <1>7, <1>8, <1>9, <1>10, <1>11, <1>12, <1>13, <1>14,
     <1>15, <1>16, <1>17, <1>18, <1>19, <1>20, <1>21 DEF Script

\* The script comes to its end: whatever the link does and whatever transfers
\* lose, each command leaves fewer to come, and there are at most 7 for every
\* chunk, one for every poll and 16 besides (flash-boot.sh:50-202).  It is the
\* safety half of Ends.
THEOREM RunsDown ==
  Spec => /\ [](Left \in 0 .. 7 * Pieces + PollLimit + 16)
          /\ [][Left' < Left \/ UNCHANGED <<pc, count>>]_vars
<1>1. TypeOK /\ [Next]_vars => [Left' < Left \/ UNCHANGED <<pc, count>>]_vars
  <2>1. Unplug \/ Replug => UNCHANGED <<pc, count>>
    BY DEF Unplug, Replug
  <2> QED BY <2>1, CommandLowers DEF Next
<1> QED BY <1>1, LeftBounded, TypeCorrect, PTL DEF Spec


=============================================================================
