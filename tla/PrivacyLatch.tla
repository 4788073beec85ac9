---------------------------- MODULE PrivacyLatch -----------------------------
(***************************************************************************)
(* The hardware privacy latch of crown and checkers and the camera behind  *)
(* it, with patches 0015 and 0016: the latch and its button, the gating    *)
(* driver that reports it, the camera driver's cached req_state, and       *)
(* cameraserver, which searches for sensors once and keeps the result for  *)
(* the life of its process.                                                *)
(*                                                                         *)
(* The button and the latch are hardware: the patch headers say a long     *)
(* press toggles the latch and is notified, a short one releases it and    *)
(* tells nobody, and a reboot leaves it alone.  The notifier's callback    *)
(* and the i2c probe of the sensor are kernel code the patches do not      *)
(* touch.                                                                  *)
(***************************************************************************)
EXTENDS Naturals

CONSTANTS
  EarlySearch  \* cameraserver may search before gating_probe has finished

ASSUME EarlySearchAssumption == EarlySearch \in BOOLEAN

UNGATED == "UNGATED"
GATED == "GATED"
ENODEV == "ENODEV"
NONE == "NONE"

VARIABLES
  gating,  \* CONFIG_GATING (fixed): FALSE on cronos, which has no latch
  fitted,  \* is there a sensor at all (fixed)
  latch,   \* the hardware latch
  ready,   \* gating_priv_ref # NULL
  notice,  \* a notification on its way to the camera driver, or NONE
  req,     \* cam_gate->req_state
  call,    \* what cameraserver asks of the driver: "none", "search" or "open"
  stage,   \* how far kdCISModulePowerOn has got in it
  devices, \* the camera list cameraserver keeps: "unknown", "none" or "one"
  cam,     \* the camera as the client sees it
  steady   \* history: nothing moved under the search since it began

board == <<gating, fitted>>
kernel == <<ready, notice, req>>
server == <<call, stage, devices, cam>>
vars == <<board, latch, kernel, server, steady>>

Init ==
  /\ gating \in BOOLEAN
  /\ fitted \in BOOLEAN
  /\ latch \in IF gating THEN {UNGATED, GATED} ELSE {UNGATED}
  /\ ready = FALSE
  /\ notice = NONE
  /\ req = UNGATED
  /\ call = "none"
  /\ stage = "idle"
  /\ devices = "unknown"
  /\ cam = "closed"
  /\ steady = TRUE

-----------------------------------------------------------------------------
(* The button, the latch and the gating driver.                            *)

MoveLatch(state) == latch' = state /\ steady' = FALSE

\* A press of 500 ms or more engages or releases the latch and is notified.
\* Engaging takes the gating driver; releasing does not.
LongPress ==
  /\ gating
  /\ \/ latch = UNGATED /\ ready /\ MoveLatch(GATED) /\ notice' = GATED
     \/ /\ latch = GATED /\ MoveLatch(UNGATED)
        /\ notice' = IF ready THEN UNGATED ELSE notice
  /\ UNCHANGED <<board, ready, req, server>>

\* A shorter one releases the latch and tells nobody.
ShortPress ==
  /\ latch = GATED
  /\ MoveLatch(UNGATED)
  /\ UNCHANGED <<board, kernel, server>>

gating_probe ==
  /\ gating
  /\ ~ready
  /\ ready' = TRUE
  /\ UNCHANGED <<board, latch, notice, req, server, steady>>

\* The notifier callback stores what it was told.
Notify ==
  /\ notice # NONE
  /\ req' = notice
  /\ notice' = NONE
  /\ UNCHANGED <<board, latch, ready, server, steady>>

gating_current_state ==
  CASE ~gating -> UNGATED
    [] gating /\ ~ready -> ENODEV
    [] OTHER -> latch

-----------------------------------------------------------------------------
(* Power-on, for the search and for an open.                               *)

\* FAULTY: the driver before patch 0015.
TrustCache == req

\* FAULTY: the first version of patch 0015.
SyncGatedOnly == IF gating_current_state = GATED THEN GATED ELSE req

\* req_state after set_gate_state has asked the hardware.
SyncedReq ==
  IF gating_current_state \in {UNGATED, GATED} THEN gating_current_state ELSE req

\* set_gate_state(UNGATED), under the mutex the callback takes too.
set_gate_state ==
  /\ stage = "check"
  /\ req' = SyncedReq
  /\ stage' = IF SyncedReq = UNGATED THEN "raise" ELSE "refused"
  /\ UNCHANGED <<board, latch, ready, notice, call, devices, cam, steady>>

\* cam_pwr_en goes up.
RaisePower ==
  /\ stage = "raise"
  /\ stage' = "powered"
  /\ UNCHANGED <<board, latch, kernel, call, devices, cam, steady>>

\* The sensor answers on i2c when it is there and its rail is not held down.
Answers == fitted /\ latch = UNGATED

-----------------------------------------------------------------------------
(* cameraserver.                                                           *)

StartSearch ==
  /\ devices = "unknown"
  /\ call = "none"
  /\ EarlySearch \/ ready \/ ~gating
  /\ call' = "search"
  /\ stage' = "check"
  /\ steady' = (ready \/ ~gating)
  /\ UNCHANGED <<board, latch, kernel, devices, cam>>

EndCall == call' = "none" /\ stage' = "idle"

\* FAULTY: the driver before patch 0016.
RefusedIsAbsent ==
  /\ call = "search"
  /\ stage = "refused"
  /\ devices' = "none"
  /\ EndCall
  /\ UNCHANGED <<board, latch, kernel, cam, steady>>

\* adopt_CAMERA_HW_CheckIsAlive after a power-on error: a latch engaged at
\* this point makes the configured sensor present but unprobed.
SearchRefused ==
  /\ call = "search"
  /\ stage = "refused"
  /\ devices' = IF gating_current_state = GATED THEN "one" ELSE "none"
  /\ EndCall
  /\ UNCHANGED <<board, latch, kernel, cam, steady>>

\* The power-on worked: the chip ID is read.
SearchProbed ==
  /\ call = "search"
  /\ stage = "powered"
  /\ devices' = IF Answers THEN "one" ELSE "none"
  /\ EndCall
  /\ UNCHANGED <<board, latch, kernel, cam, steady>>

StartOpen ==
  /\ devices = "one"
  /\ call = "none"
  /\ cam # "streaming"
  /\ call' = "open"
  /\ stage' = "check"
  /\ UNCHANGED <<board, latch, kernel, devices, cam, steady>>

OpenEnds ==
  /\ call = "open"
  /\ \/ stage = "refused" /\ cam' = "refused"
     \/ stage = "powered" /\ cam' = IF Answers THEN "streaming" ELSE "dead"
  /\ EndCall
  /\ UNCHANGED <<board, latch, kernel, devices, steady>>

CloseCamera ==
  /\ call = "none"
  /\ cam # "closed"
  /\ cam' = "closed"
  /\ UNCHANGED <<board, latch, kernel, call, stage, devices, steady>>

\* cameraserver dies and init starts it again.
Restart ==
  /\ call = "none"
  /\ devices' = "unknown"
  /\ cam' = "closed"
  /\ EndCall
  /\ UNCHANGED <<board, latch, kernel, steady>>

\* A reboot forgets everything but the latch; without mains the latch too.
Reboot ==
  /\ latch' \in {latch, UNGATED}
  /\ ready' = FALSE
  /\ notice' = NONE
  /\ req' = UNGATED
  /\ devices' = "unknown"
  /\ cam' = "closed"
  /\ EndCall
  /\ UNCHANGED <<board, steady>>

-----------------------------------------------------------------------------
Button == LongPress \/ ShortPress
Driver == gating_probe \/ Notify \/ set_gate_state \/ RaisePower
Server ==
  \/ StartSearch \/ SearchRefused \/ SearchProbed
  \/ StartOpen \/ OpenEnds \/ CloseCamera

Next == Button \/ Driver \/ Server \/ Restart \/ Reboot

Spec == Init /\ [][Next]_vars

\* A call that was begun goes on, and the user of a camera app tries again.
\* Nobody has to press the button, and nothing has to restart.
Fairness ==
  /\ WF_vars(set_gate_state)
  /\ WF_vars(RaisePower)
  /\ WF_vars(OpenEnds)
  /\ WF_vars(StartOpen)

FairSpec == Spec /\ Fairness

-----------------------------------------------------------------------------
(* Properties.                                                             *)

\* Every variable keeps its type, and a board without the latch never
\* believes in one.
TypeOK ==
  /\ gating \in BOOLEAN /\ fitted \in BOOLEAN /\ ready \in BOOLEAN /\ steady \in BOOLEAN
  /\ latch \in {UNGATED, GATED}
  /\ notice \in {NONE, UNGATED, GATED}
  /\ req \in {UNGATED, GATED}
  /\ call \in {"none", "search", "open"}
  /\ stage \in {"idle", "check", "raise", "refused", "powered"}
  /\ devices \in {"unknown", "none", "one"}
  /\ cam \in {"closed", "refused", "dead", "streaming"}
  /\ call = "none" <=> stage = "idle"
  /\ ~gating => latch = UNGATED /\ req = UNGATED /\ notice = NONE

\* Patch 0015:59, "latch engaged, then rebooted: power-on is refused at once":
\* a power-on only begins on a latch that is clear when it is looked at,
\* whatever the notifications said and whatever was true before the reboot.
NoPowerIntoGatedRail ==
  [][stage = "check" /\ stage' = "raise" => latch = UNGATED \/ ~ready]_vars

\* A search nothing moved under tells the truth: a camera if there is one, or
\* if the latch hides whether there is one, and no camera otherwise.
SteadySearchTruthful ==
  [][call = "search" /\ call' = "none" /\ devices' # "unknown" /\ steady =>
       (devices' = "one" <=> fitted \/ latch = GATED)]_vars

\* A clear latch is never refused: patch 0016:80, opens "start working as soon
\* as it is cleared, with no restart and no reboot".
OpensOnceCleared ==
  (devices = "one" /\ fitted /\ latch = UNGATED)
    ~> (cam = "streaming" \/ latch = GATED \/ devices # "one")

\* Patch 0016:25, "A shuttered camera is not an absent camera": once the
\* search is over, a fitted camera is in the list.
FittedIsListed == fitted /\ devices # "unknown" => devices = "one"
=============================================================================
