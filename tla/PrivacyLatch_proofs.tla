------------------------- MODULE PrivacyLatch_proofs --------------------------
(***************************************************************************)
(* What the two patches of the camera driver keep, on boards with and      *)
(* without the latch and whenever cameraserver searches.                   *)
(***************************************************************************)
EXTENDS PrivacyLatch, TLAPS

USE DEF UNGATED, GATED, ENODEV, NONE

LEMMA InitType == Init => TypeOK
BY DEF Init, TypeOK

\* What set_gate_state believes is one of the two states of a latch, and the
\* clear one on a board that has none.
LEMMA SyncedTyped ==
  ASSUME TypeOK
  PROVE  SyncedReq \in {UNGATED, GATED} /\ (~gating => SyncedReq = UNGATED)
BY DEF TypeOK, SyncedReq, gating_current_state

LEMMA TypeStep == TypeOK /\ [Next]_vars => TypeOK'
<1> SUFFICES ASSUME TypeOK, [Next]_vars PROVE TypeOK'
  OBVIOUS
<1> USE DEF TypeOK, board, kernel, server, EndCall, MoveLatch
<1>1. CASE UNCHANGED vars BY <1>1 DEF vars
<1>2. CASE LongPress
  <2>1. /\ gating /\ latch' \in {UNGATED, GATED} /\ notice' \in {UNGATED, GATED, notice}
        /\ UNCHANGED <<gating, fitted, ready, req>>
    BY <1>2 DEF LongPress
  <2>2. UNCHANGED <<call, stage, devices, cam>> /\ steady' \in BOOLEAN
    BY <1>2 DEF LongPress
  <2> QED BY <2>1, <2>2
<1>3. CASE ShortPress
  <2>1. latch' = UNGATED /\ UNCHANGED <<gating, fitted, ready, notice, req>>
    BY <1>3 DEF ShortPress
  <2>2. UNCHANGED <<call, stage, devices, cam>> /\ steady' \in BOOLEAN
    BY <1>3 DEF ShortPress
  <2> QED BY <2>1, <2>2
<1>4. CASE gating_probe BY <1>4 DEF gating_probe
<1>5. CASE Notify BY <1>5 DEF Notify
<1>6. CASE set_gate_state BY <1>6, SyncedTyped DEF set_gate_state
<1>7. CASE RaisePower BY <1>7 DEF RaisePower
<1>8. CASE StartSearch BY <1>8 DEF StartSearch
<1>9. CASE SearchRefused BY <1>9 DEF SearchRefused
<1>10. CASE SearchProbed BY <1>10 DEF SearchProbed
<1>11. CASE StartOpen BY <1>11 DEF StartOpen
<1>12. CASE OpenEnds BY <1>12 DEF OpenEnds
<1>13. CASE CloseCamera BY <1>13 DEF CloseCamera
<1>14. CASE Restart BY <1>14 DEF Restart
<1>15. CASE Reboot BY <1>15 DEF Reboot
<1> QED
  BY <1>1, <1>2, <1>3, <1>4, <1>5, <1>6, <1>7, <1>8, <1>9, <1>10, <1>11, <1>12, <1>13,
     <1>14, <1>15 DEF Next, Button, Driver, Server

\* The driver's states keep to their types, and a board without the latch never
\* believes in one (patch 0015's stub of gating_current_state).
THEOREM TypeCorrect == Spec => []TypeOK
BY InitType, TypeStep, PTL DEF Spec

\* A power-on begins on a latch that is clear when set_gate_state looks at it,
\* whatever notifications came, came late or never came, and whatever was true
\* before the reboot (patch 0015:160-181).
THEOREM NoPowerIntoRail == Spec => NoPowerIntoGatedRail
<1> DEFINE Clear == stage = "check" /\ stage' = "raise" => latch = UNGATED \/ ~ready
<1>1. TypeOK /\ [Next]_vars => [Clear]_vars
  <2> SUFFICES ASSUME TypeOK, Next, stage = "check", stage' = "raise"
               PROVE  latch = UNGATED \/ ~ready
    OBVIOUS
  <2>1. set_gate_state
    BY DEF Next, Button, Driver, Server, LongPress, ShortPress, gating_probe, Notify,
           RaisePower, StartSearch, SearchRefused, SearchProbed, StartOpen, OpenEnds,
           CloseCamera, Restart, Reboot, EndCall, board, kernel, server
  <2>2. SyncedReq = UNGATED BY <2>1 DEF set_gate_state
  <2> QED BY <2>2 DEF SyncedReq, gating_current_state, TypeOK
<1>2. [][TypeOK /\ [Next]_vars => [Clear]_vars]_vars
  BY <1>1, PTL
<1> QED BY <1>1, TypeCorrect, PTL DEF Spec, NoPowerIntoGatedRail

-----------------------------------------------------------------------------
\* While nothing has moved under a search, what it has found out so far is what
\* the latch still says: it was refused on an engaged latch, and powered the
\* sensor on a clear one.
SearchInv ==
  /\ TypeOK
  /\ (steady /\ call = "search") => (ready \/ ~gating)
  /\ (steady /\ call = "search" /\ stage = "refused") => latch = GATED
  /\ (steady /\ call = "search" /\ stage \in {"raise", "powered"}) => latch = UNGATED

LEMMA SearchStep == SearchInv /\ [Next]_vars => SearchInv'
<1> SUFFICES ASSUME SearchInv, [Next]_vars PROVE SearchInv'
  OBVIOUS
<1>0. TypeOK' BY TypeStep DEF SearchInv
<1> USE <1>0 DEF SearchInv, board, kernel, server, EndCall, MoveLatch
<1>1. CASE UNCHANGED vars BY <1>1 DEF vars
<1>2. CASE Button BY <1>2 DEF Button, LongPress, ShortPress
<1>3. CASE gating_probe BY <1>3 DEF gating_probe
<1>4. CASE Notify BY <1>4 DEF Notify
<1>5. CASE set_gate_state
  BY <1>5 DEF set_gate_state, SyncedReq, gating_current_state, TypeOK
<1>6. CASE RaisePower BY <1>6 DEF RaisePower
<1>7. CASE StartSearch BY <1>7 DEF StartSearch
<1>8. CASE SearchRefused BY <1>8 DEF SearchRefused
<1>9. CASE SearchProbed BY <1>9 DEF SearchProbed
<1>10. CASE StartOpen BY <1>10 DEF StartOpen
<1>11. CASE OpenEnds BY <1>11 DEF OpenEnds
<1>12. CASE CloseCamera BY <1>12 DEF CloseCamera
<1>13. CASE Restart BY <1>13 DEF Restart
<1>14. CASE Reboot BY <1>14 DEF Reboot
<1> QED
  BY <1>1, <1>2, <1>3, <1>4, <1>5, <1>6, <1>7, <1>8, <1>9, <1>10, <1>11, <1>12, <1>13,
     <1>14 DEF Next, Driver, Server

\* An undisturbed search lists a camera exactly if there is one or the latch
\* hides whether there is (patch 0016:73-96).
THEOREM SteadySearch == Spec => SteadySearchTruthful
<1> DEFINE True == call = "search" /\ call' = "none" /\ devices' # "unknown" /\ steady =>
                     (devices' = "one" <=> fitted \/ latch = GATED)
<1>1. SearchInv /\ [Next]_vars => [True]_vars
  <2> SUFFICES ASSUME SearchInv, Next, call = "search", call' = "none",
                      devices' # "unknown", steady
               PROVE  devices' = "one" <=> fitted \/ latch = GATED
    OBVIOUS
  <2>1. SearchRefused \/ SearchProbed
    BY DEF Next, Button, Driver, Server, LongPress, ShortPress, gating_probe, Notify,
           set_gate_state, RaisePower, StartSearch, StartOpen, OpenEnds, CloseCamera,
           Restart, Reboot, EndCall, board, kernel, server
  <2>2. CASE SearchRefused
    BY <2>2 DEF SearchRefused, SearchInv, gating_current_state, TypeOK
  <2>3. CASE SearchProbed
    BY <2>3 DEF SearchProbed, SearchInv, Answers, TypeOK
  <2> QED BY <2>1, <2>2, <2>3
<1>2. Init => SearchInv BY InitType DEF Init, SearchInv
<1> QED BY <1>1, <1>2, SearchStep, PTL DEF Spec, SteadySearchTruthful

-----------------------------------------------------------------------------
\* Before gating_probe has finished nothing has been notified, and the cached
\* state is the one the driver was born with.
ColdInv == TypeOK /\ (~ready => notice = NONE /\ req = UNGATED)

LEMMA ColdStep == ColdInv /\ [Next]_vars => ColdInv'
<1> SUFFICES ASSUME ColdInv, [Next]_vars PROVE ColdInv'
  OBVIOUS
<1>0. TypeOK' BY TypeStep DEF ColdInv
<1> USE <1>0 DEF ColdInv, board, kernel, server, EndCall, MoveLatch
<1>1. CASE UNCHANGED vars BY <1>1 DEF vars
<1>2. CASE Button BY <1>2 DEF Button, LongPress, ShortPress
<1>3. CASE gating_probe \/ Notify \/ RaisePower
  BY <1>3 DEF gating_probe, Notify, RaisePower
<1>4. CASE set_gate_state
  BY <1>4 DEF set_gate_state, SyncedReq, gating_current_state, TypeOK
<1>5. CASE Server
  BY <1>5 DEF Server, StartSearch, SearchRefused, SearchProbed, StartOpen, OpenEnds,
              CloseCamera
<1>6. CASE Restart \/ Reboot BY <1>6 DEF Restart, Reboot
<1> QED BY <1>1, <1>2, <1>3, <1>4, <1>5, <1>6 DEF Next, Driver

\* A clear latch is never refused: set_gate_state turns a power-on away only on
\* a latch that is engaged when it looks, whatever an older driver, a lost
\* notification or an early search may have left in the cache (patch 0015:160,
\* patch 0016:80).  It is the safety half of OpensOnceCleared.
THEOREM ClearNeverRefused ==
  Spec => [][stage = "check" /\ stage' = "refused" => latch = GATED]_vars
<1> DEFINE Turned == stage = "check" /\ stage' = "refused" => latch = GATED
<1>1. ColdInv /\ [Next]_vars => [Turned]_vars
  <2> SUFFICES ASSUME ColdInv, Next, stage = "check", stage' = "refused"
               PROVE  latch = GATED
    OBVIOUS
  <2>1. set_gate_state
    BY DEF Next, Button, Driver, Server, LongPress, ShortPress, gating_probe, Notify,
           RaisePower, StartSearch, SearchRefused, SearchProbed, StartOpen, OpenEnds,
           CloseCamera, Restart, Reboot, EndCall, board, kernel, server
  <2>2. SyncedReq # UNGATED BY <2>1 DEF set_gate_state
  <2> QED BY <2>2 DEF ColdInv, SyncedReq, gating_current_state, TypeOK
<1>2. Init => ColdInv BY InitType DEF Init, ColdInv
<1> QED BY <1>1, <1>2, ColdStep, PTL DEF Spec


=============================================================================
