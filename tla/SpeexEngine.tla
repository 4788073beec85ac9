----------------------------- MODULE SpeexEngine -----------------------------
(***************************************************************************)
(* The Speex engine as a whole: the control of its sessions (SpeexBlock)   *)
(* and the transforms it calculates with (SpeexFft).  SpeexBlock has no    *)
(* numbers and SpeexFft no sessions, they share nothing but the spectra    *)
(* that the one names and the other computes; a behaviour explores one of  *)
(* the two.                                                                *)
(***************************************************************************)
EXTENDS SpeexBlock, SpeexFft

\* The vectors of a behaviour that explores sessions.
NoJob == [kind |-> "none", first |-> None, second |-> None]

EngineInit ==
    /\ Init
    /\ \/ FftInit
       \/ /\ job = NoJob /\ pc = 1 /\ table = None /\ time = None
          /\ freq = None /\ kept = None /\ buf = None /\ level = Idle

EngineNext ==
    \/ job = NoJob /\ Next /\ UNCHANGED fft_vars
    \/ job # NoJob /\ FftNext /\ UNCHANGED vars

EngineSpec == EngineInit /\ [][EngineNext]_<<vars, fft_vars>>
=============================================================================
