--------------------------- MODULE SpeexPreprocess ---------------------------
(***************************************************************************)
(* The control of the Speex preprocessor (speexdsp/libspeexdsp/            *)
(* preprocess.c): the tracking of the noise floor, the framing of its      *)
(* overlapping windows, where its residual echo comes from and where it     *)
(* goes.  How large a gain is is left out.  One bin of the spectrum stands *)
(* for all of them, its smoothed power S is an input.  Frames are named by their age and paired *)
(* as in SpeexEcho, which hands over its echo.                             *)
(***************************************************************************)
EXTENDS SpeexEcho, Sequences

CONSTANTS
    Levels,     \* the values S can take
    Steps,      \* nb_adapt from which the next window is used: 100, 1000, 10000
    Windows,    \* the frames after which the minimum restarts: 15, 50, 150, 300
    AdaptCap,   \* where nb_adapt stops: 20000
    Fade        \* the blocks that a residual echo lasts in echo_noise

ASSUME PreAssumption ==
    /\ Levels \subseteq Nat
    /\ Steps \in [1 .. 3 -> Nat]
    /\ Windows \in [1 .. 4 -> Nat]
    /\ \A i \in 1 .. 4 : Windows[i] <= Windows[4]
    /\ AdaptCap \in Nat \ {0, 1}
    /\ Fade \in Nat \ {0}

VARIABLE pre      \* the SpeexPreprocessState

(* What a run meets: the smoothed power, and whether the residual echo is  *)
(* a NaN or ridiculous.                                                    *)
Inputs == [S : Levels, ridiculous : BOOLEAN]

(* made is FALSE when the shim has no preprocessor.  echo_noise is the     *)
(* largest of the residual echoes taken so far, each smaller by .6 for     *)
(* every block since: it stands as the last of them, newest first and with *)
(* the ages of when it was taken, until Fade blocks have made one          *)
(* too small to count.  suppressed is what the last block's gains made of  *)
(* it.  seen and since are history: the values S took after a first zero,  *)
(* and where in it the window before the current one began.                *)
Fresh(made) ==
    [made |-> made, denoise |-> FALSE, echo_state |-> FALSE,
     nb_adapt |-> 0, min_count |-> 0, Smin |-> 0, Stmp |-> 0,
     inbuf |-> {}, outbuf |-> {}, frame |-> Nothing, echo_noise |-> <<>>,
     suppressed |-> <<>>, out |-> Nothing, seen |-> <<0>>, since |-> 1]
Unmade == Fresh(FALSE)

(* speex_preprocess_ctl: the requests that change what a run does.         *)
SetDenoise(p, on) == [p EXCEPT !.denoise = on]
SetEchoState(p) == [p EXCEPT !.echo_state = TRUE]

-----------------------------------------------------------------------------
(* speex_preprocess_run, stage by stage.                                   *)
CountFrame(p) ==
    [p EXCEPT !.nb_adapt = IF @ + 1 > AdaptCap THEN AdaptCap ELSE @ + 1,
              !.min_count = @ + 1]

(* The residual echo joins what is left of the ones before, zero if it     *)
(* makes no sense; without a canceller nothing is left of any.             *)
Lesser(a, b) == IF a < b THEN a ELSE b
Latest(x, seq, n) ==
    [i \in 1 .. Lesser(Len(seq) + 1, n) |-> IF i = 1 THEN x ELSE seq[i - 1]]
TakeResidual(p, echo_residual, ridiculous) ==
    [p EXCEPT !.echo_noise =
        IF p.echo_state
        THEN Latest(IF ridiculous THEN Nothing ELSE echo_residual, @, Fade)
        ELSE <<>>]

(* preprocess_analysis: the frame before, then this one.                   *)
Analysis(p) == [p EXCEPT !.frame = Pair(Older(p.inbuf), {0}), !.inbuf = {0}]

(* update_noise_prob: the minimum of S over the current window and the one *)
(* before it.                                                              *)
MinRange(nb) ==
    CASE nb < Steps[1] -> Windows[1]
      [] nb >= Steps[1] /\ nb < Steps[2] -> Windows[2]
      [] nb >= Steps[1] /\ nb >= Steps[2] /\ nb < Steps[3] -> Windows[3]
      [] OTHER -> Windows[4]

\* The first frame starts from a floor of zero.
FirstFrame(p) == IF p.nb_adapt = 1 THEN [p EXCEPT !.Smin = 0, !.Stmp = 0] ELSE p
\* As it would be if the last window were forgotten.
RestartFromNow(p, S) ==
    [p EXCEPT !.min_count = 0, !.Smin = S, !.Stmp = S,
              !.since = Len(p.seen) + 1 - p.min_count, !.seen = Append(@, S)]
RestartWindow(p, S) ==
    [p EXCEPT !.min_count = 0, !.Smin = Lesser(p.Stmp, S), !.Stmp = S,
              !.since = Len(p.seen) + 1 - p.min_count, !.seen = Append(@, S)]
ContinueWindow(p, S) ==
    [p EXCEPT !.Smin = Lesser(@, S), !.Stmp = Lesser(@, S), !.seen = Append(@, S)]
UpdateNoiseProb(p, S) ==
    IF p.min_count > MinRange(p.nb_adapt)
    THEN RestartWindow(FirstFrame(p), S) ELSE ContinueWindow(FirstFrame(p), S)

(* The gains of the block come from its noise and echo_noise; all of them  *)
(* are replaced by 1 unless denoising is enabled.                          *)
ApplyGain(p) ==
    [p EXCEPT !.suppressed =
        [n \in DOMAIN p.echo_noise |-> IF p.denoise THEN p.echo_noise[n] ELSE Nothing]]

(* The block that leaves: the end of the last synthesis and the start of   *)
(* this one.                                                               *)
OverlapAdd(p) ==
    [p EXCEPT !.out = Pair(Older(p.outbuf), p.frame.older), !.outbuf = p.frame.newer]

Run(p, echo_residual, in) ==
    OverlapAdd(ApplyGain(UpdateNoiseProb(
        Analysis(TakeResidual(CountFrame(p), echo_residual, in.ridiculous)), in.S)))

-----------------------------------------------------------------------------
Least(seq, x, from) ==
    /\ \E i \in from .. Len(seq) : seq[i] = x
    /\ \A i \in from .. Len(seq) : x <= seq[i]

(* The noise floor is the least power seen since the window before the     *)
(* current one began, and so follows a rising noise within two windows: no *)
(* minimum survives longer, and none is lost when a window ends or becomes *)
(* longer (preprocess.c:673-698).                                          *)
MinimaTracked ==
    /\ Least(pre.seen, pre.Stmp, Len(pre.seen) - pre.min_count)
    /\ Least(pre.seen, pre.Smin, pre.since)
    /\ Len(pre.seen) - pre.since <= 2 * Windows[4] + 1
=============================================================================
