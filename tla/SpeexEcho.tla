------------------------------ MODULE SpeexEcho ------------------------------
(***************************************************************************)
(* The control of the MDF echo canceller (speexdsp/libspeexdsp/mdf.c) as   *)
(* libamznaec_shim builds it: floating point, TWO_PATH, one microphone.    *)
(* What the filters contain is abstracted to where it came from, what the  *)
(* frame loop does with it is kept.                                        *)
(*                                                                         *)
(* A frame is named by its age: 0 is the frame being cancelled, 1 the one  *)
(* before it.  A spectrum is the set of ages of the frames it holds, {}    *)
(* when it is zero.  A block of a filter remembers                         *)
(*   lags    the delays far end -> microphone it has learnt,               *)
(*   clipped whether an error of a clipped frame went into it,             *)
(*   age     the gradients added since its last constraint, that is how    *)
(*           much circular convolution it has taken on.                    *)
(* The far end has K loudspeakers and the filter M blocks; block j of      *)
(* speaker s is at j*K + s in the C arrays.                                *)
(***************************************************************************)
EXTENDS Integers

CONSTANTS
    M,            \* blocks of the filter
    K,            \* loudspeakers: 2 with the default spx_stereo, else 1
    AdaptLimit,   \* quarters of adaptation before the filter is trusted: 4*M
    ScrewedLimit, \* bad frames before the canceller resets itself: 50
    IntMax        \* the largest value of cancel_count, an int: 2^31 - 1

ASSUME EchoAssumption ==
    /\ M \in Nat \ {0, 1}           \* make_speex asks for two blocks at least
    /\ K \in Nat \ {0}
    /\ AdaptLimit \in Nat
    /\ ScrewedLimit \in Nat \ {0}
    /\ IntMax \in Nat

VARIABLE echo     \* the SpeexEchoState

Taps == 0 .. M - 1
Speakers == 0 .. K - 1

\* Two frames in a row.
Pair(older, newer) == [older |-> older, newer |-> newer]
Nothing == Pair({}, {})
Empty == [lags |-> {}, clipped |-> FALSE, age |-> 0]
ZeroFilter == [j \in Taps |-> [s \in Speakers |-> Empty]]
NoError(w) == [ages |-> {}, clipped |-> FALSE, of |-> w]

(* What the environment decides of a frame.  clip: a sample of the         *)
(* microphone is at +-32000; verdict: what the energies of the two filters *)
(* say; sanity: the energy checks; rate: the adaptation of the frame, in   *)
(* quarters; leak: the leak estimate is above 3 %.                         *)
Courses == [clip : BOOLEAN, verdict : {"keep", "update", "backtrack"},
            sanity : {"ok", "worse", "bad"}, rate : {0, 1}, leak : BOOLEAN]

EchoFresh ==
    [cancel_count |-> 0, saturated |-> 0, screwed_up |-> 0,
     X |-> [j \in 0 .. M |-> [s \in Speakers |-> {}]],
     E |-> NoError(ZeroFilter), W |-> ZeroFilter, foreground |-> ZeroFilter,
     tail |-> ZeroFilter,  \* the filter whose echo ends the output so far
     adapted |-> FALSE, sum_adapt |-> 0, prop |-> "decay",
     leak_estimate |-> "none", sampling_rate |-> 8000, last_y |-> Nothing,
     disturbed |-> 0]      \* history: the resets, and the times W was replaced

(* SPEEX_ECHO_SET_SAMPLING_RATE; the getters change nothing.               *)
AtRate(st, r) == [st EXCEPT !.sampling_rate = r]

(* speex_echo_state_reset: the loops over W, foreground and X stop after   *)
(* N*M and N*(M+1) values, whatever K is; of last_y the older half is      *)
(* cleared; prop, leak_estimate and the rate are not touched, nor is the   *)
(* output that was already made.                                           *)
BeforeIndex(n, j, s) == j * K + s < n
PartOf(w) ==
    [j \in Taps |-> [s \in Speakers |->
        IF BeforeIndex(M, j, s) THEN Empty ELSE w[j][s]]]
EchoReset(st) ==
    [st EXCEPT
        !.cancel_count = 0, !.saturated = 0, !.screwed_up = 0,
        !.X = [j \in 0 .. M |-> [s \in Speakers |->
                  IF BeforeIndex(M + 1, j, s) THEN {} ELSE st.X[j][s]]],
        !.W = PartOf(st.W), !.foreground = PartOf(st.foreground),
        !.E = NoError(PartOf(st.W)),
        !.adapted = FALSE, !.sum_adapt = 0,
        !.last_y = Pair({}, st.last_y.newer), !.disturbed = st.disturbed + 1]

-----------------------------------------------------------------------------
(* speex_echo_cancellation, stage by stage.                                *)

(* The counter wraps at its width (clang's code for the overflow) and the  *)
(* remainder of C takes the sign of the dividend.                          *)
Increment(n) == IF n = IntMax THEN -IntMax - 1 ELSE n + 1
CRemainder(a, b) == IF a >= 0 THEN a % b ELSE -((-a) % b)

Older(ages) == {a + 1 : a \in ages}
\* last_y is only asked for this frame and the one before it: an age of 2
\* stands for everything older.
Stale(ages) == {IF a = 2 THEN 2 ELSE a + 1 : a \in ages}

(* A frame arrives: the spectra of the far end move one block up.          *)
ShiftMemory(st) ==
    [st EXCEPT
        !.cancel_count = Increment(@),
        !.X = [j \in 0 .. M |-> [s \in Speakers |->
                  IF j = 0 THEN {0} ELSE Older(@[j - 1][s])]],
        !.E.ages = Older(@),
        !.last_y = Pair(Stale(@.older), Stale(@.newer))]

(* The gradient of block j: the far end of j frames before the error.      *)
Learnt(b, far, E) ==
    IF far = {} \/ E.ages = {} THEN b
    ELSE [lags |-> b.lags \cup {x - e : x \in far, e \in E.ages},
          clipped |-> b.clipped \/ E.clipped, age |-> b.age + 1]

\* As it would be with the far end of the block itself.
GradientOfNewest(st) ==
    IF st.saturated = 0
    THEN [st EXCEPT !.W = [j \in Taps |-> [s \in Speakers |->
             Learnt(@[j][s], st.X[j][s], st.E)]]]
    ELSE [st EXCEPT !.saturated = @ - 1]

\* mdf_adjust_prop: once adapted, the blocks learn in proportion to W.
AdjustProp(st) == [st EXCEPT !.prop = IF st.adapted THEN "response" ELSE @]

ComputeGradient(st) ==
    LET ready == AdjustProp(st)
    IN  IF st.saturated = 0
        THEN [ready EXCEPT !.W = [j \in Taps |-> [s \in Speakers |->
                 Learnt(@[j][s], st.X[j + 1][s], st.E)]]]
        ELSE [ready EXCEPT !.saturated = @ - 1]

(* The alternatively updated MDF: block 0 and one other are constrained.   *)
\* As it would be with the round counted from the second block.
ConstrainedLate(j, count) == j = 0 \/ CRemainder(count, M - 1) = j
Constrained(j, count) == j = 0 \/ CRemainder(count, M - 1) = j - 1
ConstrainWeights(st) ==
    [st EXCEPT !.W = [j \in Taps |->
        IF Constrained(j, st.cancel_count)
        THEN [s \in Speakers |-> [@[j][s] EXCEPT !.age = 0]] ELSE @[j]]]

(* The two filters are run.  e holds the foreground's echo in its second   *)
(* half and the background's error in its first, y the background's echo.  *)
\* The error that the next gradient will use, and the output's last echo.
Signals(st) == [head |-> st.W, tail |-> st.foreground, y |-> st.W]

\* As they would be without the crossfade, and without the copied output.
CopyForeground(st, sig) ==
    [state |-> [st EXCEPT !.foreground = st.W], sig |-> sig]
CopyBackground(st, sig) ==
    [state |-> [st EXCEPT !.W = st.foreground, !.disturbed = @ + 1], sig |-> sig]

UpdateForeground(st, sig) ==    \* crossfaded from the foreground's echo to y
    [state |-> [st EXCEPT !.foreground = st.W],
     sig   |-> [sig EXCEPT !.tail = sig.y]]
ResetBackground(st, sig) ==     \* y takes the echo, and e is computed again
    [state |-> [st EXCEPT !.W = st.foreground, !.disturbed = @ + 1],
     sig   |-> [sig EXCEPT !.y = sig.tail, !.head = sig.tail]]

Judge(st, verdict) ==
    CASE verdict = "update"    -> UpdateForeground(st, Signals(st))
      [] verdict = "backtrack" -> ResetBackground(st, Signals(st))
      [] verdict = "keep"      -> [state |-> st, sig |-> Signals(st)]

\* As it would be if the next frame learnt all the same.
ErrorUnwatched(judged, clip) ==
    [judged.state EXCEPT
        !.tail = judged.sig.tail,
        !.E = [ages |-> {0}, clipped |-> clip, of |-> judged.sig.head]]

(* The output and the error of the frame; a clipped frame stops the next   *)
(* gradient.                                                               *)
ErrorSignal(judged, clip) ==
    [judged.state EXCEPT
        !.saturated = IF clip /\ @ = 0 THEN 1 ELSE @,
        !.tail = judged.sig.tail,
        !.E = [ages |-> {0}, clipped |-> clip, of |-> judged.sig.head]]

SanityCheck(st, sanity) ==
    [st EXCEPT !.screwed_up =
        CASE sanity = "bad"   -> @ + ScrewedLimit
          [] sanity = "worse" -> @ + 1
          [] sanity = "ok"    -> 0]

(* The leak estimate, the learning rate and the echo for the post-filter;  *)
(* only whether sum_adapt is above the limit matters.                      *)
LearningRate(st, f) ==
    LET adapted == st.adapted \/ (st.sum_adapt > AdaptLimit /\ f.leak)
        more == IF st.sum_adapt > AdaptLimit THEN st.sum_adapt
                ELSE st.sum_adapt + f.rate
    IN  [st EXCEPT !.leak_estimate = "estimated",
                   !.adapted = adapted,
                   !.sum_adapt = IF adapted THEN @ ELSE more]
\* As it would be without the shift.
LastEchoInPlace(st) ==
    [st EXCEPT !.last_y = Pair(@.older, IF st.adapted THEN {0} ELSE @.newer)]
LastEcho(st) ==
    [st EXCEPT !.last_y = Pair(@.newer, IF st.adapted THEN {0} ELSE @.newer)]

Frame(st, f) ==
    LET background == ConstrainWeights(ComputeGradient(ShiftMemory(st)))
        heard == ErrorSignal(Judge(background, f.verdict), f.clip)
        checked == SanityCheck(heard, f.sanity)
    IN  IF checked.screwed_up >= ScrewedLimit THEN EchoReset(checked)
        ELSE LastEcho(LearningRate(checked, f))

-----------------------------------------------------------------------------
(* The entry points.                                                       *)
EchoInit == echo = EchoFresh
SpeexEchoCancellation(f) == echo' = Frame(echo, f)
SpeexEchoStateDestroy == echo' = EchoFresh   \* nothing is kept

\* What speex_echo_get_residual transforms: the two frames in last_y.
Residual(st) == st.last_y

-----------------------------------------------------------------------------
(* The field types of the state.                                           *)
BlockType == [lags : SUBSET Int, clipped : BOOLEAN, age : Nat]
FilterType == [Taps -> [Speakers -> BlockType]]
Counts == -IntMax - 1 .. IntMax
Flag == {0, 1}
Sums == 0 .. AdaptLimit + 1
Props == {"decay", "response"}
Estimates == {"none", "estimated"}
Rates == {8000, 16000}
PairType == [older : SUBSET (0 .. 2), newer : SUBSET (0 .. 2)]
EchoType ==
    [cancel_count : Counts, saturated : Flag,
     screwed_up : 0 .. ScrewedLimit - 1,
     X : [0 .. M -> [Speakers -> SUBSET Nat]],
     E : [ages : SUBSET {0}, clipped : BOOLEAN, of : FilterType],
     W : FilterType, foreground : FilterType, tail : FilterType,
     adapted : BOOLEAN, sum_adapt : Sums,
     prop : Props, leak_estimate : Estimates,
     sampling_rate : Rates,
     last_y : PairType,
     disturbed : Nat]

Holds(w, j, s) == w[j][s].lags \subseteq {j}

(* Adaptive filtering works on the far end that was played when the error  *)
(* was recorded: block j, of whichever filter and loudspeaker, only ever   *)
(* learns from the far end j frames before the error, through the shifts,  *)
(* the verdicts and the resets (mdf.c:771-781 and 816).                    *)
LearnsTimeAligned ==
    \A j \in Taps, s \in Speakers :
        Holds(echo.W, j, s) /\ Holds(echo.foreground, j, s)

(* The error of a clipped frame never goes into a filter: the test comes   *)
(* after the gradient of its own frame and before the gradient that would  *)
(* use it (mdf.c:808-824 and 973-977).                                     *)
ClippedNeverLearnt ==
    \A j \in Taps, s \in Speakers :
        ~echo.W[j][s].clipped /\ ~echo.foreground[j][s].clipped

(* The error that the next gradient uses is the error of the weights that  *)
(* gradient is added to, whatever the verdict on the two filters was       *)
(* (mdf.c:938-950, "so as to get correct adaptation").                     *)
ErrorOfBackground == echo.E.of = echo.W

(* A frame's output starts with the echo of the filter that the frame      *)
(* before ended with, so neither an update nor giving the background up    *)
(* makes a step in the sound (mdf.c:919-932, "so as to not introduce       *)
(* blocking artifacts").  A reset does: it empties the foreground behind   *)
(* the output of its own frame and starts the count again (mdf.c:1032-1036 *)
(* and 524-537).                                                           *)
SmoothHandOver == echo.tail = echo.foreground \/ echo.cancel_count = 0

(* Circular convolution is kept out: a block is less than M-1 gradients    *)
(* away from its constraint, although only one of the blocks after the     *)
(* first is constrained in a frame.  Each time the background is given up, *)
(* which brings an old block back, and each reset, which starts the round  *)
(* again, adds a round at most (mdf.c:826-865).                            *)
AliasBounded ==
    \A j \in Taps, s \in Speakers :
        /\ echo.W[j][s].age < (echo.disturbed + 1) * (M - 1)
        /\ echo.foreground[j][s].age < (echo.disturbed + 1) * (M - 1)
=============================================================================
