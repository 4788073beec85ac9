----------------------------- MODULE SpeexBlock -----------------------------
(***************************************************************************)
(* The Speex engine of libamznaec_shim (amznaec_shim.cpp): make_speex sets *)
(* up a canceller and, when the settings ask for it, a preprocessor that   *)
(* takes its residual echo; run_speex gives every 10 ms block to the one   *)
(* and then to the other; teardown_l destroys both.                        *)
(***************************************************************************)
EXTENDS SpeexPreprocess

CONSTANTS
    Blocks,      \* <<course of the canceller, input of the preprocessor>>
    MaxBlocks    \* the bound on the blocks of a session

ASSUME BlockAssumption ==
    /\ Blocks \subseteq Courses \X Inputs
    /\ MaxBlocks \in Nat

VARIABLES
    spx,         \* g.spx is set
    blocks,      \* blocks run in the session, for the bound
    trust        \* history: whether the canceller was adapted after each of
                 \* the last Fade + 1 blocks, newest first
vars == <<echo, pre, spx, blocks, trust>>

kRate == 16000

Init == /\ EchoInit
        /\ pre = Unmade
        /\ spx = FALSE
        /\ blocks = 0
        /\ trust = <<FALSE>>

(* The preprocessor is made for echo suppression or for denoising, and is  *)
(* given the canceller for the first.                                      *)
MakeSpeex(suppress, denoise) ==
    /\ ~spx
    /\ spx' = TRUE
    /\ blocks' = 0
    /\ trust' = <<FALSE>>
    /\ echo' = AtRate(EchoFresh, kRate)
    /\ LET quiet == SetDenoise(Fresh(TRUE), denoise)
       IN  pre' = CASE suppress -> SetEchoState(quiet)
                    [] denoise /\ ~suppress -> quiet
                    [] OTHER -> Unmade

RunSpeex(f, in) ==
    /\ spx
    /\ blocks < MaxBlocks
    /\ blocks' = blocks + 1
    /\ SpeexEchoCancellation(f)
    /\ trust' = Latest(echo'.adapted, trust, Fade + 1)
    /\ pre' = IF pre.made THEN Run(pre, Residual(echo'), in) ELSE pre
    /\ UNCHANGED spx

TeardownSpeex ==
    /\ spx
    /\ spx' = FALSE
    /\ blocks' = 0
    /\ trust' = <<FALSE>>
    /\ SpeexEchoStateDestroy
    /\ pre' = Unmade

Next == \/ \E suppress, denoise \in BOOLEAN : MakeSpeex(suppress, denoise)
        \/ \E b \in Blocks : RunSpeex(b[1], b[2])
        \/ TeardownSpeex

Spec == Init /\ [][Next]_vars

Adapts == 0 .. AdaptCap
Ranges == 0 .. Windows[4]
FrameType == [older : SUBSET {1}, newer : SUBSET {0}]
OutType == [older : SUBSET {1}, newer : SUBSET {1}]
PreType ==
    [made : BOOLEAN, denoise : BOOLEAN, echo_state : BOOLEAN,
     nb_adapt : Adapts, min_count : Ranges, Smin : Nat, Stmp : Nat,
     inbuf : SUBSET {0}, outbuf : SUBSET {0},
     frame : FrameType, echo_noise : Seq(PairType), suppressed : Seq(PairType),
     out : OutType,
     seen : Seq(Nat), since : Nat \ {0}]

TypeOK == /\ echo \in EchoType
          /\ pre \in PreType
          /\ spx \in BOOLEAN
          /\ blocks \in 0 .. MaxBlocks
          /\ trust \in Seq(BOOLEAN)

(* What a residual can be of, given whether the canceller was trusted      *)
(* after the block it was taken in and after the block before.             *)
Timely(taken, is, was) ==
    /\ is /\ was   => taken = Pair({1}, {0})
    /\ is /\ ~was  => taken.newer = {0}
    /\ ~is /\ was  => taken = Pair({}, {1})
    /\ ~is /\ ~was => taken.older \cup taken.newer \subseteq {2}

(* The residual echoes that the gains are made from, in all the blocks     *)
(* they last: while the canceller is trusted each is of the two frames     *)
(* that the preprocessor was looking at when it took it, but for the first *)
(* block of the trust, whose older half is not.  The block of a reset      *)
(* takes the echo kept before it, a frame late and next to silence, and    *)
(* until the canceller is trusted again nothing but older echo is taken.   *)
(* What the canceller keeps, the reset's half of it, the decay and the     *)
(* order of run_speex make this (mdf.c:541-551 and 1173-1180,              *)
(* preprocess.c:743-761, amznaec_shim.cpp:352-353).                        *)
ResidualTimely ==
    \A n \in 1 .. Len(pre.echo_noise) :
        \/ pre.echo_noise[n] = Nothing
        \/ Timely(pre.echo_noise[n], trust[n], trust[n + 1])

(* A session that asks for residual echo suppression gets it               *)
(* (amznaec_shim.cpp:57, "Speex residual echo suppression in dB"): the     *)
(* gains of a block are made from the residual echoes it was given.        *)
SuppressionActs ==
    [][blocks' > blocks /\ pre'.made => pre'.suppressed = pre'.echo_noise]_vars
=============================================================================
