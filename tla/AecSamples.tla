----------------------------- MODULE AecSamples ------------------------------
(***************************************************************************)
(* How libamznaec_shim takes a sample out of a frame and puts one back     *)
(* (shims/libamznaec/amznaec_shim.cpp:270-281 and 315-331).                *)
(*                                                                         *)
(* A sample is three bytes, the lowest first, in two's complement.  A      *)
(* float is a whole number of parts of the lowest bit: its multiplication  *)
(* by 8388608 only moves the exponent, and its conversion to an integer    *)
(* drops the parts; what is not a number is left out.                      *)
(***************************************************************************)
EXTENDS Integers

CONSTANTS
  Packed, \* samples a frame can hold
  Levels  \* what a processor or the gain can make of one

Part == 16         \* bound: the parts of a bit that a float is told apart by
Full == 8388608    \* 2^23, a float of 1
Byte == 0..255

ASSUME SamplesAssumption ==
  /\ Packed \subseteq Byte \X Byte \X Byte
  /\ Levels \subseteq Int

\* FAULTY: the most negative sample is taken for a positive one.
s24Above(p) ==
  LET v == p[1] + 256 * p[2] + 65536 * p[3]
  IN  IF v > Full THEN v - 2 * Full ELSE v

s24(p) ==
  LET v == p[1] + 256 * p[2] + 65536 * p[3]
  IN  IF v >= Full THEN v - 2 * Full ELSE v

Within(v, low, high) == IF v < low THEN low ELSE IF v > high THEN high ELSE v

put24(value) ==
  LET v == Within(value, -Full, Full - 1)
  IN  <<v % 256, (v \div 256) % 256, (v \div 65536) % 256>>

s24f(p) == Part * s24(p)

\* 0.9999999f is the float of the highest sample; the cast goes towards zero.
putf(value) ==
  LET v == Within(value, -Part * Full, Part * (Full - 1))
  IN  put24(IF v >= 0 THEN v \div Part ELSE -((-v) \div Part))

-----------------------------------------------------------------------------
(* A sample of a block on its way through process_block_l.                 *)

VARIABLES
  step,     \* "captured", "taken" out of the frame, "changed" by a processor or
            \* the gain, and then "returned", "muted" or left "raw"
  captured, \* history: the bytes as they were captured
  bytes,    \* the sample's place in the frame
  near      \* near_ at the sample, 0 until it is taken

sample_vars == <<step, captured, bytes, near>>

SampleInit ==
  /\ step = "captured" /\ captured \in Packed
  /\ bytes = captured /\ near = 0

TakeSample ==
  /\ step = "captured"
  /\ step' = "taken" /\ near' = s24f(bytes)
  /\ UNCHANGED <<captured, bytes>>

\* A processor's output, or a gain other than 0 dB.
ChangeSample ==
  /\ step = "taken"
  /\ step' = "changed" /\ near' \in Levels
  /\ UNCHANGED <<captured, bytes>>

\* Written back, muted, or left alone.
ReturnSample ==
  /\ step \in {"taken", "changed"}
  /\ \/ step' = "returned" /\ bytes' = putf(near)
     \/ step' = "muted" /\ bytes' = put24(0)
     \/ step' = "raw" /\ UNCHANGED bytes
  /\ UNCHANGED <<captured, near>>

NextSample ==
  /\ step \in {"returned", "muted", "raw"}
  /\ step' = "captured" /\ captured' \in Packed
  /\ bytes' = captured' /\ near' = 0

SampleNext == TakeSample \/ ChangeSample \/ ReturnSample \/ NextSample

SampleSpec == SampleInit /\ [][SampleNext]_sample_vars

-----------------------------------------------------------------------------
(* What must hold.                                                         *)

\* A sample written back is the one that near_ held: less than a bit away
\* while it fits, the loudest there is of its sign if not, never one that
\* wrapped around; so a microphone nothing was made of, at a gain of 0 dB,
\* comes back byte for byte (process_block_l, amznaec_shim.cpp:389 and 447).
SampleKept ==
  step = "returned" =>
    /\ near = s24f(captured) => bytes = captured
    /\ -Part * Full <= near /\ near < Part * Full =>
         near - s24f(bytes) \in (1 - Part)..(Part - 1)
    /\ near >= Part * Full => s24(bytes) = Full - 1
    /\ near < -Part * Full => s24(bytes) = -Full
=============================================================================
