------------------------------ MODULE AwbTrim --------------------------------
(***************************************************************************)
(* The AWB output trim of libcmdqevent (shims/libcmdqevent/                *)
(* cmdq_event_shim.c:358-498): a wrapper around AwbAlgo::handleAWB that    *)
(* finds gain triples (R, 512, B) in the output struct by their pattern    *)
(* and rescales R and B in place.                                          *)
(*                                                                         *)
(* The algorithm is the blob's: each call it recomputes some of the        *)
(* triples and leaves the others as they lie in the struct, which is the   *)
(* same memory every frame.  That it never recomputes one gain of a triple *)
(* and not the other is an assumption of this module.                      *)
(***************************************************************************)
EXTENDS Integers, FiniteSets

CONSTANTS
  Words,          \* bound: words of the struct that are scanned (40 in the code)
  Triples,        \* index of each triple's R in the struct
  Gains,          \* bound: values the algorithm computes
  Filler,         \* the value of the words outside the triples
  Stores,         \* bound: what the four properties can hold
  Reread,         \* the properties are read every so many calls (64 in the code)
  Unset           \* a property with no value

Unity == 512
BCool == 640  \* AWBTRIM_B_COOL
BWarm == 835  \* AWBTRIM_B_WARM

Anchors == {"r", "b", "r.warm", "b.warm"}
Index == 0..(Words - 1)
Gain == {"R", "B"}

ASSUME AwbAssumption ==
  /\ Words \in Nat /\ Filler \in Nat /\ Reread \in Nat \ {0}
  /\ Triples \subseteq Index /\ Gains \subseteq Nat
  /\ \A k \in Triples : k + 2 \in Index /\ {k + 1, k + 2} \cap Triples = {}
  /\ Stores \subseteq [Anchors -> Nat \cup {Unset}]

VARIABLES
  store, \* the persist.camera.awbtrim.* properties
  trim,  \* trim_r, trim_b, trim_r_warm and trim_b_warm
  awb_calls, \* calls, up to Reread
  o,     \* the words of the output struct
  last,  \* last_r and last_b: what the trim wrote at each index
  raw,   \* history: what the algorithm last computed for each gain
  times, \* history: how often that value has been rescaled since
  fresh  \* history: the triples the last call recomputed whole

awb_vars == <<store, trim, awb_calls, o, last, raw, times, fresh>>

Word(k, g) == IF g = "R" THEN k ELSE k + 2
NoTrim == [a \in Anchors |-> Unity]

-----------------------------------------------------------------------------
(* One property, one triple.                                               *)

\* Unset or implausible is "leave it alone".
trim_prop(v) == IF v = Unset THEN Unity ELSE IF v \in 128..2048 THEN v ELSE Unity

\* How warm the light is, in 1/256, from the untrimmed B gain.
Warmth(b) ==
  IF b <= BCool THEN 0
  ELSE IF b >= BWarm THEN 256
  ELSE ((b - BCool) * 256) \div (BWarm - BCool)

Interpolated(cool, warm, t) == (cool * (256 - t) + warm * t) \div 256

\* A triple's gains after the trim.
Scaled(tr, r, b) ==
  [R |-> (r * Interpolated(tr["r"], tr["r.warm"], Warmth(b))) \div Unity,
   B |-> (b * Interpolated(tr["b"], tr["b.warm"], Warmth(b))) \div Unity]

Plausible(v) == v \in 300..1400

Match(w, i) == w[i + 1] = Unity /\ Plausible(w[i]) /\ Plausible(w[i + 2])

\* FAULTY: the scan ends one word early.
HitsShort(w) ==
  LET From[i \in 0..(Words + 2)] ==
        IF i + 3 >= Words THEN {}
        ELSE IF Match(w, i) THEN {i} \cup From[i + 3] ELSE From[i + 1]
  IN From[0]

\* Where the scan finds triples: it goes on behind one it found.
Hits(w) ==
  LET From[i \in 0..(Words + 2)] ==
        IF i + 2 >= Words THEN {}
        ELSE IF Match(w, i) THEN {i} \cup From[i + 3] ELSE From[i + 1]
  IN From[0]

\* FAULTY: every frame is rescaled, converged or not.
NeverOurs(w, i) == FALSE

\* Both words still hold what the trim wrote.
Ours(w, i) == w[i] = last[i].R /\ w[i + 2] = last[i].B

-----------------------------------------------------------------------------
AwbInit ==
  /\ store \in Stores
  /\ trim = NoTrim
  /\ awb_calls = 0
  /\ raw \in [Triples -> [Gain -> Gains]]
  /\ o = [i \in Index |->
            IF i \in Triples THEN raw[i].R
            ELSE IF i - 1 \in Triples THEN Unity
            ELSE IF i - 2 \in Triples THEN raw[i - 2].B
            ELSE Filler]
  /\ last = [i \in Index |-> [R |-> 0, B |-> 0]]
  /\ times = [k \in Triples |-> [g \in Gain |-> 0]]
  /\ fresh = {}

setprop ==
  /\ store' \in Stores
  /\ UNCHANGED <<trim, awb_calls, o, last, raw, times, fresh>>

\* The struct once the algorithm has stored the recomputed triples.
Stored(wrote, val) ==
  [i \in Index |-> IF i \in wrote THEN val[i].R
                   ELSE IF i - 2 \in wrote THEN val[i - 2].B
                   ELSE o[i]]

\* AwbAlgo::handleAWB: the real one, the properties every Reread calls, and,
\* unless all four trims are unity, the scan.
handleAWB ==
  \E wrote \in SUBSET Triples : \E val \in [Triples -> [Gain -> Gains]] :
    LET w == Stored(wrote, val)
        hits == IF trim' = NoTrim THEN {} ELSE {i \in Hits(w) : ~Ours(w, i)}
        new(i) == Scaled(trim', w[i], w[i + 2])
    IN
      /\ \A k \in Triples \ wrote : val[k] = raw[k]
      /\ trim' = IF awb_calls = 0 THEN [a \in Anchors |-> trim_prop(store[a])] ELSE trim
      /\ awb_calls' = (awb_calls + 1) % Reread
      /\ o' = [i \in Index |-> IF i \in hits THEN new(i).R
                               ELSE IF i - 2 \in hits THEN new(i - 2).B ELSE w[i]]
      /\ last' = [i \in Index |-> IF i \in hits THEN new(i) ELSE last[i]]
      /\ raw' = val
      /\ times' = [k \in Triples |-> [g \in Gain |->
           (IF k \in wrote THEN 0 ELSE times[k][g]) +
           Cardinality({i \in hits : Word(k, g) \in {i, i + 2}})]]
      /\ fresh' = wrote
      /\ UNCHANGED store

AwbNext == setprop \/ handleAWB

-----------------------------------------------------------------------------
(* Properties.                                                             *)

\* cmdq_event_shim.c:450, "an in-place rescale would compound": a gain the
\* algorithm computed is rescaled once and not again until it is recomputed,
\* for any sequence of converged frames and property changes.
NeverCompounds == \A k \in Triples : \A g \in Gain : times[k][g] <= 1

\* A triple the algorithm has just recomputed leaves the wrapper corrected for
\* its own illuminant, in whichever place of the struct it lies, unless the
\* trims are off, a gain is implausible, or it equals what was written before.
FreshGainsCorrected ==
  [][\A k \in fresh' :
       LET r == raw'[k].R  b == raw'[k].B
           want == Scaled(trim', r, b)
       IN (trim' # NoTrim /\ Plausible(r) /\ Plausible(b)
             /\ ~(r = last[k].R /\ b = last[k].B))
          => (o'[k] = want.R /\ o'[k + 2] = want.B)]_awb_vars

\* What the pattern takes for granted: 512 is the middle of a triple and
\* nothing else, so that no match lies astride of two.  Either nothing beside
\* a triple looks like a gain, or no gain is ever 512, computed or trimmed.
\* The two properties are proved under it; a gain of exactly 512 between
\* plausible words breaks them (cmdq_event_shim.c:461).
Isolated == ~Plausible(Filler) /\ \A k \in Triples : k + 3 \notin Triples
NoUnityGain ==
  \A r, b \in Gains :
    /\ Unity \notin {r, b}
    /\ \A s \in Stores :
         LET n == Scaled([a \in Anchors |-> trim_prop(s[a])], r, b) IN Unity \notin {n.R, n.B}
UnityApart == Filler # Unity /\ (Isolated \/ NoUnityGain)
=============================================================================
