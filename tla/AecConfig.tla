------------------------------ MODULE AecConfig ------------------------------
(***************************************************************************)
(* What libamznaec_shim (shims/libamznaec/amznaec_shim.cpp) makes of the   *)
(* property store and of the arguments of a pcm_open: which stream is the  *)
(* microphones', the settings, and from them the microphones, the mode,    *)
(* their geometry and the processors.                                      *)
(*                                                                         *)
(* A property store gives some of the integer properties, and the numbers  *)
(* that the text of the geometry parses to, in millimetres.  Properties    *)
(* that only tune a processor are left out.                                *)
(***************************************************************************)
EXTENDS Integers, Sequences, FiniteSets

CONSTANTS
  Props,    \* the property stores a pcm_open can find
  Streams   \* the streams the blob opens

Names == {"enable", "mics", "mute", "array", "engine"}
IsStore(p) ==
  /\ DOMAIN p.set \subseteq Names /\ \A n \in DOMAIN p.set : p.set[n] \in Int
  /\ p.geom \in Seq(Int)
Shape == [input : BOOLEAN, device : Nat, channels : Nat, rate : Nat, format : STRING]

ASSUME PropsAssumption == \A p \in Props : IsStore(p)
ASSUME StreamsAssumption == Streams \subseteq Shape

kChannels == 6
Mics == 0..3  \* kMics of them

\* The FPGA's stream, recognised by its shape.
is_mic_pcm(c) ==
  /\ c.input
  /\ c.channels = kChannels /\ c.rate = 16000 /\ c.format = "S24_3LE"
  /\ c.device < 64

-----------------------------------------------------------------------------
(* The settings.                                                           *)

SettingsType ==
  [enable : BOOLEAN, mics : SUBSET Mics, mute : SUBSET Mics,
   array : Int, engine : Int, geom : Seq(Int)]

property_get_int32(p, name, default) ==
  IF name \in DOMAIN p.set THEN p.set[name] ELSE default

\* A value that is neither yes nor no counts as unset.
property_get_bool(p, name, default) ==
  LET v == property_get_int32(p, name, -1) IN (v = 1) \/ (default /\ v # 0)

\* The microphones of a mask, & 0xf.
Bits(v) == {m \in Mics : (v \div 2^m) % 2 = 1}

read_settings(p) ==
  [enable |-> property_get_bool(p, "enable", TRUE),
   mics   |-> Bits(property_get_int32(p, "mics", 1)),
   mute   |-> Bits(property_get_int32(p, "mute", 0)),
   array  |-> property_get_int32(p, "array", 0),
   engine |-> property_get_int32(p, "engine", 0),
   geom   |-> p.geom]

Settings == {read_settings(p) : p \in Props}

\* The zeroed g.s of a process that has not opened the microphones yet.
Unread ==
  [enable |-> FALSE, mics |-> {}, mute |-> {}, array |-> 0, engine |-> 0, geom |-> <<>>]

-----------------------------------------------------------------------------
(* The configuration.                                                      *)

\* The selected microphones: the mask, or microphone 0 when it is empty.
Selected(s) == IF s.mics = {} THEN {0} ELSE s.mics

\* An array mode that is unknown, or that needs two microphones, is mode 0.
Mode(s) ==
  IF s.array \notin 0..2 \/ (s.array # 0 /\ Cardinality(Selected(s)) < 2)
  THEN 0 ELSE s.array

ConfType == [s : SettingsType, sel : SUBSET Mics, mode : 0..2]
Configure(s) == [s |-> s, sel |-> Selected(s), mode |-> Mode(s)]

UsesSpeex(c) == c.s.engine = 1 /\ c.mode # 2

\* A WebRTC processor: its place in g.apm and the channels it was made for.
Apm == [mic : Mics, channels : Nat, beamform : BOOLEAN]
make_apm(mic, in_channels, beamform) ==
  [mic |-> mic, channels |-> in_channels, beamform |-> beamform]

\* FAULTY: the beamformer is made like the mix.
ApmsMono(c) ==
  CASE UsesSpeex(c) -> {}
    [] ~UsesSpeex(c) /\ c.mode = 0 -> {make_apm(m, 1, FALSE) : m \in c.sel}
    [] OTHER -> {make_apm(0, 1, c.mode = 2)}

\* The processors pcm_open makes.
Apms(c) ==
  CASE UsesSpeex(c) -> {}
    [] ~UsesSpeex(c) /\ c.mode = 0 -> {make_apm(m, 1, FALSE) : m \in c.sel}
    [] OTHER -> {make_apm(0, IF c.mode = 2 THEN Cardinality(c.sel) ELSE 1, c.mode = 2)}

-----------------------------------------------------------------------------
(* What a block goes through in process_block_l: for each call of run_apm   *)
(* the place of the processor and the channels it is given, the channels of *)
(* near_ that end up with a processor's output, and what is given back.     *)

First(mics) == CHOOSE m \in mics : \A k \in mics : m <= k
Made(apm) == {a.mic : a \in apm}
RunBySpeex(c, spx) == spx /\ c.mode \in {0, 1}

run_apms(c, apm, spx) ==
  CASE RunBySpeex(c, spx) -> {}
    [] ~RunBySpeex(c, spx) /\ c.mode = 0 ->
         {[mic |-> m, channels |-> 1] : m \in c.sel \cap Made(apm)}
    [] OTHER -> {[mic |-> 0, channels |-> IF c.mode = 1 THEN 1 ELSE Cardinality(c.sel)]}

Replaced(c, apm, spx) ==
  IF RunBySpeex(c, spx) THEN {IF c.mode = 0 THEN First(c.sel) ELSE 0}
  ELSE {r.mic : r \in run_apms(c, apm, spx)}

\* The channels that count as processed when the block is put together.
Processed(c, apm, spx) ==
  IF c.mode = 0 THEN {m \in Mics : m \in Made(apm) \/ (spx /\ m = First(c.sel))} ELSE {0}

\* What the caller gets on a microphone's channel: silence when it is muted,
\* processed or not; else near_ with the gain, which is a processor's output or
\* the microphone itself; else the frame as it was captured.
Returned(c, apm, spx, m) ==
  CASE m \in c.s.mute -> "zero"
    [] m \notin c.s.mute /\ m \in Processed(c, apm, spx) ->
         IF m \in Replaced(c, apm, spx) THEN "output" ELSE "amplified"
    [] OTHER -> "raw"

-----------------------------------------------------------------------------
(* The geometry: one point per selected microphone.                        *)

Point == [x : Int, y : Int, z : Int]

\* 5 mm or more apart: the beamformer divides by the smallest spacing.
Spaced(p, q) ==
  LET dx == p.x - q.x  dy == p.y - q.y  dz == p.z - q.z
  IN  dx * dx + dy * dy + dz * dz >= 25

Usable(points, nsel) ==
  /\ Len(points) = nsel
  /\ \A i, j \in 1..nsel : i < j => Spaced(points[i], points[j])

Points(v) ==
  [i \in 1..(Len(v) \div 3) |-> [x |-> v[3 * i - 2], y |-> v[3 * i - 1], z |-> v[3 * i]]]

\* 2 cm from one to the next along x, around the origin.
Line2cm(nsel) ==
  [i \in 1..nsel |-> [x |-> 20 * i - 10 * (nsel + 1), y |-> 0, z |-> 0]]

build_geometry(c) ==
  LET nsel == Cardinality(c.sel)
  IN  IF Len(c.s.geom) = 3 * nsel /\ Usable(Points(c.s.geom), nsel)
      THEN Points(c.s.geom) ELSE Line2cm(nsel)
=============================================================================
