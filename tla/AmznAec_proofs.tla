--------------------------- MODULE AmznAec_proofs ----------------------------
(***************************************************************************)
(* What holds of AmznAec for every number of threads and handles, every    *)
(* block length and every mix of read lengths, and every property store: its *)
(* types, that a session belongs to one open handle and has what it needs, *)
(* that pcm_read never underruns, that the shim implements DelayLine, and  *)
(* what happens to a sample on its way through a block (AecSamples).       *)
(***************************************************************************)
EXTENDS AmznAec, AecSamples, FiniteSetTheorems, SequenceTheorems, TLAPS

-----------------------------------------------------------------------------
(* The samples of a block: bytes, numbers and floats.                      *)

Triple == Byte \X Byte \X Byte

Bits24(v) == v \in Int /\ -Full <= v /\ v < Full

\* The bytes a, b and c spell v, in two's complement.
Spells(a, b, c, v) ==
  /\ a \in Byte /\ b \in Byte /\ c \in Byte /\ v \in Int
  /\ v = a + 256 * (b + 256 * c) \/ v = a + 256 * (b + 256 * (c - 256))

\* A number is put into the bytes that spell it.
LEMMA SpelledOut ==
  ASSUME NEW a, NEW b, NEW c, NEW v, Spells(a, b, c, v)
  PROVE  v % 256 = a /\ (v \div 256) % 256 = b /\ (v \div 65536) % 256 = c
<1>1. a \in Int /\ 0 <= a /\ a <= 255 /\ b \in Int /\ 0 <= b /\ b <= 255
      /\ c \in Int /\ 0 <= c /\ c <= 255 /\ v \in Int
  BY SMT DEF Spells, Byte
<1>2. PICK e \in Int : v = a + 256 * (b + 256 * e) /\ (e = c \/ e = c - 256)
  BY <1>1, SMT DEF Spells
<1>3. PICK d \in Int : d = b + 256 * e
  BY <1>1, <1>2, SMT
<1>4. v = a + 256 * d
  BY <1>1, <1>2, <1>3, SMT
<1>5. v % 256 = a /\ v \div 256 = d
  BY <1>1, <1>4, SMT
<1>6. d % 256 = b
  BY <1>1, <1>3, SMT
<1>7. v \div 65536 = e
  BY <1>1, <1>2, SMT
<1>8. e % 256 = c
  BY <1>1, <1>2, SMT
<1>9. (v \div 256) % 256 = b
  BY <1>5, <1>6, SMT
<1>10. (v \div 65536) % 256 = c
  BY <1>7, <1>8, SMT
<1> QED BY <1>5, <1>9, <1>10, SMT

\* And its bytes spell it.
LEMMA BytesSpell ==
  ASSUME NEW v, Bits24(v)
  PROVE  Spells(v % 256, (v \div 256) % 256, (v \div 65536) % 256, v)
<1>1. v \in Int /\ -8388608 <= v /\ v < 8388608
  BY SMT DEF Bits24, Full
<1>2. v % 256 \in Byte /\ (v \div 256) % 256 \in Byte /\ (v \div 65536) % 256 \in Byte
  BY <1>1, SMT DEF Byte
<1>3. PICK a : a = v % 256
  OBVIOUS
<1>4. PICK b : b = (v \div 256) % 256
  OBVIOUS
<1>5. PICK c : c = (v \div 65536) % 256
  OBVIOUS
<1>6. v >= 0 => v = a + 256 * (b + 256 * c)
  BY <1>1, <1>3, <1>4, <1>5, SMT
<1>7. v < 0 => v = a + 256 * (b + 256 * (c - 256))
  BY <1>1, <1>3, <1>4, <1>5, SMT
<1>8. v = a + 256 * (b + 256 * c) \/ v = a + 256 * (b + 256 * (c - 256))
  BY <1>1, <1>6, <1>7, SMT
<1>9. a \in Byte /\ b \in Byte /\ c \in Byte
  BY <1>2, <1>3, <1>4, <1>5, SMT
<1>10. Spells(a, b, c, v)
  BY <1>1, <1>8, <1>9, SMT DEF Spells
<1> QED BY <1>3, <1>4, <1>5, <1>10, SMT

\* s24 reads the one number of 24 bits that the bytes spell.
LEMMA ReadsSpelled ==
  ASSUME NEW a \in Byte, NEW b \in Byte, NEW c \in Byte
  PROVE  /\ Bits24(s24(<<a, b, c>>)) /\ Spells(a, b, c, s24(<<a, b, c>>))
         /\ \A v : Bits24(v) /\ Spells(a, b, c, v) => v = s24(<<a, b, c>>)
<1>1. PICK u : u = s24(<<a, b, c>>)
  OBVIOUS
<1>2. a \in Int /\ 0 <= a /\ a <= 255 /\ b \in Int /\ 0 <= b /\ b <= 255
      /\ c \in Int /\ 0 <= c /\ c <= 255
  BY SMT DEF Byte
<1>3. PICK sum \in Int : sum = a + 256 * b + 65536 * c
  BY <1>2, SMT
<1>4. u = IF sum >= 8388608 THEN sum - 2 * 8388608 ELSE sum
  BY <1>1, <1>3 , SMT DEF s24, Full
<1>5. 0 <= sum /\ sum < 16777216
  BY <1>2, <1>3, SMT
<1>6. Bits24(u)
  BY <1>3, <1>4, <1>5, SMT DEF Bits24, Full
<1>7. u \in Int /\ (u = a + 256 * (b + 256 * c) \/ u = a + 256 * (b + 256 * (c - 256)))
  BY <1>2, <1>3, <1>4, SMT
<1>8. Spells(a, b, c, u)
  BY <1>7, SMT DEF Spells
<1>9. ASSUME NEW v, Bits24(v), Spells(a, b, c, v) PROVE v = u
  <2>1. v \in Int /\ -8388608 <= v /\ v < 8388608
    BY <1>9, SMT DEF Bits24, Full
  <2>2. v = sum \/ v = sum - 16777216
    BY <1>2, <1>3, <1>9, <2>1, SMT DEF Spells
  <2> QED BY <1>3, <1>4, <1>5, <2>1, <2>2, SMT
<1> QED BY <1>1, <1>6, <1>8, <1>9, Zenon

LEMMA PutsTriple ==
  ASSUME NEW v, Bits24(v)
  PROVE  put24(v) = <<v % 256, (v \div 256) % 256, (v \div 65536) % 256>>
  BY SMT DEF put24, Within, Full, Bits24

\* A sample is a number of 24 bits, and has its bytes again.
LEMMA SampleBytes ==
  ASSUME NEW p \in Triple
  PROVE  Bits24(s24(p)) /\ put24(s24(p)) = p
<1>1. PICK a \in Byte, b \in Byte, c \in Byte : p = <<a, b, c>>
  BY SMT DEF Triple
<1>2. Bits24(s24(p)) /\ Spells(a, b, c, s24(p))
  BY <1>1, ReadsSpelled, Zenon
<1> QED BY <1>1, <1>2, SpelledOut, PutsTriple

\* The bytes of a number are of the number.
LEMMA BytesOf ==
  ASSUME NEW v, Bits24(v)
  PROVE  put24(v) \in Triple /\ s24(put24(v)) = v
<1>1. PICK a, b, c : put24(v) = <<a, b, c>> /\ Spells(a, b, c, v)
  BY PutsTriple, BytesSpell
<1>2. a \in Byte /\ b \in Byte /\ c \in Byte
  BY <1>1 DEF Spells
<1>3. s24(<<a, b, c>>) = v
  BY <1>1, <1>2, ReadsSpelled, Zenon
<1>4. <<a, b, c>> \in Triple
  BY <1>2 DEF Triple
<1> QED BY <1>1, <1>3, <1>4

\* The number a float becomes.
Cast(x) ==
  LET v == Within(x, -Part * Full, Part * (Full - 1))
  IN  IF v >= 0 THEN v \div Part ELSE -((-v) \div Part)

LEMMA CastNear ==
  ASSUME NEW x \in Int
  PROVE  /\ Bits24(Cast(x)) /\ putf(x) = put24(Cast(x))
         /\ x >= Part * Full => Cast(x) = Full - 1
         /\ x < -Part * Full => Cast(x) = -Full
         /\ -Part * Full <= x /\ x < Part * Full =>
              1 - Part <= x - Part * Cast(x) /\ x - Part * Cast(x) < Part
<1> DEFINE w == Within(x, -Part * Full, Part * (Full - 1))
           v == IF w >= 0 THEN w \div Part ELSE -((-w) \div Part)
<1>1. Cast(x) = v /\ putf(x) = put24(v)
  BY DEF putf, Cast
<1>2. w \in Int /\ -134217728 <= w /\ w <= 134217712
  BY SMT DEF Within, Part, Full
<1>3. w = x \/ (x < -134217728 /\ w = -134217728) \/ (x > 134217712 /\ w = 134217712)
  BY SMT DEF Within, Part, Full
<1> HIDE DEF w
<1>4. Bits24(v)
  BY <1>2, SMT DEF Bits24, Part, Full
<1>5. /\ x >= Part * Full => v = Full - 1
      /\ x < -Part * Full => v = -Full
      /\ -Part * Full <= x /\ x < Part * Full => 1 - Part <= x - Part * v /\ x - Part * v < Part
  BY <1>2, <1>3, SMT DEF Part, Full
<1> HIDE DEF v
<1> QED BY <1>1, <1>4, <1>5, Zenon

SampleInv ==
  /\ step \in {"captured", "taken", "changed", "returned", "muted", "raw"}
  /\ captured \in Triple /\ near \in Int
  /\ step \in {"captured", "taken", "changed"} => bytes = captured
  /\ step = "returned" => bytes = putf(near)

LEMMA SampleInvariant == SampleSpec => []SampleInv
<1>1. SampleInit => SampleInv
  BY SamplesAssumption, SMT DEF SampleInit, SampleInv, Triple
<1>2. SampleInv /\ [SampleNext]_sample_vars => SampleInv'
  <2> SUFFICES ASSUME SampleInv, [SampleNext]_sample_vars PROVE SampleInv'
    OBVIOUS
  <2>1. CASE TakeSample
    <3>1. s24(bytes) \in Int
      BY <2>1, SampleBytes DEF TakeSample, SampleInv, Bits24
    <3>2. s24f(bytes) \in Int
      BY <3>1, SMT DEF s24f, Part
    <3> QED BY <2>1, <3>2, SMT DEF TakeSample, SampleInv
  <2>2. CASE ChangeSample
    BY <2>2, SamplesAssumption, SMT DEF ChangeSample, SampleInv
  <2>3. CASE ReturnSample
    BY <2>3, SMT DEF ReturnSample, SampleInv
  <2>4. CASE NextSample
    BY <2>4, SamplesAssumption, SMT DEF NextSample, SampleInv, Triple
  <2>5. CASE UNCHANGED sample_vars
    BY <2>5, SMT DEF sample_vars, SampleInv
  <2> QED BY <2>1, <2>2, <2>3, <2>4, <2>5 DEF SampleNext
<1> QED BY <1>1, <1>2, PTL DEF SampleSpec

\* Whatever is made of a sample comes back clipped and less than a bit away,
\* and a sample nothing is made of byte for byte.
THEOREM SamplesSurvive == SampleSpec => []SampleKept
<1>1. SampleInv => SampleKept
  <2> SUFFICES ASSUME SampleInv, step = "returned" PROVE SampleKept
    BY DEF SampleKept
  <2>1. captured \in Triple /\ near \in Int /\ bytes = putf(near)
    BY DEF SampleInv
  <2> DEFINE v == Cast(near)
  <2>2. /\ Bits24(v) /\ bytes = put24(v)
        /\ near >= Part * Full => v = Full - 1
        /\ near < -Part * Full => v = -Full
        /\ -Part * Full <= near /\ near < Part * Full =>
             1 - Part <= near - Part * v /\ near - Part * v < Part
    BY <2>1, CastNear
  <2> HIDE DEF v, SampleInv
  <2>3. s24(bytes) = v /\ s24f(bytes) = Part * v
    BY <2>2, BytesOf DEF s24f
  <2>4. ASSUME near = s24f(captured) PROVE bytes = captured
    <3> DEFINE u == s24(captured)
    <3>1. Bits24(u) /\ put24(u) = captured /\ near = Part * u
      BY <2>1, <2>4, SampleBytes DEF s24f
    <3> HIDE DEF u
    <3>2. v = u
      BY <2>2, <3>1, SMT DEF Part, Full, Bits24
    <3> QED BY <2>2, <3>1, <3>2
  <2>5. -Part * Full <= near /\ near < Part * Full =>
          near - s24f(bytes) \in (1 - Part)..(Part - 1)
    <3> SUFFICES ASSUME -Part * Full <= near, near < Part * Full
                 PROVE  near - Part * v \in (1 - Part)..(Part - 1)
      BY <2>3
    <3>1. v \in Int /\ near \in Int
      BY <2>1, <2>2 DEF Bits24
    <3>2. 1 - Part <= near - Part * v /\ near - Part * v < Part
      BY <2>2
    <3> QED BY <3>1, <3>2, SMT DEF Part
  <2> QED BY <2>2, <2>3, <2>4, <2>5, Zenon DEF SampleKept
<1> QED BY <1>1, SampleInvariant, PTL

-----------------------------------------------------------------------------
(* The shim: sessions, queues and threads.                                 *)

USE BlockAssumption, BoundAssumption, NameAssumption

\* A handle is open in the library while a thread has it, only one thread has
\* it, and a thread inside a call has one.
HandlesOwned ==
  /\ \A t \in Threads : held[t] # NoPcm => held[t] \in opened
  /\ \A t, u \in Threads : held[t] = held[u] /\ held[t] # NoPcm => t = u
  /\ \A t \in Threads : pc[t] # "idle" => held[t] # NoPcm

-----------------------------------------------------------------------------
(* The configuration a pcm_open computes is well typed.                    *)

LEMMA SettingsTyped == Settings \subseteq SettingsType
<1> SUFFICES ASSUME NEW p \in Props PROVE read_settings(p) \in SettingsType
  BY DEF Settings
<1>1. p.geom \in Seq(Int) /\ \A n \in DOMAIN p.set : p.set[n] \in Int
  BY PropsAssumption DEF IsStore
<1>2. \A name : property_get_int32(p, name, 0) \in Int
  BY <1>1 DEF property_get_int32
<1>3. property_get_bool(p, "enable", TRUE) \in BOOLEAN
  BY DEF property_get_bool
<1>4. \A v : Bits(v) \in SUBSET Mics
  BY DEF Bits
<1> QED BY <1>1, <1>2, <1>3, <1>4 DEF read_settings, SettingsType

\* At most four microphones, and at least one, are selected.
LEMMA SelectedCount ==
  ASSUME NEW s \in SettingsType
  PROVE  Selected(s) \in SUBSET Mics /\ Cardinality(Selected(s)) \in Nat \ {0}
<1>1. Selected(s) \in SUBSET Mics /\ Selected(s) # {}
  <2>1. s.mics \in SUBSET Mics
    BY DEF SettingsType
  <2>2. 0 \in Mics
    BY DEF Mics
  <2> QED BY <2>1, <2>2 DEF Selected
<1>2. IsFiniteSet(Mics)
  <2>1. 0 \in Int /\ 3 \in Int
    OBVIOUS
  <2>2. IsFiniteSet(0..3)
    BY <2>1, FS_Interval, Zenon
  <2> QED BY <2>2 DEF Mics
<1>3. IsFiniteSet(Selected(s))
  BY <1>1, <1>2, FS_Subset
<1> QED BY <1>1, <1>3, FS_CardinalityType, FS_EmptySet

LEMMA PointsTyped ==
  ASSUME NEW v \in Seq(Int), NEW n \in Nat, Len(v) = 3 * n
  PROVE  Points(v) \in Seq(Point) /\ Len(Points(v)) = n
<1>1. Len(v) \div 3 = n
  OBVIOUS
<1>2. \A i \in 1..n : v[3 * i - 2] \in Int /\ v[3 * i - 1] \in Int /\ v[3 * i] \in Int
  OBVIOUS
<1>3. Points(v) \in [1..n -> Point]
  BY <1>1, <1>2 DEF Points, Point
<1> QED BY <1>3, <1>1 DEF Points

\* The default line has a point for each microphone and none too close.
LEMMA LineUsable ==
  ASSUME NEW n \in Nat
  PROVE  Line2cm(n) \in Seq(Point) /\ Usable(Line2cm(n), n)
<1>1. Line2cm(n) \in [1..n -> Point]
  BY DEF Line2cm, Point
<1> DEFINE points == Line2cm(n)
<1> HIDE DEF points
<1>2. points \in Seq(Point) /\ Len(points) = n
  <2>1. points \in [1..n -> Point]
    BY <1>1 DEF points
  <2> QED BY <2>1
<1>3. ASSUME NEW i \in 1..n, NEW j \in 1..n, i < j
      PROVE  Spaced(Line2cm(n)[i], Line2cm(n)[j])
  <2> DEFINE dx == Line2cm(n)[i].x - Line2cm(n)[j].x
  <2>1. dx = 20 * (i - j)
    BY DEF Line2cm
  <2>2. dx \in Int /\ dx <= -20
    BY <1>3, <2>1
  <2> HIDE DEF dx
  <2>3. dx * dx >= 25
    <3>1. \A a \in Int : a <= -20 => a * a >= 25
      BY Z3
    <3> QED BY <2>2, <3>1
  <2>4. /\ Line2cm(n)[i].y - Line2cm(n)[j].y = 0
        /\ Line2cm(n)[i].z - Line2cm(n)[j].z = 0
    BY DEF Line2cm
  <2> QED BY <2>2, <2>3, <2>4 DEF Spaced, dx
<1> QED BY <1>2, <1>3 DEF Usable, points

LEMMA GeometryUsable ==
  ASSUME NEW s \in SettingsType
  PROVE  /\ build_geometry(Configure(s)) \in Seq(Point)
         /\ Usable(build_geometry(Configure(s)), Cardinality(Configure(s).sel))
<1> DEFINE n == Cardinality(Selected(s))
<1>1. n \in Nat /\ s.geom \in Seq(Int)
  BY SelectedCount DEF SettingsType
<1>2. Configure(s).sel = Selected(s) /\ Configure(s).s = s
  BY DEF Configure
<1> HIDE DEF n
<1>3. build_geometry(Configure(s)) =
        IF Len(s.geom) = 3 * n /\ Usable(Points(s.geom), n) THEN Points(s.geom) ELSE Line2cm(n)
  BY <1>2 DEF build_geometry, n
<1>4. CASE Len(s.geom) = 3 * n /\ Usable(Points(s.geom), n)
  BY <1>1, <1>2, <1>3, <1>4, PointsTyped DEF n
<1>5. CASE ~(Len(s.geom) = 3 * n /\ Usable(Points(s.geom), n))
  BY <1>1, <1>2, <1>3, <1>5, LineUsable DEF n
<1> QED BY <1>4, <1>5

LEMMA ConfigureType ==
  ASSUME NEW s \in Settings
  PROVE  /\ s \in SettingsType
         /\ Configure(s) \in ConfType
         /\ Apms(Configure(s)) \subseteq Apm
         /\ UsesSpeex(Configure(s)) \in BOOLEAN
         /\ build_geometry(Configure(s)) \in Seq(Point)
<1>1. s \in SettingsType
  BY SettingsTyped
<1>2. Selected(s) \subseteq Mics
  BY <1>1, SelectedCount
<1>3. Mode(s) \in 0..2
  <2>1. CASE s.array \in 0..2
    BY <2>1 DEF Mode
  <2>2. CASE s.array \notin 0..2
    BY <2>2 DEF Mode
  <2> QED BY <2>1, <2>2
<1>4. Configure(s) \in ConfType
  BY <1>1, <1>2, <1>3 DEF Configure, ConfType
<1>5. UsesSpeex(Configure(s)) \in BOOLEAN
  BY DEF UsesSpeex
<1>6. Apms(Configure(s)) \subseteq Apm
  <2>1. CASE UsesSpeex(Configure(s))
    BY <2>1 DEF Apms
  <2>2. CASE ~UsesSpeex(Configure(s))
    <3>1. 0 \in Mics /\ 1 \in Nat /\ Cardinality(Selected(s)) \in Nat
      BY <1>1, SelectedCount DEF Mics
    <3>2. \A m \in Mics, n \in Nat, b \in BOOLEAN : make_apm(m, n, b) \in Apm
      BY DEF make_apm, Apm
    <3>3. Configure(s).sel = Selected(s)
      BY DEF Configure
    <3>4. CASE Configure(s).mode = 0
      <4>1. Apms(Configure(s)) = {make_apm(m, 1, FALSE) : m \in Selected(s)}
        BY <2>2, <3>3, <3>4 DEF Apms
      <4> QED BY <1>2, <3>1, <3>2, <4>1
    <3>5. CASE Configure(s).mode # 0
      <4> DEFINE n == IF Configure(s).mode = 2 THEN Cardinality(Selected(s)) ELSE 1
                 b == Configure(s).mode = 2
      <4>1. Apms(Configure(s)) = {make_apm(0, n, b)}
        BY <2>2, <3>3, <3>5 DEF Apms
      <4>2. n \in Nat /\ b \in BOOLEAN
        BY <3>1
      <4> HIDE DEF n, b
      <4> QED BY <3>1, <3>2, <4>1, <4>2
    <3> QED BY <3>4, <3>5
  <2> QED BY <2>1, <2>2
<1> QED BY <1>1, <1>4, <1>5, <1>6, GeometryUsable

LEMMA FrameTypes ==
  /\ \A v \in Frames \cup {Silence} : Raw(v) \in Frame /\ Done(v) \in Frame
  /\ priming \in Seq(Frame) /\ Len(priming) = Block
  /\ <<>> \in Seq(Frame) /\ Len(<<>>) = 0
<1>1. \A v \in Frames \cup {Silence} : Raw(v) \in Frame /\ Done(v) \in Frame
  BY DEF Raw, Done, Frame
<1>2. priming \in [1..Block -> Frame]
  BY <1>1 DEF priming
<1> QED BY <1>1, <1>2 DEF priming

-----------------------------------------------------------------------------
(* Every action preserves the types.                                       *)

\* Unread is a settings record.
LEMMA InitType == Init => TypeOK
<1> SUFFICES ASSUME Init PROVE TypeOK
  OBVIOUS
<1>1. Unread \in SettingsType
  BY DEF Unread, SettingsType, Mics
<1>2. conf \in ConfType
  <2>1. {} \in SUBSET Mics /\ 0 \in 0..2
    OBVIOUS
  <2> QED BY <1>1, <2>1 DEF Init, ConfType
<1>4. buf \in [Threads -> Seq(Frame)] /\ in \in Seq(Frame) /\ out \in Seq(Frame)
  BY FrameTypes DEF Init
<1>5. /\ held \in [Threads -> Handles \cup {NoPcm}]
      /\ pc \in [Threads -> {"idle", "opened", "check", "wait", "blocks", "closing"}]
  BY DEF Init
<1>6. opened \subseteq Handles /\ apm \subseteq Apm
  BY DEF Init
<1>7. lock \in Threads \cup {NoThread} /\ pcm \in Handles \cup {NoPcm} /\ spx \in BOOLEAN
  BY DEF Init
<1>8. geometry \in Seq(Point)
  BY DEF Init
<1> QED BY <1>8, <1>2, <1>4, <1>5, <1>6, <1>7 DEF TypeOK

LEMMA TeardownType ==
  ASSUME teardown_l
  PROVE  /\ pcm' \in Handles \cup {NoPcm} /\ apm' \subseteq Apm /\ spx' \in BOOLEAN
         /\ geometry' \in Seq(Point)
         /\ in' \in Seq(Frame) /\ out' \in Seq(Frame)
<1>1. geometry' \in Seq(Point)
  BY DEF teardown_l
<1> QED BY <1>1, FrameTypes DEF teardown_l

LEMMA StepType == TypeOK /\ [Next]_vars => TypeOK'
<1> SUFFICES ASSUME TypeOK, [Next]_vars PROVE TypeOK'
  OBVIOUS
<1> USE DEF TypeOK
<1>1. ASSUME NEW t \in Threads, OpenReal(t) PROVE TypeOK'
  BY <1>1 DEF OpenReal, Goto, processors
<1>2. ASSUME NEW t \in Threads, OpenDisabled(t) PROVE TypeOK'
  <2>1. conf' \in ConfType
    <3>1. PICK s \in Settings : conf' = [conf EXCEPT !.s = s]
      BY <1>2 DEF OpenDisabled
    <3> QED BY <3>1, ConfigureType DEF ConfType
  <2> QED BY <1>2, <2>1, TeardownType DEF OpenDisabled, EnterOpen, Goto
<1>3. ASSUME NEW t \in Threads, OpenFailed(t) PROVE TypeOK'
  <2>1. conf' \in ConfType
    BY <1>3, ConfigureType DEF OpenFailed
  <2> QED BY <1>3, <2>1, TeardownType DEF OpenFailed, EnterOpen, Goto
<1>4. ASSUME NEW t \in Threads, OpenSession(t) PROVE TypeOK'
  <2>1. /\ conf' \in ConfType
        /\ apm' \subseteq Apm /\ spx' \in BOOLEAN /\ geometry' \in Seq(Point)
    BY <1>4, ConfigureType DEF OpenSession
  <2> QED BY <1>4, <2>1, FrameTypes DEF OpenSession, EnterOpen, Goto
<1>5. ASSUME NEW t \in Threads, ReadReal(t) PROVE TypeOK'
  <2>1. PICK n \in 0..MaxRead : \E vs \in [1..n -> Frames] : \E ragged \in BOOLEAN :
          /\ buf' = [buf EXCEPT ![t] = [i \in 1..n |-> Raw(vs[i])]]
          /\ Goto(t, IF n = 0 \/ ragged THEN "idle" ELSE "check")
    BY <1>5 DEF ReadReal
  <2> PICK vs \in [1..n -> Frames] : \E ragged \in BOOLEAN :
          /\ buf' = [buf EXCEPT ![t] = [i \in 1..n |-> Raw(vs[i])]]
          /\ Goto(t, IF n = 0 \/ ragged THEN "idle" ELSE "check")
    BY <2>1
  <2>2. [i \in 1..n |-> Raw(vs[i])] \in Seq(Frame)
    BY FrameTypes
  <2> QED BY <1>5, <2>1, <2>2 DEF ReadReal, Goto, processors
<1>6. ASSUME NEW t \in Threads, ReadCheck(t) PROVE TypeOK'
  BY <1>6 DEF ReadCheck, Goto, processors
<1>7. ASSUME NEW t \in Threads, ReadEnter(t) PROVE TypeOK'
  <2>1. in \o buf[t] \in Seq(Frame)
    OBVIOUS
  <2>2. CASE held[t] = pcm
    BY <1>7, <2>1, <2>2 DEF ReadEnter, Goto, processors
  <2>3. CASE held[t] # pcm
    BY <1>7, <2>3 DEF ReadEnter, Goto, processors
  <2> QED BY <2>2, <2>3
<1>8. ASSUME NEW t \in Threads, ProcessBlock(t) PROVE TypeOK'
  <2>1. SubSeq(in, 1, Block) \in Seq(Frame) /\ Len(SubSeq(in, 1, Block)) = Block
    BY <1>8 DEF ProcessBlock
  <2>2. ProcessedBlock(SubSeq(in, 1, Block)) \in Seq(Frame)
    <3>1. \A i \in 1..Block : SubSeq(in, 1, Block)[i] \in Frame
      BY <2>1
    <3>2. \A i \in 1..Block : Done(SubSeq(in, 1, Block)[i].v) \in Frame
      BY <3>1 DEF Done, Frame
    <3> QED BY <3>2 DEF ProcessedBlock
  <2>3. out' \in Seq(Frame) /\ in' \in Seq(Frame)
    BY <1>8, <2>2 DEF ProcessBlock
  <2> QED BY <1>8, <2>3 DEF ProcessBlock, client, processors
<1>9. ASSUME NEW t \in Threads, ReadExit(t) PROVE TypeOK'
  <2>1. buf' \in [Threads -> Seq(Frame)] /\ out' \in Seq(Frame)
    <3>1. CASE Len(out) >= Len(buf[t])
      <4>1. /\ SubSeq(out, 1, Len(buf[t])) \in Seq(Frame)
            /\ SubSeq(out, Len(buf[t]) + 1, Len(out)) \in Seq(Frame)
        BY <3>1
      <4>2. /\ buf' = [buf EXCEPT ![t] = SubSeq(out, 1, Len(buf[t]))]
            /\ out' = SubSeq(out, Len(buf[t]) + 1, Len(out))
        BY <1>9, <3>1 DEF ReadExit
      <4> HIDE DEF TypeOK
      <4>3. buf \in [Threads -> Seq(Frame)]
        BY DEF TypeOK
      <4> QED BY <4>1, <4>2, <4>3
    <3>2. CASE ~(Len(out) >= Len(buf[t]))
      BY <1>9, <3>2 DEF ReadExit
    <3> QED BY <3>1, <3>2
  <2> QED BY <1>9, <2>1 DEF ReadExit, Goto, processors
<1>10. ASSUME NEW t \in Threads, CloseShim(t) PROVE TypeOK'
  BY <1>10, TeardownType DEF CloseShim, Goto
<1>11. ASSUME NEW t \in Threads, CloseReal(t) PROVE TypeOK'
  BY <1>11 DEF CloseReal, Goto, processors
<1>12. CASE UNCHANGED vars
  BY <1>12 DEF vars, client, processors
<1> QED
  BY <1>1, <1>2, <1>3, <1>4, <1>5, <1>6, <1>7, <1>8, <1>9, <1>10, <1>11, <1>12
  DEF Next, Open, Read, Close

\* Every variable keeps its type, for every value of the constants.
THEOREM TypeCorrect == Spec => []TypeOK
BY InitType, StepType, PTL DEF Spec
-----------------------------------------------------------------------------
(* The session: one open handle owns it, and what in and out hold together *)
(* is fixed by the priming block and the read in progress.                 *)

\* The inductive invariant.  SessionHandleOpen needs that handles are not
\* shared; Conserved needs that the lock keeps the session, and what the
\* reader brought, in place while the block loop runs.
SessionInv ==
  /\ TypeOK
  /\ HandlesOwned
  /\ LoopOwnsSession
  /\ SessionHandleOpen
  /\ Conserved
  /\ NothingLeftBehind

LEMMA SessionInit == Init => SessionInv
<1> SUFFICES ASSUME Init PROVE SessionInv
  OBVIOUS
<1>1. TypeOK
  BY InitType
<1>2. HandlesOwned
  BY DEF Init, HandlesOwned
<1>3. LoopOwnsSession
  BY DEF Init, LoopOwnsSession
<1>4. SessionHandleOpen /\ Conserved /\ NothingLeftBehind
  BY DEF Init, SessionHandleOpen, Conserved, NothingLeftBehind
<1> QED BY <1>1, <1>2, <1>3, <1>4 DEF SessionInv

\* Handles: only OpenReal and CloseReal change who holds what.
LEMMA StepHandles == SessionInv /\ [Next]_vars => HandlesOwned'
<1> SUFFICES ASSUME SessionInv, [Next]_vars PROVE HandlesOwned'
  OBVIOUS
<1> USE DEF SessionInv, TypeOK, HandlesOwned, Goto
<1>1. ASSUME NEW t \in Threads, OpenReal(t) PROVE HandlesOwned'
  <2>1. PICK h \in Handles \ opened :
          opened' = opened \cup {h} /\ held' = [held EXCEPT ![t] = h]
    BY <1>1 DEF OpenReal
  <2>2. \A u \in Threads : held[u] # h
    BY <2>1
  <2> QED BY <1>1, <2>1, <2>2 DEF OpenReal
<1>2. ASSUME NEW t \in Threads,
             OpenDisabled(t) \/ OpenFailed(t) \/ OpenSession(t)
      PROVE HandlesOwned'
  BY <1>2 DEF OpenDisabled, OpenFailed, OpenSession, EnterOpen
<1>3. ASSUME NEW t \in Threads, ReadReal(t) PROVE HandlesOwned'
  BY <1>3 DEF ReadReal
<1>4. ASSUME NEW t \in Threads,
             ReadCheck(t) \/ ReadEnter(t) \/ ReadExit(t)
      PROVE HandlesOwned'
  BY <1>4 DEF ReadCheck, ReadEnter, ReadExit
<1>5. ASSUME NEW t \in Threads, ProcessBlock(t) PROVE HandlesOwned'
  BY <1>5 DEF ProcessBlock, client
<1>6. ASSUME NEW t \in Threads, CloseShim(t) PROVE HandlesOwned'
  BY <1>6 DEF CloseShim
<1>7. ASSUME NEW t \in Threads, CloseReal(t) PROVE HandlesOwned'
  BY <1>7 DEF CloseReal
<1>8. CASE UNCHANGED vars
  BY <1>8 DEF vars, client
<1> QED BY <1>1, <1>2, <1>3, <1>4, <1>5, <1>6, <1>7, <1>8 DEF Next, Open, Read, Close

\* The mutex and the session: an action that changes g.pcm finds g.lock free,
\* so no thread is in the block loop.
LEMMA StepSession ==
  SessionInv /\ [Next]_vars => LoopOwnsSession' /\ SessionHandleOpen' /\ NothingLeftBehind'
<1> DEFINE Good == LoopOwnsSession /\ SessionHandleOpen /\ NothingLeftBehind
<1> SUFFICES ASSUME SessionInv, [Next]_vars PROVE Good'
  OBVIOUS
<1> USE DEF SessionInv, TypeOK, HandlesOwned, LoopOwnsSession, SessionHandleOpen,
            NothingLeftBehind, Goto, processors
<1>1. ASSUME NEW t \in Threads, OpenReal(t) PROVE Good'
  <2>1. PICK h \in Handles \ opened :
          opened' = opened \cup {h} /\ held' = [held EXCEPT ![t] = h]
    BY <1>1 DEF OpenReal
  <2> QED BY <1>1, <2>1 DEF OpenReal
<1>2. ASSUME NEW t \in Threads, OpenDisabled(t) \/ OpenFailed(t) PROVE Good'
  BY <1>2 DEF OpenDisabled, OpenFailed, EnterOpen, teardown_l
<1>3. ASSUME NEW t \in Threads, OpenSession(t) PROVE Good'
  BY <1>3 DEF OpenSession, EnterOpen
<1>4. ASSUME NEW t \in Threads, ReadReal(t) PROVE Good'
  BY <1>4 DEF ReadReal
<1>5. ASSUME NEW t \in Threads, ReadCheck(t) PROVE Good'
  BY <1>5 DEF ReadCheck
<1>6. ASSUME NEW t \in Threads, ReadEnter(t) PROVE Good'
  <2>1. CASE held[t] = pcm
    <3>1. pcm # NoPcm /\ lock' = t /\ pc' = [pc EXCEPT ![t] = "blocks"]
      BY <1>6, <2>1 DEF ReadEnter
    <3> QED BY <1>6, <2>1, <3>1 DEF ReadEnter
  <2>2. CASE held[t] # pcm
    <3>1. pc' = [pc EXCEPT ![t] = "idle"] /\ in' = in /\ lock' = lock
      BY <1>6, <2>2 DEF ReadEnter
    <3> QED BY <1>6, <2>2, <3>1 DEF ReadEnter
  <2> QED BY <2>1, <2>2
<1>7. ASSUME NEW t \in Threads, ProcessBlock(t) PROVE Good'
  BY <1>7 DEF ProcessBlock, client
<1>8. ASSUME NEW t \in Threads, ReadExit(t) PROVE Good'
  BY <1>8 DEF ReadExit
<1>9. ASSUME NEW t \in Threads, CloseShim(t) PROVE Good'
  BY <1>9 DEF CloseShim, teardown_l
<1>10. ASSUME NEW t \in Threads, CloseReal(t) PROVE Good'
  BY <1>10 DEF CloseReal
<1>11. CASE UNCHANGED vars
  BY <1>11 DEF vars, client
<1> QED BY <1>1, <1>2, <1>3, <1>4, <1>5, <1>6, <1>7, <1>8, <1>9, <1>10, <1>11
        DEF Next, Open, Read, Close

\* The lengths: a read brings Len(buf) frames into in, a block moves Block
\* frames from in to out, and the exit takes Len(buf) frames out again.
LEMMA StepConserved == SessionInv /\ [Next]_vars => Conserved'
<1> SUFFICES ASSUME SessionInv, [Next]_vars PROVE Conserved'
  OBVIOUS
<1> USE DEF SessionInv, Conserved, Goto
<1>1. ASSUME NEW t \in Threads, OpenReal(t) \/ ReadCheck(t) \/ CloseReal(t)
      PROVE Conserved'
  BY <1>1 DEF OpenReal, ReadCheck, CloseReal
<1>2. ASSUME NEW t \in Threads, OpenDisabled(t) \/ OpenFailed(t) PROVE Conserved'
  BY <1>2 DEF OpenDisabled, OpenFailed, teardown_l
<1>3. ASSUME NEW t \in Threads, OpenSession(t) PROVE Conserved'
  <2>1. in' = <<>> /\ out' = priming /\ lock' = NoThread
    BY <1>3 DEF OpenSession, EnterOpen
  <2> QED BY <2>1, FrameTypes
<1>4. ASSUME NEW t \in Threads, ReadReal(t) PROVE Conserved'
  <2>1. lock # NoThread => lock # t
    BY <1>4 DEF ReadReal, LoopOwnsSession
  <2>2. lock # NoThread => buf'[lock] = buf[lock]
    BY <1>4, <2>1 DEF ReadReal, TypeOK
  <2> QED BY <1>4, <2>2 DEF ReadReal
<1>5. ASSUME NEW t \in Threads, ReadEnter(t) PROVE Conserved'
  <2>1. CASE held[t] = pcm
    <3>1. lock = NoThread /\ lock' = t /\ in' = in \o buf[t]
      BY <1>5, <2>1 DEF ReadEnter
    <3>2. out' = out /\ buf' = buf /\ pcm' = pcm
      BY <1>5 DEF ReadEnter
    <3>3. Len(in \o buf[t]) = Len(in) + Len(buf[t])
      BY DEF TypeOK
    <3>4. Len(in) \in Nat /\ Len(out) \in Nat /\ Len(buf[t]) \in Nat
      BY DEF TypeOK
    <3>5. t # NoThread
      OBVIOUS
    <3>6. pcm # NoPcm => Len(in) + Len(out) = Block
      BY <3>1
    <3>7. Len(in') = Len(in) + Len(buf[t])
      BY <3>1, <3>3
    <3>8. (IF lock' = NoThread THEN 0 ELSE Len(buf'[lock'])) = Len(buf[t])
      BY <3>1, <3>2, <3>5
    <3>9. pcm # NoPcm => Len(in') + Len(out') = Block + Len(buf[t])
      BY <3>2, <3>4, <3>6, <3>7
    <3> QED BY <3>2, <3>8, <3>9
  <2>2. CASE held[t] # pcm
    BY <1>5, <2>2 DEF ReadEnter
  <2> QED BY <2>1, <2>2
<1>6. ASSUME NEW t \in Threads, ProcessBlock(t) PROVE Conserved'
  <2>1. /\ out' = out \o ProcessedBlock(SubSeq(in, 1, Block))
        /\ in' = SubSeq(in, Block + 1, Len(in))
        /\ Len(in) >= Block
        /\ pcm' = pcm /\ lock' = lock /\ buf' = buf
    BY <1>6 DEF ProcessBlock, client
  <2>2. Len(ProcessedBlock(SubSeq(in, 1, Block))) = Block
    BY DEF ProcessedBlock
  <2>3. ProcessedBlock(SubSeq(in, 1, Block)) \in Seq(Frame)
    <3>1. \A i \in 1..Block : SubSeq(in, 1, Block)[i] \in Frame
      BY <2>1 DEF TypeOK
    <3>2. \A i \in 1..Block : Done(SubSeq(in, 1, Block)[i].v) \in Frame
      BY <3>1 DEF Done, Frame
    <3> QED BY <3>2 DEF ProcessedBlock
  <2>4. Len(out') = Len(out) + Block
    <3>1. out \in Seq(Frame)
      BY DEF TypeOK
    <3> DEFINE done == ProcessedBlock(SubSeq(in, 1, Block))
    <3>2. done \in Seq(Frame) /\ Len(done) = Block
      BY <2>2, <2>3
    <3> HIDE DEF done
    <3>3. Len(out \o done) = Len(out) + Len(done)
      BY <3>1, <3>2
    <3> QED BY <2>1, <3>2, <3>3 DEF done
  <2>5. Len(in') = Len(in) - Block
    BY <2>1 DEF TypeOK
  <2>6. Len(in) \in Nat /\ Len(out) \in Nat
    BY DEF TypeOK
  <2>7. Len(in') + Len(out') = Len(in) + Len(out)
    BY <2>4, <2>5, <2>6
  <2> QED BY <2>1, <2>7
<1>7. ASSUME NEW t \in Threads, ReadExit(t) PROVE Conserved'
  <2>1. lock = t /\ pcm # NoPcm
    BY <1>7 DEF ReadExit, LoopOwnsSession, HandlesOwned
  <2>2. Len(in) + Len(out) = Block + Len(buf[t]) /\ Len(in) < Block
    BY <1>7, <2>1 DEF ReadExit
  <2>3. Len(in) \in Nat /\ Len(out) \in Nat /\ Len(buf[t]) \in Nat
    BY DEF TypeOK
  <2>4. Len(out) >= Len(buf[t])
    BY <2>2, <2>3
  <2>5. out' = SubSeq(out, Len(buf[t]) + 1, Len(out)) /\ in' = in /\ lock' = NoThread
    BY <1>7, <2>4 DEF ReadExit
  <2>6. Len(out') = Len(out) - Len(buf[t])
    BY <2>3, <2>4, <2>5 DEF TypeOK
  <2> QED BY <2>2, <2>3, <2>5, <2>6
<1>8. ASSUME NEW t \in Threads, CloseShim(t) PROVE Conserved'
  BY <1>8 DEF CloseShim, teardown_l
<1>9. CASE UNCHANGED vars
  BY <1>9 DEF vars, client
<1> QED BY <1>1, <1>2, <1>3, <1>4, <1>5, <1>6, <1>7, <1>8, <1>9
        DEF Next, Open, Read, Close

LEMMA SessionInvariant == Spec => []SessionInv
<1>1. SessionInv /\ [Next]_vars => SessionInv'
  BY StepType, StepHandles, StepSession, StepConserved DEF SessionInv
<1> QED BY SessionInit, <1>1, PTL DEF Spec

\* g.lock and the session: the thread in the block loop owns both.
THEOREM LoopOwnership == Spec => []LoopOwnsSession
BY SessionInvariant, PTL DEF SessionInv

\* The session belongs to an open handle that its thread is not closing.
THEOREM HandleOpen == Spec => []SessionHandleOpen
BY SessionInvariant, PTL DEF SessionInv

\* in and out hold the priming block and the read in progress, no more.
THEOREM Conservation == Spec => []Conserved
BY SessionInvariant, PTL DEF SessionInv

\* A session that ended left nothing behind.
THEOREM CleanTeardown == Spec => []NothingLeftBehind
BY SessionInvariant, PTL DEF SessionInv

\* amznaec_shim.cpp:568: out always holds what the caller asked for, for any
\* block length and any sequence of read lengths.
THEOREM UnderrunUnreachable == Spec => []NoUnderrun
<1>1. SessionInv => NoUnderrun
  <2> SUFFICES ASSUME SessionInv, NEW t \in Threads, pc[t] = "blocks", Len(in) < Block
               PROVE  Len(out) >= Len(buf[t])
    BY DEF NoUnderrun
  <2>1. lock = t /\ lock # NoThread /\ pcm # NoPcm
    BY DEF SessionInv, LoopOwnsSession, HandlesOwned
  <2>2. Len(in) + Len(out) = Block + Len(buf[t])
    BY <2>1 DEF SessionInv, Conserved
  <2>3. Len(in) \in Nat /\ Len(out) \in Nat /\ Len(buf[t]) \in Nat
    BY DEF SessionInv, TypeOK
  <2> QED BY <2>2, <2>3
<1> QED BY SessionInvariant, <1>1, PTL

\* A session has what pcm_open made from some settings it read.
FromSettings ==
  pcm # NoPcm =>
    \E s \in Settings :
      /\ conf = Configure(s)
      /\ apm = Apms(conf)
      /\ spx = UsesSpeex(conf)
      /\ geometry = build_geometry(conf)

LEMMA FirstSelected ==
  ASSUME NEW S \in SUBSET Mics, S # {}
  PROVE  First(S) \in S /\ \A k \in S : First(S) <= k
<1>1. \E m \in S : \A k \in S : m <= k
  <2>1. CASE 0 \in S
    BY <2>1 DEF Mics
  <2>2. CASE 0 \notin S /\ 1 \in S
    BY <2>2 DEF Mics
  <2>3. CASE 0 \notin S /\ 1 \notin S /\ 2 \in S
    BY <2>3 DEF Mics
  <2>4. CASE 0 \notin S /\ 1 \notin S /\ 2 \notin S
    <3>1. \A k \in S : k = 3
      BY <2>4 DEF Mics
    <3> QED BY <3>1
  <2> QED BY <2>1, <2>2, <2>3, <2>4
<1> QED BY <1>1 DEF First

\* What process_block_l needs of a configuration's processors.
Serves(c, a, x) ==
  /\ \A r \in run_apms(c, a, x) : \E m \in a :
       m.mic = r.mic /\ m.channels = r.channels /\ (m.beamform <=> c.mode = 2)
  /\ IF x THEN a = {} /\ c.mode # 2 ELSE c.mode = 0 => Made(a) = c.sel
  /\ Replaced(c, a, x) = OutputFor(c) /\ Processed(c, a, x) = OutputFor(c)

\* A configuration's processors are those its blocks run.
LEMMA BlockServed ==
  ASSUME NEW s \in SettingsType,
         NEW c, c = Configure(s),
         NEW a, a = Apms(c), NEW x \in BOOLEAN, x <=> UsesSpeex(c)
  PROVE  Serves(c, a, x)
<1>1. c.sel \in SUBSET Mics /\ c.sel # {} /\ c.mode \in 0..2
  <2>1. c.sel = Selected(s) /\ c.mode = Mode(s)
    BY DEF Configure
  <2>2. Selected(s) # {}
    BY SelectedCount, FS_EmptySet
  <2>3. Mode(s) \in 0..2
    BY DEF Mode
  <2> QED BY <2>1, <2>2, <2>3, SelectedCount
<1>2. CASE x
  <2>0. a = {}
    BY <1>2 DEF Apms
  <2>1. a = {} /\ c.mode \in {0, 1}
    <3>1. c.mode # 2
      BY <1>2 DEF UsesSpeex
    <3> QED BY <1>1, <2>0, <3>1
  <2>2. RunBySpeex(c, x)
    BY <1>2, <2>1 DEF RunBySpeex
  <2>3. run_apms(c, a, x) = {} /\ Made(a) = {}
    BY <2>1, <2>2 DEF run_apms, Made
  <2>4. OutputFor(c) = IF c.mode = 0 THEN {First(c.sel)} ELSE {0}
    <3>1. First(c.sel) \in c.sel /\ \A k \in c.sel : First(c.sel) <= k
      BY <1>1, FirstSelected
    <3>2. \A m \in c.sel : (\A k \in c.sel : m <= k) => m = First(c.sel)
      BY <1>1, <3>1 DEF Mics
    <3>3. c.s.engine = 1
      BY <1>2 DEF UsesSpeex
    <3> QED BY <3>1, <3>2, <3>3 DEF OutputFor
  <2>5. Replaced(c, a, x) = OutputFor(c)
    BY <2>2, <2>4 DEF Replaced
  <2>6. Processed(c, a, x) = OutputFor(c)
    <3>1. First(c.sel) \in Mics
      BY <1>1, FirstSelected
    <3> QED BY <1>2, <2>3, <2>4, <3>1 DEF Processed
  <2>7. c.mode # 2
    BY <2>1
  <2> QED BY <1>2, <2>1, <2>3, <2>5, <2>6, <2>7 DEF Serves
<1>3. CASE ~x /\ c.mode = 0
  <2>1. a = {make_apm(m, 1, FALSE) : m \in c.sel}
    BY <1>3 DEF Apms
  <2>2. Made(a) = c.sel
    <3>1. Made(a) = {m.mic : m \in a}
      BY DEF Made
    <3>2. ASSUME NEW k \in c.sel PROVE k \in Made(a)
      <4>1. make_apm(k, 1, FALSE) \in a
        BY <2>1
      <4>2. make_apm(k, 1, FALSE).mic = k
        BY DEF make_apm
      <4> QED BY <3>1, <4>1, <4>2, Zenon
    <3>3. ASSUME NEW k \in Made(a) PROVE k \in c.sel
      <4>1. PICK y \in a : k = y.mic
        BY <3>1
      <4>2. PICK m \in c.sel : y = make_apm(m, 1, FALSE)
        BY <2>1
      <4> QED BY <4>1, <4>2 DEF make_apm
    <3> QED BY <3>2, <3>3
  <2>3. ~RunBySpeex(c, x)
    BY <1>3 DEF RunBySpeex
  <2>4. run_apms(c, a, x) = {[mic |-> m, channels |-> 1] : m \in c.sel}
    BY <1>3, <2>2, <2>3 DEF run_apms
  <2>5. \A r \in run_apms(c, a, x) : \E m \in a :
          m.mic = r.mic /\ m.channels = r.channels /\ m.beamform = FALSE
    <3> SUFFICES ASSUME NEW r \in run_apms(c, a, x)
                 PROVE  \E m \in a : m.mic = r.mic /\ m.channels = r.channels /\ m.beamform = FALSE
      OBVIOUS
    <3>1. PICK k \in c.sel : r = [mic |-> k, channels |-> 1]
      BY <2>4
    <3>2. make_apm(k, 1, FALSE) \in a
      BY <2>1
    <3>3. r.mic = k /\ r.channels = 1
      BY <3>1
    <3> DEFINE it == make_apm(k, 1, FALSE)
    <3>4. it.mic = k /\ it.channels = 1 /\ it.beamform = FALSE
      BY DEF make_apm
    <3>5. it \in a
      BY <3>2
    <3> HIDE DEF it
    <3> QED BY <3>3, <3>4, <3>5
  <2>6. Replaced(c, a, x) = c.sel
    <3>1. Replaced(c, a, x) = {r.mic : r \in {[mic |-> m, channels |-> 1] : m \in c.sel}}
      BY <2>3, <2>4 DEF Replaced
    <3>2. ASSUME NEW k \in c.sel PROVE k \in Replaced(c, a, x)
      <4> DEFINE r == [mic |-> k, channels |-> 1]
      <4>1. r \in {[mic |-> m, channels |-> 1] : m \in c.sel} /\ r.mic = k
        OBVIOUS
      <4> HIDE DEF r
      <4> QED BY <3>1, <4>1, Zenon
    <3>3. ASSUME NEW k \in Replaced(c, a, x) PROVE k \in c.sel
      <4>1. PICK r \in {[mic |-> m, channels |-> 1] : m \in c.sel} : k = r.mic
        BY <3>1
      <4> QED BY <4>1
    <3> QED BY <3>2, <3>3
  <2>7. Processed(c, a, x) = c.sel
    BY <1>1, <1>3, <2>2 DEF Processed
  <2>8. OutputFor(c) = c.sel
    <3>1. c.s.engine # 1
      BY <1>3 DEF UsesSpeex
    <3> QED BY <1>3, <3>1 DEF OutputFor
  <2> QED BY <1>3, <2>2, <2>5, <2>6, <2>7, <2>8 DEF Serves
<1>4. CASE ~x /\ c.mode # 0
  <2> DEFINE n == IF c.mode = 2 THEN Cardinality(c.sel) ELSE 1
  <2>1. a = {make_apm(0, n, c.mode = 2)}
    BY <1>4 DEF Apms
  <2>2. ~RunBySpeex(c, x)
    BY <1>4 DEF RunBySpeex
  <2>3. n = IF c.mode = 1 THEN 1 ELSE Cardinality(c.sel)
    BY <1>1, <1>4
  <2>4. run_apms(c, a, x) = {[mic |-> 0, channels |-> n]}
    BY <1>4, <2>2, <2>3 DEF run_apms
  <2> HIDE DEF n
  <2>5. \A r \in run_apms(c, a, x) : \E m \in a :
          m.mic = r.mic /\ m.channels = r.channels /\ (m.beamform <=> c.mode = 2)
    <3>1. make_apm(0, n, c.mode = 2) \in a
      BY <2>1
    <3> DEFINE it == make_apm(0, n, c.mode = 2)
    <3>2. it.mic = 0 /\ it.channels = n /\ (it.beamform <=> c.mode = 2)
      BY DEF make_apm
    <3>3. it \in a
      BY <3>1
    <3> HIDE DEF it
    <3> QED BY <2>4, <3>2, <3>3
  <2>6. Replaced(c, a, x) = {0} /\ Processed(c, a, x) = {0} /\ OutputFor(c) = {0}
    BY <1>4, <2>2, <2>4 DEF Replaced, Processed, OutputFor
  <2> QED BY <1>4, <2>5, <2>6 DEF Serves
<1> QED BY <1>2, <1>3, <1>4

LEMMA MadeReady == FromSettings => ProcessorsReady
<1> SUFFICES ASSUME FromSettings, pcm # NoPcm PROVE ProcessorsReady
  BY DEF ProcessorsReady
<1>1. PICK s \in Settings : /\ conf = Configure(s) /\ apm = Apms(conf)
                            /\ spx = UsesSpeex(conf) /\ geometry = build_geometry(conf)
  BY DEF FromSettings
<1>2. s \in SettingsType
  BY SettingsTyped
<1>3. conf.sel = Selected(s) /\ conf.mode = Mode(s)
  BY <1>1 DEF Configure
<1>4. Cardinality(conf.sel) \in Nat
  BY <1>2, <1>3, SelectedCount
<1>5. conf.mode # 0 => Cardinality(conf.sel) >= 2
  <2>1. conf.mode # 0 => ~(Cardinality(conf.sel) < 2)
    BY <1>3 DEF Mode
  <2> QED BY <1>4, <2>1
<1>6. Usable(geometry, Cardinality(conf.sel))
  BY <1>1, <1>2, GeometryUsable
<1>7. Serves(conf, apm, spx)
  <2>1. spx \in BOOLEAN /\ (spx <=> UsesSpeex(conf))
    BY <1>1 DEF UsesSpeex
  <2> QED BY <1>1, <1>2, <2>1, BlockServed
<1>8. \A m \in Mics : Returned(conf, apm, spx, m) = Due(conf, m)
  BY <1>7 DEF Serves, Returned, Due
<1> QED BY <1>5, <1>6, <1>7, <1>8 DEF ProcessorsReady, Serves

LEMMA StepMade == FromSettings /\ [Next]_vars => FromSettings'
<1> SUFFICES ASSUME FromSettings, [Next]_vars PROVE FromSettings'
  OBVIOUS
<1> USE DEF FromSettings
<1>1. ASSUME NEW t \in Threads, OpenDisabled(t) \/ OpenFailed(t) PROVE FromSettings'
  BY <1>1 DEF OpenDisabled, OpenFailed, teardown_l
<1>2. ASSUME NEW t \in Threads, OpenSession(t) PROVE FromSettings'
  BY <1>2 DEF OpenSession
<1>3. ASSUME NEW t \in Threads, OpenReal(t) \/ Read(t) \/ CloseReal(t) PROVE FromSettings'
  BY <1>3 DEF OpenReal, Read, ReadReal, ReadCheck, ReadEnter, ProcessBlock, ReadExit,
              CloseReal, processors
<1>4. ASSUME NEW t \in Threads, CloseShim(t) PROVE FromSettings'
  BY <1>4 DEF CloseShim, teardown_l
<1>5. CASE UNCHANGED vars
  BY <1>5 DEF vars, processors
<1> QED BY <1>1, <1>2, <1>3, <1>4, <1>5 DEF Next, Open, Close

\* Every processor a block needs is there, for any property store: the mode is
\* validated against the microphones, and the geometry against the beamformer.
\* Each microphone's channel then comes back as the settings have it: silent,
\* processed or untouched.
THEOREM ReadyToProcess == Spec => []ProcessorsReady
<1>1. Init => FromSettings
  BY DEF Init, FromSettings
<1> QED BY <1>1, StepMade, MadeReady, PTL DEF Spec

\* A session ends by its own handle's close or by an open, in every step.
THEOREM SessionEnd == Spec => EndedByOwnerOrOpen
<1> DEFINE Ended == pcm # NoPcm /\ pcm' # pcm =>
      \E t \in Threads : \/ held[t] = pcm /\ pc'[t] = "closing"
                         \/ pc[t] = "opened" /\ pc'[t] = "idle"
<1>1. TypeOK /\ [Next]_vars => [Ended]_vars
  <2> SUFFICES ASSUME TypeOK, Next, pcm # NoPcm, pcm' # pcm PROVE Ended
    BY DEF vars
  <2> USE DEF Goto, TypeOK
  <2>1. ASSUME NEW t \in Threads, Open(t) PROVE Ended
    BY <2>1 DEF Open, OpenReal, OpenDisabled, OpenFailed, OpenSession, EnterOpen
  <2>2. ASSUME NEW t \in Threads, Read(t) PROVE Ended
    BY <2>2 DEF Read, ReadReal, ReadCheck, ReadEnter, ProcessBlock, ReadExit
  <2>3. ASSUME NEW t \in Threads, Close(t) PROVE Ended
    BY <2>3 DEF Close, CloseShim, CloseReal
  <2> QED BY <2>1, <2>2, <2>3 DEF Next
<1> QED BY TypeCorrect, <1>1, PTL DEF Spec, EndedByOwnerOrOpen

\* g.lock is given back: while it is held in, no block, and nothing of the reader's
\* is touched by anybody but its holder, who either has a block less before it or
\* leaves; and it never has more before it than a block and what it read, so a
\* read of n frames makes at most n \div Block + 1 rounds (amznaec_shim.cpp:553-580).
\* It is the safety half of LockReleased.
THEOREM LoopRunsDown ==
  Spec => /\ [](lock # NoThread => Len(in) <= Block + Len(buf[lock]))
          /\ [][lock # NoThread =>
                  \/ lock' = NoThread
                  \/ /\ lock' = lock /\ buf'[lock] = buf[lock]
                     /\ Len(in') = Len(in) - Block \/ UNCHANGED <<in, out>>]_vars
<1> DEFINE Lowers == lock # NoThread =>
                       \/ lock' = NoThread
                       \/ /\ lock' = lock /\ buf'[lock] = buf[lock]
                          /\ Len(in') = Len(in) - Block \/ UNCHANGED <<in, out>>
<1>1. ASSUME SessionInv, lock # NoThread PROVE Len(in) <= Block + Len(buf[lock])
  <2>1. lock \in Threads /\ pc[lock] = "blocks" /\ pcm = held[lock]
    BY <1>1 DEF SessionInv, TypeOK, LoopOwnsSession
  <2>2. pcm # NoPcm
    BY <1>1, <2>1 DEF SessionInv, HandlesOwned
  <2>3. Len(in) \in Nat /\ Len(out) \in Nat /\ Len(buf[lock]) \in Nat
    BY <1>1, <2>1 DEF SessionInv, TypeOK
  <2>4. Len(in) + Len(out) = Block + Len(buf[lock])
    BY <1>1, <2>2 DEF SessionInv, Conserved
  <2> QED BY <2>3, <2>4
<1>2. ASSUME SessionInv, [Next]_vars PROVE [Lowers]_vars
  <2> SUFFICES ASSUME Next, lock # NoThread
               PROVE  Lowers
    BY <1>2
  <2>1. /\ in \in Seq(Frame) /\ buf \in [Threads -> Seq(Frame)]
        /\ \A t \in Threads : pc[t] = "blocks" => lock = t
    BY <1>2 DEF SessionInv, TypeOK, LoopOwnsSession
  <2>1a. \A t \in Threads : pc[t] # "blocks" => lock # t
    BY <1>2 DEF SessionInv, LoopOwnsSession
  <2>2. ASSUME NEW t \in Threads, Open(t) PROVE Lowers
    BY <2>2 DEF Open, OpenReal, OpenDisabled, OpenFailed, OpenSession, EnterOpen
  <2>3. ASSUME NEW t \in Threads, ReadReal(t) PROVE Lowers
    <3>1. lock # t
      BY <2>1a, <2>3 DEF ReadReal
    <3>2. buf'[lock] = buf[lock]
      BY <2>1, <2>3, <3>1 DEF ReadReal
    <3> QED BY <2>3, <3>2 DEF ReadReal
  <2>4. ASSUME NEW t \in Threads, ReadCheck(t) \/ ReadEnter(t) PROVE Lowers
    BY <2>4 DEF ReadCheck, ReadEnter
  <2>5. ASSUME NEW t \in Threads, ProcessBlock(t) PROVE Lowers
    <3>1. /\ in' = SubSeq(in, Block + 1, Len(in)) /\ Len(in) >= Block
          /\ lock' = lock /\ buf' = buf
      BY <2>5 DEF ProcessBlock, client
    <3>2. Len(in') = Len(in) - Block
      BY <2>1, <3>1
    <3> QED BY <3>1, <3>2
  <2>6. ASSUME NEW t \in Threads, ReadExit(t) PROVE Lowers
    BY <2>6 DEF ReadExit
  <2>7. ASSUME NEW t \in Threads, Close(t) PROVE Lowers
    BY <2>7 DEF Close, CloseShim, CloseReal
  <2> QED BY <2>2, <2>3, <2>4, <2>5, <2>6, <2>7 DEF Next, Read
<1> QED BY <1>1, <1>2, SessionInvariant, PTL DEF Spec

-----------------------------------------------------------------------------
(* AmznAec implements DelayLine: the session's owner gets its frames back   *)
(* processed, in order and one block late.                                 *)

\* Everything that waits in out went through process_block_l.
OutProcessed == \A i \in 1..Len(out) : out[i].done = TRUE

LineInv == SessionInv /\ OutProcessed

-----------------------------------------------------------------------------
(* The values of a queue of frames.                                        *)

LEMMA ValuesType ==
  ASSUME NEW fs \in Seq(Frame)
  PROVE  /\ FrameValues(fs) \in Seq(Frames \cup {Silence})
         /\ Len(FrameValues(fs)) = Len(fs)
         /\ \A i \in 1..Len(fs) : FrameValues(fs)[i] = fs[i].v
<1>1. \A i \in 1..Len(fs) : fs[i].v \in Frames \cup {Silence}
  <2>1. \A i \in 1..Len(fs) : fs[i] \in Frame
    OBVIOUS
  <2> QED BY <2>1 DEF Frame
<1>2. FrameValues(fs) \in [1..Len(fs) -> Frames \cup {Silence}]
  BY <1>1 DEF FrameValues
<1>3. Len(fs) \in Nat
  OBVIOUS
<1> QED BY <1>2, <1>3 DEF FrameValues

LEMMA ValuesOfConcatenation ==
  ASSUME NEW fs \in Seq(Frame), NEW gs \in Seq(Frame)
  PROVE  FrameValues(fs \o gs) = FrameValues(fs) \o FrameValues(gs)
<1> DEFINE whole == fs \o gs
<1>1. whole \in Seq(Frame) /\ Len(whole) = Len(fs) + Len(gs)
  OBVIOUS
<1>2. /\ \A i \in 1..Len(fs) : whole[i] = fs[i]
      /\ \A i \in 1..Len(gs) : whole[Len(fs) + i] = gs[i]
  OBVIOUS
<1> HIDE DEF whole
<1> DEFINE F == FrameValues(fs)
           G == FrameValues(gs)
           W == FrameValues(whole)
           V0 == Frames \cup {Silence}
<1>3. /\ F \in Seq(V0) /\ Len(F) = Len(fs)
      /\ \A i \in 1..Len(fs) : F[i] = fs[i].v
  BY ValuesType
<1>4. /\ G \in Seq(V0) /\ Len(G) = Len(gs)
      /\ \A i \in 1..Len(gs) : G[i] = gs[i].v
  BY ValuesType
<1>5. /\ W \in Seq(V0) /\ Len(W) = Len(fs) + Len(gs)
      /\ \A i \in 1..Len(whole) : W[i] = whole[i].v
  BY <1>1, ValuesType
<1> HIDE DEF F, G, W, V0
<1>6. /\ F \o G \in Seq(V0)
      /\ Len(F \o G) = Len(F) + Len(G)
      /\ \A i \in 1..Len(F) + Len(G) :
           (F \o G)[i] = IF i <= Len(F) THEN F[i] ELSE G[i - Len(F)]
  <2>1. F \in Seq(V0) /\ G \in Seq(V0)
    BY <1>3, <1>4
  <2> QED BY <2>1, ConcatProperties, Zenon
<1>7. ASSUME NEW i \in 1..Len(W) PROVE W[i] = (F \o G)[i]
  <2>0. Len(fs) \in Nat /\ Len(gs) \in Nat /\ i \in 1..Len(fs) + Len(gs)
    BY <1>5
  <2>1. CASE i <= Len(fs)
    <3>1. i \in 1..Len(fs) /\ i \in 1..Len(whole)
      BY <1>1, <2>0, <2>1
    <3>2. W[i] = fs[i].v
      BY <1>2, <1>5, <3>1
    <3>3. (F \o G)[i] = F[i]
      BY <1>3, <1>4, <1>6, <2>0, <2>1
    <3> QED BY <1>3, <3>1, <3>2, <3>3
  <2>2. CASE ~(i <= Len(fs))
    <3>1. i - Len(fs) \in 1..Len(gs) /\ i = Len(fs) + (i - Len(fs))
      BY <2>0, <2>2
    <3>2. W[i] = gs[i - Len(fs)].v
      BY <1>1, <1>2, <1>5, <2>0, <3>1
    <3>3. (F \o G)[i] = G[i - Len(fs)]
      BY <1>3, <1>4, <1>6, <2>0, <2>2
    <3> QED BY <1>4, <3>1, <3>2, <3>3
  <2> QED BY <2>1, <2>2
<1>8. Len(W) = Len(F \o G)
  BY <1>3, <1>4, <1>5, <1>6
<1>9. W = F \o G
  BY <1>5, <1>6, <1>7, <1>8, SeqEqual
<1> QED BY <1>9 DEF F, G, W, whole

LEMMA ValuesOfSubSeq ==
  ASSUME NEW fs \in Seq(Frame), NEW m \in 1..Len(fs) + 1
  PROVE  FrameValues(SubSeq(fs, m, Len(fs))) = SubSeq(FrameValues(fs), m, Len(fs))
<1> DEFINE part == SubSeq(fs, m, Len(fs))
           P == FrameValues(part)
           V == FrameValues(fs)
           Q == SubSeq(V, m, Len(fs))
           V0 == Frames \cup {Silence}
<1>1. Len(fs) \in Nat /\ m \in Int /\ \A i \in m..Len(fs) : fs[i] \in Frame
  OBVIOUS
<1>2. /\ part \in Seq(Frame)
      /\ Len(part) = IF m <= Len(fs) THEN Len(fs) - m + 1 ELSE 0
      /\ \A i \in 1..Len(fs) - m + 1 : part[i] = fs[m + i - 1]
  BY <1>1, SubSeqProperties
<1>3. /\ V \in Seq(V0) /\ Len(V) = Len(fs)
      /\ \A i \in 1..Len(fs) : V[i] = fs[i].v
  BY ValuesType
<1> HIDE DEF part, V, V0
<1>4. /\ P \in Seq(V0) /\ Len(P) = Len(part)
      /\ \A i \in 1..Len(part) : P[i] = part[i].v
  BY <1>2, ValuesType DEF V0
<1>5. \A i \in m..Len(fs) : V[i] \in V0
  BY <1>1, <1>3
<1>6. /\ Q \in Seq(V0)
      /\ Len(Q) = IF m <= Len(fs) THEN Len(fs) - m + 1 ELSE 0
      /\ \A i \in 1..Len(fs) - m + 1 : Q[i] = V[m + i - 1]
  BY <1>1, <1>5, SubSeqProperties
<1> HIDE DEF P, Q
<1>7. ASSUME NEW i \in 1..Len(P) PROVE P[i] = Q[i]
  <2>1. i \in 1..Len(fs) - m + 1 /\ i \in 1..Len(part)
    BY <1>1, <1>2, <1>4
  <2>2. m + i - 1 \in 1..Len(fs)
    BY <1>1, <2>1
  <2> QED BY <1>2, <1>3, <1>4, <1>6, <2>1, <2>2
<1>8. Len(P) = Len(Q)
  BY <1>2, <1>4, <1>6
<1>9. P = Q
  BY <1>4, <1>6, <1>7, <1>8, SeqEqual
<1> QED BY <1>9 DEF P, Q, V, part

\* Taking from the front of a queue leaves what is appended behind it alone.
LEMMA FrontOfConcatenation ==
  ASSUME NEW S, NEW p \in Seq(S), NEW q \in Seq(S), NEW m \in 1..Len(p) + 1
  PROVE  SubSeq(p \o q, m, Len(p \o q)) = SubSeq(p, m, Len(p)) \o q
<1> DEFINE both == p \o q
           kept == SubSeq(p, m, Len(p))
           lhs == SubSeq(both, m, Len(both))
           rhs == kept \o q
<1>1. /\ both \in Seq(S) /\ Len(both) = Len(p) + Len(q)
      /\ \A i \in 1..Len(p) + Len(q) :
           both[i] = IF i <= Len(p) THEN p[i] ELSE q[i - Len(p)]
  BY ConcatProperties, Zenon
<1>2. Len(p) \in Nat /\ Len(q) \in Nat /\ m \in Int /\ m >= 1 /\ m <= Len(p) + 1
  OBVIOUS
<1> HIDE DEF both
<1>3. /\ kept \in Seq(S)
      /\ Len(kept) = Len(p) - m + 1
      /\ \A i \in 1..Len(p) - m + 1 : kept[i] = p[m + i - 1]
  <2>1. \A i \in m..Len(p) : p[i] \in S
    BY <1>2
  <2>2. /\ kept \in Seq(S)
        /\ Len(kept) = IF m <= Len(p) THEN Len(p) - m + 1 ELSE 0
        /\ \A i \in 1..Len(p) - m + 1 : kept[i] = p[m + i - 1]
    BY <1>2, <2>1, SubSeqProperties
  <2> QED BY <1>2, <2>2
<1>4. /\ lhs \in Seq(S)
      /\ Len(lhs) = Len(p) + Len(q) - m + 1
      /\ \A i \in 1..Len(p) + Len(q) - m + 1 : lhs[i] = both[m + i - 1]
  <2>1. Len(both) \in Int /\ \A i \in m..Len(both) : both[i] \in S
    BY <1>1, <1>2
  <2>2. /\ lhs \in Seq(S)
        /\ Len(lhs) = IF m <= Len(both) THEN Len(both) - m + 1 ELSE 0
        /\ \A i \in 1..Len(both) - m + 1 : lhs[i] = both[m + i - 1]
    BY <1>2, <2>1, SubSeqProperties
  <2> QED BY <1>1, <1>2, <2>2
<1> HIDE DEF kept, lhs
<1>5. /\ rhs \in Seq(S)
      /\ Len(rhs) = Len(kept) + Len(q)
      /\ \A i \in 1..Len(kept) + Len(q) :
           rhs[i] = IF i <= Len(kept) THEN kept[i] ELSE q[i - Len(kept)]
  <2>1. kept \in Seq(S)
    BY <1>3
  <2> QED BY <2>1, ConcatProperties, Zenon
<1> HIDE DEF rhs
<1>6. ASSUME NEW i \in 1..Len(lhs) PROVE lhs[i] = rhs[i]
  <2>1. /\ i \in 1..Len(p) + Len(q) - m + 1
        /\ m + i - 1 \in 1..Len(p) + Len(q)
        /\ i \in 1..Len(kept) + Len(q)
    BY <1>2, <1>3, <1>4
  <2>2. CASE i <= Len(kept)
    <3>1. i \in 1..Len(p) - m + 1 /\ m + i - 1 <= Len(p)
      BY <1>2, <1>3, <2>1, <2>2
    <3>2. lhs[i] = p[m + i - 1]
      BY <1>1, <1>4, <2>1, <3>1
    <3> QED BY <1>3, <1>5, <2>1, <2>2, <3>1, <3>2
  <2>3. CASE ~(i <= Len(kept))
    <3>1. ~(m + i - 1 <= Len(p)) /\ m + i - 1 - Len(p) = i - Len(kept)
      BY <1>2, <1>3, <2>1, <2>3
    <3>2. lhs[i] = both[m + i - 1]
      BY <1>4, <2>1
    <3>3. both[m + i - 1] = q[m + i - 1 - Len(p)]
      <4> DEFINE k == m + i - 1
      <4>1. both[k] = IF k <= Len(p) THEN p[k] ELSE q[k - Len(p)]
        BY <1>1, <2>1
      <4> QED BY <3>1, <4>1
    <3>4. rhs[i] = q[i - Len(kept)]
      BY <1>5, <2>1, <2>3
    <3> QED BY <3>1, <3>2, <3>3, <3>4
  <2> QED BY <2>2, <2>3
<1>7. Len(lhs) = Len(rhs)
  BY <1>2, <1>3, <1>4, <1>5
<1>8. lhs = rhs
  BY <1>4, <1>5, <1>6, <1>7, SeqEqual
<1> QED BY <1>8 DEF lhs, rhs, kept, both

\* A block that is processed keeps its values, and stays in front of the rest.
LEMMA BlockKeepsValues ==
  ASSUME NEW fs \in Seq(Frame), Len(fs) >= Block
  PROVE  /\ ProcessedBlock(SubSeq(fs, 1, Block)) \in Seq(Frame)
         /\ \A i \in 1..Len(ProcessedBlock(SubSeq(fs, 1, Block))) :
              ProcessedBlock(SubSeq(fs, 1, Block))[i].done = TRUE
         /\ SubSeq(fs, Block + 1, Len(fs)) \in Seq(Frame)
         /\ FrameValues(ProcessedBlock(SubSeq(fs, 1, Block)))
              \o FrameValues(SubSeq(fs, Block + 1, Len(fs))) = FrameValues(fs)
<1> DEFINE front == SubSeq(fs, 1, Block)
           done == ProcessedBlock(front)
           rest == SubSeq(fs, Block + 1, Len(fs))
           V0 == Frames \cup {Silence}
           D == FrameValues(done)
           R == FrameValues(rest)
           V == FrameValues(fs)
<1>0. Block \in Nat /\ Block >= 1 /\ Len(fs) \in Nat
  OBVIOUS
<1>1. \A i \in 1..Len(fs) : fs[i] \in Frame
  OBVIOUS
<1>2. /\ front \in Seq(Frame)
      /\ Len(front) = IF 1 <= Block THEN Block - 1 + 1 ELSE 0
      /\ \A i \in 1..Block - 1 + 1 : front[i] = fs[1 + i - 1]
  <2>1. 1 \in Int /\ Block \in Int /\ \A i \in 1..Block : fs[i] \in Frame
    BY <1>0, <1>1
  <2> QED BY <2>1, SubSeqProperties
<1>3. \A i \in 1..Block : front[i] = fs[i] /\ front[i] \in Frame
  BY <1>0, <1>1, <1>2
<1> HIDE DEF front
<1>4. done \in [1..Block -> Frame] /\ \A i \in 1..Block : done[i] = Done(fs[i].v)
  <2>1. \A i \in 1..Block : Done(front[i].v) \in Frame
    BY <1>3 DEF Frame, Done
  <2> QED BY <1>3, <2>1 DEF ProcessedBlock
<1>5. /\ done \in Seq(Frame) /\ Len(done) = Block
      /\ \A i \in 1..Block : done[i].done = TRUE /\ done[i].v = fs[i].v
  <2>1. done \in Seq(Frame) /\ Len(done) = Block
    BY <1>0, <1>4
  <2> QED BY <1>4, <2>1 DEF Done
<1> HIDE DEF done
<1>6. /\ rest \in Seq(Frame)
      /\ Len(rest) = IF Block + 1 <= Len(fs) THEN Len(fs) - (Block + 1) + 1 ELSE 0
      /\ \A i \in 1..Len(fs) - (Block + 1) + 1 : rest[i] = fs[Block + 1 + i - 1]
  <2>1. Block + 1 \in Int /\ Len(fs) \in Int /\ \A i \in Block + 1..Len(fs) : fs[i] \in Frame
    BY <1>0, <1>1
  <2> QED BY <2>1, SubSeqProperties
<1>7. Len(rest) = Len(fs) - Block /\ \A i \in 1..Len(fs) - Block : rest[i] = fs[Block + i]
  <2>1. Len(fs) - (Block + 1) + 1 = Len(fs) - Block
    BY <1>0
  <2>2. \A i \in 1..Len(fs) - Block : rest[i] = fs[Block + i]
    <3> SUFFICES ASSUME NEW i \in 1..Len(fs) - Block PROVE rest[i] = fs[Block + i]
      OBVIOUS
    <3>1. rest[i] = fs[Block + 1 + i - 1]
      BY <1>6, <2>1
    <3>2. Block + 1 + i - 1 = Block + i
      BY <1>0
    <3> QED BY <3>1, <3>2
  <2>3. Len(rest) = Len(fs) - Block
    <3>1. Len(rest) = IF Block + 1 <= Len(fs) THEN Len(fs) - (Block + 1) + 1 ELSE 0
      BY <1>6
    <3>2. CASE Block + 1 <= Len(fs)
      BY <2>1, <3>1, <3>2
    <3>3. CASE ~(Block + 1 <= Len(fs))
      <4>1. Len(rest) = 0
        BY <3>1, <3>3
      <4>2. Len(fs) = Block
        BY <1>0, <3>3
      <4> QED BY <1>0, <4>1, <4>2
    <3> QED BY <3>2, <3>3
  <2> QED BY <2>2, <2>3
<1> HIDE DEF rest
<1>8. /\ D \in Seq(V0) /\ Len(D) = Block
      /\ \A i \in 1..Block : D[i] = fs[i].v
  BY <1>5, ValuesType
<1>9. /\ R \in Seq(V0) /\ Len(R) = Len(fs) - Block
      /\ \A i \in 1..Len(fs) - Block : R[i] = fs[Block + i].v
  <2>1. /\ R \in Seq(V0) /\ Len(R) = Len(rest)
        /\ \A i \in 1..Len(rest) : R[i] = rest[i].v
    BY <1>6, ValuesType
  <2> HIDE DEF R
  <2> QED BY <1>7, <2>1
<1>10. /\ V \in Seq(V0) /\ Len(V) = Len(fs)
       /\ \A i \in 1..Len(fs) : V[i] = fs[i].v
  BY ValuesType
<1> HIDE DEF D, R, V, V0
<1>11. /\ D \o R \in Seq(V0)
       /\ Len(D \o R) = Len(D) + Len(R)
       /\ \A i \in 1..Len(D) + Len(R) :
            (D \o R)[i] = IF i <= Len(D) THEN D[i] ELSE R[i - Len(D)]
  <2>1. D \in Seq(V0) /\ R \in Seq(V0)
    BY <1>8, <1>9
  <2> QED BY <2>1, ConcatProperties, Zenon
<1>12. ASSUME NEW i \in 1..Len(V) PROVE V[i] = (D \o R)[i]
  <2>1. i \in 1..Len(fs) /\ i \in 1..Len(D) + Len(R)
    BY <1>0, <1>8, <1>9, <1>10
  <2>2. CASE i <= Block
    <3>1. i \in 1..Block
      BY <1>0, <2>1, <2>2
    <3> QED BY <1>8, <1>10, <1>11, <2>1, <2>2, <3>1
  <2>3. CASE ~(i <= Block)
    <3>1. i - Block \in 1..Len(fs) - Block /\ Block + (i - Block) = i
      BY <1>0, <2>1, <2>3
    <3>2. R[i - Block] = fs[i].v
      BY <1>9, <3>1
    <3>3. (D \o R)[i] = R[i - Block]
      BY <1>8, <1>11, <2>1, <2>3
    <3> QED BY <1>10, <2>1, <3>2, <3>3
  <2> QED BY <2>2, <2>3
<1>13. V = D \o R
  <2>1. Len(V) = Len(D \o R)
    BY <1>0, <1>8, <1>9, <1>10, <1>11
  <2> QED BY <1>10, <1>11, <1>12, <2>1, SeqEqual
<1> QED BY <1>5, <1>6, <1>13 DEF D, R, V, done, rest, front

-----------------------------------------------------------------------------
(* What waits in out was processed: only a block and the priming enter it. *)

LEMMA StepProcessed == SessionInv /\ OutProcessed /\ [Next]_vars => OutProcessed'
<1> SUFFICES ASSUME SessionInv, OutProcessed, [Next]_vars PROVE OutProcessed'
  OBVIOUS
<1> USE DEF OutProcessed
<1>0. out \in Seq(Frame) /\ in \in Seq(Frame) /\ buf \in [Threads -> Seq(Frame)]
  BY DEF SessionInv, TypeOK
<1>1. ASSUME NEW t \in Threads, OpenReal(t) \/ ReadReal(t) \/ ReadCheck(t) \/ CloseReal(t)
      PROVE OutProcessed'
  BY <1>1 DEF OpenReal, ReadReal, ReadCheck, CloseReal
<1>2. ASSUME NEW t \in Threads, OpenDisabled(t) \/ OpenFailed(t) PROVE OutProcessed'
  BY <1>2 DEF OpenDisabled, OpenFailed, teardown_l
<1>3. ASSUME NEW t \in Threads, OpenSession(t) PROVE OutProcessed'
  <2>1. out' = priming
    BY <1>3 DEF OpenSession
  <2> QED BY <2>1, FrameTypes DEF priming, Done
<1>4. ASSUME NEW t \in Threads, ReadEnter(t) PROVE OutProcessed'
  BY <1>4 DEF ReadEnter
<1>5. ASSUME NEW t \in Threads, ProcessBlock(t) PROVE OutProcessed'
  <2> DEFINE done == ProcessedBlock(SubSeq(in, 1, Block))
  <2>1. /\ done \in Seq(Frame) /\ out' = out \o done
        /\ \A i \in 1..Len(done) : done[i].done = TRUE
    BY <1>0, <1>5, BlockKeepsValues DEF ProcessBlock
  <2> HIDE DEF done
  <2>2. /\ Len(out \o done) = Len(out) + Len(done)
        /\ \A i \in 1..Len(out) + Len(done) :
             (out \o done)[i] = IF i <= Len(out) THEN out[i] ELSE done[i - Len(out)]
    BY <1>0, <2>1, ConcatProperties, Zenon
  <2>3. Len(out) \in Nat /\ Len(done) \in Nat
    BY <1>0, <2>1
  <2> SUFFICES ASSUME NEW i \in 1..Len(out) + Len(done) PROVE (out \o done)[i].done = TRUE
    BY <2>1, <2>2
  <2>4. CASE i <= Len(out)
    BY <2>2, <2>3, <2>4
  <2>5. CASE ~(i <= Len(out))
    <3>1. i - Len(out) \in 1..Len(done)
      BY <2>3, <2>5
    <3> QED BY <2>1, <2>2, <2>5, <3>1
  <2> QED BY <2>4, <2>5
<1>6. ASSUME NEW t \in Threads, ReadExit(t) PROVE OutProcessed'
  <2>1. CASE Len(out) >= Len(buf[t])
    <3> DEFINE n == Len(buf[t])
    <3>0. n \in Nat /\ Len(out) \in Nat /\ n <= Len(out)
      BY <1>0, <2>1
    <3>1. out' = SubSeq(out, n + 1, Len(out))
      BY <1>6, <2>1 DEF ReadExit
    <3> HIDE DEF n
    <3>2. \A i \in n + 1..Len(out) : out[i] \in Frame
      BY <1>0, <3>0
    <3>3. /\ Len(SubSeq(out, n + 1, Len(out))) =
               IF n + 1 <= Len(out) THEN Len(out) - (n + 1) + 1 ELSE 0
          /\ \A i \in 1..Len(out) - (n + 1) + 1 :
               SubSeq(out, n + 1, Len(out))[i] = out[n + 1 + i - 1]
      <4>1. n + 1 \in Int /\ Len(out) \in Int
        BY <3>0
      <4> QED BY <3>2, <4>1, SubSeqProperties
    <3> SUFFICES ASSUME NEW i \in 1..Len(out') PROVE out'[i].done = TRUE
      OBVIOUS
    <3>4. i \in 1..Len(out) - (n + 1) + 1 /\ n + 1 + i - 1 \in 1..Len(out)
      BY <3>0, <3>1, <3>3
    <3> QED BY <3>1, <3>3, <3>4
  <2>2. CASE ~(Len(out) >= Len(buf[t]))
    BY <1>6, <2>2 DEF ReadExit
  <2> QED BY <2>1, <2>2
<1>7. ASSUME NEW t \in Threads, CloseShim(t) PROVE OutProcessed'
  BY <1>7 DEF CloseShim, teardown_l
<1>8. CASE UNCHANGED vars
  BY <1>8 DEF vars
<1> QED BY <1>1, <1>2, <1>3, <1>4, <1>5, <1>6, <1>7, <1>8 DEF Next, Open, Read, Close

LEMMA LineInvariant == Spec => []LineInv
<1>1. Init => OutProcessed
  BY DEF Init, OutProcessed
<1> QED BY <1>1, SessionInit, StepType, StepHandles, StepSession, StepConserved, StepProcessed,
        PTL DEF Spec, SessionInv, LineInv

-----------------------------------------------------------------------------
(* The mapping: who owns the session before and after a step.              *)

LEMMA OwnerIs ==
  SessionInv => \A t \in Threads : pcm # NoPcm /\ held[t] = pcm => Owner = t
<1> SUFFICES ASSUME SessionInv, NEW t \in Threads, pcm # NoPcm, held[t] = pcm
             PROVE  Owner = t
  OBVIOUS
<1>1. \A u \in Threads : held[u] = pcm => u = t
  BY DEF SessionInv, HandlesOwned
<1> QED BY <1>1 DEF Owner

\* The session's thread before and after a step in which it stays the session's.
LEMMA OwnerKept ==
  ASSUME SessionInv, SessionInv', pcm' = pcm,
         \A u \in Threads : pcm # NoPcm /\ held[u] = pcm => held'[u] = pcm
  PROVE  Owner' = Owner
<1>1. CASE pcm = NoPcm
  BY <1>1 DEF Owner
<1>2. CASE pcm # NoPcm
  <2>1. PICK u \in Threads : held[u] = pcm
    BY <1>2 DEF SessionInv, SessionHandleOpen
  <2>2. Owner = u
    BY <1>2, <2>1, OwnerIs
  <2>3. Owner' = u
    <3>1. held'[u] = pcm'
      BY <1>2, <2>1
    <3>2. \A w \in Threads : held'[w] = pcm' => w = u
      BY <1>2, <3>1 DEF SessionInv, HandlesOwned
    <3> QED BY <1>2, <3>1, <3>2 DEF Owner
  <2> QED BY <2>2, <2>3
<1> QED BY <1>1, <1>2

-----------------------------------------------------------------------------
(* Every step of AmznAec is a step of DelayLine or leaves it as it is.     *)

LEMMA InitRefines == Init => DL!LineInit
<1> SUFFICES ASSUME Init PROVE DL!LineInit
  OBVIOUS
<1>1. Owner = NoThread
  BY DEF Init, Owner
<1>2. Line = <<>>
  <2>1. FrameValues(<<>>) = <<>>
    BY DEF FrameValues
  <2>2. in = <<>> /\ out = <<>>
    BY DEF Init
  <2>3. <<>> \o <<>> = <<>>
    OBVIOUS
  <2> QED BY <2>1, <2>2, <2>3 DEF Line
<1> QED BY <1>1, <1>2 DEF Init, DL!LineInit

\* A session that is torn down leaves the line empty and without an owner.
LEMMA TeardownDrops ==
  ASSUME teardown_l, lock = NoThread, UNCHANGED <<lock, buf>>
  PROVE  DL!Drop
<1>1. Owner' = NoThread
  BY DEF teardown_l, Owner
<1>2. Line' = <<>>
  <2>1. FrameValues(<<>>) = <<>>
    BY DEF FrameValues
  <2>2. <<>> \o <<>> = <<>>
    OBVIOUS
  <2> QED BY <2>1, <2>2 DEF teardown_l, Line
<1> QED BY <1>1, <1>2 DEF DL!Drop

\* pcm_open primes the line with one block of silence.
LEMMA OpenTakes ==
  ASSUME SessionInv, SessionInv', NEW t \in Threads, OpenSession(t)
  PROVE  DL!Take(t)
<1>1. pcm' = held[t] /\ held' = held /\ held[t] # NoPcm
  BY DEF OpenSession, EnterOpen, SessionInv, HandlesOwned
<1>2. Owner' = t
  <2>1. \A u \in Threads : held'[u] = pcm' => u = t
    BY <1>1 DEF SessionInv, HandlesOwned
  <2> QED BY <1>1, <2>1 DEF Owner
<1>3. Line' = [i \in 1..Block |-> Silence]
  <2>1. in' = <<>> /\ out' = priming
    BY DEF OpenSession
  <2>2. FrameValues(<<>>) = <<>>
    BY DEF FrameValues
  <2>3. FrameValues(priming) = [i \in 1..Block |-> Silence]
    BY FrameTypes DEF FrameValues, priming, Done
  <2>4. FrameValues(priming) \in Seq(Frames \cup {Silence})
    BY FrameTypes, ValuesType
  <2>5. FrameValues(priming) \o <<>> = FrameValues(priming)
    BY <2>4, ConcatEmptySeq
  <2> QED BY <2>1, <2>2, <2>3, <2>5 DEF Line
<1> QED BY <1>2, <1>3 DEF DL!Take, OpenSession, EnterOpen

\* The driver fills the buffer of a client that is not being served.
LEMMA ReadCaptures ==
  ASSUME SessionInv, SessionInv', NEW t \in Threads, ReadReal(t)
  PROVE  DL!Capture(t)
<1>1. lock # t
  BY DEF ReadReal, SessionInv, LoopOwnsSession
<1>2. Owner' = Owner
  BY OwnerKept DEF ReadReal
<1>3. Line' = Line
  BY DEF ReadReal, Line
<1>4. PICK n \in 0..MaxRead : \E vs \in [1..n -> Frames] :
        buf' = [buf EXCEPT ![t] = [i \in 1..n |-> Raw(vs[i])]]
  BY DEF ReadReal
<1>5. PICK vs \in [1..n -> Frames] :
        buf' = [buf EXCEPT ![t] = [i \in 1..n |-> Raw(vs[i])]]
  BY <1>4
<1>6. [i \in 1..n |-> Raw(vs[i])] = [i \in 1..n |-> DL!Raw(vs[i])]
  BY DEF DL!Raw, Raw
<1>7. \E m \in 0..MaxRead : \E ws \in [1..m -> Frames] :
        buf' = [buf EXCEPT ![t] = [i \in 1..m |-> DL!Raw(ws[i])]]
  BY <1>5, <1>6, Zenon
<1>8. lock' = lock
  BY DEF ReadReal
<1> QED BY <1>1, <1>2, <1>3, <1>7, <1>8 DEF DL!Capture

\* With the lock and its session, a read puts its capture into the line.
LEMMA EnterAccepts ==
  ASSUME SessionInv, SessionInv', NEW t \in Threads, ReadEnter(t), held[t] = pcm
  PROVE  DL!Accept(t)
<1>1. lock = NoThread /\ lock' = t /\ in' = in \o buf[t]
  BY DEF ReadEnter
<1>2. pcm # NoPcm
  BY DEF ReadEnter, SessionInv, HandlesOwned
<1>3. Owner = t /\ Owner' = Owner
  <2>1. Owner' = Owner
    BY OwnerKept DEF ReadEnter
  <2> QED BY <1>2, <2>1, OwnerIs
<1>4. Line' = Line \o DL!Values(buf[t])
  <2>1. in \in Seq(Frame) /\ out \in Seq(Frame) /\ buf[t] \in Seq(Frame)
    BY DEF SessionInv, TypeOK
  <2> DEFINE V0 == Frames \cup {Silence}
             I == FrameValues(in)
             O == FrameValues(out)
             B == FrameValues(buf[t])
  <2>2. I \in Seq(V0) /\ O \in Seq(V0) /\ B \in Seq(V0)
    BY <2>1, ValuesType
  <2>3. FrameValues(in \o buf[t]) = I \o B
    BY <2>1, ValuesOfConcatenation
  <2>4. Line' = O \o (I \o B)
    BY <1>1, <2>3 DEF ReadEnter, Line
  <2>5. Line = O \o I
    BY DEF Line
  <2>6. DL!Values(buf[t]) = B
    BY DEF DL!Values, FrameValues
  <2> HIDE DEF V0, I, O, B
  <2>7. (O \o I) \o B = O \o (I \o B)
    BY <2>2, ConcatAssociative
  <2> QED BY <2>4, <2>5, <2>6, <2>7
<1> QED BY <1>1, <1>3, <1>4 DEF DL!Accept, ReadEnter

\* A block goes from one queue to the other: the line does not change.
LEMMA BlockStutters ==
  ASSUME SessionInv, SessionInv', NEW t \in Threads, ProcessBlock(t)
  PROVE  UNCHANGED <<Owner, Line, lock, buf>>
<1>1. Owner' = Owner
  BY OwnerKept DEF ProcessBlock, client
<1>2. Line' = Line
  <2>1. in \in Seq(Frame) /\ out \in Seq(Frame) /\ Len(in) >= Block
    BY DEF SessionInv, TypeOK, ProcessBlock
  <2> DEFINE done == ProcessedBlock(SubSeq(in, 1, Block))
             rest == SubSeq(in, Block + 1, Len(in))
             V0 == Frames \cup {Silence}
  <2>2. /\ done \in Seq(Frame) /\ rest \in Seq(Frame)
        /\ FrameValues(done) \o FrameValues(rest) = FrameValues(in)
    BY <2>1, BlockKeepsValues
  <2>3. out' = out \o done /\ in' = rest
    BY DEF ProcessBlock
  <2> HIDE DEF done, rest
  <2>4. /\ FrameValues(out) \in Seq(V0) /\ FrameValues(done) \in Seq(V0)
        /\ FrameValues(rest) \in Seq(V0)
    BY <2>1, <2>2, ValuesType
  <2>5. FrameValues(out \o done) = FrameValues(out) \o FrameValues(done)
    BY <2>1, <2>2, ValuesOfConcatenation
  <2> HIDE DEF V0
  <2>6. (FrameValues(out) \o FrameValues(done)) \o FrameValues(rest)
          = FrameValues(out) \o (FrameValues(done) \o FrameValues(rest))
    BY <2>4, ConcatAssociative
  <2> QED BY <2>2, <2>3, <2>5, <2>6 DEF Line
<1> QED BY <1>1, <1>2 DEF ProcessBlock, client

\* The caller gets the front of the line, processed.
LEMMA ExitDelivers ==
  ASSUME LineInv, SessionInv', NEW t \in Threads, ReadExit(t)
  PROVE  DL!Deliver(t)
<1>1. lock = t /\ lock # NoThread /\ pcm # NoPcm
  BY DEF ReadExit, LineInv, SessionInv, LoopOwnsSession, HandlesOwned
<1>2. in \in Seq(Frame) /\ out \in Seq(Frame) /\ buf \in [Threads -> Seq(Frame)]
  BY DEF LineInv, SessionInv, TypeOK
<1> DEFINE n == Len(buf[t])
<1>3. n \in Nat /\ Len(in) \in Nat /\ Len(out) \in Nat
  BY <1>2
<1>4. n <= Len(out)
  <2>1. Len(in) + Len(out) = Block + n /\ Len(in) < Block
    BY <1>1 DEF ReadExit, LineInv, SessionInv, Conserved
  <2> QED BY <1>3, <2>1
<1>5. /\ buf' = [buf EXCEPT ![t] = SubSeq(out, 1, n)]
      /\ out' = SubSeq(out, n + 1, Len(out))
      /\ in' = in /\ lock' = NoThread
  BY <1>3, <1>4 DEF ReadExit
<1>6. Owner' = Owner
  BY OwnerKept DEF ReadExit, LineInv
<1> DEFINE V0 == Frames \cup {Silence}
           I == FrameValues(in)
           O == FrameValues(out)
<1>7. /\ I \in Seq(V0) /\ Len(I) = Len(in)
      /\ O \in Seq(V0) /\ Len(O) = Len(out)
      /\ \A i \in 1..Len(out) : O[i] = out[i].v
  BY <1>2, ValuesType
<1>8. Line = O \o I
  BY DEF Line
<1>9. Line' = SubSeq(Line, n + 1, Len(Line))
  <2>1. FrameValues(SubSeq(out, n + 1, Len(out))) = SubSeq(O, n + 1, Len(out))
    BY <1>2, <1>3, <1>4, ValuesOfSubSeq
  <2>2. Line' = SubSeq(O, n + 1, Len(O)) \o I
    BY <1>5, <1>7, <2>1 DEF Line
  <2> HIDE DEF n, I, O, V0
  <2>3. n + 1 \in 1..Len(O) + 1
    BY <1>3, <1>4, <1>7
  <2>4. SubSeq(O \o I, n + 1, Len(O \o I)) = SubSeq(O, n + 1, Len(O)) \o I
    BY <1>7, <2>3, FrontOfConcatenation
  <2> QED BY <1>8, <2>2, <2>4
<1>10. SubSeq(out, 1, n) = [i \in 1..n |-> DL!Done(Line[i])]
  <2> HIDE DEF n, I, O, V0
  <2>1. ASSUME NEW i \in 1..n PROVE out[i] = DL!Done(Line[i])
    <3>1. i \in 1..Len(out)
      BY <1>3, <1>4
    <3>2. out[i] \in Frame /\ out[i].done = TRUE
      BY <1>2, <3>1 DEF LineInv, OutProcessed
    <3>3. out[i] = [v |-> out[i].v, done |-> TRUE]
      BY <3>2 DEF Frame
    <3>4. /\ i \in 1..Len(O) + Len(I)
          /\ i <= Len(O)
      BY <1>3, <1>4, <1>7
    <3>5. (O \o I)[i] = O[i]
      <4>1. /\ O \in Seq(V0) /\ I \in Seq(V0)
        BY <1>7
      <4>2. (O \o I)[i] = IF i <= Len(O) THEN O[i] ELSE I[i - Len(O)]
        BY <3>4, <4>1, ConcatProperties, Zenon
      <4> QED BY <3>4, <4>2
    <3>6. Line[i] = out[i].v
      BY <1>7, <1>8, <3>1, <3>5
    <3> QED BY <3>3, <3>6 DEF DL!Done
  <2>2. /\ SubSeq(out, 1, n) = [i \in 1..n |-> out[i]]
    BY <1>2, <1>3, <1>4
  <2> QED BY <2>1, <2>2
<1>11. buf' = [buf EXCEPT ![t] = [i \in 1..Len(@) |-> DL!Done(Line[i])]]
  BY <1>5, <1>10
<1> HIDE DEF n, I, O
<1> QED BY <1>1, <1>5, <1>6, <1>9, <1>11 DEF DL!Deliver, n

LEMMA StepRefines ==
  LineInv /\ LineInv' /\ [Next]_vars => [DL!LineNext]_<<Owner, Line, lock, buf>>
<1> SUFFICES ASSUME LineInv, LineInv', [Next]_vars
             PROVE  DL!LineNext \/ UNCHANGED <<Owner, Line, lock, buf>>
  OBVIOUS
<1>0. SessionInv /\ SessionInv'
  BY DEF LineInv
<1>1. ASSUME NEW t \in Threads, OpenReal(t) PROVE UNCHANGED <<Owner, Line, lock, buf>>
  <2>1. Owner' = Owner
    <3>1. PICK h \in Handles \ opened : held' = [held EXCEPT ![t] = h]
      BY <1>1 DEF OpenReal
    <3>2. held \in [Threads -> Handles \cup {NoPcm}] /\ held[t] = NoPcm /\ pcm' = pcm
      BY <1>0, <1>1 DEF OpenReal, SessionInv, TypeOK
    <3>3. \A u \in Threads : pcm # NoPcm /\ held[u] = pcm => held'[u] = pcm
      BY <3>1, <3>2
    <3> QED BY <1>0, <3>2, <3>3, OwnerKept
  <2> QED BY <1>1, <2>1 DEF OpenReal, Line
<1>2. ASSUME NEW t \in Threads, OpenDisabled(t) \/ OpenFailed(t) PROVE DL!LineNext
  <2>1. DL!Drop
    BY <1>2, TeardownDrops DEF OpenDisabled, OpenFailed, EnterOpen
  <2> QED BY <2>1 DEF DL!LineNext
<1>3. ASSUME NEW t \in Threads, OpenSession(t) PROVE DL!LineNext
  BY <1>0, <1>3, OpenTakes DEF DL!LineNext
<1>4. ASSUME NEW t \in Threads, ReadReal(t) PROVE DL!LineNext
  BY <1>0, <1>4, ReadCaptures DEF DL!LineNext
<1>5. ASSUME NEW t \in Threads, ReadCheck(t) PROVE UNCHANGED <<Owner, Line, lock, buf>>
  <2>1. Owner' = Owner
    BY <1>0, <1>5, OwnerKept DEF ReadCheck
  <2> QED BY <1>5, <2>1 DEF ReadCheck, Line
<1>6. ASSUME NEW t \in Threads, ReadEnter(t)
      PROVE  DL!LineNext \/ UNCHANGED <<Owner, Line, lock, buf>>
  <2>1. CASE held[t] = pcm
    BY <1>0, <1>6, <2>1, EnterAccepts DEF DL!LineNext
  <2>2. CASE held[t] # pcm
    <3>1. Owner' = Owner
      BY <1>0, <1>6, OwnerKept DEF ReadEnter
    <3> QED BY <1>6, <2>2, <3>1 DEF ReadEnter, Line
  <2> QED BY <2>1, <2>2
<1>7. ASSUME NEW t \in Threads, ProcessBlock(t) PROVE UNCHANGED <<Owner, Line, lock, buf>>
  BY <1>0, <1>7, BlockStutters
<1>8. ASSUME NEW t \in Threads, ReadExit(t) PROVE DL!LineNext
  BY <1>0, <1>8, ExitDelivers DEF DL!LineNext
<1>9. ASSUME NEW t \in Threads, CloseShim(t)
      PROVE  DL!LineNext \/ UNCHANGED <<Owner, Line, lock, buf>>
  <2>1. CASE held[t] = pcm
    <3>1. DL!Drop
      BY <1>9, <2>1, TeardownDrops DEF CloseShim
    <3> QED BY <3>1 DEF DL!LineNext
  <2>2. CASE held[t] # pcm
    <3>1. Owner' = Owner
      BY <1>0, <1>9, <2>2, OwnerKept DEF CloseShim
    <3> QED BY <1>9, <2>2, <3>1 DEF CloseShim, Line
  <2> QED BY <2>1, <2>2
<1>10. ASSUME NEW t \in Threads, CloseReal(t) PROVE UNCHANGED <<Owner, Line, lock, buf>>
  <2>1. Owner' = Owner
    <3>1. /\ held \in [Threads -> Handles \cup {NoPcm}] /\ pcm' = pcm
          /\ held' = [held EXCEPT ![t] = NoPcm] /\ pc[t] = "closing"
      BY <1>0, <1>10 DEF CloseReal, SessionInv, TypeOK
    <3>2. pcm # NoPcm => held[t] # pcm
      BY <1>0, <3>1 DEF SessionInv, SessionHandleOpen, HandlesOwned
    <3>3. \A u \in Threads : pcm # NoPcm /\ held[u] = pcm => held'[u] = pcm
      BY <3>1, <3>2
    <3> QED BY <1>0, <3>1, <3>3, OwnerKept
  <2> QED BY <1>10, <2>1 DEF CloseReal, Line
<1>11. CASE UNCHANGED vars
  <2>1. Owner' = Owner
    BY <1>11 DEF vars, client, Owner
  <2> QED BY <1>11, <2>1 DEF vars, client, Line
<1> QED BY <1>1, <1>2, <1>3, <1>4, <1>5, <1>6, <1>7, <1>8, <1>9, <1>10, <1>11
        DEF Next, Open, Read, Close

\* The shim implements the delay line: whatever the threads do, the session's
\* owner gets back what it captured, processed, in order, one block late, and
\* every other client its own frames.
THEOREM Refinement == Spec => ImplementsDelayLine
<1>1. LineInv /\ LineInv' /\ [Next]_vars => [DL!LineNext]_DL!lineVars
  BY StepRefines DEF DL!lineVars
<1> QED BY InitRefines, LineInvariant, <1>1, PTL DEF Spec, ImplementsDelayLine, DL!LineSpec
=============================================================================
