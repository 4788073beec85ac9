-------------------------- MODULE SpeexBlock_proofs --------------------------
(***************************************************************************)
(* Proofs about SpeexBlock, for every size of the filter, number of        *)
(* loudspeakers, threshold and bound.  The canceller's part of the         *)
(* inductive invariant is taken through the stages of Frame, one lemma     *)
(* each; the preprocessor's part is about its windows.                     *)
(***************************************************************************)
EXTENDS SpeexBlock, WellFoundedInduction, TLAPS

(* The state of the canceller between two stages of a frame.               *)
MidType ==
    [cancel_count : Counts, saturated : Flag, screwed_up : Nat,
     X : [0 .. M -> [Speakers -> SUBSET Nat]],
     E : [ages : SUBSET Nat, clipped : BOOLEAN, of : FilterType],
     W : FilterType, foreground : FilterType, tail : FilterType,
     adapted : BOOLEAN, sum_adapt : Sums,
     prop : Props, leak_estimate : Estimates,
     sampling_rate : Rates,
     last_y : PairType,
     disturbed : Nat]

CleanBlock(w, j, s) == w[j][s].lags \subseteq {j} /\ w[j][s].clipped = FALSE
Clean(w) == \A j \in Taps, s \in Speakers : CleanBlock(w, j, s)
Placed(X) == \A j \in 0 .. M, s \in Speakers : X[j][s] \subseteq {j}
Guarded(st) == st.E.ages = {} \/ st.E.clipped = FALSE \/ st.saturated = 1

(* Between two frames: the far end of age j is in block j, the error is of *)
(* the last frame and of the background filter, and if it was clipped the  *)
(* next gradient is off; the output ends with the foreground's echo unless *)
(* a reset has just emptied the foreground.                                *)
EchoInv(st) ==
    /\ st \in MidType
    /\ st.screwed_up < ScrewedLimit
    /\ st.E.ages \subseteq {0}
    /\ Placed(st.X)
    /\ Guarded(st)
    /\ Clean(st.W) /\ Clean(st.foreground)
    /\ st.E.of = st.W
    /\ st.tail = st.foreground \/ st.cancel_count = 0

LEMMA ZeroFilterClean == ZeroFilter \in FilterType /\ Clean(ZeroFilter)
  BY DEF ZeroFilter, FilterType, BlockType, Empty, Clean, CleanBlock

LEMMA PartOfClean ==
  ASSUME NEW w \in FilterType, Clean(w)
  PROVE  PartOf(w) \in FilterType /\ Clean(PartOf(w))
  BY DEF PartOf, FilterType, BlockType, Empty, Clean, CleanBlock

(* A canceller that was just made satisfies the invariant, at either rate. *)
LEMMA FreshInv == EchoInv(EchoFresh)
<1>0. Nothing \in PairType
  BY DEF Nothing, Pair, PairType
<1>1. 0 \in Counts /\ 0 \in Sums /\ 0 \in Flag /\ 0 < ScrewedLimit
  BY EchoAssumption DEF Counts, Sums, Flag
<1>2. [j \in 0 .. M |-> [s \in Speakers |-> {}]] \in [0 .. M -> [Speakers -> SUBSET Nat]]
  OBVIOUS
<1>3. NoError(ZeroFilter) \in [ages : SUBSET Nat, clipped : BOOLEAN, of : FilterType]
  BY ZeroFilterClean DEF NoError
<1>4. EchoFresh \in MidType
  BY <1>0, <1>1, <1>2, <1>3, ZeroFilterClean DEF EchoFresh, MidType, Props, Estimates, Rates
<1>5. QED
  BY <1>1, <1>4, ZeroFilterClean
  DEF EchoFresh, EchoInv, Placed, Guarded, NoError

LEMMA AtRateInv ==
  ASSUME NEW st, EchoInv(st), NEW r \in Rates
  PROVE  EchoInv(AtRate(st, r))
<1>1. st \in MidType
  BY DEF EchoInv
<1>2. AtRate(st, r) \in MidType
  BY <1>1 DEF AtRate, MidType
<1>3. /\ AtRate(st, r).screwed_up = st.screwed_up /\ AtRate(st, r).E = st.E
      /\ AtRate(st, r).X = st.X /\ AtRate(st, r).W = st.W
      /\ AtRate(st, r).foreground = st.foreground
      /\ AtRate(st, r).tail = st.tail /\ AtRate(st, r).saturated = st.saturated
      /\ AtRate(st, r).cancel_count = st.cancel_count
  BY <1>1 DEF AtRate, MidType
<1>4. QED
  BY <1>2, <1>3 DEF EchoInv, Guarded

LEMMA ResetInv ==
  ASSUME NEW st \in MidType, Placed(st.X), Clean(st.W), Clean(st.foreground)
  PROVE  EchoInv(EchoReset(st))
<1> DEFINE r == EchoReset(st)
<1>1. 0 \in Counts /\ 0 \in Sums /\ 0 \in Flag /\ 0 < ScrewedLimit
  BY EchoAssumption DEF Counts, Sums, Flag
<1>2. st.W \in FilterType /\ st.foreground \in FilterType
  BY DEF MidType
<1>3. /\ PartOf(st.W) \in FilterType /\ Clean(PartOf(st.W))
      /\ PartOf(st.foreground) \in FilterType /\ Clean(PartOf(st.foreground))
  BY <1>2, PartOfClean
<1>4. NoError(PartOf(st.W)) \in [ages : SUBSET Nat, clipped : BOOLEAN, of : FilterType]
  BY <1>3 DEF NoError
<1>5. [j \in 0 .. M |-> [s \in Speakers |->
         IF BeforeIndex(M + 1, j, s) THEN {} ELSE st.X[j][s]]]
        \in [0 .. M -> [Speakers -> SUBSET Nat]]
  <2>1. st.X \in [0 .. M -> [Speakers -> SUBSET Nat]]
    BY DEF MidType
  <2>2. \A j \in 0 .. M, s \in Speakers :
           (IF BeforeIndex(M + 1, j, s) THEN {} ELSE st.X[j][s]) \in SUBSET Nat
    BY <2>1
  <2>3. QED
    BY <2>2
<1>6. Pair({}, st.last_y.newer) \in PairType
  BY DEF MidType, PairType, Pair
<1>7. st.disturbed + 1 \in Nat
  BY DEF MidType
<1>8. r \in MidType
  <2> DEFINE XX == [j \in 0 .. M |-> [s \in Speakers |->
                     IF BeforeIndex(M + 1, j, s) THEN {} ELSE st.X[j][s]]]
             EE == NoError(PartOf(st.W))
             WW == PartOf(st.W)
             FF == PartOf(st.foreground)
             LL == Pair({}, st.last_y.newer)
             DD == st.disturbed + 1
  <2>2. r = [st EXCEPT !.cancel_count = 0, !.saturated = 0, !.screwed_up = 0,
             !.X = XX, !.W = WW, !.foreground = FF, !.E = EE,
             !.adapted = FALSE, !.sum_adapt = 0, !.last_y = LL,
             !.disturbed = DD]
    BY DEF EchoReset
  <2>3. /\ XX \in [0 .. M -> [Speakers -> SUBSET Nat]]
        /\ EE \in [ages : SUBSET Nat, clipped : BOOLEAN, of : FilterType]
        /\ WW \in FilterType /\ FF \in FilterType /\ LL \in PairType
        /\ DD \in Nat
    BY <1>3, <1>4, <1>5, <1>6, <1>7
  <2> HIDE DEF r, XX, EE, WW, FF, LL, DD
  <2>4. QED
    BY <2>2, <2>3, <1>1 DEF MidType
<1>9. /\ r.screwed_up = 0 /\ r.E = NoError(PartOf(st.W))
      /\ r.W = PartOf(st.W) /\ r.foreground = PartOf(st.foreground)
      /\ r.cancel_count = 0
      /\ r.X = [j \in 0 .. M |-> [s \in Speakers |->
                  IF BeforeIndex(M + 1, j, s) THEN {} ELSE st.X[j][s]]]
  BY DEF EchoReset, MidType
<1>10. Placed(r.X)
  BY <1>9 DEF Placed
<1>11. r.E.ages = {} /\ r.E.of = r.W
  BY <1>9 DEF NoError
<1>12. QED
  BY <1>1, <1>3, <1>8, <1>9, <1>10, <1>11 DEF EchoInv, Guarded

(* A frame arrives: everything gets a frame older.                         *)
LEMMA ShiftStep ==
  ASSUME NEW st, EchoInv(st)
  PROVE  LET t == ShiftMemory(st)
         IN  /\ t \in MidType
             /\ t.screwed_up < ScrewedLimit
             /\ t.E.ages \subseteq {1}
             /\ Placed(t.X)
             /\ Guarded(t)
             /\ Clean(t.W) /\ Clean(t.foreground)
<1> DEFINE t == ShiftMemory(st)
           NN == Increment(st.cancel_count)
           XX == [j \in 0 .. M |-> [s \in Speakers |->
                     IF j = 0 THEN {0} ELSE Older(st.X[j - 1][s])]]
           EE == [st.E EXCEPT !.ages = Older(@)]
           LL == Pair(Stale(st.last_y.older), Stale(st.last_y.newer))
<1>1. st \in MidType
  BY DEF EchoInv
<1>2. NN \in Counts
  BY <1>1, EchoAssumption DEF MidType, Increment, Counts
<1>3. XX \in [0 .. M -> [Speakers -> SUBSET Nat]] /\ Placed(XX)
  <2>1. ASSUME NEW j \in 0 .. M, NEW s \in Speakers
        PROVE  (IF j = 0 THEN {0} ELSE Older(st.X[j - 1][s])) \subseteq {j}
    <3>1. CASE j = 0
      BY <3>1
    <3>2. CASE j # 0
      <4>1. j - 1 \in 0 .. M
        BY <3>2, EchoAssumption
      <4>2. st.X[j - 1][s] \subseteq {j - 1}
        BY <4>1 DEF EchoInv, Placed
      <4>3. \A a \in st.X[j - 1][s] : a + 1 = j
        BY <4>2, <4>1
      <4>4. QED
        BY <3>2, <4>3 DEF Older
    <3>3. QED
      BY <3>1, <3>2
  <2>2. \A j \in 0 .. M : {j} \subseteq Nat
    BY EchoAssumption
  <2>3. QED
    BY <2>1, <2>2, SMTT(30) DEF Placed
<1>4. EE \in [ages : SUBSET Nat, clipped : BOOLEAN, of : FilterType]
  <2>1. st.E \in [ages : SUBSET Nat, clipped : BOOLEAN, of : FilterType]
    BY <1>1 DEF MidType
  <2>2. Older(st.E.ages) \in SUBSET Nat
    BY <2>1 DEF Older
  <2>3. QED
    BY <2>1, <2>2
<1>5. LL \in PairType
  <2>1. st.last_y.older \subseteq 0 .. 2 /\ st.last_y.newer \subseteq 0 .. 2
    BY <1>1 DEF MidType, PairType
  <2>2. Stale(st.last_y.older) \subseteq 0 .. 2 /\ Stale(st.last_y.newer) \subseteq 0 .. 2
    BY <2>1 DEF Stale
  <2>3. QED
    BY <2>2 DEF Pair, PairType
<1>6. t = [st EXCEPT !.cancel_count = NN, !.X = XX, !.E = EE, !.last_y = LL]
  BY <1>1 DEF ShiftMemory, MidType
<1>7. EE.ages = Older(st.E.ages) /\ EE.clipped = st.E.clipped
  BY <1>1 DEF MidType
<1> HIDE DEF t, NN, XX, EE, LL
<1>8. t \in MidType
  BY <1>1, <1>2, <1>3, <1>4, <1>5, <1>6 DEF MidType
<1>9. /\ t.X = XX /\ t.E = EE /\ t.W = st.W /\ t.foreground = st.foreground
      /\ t.screwed_up = st.screwed_up /\ t.saturated = st.saturated
  BY <1>1, <1>6 DEF MidType
<1>10. t.E.ages \subseteq {1}
  <2>1. \A a \in st.E.ages : a = 0
    BY DEF EchoInv
  <2>2. QED
    BY <1>7, <1>9, <2>1 DEF Older
<1>11. st.E.ages = {} => t.E.ages = {}
  BY <1>7, <1>9 DEF Older
<1>12. Guarded(t)
  BY <1>7, <1>9, <1>11 DEF Guarded, EchoInv
<1>13. QED
  BY <1>3, <1>8, <1>9, <1>10, <1>12 DEF EchoInv, t

(* What the stages after the shift keep.                                   *)
Background(st) ==
    /\ st \in MidType
    /\ st.screwed_up < ScrewedLimit
    /\ Placed(st.X)
    /\ Clean(st.W) /\ Clean(st.foreground)

\* A clean block, its far end and an error that may go into it.
Fits(b, j, far, E) ==
    /\ b \in BlockType /\ b.lags \subseteq {j} /\ b.clipped = FALSE
    /\ far \subseteq {j + 1}
    /\ E.ages \subseteq {1} /\ E.clipped \in BOOLEAN
    /\ E.ages = {} \/ E.clipped = FALSE
Kept(b, j) == b \in BlockType /\ b.lags \subseteq {j} /\ b.clipped = FALSE

LEMMA LearntClean ==
  ASSUME NEW b, NEW j \in Taps, NEW far, NEW E, Fits(b, j, far, E)
  PROVE  Kept(Learnt(b, far, E), j)
<1> USE DEF Fits, Kept
<1>1. CASE far = {} \/ E.ages = {}
  BY <1>1 DEF Learnt
<1>2. CASE ~(far = {} \/ E.ages = {})
  <2> DEFINE lags == b.lags \cup {x - e : x \in far, e \in E.ages}
             more == b.age + 1
             clip == b.clipped \/ E.clipped
  <2>1. j \in Int
    BY DEF Taps
  <2>2. lags \subseteq {j} /\ lags \in SUBSET Int
    <3>1. \A x \in far, e \in E.ages : x - e = j
      BY <2>1
    <3>2. QED
      BY <2>1, <3>1
  <2>3. more \in Nat
    BY DEF BlockType
  <2>4. clip = FALSE
    BY <1>2
  <2>5. Learnt(b, far, E) = [lags |-> lags, clipped |-> clip, age |-> more]
    BY <1>2 DEF Learnt
  <2> HIDE DEF lags, more, clip
  <2>6. Learnt(b, far, E) = [lags |-> lags, clipped |-> FALSE, age |-> more]
    BY <2>4, <2>5
  <2>7. QED
    BY <2>2, <2>3, <2>6 DEF BlockType
<1>3. QED
  BY <1>1, <1>2

(* The gradient keeps the filters clean: the error is a frame old when the *)
(* far end of block j+1 is j+1 frames old, and a clipped error stops it.   *)
LEMMA GradientStep ==
  ASSUME NEW st, Background(st), st.E.ages \subseteq {1}, Guarded(st)
  PROVE  Background(ComputeGradient(st))
<1> DEFINE prop == IF st.adapted THEN "response" ELSE st.prop
           ready == [st EXCEPT !.prop = prop]
           W == [j \in Taps |-> [s \in Speakers |->
                     Learnt(st.W[j][s], st.X[j + 1][s], st.E)]]
           off == st.saturated - 1
           t == ComputeGradient(st)
<1>1. st \in MidType
  BY DEF Background
<1>2. prop \in Props
  BY <1>1 DEF MidType, Props
<1>3. ready \in MidType
  <2> HIDE DEF prop
  <2>1. QED
    BY <1>1, <1>2 DEF MidType
<1>4. /\ ready.W = st.W /\ ready.X = st.X /\ ready.foreground = st.foreground
      /\ ready.saturated = st.saturated /\ ready.screwed_up = st.screwed_up
  <2> HIDE DEF prop
  <2>1. QED
    BY <1>1 DEF MidType
<1>5. CASE st.saturated = 0
  <2>1. W \in FilterType /\ Clean(W)
    <3>1. ASSUME NEW j \in Taps, NEW s \in Speakers
          PROVE  Kept(Learnt(st.W[j][s], st.X[j + 1][s], st.E), j)
      <4>1. st.W[j][s] \in BlockType
        BY <1>1 DEF MidType, FilterType
      <4>2. st.W[j][s].lags \subseteq {j} /\ st.W[j][s].clipped = FALSE
        BY DEF Background, Clean, CleanBlock
      <4>3. j + 1 \in 0 .. M
        BY EchoAssumption DEF Taps
      <4>4. st.X[j + 1][s] \subseteq {j + 1}
        BY <4>3 DEF Background, Placed
      <4>5. st.E.clipped \in BOOLEAN
        BY <1>1 DEF MidType
      <4>6. st.E.ages = {} \/ st.E.clipped = FALSE
        BY <1>5 DEF Guarded
      <4>7. Fits(st.W[j][s], j, st.X[j + 1][s], st.E)
        BY <4>1, <4>2, <4>4, <4>5, <4>6 DEF Fits
      <4>8. QED
        BY <4>7, LearntClean
    <3>2. QED
      BY <3>1 DEF FilterType, Clean, CleanBlock, Kept
  <2>2. t = [ready EXCEPT !.W = W]
    BY <1>4, <1>5 DEF AdjustProp, ComputeGradient
  <2> HIDE DEF t, ready, W
  <2>3. t \in MidType
    BY <1>3, <2>1, <2>2 DEF MidType
  <2>4. /\ t.W = W /\ t.X = st.X /\ t.foreground = st.foreground
        /\ t.screwed_up = st.screwed_up
    BY <1>3, <1>4, <2>2 DEF MidType
  <2>5. QED
    BY <2>1, <2>3, <2>4 DEF Background, t
<1>6. CASE st.saturated # 0
  <2>1. off \in Flag
    BY <1>1, <1>6 DEF MidType, Flag
  <2>2. t = [ready EXCEPT !.saturated = off]
    BY <1>4, <1>6 DEF AdjustProp, ComputeGradient
  <2> HIDE DEF t, ready, off
  <2>3. t \in MidType
    BY <1>3, <2>1, <2>2 DEF MidType
  <2>4. /\ t.W = st.W /\ t.X = st.X /\ t.foreground = st.foreground
        /\ t.screwed_up = st.screwed_up
    BY <1>3, <1>4, <2>2 DEF MidType
  <2>5. QED
    BY <2>3, <2>4 DEF Background, t
<1>7. QED
  BY <1>5, <1>6

LEMMA ConstrainStep ==
  ASSUME NEW st, Background(st)
  PROVE  Background(ConstrainWeights(st))
<1> DEFINE W == [j \in Taps |->
                   IF Constrained(j, st.cancel_count)
                   THEN [s \in Speakers |-> [st.W[j][s] EXCEPT !.age = 0]]
                   ELSE st.W[j]]
           t == ConstrainWeights(st)
<1>1. st \in MidType
  BY DEF Background
<1>2. W \in FilterType /\ Clean(W)
  <2>1. ASSUME NEW j \in Taps, NEW s \in Speakers
        PROVE  /\ st.W[j][s] \in BlockType /\ CleanBlock(st.W, j, s)
               /\ [st.W[j][s] EXCEPT !.age = 0] \in BlockType
               /\ [st.W[j][s] EXCEPT !.age = 0].lags = st.W[j][s].lags
               /\ [st.W[j][s] EXCEPT !.age = 0].clipped = st.W[j][s].clipped
    <3>1. st.W[j][s] \in BlockType
      BY <1>1 DEF MidType, FilterType
    <3>2. CleanBlock(st.W, j, s)
      BY DEF Background, Clean
    <3>3. QED
      BY <3>1, <3>2 DEF BlockType
  <2>2. ASSUME NEW j \in Taps
        PROVE  W[j] \in [Speakers -> BlockType] /\ \A s \in Speakers : CleanBlock(W, j, s)
    <3>1. CASE Constrained(j, st.cancel_count)
      <4>1. W[j] = [s \in Speakers |-> [st.W[j][s] EXCEPT !.age = 0]]
        BY <3>1
      <4>2. \A s \in Speakers : /\ W[j][s] \in BlockType
                                /\ W[j][s].lags = st.W[j][s].lags
                                /\ W[j][s].clipped = st.W[j][s].clipped
        BY <2>1, <4>1
      <4> HIDE DEF W
      <4>3. QED
        BY <2>1, <4>1, <4>2 DEF CleanBlock
    <3>2. CASE ~Constrained(j, st.cancel_count)
      <4>1. st.W[j] \in [Speakers -> BlockType]
        BY <1>1 DEF MidType, FilterType
      <4>2. QED
        BY <2>1, <3>2, <4>1 DEF CleanBlock
    <3>3. QED
      BY <3>1, <3>2
  <2>3. QED
    BY <2>2 DEF FilterType, Clean
<1>3. t = [st EXCEPT !.W = W]
  BY DEF ConstrainWeights
<1> HIDE DEF t, W
<1>4. t \in MidType
  BY <1>1, <1>2, <1>3 DEF MidType
<1>5. /\ t.W = W /\ t.X = st.X /\ t.foreground = st.foreground
      /\ t.screwed_up = st.screwed_up
  BY <1>1, <1>3 DEF MidType
<1>6. QED
  BY <1>2, <1>4, <1>5 DEF Background, t

(* Whatever the verdict, the error and the output that come out of it are  *)
(* those of the filters that come out of it.                               *)
Settled(judged) ==
    /\ Background(judged.state)
    /\ judged.sig.head = judged.state.W
    /\ judged.sig.tail = judged.state.foreground

LEMMA UpdateStep ==
  ASSUME NEW st, Background(st)
  PROVE  Settled(UpdateForeground(st, Signals(st)))
<1> DEFINE W == st.W
           t == [st EXCEPT !.foreground = W]
<1>1. st \in MidType
  BY DEF Background
<1>2. W \in FilterType
  BY <1>1 DEF MidType
<1>3. t \in MidType
  <2> HIDE DEF W
  <2>1. QED
    BY <1>1, <1>2 DEF MidType
<1>4. /\ t.W = st.W /\ t.X = st.X /\ t.foreground = st.W
      /\ t.screwed_up = st.screwed_up
  BY <1>1 DEF MidType
<1>5. Background(t)
  BY <1>3, <1>4 DEF Background
<1>6. /\ UpdateForeground(st, Signals(st)).state = t
      /\ UpdateForeground(st, Signals(st)).sig.head = st.W
      /\ UpdateForeground(st, Signals(st)).sig.tail = st.W
  BY DEF UpdateForeground, Signals
<1>7. QED
  BY <1>4, <1>5, <1>6 DEF Settled

LEMMA BacktrackStep ==
  ASSUME NEW st, Background(st)
  PROVE  Settled(ResetBackground(st, Signals(st)))
<1> DEFINE F == st.foreground
           D == st.disturbed + 1
           t == [st EXCEPT !.W = F, !.disturbed = D]
<1>1. st \in MidType
  BY DEF Background
<1>2. F \in FilterType /\ D \in Nat
  BY <1>1 DEF MidType
<1>3. t \in MidType
  <2> HIDE DEF F, D
  <2>1. QED
    BY <1>1, <1>2 DEF MidType
<1>4. /\ t.W = st.foreground /\ t.X = st.X /\ t.foreground = st.foreground
      /\ t.screwed_up = st.screwed_up
  <2> HIDE DEF D
  <2>1. QED
    BY <1>1 DEF MidType
<1>5. Background(t)
  BY <1>3, <1>4 DEF Background
<1>6. /\ ResetBackground(st, Signals(st)).state = t
      /\ ResetBackground(st, Signals(st)).sig.head = st.foreground
      /\ ResetBackground(st, Signals(st)).sig.tail = st.foreground
  BY DEF ResetBackground, Signals
<1>7. QED
  BY <1>4, <1>5, <1>6 DEF Settled

LEMMA JudgeStep ==
  ASSUME NEW st, Background(st), NEW v \in {"keep", "update", "backtrack"}
  PROVE  Settled(Judge(st, v))
<1>1. CASE v = "update"
  BY <1>1, UpdateStep DEF Judge
<1>2. CASE v = "backtrack"
  BY <1>2, BacktrackStep DEF Judge
<1>3. CASE v = "keep"
  BY <1>3 DEF Judge, Settled, Signals
<1>4. QED
  BY <1>1, <1>2, <1>3

(* The error and the test for clipping establish the invariant again.      *)
LEMMA ErrorStep ==
  ASSUME NEW judged, Settled(judged), NEW clip \in BOOLEAN
  PROVE  EchoInv(ErrorSignal(judged, clip))
<1> DEFINE st == judged.state
           sat == IF clip /\ st.saturated = 0 THEN 1 ELSE st.saturated
           T == judged.sig.tail
           H == judged.sig.head
           E == [ages |-> {0}, clipped |-> clip, of |-> H]
           t == ErrorSignal(judged, clip)
<1>1. st \in MidType
  BY DEF Settled, Background
<1>2. sat \in Flag /\ (clip => sat = 1)
  BY <1>1 DEF MidType, Flag
<1>3. T \in FilterType /\ H \in FilterType /\ H = st.W /\ T = st.foreground
  BY <1>1 DEF Settled, MidType
<1>4. E \in [ages : SUBSET Nat, clipped : BOOLEAN, of : FilterType]
  BY <1>3
<1>5. t = [st EXCEPT !.saturated = sat, !.tail = T, !.E = E]
  BY DEF ErrorSignal
<1>6. E.ages = {0} /\ E.of = H /\ (clip = FALSE => E.clipped = FALSE)
  OBVIOUS
<1> HIDE DEF st, sat, T, H, E, t
<1>7. t \in MidType
  BY <1>1, <1>2, <1>3, <1>4, <1>5 DEF MidType
<1>8. /\ t.E = E /\ t.tail = T /\ t.saturated = sat /\ t.W = st.W
      /\ t.foreground = st.foreground /\ t.X = st.X /\ t.screwed_up = st.screwed_up
  BY <1>1, <1>5 DEF MidType
<1>9. Guarded(t)
  BY <1>2, <1>6, <1>8 DEF Guarded
<1>10. Background(st)
  BY DEF Settled, st
<1>11. QED
  BY <1>3, <1>6, <1>7, <1>8, <1>9, <1>10 DEF EchoInv, Background, t

(* The checks and the rates at the end of the frame leave it alone.        *)
LEMMA SanityStep ==
  ASSUME NEW st, EchoInv(st), NEW sanity \in {"ok", "worse", "bad"}
  PROVE  LET t == SanityCheck(st, sanity)
         IN  /\ t \in MidType /\ Placed(t.X) /\ Clean(t.W) /\ Clean(t.foreground)
             /\ (t.screwed_up < ScrewedLimit => EchoInv(t))
<1> DEFINE n == CASE sanity = "bad"   -> st.screwed_up + ScrewedLimit
                  [] sanity = "worse" -> st.screwed_up + 1
                  [] sanity = "ok"    -> 0
           t == SanityCheck(st, sanity)
<1>1. st \in MidType
  BY DEF EchoInv
<1>2. n \in Nat
  <2>1. st.screwed_up \in Nat /\ ScrewedLimit \in Nat
    BY <1>1, EchoAssumption DEF MidType
  <2>2. QED
    BY <2>1
<1>3. t = [st EXCEPT !.screwed_up = n]
  BY DEF SanityCheck
<1> HIDE DEF t, n
<1>4. t \in MidType
  BY <1>1, <1>2, <1>3 DEF MidType
<1>5. /\ t.E = st.E /\ t.tail = st.tail /\ t.saturated = st.saturated
      /\ t.W = st.W /\ t.foreground = st.foreground /\ t.X = st.X
      /\ t.cancel_count = st.cancel_count
  BY <1>1, <1>3 DEF MidType
<1>6. QED
  BY <1>4, <1>5 DEF EchoInv, Guarded, t

LEMMA RateStep ==
  ASSUME NEW st, EchoInv(st), NEW f \in Courses
  PROVE  EchoInv(LearningRate(st, f))
<1> DEFINE a == st.adapted \/ (st.sum_adapt > AdaptLimit /\ f.leak)
           more == IF st.sum_adapt > AdaptLimit THEN st.sum_adapt
                   ELSE st.sum_adapt + f.rate
           sum == IF a THEN st.sum_adapt ELSE more
           t == LearningRate(st, f)
<1>1. st \in MidType
  BY DEF EchoInv
<1>2. f.rate \in {0, 1} /\ f.leak \in BOOLEAN
  BY DEF Courses
<1>3. st.sum_adapt \in Sums /\ AdaptLimit \in Nat /\ st.adapted \in BOOLEAN
  BY <1>1, EchoAssumption DEF MidType
<1>4. more \in Sums
  BY <1>2, <1>3 DEF Sums
<1>5. sum \in Sums
  BY <1>3, <1>4
<1>6. a \in BOOLEAN
  BY <1>2, <1>3
<1>7. "estimated" \in Estimates
  BY DEF Estimates
<1>8. t = [st EXCEPT !.leak_estimate = "estimated", !.adapted = a, !.sum_adapt = sum]
  BY DEF LearningRate
<1> HIDE DEF a, more, sum, t
<1>9. t \in MidType
  BY <1>1, <1>5, <1>6, <1>7, <1>8 DEF MidType
<1>10. /\ t.E = st.E /\ t.tail = st.tail /\ t.saturated = st.saturated
       /\ t.W = st.W /\ t.foreground = st.foreground /\ t.X = st.X
       /\ t.screwed_up = st.screwed_up /\ t.cancel_count = st.cancel_count
  BY <1>1, <1>8 DEF MidType
<1>11. QED
  BY <1>9, <1>10 DEF EchoInv, Guarded, t

LEMMA LastEchoStep ==
  ASSUME NEW st, EchoInv(st)
  PROVE  EchoInv(LastEcho(st))
<1> DEFINE newer == IF st.adapted THEN {0} ELSE st.last_y.newer
           L == Pair(st.last_y.newer, newer)
           t == LastEcho(st)
<1>1. st \in MidType
  BY DEF EchoInv
<1>2. st.last_y.newer \in SUBSET (0 .. 2)
  BY <1>1 DEF MidType, PairType
<1>3. newer \in SUBSET (0 .. 2)
  BY <1>2
<1>4. L \in PairType
  BY <1>2, <1>3 DEF Pair, PairType
<1>5. t = [st EXCEPT !.last_y = L]
  BY DEF LastEcho
<1> HIDE DEF newer, L, t
<1>6. t \in MidType
  BY <1>1, <1>4, <1>5 DEF MidType
<1>7. /\ t.E = st.E /\ t.tail = st.tail /\ t.saturated = st.saturated
      /\ t.W = st.W /\ t.foreground = st.foreground /\ t.X = st.X
      /\ t.screwed_up = st.screwed_up /\ t.cancel_count = st.cancel_count
  BY <1>1, <1>5 DEF MidType
<1>8. QED
  BY <1>6, <1>7 DEF EchoInv, Guarded, t

(* A whole frame keeps the invariant, whatever it brings.                  *)
LEMMA FrameInv ==
  ASSUME NEW st, EchoInv(st), NEW f \in Courses
  PROVE  EchoInv(Frame(st, f))
<1> DEFINE shifted == ShiftMemory(st)
           background == ConstrainWeights(ComputeGradient(shifted))
           heard == ErrorSignal(Judge(background, f.verdict), f.clip)
           checked == SanityCheck(heard, f.sanity)
<1>1. /\ f.clip \in BOOLEAN /\ f.verdict \in {"keep", "update", "backtrack"}
      /\ f.sanity \in {"ok", "worse", "bad"}
  BY DEF Courses
<1>2. Background(shifted) /\ shifted.E.ages \subseteq {1} /\ Guarded(shifted)
  BY ShiftStep DEF Background
<1>3. Background(background)
  BY <1>2, GradientStep, ConstrainStep
<1>4. EchoInv(heard)
  BY <1>1, <1>3, JudgeStep, ErrorStep
<1>5. /\ checked \in MidType /\ Placed(checked.X) /\ Clean(checked.W)
      /\ Clean(checked.foreground)
      /\ (checked.screwed_up < ScrewedLimit => EchoInv(checked))
  BY <1>1, <1>4, SanityStep
<1>6. Frame(st, f) = IF checked.screwed_up >= ScrewedLimit THEN EchoReset(checked)
                     ELSE LastEcho(LearningRate(checked, f))
  BY DEF Frame
<1> HIDE DEF checked
<1>7. CASE checked.screwed_up >= ScrewedLimit
  BY <1>5, <1>6, <1>7, ResetInv
<1>8. CASE ~(checked.screwed_up >= ScrewedLimit)
  <2>1. checked.screwed_up \in Nat
    BY <1>5 DEF MidType
  <2>2. EchoInv(checked)
    BY <1>5, <1>8, <2>1, EchoAssumption
  <2>3. QED
    BY <1>6, <1>8, <2>2, RateStep, LastEchoStep
<1>9. QED
  BY <1>7, <1>8

-----------------------------------------------------------------------------
(* The preprocessor.                                                       *)

(* A new element at the head of the latest n ones, and the others behind.  *)
LEMMA LatestSeq ==
  ASSUME NEW T, NEW x \in T, NEW seq \in Seq(T), NEW n \in Nat \ {0},
         NEW l, l = Latest(x, seq, n)
  PROVE  /\ l \in Seq(T)
         /\ Len(l) = Lesser(Len(seq) + 1, n)
         /\ l[1] = x
<1> DEFINE k == Lesser(Len(seq) + 1, n)
           f == [i \in 1 .. k |-> IF i = 1 THEN x ELSE seq[i - 1]]
<1>1. Len(seq) \in Nat /\ k \in Nat /\ k >= 1 /\ k <= Len(seq) + 1
  BY DEF Lesser
<1>2. \A i \in 1 .. k : i # 1 => i - 1 \in 1 .. Len(seq)
  BY <1>1
<1>3. \A i \in 1 .. k : (IF i = 1 THEN x ELSE seq[i - 1]) \in T
  BY <1>2
<1> HIDE DEF k
<1>4. f \in Seq(T) /\ Len(f) = k
  BY <1>1, <1>3
<1>5. f[1] = x
  BY <1>1
<1>6. l = f
  BY DEF Latest, k
<1> HIDE DEF f
<1>7. QED
  BY <1>4, <1>5, <1>6 DEF k

LEMMA LatestOld ==
  ASSUME NEW T, NEW x \in T, NEW seq \in Seq(T), NEW n \in Nat \ {0},
         NEW l, l = Latest(x, seq, n), NEW i \in 2 .. Len(l)
  PROVE  i - 1 \in 1 .. Len(seq) /\ l[i] = seq[i - 1]
<1>1. Len(l) = Lesser(Len(seq) + 1, n) /\ Len(seq) \in Nat
  BY LatestSeq
<1>2. i - 1 \in 1 .. Len(seq) /\ i \in 1 .. Lesser(Len(seq) + 1, n) /\ i # 1
  BY <1>1 DEF Lesser
<1>3. QED
  BY <1>2 DEF Latest

LEMMA LeastAppend ==
  ASSUME NEW seq \in Seq(Nat), NEW x \in Nat, NEW S \in Nat,
         NEW from \in 1 .. Len(seq), Least(seq, x, from)
  PROVE  Least(Append(seq, S), Lesser(x, S), from)
<1> DEFINE app == Append(seq, S)
<1>1. /\ Len(app) = Len(seq) + 1 /\ app[Len(seq) + 1] = S
      /\ \A i \in 1 .. Len(seq) : app[i] = seq[i]
      /\ Len(seq) \in Nat
  OBVIOUS
<1>2. \A i \in 1 .. Len(seq) : seq[i] \in Nat
  OBVIOUS
<1> HIDE DEF app
<1>3. \E i \in from .. Len(app) : app[i] = Lesser(x, S)
  <2>1. CASE x < S
    BY <1>1, <2>1 DEF Least, Lesser
  <2>2. CASE ~(x < S)
    BY <1>1, <2>2 DEF Lesser
  <2>3. QED
    BY <2>1, <2>2
<1>4. \A i \in from .. Len(app) : Lesser(x, S) <= app[i]
  <2>1. ASSUME NEW i \in from .. Len(app)
        PROVE  Lesser(x, S) <= app[i]
    <3>1. CASE i = Len(seq) + 1
      BY <1>1, <3>1 DEF Lesser
    <3>2. CASE i # Len(seq) + 1
      <4>1. i \in from .. Len(seq) /\ i \in 1 .. Len(seq)
        BY <1>1, <3>2
      <4>2. x <= seq[i] /\ app[i] = seq[i] /\ seq[i] \in Nat
        BY <1>1, <1>2, <4>1 DEF Least
      <4>3. QED
        BY <4>2 DEF Lesser
    <3>3. QED
      BY <3>1, <3>2
  <2>2. QED
    BY <2>1
<1>5. QED
  BY <1>3, <1>4 DEF Least, app

LEMMA LeastLast ==
  ASSUME NEW seq \in Seq(Nat), NEW S \in Nat
  PROVE  Least(Append(seq, S), S, Len(seq) + 1)
  BY DEF Least

(* Between two runs: Stmp is the minimum of the window that runs, Smin of  *)
(* that one and the one before, and no window is longer than the longest.  *)
WindowInv(p) ==
    LET start == Len(p.seen) - p.min_count
    IN  /\ p.since \in 1 .. start
        /\ start - p.since <= Windows[4] + 1
        /\ Least(p.seen, p.Stmp, start)
        /\ Least(p.seen, p.Smin, p.since)
PreInv(p) ==
    /\ p \in PreType
    /\ WindowInv(p)
    /\ p.nb_adapt = 0 => p.Smin = 0 /\ p.Stmp = 0

LEMMA FreshPreInv ==
  ASSUME NEW made \in BOOLEAN
  PROVE  PreInv(Fresh(made))
<1> DEFINE p == Fresh(made)
<1>1. Windows[4] \in Nat /\ AdaptCap \in Nat
  BY PreAssumption
<1>2. /\ 0 \in Adapts /\ 0 \in Ranges /\ <<>> \in Seq(PairType) /\ <<0>> \in Seq(Nat)
      /\ Nothing \in FrameType /\ Nothing \in OutType
      /\ {} \in SUBSET {0} /\ 1 \in Nat \ {0}
  BY <1>1 DEF Adapts, Ranges, Nothing, Pair, PairType, FrameType, OutType
<1>3. p \in PreType
  BY <1>2 DEF Fresh, PreType
<1>4. /\ p.seen = <<0>> /\ p.min_count = 0 /\ p.since = 1 /\ p.Smin = 0
      /\ p.Stmp = 0 /\ p.nb_adapt = 0
  BY DEF Fresh
<1>5. Least(<<0>>, 0, 1) /\ Len(<<0>>) = 1
  BY DEF Least
<1> HIDE DEF p
<1>6. WindowInv(p)
  BY <1>1, <1>4, <1>5 DEF WindowInv
<1>7. QED
  BY <1>3, <1>4, <1>6 DEF PreInv, p

(* A request to the preprocessor leaves what it tracks alone.              *)
LEMMA CtlPreInv ==
  ASSUME NEW p, PreInv(p), NEW on \in BOOLEAN
  PROVE  PreInv(SetDenoise(p, on)) /\ PreInv(SetEchoState(p))
<1>1. p \in PreType
  BY DEF PreInv
<1>2. SetDenoise(p, on) \in PreType /\ SetEchoState(p) \in PreType
  BY <1>1 DEF SetDenoise, SetEchoState, PreType
<1>3. \A q \in {SetDenoise(p, on), SetEchoState(p)} :
        /\ q.seen = p.seen /\ q.min_count = p.min_count /\ q.since = p.since
        /\ q.Smin = p.Smin /\ q.Stmp = p.Stmp /\ q.nb_adapt = p.nb_adapt
  BY <1>1 DEF SetDenoise, SetEchoState, PreType
<1>4. QED
  BY <1>2, <1>3 DEF PreInv, WindowInv

LEMMA RangeBound ==
  ASSUME NEW nb \in Nat
  PROVE  MinRange(nb) \in Nat /\ MinRange(nb) <= Windows[4]
<1>1. /\ Steps[1] \in Nat /\ Steps[2] \in Nat /\ Steps[3] \in Nat
      /\ \A i \in 1 .. 4 : Windows[i] \in Nat /\ Windows[i] <= Windows[4]
  BY PreAssumption
<1>2. MinRange(nb) \in {Windows[1], Windows[2], Windows[3], Windows[4]}
  BY <1>1 DEF MinRange
<1>3. QED
  BY <1>1, <1>2

(* The counters go up and the floor is still zero before the first frame;  *)
(* the type leaves room for the count that ends a window.                  *)
CountedType ==
    [made : BOOLEAN, denoise : BOOLEAN, echo_state : BOOLEAN,
     nb_adapt : Adapts, min_count : Nat, Smin : Nat, Stmp : Nat,
     inbuf : SUBSET {0}, outbuf : SUBSET {0},
     frame : FrameType, echo_noise : Seq(PairType), suppressed : Seq(PairType),
     out : OutType,
     seen : Seq(Nat), since : Nat \ {0}]
Counted(p, q) ==
    /\ q \in CountedType
    /\ q.min_count = p.min_count + 1
    /\ q.nb_adapt # 0
    /\ q.nb_adapt = 1 => p.nb_adapt = 0
    /\ q.Smin = p.Smin /\ q.Stmp = p.Stmp /\ q.seen = p.seen /\ q.since = p.since

LEMMA CountStep ==
  ASSUME NEW p \in PreType
  PROVE  Counted(p, CountFrame(p))
<1> DEFINE nb == IF p.nb_adapt + 1 > AdaptCap THEN AdaptCap ELSE p.nb_adapt + 1
           mc == p.min_count + 1
           q == CountFrame(p)
<1>1. p.nb_adapt \in 0 .. AdaptCap /\ p.min_count \in Nat /\ AdaptCap \in Nat \ {0, 1}
  BY PreAssumption DEF PreType, Adapts, Ranges
<1>2. nb \in Adapts /\ nb # 0 /\ (nb = 1 => p.nb_adapt = 0) /\ mc \in Nat
  BY <1>1 DEF Adapts
<1>3. q = [p EXCEPT !.nb_adapt = nb, !.min_count = mc]
  BY DEF CountFrame
<1>4. p \in CountedType
  BY <1>1 DEF PreType, CountedType
<1> HIDE DEF nb, q
<1>5. q.nb_adapt = nb /\ q.min_count = mc
  BY <1>3, <1>4 DEF CountedType
<1>6. q \in CountedType
  <2> HIDE DEF mc
  <2>1. QED
    BY <1>2, <1>3, <1>4 DEF CountedType
<1>7. q.Smin = p.Smin /\ q.Stmp = p.Stmp /\ q.seen = p.seen /\ q.since = p.since
  BY <1>3, <1>4 DEF CountedType
<1>8. QED
  BY <1>2, <1>5, <1>6, <1>7 DEF Counted, q

LEMMA FramingStep ==
  ASSUME NEW p, NEW q, Counted(p, q), NEW r \in PairType, NEW bad \in BOOLEAN
  PROVE  Counted(p, Analysis(TakeResidual(q, r, bad)))
<1> DEFINE res == IF bad THEN Nothing ELSE r
           noise == IF q.echo_state THEN Latest(res, q.echo_noise, Fade) ELSE <<>>
           q1 == TakeResidual(q, r, bad)
           fr == Pair(Older(q1.inbuf), {0})
           q2 == Analysis(q1)
<1>1. q \in CountedType
  BY DEF Counted
<1>2. Nothing \in PairType
  BY DEF Nothing, Pair, PairType
<1>3. noise \in Seq(PairType)
  <2>1. q.echo_noise \in Seq(PairType) /\ res \in PairType
    BY <1>1, <1>2 DEF CountedType
  <2> HIDE DEF res
  <2>2. Latest(res, q.echo_noise, Fade) \in Seq(PairType)
    BY <2>1, LatestSeq, PreAssumption
  <2>3. QED
    BY <2>2
<1>4. q1 = [q EXCEPT !.echo_noise = noise]
  BY DEF TakeResidual
<1>5. q1 \in CountedType
  <2> HIDE DEF q1, noise
  <2>1. QED
    BY <1>1, <1>3, <1>4 DEF CountedType
<1>6. /\ q1.Smin = q.Smin /\ q1.Stmp = q.Stmp /\ q1.seen = q.seen
      /\ q1.since = q.since /\ q1.nb_adapt = q.nb_adapt /\ q1.min_count = q.min_count
  <2> HIDE DEF q1, noise
  <2>1. QED
    BY <1>1, <1>4 DEF CountedType
<1> HIDE DEF q1
<1>7. fr \in FrameType
  <2>1. q1.inbuf \subseteq {0}
    BY <1>5 DEF CountedType
  <2>2. Older(q1.inbuf) \subseteq {1}
    BY <2>1 DEF Older
  <2>3. QED
    BY <2>2 DEF Pair, FrameType
<1>8. q2 = [q1 EXCEPT !.frame = fr, !.inbuf = {0}]
  BY DEF Analysis
<1>9. {0} \in SUBSET {0}
  OBVIOUS
<1> HIDE DEF fr, q2
<1>10. q2 \in CountedType
  BY <1>5, <1>7, <1>8, <1>9 DEF CountedType
<1>11. /\ q2.Smin = q1.Smin /\ q2.Stmp = q1.Stmp /\ q2.seen = q1.seen
       /\ q2.since = q1.since /\ q2.nb_adapt = q1.nb_adapt /\ q2.min_count = q1.min_count
  BY <1>5, <1>8 DEF CountedType
<1>12. QED
  BY <1>6, <1>10, <1>11 DEF Counted, q2, q1

LEMMA FirstFrameNothing ==
  ASSUME NEW p, PreInv(p), NEW q, Counted(p, q)
  PROVE  Counted(p, FirstFrame(q))
<1>1. CASE q.nb_adapt = 1
  <2> DEFINE t == FirstFrame(q)
  <2>1. q.Smin = 0 /\ q.Stmp = 0 /\ q \in CountedType
    BY <1>1 DEF Counted, PreInv
  <2>2. t = [q EXCEPT !.Smin = 0, !.Stmp = 0]
    BY <1>1 DEF FirstFrame
  <2> HIDE DEF t
  <2>3. t \in CountedType
    BY <2>1, <2>2 DEF CountedType
  <2>4. /\ t.Smin = 0 /\ t.Stmp = 0 /\ t.seen = q.seen /\ t.since = q.since
        /\ t.nb_adapt = q.nb_adapt /\ t.min_count = q.min_count
    BY <2>1, <2>2 DEF CountedType
  <2>5. QED
    BY <2>1, <2>3, <2>4 DEF Counted, t
<1>2. CASE q.nb_adapt # 1
  BY <1>2 DEF FirstFrame
<1>3. QED
  BY <1>1, <1>2

(* A window ends: its minimum becomes the last one, the next begins.       *)
LEMMA RestartStep ==
  ASSUME NEW p, PreInv(p), NEW q, Counted(p, q), NEW S \in Nat
  PROVE  PreInv(RestartWindow(q, S))
<1> DEFINE least == Lesser(q.Stmp, S)
           begun == Len(q.seen) + 1 - q.min_count
           app == Append(q.seen, S)
           t == RestartWindow(q, S)
           start == Len(p.seen) - p.min_count
<1>1. /\ q \in CountedType /\ q.Stmp = p.Stmp /\ q.seen = p.seen
      /\ q.min_count = p.min_count + 1 /\ q.nb_adapt # 0
  BY DEF Counted
<1>2. /\ p.seen \in Seq(Nat) /\ p.min_count \in 0 .. Windows[4] /\ p.Stmp \in Nat
      /\ Len(p.seen) \in Nat /\ Windows[4] \in Nat
  BY PreAssumption DEF PreInv, PreType, Ranges
<1>3. /\ p.since \in 1 .. start /\ Least(p.seen, p.Stmp, start)
  BY DEF PreInv, WindowInv
<1>4. begun = start /\ start \in 1 .. Len(p.seen)
  <2>1. begun = Len(p.seen) + 1 - (p.min_count + 1)
    BY <1>1
  <2>2. QED
    BY <1>2, <1>3, <2>1, SMTT(30)
<1>5. Least(app, least, start)
  BY <1>1, <1>2, <1>3, <1>4, LeastAppend
<1>6. Least(app, S, Len(p.seen) + 1) /\ Len(app) = Len(p.seen) + 1 /\ app \in Seq(Nat)
  BY <1>1, <1>2, LeastLast
<1>7. least \in Nat /\ begun \in Nat \ {0} /\ 0 \in Ranges
  BY <1>1, <1>2, <1>4 DEF Lesser, Ranges
<1>8. t = [q EXCEPT !.min_count = 0, !.Smin = least, !.Stmp = S,
                    !.since = begun, !.seen = app]
  BY DEF RestartWindow
<1>9. q.nb_adapt # 0 /\ start \in Int
  BY <1>1, <1>2
<1> HIDE DEF least, begun, app, t
<1>10. t \in PreType
  BY <1>1, <1>6, <1>7, <1>8 DEF CountedType, PreType
<1>11. /\ t.min_count = 0 /\ t.Smin = least /\ t.Stmp = S /\ t.since = begun
       /\ t.seen = app /\ t.nb_adapt = q.nb_adapt
  BY <1>1, <1>8 DEF CountedType
<1>12. Len(t.seen) - t.min_count = Len(p.seen) + 1
  BY <1>2, <1>6, <1>11
<1>13. WindowInv(t)
  <2>1. t.since \in 1 .. Len(p.seen) + 1
    BY <1>2, <1>4, <1>11
  <2>2. Len(p.seen) + 1 - t.since <= Windows[4] + 1
    <3>1. t.since = Len(p.seen) - p.min_count
      BY <1>4, <1>11
    <3>2. QED
      BY <1>2, <3>1
  <2>3. Least(t.seen, t.Stmp, Len(p.seen) + 1) /\ Least(t.seen, t.Smin, t.since)
    BY <1>4, <1>5, <1>6, <1>11
  <2>4. QED
    BY <1>12, <2>1, <2>2, <2>3 DEF WindowInv
<1>14. QED
  BY <1>9, <1>10, <1>11, <1>13 DEF PreInv, t

LEMMA ContinueStep ==
  ASSUME NEW p, PreInv(p), NEW q, Counted(p, q), NEW S \in Nat,
         q.min_count <= Windows[4]
  PROVE  PreInv(ContinueWindow(q, S))
<1> DEFINE least == Lesser(q.Smin, S)
           ltmp == Lesser(q.Stmp, S)
           app == Append(q.seen, S)
           t == ContinueWindow(q, S)
           start == Len(p.seen) - p.min_count
<1>1. /\ q \in CountedType /\ q.Stmp = p.Stmp /\ q.Smin = p.Smin /\ q.seen = p.seen
      /\ q.since = p.since /\ q.min_count = p.min_count + 1 /\ q.nb_adapt # 0
  BY DEF Counted
<1>2. /\ p.seen \in Seq(Nat) /\ p.min_count \in 0 .. Windows[4] /\ p.Stmp \in Nat
      /\ p.Smin \in Nat /\ Len(p.seen) \in Nat /\ Windows[4] \in Nat
  BY PreAssumption DEF PreInv, PreType, Ranges
<1>3. /\ p.since \in 1 .. start /\ start - p.since <= Windows[4] + 1
      /\ Least(p.seen, p.Stmp, start) /\ Least(p.seen, p.Smin, p.since)
  BY DEF PreInv, WindowInv
<1>4. start \in 1 .. Len(p.seen) /\ p.since \in 1 .. Len(p.seen)
  BY <1>2, <1>3, SMTT(30)
<1>5. Least(app, ltmp, start) /\ Least(app, least, p.since)
  BY <1>1, <1>2, <1>3, <1>4, LeastAppend
<1>6. Len(app) = Len(p.seen) + 1 /\ app \in Seq(Nat)
  BY <1>1, <1>2
<1>7. least \in Nat /\ ltmp \in Nat
  BY <1>1, <1>2 DEF Lesser
<1>8. t = [q EXCEPT !.Smin = least, !.Stmp = ltmp, !.seen = app]
  BY DEF ContinueWindow
<1>9. q.min_count \in Ranges
  BY <1>1, <1>2 DEF Ranges
<1> HIDE DEF least, ltmp, app, t
<1>10. t \in PreType
  BY <1>1, <1>6, <1>7, <1>8, <1>9 DEF CountedType, PreType
<1>11. /\ t.min_count = q.min_count /\ t.Smin = least /\ t.Stmp = ltmp
       /\ t.since = p.since /\ t.seen = app /\ t.nb_adapt = q.nb_adapt
  BY <1>1, <1>8 DEF CountedType
<1>12. Len(t.seen) - t.min_count = start
  <2>1. Len(t.seen) = Len(p.seen) + 1 /\ t.min_count = p.min_count + 1
    BY <1>1, <1>6, <1>11
  <2>2. (Len(p.seen) + 1) - (p.min_count + 1) = Len(p.seen) - p.min_count
    <3>1. Len(p.seen) \in Int /\ p.min_count \in Int
      BY <1>2
    <3>2. \A l, n \in Int : (l + 1) - (n + 1) = l - n
      OBVIOUS
    <3>3. QED
      BY <3>1, <3>2
  <2>3. QED
    BY <2>1, <2>2
<1>13. WindowInv(t)
  BY <1>3, <1>5, <1>11, <1>12 DEF WindowInv
<1>14. QED
  BY <1>1, <1>10, <1>11, <1>13 DEF PreInv, t

LEMMA NoiseStep ==
  ASSUME NEW p, PreInv(p), NEW q, Counted(p, q), NEW S \in Nat
  PROVE  PreInv(UpdateNoiseProb(q, S))
<1> DEFINE first == FirstFrame(q)
<1>1. Counted(p, first)
  BY FirstFrameNothing
<1>2. q.min_count \in Nat /\ q.nb_adapt \in Nat /\ first.min_count = q.min_count
  <2>1. AdaptCap \in Nat
    BY PreAssumption
  <2>2. q.nb_adapt \in 0 .. AdaptCap /\ q.min_count \in Nat
    BY DEF Counted, CountedType, Adapts
  <2>3. first.min_count = q.min_count
    BY <1>1 DEF Counted
  <2>4. QED
    BY <2>1, <2>2, <2>3
<1> HIDE DEF first
<1>3. CASE q.min_count > MinRange(q.nb_adapt)
  BY <1>1, <1>3, RestartStep DEF UpdateNoiseProb, first
<1>4. CASE ~(q.min_count > MinRange(q.nb_adapt))
  <2>1. first.min_count <= Windows[4]
    <3>1. MinRange(q.nb_adapt) \in Nat /\ MinRange(q.nb_adapt) <= Windows[4]
      BY <1>2, RangeBound
    <3>2. Windows[4] \in Nat
      BY PreAssumption
    <3>3. QED
      BY <1>2, <1>4, <3>1, <3>2
  <2>2. PreInv(ContinueWindow(first, S))
    BY <1>1, <2>1, ContinueStep
  <2>3. QED
    BY <1>4, <2>2 DEF UpdateNoiseProb, first
<1>5. QED
  BY <1>3, <1>4

LEMMA OverlapStep ==
  ASSUME NEW p, PreInv(p)
  PROVE  PreInv(OverlapAdd(p))
<1> DEFINE out == Pair(Older(p.outbuf), p.frame.older)
           buf == p.frame.newer
           t == OverlapAdd(p)
<1>1. p \in PreType
  BY DEF PreInv
<1>2. out \in OutType
  <2>1. p.outbuf \subseteq {0} /\ p.frame.older \subseteq {1}
    BY <1>1 DEF PreType, FrameType
  <2>2. Older(p.outbuf) \subseteq {1}
    BY <2>1 DEF Older
  <2>3. QED
    BY <2>1, <2>2 DEF Pair, OutType
<1>3. buf \in SUBSET {0}
  BY <1>1 DEF PreType, FrameType
<1>4. t = [p EXCEPT !.out = out, !.outbuf = buf]
  BY DEF OverlapAdd
<1> HIDE DEF out, buf, t
<1>5. t \in PreType
  BY <1>1, <1>2, <1>3, <1>4 DEF PreType
<1>6. /\ t.min_count = p.min_count /\ t.Smin = p.Smin /\ t.Stmp = p.Stmp
      /\ t.since = p.since /\ t.seen = p.seen /\ t.nb_adapt = p.nb_adapt
  BY <1>1, <1>4 DEF PreType
<1>7. QED
  BY <1>5, <1>6 DEF PreInv, WindowInv, t

LEMMA GainStep ==
  ASSUME NEW p, PreInv(p)
  PROVE  /\ PreInv(ApplyGain(p))
         /\ ApplyGain(p).inbuf = p.inbuf /\ ApplyGain(p).frame = p.frame
         /\ ApplyGain(p).echo_noise = p.echo_noise /\ ApplyGain(p).made = p.made
         /\ ApplyGain(p).echo_state = p.echo_state
<1> DEFINE s == [n \in DOMAIN p.echo_noise |->
                   IF p.denoise THEN p.echo_noise[n] ELSE Nothing]
           t == ApplyGain(p)
<1>1. p \in PreType
  BY DEF PreInv
<1>2. s \in Seq(PairType)
  <2>1. Nothing \in PairType
    BY DEF Nothing, Pair, PairType
  <2>2. p.echo_noise \in Seq(PairType)
    BY <1>1 DEF PreType
  <2>3. QED
    BY <2>1, <2>2
<1>3. t = [p EXCEPT !.suppressed = s]
  BY DEF ApplyGain
<1> HIDE DEF s, t
<1>4. t \in PreType
  BY <1>1, <1>2, <1>3 DEF PreType
<1>5. /\ t.min_count = p.min_count /\ t.Smin = p.Smin /\ t.Stmp = p.Stmp
      /\ t.since = p.since /\ t.seen = p.seen /\ t.nb_adapt = p.nb_adapt
      /\ t.inbuf = p.inbuf /\ t.frame = p.frame /\ t.echo_noise = p.echo_noise
      /\ t.made = p.made /\ t.echo_state = p.echo_state
  BY <1>1, <1>3 DEF PreType
<1>6. PreInv(t)
  BY <1>4, <1>5 DEF PreInv, WindowInv
<1>7. QED
  BY <1>5, <1>6 DEF t

LEMMA RunInv ==
  ASSUME NEW p, PreInv(p), NEW r \in PairType, NEW in \in Inputs
  PROVE  PreInv(Run(p, r, in))
<1> DEFINE framed == Analysis(TakeResidual(CountFrame(p), r, in.ridiculous))
<1>1. in.S \in Nat /\ in.ridiculous \in BOOLEAN
  BY PreAssumption DEF Inputs
<1>2. Counted(p, framed)
  BY <1>1, CountStep, FramingStep DEF PreInv
<1>3. PreInv(UpdateNoiseProb(framed, in.S))
  BY <1>1, <1>2, NoiseStep
<1>4. PreInv(ApplyGain(UpdateNoiseProb(framed, in.S)))
  BY <1>3, GainStep
<1>5. QED
  BY <1>4, OverlapStep DEF Run

-----------------------------------------------------------------------------
(* The engine.                                                             *)
Inv == /\ EchoInv(echo)
       /\ PreInv(pre)
       /\ spx \in BOOLEAN
       /\ blocks \in 0 .. MaxBlocks
       /\ trust \in Seq(BOOLEAN)

LEMMA InitInv == Init => Inv
<1> SUFFICES ASSUME Init PROVE Inv
  OBVIOUS
<1>1. EchoInv(echo)
  BY FreshInv DEF Init, EchoInit
<1>2. PreInv(pre)
  BY FreshPreInv DEF Init, Unmade
<1>3. spx \in BOOLEAN
  BY DEF Init
<1>4. blocks \in 0 .. MaxBlocks
  BY BlockAssumption DEF Init
<1>5. trust \in Seq(BOOLEAN)
  BY DEF Init
<1>6. QED
  BY <1>1, <1>2, <1>3, <1>4, <1>5 DEF Inv

LEMMA NextInv == Inv /\ [Next]_vars => Inv'
<1> SUFFICES ASSUME Inv, [Next]_vars PROVE Inv'
  OBVIOUS
<1>1. ASSUME NEW suppress \in BOOLEAN, NEW denoise \in BOOLEAN, MakeSpeex(suppress, denoise)
      PROVE  Inv'
  <2>1. kRate \in Rates
    BY DEF kRate, Rates
  <2>2. EchoInv(echo')
    BY <1>1, <2>1, FreshInv, AtRateInv DEF MakeSpeex
  <2>3. PreInv(pre')
    <3> DEFINE quiet == SetDenoise(Fresh(TRUE), denoise)
    <3>1. PreInv(quiet) /\ PreInv(SetEchoState(quiet)) /\ PreInv(Unmade)
      BY FreshPreInv, CtlPreInv DEF Unmade
    <3>2. pre' \in {quiet, SetEchoState(quiet), Unmade}
      BY <1>1 DEF MakeSpeex
    <3> HIDE DEF quiet
    <3>3. QED
      BY <3>1, <3>2
  <2>4. spx' \in BOOLEAN /\ blocks' \in 0 .. MaxBlocks /\ trust' \in Seq(BOOLEAN)
    BY <1>1, BlockAssumption DEF MakeSpeex
  <2>5. QED
    BY <2>2, <2>3, <2>4 DEF Inv
<1>2. ASSUME NEW b \in Blocks, RunSpeex(b[1], b[2])
      PROVE  Inv'
  <2>1. b[1] \in Courses /\ b[2] \in Inputs
    BY BlockAssumption
  <2>2. EchoInv(echo')
    BY <1>2, <2>1, FrameInv DEF Inv, RunSpeex, SpeexEchoCancellation
  <2>3. Residual(echo') \in PairType
    BY <2>2 DEF EchoInv, MidType, Residual
  <2>4. PreInv(pre')
    BY <1>2, <2>1, <2>3, RunInv DEF Inv, RunSpeex
  <2>5. spx' \in BOOLEAN /\ blocks' \in 0 .. MaxBlocks
    BY <1>2, BlockAssumption DEF Inv, RunSpeex
  <2>6. trust' \in Seq(BOOLEAN)
    <3>1. echo'.adapted \in BOOLEAN
      BY <2>2 DEF EchoInv, MidType
    <3>2. trust' = Latest(echo'.adapted, trust, Fade + 1) /\ trust \in Seq(BOOLEAN)
      BY <1>2 DEF RunSpeex, Inv
    <3>3. Fade + 1 \in Nat \ {0}
      BY PreAssumption
    <3>4. QED
      BY <3>1, <3>2, <3>3, LatestSeq
  <2>7. QED
    BY <2>2, <2>4, <2>5, <2>6 DEF Inv
<1>3. CASE TeardownSpeex
  <2>1. EchoInv(echo')
    BY <1>3, FreshInv DEF TeardownSpeex, SpeexEchoStateDestroy
  <2>2. PreInv(pre')
    BY <1>3, FreshPreInv DEF TeardownSpeex, SpeexEchoStateDestroy, Unmade
  <2>3. spx' \in BOOLEAN
    BY <1>3 DEF TeardownSpeex, SpeexEchoStateDestroy
  <2>4. blocks' \in 0 .. MaxBlocks
    BY <1>3, BlockAssumption DEF TeardownSpeex, SpeexEchoStateDestroy
  <2>5. trust' \in Seq(BOOLEAN)
    BY <1>3 DEF TeardownSpeex, SpeexEchoStateDestroy
  <2>6. QED
    BY <2>1, <2>2, <2>3, <2>4, <2>5 DEF Inv
<1>4. CASE UNCHANGED vars
  BY <1>4 DEF vars, Inv
<1>5. QED
  BY <1>1, <1>2, <1>3, <1>4 DEF Next

LEMMA SpecInv == Spec => []Inv
  BY InitInv, NextInv, PTL DEF Spec

(* Every variable and every field of the two states has its type.          *)
THEOREM TypeCorrect == Spec => []TypeOK
<1>1. Inv => TypeOK
  <2> SUFFICES ASSUME Inv PROVE TypeOK
    OBVIOUS
  <2>1. echo \in EchoType
    <3>1. echo \in MidType /\ echo.screwed_up < ScrewedLimit /\ echo.E.ages \subseteq {0}
      BY DEF Inv, EchoInv
    <3>2. echo.screwed_up \in 0 .. ScrewedLimit - 1
      BY <3>1, EchoAssumption DEF MidType
    <3>3. echo.E \in [ages : SUBSET {0}, clipped : BOOLEAN, of : FilterType]
      BY <3>1 DEF MidType
    <3>4. QED
      BY <3>1, <3>2, <3>3 DEF MidType, EchoType
  <2>2. QED
    BY <2>1 DEF Inv, PreInv, TypeOK
<1>2. QED
  BY <1>1, SpecInv, PTL

(* A block of either filter only learns the delay that it stands for.      *)
THEOREM TimeAligned == Spec => []LearnsTimeAligned
<1>1. Inv => LearnsTimeAligned
  BY DEF Inv, EchoInv, Clean, CleanBlock, LearnsTimeAligned, Holds
<1>2. QED
  BY <1>1, SpecInv, PTL

(* No filter ever takes in the error of a clipped frame.                   *)
THEOREM ClippedLeftOut == Spec => []ClippedNeverLearnt
<1>1. Inv => ClippedNeverLearnt
  BY DEF Inv, EchoInv, Clean, CleanBlock, ClippedNeverLearnt
<1>2. QED
  BY <1>1, SpecInv, PTL

(* The next gradient is added to the weights whose error it uses.          *)
THEOREM ErrorIsBackgrounds == Spec => []ErrorOfBackground
<1>1. Inv => ErrorOfBackground
  BY DEF Inv, EchoInv, ErrorOfBackground
<1>2. QED
  BY <1>1, SpecInv, PTL

(* The output goes on with the filter it ended with, but for a reset.      *)
THEOREM OutputHandedOver == Spec => []SmoothHandOver
<1>1. Inv => SmoothHandOver
  BY DEF Inv, EchoInv, SmoothHandOver
<1>2. QED
  BY <1>1, SpecInv, PTL

(* The noise floor is the minimum over two windows at most.                *)
THEOREM FloorTracked == Spec => []MinimaTracked
<1>1. Inv => MinimaTracked
  <2> SUFFICES ASSUME Inv PROVE MinimaTracked
    OBVIOUS
  <2>1. WindowInv(pre) /\ pre.min_count \in 0 .. Windows[4] /\ Windows[4] \in Nat
        /\ Len(pre.seen) \in Nat /\ pre.since \in Nat
    BY PreAssumption DEF Inv, PreInv, PreType, Ranges
  <2>2. Len(pre.seen) - pre.since <= 2 * Windows[4] + 1
    BY <2>1, SMTT(30) DEF WindowInv
  <2>3. QED
    BY <2>1, <2>2 DEF WindowInv, MinimaTracked
<1>2. QED
  BY <1>1, SpecInv, PTL

-----------------------------------------------------------------------------
(* The residual echo.                                                      *)

\* Stages that leave adapted and the kept echo as they are.
SameEcho(st, t) == t.last_y = st.last_y /\ t.adapted = st.adapted

LEMMA ShiftEcho ==
  ASSUME NEW st \in MidType
  PROVE  LET t == ShiftMemory(st)
         IN  /\ t.last_y = Pair(Stale(st.last_y.older), Stale(st.last_y.newer))
             /\ t.adapted = st.adapted
  BY DEF ShiftMemory, MidType

LEMMA GradientEcho ==
  ASSUME NEW st \in MidType
  PROVE  SameEcho(st, ComputeGradient(st))
<1> DEFINE prop == IF st.adapted THEN "response" ELSE st.prop
           ready == [st EXCEPT !.prop = prop]
           W == [j \in Taps |-> [s \in Speakers |->
                     Learnt(ready.W[j][s], st.X[j + 1][s], st.E)]]
           off == ready.saturated - 1
           t == ComputeGradient(st)
<1>1. t = IF st.saturated = 0 THEN [ready EXCEPT !.W = W] ELSE [ready EXCEPT !.saturated = off]
  BY DEF AdjustProp, ComputeGradient
<1>2. ready.last_y = st.last_y /\ ready.adapted = st.adapted
  <2> HIDE DEF prop
  <2>1. QED
    BY DEF MidType
<1>3. ready \in MidType
  <2>1. prop \in Props
    BY DEF MidType, Props
  <2> HIDE DEF prop
  <2>2. QED
    BY <2>1 DEF MidType
<1> HIDE DEF ready, W, off, t
<1>4. CASE st.saturated = 0
  <2>1. t = [ready EXCEPT !.W = W]
    BY <1>1, <1>4
  <2>2. QED
    BY <1>2, <1>3, <2>1 DEF MidType, SameEcho, t
<1>5. CASE st.saturated # 0
  <2>1. t = [ready EXCEPT !.saturated = off]
    BY <1>1, <1>5
  <2>2. QED
    BY <1>2, <1>3, <2>1 DEF MidType, SameEcho, t
<1>6. QED
  BY <1>4, <1>5

LEMMA ConstrainEcho ==
  ASSUME NEW st \in MidType
  PROVE  SameEcho(st, ConstrainWeights(st))
<1> DEFINE W == [j \in Taps |->
                   IF Constrained(j, st.cancel_count)
                   THEN [s \in Speakers |-> [st.W[j][s] EXCEPT !.age = 0]]
                   ELSE st.W[j]]
           t == ConstrainWeights(st)
<1>1. t = [st EXCEPT !.W = W]
  BY DEF ConstrainWeights
<1> HIDE DEF W, t
<1>2. QED
  BY <1>1 DEF MidType, SameEcho, t

LEMMA JudgeEcho ==
  ASSUME NEW st \in MidType, NEW v \in {"keep", "update", "backtrack"}
  PROVE  SameEcho(st, Judge(st, v).state)
<1> DEFINE D == st.disturbed + 1
           W == st.W
           F == st.foreground
<1>1. CASE v = "update"
  <2>1. Judge(st, v).state = [st EXCEPT !.foreground = W]
    BY <1>1 DEF Judge, UpdateForeground
  <2> HIDE DEF W
  <2>2. QED
    BY <2>1 DEF MidType, SameEcho
<1>2. CASE v = "backtrack"
  <2>1. Judge(st, v).state = [st EXCEPT !.W = F, !.disturbed = D]
    BY <1>2 DEF Judge, ResetBackground
  <2> HIDE DEF F, D
  <2>2. QED
    BY <2>1 DEF MidType, SameEcho
<1>3. CASE v = "keep"
  BY <1>3 DEF Judge, SameEcho
<1>4. QED
  BY <1>1, <1>2, <1>3

LEMMA ErrorEcho ==
  ASSUME NEW judged, judged.state \in MidType, NEW clip
  PROVE  SameEcho(judged.state, ErrorSignal(judged, clip))
<1> DEFINE st == judged.state
           sat == IF clip /\ st.saturated = 0 THEN 1 ELSE st.saturated
           T == judged.sig.tail
           E == [ages |-> {0}, clipped |-> clip, of |-> judged.sig.head]
           t == ErrorSignal(judged, clip)
<1>1. t = [st EXCEPT !.saturated = sat, !.tail = T, !.E = E]
  BY DEF ErrorSignal
<1> HIDE DEF st, sat, T, E, t
<1>2. st \in MidType
  BY DEF st
<1>3. SameEcho(st, t)
  BY <1>1, <1>2 DEF MidType, SameEcho
<1>4. QED
  BY <1>3 DEF st, t

LEMMA SanityEcho ==
  ASSUME NEW st \in MidType, NEW sanity
  PROVE  SameEcho(st, SanityCheck(st, sanity))
<1> DEFINE n == CASE sanity = "bad"   -> st.screwed_up + ScrewedLimit
                  [] sanity = "worse" -> st.screwed_up + 1
                  [] sanity = "ok"    -> 0
           t == SanityCheck(st, sanity)
<1>1. t = [st EXCEPT !.screwed_up = n]
  BY DEF SanityCheck
<1> HIDE DEF n, t
<1>2. QED
  BY <1>1 DEF MidType, SameEcho, t

(* Between frames, the newest echo kept is of the last frame exactly when  *)
(* the canceller is trusted; otherwise it is of an older one or empty.     *)
KeptEcho(st) ==
    /\ st.adapted => st.last_y.newer = {0}
    /\ ~st.adapted => st.last_y.newer \subseteq {1, 2}

(* What a frame keeps fits the trust it ends and began with.               *)
LEMMA FrameEcho ==
  ASSUME NEW st, EchoInv(st), KeptEcho(st), NEW f \in Courses
  PROVE  /\ KeptEcho(Frame(st, f))
         /\ Timely(Frame(st, f).last_y, Frame(st, f).adapted, st.adapted)
<1> DEFINE shifted == ShiftMemory(st)
           gradient == ComputeGradient(shifted)
           background == ConstrainWeights(gradient)
           judged == Judge(background, f.verdict)
           heard == ErrorSignal(judged, f.clip)
           checked == SanityCheck(heard, f.sanity)
           rated == LearningRate(checked, f)
<1>1. /\ f.clip \in BOOLEAN /\ f.verdict \in {"keep", "update", "backtrack"}
      /\ f.sanity \in {"ok", "worse", "bad"}
  BY DEF Courses
<1>2. Background(shifted) /\ shifted.E.ages \subseteq {1} /\ Guarded(shifted)
  BY ShiftStep DEF Background
<1>3. Background(gradient)
  BY <1>2, GradientStep
<1>4. Background(background)
  BY <1>3, ConstrainStep
<1>5. Settled(judged)
  BY <1>1, <1>4, JudgeStep
<1>6. EchoInv(heard)
  BY <1>1, <1>5, ErrorStep
<1>7. /\ checked \in MidType /\ Placed(checked.X) /\ Clean(checked.W)
      /\ Clean(checked.foreground)
      /\ (checked.screwed_up < ScrewedLimit => EchoInv(checked))
  BY <1>1, <1>6, SanityStep
<1>8. SameEcho(shifted, checked)
  <2>1. SameEcho(shifted, gradient)
    BY <1>2, GradientEcho DEF Background
  <2>2. SameEcho(gradient, background)
    BY <1>3, ConstrainEcho DEF Background
  <2>3. SameEcho(background, judged.state)
    BY <1>1, <1>4, JudgeEcho DEF Background
  <2>4. SameEcho(judged.state, heard)
    BY <1>5, ErrorEcho DEF Settled, Background
  <2>5. SameEcho(heard, checked)
    BY <1>6, SanityEcho DEF EchoInv
  <2> HIDE DEF shifted, gradient, background, judged, heard, checked
  <2>6. QED
    BY <2>1, <2>2, <2>3, <2>4, <2>5 DEF SameEcho
<1>9. Frame(st, f) = IF checked.screwed_up >= ScrewedLimit THEN EchoReset(checked)
                     ELSE LastEcho(rated)
  BY DEF Frame
<1>10. shifted.last_y = Pair(Stale(st.last_y.older), Stale(st.last_y.newer))
       /\ shifted.adapted = st.adapted
  BY ShiftEcho DEF EchoInv
<1> HIDE DEF shifted, gradient, background, judged, heard, checked, rated
<1>11. /\ st.adapted \in BOOLEAN /\ st.last_y.newer \in SUBSET (0 .. 2)
       /\ checked.last_y.newer = Stale(st.last_y.newer)
       /\ checked.adapted = st.adapted
  BY <1>8, <1>10 DEF SameEcho, Pair, EchoInv, MidType, PairType
<1>12. /\ st.adapted => Stale(st.last_y.newer) = {1}
       /\ ~st.adapted => Stale(st.last_y.newer) \subseteq {2}
  BY DEF KeptEcho, Stale
<1>13. CASE checked.screwed_up >= ScrewedLimit
  <2>1. /\ EchoReset(checked).adapted = FALSE
        /\ EchoReset(checked).last_y = Pair({}, checked.last_y.newer)
    BY <1>7 DEF EchoReset, MidType
  <2>2. /\ Frame(st, f).adapted = FALSE
        /\ Frame(st, f).last_y = Pair({}, Stale(st.last_y.newer))
    BY <1>9, <1>11, <1>13, <2>1
  <2>3. KeptEcho(Frame(st, f))
    BY <1>11, <1>12, <2>2 DEF KeptEcho, Pair
  <2>4. QED
    BY <1>11, <1>12, <2>2, <2>3 DEF Timely, Pair
<1>14. CASE ~(checked.screwed_up >= ScrewedLimit)
  <2>1. EchoInv(checked)
    <3>1. checked.screwed_up \in Nat /\ ScrewedLimit \in Nat
      BY <1>7, EchoAssumption DEF MidType
    <3>2. QED
      BY <1>7, <1>14, <3>1
  <2>2. rated \in MidType
    BY <2>1, RateStep DEF EchoInv, rated
  <2>3. /\ rated.last_y = checked.last_y
        /\ checked.adapted => rated.adapted
    <3> DEFINE a == checked.adapted \/ (checked.sum_adapt > AdaptLimit /\ f.leak)
               more == IF checked.sum_adapt > AdaptLimit THEN checked.sum_adapt
                       ELSE checked.sum_adapt + f.rate
               sum == IF a THEN checked.sum_adapt ELSE more
    <3>1. rated = [checked EXCEPT !.leak_estimate = "estimated", !.adapted = a,
                                  !.sum_adapt = sum]
      BY DEF LearningRate, rated
    <3>2. checked.adapted => a
      OBVIOUS
    <3> HIDE DEF a, more, sum
    <3>3. QED
      BY <1>7, <3>1, <3>2 DEF MidType
  <2>4. LastEcho(rated).last_y
           = Pair(rated.last_y.newer, IF rated.adapted THEN {0} ELSE rated.last_y.newer)
         /\ LastEcho(rated).adapted = rated.adapted
    BY <2>2 DEF LastEcho, MidType
  <2>5. Frame(st, f) = LastEcho(rated) /\ rated.adapted \in BOOLEAN
    BY <1>9, <1>14, <2>2 DEF MidType
  <2>6. CASE rated.adapted
    <3>1. /\ Frame(st, f).adapted = TRUE
          /\ Frame(st, f).last_y = Pair(Stale(st.last_y.newer), {0})
      BY <1>11, <2>3, <2>4, <2>5, <2>6
    <3>2. KeptEcho(Frame(st, f))
      BY <3>1 DEF KeptEcho, Pair
    <3>3. QED
      BY <1>11, <1>12, <3>1, <3>2 DEF Timely, Pair
  <2>7. CASE ~rated.adapted
    <3>1. /\ Frame(st, f).adapted = FALSE /\ ~st.adapted
          /\ Frame(st, f).last_y = Pair(Stale(st.last_y.newer), Stale(st.last_y.newer))
      BY <1>11, <2>3, <2>4, <2>5, <2>7
    <3>2. KeptEcho(Frame(st, f))
      BY <1>12, <3>1 DEF KeptEcho, Pair
    <3>3. QED
      BY <1>12, <3>1, <3>2 DEF Timely, Pair
  <2>8. QED
    BY <2>5, <2>6, <2>7
<1>15. QED
  BY <1>7, <1>13, <1>14

(* The residual echoes are left alone by the rest of a run.                *)
SameNoise(p, q) ==
    q.echo_noise = p.echo_noise /\ q.echo_state = p.echo_state /\ q.made = p.made

LEMMA NoiseNoise ==
  ASSUME NEW q \in CountedType, NEW S \in Nat
  PROVE  SameNoise(q, UpdateNoiseProb(q, S))
<1> DEFINE first == FirstFrame(q)
           t == UpdateNoiseProb(q, S)
           a == Lesser(first.Stmp, S)
           b == Len(first.seen) + 1 - first.min_count
           c == Append(first.seen, S)
           d == Lesser(first.Smin, S)
<1>1. first \in CountedType /\ SameNoise(q, first)
  <2>1. CASE q.nb_adapt = 1
    BY <2>1 DEF FirstFrame, CountedType, SameNoise
  <2>2. CASE q.nb_adapt # 1
    BY <2>2 DEF FirstFrame, SameNoise
  <2>3. QED
    BY <2>1, <2>2
<1>2. \/ t = [first EXCEPT !.min_count = 0, !.Smin = a, !.Stmp = S, !.since = b, !.seen = c]
      \/ t = [first EXCEPT !.Smin = d, !.Stmp = a, !.seen = c]
  BY DEF UpdateNoiseProb, RestartWindow, ContinueWindow
<1> HIDE DEF first, t, a, b, c, d
<1>3. SameNoise(first, t)
  BY <1>1, <1>2 DEF CountedType, SameNoise
<1>4. QED
  BY <1>1, <1>3 DEF SameNoise, t

\* What a block makes of the residual echoes p holds, taking r.
Taken(p, r, bad) ==
    IF p.echo_state THEN Latest(IF bad THEN Nothing ELSE r, p.echo_noise, Fade) ELSE <<>>

LEMMA RunNoise ==
  ASSUME NEW p, PreInv(p), NEW r \in PairType, NEW in \in Inputs
  PROVE  /\ Run(p, r, in).echo_noise = Taken(p, r, in.ridiculous)
         /\ Run(p, r, in).made = p.made
<1> DEFINE nb == IF p.nb_adapt + 1 > AdaptCap THEN AdaptCap ELSE p.nb_adapt + 1
           mc == p.min_count + 1
           q == CountFrame(p)
           noise == Taken(q, r, in.ridiculous)
           q1 == TakeResidual(q, r, in.ridiculous)
           fr == Pair(Older(q1.inbuf), {0})
           q2 == Analysis(q1)
           q3 == UpdateNoiseProb(q2, in.S)
           q4 == ApplyGain(q3)
           out == Pair(Older(q4.outbuf), q4.frame.older)
           buf == q4.frame.newer
           t == Run(p, r, in)
<1>1. in.S \in Nat /\ in.ridiculous \in BOOLEAN
  BY PreAssumption DEF Inputs
<1>2. Counted(p, q) /\ Counted(p, q2)
  BY <1>1, CountStep, FramingStep DEF PreInv
<1>3. PreInv(q3)
  BY <1>1, <1>2, NoiseStep
<1>4. SameNoise(q2, q3)
  BY <1>1, <1>2, NoiseNoise DEF Counted
<1>5. q = [p EXCEPT !.nb_adapt = nb, !.min_count = mc]
  BY DEF CountFrame
<1>6. q1 = [q EXCEPT !.echo_noise = noise]
  BY DEF TakeResidual, Taken
<1>7. q2 = [q1 EXCEPT !.frame = fr, !.inbuf = {0}]
  BY DEF Analysis
<1>8. t = [q4 EXCEPT !.out = out, !.outbuf = buf]
  BY DEF Run, OverlapAdd
<1>9. PreInv(q4) /\ q4.echo_noise = q3.echo_noise /\ q4.made = q3.made
  BY <1>3, GainStep
<1>10. q.echo_noise = p.echo_noise /\ q.echo_state = p.echo_state /\ q.made = p.made
  <2> HIDE DEF nb, mc, q
  <2>1. QED
    BY <1>5 DEF PreInv, PreType
<1>11. noise = Taken(p, r, in.ridiculous)
  BY <1>10 DEF Taken
<1> HIDE DEF nb, mc, q, noise, q1, fr, q2, q3, q4, out, buf, t
<1>12. noise \in Seq(PairType)
  <2>1. Nothing \in PairType /\ p.echo_noise \in Seq(PairType)
    BY DEF Nothing, Pair, PairType, PreInv, PreType
  <2>2. \A x \in PairType : Latest(x, p.echo_noise, Fade) \in Seq(PairType)
    BY <2>1, LatestSeq, PreAssumption
  <2>3. QED
    BY <1>11, <2>1, <2>2 DEF Taken
<1>13. q1 \in CountedType /\ q1.echo_noise = noise /\ q1.made = q.made
  BY <1>2, <1>6, <1>12 DEF Counted, CountedType
<1>14. q2.echo_noise = q1.echo_noise /\ q2.made = q1.made
  BY <1>7, <1>13 DEF CountedType
<1>15. t.echo_noise = q4.echo_noise /\ t.made = q4.made
  BY <1>8, <1>9 DEF PreInv, PreType
<1>16. QED
  BY <1>4, <1>9, <1>10, <1>11, <1>13, <1>14, <1>15 DEF SameNoise, t

(* Between two blocks: what the canceller keeps fits its trust, and every  *)
(* residual echo fits the trust of the block it was taken in.              *)
Heard ==
    /\ KeptEcho(echo)
    /\ Len(trust) \in 1 .. Fade + 1 /\ trust[1] = echo.adapted
    /\ Len(pre.echo_noise) < Len(trust)
    /\ pre.made \/ pre.echo_noise = <<>>
    /\ ResidualTimely

LEMMA BlockHeard ==
  ASSUME Inv, Heard, NEW b \in Blocks, RunSpeex(b[1], b[2])
  PROVE  Heard'
<1> DEFINE is == echo'.adapted
           r == IF b[2].ridiculous THEN Nothing ELSE echo'.last_y
           old == pre.echo_noise
           new == pre'.echo_noise
<1>1. b[1] \in Courses /\ b[2] \in Inputs
  BY BlockAssumption
<1>2. echo' = Frame(echo, b[1]) /\ EchoInv(echo) /\ PreInv(pre)
  BY DEF RunSpeex, SpeexEchoCancellation, Inv
<1>3. EchoInv(echo')
  BY <1>1, <1>2, FrameInv
<1>4. echo'.last_y \in PairType /\ is \in BOOLEAN
  BY <1>3 DEF EchoInv, MidType
<1>5. KeptEcho(echo') /\ Timely(echo'.last_y, is, echo.adapted)
  BY <1>1, <1>2, FrameEcho DEF Heard
<1>6. r \in PairType /\ (r = Nothing \/ Timely(r, is, trust[1]))
  BY <1>4, <1>5 DEF Heard, Nothing, Pair, PairType
<1>7. Fade \in Nat \ {0} /\ Fade + 1 \in Nat \ {0}
  BY PreAssumption
<1>8. trust' = Latest(is, trust, Fade + 1) /\ trust \in Seq(BOOLEAN) /\ old \in Seq(PairType)
  BY <1>2 DEF RunSpeex, Inv, PreInv, PreType
<1> HIDE DEF is, r, old, new
<1>9. /\ Len(trust') = Lesser(Len(trust) + 1, Fade + 1) /\ trust'[1] = is
      /\ \A i \in 2 .. Len(trust') : trust'[i] = trust[i - 1]
  <2>1. Len(trust') = Lesser(Len(trust) + 1, Fade + 1)
    BY <1>4, <1>7, <1>8, LatestSeq
  <2>2. trust'[1] = is
    BY <1>4, <1>7, <1>8, LatestSeq
  <2>3. \A i \in 2 .. Len(trust') : trust'[i] = trust[i - 1]
    BY <1>4, <1>7, <1>8, LatestOld
  <2>4. QED
    BY <2>1, <2>2, <2>3
<1>10. /\ Len(trust) \in 1 .. Fade + 1 /\ Len(old) < Len(trust)
       /\ Len(trust) \in Nat /\ Len(old) \in Nat
  BY <1>8 DEF Heard, old
<1>11. Len(trust') \in 2 .. Fade + 1
  BY <1>7, <1>9, <1>10 DEF Lesser
<1>12. new = <<>> \/ new = Latest(r, old, Fade)
  <2>1. CASE ~pre.made
    BY <2>1 DEF RunSpeex, Heard, new
  <2>2. CASE pre.made
    <3>1. pre' = Run(pre, echo'.last_y, b[2])
      BY <2>2 DEF RunSpeex, Residual
    <3>2. new = Taken(pre, echo'.last_y, b[2].ridiculous)
      BY <1>1, <1>2, <1>4, <3>1, RunNoise DEF new
    <3>3. QED
      BY <3>2 DEF Taken, r, old
  <2>3. QED
    BY <2>1, <2>2
<1>13. pre'.made \/ new = <<>>
  <2>1. CASE ~pre.made
    BY <2>1 DEF RunSpeex, Heard, new
  <2>2. CASE pre.made
    <3>1. pre' = Run(pre, echo'.last_y, b[2])
      BY <2>2 DEF RunSpeex, Residual
    <3>2. QED
      BY <1>1, <1>2, <1>4, <2>2, <3>1, RunNoise
  <2>3. QED
    BY <2>1, <2>2
<1>14. Len(new) < Len(trust') /\ ResidualTimely'
  <2>1. CASE new = <<>>
    BY <1>11, <2>1 DEF ResidualTimely, new
  <2>2. CASE new = Latest(r, old, Fade)
    <3>1. /\ Len(new) = Lesser(Len(old) + 1, Fade) /\ new[1] = r
          /\ \A i \in 2 .. Len(new) : i - 1 \in 1 .. Len(old) /\ new[i] = old[i - 1]
      <4>1. r \in PairType
        BY <1>6
      <4>2. Len(new) = Lesser(Len(old) + 1, Fade)
        BY <1>7, <1>8, <2>2, <4>1, LatestSeq
      <4>3. new[1] = r
        BY <1>7, <1>8, <2>2, <4>1, LatestSeq
      <4>4. \A i \in 2 .. Len(new) : i - 1 \in 1 .. Len(old) /\ new[i] = old[i - 1]
        BY <1>7, <1>8, <2>2, <4>1, LatestOld
      <4>5. QED
        BY <4>2, <4>3, <4>4
    <3>2. Len(new) < Len(trust') /\ Len(new) \in Nat
      BY <1>7, <1>9, <1>10, <3>1 DEF Lesser
    <3>3. ASSUME NEW n \in 1 .. Len(new)
          PROVE  new[n] = Nothing \/ Timely(new[n], trust'[n], trust'[n + 1])
      <4>1. CASE n = 1
        <5>1. trust'[2] = trust[1]
          BY <1>9, <1>11
        <5>2. QED
          BY <1>6, <1>9, <3>1, <4>1, <5>1
      <4>2. CASE n # 1
        <5>1. n \in 2 .. Len(new) /\ n \in 2 .. Len(trust') /\ n + 1 \in 2 .. Len(trust')
          BY <1>11, <3>2, <4>2
        <5>2. /\ new[n] = old[n - 1] /\ n - 1 \in 1 .. Len(old)
              /\ trust'[n] = trust[n - 1] /\ trust'[n + 1] = trust[(n + 1) - 1]
          BY <1>9, <3>1, <5>1
        <5>3. (n + 1) - 1 = (n - 1) + 1
          OBVIOUS
        <5>4. old[n - 1] = Nothing \/ Timely(old[n - 1], trust[n - 1], trust[(n - 1) + 1])
          BY <5>2 DEF Heard, ResidualTimely, old
        <5>5. QED
          BY <5>2, <5>3, <5>4
      <4>3. QED
        BY <4>1, <4>2
    <3>4. QED
      BY <3>2, <3>3 DEF ResidualTimely, new
  <2>3. QED
    BY <1>12, <2>1, <2>2
<1>15. QED
  BY <1>5, <1>9, <1>11, <1>13, <1>14 DEF Heard, is, new

(* A session that begins, or is over, keeps nothing yet.                    *)
LEMMA FreshKept ==
  /\ KeptEcho(EchoFresh) /\ EchoFresh.adapted = FALSE
  /\ KeptEcho(AtRate(EchoFresh, kRate)) /\ AtRate(EchoFresh, kRate).adapted = FALSE
<1>1. EchoFresh.adapted = FALSE /\ EchoFresh.last_y = Nothing
  BY DEF EchoFresh
<1>2. EchoFresh \in MidType
  BY FreshInv DEF EchoInv
<1>3. /\ AtRate(EchoFresh, kRate).adapted = FALSE
      /\ AtRate(EchoFresh, kRate).last_y = Nothing
  BY <1>1, <1>2 DEF AtRate, MidType
<1>4. QED
  BY <1>1, <1>3 DEF KeptEcho, Nothing, Pair

(* What the gains are made from fits the trust of its block, as long as it *)
(* lasts.                                                                  *)
THEOREM ResidualIsTimely == Spec => []ResidualTimely
<1>1. \A made \in BOOLEAN : Fresh(made).echo_noise = <<>>
  BY DEF Fresh
<1>2. ASSUME Init PROVE Heard
  <2>1. /\ echo = EchoFresh /\ pre.echo_noise = <<>> /\ trust = <<FALSE>>
    BY <1>1, <1>2 DEF Init, EchoInit, Unmade
  <2>2. Len(trust) = 1 /\ trust[1] = FALSE /\ Len(pre.echo_noise) = 0
    BY <2>1
  <2>3. 1 \in 1 .. Fade + 1 /\ 1 .. 0 = {} /\ 0 < 1
    BY PreAssumption
  <2>4. QED
    BY <2>1, <2>2, <2>3, FreshKept DEF Heard, ResidualTimely
<1>3. ASSUME Inv, Heard, [Next]_vars PROVE Heard'
  <2>1. ASSUME NEW suppress \in BOOLEAN, NEW denoise \in BOOLEAN, MakeSpeex(suppress, denoise)
        PROVE  Heard'
    <3> DEFINE quiet == SetDenoise(Fresh(TRUE), denoise)
    <3>1. quiet.echo_noise = <<>> /\ SetEchoState(quiet).echo_noise = <<>>
      BY DEF SetDenoise, SetEchoState, Fresh
    <3>2. pre' \in {quiet, SetEchoState(quiet), Unmade}
      BY <2>1 DEF MakeSpeex
    <3>3. pre'.echo_noise = <<>>
      <4> HIDE DEF quiet
      <4>1. QED
        BY <1>1, <3>1, <3>2 DEF Unmade
    <3>4. /\ KeptEcho(echo') /\ echo'.adapted = FALSE /\ trust' = <<FALSE>>
      BY <2>1, FreshKept DEF MakeSpeex
    <3>5. Len(trust') = 1 /\ trust'[1] = FALSE /\ Len(pre'.echo_noise) = 0
      BY <3>3, <3>4
    <3>6. 1 \in 1 .. Fade + 1 /\ 1 .. 0 = {} /\ 0 < 1
      BY PreAssumption
    <3>7. QED
      BY <3>3, <3>4, <3>5, <3>6 DEF Heard, ResidualTimely
  <2>2. CASE \E b \in Blocks : RunSpeex(b[1], b[2])
    BY <1>3, <2>2, BlockHeard
  <2>3. CASE TeardownSpeex
    <3>1. /\ echo' = EchoFresh /\ pre'.echo_noise = <<>> /\ trust' = <<FALSE>>
      BY <1>1, <2>3 DEF TeardownSpeex, SpeexEchoStateDestroy, Unmade
    <3>2. Len(trust') = 1 /\ trust'[1] = FALSE /\ Len(pre'.echo_noise) = 0
      BY <3>1
    <3>3. 1 \in 1 .. Fade + 1 /\ 1 .. 0 = {} /\ 0 < 1
      BY PreAssumption
    <3>4. QED
      BY <3>1, <3>2, <3>3, FreshKept DEF Heard, ResidualTimely
  <2>4. CASE UNCHANGED vars
    BY <1>3, <2>4 DEF vars, Heard, ResidualTimely
  <2>5. QED
    BY <1>3, <2>1, <2>2, <2>3, <2>4 DEF Next
<1>4. Heard => ResidualTimely
  BY DEF Heard
<1>5. QED
  BY <1>2, <1>3, <1>4, SpecInv, PTL DEF Spec

-----------------------------------------------------------------------------
(* The rounds of the constraint: arithmetic.                               *)

LEMMA OneMore == ASSUME NEW d \in Nat, NEW R \in Nat PROVE (d + 1) * R = d * R + R /\ d * R \in Nat
  OBVIOUS

LEMMA Remainder ==
  ASSUME NEW R \in Nat \ {0}, NEW r \in 0 .. R - 1, NEW k \in Int
  PROVE  (k * R + r) % R = r
  OBVIOUS

(* Every count is so many rounds and a rest: of those that are not there   *)
(* would be a first one.                                                   *)
LEMMA Rounds ==
  ASSUME NEW R \in Nat \ {0}, NEW c \in Nat
  PROVE  \E k \in Nat, r \in 0 .. R - 1 : c = k * R + r
<1> DEFINE Divided(n) == \E k \in Nat, r \in 0 .. R - 1 : n = k * R + r
           Rest == {n \in Nat : ~Divided(n)}
<1>1. Divided(0)
  <2>1. 0 \in 0 .. R - 1 /\ 0 = 0 * R + 0
    OBVIOUS
  <2>2. QED
    BY <2>1
<1>2. ASSUME NEW n \in Nat, Divided(n) PROVE Divided(n + 1)
  <2>1. PICK k \in Nat, r \in 0 .. R - 1 : n = k * R + r
    BY <1>2
  <2>2. (k + 1) * R = k * R + R /\ k * R \in Nat
    BY OneMore
  <2>3. CASE r + 1 \in 0 .. R - 1
    <3>1. n + 1 = k * R + (r + 1)
      BY <2>1, <2>2
    <3>2. QED
      BY <2>3, <3>1
  <2>4. CASE r + 1 \notin 0 .. R - 1
    <3>1. n + 1 = (k + 1) * R + 0 /\ 0 \in 0 .. R - 1 /\ k + 1 \in Nat
      BY <2>1, <2>2, <2>4
    <3>2. QED
      BY <3>1
  <2>5. QED
    BY <2>3, <2>4
<1> HIDE DEF Divided
<1>3. ASSUME Rest # {} PROVE FALSE
  <2>1. PICK n \in Rest : \A m \in Rest : ~(<<m, n>> \in OpToRel(<, Nat))
    BY <1>3, NatLessThanWellFounded, WFMin
  <2>2. n \in Nat /\ ~Divided(n) /\ n # 0
    BY <1>1, <2>1
  <2>3. n - 1 \in Nat /\ <<n - 1, n>> \in OpToRel(<, Nat)
    BY <2>2 DEF OpToRel
  <2>4. Divided(n - 1)
    BY <2>1, <2>3
  <2>5. Divided(n - 1 + 1)
    BY <1>2, <2>3, <2>4
  <2>6. QED
    BY <2>2, <2>5
<1>4. QED
  BY <1>3 DEF Divided

LEMMA NextRemainder ==
  ASSUME NEW R \in Nat \ {0}, NEW c \in Nat
  PROVE  /\ c % R \in 0 .. R - 1 /\ 0 % R = 0
         /\ (c + 1) % R = IF c % R = R - 1 THEN 0 ELSE (c % R) + 1
<1>1. PICK k \in Nat, r \in 0 .. R - 1 : c = k * R + r
  BY Rounds
<1>2. c % R = r
  BY <1>1, Remainder
<1>3. (k + 1) * R = k * R + R /\ k * R \in Nat
  BY OneMore
<1>4. CASE r = R - 1
  <2>1. c + 1 = (k + 1) * R + 0 /\ k + 1 \in Int /\ 0 \in 0 .. R - 1
    BY <1>1, <1>3, <1>4
  <2>2. ((k + 1) * R + 0) % R = 0
    BY <2>1, Remainder
  <2>3. QED
    BY <1>2, <1>4, <2>1, <2>2
<1>5. CASE r # R - 1
  <2> DEFINE s == r + 1
  <2>1. c + 1 = k * R + s /\ s \in 0 .. R - 1
    BY <1>1, <1>3, <1>5
  <2>2. (k * R + s) % R = s
    <3> HIDE DEF s
    <3>1. k \in Int
      OBVIOUS
    <3>2. QED
      BY <2>1, <3>1, Remainder
  <2>3. QED
    BY <1>2, <1>5, <2>1, <2>2
<1>6. QED
  BY <1>4, <1>5

-----------------------------------------------------------------------------
(* The rounds of the constraint: no block misses its turn.                 *)

\* Gradients block j can have taken since its turn, with the count at c.
Since(j, c) ==
  LET R == M - 1
      r == c % R
  IN  IF j = 0 THEN 0 ELSE IF r >= j - 1 THEN r - (j - 1) ELSE r - (j - 1) + R

LEMMA SinceTurn ==
  ASSUME NEW j \in Taps, NEW c \in Nat
  PROVE  /\ Since(j, c) \in 0 .. M - 2
         /\ Constrained(j, c + 1) \/ Since(j, c + 1) = Since(j, c) + 1
<1> DEFINE R == M - 1
           r == c % R
           n == (c + 1) % R
<1>1. R \in Nat \ {0} /\ M \in Nat /\ j \in 0 .. R
  BY EchoAssumption DEF Taps
<1>2. r \in 0 .. R - 1 /\ n = IF r = R - 1 THEN 0 ELSE r + 1
  BY <1>1, NextRemainder
<1>3. CRemainder(c + 1, M - 1) = n
  BY DEF CRemainder
<1>4. /\ Since(j, c) = IF j = 0 THEN 0 ELSE IF r >= j - 1 THEN r - (j - 1) ELSE r - (j - 1) + R
      /\ Since(j, c + 1) = IF j = 0 THEN 0 ELSE IF n >= j - 1 THEN n - (j - 1) ELSE n - (j - 1) + R
  BY DEF Since
<1>5. Constrained(j, c + 1) <=> j = 0 \/ n = j - 1
  BY <1>3 DEF Constrained
<1> HIDE DEF r, n
<1>6. QED
  BY <1>1, <1>2, <1>4, <1>5

\* Between the stages of a frame the ages of both filters are within the
\* rounds that were cut short and, for the background, the one that runs.
Within(st) == \A j \in Taps, s \in Speakers :
  /\ st.W[j][s].age <= st.disturbed * (M - 1) + Since(j, st.cancel_count)
  /\ st.foreground[j][s].age < (st.disturbed + 1) * (M - 1)
AgeInv(st) == st.cancel_count \in Nat /\ Within(st)

\* Stages that leave the ages, their bound and the count as they are.
SameAges(st, t) ==
  /\ t.W = st.W /\ t.foreground = st.foreground
  /\ t.disturbed = st.disturbed /\ t.cancel_count = st.cancel_count

LEMMA FilterAges ==
  ASSUME NEW st \in MidType, NEW j \in Taps, NEW s \in Speakers
  PROVE  st.W[j][s].age \in Nat /\ st.foreground[j][s].age \in Nat
  BY DEF MidType, FilterType, BlockType

LEMMA ShiftAges ==
  ASSUME NEW st \in MidType, st.cancel_count \in Nat, st.cancel_count < IntMax
  PROVE  LET t == ShiftMemory(st)
         IN  /\ t.W = st.W /\ t.foreground = st.foreground /\ t.disturbed = st.disturbed
             /\ t.cancel_count = st.cancel_count + 1
<1>1. Increment(st.cancel_count) = st.cancel_count + 1
  BY EchoAssumption DEF Increment
<1>2. QED
  BY <1>1 DEF ShiftMemory, MidType

LEMMA GradientAges ==
  ASSUME NEW st \in MidType, NEW j \in Taps, NEW s \in Speakers
  PROVE  LET t == ComputeGradient(st)
         IN  /\ t.foreground = st.foreground /\ t.disturbed = st.disturbed
             /\ t.cancel_count = st.cancel_count
             /\ t.W[j][s].age <= st.W[j][s].age + 1
<1> DEFINE prop == IF st.adapted THEN "response" ELSE st.prop
           ready == [st EXCEPT !.prop = prop]
           W == [i \in Taps |-> [u \in Speakers |->
                     Learnt(st.W[i][u], st.X[i + 1][u], st.E)]]
           off == st.saturated - 1
           t == ComputeGradient(st)
<1>1. ready \in MidType /\ SameAges(st, ready) /\ ready.saturated = st.saturated
  <2>1. prop \in Props
    BY DEF MidType, Props
  <2> HIDE DEF prop
  <2>2. QED
    BY <2>1 DEF MidType, SameAges
<1>2. t = IF st.saturated = 0 THEN [ready EXCEPT !.W = W] ELSE [ready EXCEPT !.saturated = off]
  BY <1>1 DEF AdjustProp, ComputeGradient, SameAges
<1>3. W[j][s].age <= st.W[j][s].age + 1
  <2>1. W[j][s] = Learnt(st.W[j][s], st.X[j + 1][s], st.E)
    OBVIOUS
  <2> HIDE DEF W
  <2>2. QED
    BY <2>1, FilterAges DEF Learnt
<1> HIDE DEF ready, W, off, t
<1>4. CASE st.saturated = 0
  <2>1. t = [ready EXCEPT !.W = W]
    BY <1>2, <1>4
  <2>2. t.W = W /\ t.foreground = ready.foreground /\ t.disturbed = ready.disturbed
        /\ t.cancel_count = ready.cancel_count
    BY <1>1, <2>1 DEF MidType
  <2>3. QED
    BY <1>1, <1>3, <2>2 DEF SameAges, t
<1>5. CASE st.saturated # 0
  <2>1. t = [ready EXCEPT !.saturated = off]
    BY <1>2, <1>5
  <2>2. SameAges(ready, t)
    BY <1>1, <2>1 DEF MidType, SameAges
  <2>3. st.W[j][s].age <= st.W[j][s].age + 1
    BY FilterAges
  <2>4. QED
    BY <1>1, <2>2, <2>3 DEF SameAges, t
<1>6. QED
  BY <1>4, <1>5

LEMMA ConstrainAges ==
  ASSUME NEW st \in MidType, NEW j \in Taps, NEW s \in Speakers
  PROVE  LET t == ConstrainWeights(st)
         IN  /\ t.foreground = st.foreground /\ t.disturbed = st.disturbed
             /\ t.cancel_count = st.cancel_count
             /\ t.W[j][s].age = IF Constrained(j, st.cancel_count) THEN 0 ELSE st.W[j][s].age
<1> DEFINE W == [i \in Taps |->
                   IF Constrained(i, st.cancel_count)
                   THEN [u \in Speakers |-> [st.W[i][u] EXCEPT !.age = 0]]
                   ELSE st.W[i]]
           t == ConstrainWeights(st)
<1>1. t = [st EXCEPT !.W = W]
  BY DEF ConstrainWeights
<1>2. W[j][s].age = IF Constrained(j, st.cancel_count) THEN 0 ELSE st.W[j][s].age
  <2>1. st.W[j][s] \in BlockType
    BY DEF MidType, FilterType
  <2>2. [st.W[j][s] EXCEPT !.age = 0].age = 0
    BY <2>1 DEF BlockType
  <2>3. W[j][s] = IF Constrained(j, st.cancel_count) THEN [st.W[j][s] EXCEPT !.age = 0]
                                                     ELSE st.W[j][s]
    OBVIOUS
  <2> HIDE DEF W
  <2>4. QED
    BY <2>2, <2>3
<1> HIDE DEF W, t
<1>3. /\ t.W = W /\ t.foreground = st.foreground /\ t.disturbed = st.disturbed
      /\ t.cancel_count = st.cancel_count
  BY <1>1 DEF MidType
<1>4. QED
  BY <1>2, <1>3 DEF t

LEMMA JudgeAges ==
  ASSUME NEW st \in MidType, NEW v \in {"keep", "update", "backtrack"}
  PROVE  LET t == Judge(st, v).state
         IN  /\ t.cancel_count = st.cancel_count
             /\ \/ SameAges(st, t)
                \/ /\ t.W = st.W /\ t.foreground = st.W /\ t.disturbed = st.disturbed
                \/ /\ t.W = st.foreground /\ t.foreground = st.foreground
                   /\ t.disturbed = st.disturbed + 1
<1> DEFINE D == st.disturbed + 1
           W == st.W
           F == st.foreground
<1>1. CASE v = "update"
  <2>1. Judge(st, v).state = [st EXCEPT !.foreground = W]
    BY <1>1 DEF Judge, UpdateForeground
  <2> HIDE DEF W
  <2>2. /\ Judge(st, v).state.cancel_count = st.cancel_count
        /\ Judge(st, v).state.W = st.W /\ Judge(st, v).state.foreground = W
        /\ Judge(st, v).state.disturbed = st.disturbed
    BY <2>1 DEF MidType
  <2>3. QED
    BY <2>2 DEF W
<1>2. CASE v = "backtrack"
  <2>1. Judge(st, v).state = [st EXCEPT !.W = F, !.disturbed = D]
    BY <1>2 DEF Judge, ResetBackground
  <2> HIDE DEF F, D
  <2>2. /\ Judge(st, v).state.cancel_count = st.cancel_count
        /\ Judge(st, v).state.W = F /\ Judge(st, v).state.foreground = st.foreground
        /\ Judge(st, v).state.disturbed = D
    BY <2>1 DEF MidType
  <2>3. QED
    BY <2>2 DEF F, D
<1>3. CASE v = "keep"
  BY <1>3 DEF Judge, SameAges
<1>4. QED
  BY <1>1, <1>2, <1>3

LEMMA ErrorAges ==
  ASSUME NEW judged, judged.state \in MidType, NEW clip
  PROVE  SameAges(judged.state, ErrorSignal(judged, clip))
<1> DEFINE st == judged.state
           sat == IF clip /\ st.saturated = 0 THEN 1 ELSE st.saturated
           T == judged.sig.tail
           E == [ages |-> {0}, clipped |-> clip, of |-> judged.sig.head]
           t == ErrorSignal(judged, clip)
<1>1. t = [st EXCEPT !.saturated = sat, !.tail = T, !.E = E]
  BY DEF ErrorSignal
<1> HIDE DEF st, sat, T, E, t
<1>2. st \in MidType
  BY DEF st
<1>3. SameAges(st, t)
  BY <1>1, <1>2 DEF MidType, SameAges
<1>4. QED
  BY <1>3 DEF st, t

LEMMA SanityAges ==
  ASSUME NEW st \in MidType, NEW sanity
  PROVE  SameAges(st, SanityCheck(st, sanity))
<1> DEFINE n == CASE sanity = "bad"   -> st.screwed_up + ScrewedLimit
                  [] sanity = "worse" -> st.screwed_up + 1
                  [] sanity = "ok"    -> 0
           t == SanityCheck(st, sanity)
<1>1. t = [st EXCEPT !.screwed_up = n]
  BY DEF SanityCheck
<1> HIDE DEF n, t
<1>2. QED
  BY <1>1 DEF MidType, SameAges, t

LEMMA RateAges ==
  ASSUME NEW st \in MidType, NEW f
  PROVE  SameAges(st, LearningRate(st, f))
<1> DEFINE a == st.adapted \/ (st.sum_adapt > AdaptLimit /\ f.leak)
           more == IF st.sum_adapt > AdaptLimit THEN st.sum_adapt
                   ELSE st.sum_adapt + f.rate
           sum == IF a THEN st.sum_adapt ELSE more
           t == LearningRate(st, f)
<1>1. t = [st EXCEPT !.leak_estimate = "estimated", !.adapted = a, !.sum_adapt = sum]
  BY DEF LearningRate
<1> HIDE DEF a, more, sum, t
<1>2. QED
  BY <1>1 DEF MidType, SameAges, t

LEMMA LastEchoAges ==
  ASSUME NEW st \in MidType
  PROVE  SameAges(st, LastEcho(st))
<1> DEFINE L == Pair(st.last_y.newer, IF st.adapted THEN {0} ELSE st.last_y.newer)
           t == LastEcho(st)
<1>1. t = [st EXCEPT !.last_y = L]
  BY DEF LastEcho
<1> HIDE DEF L, t
<1>2. QED
  BY <1>1 DEF MidType, SameAges, t

(* A reset starts the round of the constraint again, with blocks that are  *)
(* empty or, beyond the first loudspeaker, as they were.                   *)
LEMMA ResetAges ==
  ASSUME NEW st \in MidType, NEW j \in Taps, NEW s \in Speakers
  PROVE  LET t == EchoReset(st)
         IN  /\ t.cancel_count = 0 /\ t.disturbed = st.disturbed + 1
             /\ t.W[j][s].age \in {0, st.W[j][s].age}
             /\ t.foreground[j][s].age \in {0, st.foreground[j][s].age}
<1>1. /\ EchoReset(st).W = PartOf(st.W) /\ EchoReset(st).foreground = PartOf(st.foreground)
      /\ EchoReset(st).cancel_count = 0 /\ EchoReset(st).disturbed = st.disturbed + 1
  BY DEF EchoReset, MidType
<1>2. \A w : PartOf(w)[j][s] \in {Empty, w[j][s]}
  BY DEF PartOf
<1>3. Empty.age = 0
  BY DEF Empty
<1>4. QED
  BY <1>1, <1>2, <1>3

(* The same ages within the same rounds.                                   *)
LEMMA SameWithin ==
  ASSUME NEW st, NEW t, SameAges(st, t), AgeInv(st)
  PROVE  AgeInv(t)
  BY DEF SameAges, AgeInv, Within

LEMMA ResetWithin ==
  ASSUME NEW st \in MidType, AgeInv(st)
  PROVE  AgeInv(EchoReset(st))
<1> DEFINE t == EchoReset(st)
           R == M - 1
           L == st.disturbed * R
           N == (st.disturbed + 1) * R
           P == (st.disturbed + 2) * R
<1>1. R \in Nat \ {0} /\ st.disturbed \in Nat
  BY EchoAssumption DEF MidType
<1>2. L \in Nat /\ N = L + R /\ P = N + R
  <2>1. st.disturbed + 1 \in Nat /\ st.disturbed + 2 = (st.disturbed + 1) + 1
    BY <1>1
  <2>2. L \in Nat /\ N = L + R
    BY <1>1, OneMore
  <2>3. ((st.disturbed + 1) + 1) * R = N + R
    BY <1>1, <2>1, OneMore
  <2>4. QED
    BY <2>1, <2>2, <2>3
<1>3. ASSUME NEW j \in Taps, NEW s \in Speakers
      PROVE  /\ t.W[j][s].age <= N + Since(j, 0)
             /\ t.foreground[j][s].age < P
  <2> DEFINE a == st.W[j][s].age
             b == st.foreground[j][s].age
             u == Since(j, st.cancel_count)
             v == Since(j, 0)
  <2>1. u \in 0 .. R - 1 /\ v \in 0 .. R - 1
    <3>1. M - 2 = R - 1 /\ 0 \in Nat /\ st.cancel_count \in Nat
      BY <1>1, EchoAssumption DEF AgeInv
    <3>2. QED
      BY <3>1, SinceTurn
  <2>2. a \in Nat /\ b \in Nat /\ a <= L + u /\ b < N
    BY FilterAges DEF AgeInv, Within
  <2>3. t.W[j][s].age \in {0, a} /\ t.foreground[j][s].age \in {0, b}
    BY ResetAges
  <2> HIDE DEF t, R, L, N, P, a, b, u, v
  <2>4. t.W[j][s].age <= N + v /\ t.foreground[j][s].age < P
    BY <1>1, <1>2, <2>1, <2>2, <2>3
  <2>5. QED
    BY <2>4 DEF v
<1>4. t.cancel_count = 0 /\ t.disturbed = st.disturbed + 1
  BY DEF EchoReset, MidType
<1>5. t.disturbed * (M - 1) = N /\ (t.disturbed + 1) * (M - 1) = P
  <2>1. t.disturbed + 1 = st.disturbed + 2
    BY <1>1, <1>4
  <2>2. QED
    BY <1>4, <2>1
<1> HIDE DEF t, N, P
<1>6. QED
  BY <1>3, <1>4, <1>5 DEF AgeInv, Within, t

(* The ages are within the rounds after the gradient and the constraint of *)
(* a frame: whoever is not constrained waits a frame longer.               *)
LEMMA RoundWithin ==
  ASSUME NEW st, EchoInv(st), AgeInv(st), st.cancel_count < IntMax
  PROVE  LET t == ConstrainWeights(ComputeGradient(ShiftMemory(st)))
         IN  AgeInv(t) /\ t.cancel_count = st.cancel_count + 1
<1> DEFINE shifted == ShiftMemory(st)
           gradient == ComputeGradient(shifted)
           t == ConstrainWeights(gradient)
           c == st.cancel_count
           L == st.disturbed * (M - 1)
<1>1. st \in MidType /\ c \in Nat /\ Within(st)
  BY DEF EchoInv, AgeInv
<1>2. shifted \in MidType /\ gradient \in MidType
  BY ShiftStep, GradientStep DEF Background
<1>3. /\ shifted.W = st.W /\ shifted.foreground = st.foreground
      /\ shifted.disturbed = st.disturbed /\ shifted.cancel_count = c + 1
  BY <1>1, ShiftAges
<1>4. L \in Nat
  <2>1. st.disturbed \in Nat /\ M - 1 \in Nat
    BY <1>1, EchoAssumption DEF MidType
  <2>2. QED
    BY <2>1, OneMore
<1> HIDE DEF shifted
<1>5. /\ gradient.foreground = st.foreground /\ gradient.disturbed = st.disturbed
      /\ gradient.cancel_count = c + 1
  <2>1. 0 \in Taps /\ 0 \in Speakers
    BY EchoAssumption DEF Taps, Speakers
  <2>2. QED
    BY <1>2, <1>3, <2>1, GradientAges
<1>6. \A j \in Taps, s \in Speakers : gradient.W[j][s].age <= st.W[j][s].age + 1
  BY <1>2, <1>3, GradientAges
<1> HIDE DEF gradient
<1>7. /\ t.foreground = st.foreground /\ t.disturbed = st.disturbed
      /\ t.cancel_count = c + 1
  <2>1. 0 \in Taps /\ 0 \in Speakers
    BY EchoAssumption DEF Taps, Speakers
  <2>2. QED
    BY <1>2, <1>5, <2>1, ConstrainAges
<1>8. ASSUME NEW j \in Taps, NEW s \in Speakers
      PROVE  t.W[j][s].age <= L + Since(j, c + 1)
  <2> DEFINE a == st.W[j][s].age
             g == gradient.W[j][s].age
             n == t.W[j][s].age
             u == Since(j, c)
             v == Since(j, c + 1)
  <2>1. a \in Nat /\ a <= L + u /\ g \in Nat /\ g <= a + 1
    BY <1>1, <1>2, <1>6, FilterAges DEF Within
  <2>2. n = IF Constrained(j, c + 1) THEN 0 ELSE g
    BY <1>2, <1>5, ConstrainAges
  <2>3. u \in Nat /\ v \in Nat /\ (Constrained(j, c + 1) \/ v = u + 1)
    <3>1. M - 2 \in Nat /\ c + 1 \in Nat
      BY <1>1, EchoAssumption
    <3>2. u \in 0 .. M - 2 /\ v \in 0 .. M - 2
      BY <1>1, <3>1, SinceTurn
    <3>3. Constrained(j, c + 1) \/ v = u + 1
      BY <1>1, SinceTurn
    <3>4. QED
      BY <3>1, <3>2, <3>3
  <2> HIDE DEF L, a, g, n, u, v
  <2>4. n <= L + v
    BY <1>4, <2>1, <2>2, <2>3
  <2>5. QED
    BY <2>4 DEF n, v
<1> HIDE DEF t
<1>9. Within(t)
  BY <1>1, <1>7, <1>8 DEF Within
<1>10. QED
  BY <1>1, <1>7, <1>9 DEF AgeInv, t, gradient, shifted

(* The verdict: a background that the foreground takes is a round old at   *)
(* most, a foreground that the background takes costs it a round.          *)
LEMMA VerdictWithin ==
  ASSUME NEW st \in MidType, AgeInv(st), NEW v \in {"keep", "update", "backtrack"}
  PROVE  AgeInv(Judge(st, v).state)
<1> DEFINE t == Judge(st, v).state
           R == M - 1
           L == st.disturbed * R
           N == (st.disturbed + 1) * R
           P == (st.disturbed + 2) * R
<1>1. R \in Nat \ {0} /\ st.disturbed \in Nat
  BY EchoAssumption DEF MidType
<1>2. L \in Nat /\ N = L + R /\ P = N + R
  <2>1. st.disturbed + 1 \in Nat /\ st.disturbed + 2 = (st.disturbed + 1) + 1
    BY <1>1
  <2>2. L \in Nat /\ N = L + R
    BY <1>1, OneMore
  <2>3. ((st.disturbed + 1) + 1) * R = N + R
    BY <1>1, <2>1, OneMore
  <2>4. QED
    BY <2>1, <2>2, <2>3
<1>3. ASSUME NEW j \in Taps, NEW s \in Speakers
      PROVE  /\ st.W[j][s].age < N
             /\ st.foreground[j][s].age <= N + Since(j, st.cancel_count)
             /\ st.foreground[j][s].age < P
  <2> DEFINE a == st.W[j][s].age
             b == st.foreground[j][s].age
             u == Since(j, st.cancel_count)
  <2>1. u \in 0 .. R - 1
    <3>1. M - 2 = R - 1 /\ st.cancel_count \in Nat
      BY <1>1, EchoAssumption DEF AgeInv
    <3>2. QED
      BY <3>1, SinceTurn
  <2>2. a \in Nat /\ b \in Nat /\ a <= L + u /\ b < N
    BY FilterAges DEF AgeInv, Within
  <2> HIDE DEF R, L, N, P, a, b, u
  <2>3. a < N /\ b <= N + u /\ b < P
    BY <1>1, <1>2, <2>1, <2>2
  <2>4. QED
    BY <2>3 DEF a, b, u
<1>4. t.cancel_count = st.cancel_count
  BY JudgeAges
<1> HIDE DEF t
<1>5. CASE SameAges(st, t)
  BY <1>5, SameWithin DEF t
<1>6. CASE t.W = st.W /\ t.foreground = st.W /\ t.disturbed = st.disturbed
  BY <1>3, <1>4, <1>6 DEF AgeInv, Within, t
<1>7. CASE t.W = st.foreground /\ t.foreground = st.foreground
           /\ t.disturbed = st.disturbed + 1
  <2>1. t.disturbed * (M - 1) = N /\ (t.disturbed + 1) * (M - 1) = P
    <3>1. t.disturbed + 1 = st.disturbed + 2
      BY <1>1, <1>7
    <3>2. QED
      BY <1>7, <3>1
  <2> HIDE DEF N, P
  <2>2. Within(t)
    BY <1>3, <1>4, <1>7, <2>1 DEF Within
  <2>3. QED
    BY <1>4, <2>2 DEF AgeInv, t
<1>8. QED
  BY <1>5, <1>6, <1>7, JudgeAges DEF t

LEMMA FrameWithin ==
  ASSUME NEW st, EchoInv(st), AgeInv(st), st.cancel_count < IntMax, NEW f \in Courses
  PROVE  AgeInv(Frame(st, f)) /\ Frame(st, f).cancel_count <= st.cancel_count + 1
<1> DEFINE shifted == ShiftMemory(st)
           background == ConstrainWeights(ComputeGradient(shifted))
           judged == Judge(background, f.verdict)
           heard == ErrorSignal(judged, f.clip)
           checked == SanityCheck(heard, f.sanity)
           rated == LearningRate(checked, f)
<1>1. /\ f.clip \in BOOLEAN /\ f.verdict \in {"keep", "update", "backtrack"}
      /\ f.sanity \in {"ok", "worse", "bad"}
  BY DEF Courses
<1>2. Background(background)
  BY ShiftStep, GradientStep, ConstrainStep DEF Background
<1>3. Settled(judged) /\ EchoInv(heard)
  BY <1>1, <1>2, JudgeStep, ErrorStep
<1>4. /\ checked \in MidType /\ Placed(checked.X) /\ Clean(checked.W)
      /\ Clean(checked.foreground)
      /\ (checked.screwed_up < ScrewedLimit => EchoInv(checked))
  BY <1>1, <1>3, SanityStep
<1>5. AgeInv(background) /\ background.cancel_count = st.cancel_count + 1
  BY RoundWithin
<1>6. AgeInv(judged.state) /\ judged.state.cancel_count = st.cancel_count + 1
  BY <1>1, <1>2, <1>5, VerdictWithin, JudgeAges DEF Background
<1>7. SameAges(judged.state, heard)
  BY <1>3, ErrorAges DEF Settled, Background
<1>8. SameAges(heard, checked)
  BY <1>3, SanityAges DEF EchoInv
<1>9. AgeInv(checked) /\ checked.cancel_count = st.cancel_count + 1
  <2> HIDE DEF judged, heard, checked
  <2>1. AgeInv(heard) /\ heard.cancel_count = st.cancel_count + 1
    BY <1>6, <1>7, SameWithin DEF SameAges
  <2>2. QED
    BY <1>8, <2>1, SameWithin DEF SameAges
<1>10. Frame(st, f) = IF checked.screwed_up >= ScrewedLimit THEN EchoReset(checked)
                      ELSE LastEcho(rated)
  BY DEF Frame
<1>11. st.cancel_count \in Nat
  BY DEF AgeInv
<1>12. checked.screwed_up \in Nat /\ ScrewedLimit \in Nat
  BY <1>4, EchoAssumption DEF MidType
<1> HIDE DEF checked
<1>13. CASE checked.screwed_up >= ScrewedLimit
  <2>1. AgeInv(EchoReset(checked))
    BY <1>4, <1>9, ResetWithin
  <2>2. EchoReset(checked).cancel_count = 0
    BY <1>4 DEF EchoReset, MidType
  <2>3. QED
    BY <1>10, <1>11, <1>13, <2>1, <2>2
<1>14. CASE ~(checked.screwed_up >= ScrewedLimit)
  <2>1. EchoInv(checked)
    BY <1>4, <1>12, <1>14
  <2>2. rated \in MidType /\ SameAges(checked, rated)
    BY <1>4, <2>1, RateStep, RateAges DEF EchoInv
  <2> HIDE DEF rated
  <2>3. SameAges(rated, LastEcho(rated))
    BY <2>2, LastEchoAges
  <2>4. AgeInv(LastEcho(rated)) /\ LastEcho(rated).cancel_count = st.cancel_count + 1
    <3>1. AgeInv(rated)
      BY <1>9, <2>2, SameWithin
    <3>2. AgeInv(LastEcho(rated))
      BY <2>3, <3>1, SameWithin
    <3>3. QED
      BY <1>9, <2>2, <2>3, <3>2 DEF SameAges
  <2>5. QED
    BY <1>10, <1>11, <1>14, <2>4
<1>15. QED
  BY <1>13, <1>14

(* A canceller that was just made, at either rate.                         *)
LEMMA FreshWithin ==
  /\ AgeInv(EchoFresh) /\ EchoFresh.cancel_count = 0
  /\ \A r : AgeInv(AtRate(EchoFresh, r)) /\ AtRate(EchoFresh, r).cancel_count = 0
<1>1. M - 1 \in Nat \ {0} /\ 0 * (M - 1) = 0 /\ (0 + 1) * (M - 1) = M - 1
  BY EchoAssumption
<1>2. \A j \in Taps, s \in Speakers : ZeroFilter[j][s].age = 0
  BY DEF ZeroFilter, Empty
<1>3. /\ EchoFresh.cancel_count = 0 /\ EchoFresh.disturbed = 0
      /\ EchoFresh.W = ZeroFilter /\ EchoFresh.foreground = ZeroFilter
  BY DEF EchoFresh
<1>4. \A j \in Taps : Since(j, 0) \in Nat
  <2>1. \A j \in Taps : Since(j, 0) \in 0 .. M - 2
    BY SinceTurn
  <2>2. QED
    BY <2>1, EchoAssumption
<1>5. ASSUME NEW j \in Taps, NEW s \in Speakers
      PROVE  /\ EchoFresh.W[j][s].age <= EchoFresh.disturbed * (M - 1)
                                           + Since(j, EchoFresh.cancel_count)
             /\ EchoFresh.foreground[j][s].age < (EchoFresh.disturbed + 1) * (M - 1)
  <2> DEFINE R == M - 1
             a == ZeroFilter[j][s].age
             u == Since(j, 0)
  <2>1. R \in Nat \ {0} /\ 0 * R = 0 /\ (0 + 1) * R = R /\ a = 0 /\ u \in Nat
    BY <1>1, <1>2, <1>4
  <2> HIDE DEF a, u, R
  <2>2. a <= 0 * R + u /\ a < (0 + 1) * R
    BY <2>1
  <2>3. QED
    BY <1>3, <2>2 DEF a, u, R
<1>6. AgeInv(EchoFresh)
  BY <1>3, <1>5 DEF AgeInv, Within
<1>7. ASSUME NEW r PROVE SameAges(EchoFresh, AtRate(EchoFresh, r))
  <2>1. EchoFresh \in MidType
    BY FreshInv DEF EchoInv
  <2>2. QED
    BY <2>1 DEF AtRate, MidType, SameAges
<1>8. QED
  BY <1>3, <1>6, <1>7, SameWithin DEF SameAges

(* No more frames than blocks were counted since the canceller was made.   *)
Rounded == AgeInv(echo) /\ echo.cancel_count <= blocks

LEMMA NextRounded ==
  ASSUME MaxBlocks <= IntMax, Inv, Rounded, [Next]_vars
  PROVE  Rounded'
<1>1. ASSUME NEW suppress \in BOOLEAN, NEW denoise \in BOOLEAN, MakeSpeex(suppress, denoise)
      PROVE  Rounded'
  BY <1>1, FreshWithin DEF MakeSpeex, Rounded
<1>2. ASSUME NEW b \in Blocks, RunSpeex(b[1], b[2])
      PROVE  Rounded'
  <2>1. b[1] \in Courses /\ MaxBlocks \in Nat /\ IntMax \in Nat
    BY BlockAssumption, EchoAssumption
  <2>2. /\ echo' = Frame(echo, b[1]) /\ EchoInv(echo)
        /\ blocks < MaxBlocks /\ blocks' = blocks + 1 /\ blocks \in Nat
    BY <1>2, <2>1 DEF RunSpeex, SpeexEchoCancellation, Inv
  <2>3. AgeInv(echo) /\ echo.cancel_count <= blocks /\ echo.cancel_count \in Nat
    BY DEF Rounded, AgeInv
  <2>4. echo.cancel_count < IntMax
    BY <2>1, <2>2, <2>3
  <2>5. AgeInv(echo') /\ echo'.cancel_count <= echo.cancel_count + 1
    BY <2>1, <2>2, <2>3, <2>4, FrameWithin
  <2>6. echo'.cancel_count \in Nat
    BY <2>5 DEF AgeInv
  <2>7. QED
    BY <2>2, <2>3, <2>5, <2>6 DEF Rounded
<1>3. CASE TeardownSpeex
  BY <1>3, FreshWithin DEF TeardownSpeex, SpeexEchoStateDestroy, Rounded
<1>4. CASE UNCHANGED vars
  BY <1>4 DEF vars, Rounded
<1>5. QED
  BY <1>1, <1>2, <1>3, <1>4 DEF Next

(* A block of either filter is less than a round of gradients away from    *)
(* its constraint, and a round more for each reset and each background     *)
(* that was given up, as long as the count of frames has not wrapped.      *)
THEOREM CircularBounded ==
  ASSUME MaxBlocks <= IntMax
  PROVE  Spec => []AliasBounded
<1>1. Init => Rounded
  <2>1. 0 <= 0
    OBVIOUS
  <2>2. QED
    BY <2>1, FreshWithin DEF Init, EchoInit, Rounded
<1>2. Inv /\ Rounded /\ [Next]_vars => Rounded'
  BY NextRounded
<1>3. Inv /\ Rounded => AliasBounded
  <2> SUFFICES ASSUME Inv, Rounded, NEW j \in Taps, NEW s \in Speakers
               PROVE  /\ echo.W[j][s].age < (echo.disturbed + 1) * (M - 1)
                      /\ echo.foreground[j][s].age < (echo.disturbed + 1) * (M - 1)
    BY DEF AliasBounded
  <2> DEFINE R == M - 1
             L == echo.disturbed * R
             N == (echo.disturbed + 1) * R
             a == echo.W[j][s].age
             u == Since(j, echo.cancel_count)
  <2>1. echo \in MidType /\ AgeInv(echo)
    BY DEF Inv, EchoInv, Rounded
  <2>2. R \in Nat \ {0} /\ echo.disturbed \in Nat
    BY <2>1, EchoAssumption DEF MidType
  <2>3. L \in Nat /\ N = L + R
    BY <2>2, OneMore
  <2>4. u \in 0 .. R - 1
    <3>1. M - 2 = R - 1 /\ echo.cancel_count \in Nat
      BY <2>1, <2>2, EchoAssumption DEF AgeInv
    <3>2. QED
      BY <3>1, SinceTurn
  <2>5. a \in Nat /\ a <= L + u /\ echo.foreground[j][s].age < N
    BY <2>1, FilterAges DEF AgeInv, Within
  <2> HIDE DEF R, L, N, a, u
  <2>6. a < N
    BY <2>2, <2>3, <2>4, <2>5
  <2>7. QED
    BY <2>5, <2>6 DEF a, N, R
<1>4. QED
  BY <1>1, <1>2, <1>3, SpecInv, PTL DEF Spec
=============================================================================
