------------------------------ MODULE SpeexFft ------------------------------
(***************************************************************************)
(* The transform that the Speex engine of libamznaec_shim is built on:     *)
(* fftwrap.c with USE_KISS_FFT, kiss_fftr.c and kiss_fft.c, in floating    *)
(* point; and what mdf.c does with its packed spectra.                     *)
(*                                                                         *)
(* Floats are replaced by a field in which the arithmetic is exact: the    *)
(* integers modulo a prime P = 3 (mod 4), in which -1 has no root, so that *)
(* an i can be added to them as to the reals.  Root generates the numbers  *)
(* of norm 1, the unit circle of that field: it has P + 1 points, and a    *)
(* turn of 2*pi*num/den is there for every den that divides P + 1.         *)
(* Rounding is left out, and the limit of 17 on a radix: a length with a   *)
(* larger prime factor ends the process, here it is transformed.  Vectors  *)
(* are numbered from 0 as in C.                                            *)
(***************************************************************************)
EXTENDS Integers, Sequences

CONSTANTS
    P, Root,
    Jobs     \* what is computed of which vectors, see Program

VARIABLES
    job, pc,  \* the calls of one user of the transform, and the next of them
    table,    \* struct kiss_config: spx_fft_init's result
    time,     \* the time domain buffer
    freq,     \* the packed spectrum: DC, then re and im of every bin, Nyquist
    kept,     \* another spectrum
    buf,      \* Fout, in the middle of a kiss_fft
    level     \* stages of it that are to come, or Idle
fft_vars == <<job, pc, table, time, freq, kept, buf, level>>

Idle == -1
None == <<>>

-----------------------------------------------------------------------------
(* Complex arithmetic (_kiss_fft_guts.h).                                  *)
Complex(r, i) == [r |-> r % P, i |-> i % P]
CMul(a, b) == Complex(a.r * b.r - a.i * b.i, a.r * b.i + a.i * b.r)
CAdd(a, b) == Complex(a.r + b.r, a.i + b.i)
CSub(a, b) == Complex(a.r - b.r, a.i - b.i)
Conj(a) == Complex(a.r, -a.i)
TimesI(a) == Complex(-a.i, a.r)
Scaled(a, s) == Complex(a.r * (s % P), a.i * (s % P))
Half == (P + 1) \div 2
Power[n \in Nat] ==      \* of Root
    IF n = 0 THEN Complex(1, 0)
    ELSE LET h == Power[n \div 2]
         IN  IF n % 2 = 0 THEN CMul(h, h) ELSE CMul(CMul(h, h), Root)
kf_cexp(num, den) == Power[(((P + 1) * num) \div den) % (P + 1)]
Inverse(n) == CHOOSE k \in 0 .. P - 1 : (k * n) % P = 1
\* f[0] + ... + f[n - 1], by halves.
Pieces(n) == {s \in (0 .. n) \X (0 .. n) : s[1] + s[2] <= n}
CSum(f, n) ==
    LET part[s \in Pieces(n)] ==      \* s[2] terms from s[1] on
            LET h == s[2] \div 2
            IN  IF s[2] = 0 THEN Complex(0, 0)
                ELSE IF s[2] = 1 THEN f[s[1]]
                ELSE CAdd(part[<<s[1], h>>], part[<<s[1] + h, s[2] - h>>])
    IN  part[<<0, n>>]

\* P is a prime that is 3 modulo 4, and Root the P + 1st part of a turn: no
\* smaller power of it is 1, and a quarter of a turn is i.
FieldAssumption ==
    /\ P \in Nat /\ P % 4 = 3
    /\ \A d \in 2 .. P - 1 : P % d # 0
ASSUME FieldAssumption
CircleAssumption ==
    /\ Root \in [r : 0 .. P - 1, i : 0 .. P - 1]
    /\ CMul(Root, Conj(Root)) = Complex(1, 0)
    /\ Power[(P + 1) \div 4] = Complex(0, 1)
    /\ \A k \in 1 .. P : Power[k] # Complex(1, 0)
ASSUME CircleAssumption

\* A length is even and has its part of a turn; the buffer of an error has the
\* error in its second half.
JobsAssumption ==
    \A j \in Jobs :
        LET n == Len(j.first)
        IN  /\ j.kind \in {"round", "filter", "gradient"}
            /\ n \in Nat \ {0} /\ n % 2 = 0 /\ (P + 1) % n = 0
            /\ {j.first, j.second} \subseteq [1 .. n -> 0 .. P - 1]
            /\ j.kind = "gradient" => \A o \in 1 .. n \div 2 : j.first[o] = 0
ASSUME JobsAssumption

-----------------------------------------------------------------------------
(* kiss_fft.c: complex transforms of mixed radix.                          *)

(* Powers of 4, powers of 2, then the other primes; what is left when the  *)
(* square of the next one is too large is prime.                           *)
Radix(n, p) ==
    LET later(q) == (q = 2 /\ p = 4) \/ (q % 2 = 1 /\ q >= 3 /\ (q > p \/ p = 4))
        fits == {q \in 2 .. n : later(q) /\ q <= 32000 /\ q * q <= n /\ n % q = 0}
    IN  IF n % p = 0 THEN p
        ELSE IF fits = {} THEN n
        ELSE CHOOSE q \in fits : \A r \in fits : q <= r
kf_factor(n) ==
    LET stage[l \in Nat] ==
            IF l = 0 THEN [p |-> 4, m |-> n]
            ELSE LET q == Radix(stage[l - 1].m, stage[l - 1].p)
                 IN  [p |-> q, m |-> stage[l - 1].m \div q]
        levels == CHOOSE l \in 1 .. n :
                      stage[l].m = 1 /\ \A k \in 1 .. l - 1 : stage[k].m # 1
    IN  [l \in 1 .. levels |-> stage[l]]
\* The length of the blocks between which level l + 1 and those below it work.
Span(st, l) == IF l = 0 THEN st.nfft ELSE st.factors[l].m

kiss_fft_alloc(n, inverse) ==
    [nfft |-> n, inverse |-> inverse, factors |-> kf_factor(n),
     twiddles |-> [i \in 0 .. n - 1 |-> kf_cexp(IF inverse THEN i ELSE -i, n)]]

\* Source, as it would be with the stride of the first level in all of them.
SourceFlat(st, o) ==
    LET f[l \in 0 .. Len(st.factors)] ==
            IF l = 0 THEN 0 ELSE f[l - 1] + (o % Span(st, l - 1)) \div Span(st, l)
    IN  f[Len(st.factors)]
(* The place in the input of element o of the output: f has moved on with  *)
(* the stride of each level, which is the product of the radices above it. *)
Source(st, o) ==
    LET f[l \in 0 .. Len(st.factors)] ==
            IF l = 0 THEN 0
            ELSE f[l - 1] + ((o % Span(st, l - 1)) \div Span(st, l))
                              * (st.nfft \div Span(st, l - 1))
    IN  f[Len(st.factors)]
kf_shuffle(st, f) == [o \in DOMAIN f |-> f[Source(st, o)]]

(* The butterflies: a is the block's p values at column u of m, tw[q] the  *)
(* twiddle of input q.                                                     *)
Bfly2(a, tw) ==
    LET t == CMul(a[1], tw[1])
    IN  <<CAdd(a[0], t), CSub(a[0], t)>>

Bfly3(a, tw, epi3) ==
    LET s1 == CMul(a[1], tw[1])
        s2 == CMul(a[2], tw[2])
        s3 == CAdd(s1, s2)
        s0 == TimesI(Scaled(CSub(s1, s2), epi3.i))
        mid == CSub(a[0], Scaled(s3, Half))
    IN  <<CAdd(a[0], s3), CAdd(mid, s0), CSub(mid, s0)>>

Bfly4(a, tw, inverse) ==
    LET s0 == CMul(a[1], tw[1])
        s1 == CMul(a[2], tw[2])
        s2 == CMul(a[3], tw[3])
        sum == CAdd(a[0], s1)
        s5 == CSub(a[0], s1)
        s3 == CAdd(s0, s2)
        s4 == TimesI(CSub(s0, s2))
    IN  IF inverse THEN <<CAdd(sum, s3), CAdd(s5, s4), CSub(sum, s3), CSub(s5, s4)>>
        ELSE <<CAdd(sum, s3), CSub(s5, s4), CSub(sum, s3), CAdd(s5, s4)>>

Bfly5(a, tw, ya, yb) ==
    LET s1 == CMul(a[1], tw[1])
        s2 == CMul(a[2], tw[2])
        s3 == CMul(a[3], tw[3])
        s4 == CMul(a[4], tw[4])
        s7 == CAdd(s1, s4)
        s10 == CSub(s1, s4)
        s8 == CAdd(s2, s3)
        s9 == CSub(s2, s3)
        s5 == CAdd(a[0], CAdd(Scaled(s7, ya.r), Scaled(s8, yb.r)))
        s6 == TimesI(CAdd(Scaled(s10, -ya.i), Scaled(s9, -yb.i)))
        s11 == CAdd(a[0], CAdd(Scaled(s7, yb.r), Scaled(s8, ya.r)))
        s12 == TimesI(CSub(Scaled(s10, yb.i), Scaled(s9, ya.i)))
    IN  <<CAdd(a[0], CAdd(s7, s8)), CSub(s5, s6), CAdd(s11, s12),
          CSub(s11, s12), CAdd(s5, s6)>>

(* Any other radix: twidx walks round the circle.                          *)
BflyGeneric(a, st, fstride, m, p, u) ==
    LET twidx(k) ==
            LET at[q \in 0 .. p - 1] ==
                    IF q = 0 THEN 0
                    ELSE LET t == at[q - 1] + fstride * k
                         IN  IF t >= st.nfft THEN t - st.nfft ELSE t
            IN  at
        term(k) == [q \in 0 .. p - 1 |->
                       IF q = 0 THEN a[0] ELSE CMul(a[q], st.twiddles[twidx(k)[q]])]
    IN  [q1 \in 1 .. p |-> CSum(term(u + (q1 - 1) * m), p)]

Butterfly(a, st, fstride, m, p, u) ==
    LET tw == [q \in 1 .. p - 1 |-> st.twiddles[q * u * fstride]]
    IN  CASE p = 2 -> Bfly2(a, tw)
          [] p = 3 -> Bfly3(a, tw, st.twiddles[fstride * m])
          [] p = 4 -> Bfly4(a, tw, st.inverse)
          [] p = 5 -> Bfly5(a, tw, st.twiddles[fstride * m], st.twiddles[fstride * 2 * m])
          [] OTHER -> BflyGeneric(a, st, fstride, m, p, u)

(* kf_work, one level: the stage after those of the levels below it.  Its  *)
(* blocks are mm apart.                                                    *)
Stage(st, l, f) ==
    LET p == st.factors[l].p
        m == st.factors[l].m
        mm == Span(st, l - 1)
        column(o) == [q \in 0 .. p - 1 |-> f[(o \div mm) * mm + (o % m) + q * m]]
    IN  [o \in DOMAIN f |->
            Butterfly(column(o), st, st.nfft \div mm, m, p, o % m)[(o % mm) \div m + 1]]

-----------------------------------------------------------------------------
(* kiss_fftr.c: a real transform of twice the length.                      *)
kiss_fftr_alloc(n, inverse) ==
    LET half == n \div 2
        turn(i) == half + 2 * i   \* of 4*half: pi*(i/half + 1/2)
    IN  [substate |-> kiss_fft_alloc(half, inverse),
         super_twiddles |-> [i \in 0 .. half - 1 |->
             kf_cexp(IF inverse THEN turn(i) ELSE -turn(i), 4 * half)]]

Pairs(x) == [k \in 0 .. Len(x) \div 2 - 1 |-> Complex(x[2 * k + 1], x[2 * k + 2])]

(* kiss_fftr2 behind its kiss_fft, and spx_fft's scale: each k gives two   *)
(* bins, the middle one is written twice.                                  *)
Post(st, t, s) ==
    LET n == st.substate.nfft
        f1(k) == CAdd(t[k], Conj(t[n - k]))
        f2(k) == CSub(t[k], Conj(t[n - k]))
        tw(k) == CMul(f2(k), st.super_twiddles[k])
        bin(k) == IF 2 * k < n THEN Scaled(CAdd(f1(k), tw(k)), Half * s)
                  ELSE Scaled(Conj(CSub(f1(n - k), tw(n - k))), Half * s)
    IN  [o \in 1 .. 2 * n |->
            IF o = 1 THEN ((t[0].r + t[0].i) * s) % P
            ELSE IF o = 2 * n THEN ((t[0].r - t[0].i) * s) % P
            ELSE IF o % 2 = 0 THEN bin(o \div 2).r ELSE bin(o \div 2).i]

(* kiss_fftri2 before its kiss_fft.                                        *)
Pre(st, F) ==
    LET n == st.substate.nfft
        f(k) == Complex(F[2 * k], F[2 * k + 1])
        fek(k) == CAdd(f(k), Conj(f(n - k)))
        fok(k) == CMul(CSub(f(k), Conj(f(n - k))), st.super_twiddles[k])
    IN  [k \in 0 .. n - 1 |->
            IF k = 0 THEN Complex(F[1] + F[2 * n], F[1] - F[2 * n])
            ELSE IF 2 * k < n THEN CAdd(fek(k), fok(k))
            ELSE Conj(CSub(fek(n - k), fok(n - k)))]

Flattened(f) ==
    [o \in 1 .. Len(time) |->
        IF o % 2 = 1 THEN f[o \div 2].r ELSE f[o \div 2 - 1].i]

(* fftwrap.c: the forward transform is scaled by 1/N, the inverse is not.  *)
spx_fft_init(n) ==
    [forward |-> kiss_fftr_alloc(n, FALSE), backward |-> kiss_fftr_alloc(n, TRUE),
     N |-> n]

-----------------------------------------------------------------------------
(* mdf.c: products of packed spectra, the first and the last value are the *)
(* real ones of DC and Nyquist, the others come in pairs.                  *)
IsReal(o, n) == o = 1 \/ o = n
Bin(F, o) == Complex(F[(o \div 2) * 2], F[(o \div 2) * 2 + 1])
Part(z, o) == IF o % 2 = 0 THEN z.r ELSE z.i

\* As it would be with a pair of every two values.
MulPaired(X, Y) ==
    [o \in 1 .. Len(X) |->
        IF o % 2 = 1 THEN (X[o] * Y[o] - X[o + 1] * Y[o + 1]) % P
        ELSE (X[o] * Y[o - 1] + X[o - 1] * Y[o]) % P]
spectral_mul(X, Y) ==
    [o \in 1 .. Len(X) |->
        IF IsReal(o, Len(X)) THEN (X[o] * Y[o]) % P
        ELSE Part(CMul(Bin(X, o), Bin(Y, o)), o)]

\* As it would be with the conjugate of the other factor.
MulConjOther(X, Y) ==
    [o \in 1 .. Len(X) |->
        IF IsReal(o, Len(X)) THEN (X[o] * Y[o]) % P
        ELSE Part(CMul(Bin(X, o), Conj(Bin(Y, o))), o)]
weighted_spectral_mul_conj(X, Y) ==      \* with weights of 1
    [o \in 1 .. Len(X) |->
        IF IsReal(o, Len(X)) THEN (X[o] * Y[o]) % P
        ELSE Part(CMul(Conj(Bin(X, o)), Bin(Y, o)), o)]

(* Only the first half of a block's weights belongs to the filter, only    *)
(* the second half of an error's buffer holds the error.                   *)
FirstHalf(x) == [o \in 1 .. Len(x) |-> IF 2 * o <= Len(x) THEN x[o] ELSE 0]
SecondHalf(x) == [o \in 1 .. Len(x) |-> IF 2 * o <= Len(x) THEN 0 ELSE x[o]]

-----------------------------------------------------------------------------
(* The calls, in the order in which the canceller makes them.  "round":    *)
(* what preprocess.c does to a spectrum it leaves alone.  "filter": a      *)
(* block's weights are constrained, then applied to the far end.           *)
(* "gradient": an error against the far end.                               *)
Program(kind) ==
    CASE kind = "round"    -> <<"fft", "ifft">>
      [] kind = "filter"   -> <<"fft", "ifft", "constrain", "fft", "keep", "load",
                                "fft", "accum", "ifft">>
      [] kind = "gradient" -> <<"fft", "keep", "load", "fft", "conj", "ifft">>
Op == IF table = None \/ pc > Len(Program(job.kind)) THEN "none" ELSE Program(job.kind)[pc]
Config == IF Op = "fft" THEN table.forward ELSE table.backward

FftInit == /\ job \in Jobs /\ pc = 1 /\ table = None
           /\ time = job.first /\ freq = None /\ kept = None
           /\ buf = None /\ level = Idle

Create ==
    /\ table = None
    /\ table' = spx_fft_init(Len(time))
    /\ UNCHANGED <<job, pc, time, freq, kept, buf, level>>

(* spx_fft and spx_ifft run as far as the start of kiss_fft, stage by      *)
(* stage, and from there to their end.                                     *)
StartFft ==
    /\ Op = "fft" /\ level = Idle
    /\ buf' = kf_shuffle(Config.substate, Pairs(time))
    /\ level' = Len(Config.substate.factors)
    /\ UNCHANGED <<job, pc, table, time, freq, kept>>
StartIfft ==
    /\ Op = "ifft" /\ level = Idle
    /\ buf' = kf_shuffle(Config.substate, Pre(Config, freq))
    /\ level' = Len(Config.substate.factors)
    /\ UNCHANGED <<job, pc, table, time, freq, kept>>
KfWork ==
    /\ level > 0
    /\ buf' = Stage(Config.substate, level, buf)
    /\ level' = level - 1
    /\ UNCHANGED <<job, pc, table, time, freq, kept>>
EndFft ==
    /\ Op = "fft" /\ level = 0
    /\ freq' = Post(Config, buf, Inverse(table.N))
    /\ buf' = None /\ level' = Idle /\ pc' = pc + 1
    /\ UNCHANGED <<job, table, time, kept>>
EndIfft ==
    /\ Op = "ifft" /\ level = 0
    /\ time' = Flattened(buf)
    /\ buf' = None /\ level' = Idle /\ pc' = pc + 1
    /\ UNCHANGED <<job, table, freq, kept>>

Step == /\ pc' = pc + 1
        /\ UNCHANGED <<job, table, buf, level>>
Constrain == /\ Op = "constrain" /\ Step
             /\ time' = FirstHalf(time)
             /\ UNCHANGED <<freq, kept>>
Keep == /\ Op = "keep" /\ Step
        /\ kept' = freq
        /\ UNCHANGED <<time, freq>>
Load == /\ Op = "load" /\ Step
        /\ time' = job.second
        /\ UNCHANGED <<freq, kept>>
Accumulate == /\ Op = "accum" /\ Step
              /\ freq' = spectral_mul(freq, kept)
              /\ UNCHANGED <<time, kept>>
Correlate == /\ Op = "conj" /\ Step
             /\ freq' = weighted_spectral_mul_conj(freq, kept)
             /\ UNCHANGED <<time, kept>>

Done == table # None /\ Op = "none"
FftNext == \/ Create \/ StartFft \/ StartIfft \/ KfWork \/ EndFft \/ EndIfft
           \/ Constrain \/ Keep \/ Load \/ Accumulate \/ Correlate

-----------------------------------------------------------------------------
(* The definition of the discrete Fourier transform.                       *)
Dft(x, k) ==
    CSum([t \in 0 .. Len(x) - 1 |-> CMul(Complex(x[t + 1], 0), kf_cexp(-k * t, Len(x)))],
         Len(x))
\* Bin k of a packed spectrum.
Unpacked(F, k) ==
    IF k = 0 THEN Complex(F[1], 0)
    ELSE IF 2 * k = Len(F) THEN Complex(F[Len(F)], 0) ELSE Bin(F, 2 * k)

(* A transform and its inverse agree with the definition of the discrete   *)
(* Fourier transform: after either, every bin of the packed spectrum is    *)
(* the sum over the time domain, by N, whatever radices N has and whatever *)
(* was transformed before (kiss_fftr.c:161-228 and 230-296).               *)
TransformTrue ==
    (pc > 1 /\ level = Idle /\ Program(job.kind)[pc - 1] \in {"fft", "ifft"}) =>
        \A k \in 0 .. Len(time) \div 2 :
            Scaled(Unpacked(freq, k), Len(time)) = Dft(time, k)

(* The echo is the far end under the weights: the second half of what      *)
(* comes out for a constrained block is the linear convolution of its      *)
(* weights with the two frames, nothing wraps round (mdf.c:309-326 and     *)
(* 826-865).                                                               *)
FilterConvolves ==
    (job.kind = "filter" /\ Done) =>
        LET n == Len(time)
            term(o) == [d \in 0 .. n \div 2 - 1 |->
                           Complex(job.first[d + 1] * job.second[o - d], 0)]
        IN  \A o \in n \div 2 + 1 .. n :
                Complex(time[o] * n, 0) = CSum(term(o), n \div 2)

(* The gradient is the correlation of the error with the far end, for      *)
(* every delay a constrained block can learn (mdf.c:331-345 and 808-820).  *)
GradientCorrelates ==
    (job.kind = "gradient" /\ Done) =>
        LET n == Len(time)
            h == n \div 2
            term(d) == [o \in 0 .. h - 1 |->
                           Complex(job.first[h + 1 + o] * job.second[h + 1 + o - d], 0)]
        IN  \A d \in 0 .. h - 1 :
                Complex(time[d + 1] * n, 0) = CSum(term(d), h)
=============================================================================
