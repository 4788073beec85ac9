--------------------------- MODULE SpeexFft_proofs ----------------------------
(***************************************************************************)
(* Theorems about the transforms of SpeexFft, of EngineSpec: they are the  *)
(* discrete Fourier transform and its inverse, the filter convolves and    *)
(* the gradient correlates, for every field, every length that the field   *)
(* has a part of a turn for, of whatever factors, and every signal.        *)
(*                                                                         *)
(* The argument goes up from the field: its complex numbers are a ring and *)
(* Root's powers a circle (Turn); n-th parts of a turn sum to 0 or n, so   *)
(* that spectra can be inverted (Inversion) and multiplied (Product).      *)
(* kf_factor makes a chain of radices (FactorsOf), kf_shuffle puts every   *)
(* value where the stages want it, a butterfly sums its block              *)
(* (ButterflyTrue), and with each stage the blocks are transforms of more  *)
(* of the input (Staged) until there is one (KissFft).  The real           *)
(* transforms take the two halves of a signal apart and together           *)
(* (PostTrue, BackTrue); products of packed spectra are products of bins;  *)
(* and EngineInv says what the buffers hold before each call of a job.     *)
(***************************************************************************)
EXTENDS SpeexEngine, WellFoundedInduction, TLAPS

-----------------------------------------------------------------------------
(* The numbers: remainders by P, and the complex numbers over them, a ring.*)
C == [r : 0 .. P - 1, i : 0 .. P - 1]
Zero == Complex(0, 0)
One == Complex(1, 0)

LEMMA PIsOdd == P \in Nat \ {0} /\ P >= 3 /\ Half \in Nat /\ 2 * Half = P + 1
<1>1. P \in Nat /\ P % 4 = 3
  BY FieldAssumption DEF FieldAssumption
<1>2. P >= 3
  BY <1>1
<1>3. P % 2 = 1
  BY <1>1
<1> QED BY <1>1, <1>2, <1>3 DEF Half

LEMMA Remainder ==
  ASSUME NEW n \in Nat \ {0}, NEW r \in 0 .. n - 1, NEW k \in Int
  PROVE  (k * n + r) % n = r /\ (k * n + r) \div n = k
OBVIOUS

LEMMA Division ==
  ASSUME NEW x \in Int, NEW n \in Nat \ {0}
  PROVE  x % n \in 0 .. n - 1 /\ x \div n \in Int /\ x = (x \div n) * n + (x % n)
OBVIOUS

LEMMA ModStep == ASSUME NEW x \in Int, NEW y \in Int, NEW k \in Int, x = y + k * P
                 PROVE  x % P = y % P
<1>1. P \in Nat \ {0} BY PIsOdd
<1> DEFINE r == y % P  j == y \div P
<1>2. r \in 0 .. P - 1 /\ j \in Int /\ y = j * P + r BY <1>1, Division
<1> HIDE DEF r, j
<1>3. x = (j + k) * P + r BY <1>1, <1>2
<1>4. j + k \in Int BY <1>2
<1>5. x % P = r BY <1>1, <1>2, <1>3, <1>4, Remainder
<1> QED BY <1>5 DEF r

LEMMA ModRest == ASSUME NEW x \in Int
                 PROVE  x % P \in 0 .. P - 1 /\ \E k \in Int : x = (x % P) + k * P
<1>1. P \in Nat \ {0} BY PIsOdd
<1>2. x % P \in 0 .. P - 1 /\ x \div P \in Int /\ x = (x \div P) * P + (x % P)
  BY <1>1, Division
<1>3. x = (x % P) + (x \div P) * P
  BY <1>1, <1>2
<1> QED BY <1>2, <1>3

LEMMA ModSame == ASSUME NEW x \in 0 .. P - 1 PROVE x % P = x
<1>1. P \in Nat \ {0} BY PIsOdd
<1> QED BY <1>1

LEMMA InC == ASSUME NEW x \in Int, NEW y \in Int PROVE Complex(x, y) \in C
BY ModRest DEF Complex, C

LEMMA AsComplex == ASSUME NEW a \in C
                   PROVE  a.r \in Int /\ a.i \in Int /\ a = Complex(a.r, a.i)
<1>1. P \in Nat \ {0} BY PIsOdd
<1>2. a.r \in 0 .. P - 1 /\ a.i \in 0 .. P - 1 /\ a = [r |-> a.r, i |-> a.i]
  BY DEF C
<1> QED BY <1>1, <1>2, ModSame DEF Complex

LEMMA Congruent ==
  ASSUME NEW x \in Int, NEW y \in Int, NEW u \in Int, NEW v \in Int,
         NEW k \in Int, NEW l \in Int, x = u + k * P, y = v + l * P
  PROVE  Complex(x, y) = Complex(u, v)
BY ModStep DEF Complex

LEMMA AddHom ==
  ASSUME NEW x \in Int, NEW y \in Int, NEW u \in Int, NEW v \in Int
  PROVE  CAdd(Complex(x, y), Complex(u, v)) = Complex(x + u, y + v)
<1> DEFINE xr == x % P  yr == y % P  ur == u % P  vr == v % P
<1>0. P \in Int BY PIsOdd
<1>1. PICK k \in Int : x = xr + k * P BY ModRest
<1>2. PICK l \in Int : y = yr + l * P BY ModRest
<1>3. PICK m \in Int : u = ur + m * P BY ModRest
<1>4. PICK n \in Int : v = vr + n * P BY ModRest
<1>5. xr \in Int /\ yr \in Int /\ ur \in Int /\ vr \in Int
  BY ModRest, <1>0
<1>6. CAdd(Complex(x, y), Complex(u, v)) = Complex(xr + ur, yr + vr)
  BY DEF CAdd, Complex
<1> HIDE DEF xr, yr, ur, vr
<1>7. x + u = (xr + ur) + (k + m) * P /\ y + v = (yr + vr) + (l + n) * P
  BY <1>0, <1>1, <1>2, <1>3, <1>4, <1>5
<1>8. Complex(x + u, y + v) = Complex(xr + ur, yr + vr)
  BY <1>5, <1>7, Congruent
<1> QED BY <1>6, <1>8

LEMMA SubHom ==
  ASSUME NEW x \in Int, NEW y \in Int, NEW u \in Int, NEW v \in Int
  PROVE  CSub(Complex(x, y), Complex(u, v)) = Complex(x - u, y - v)
<1> DEFINE xr == x % P  yr == y % P  ur == u % P  vr == v % P
<1>0. P \in Int BY PIsOdd
<1>1. PICK k \in Int : x = xr + k * P BY ModRest
<1>2. PICK l \in Int : y = yr + l * P BY ModRest
<1>3. PICK m \in Int : u = ur + m * P BY ModRest
<1>4. PICK n \in Int : v = vr + n * P BY ModRest
<1>5. xr \in Int /\ yr \in Int /\ ur \in Int /\ vr \in Int
  BY ModRest, <1>0
<1>6. CSub(Complex(x, y), Complex(u, v)) = Complex(xr - ur, yr - vr)
  BY DEF CSub, Complex
<1> HIDE DEF xr, yr, ur, vr
<1>7. x - u = (xr - ur) + (k - m) * P /\ y - v = (yr - vr) + (l - n) * P
  BY <1>0, <1>1, <1>2, <1>3, <1>4, <1>5
<1>8. Complex(x - u, y - v) = Complex(xr - ur, yr - vr)
  BY <1>5, <1>7, Congruent
<1> QED BY <1>6, <1>8

LEMMA MulHom ==
  ASSUME NEW x \in Int, NEW y \in Int, NEW u \in Int, NEW v \in Int
  PROVE  CMul(Complex(x, y), Complex(u, v)) = Complex(x * u - y * v, x * v + y * u)
<1> DEFINE xr == x % P  yr == y % P  ur == u % P  vr == v % P
<1>0. P \in Int BY PIsOdd
<1>1. PICK k \in Int : x = xr + k * P BY ModRest
<1>2. PICK l \in Int : y = yr + l * P BY ModRest
<1>3. PICK m \in Int : u = ur + m * P BY ModRest
<1>4. PICK n \in Int : v = vr + n * P BY ModRest
<1>5. xr \in Int /\ yr \in Int /\ ur \in Int /\ vr \in Int
  BY ModRest, <1>0
<1>6. CMul(Complex(x, y), Complex(u, v)) = Complex(xr * ur - yr * vr, xr * vr + yr * ur)
  BY DEF CMul, Complex
<1> HIDE DEF xr, yr, ur, vr
<1>7. /\ x * u - y * v = (xr * ur - yr * vr)
                         + (xr * m + k * ur + k * m * P - yr * n - l * vr - l * n * P) * P
      /\ x * v + y * u = (xr * vr + yr * ur)
                         + (xr * n + k * vr + k * n * P + yr * m + l * ur + l * m * P) * P
  BY <1>0, <1>1, <1>2, <1>3, <1>4, <1>5
<1> DEFINE g == xr * m + k * ur + k * m * P - yr * n - l * vr - l * n * P
           h == xr * n + k * vr + k * n * P + yr * m + l * ur + l * m * P
           a == x * u - y * v  b == x * v + y * u
           c == xr * ur - yr * vr  d == xr * vr + yr * ur
<1>9. /\ g \in Int /\ h \in Int /\ a \in Int /\ b \in Int /\ c \in Int /\ d \in Int
      /\ a = c + g * P /\ b = d + h * P
  BY <1>0, <1>5, <1>7
<1>8. Complex(a, b) = Complex(c, d)
  <2> HIDE DEF a, b, c, d, g, h
  <2> QED BY <1>9, Congruent
<1> QED BY <1>6, <1>8

LEMMA ConjHom ==
  ASSUME NEW x \in Int, NEW y \in Int
  PROVE  Conj(Complex(x, y)) = Complex(x, -y)
<1>0. P \in Int BY PIsOdd
<1>1. PICK k \in Int : x = (x % P) + k * P BY ModRest
<1>2. PICK l \in Int : y = (y % P) + l * P BY ModRest
<1>5. x % P \in Int /\ y % P \in Int
  BY ModRest, <1>0
<1>6. Conj(Complex(x, y)) = Complex(x % P, -(y % P))
  BY DEF Conj, Complex
<1>7. x = (x % P) + k * P /\ -y = -(y % P) + (-l) * P
  BY <1>0, <1>1, <1>2, <1>5
<1>8. Complex(x, -y) = Complex(x % P, -(y % P))
  BY <1>5, <1>7, Congruent
<1> QED BY <1>6, <1>8

LEMMA TimesIHom ==
  ASSUME NEW x \in Int, NEW y \in Int
  PROVE  TimesI(Complex(x, y)) = Complex(-y, x)
<1>0. P \in Int BY PIsOdd
<1>1. PICK k \in Int : x = (x % P) + k * P BY ModRest
<1>2. PICK l \in Int : y = (y % P) + l * P BY ModRest
<1>5. x % P \in Int /\ y % P \in Int
  BY ModRest, <1>0
<1>6. TimesI(Complex(x, y)) = Complex(-(y % P), x % P)
  BY DEF TimesI, Complex
<1>7. x = (x % P) + k * P /\ -y = -(y % P) + (-l) * P
  BY <1>0, <1>1, <1>2, <1>5
<1>8. Complex(-y, x) = Complex(-(y % P), x % P)
  BY <1>5, <1>7, Congruent
<1> QED BY <1>6, <1>8

LEMMA ScaledHom ==
  ASSUME NEW x \in Int, NEW y \in Int, NEW s \in Int
  PROVE  Scaled(Complex(x, y), s) = Complex(x * s, y * s)
<1> DEFINE xr == x % P  yr == y % P  sr == s % P
<1>0. P \in Int BY PIsOdd
<1>1. PICK k \in Int : x = xr + k * P BY ModRest
<1>2. PICK l \in Int : y = yr + l * P BY ModRest
<1>3. PICK m \in Int : s = sr + m * P BY ModRest
<1>5. xr \in Int /\ yr \in Int /\ sr \in Int
  BY ModRest, <1>0
<1>6. Scaled(Complex(x, y), s) = Complex(xr * sr, yr * sr)
  BY DEF Scaled, Complex
<1> HIDE DEF xr, yr, sr
<1>7. /\ x * s = (xr * sr) + (xr * m + k * sr + k * m * P) * P
      /\ y * s = (yr * sr) + (yr * m + l * sr + l * m * P) * P
  BY <1>0, <1>1, <1>2, <1>3, <1>5
<1> DEFINE g == xr * m + k * sr + k * m * P
           h == yr * m + l * sr + l * m * P
           a == x * s  b == y * s
           c == xr * sr  d == yr * sr
<1>9. /\ g \in Int /\ h \in Int /\ a \in Int /\ b \in Int /\ c \in Int /\ d \in Int
      /\ a = c + g * P /\ b = d + h * P
  BY <1>0, <1>5, <1>7
<1>8. Complex(a, b) = Complex(c, d)
  <2> HIDE DEF a, b, c, d, g, h
  <2> QED BY <1>9, Congruent
<1> QED BY <1>6, <1>8

\* The ring.
LEMMA Closed ==
  ASSUME NEW a \in C, NEW b \in C
  PROVE  /\ CAdd(a, b) \in C /\ CSub(a, b) \in C /\ CMul(a, b) \in C
         /\ Conj(a) \in C /\ TimesI(a) \in C
<1>1. /\ a.r \in Int /\ a.i \in Int /\ a = Complex(a.r, a.i)
      /\ b.r \in Int /\ b.i \in Int /\ b = Complex(b.r, b.i)
  BY AsComplex
<1>2. CAdd(a, b) \in C BY <1>1, InC DEF CAdd
<1>3. CSub(a, b) \in C BY <1>1, InC DEF CSub
<1>4. CMul(a, b) \in C BY <1>1, InC DEF CMul
<1>5. Conj(a) \in C /\ TimesI(a) \in C BY <1>1, InC DEF Conj, TimesI
<1> QED BY <1>2, <1>3, <1>4, <1>5

LEMMA ZeroOne == Zero \in C /\ One \in C
BY InC DEF Zero, One

LEMMA AddRing ==
  ASSUME NEW a \in C, NEW b \in C, NEW c \in C
  PROVE  /\ CAdd(a, b) = CAdd(b, a)
         /\ CAdd(CAdd(a, b), c) = CAdd(a, CAdd(b, c))
         /\ CAdd(a, Zero) = a /\ CAdd(Zero, a) = a
         /\ CSub(CAdd(a, b), b) = a /\ CAdd(CSub(a, b), b) = a
         /\ CSub(a, a) = Zero
<1> DEFINE ar == a.r  ai == a.i  br == b.r  bi == b.i  cr == c.r  ci == c.i
<1>1. /\ ar \in Int /\ ai \in Int /\ a = Complex(ar, ai)
      /\ br \in Int /\ bi \in Int /\ b = Complex(br, bi)
      /\ cr \in Int /\ ci \in Int /\ c = Complex(cr, ci)
  BY AsComplex
<1> HIDE DEF ar, ai, br, bi, cr, ci
<1>2. /\ CAdd(a, b) = Complex(ar + br, ai + bi) /\ CAdd(b, a) = Complex(br + ar, bi + ai)
      /\ CAdd(b, c) = Complex(br + cr, bi + ci) /\ CSub(a, b) = Complex(ar - br, ai - bi)
  <2>1. CAdd(a, b) = Complex(ar + br, ai + bi) BY <1>1, AddHom
  <2>2. CAdd(b, a) = Complex(br + ar, bi + ai) BY <1>1, AddHom
  <2>3. CAdd(b, c) = Complex(br + cr, bi + ci) BY <1>1, AddHom
  <2>4. CSub(a, b) = Complex(ar - br, ai - bi) BY <1>1, SubHom
  <2> QED BY <2>1, <2>2, <2>3, <2>4
<1>3. CAdd(a, b) = CAdd(b, a)
  <2>1. ar + br = br + ar /\ ai + bi = bi + ai BY <1>1
  <2> QED BY <1>2, <2>1
<1>4. CAdd(CAdd(a, b), c) = CAdd(a, CAdd(b, c))
  <2>1. CAdd(CAdd(a, b), c) = Complex((ar + br) + cr, (ai + bi) + ci) BY <1>1, <1>2, AddHom
  <2>2. CAdd(a, CAdd(b, c)) = Complex(ar + (br + cr), ai + (bi + ci)) BY <1>1, <1>2, AddHom
  <2>3. (ar + br) + cr = ar + (br + cr) /\ (ai + bi) + ci = ai + (bi + ci) BY <1>1
  <2> QED BY <2>1, <2>2, <2>3
<1>5. CAdd(a, Zero) = a /\ CAdd(Zero, a) = a
  <2>0. 0 \in Int OBVIOUS
  <2>1. CAdd(a, Zero) = Complex(ar + 0, ai + 0) BY <1>1, <2>0, AddHom DEF Zero
  <2>3. CAdd(Zero, a) = Complex(0 + ar, 0 + ai) BY <1>1, <2>0, AddHom DEF Zero
  <2>2. ar + 0 = ar /\ ai + 0 = ai /\ 0 + ar = ar /\ 0 + ai = ai BY <1>1
  <2> QED BY <1>1, <2>1, <2>2, <2>3
<1>6. CSub(CAdd(a, b), b) = a
  <2>1. CSub(CAdd(a, b), b) = Complex((ar + br) - br, (ai + bi) - bi) BY <1>1, <1>2, SubHom
  <2>2. (ar + br) - br = ar /\ (ai + bi) - bi = ai BY <1>1
  <2> QED BY <1>1, <2>1, <2>2
<1>7. CAdd(CSub(a, b), b) = a
  <2>1. CAdd(CSub(a, b), b) = Complex((ar - br) + br, (ai - bi) + bi) BY <1>1, <1>2, AddHom
  <2>2. (ar - br) + br = ar /\ (ai - bi) + bi = ai BY <1>1
  <2> QED BY <1>1, <2>1, <2>2
<1>8. CSub(a, a) = Zero
  <2>1. CSub(a, a) = Complex(ar - ar, ai - ai) BY <1>1, SubHom
  <2>2. ar - ar = 0 /\ ai - ai = 0 BY <1>1
  <2> QED BY <2>1, <2>2 DEF Zero
<1> QED BY <1>3, <1>4, <1>5, <1>6, <1>7, <1>8

\* The homomorphism with the numbers named.
LEMMA MulNamed ==
  ASSUME NEW x \in Int, NEW y \in Int, NEW u \in Int, NEW v \in Int, NEW a, NEW b,
         a = Complex(x, y), b = Complex(u, v)
  PROVE  CMul(a, b) = Complex(x * u - y * v, x * v + y * u)
BY MulHom

LEMMA MulRing ==
  ASSUME NEW a \in C, NEW b \in C, NEW c \in C
  PROVE  /\ CMul(a, b) = CMul(b, a)
         /\ CMul(CMul(a, b), c) = CMul(a, CMul(b, c))
         /\ CMul(a, One) = a /\ CMul(One, a) = a
         /\ CMul(a, Zero) = Zero /\ CMul(Zero, a) = Zero
         /\ CMul(a, CAdd(b, c)) = CAdd(CMul(a, b), CMul(a, c))
         /\ CMul(a, CSub(b, c)) = CSub(CMul(a, b), CMul(a, c))
<1> DEFINE ar == a.r  ai == a.i  br == b.r  bi == b.i  cr == c.r  ci == c.i
<1>1. /\ ar \in Int /\ ai \in Int /\ a = Complex(ar, ai)
      /\ br \in Int /\ bi \in Int /\ b = Complex(br, bi)
      /\ cr \in Int /\ ci \in Int /\ c = Complex(cr, ci)
  BY AsComplex
<1> HIDE DEF ar, ai, br, bi, cr, ci
<1>2. /\ CMul(a, b) = Complex(ar * br - ai * bi, ar * bi + ai * br)
      /\ CMul(b, a) = Complex(br * ar - bi * ai, br * ai + bi * ar)
      /\ CMul(b, c) = Complex(br * cr - bi * ci, br * ci + bi * cr)
      /\ CMul(a, c) = Complex(ar * cr - ai * ci, ar * ci + ai * cr)
  <2>1. CMul(a, b) = Complex(ar * br - ai * bi, ar * bi + ai * br) BY <1>1, MulHom
  <2>2. CMul(b, a) = Complex(br * ar - bi * ai, br * ai + bi * ar) BY <1>1, MulHom
  <2>3. CMul(b, c) = Complex(br * cr - bi * ci, br * ci + bi * cr) BY <1>1, MulHom
  <2>4. CMul(a, c) = Complex(ar * cr - ai * ci, ar * ci + ai * cr) BY <1>1, MulHom
  <2> QED BY <2>1, <2>2, <2>3, <2>4
<1>3. CMul(a, b) = CMul(b, a)
  <2>1. ar * br - ai * bi = br * ar - bi * ai /\ ar * bi + ai * br = br * ai + bi * ar
    BY <1>1
  <2> QED BY <1>2, <2>1
<1>4. CMul(CMul(a, b), c) = CMul(a, CMul(b, c))
  <2> DEFINE x == ar * br - ai * bi  y == ar * bi + ai * br
             u == br * cr - bi * ci  v == br * ci + bi * cr
  <2>0. x \in Int /\ y \in Int /\ u \in Int /\ v \in Int BY <1>1
  <2>1. x * cr - y * ci = ar * u - ai * v /\ x * ci + y * cr = ar * v + ai * u
    BY <1>1
  <2>2. CMul(a, b) = Complex(x, y) /\ CMul(b, c) = Complex(u, v) BY <1>2
  <2> HIDE DEF x, y, u, v
  <2>3. CMul(CMul(a, b), c) = Complex(x * cr - y * ci, x * ci + y * cr)
    BY <1>1, <2>0, <2>2, MulHom
  <2>4. CMul(a, CMul(b, c)) = Complex(ar * u - ai * v, ar * v + ai * u)
    BY <1>1, <2>0, <2>2, MulHom
  <2> QED BY <2>1, <2>3, <2>4
<1>5. CMul(a, One) = a /\ CMul(One, a) = a
  <2> DEFINE o == 1  z == 0
  <2>0. o = 1 /\ z = 0 /\ o \in Int /\ z \in Int /\ One = Complex(o, z)
    BY DEF One
  <2> HIDE DEF o, z
  <2>1. CMul(a, One) = Complex(ar * o - ai * z, ar * z + ai * o)
    BY <1>1, <2>0, MulNamed
  <2>2. CMul(One, a) = Complex(o * ar - z * ai, o * ai + z * ar)
    BY <1>1, <2>0, MulNamed
  <2>3. /\ ar * o - ai * z = ar /\ ar * z + ai * o = ai
        /\ o * ar - z * ai = ar /\ o * ai + z * ar = ai
    BY <1>1, <2>0
  <2> QED BY <1>1, <2>1, <2>2, <2>3
<1>6. CMul(a, Zero) = Zero /\ CMul(Zero, a) = Zero
  <2> DEFINE z == 0
  <2>0. z = 0 /\ z \in Int /\ Zero = Complex(z, z)
    BY DEF Zero
  <2> HIDE DEF z
  <2>1. CMul(a, Zero) = Complex(ar * z - ai * z, ar * z + ai * z)
    BY <1>1, <2>0, MulNamed
  <2>2. CMul(Zero, a) = Complex(z * ar - z * ai, z * ai + z * ar)
    BY <1>1, <2>0, MulNamed
  <2>3. /\ ar * z - ai * z = z /\ ar * z + ai * z = z
        /\ z * ar - z * ai = z /\ z * ai + z * ar = z
    BY <1>1, <2>0
  <2> QED BY <2>0, <2>1, <2>2, <2>3
<1> DEFINE x == ar * br - ai * bi  y == ar * bi + ai * br
           u == ar * cr - ai * ci  v == ar * ci + ai * cr
<1>9. x \in Int /\ y \in Int /\ u \in Int /\ v \in Int BY <1>1
<1>10. CMul(a, b) = Complex(x, y) /\ CMul(a, c) = Complex(u, v) BY <1>2
<1>7. CMul(a, CAdd(b, c)) = CAdd(CMul(a, b), CMul(a, c))
  <2>1. /\ ar * (br + cr) - ai * (bi + ci) = x + u
        /\ ar * (bi + ci) + ai * (br + cr) = y + v
    BY <1>1
  <2> HIDE DEF x, y, u, v
  <2>2. CAdd(CMul(a, b), CMul(a, c)) = Complex(x + u, y + v) BY <1>9, <1>10, AddHom
  <2>3. CAdd(b, c) = Complex(br + cr, bi + ci) BY <1>1, AddHom
  <2>4. CMul(a, CAdd(b, c)) = Complex(ar * (br + cr) - ai * (bi + ci),
                                      ar * (bi + ci) + ai * (br + cr))
    BY <1>1, <2>3, MulHom
  <2> QED BY <2>1, <2>2, <2>4
<1>8. CMul(a, CSub(b, c)) = CSub(CMul(a, b), CMul(a, c))
  <2>1. /\ ar * (br - cr) - ai * (bi - ci) = x - u
        /\ ar * (bi - ci) + ai * (br - cr) = y - v
    BY <1>1
  <2> HIDE DEF x, y, u, v
  <2>2. CSub(CMul(a, b), CMul(a, c)) = Complex(x - u, y - v) BY <1>9, <1>10, SubHom
  <2>3. CSub(b, c) = Complex(br - cr, bi - ci) BY <1>1, SubHom
  <2>4. CMul(a, CSub(b, c)) = Complex(ar * (br - cr) - ai * (bi - ci),
                                      ar * (bi - ci) + ai * (br - cr))
    BY <1>1, <2>3, MulHom
  <2> QED BY <2>1, <2>2, <2>4
<1> QED BY <1>3, <1>4, <1>5, <1>6, <1>7, <1>8
Img == Complex(0, 1)

LEMMA ScaledIsMul ==
  ASSUME NEW a \in C, NEW s \in Int
  PROVE  Scaled(a, s) = CMul(a, Complex(s, 0))
<1> DEFINE ar == a.r  ai == a.i  z == 0
<1>0. z = 0 /\ z \in Int OBVIOUS
<1>1. ar \in Int /\ ai \in Int /\ a = Complex(ar, ai) BY AsComplex
<1> HIDE DEF ar, ai, z
<1>2. Scaled(a, s) = Complex(ar * s, ai * s)
  <2>1. Scaled(Complex(ar, ai), s) = Complex(ar * s, ai * s) BY <1>1, ScaledHom, Zenon
  <2> QED BY <1>1, <2>1
<1>3. CMul(a, Complex(s, z)) = Complex(ar * s - ai * z, ar * z + ai * s)
  BY <1>0, <1>1, MulNamed
<1>4. ar * s - ai * z = ar * s /\ ar * z + ai * s = ai * s
  BY <1>0, <1>1
<1> QED BY <1>0, <1>2, <1>3, <1>4

LEMMA TimesIIsMul ==
  ASSUME NEW a \in C
  PROVE  TimesI(a) = CMul(Img, a)
<1> DEFINE ar == a.r  ai == a.i  z == 0  o == 1
<1>0. z = 0 /\ z \in Int /\ o = 1 /\ o \in Int /\ Img = Complex(z, o) BY DEF Img
<1>1. ar \in Int /\ ai \in Int /\ a = Complex(ar, ai) BY AsComplex
<1> HIDE DEF ar, ai, z, o
<1>2. TimesI(a) = Complex(-ai, ar)
  <2>1. TimesI(Complex(ar, ai)) = Complex(-ai, ar) BY <1>1, TimesIHom
  <2> QED BY <1>1, <2>1
<1>3. CMul(Img, a) = Complex(z * ar - o * ai, z * ai + o * ar)
  BY <1>0, <1>1, MulNamed
<1>4. z * ar - o * ai = -ai /\ z * ai + o * ar = ar
  BY <1>0, <1>1
<1> QED BY <1>0, <1>2, <1>3, <1>4

LEMMA ConjRing ==
  ASSUME NEW a \in C, NEW b \in C
  PROVE  /\ Conj(Conj(a)) = a
         /\ Conj(CAdd(a, b)) = CAdd(Conj(a), Conj(b))
         /\ Conj(CSub(a, b)) = CSub(Conj(a), Conj(b))
         /\ Conj(CMul(a, b)) = CMul(Conj(a), Conj(b))
<1> DEFINE ar == a.r  ai == a.i  br == b.r  bi == b.i
<1>1. /\ ar \in Int /\ ai \in Int /\ a = Complex(ar, ai)
      /\ br \in Int /\ bi \in Int /\ b = Complex(br, bi)
  BY AsComplex
<1> HIDE DEF ar, ai, br, bi
<1>2. Conj(a) = Complex(ar, -ai) /\ Conj(b) = Complex(br, -bi)
  BY <1>1, ConjHom
<1>3. Conj(Conj(a)) = a
  <2> DEFINE y == -ai
  <2>1. y \in Int /\ -y = ai BY <1>1
  <2>2. Conj(Complex(ar, y)) = Complex(ar, -y) BY <1>1, <2>1, ConjHom
  <2> QED BY <1>1, <1>2, <2>1, <2>2
<1>4. Conj(CAdd(a, b)) = CAdd(Conj(a), Conj(b))
  <2> DEFINE x == ar + br  y == ai + bi  u == -ai  v == -bi
  <2>1. x \in Int /\ y \in Int /\ u \in Int /\ v \in Int /\ u + v = -y BY <1>1
  <2>2. CAdd(a, b) = Complex(x, y) BY <1>1, AddHom
  <2>4. CAdd(Conj(a), Conj(b)) = CAdd(Complex(ar, u), Complex(br, v)) BY <1>2
  <2> HIDE DEF x, y, u, v
  <2>3. Conj(CAdd(a, b)) = Complex(x, -y) BY <2>1, <2>2, ConjHom
  <2>5. CAdd(Complex(ar, u), Complex(br, v)) = Complex(ar + br, u + v) BY <1>1, <2>1, AddHom
  <2> QED BY <2>1, <2>3, <2>4, <2>5 DEF x
<1>5. Conj(CSub(a, b)) = CSub(Conj(a), Conj(b))
  <2> DEFINE x == ar - br  y == ai - bi  u == -ai  v == -bi
  <2>1. x \in Int /\ y \in Int /\ u \in Int /\ v \in Int /\ u - v = -y BY <1>1
  <2>2. CSub(a, b) = Complex(x, y) BY <1>1, SubHom
  <2>4. CSub(Conj(a), Conj(b)) = CSub(Complex(ar, u), Complex(br, v)) BY <1>2
  <2> HIDE DEF x, y, u, v
  <2>3. Conj(CSub(a, b)) = Complex(x, -y) BY <2>1, <2>2, ConjHom
  <2>5. CSub(Complex(ar, u), Complex(br, v)) = Complex(ar - br, u - v) BY <1>1, <2>1, SubHom
  <2> QED BY <2>1, <2>3, <2>4, <2>5 DEF x
<1>6. Conj(CMul(a, b)) = CMul(Conj(a), Conj(b))
  <2> DEFINE x == ar * br - ai * bi  y == ar * bi + ai * br  u == -ai  v == -bi
  <2>1. /\ x \in Int /\ y \in Int /\ u \in Int /\ v \in Int
        /\ ar * br - u * v = x /\ ar * v + u * br = -y
    BY <1>1
  <2>2. CMul(a, b) = Complex(x, y) BY <1>1, MulNamed
  <2>4. Conj(a) = Complex(ar, u) /\ Conj(b) = Complex(br, v) BY <1>2
  <2> HIDE DEF x, y, u, v
  <2>3. Conj(CMul(a, b)) = Complex(x, -y) BY <2>1, <2>2, ConjHom
  <2>5. CMul(Conj(a), Conj(b)) = Complex(ar * br - u * v, ar * v + u * br)
    BY <1>1, <2>1, <2>4, MulNamed
  <2> QED BY <2>1, <2>3, <2>5
<1> QED BY <1>3, <1>4, <1>5, <1>6

-----------------------------------------------------------------------------
(* Induction, functions that are defined by recursion, and CSum.           *)
LEMMA FirstExists ==
  ASSUME NEW D \in SUBSET Nat, D # {}
  PROVE  \E n \in D : \A m \in D : n <= m
<1>1. PICK n \in D : \A m \in D : ~(<<m, n>> \in OpToRel(<, Nat))
  BY NatLessThanWellFounded, WFMin, Zenon
<1>2. \A m \in D : ~(m < n)
  BY <1>1, Zenon DEF OpToRel
<1> QED BY <1>2

LEMMA Induction ==
  ASSUME NEW A, 0 \in A, \A n \in Nat : n \in A => n + 1 \in A
  PROVE  \A n \in Nat : n \in A
<1> DEFINE D == {n \in Nat : n \notin A}
<1>1. ASSUME D # {} PROVE FALSE
  <2>1. PICK n \in D : \A m \in D : n <= m BY <1>1, FirstExists, Zenon
  <2>2. n \in Nat /\ n # 0 /\ n \notin A OBVIOUS
  <2>3. n - 1 \in Nat /\ n - 1 \notin D BY <2>1, <2>2
  <2>4. n - 1 \in A BY <2>3
  <2>5. (n - 1) + 1 \in A BY <2>3, <2>4
  <2> QED BY <2>2, <2>5
<1> QED BY <1>1

LEMMA StrongInduction ==
  ASSUME NEW A, \A n \in Nat : (\A m \in Nat : m < n => m \in A) => n \in A
  PROVE  \A n \in Nat : n \in A
<1> DEFINE D == {n \in Nat : n \notin A}
<1>1. ASSUME D # {} PROVE FALSE
  <2>1. PICK n \in D : \A m \in D : n <= m BY <1>1, FirstExists, Zenon
  <2>2. \A m \in Nat : m < n => m \in A BY <2>1
  <2> QED BY <2>2
<1> QED BY <1>1

\* A function may be defined by its first value and a step.
Advances(S) == [Nat \X S -> S]
LEMMA Recursion ==
  ASSUME NEW S, NEW z \in S, NEW step \in Advances(S)
  PROVE  \E g \in [Nat -> S] : g[0] = z /\ \A n \in Nat : g[n + 1] = step[<<n, g[n]>>]
<1> DEFINE Up(n) == {g \in [Nat -> S] : g[0] = z /\
    \A k \in Nat : k < n => g[k + 1] = step[<<k, g[k]>>]}
           A == {n \in Nat : Up(n) # {}}
<1>1. 0 \in A
  <2>1. [n \in Nat |-> z] \in Up(0) OBVIOUS
  <2> QED BY <2>1
<1>2. ASSUME NEW n \in Nat, n \in A PROVE n + 1 \in A
  <2>1. PICK g \in Up(n) : TRUE BY <1>2
  <2> DEFINE h == [k \in Nat |-> IF k = n + 1 THEN step[<<n, g[n]>>] ELSE g[k]]
  <2>2. h \in [Nat -> S]
    <3>1. g \in [Nat -> S] /\ step[<<n, g[n]>>] \in S BY <2>1 DEF Advances
    <3> QED BY <3>1
  <2>3. h[0] = z
    <3>1. h[0] = g[0] OBVIOUS
    <3> QED BY <3>1, <2>1
  <2>4. ASSUME NEW k \in Nat, k < n + 1 PROVE h[k + 1] = step[<<k, h[k]>>]
    <3>1. h[k] = g[k] BY <2>4
    <3>2. CASE k = n
      <4>1. h[k + 1] = step[<<n, g[n]>>] BY <3>2
      <4> QED BY <3>1, <3>2, <4>1
    <3>3. CASE k # n
      <4>1. k < n BY <2>4, <3>3
      <4>2. h[k + 1] = g[k + 1] BY <3>3
      <4>3. g[k + 1] = step[<<k, g[k]>>] BY <2>1, <4>1
      <4> QED BY <3>1, <4>2, <4>3
    <3> QED BY <3>2, <3>3
  <2>5. h \in Up(n + 1)
    <3> HIDE DEF h
    <3> QED BY <2>2, <2>3, <2>4
  <2> QED BY <2>5
<1>3. \A n \in Nat : Up(n) # {}
  <2> HIDE DEF Up
  <2>1. \A n \in Nat : n \in A
    <3> HIDE DEF A
    <3> QED BY <1>1, <1>2, Induction
  <2> QED BY <2>1
<1> DEFINE f == [n \in Nat |-> CHOOSE g : g \in Up(n)]
           G == [n \in Nat |-> f[n][n]]
<1>4. \A n \in Nat : f[n] \in Up(n)
  <2> HIDE DEF Up
  <2> QED BY <1>3
<1> HIDE DEF f
\* Two of them agree as far as both go.
<1>5. ASSUME NEW n \in Nat PROVE \A k \in Nat : k <= n => f[n][k] = f[n + 1][k]
  <2> DEFINE B == {k \in Nat : k <= n => f[n][k] = f[n + 1][k]}
  <2>1. 0 \in B BY <1>4
  <2>2. ASSUME NEW k \in Nat, k \in B PROVE k + 1 \in B
    <3>1. CASE k + 1 <= n
      <4>1. f[n][k + 1] = step[<<k, f[n][k]>>] BY <1>4, <3>1
      <4>2. f[n + 1][k + 1] = step[<<k, f[n + 1][k]>>] BY <1>4, <3>1
      <4>3. f[n][k] = f[n + 1][k] BY <2>2, <3>1
      <4> QED BY <4>1, <4>2, <4>3
    <3> QED BY <3>1
  <2>3. \A k \in Nat : k \in B
    <3> HIDE DEF B
    <3> QED BY <2>1, <2>2, Induction
  <2> QED BY <2>3
<1>6. G \in [Nat -> S]
  <2>1. \A n \in Nat : f[n][n] \in S BY <1>4
  <2> QED BY <2>1
<1>7. G[0] = z BY <1>4
<1>8. ASSUME NEW n \in Nat PROVE G[n + 1] = step[<<n, G[n]>>]
  <2>1. G[n + 1] = f[n + 1][n + 1] /\ G[n] = f[n][n] OBVIOUS
  <2>2. f[n + 1][n + 1] = step[<<n, f[n + 1][n]>>] BY <1>4
  <2>3. f[n][n] = f[n + 1][n]
    <3>1. \A k \in Nat : k <= n => f[n][k] = f[n + 1][k] BY <1>5
    <3> HIDE DEF Up
    <3> QED BY <3>1
  <2> QED BY <2>1, <2>2, <2>3
<1> QED
  <2> HIDE DEF G
  <2> QED BY <1>6, <1>7, <1>8

-----------------------------------------------------------------------------
Terms(f, n) == \A i \in 0 .. n - 1 : f[i] \in C

\* L holds the sums of the first terms of f.
Prefixes(L, f, n) ==
  /\ \A i \in 0 .. n : L[i] \in C
  /\ L[0] = Zero
  /\ \A i \in 0 .. n - 1 : L[i + 1] = CAdd(L[i], f[i])

LEMMA PrefixesExist ==
  ASSUME NEW n \in Nat, NEW f, Terms(f, n)
  PROVE  \E L : Prefixes(L, f, n)
<1> DEFINE step == [s \in Nat \X C |-> IF s[1] < n THEN CAdd(s[2], f[s[1]]) ELSE s[2]]
<1>1. step \in [Nat \X C -> C]
  <2>1. ASSUME NEW s \in Nat \X C PROVE step[s] \in C
    <3>1. s[1] \in Nat /\ s[2] \in C OBVIOUS
    <3>2. CASE s[1] < n
      <4>1. f[s[1]] \in C BY <3>1, <3>2 DEF Terms
      <4> QED BY <3>1, <3>2, <4>1, Closed
    <3> QED BY <3>1, <3>2
  <2> QED BY <2>1
<1>2. Zero \in C BY ZeroOne
<1>3. \E L \in [Nat -> C] : L[0] = Zero /\ \A k \in Nat : L[k + 1] = step[<<k, L[k]>>]
  <2>1. step \in Advances(C) BY <1>1 DEF Advances
  <2> HIDE DEF step
  <2> QED BY <1>2, <2>1, Recursion
<1>4. PICK L \in [Nat -> C] : L[0] = Zero /\ \A k \in Nat : L[k + 1] = step[<<k, L[k]>>]
  BY <1>3, Zenon
<1>5. ASSUME NEW i \in 0 .. n - 1 PROVE L[i + 1] = CAdd(L[i], f[i])
  <2>1. i \in Nat /\ L[i] \in C /\ <<i, L[i]>> \in Nat \X C OBVIOUS
  <2>2. step[<<i, L[i]>>] = CAdd(L[i], f[i]) BY <2>1
  <2> QED BY <1>4, <2>1, <2>2, Zenon
<1>6. \A i \in 0 .. n : L[i] \in C OBVIOUS
<1> QED BY <1>4, <1>5, <1>6 DEF Prefixes

\* The halving of CSum.
Halving(G, f, n) ==
  G = [s \in Pieces(n) |->
         IF s[2] = 0 THEN Complex(0, 0)
         ELSE IF s[2] = 1 THEN f[s[1]]
         ELSE CAdd(G[<<s[1], s[2] \div 2>>], G[<<s[1] + (s[2] \div 2), s[2] - (s[2] \div 2)>>])]

LEMMA HalfOf == ASSUME NEW k \in Nat, k > 1
                PROVE  k \div 2 \in Nat /\ k \div 2 >= 1 /\ k \div 2 < k
OBVIOUS

LEMMA Telescope ==
  ASSUME NEW a \in C, NEW b \in C, NEW c \in C
  PROVE  CAdd(CSub(b, a), CSub(c, b)) = CSub(c, a)
<1> DEFINE d == CSub(b, a)  e == CSub(c, b)
<1>1. d \in C /\ e \in C BY Closed
<1>2. CAdd(d, a) = b /\ CAdd(e, b) = c BY AddRing
<1> HIDE DEF d, e
<1>3. c = CAdd(e, CAdd(d, a)) BY <1>2
<1>4. c = CAdd(CAdd(e, d), a) BY <1>1, <1>3, AddRing
<1>5. CAdd(e, d) \in C /\ CAdd(e, d) = CAdd(d, e) BY <1>1, AddRing, Closed, Zenon
<1>6. CSub(c, a) = CAdd(d, e) BY <1>4, <1>5, AddRing
<1> QED BY <1>6 DEF d, e

LEMMA HalvingExists ==
  ASSUME NEW n \in Nat, NEW f, NEW L, Terms(f, n), Prefixes(L, f, n)
  PROVE  Halving([s \in Pieces(n) |-> CSub(L[s[1] + s[2]], L[s[1]])], f, n)
<1> DEFINE G == [s \in Pieces(n) |-> CSub(L[s[1] + s[2]], L[s[1]])]
<1>1. ASSUME NEW s \in Pieces(n)
      PROVE  G[s] = IF s[2] = 0 THEN Complex(0, 0)
                    ELSE IF s[2] = 1 THEN f[s[1]]
                    ELSE CAdd(G[<<s[1], s[2] \div 2>>],
                              G[<<s[1] + (s[2] \div 2), s[2] - (s[2] \div 2)>>])
  <2> DEFINE a == s[1]  k == s[2]  h == k \div 2
  <2>1. a \in 0 .. n /\ k \in 0 .. n /\ a + k <= n /\ G[s] = CSub(L[a + k], L[a])
    BY DEF Pieces
  <2>2. L[a] \in C /\ L[a + k] \in C BY <2>1 DEF Prefixes
  <2>3. CASE k = 0
    <3>1. a + k = a BY <2>1, <2>3
    <3>2. CSub(L[a], L[a]) = Zero BY <2>2, AddRing
    <3> QED BY <2>1, <2>3, <3>1, <3>2 DEF Zero
  <2>4. CASE k = 1
    <3>1. a \in 0 .. n - 1 BY <2>1, <2>4
    <3>2. L[a + 1] = CAdd(L[a], f[a]) BY <3>1 DEF Prefixes
    <3>3. f[a] \in C BY <3>1 DEF Terms
    <3>4. CAdd(L[a], f[a]) = CAdd(f[a], L[a]) BY <2>2, <3>3, AddRing
    <3>5. CSub(L[a + 1], L[a]) = f[a] BY <2>2, <3>2, <3>3, <3>4, AddRing
    <3> QED BY <2>1, <2>4, <3>5
  <2>5. CASE k > 1
    <3>1. h \in Nat /\ h >= 1 /\ h < k BY <2>1, <2>5, HalfOf
    <3> HIDE DEF h
    <3>2. <<a, h>> \in Pieces(n) /\ <<a + h, k - h>> \in Pieces(n)
      BY <2>1, <3>1 DEF Pieces
    <3>3. G[<<a, h>>] = CSub(L[a + h], L[a]) /\
        G[<<a + h, k - h>>] = CSub(L[(a + h) + (k - h)], L[a + h])
      BY <3>2
    <3>4. (a + h) + (k - h) = a + k BY <2>1, <3>1
    <3>5. L[a + h] \in C
      <4>1. a + h \in 0 .. n BY <2>1, <3>1
      <4> QED BY <4>1 DEF Prefixes
    <3>6. CAdd(CSub(L[a + h], L[a]), CSub(L[a + k], L[a + h])) = CSub(L[a + k], L[a])
      BY <2>2, <3>5, Telescope
    <3> QED BY <2>1, <2>5, <3>3, <3>4, <3>6 DEF h
  <2> QED BY <2>1, <2>3, <2>4, <2>5
<1>2. G = [s \in Pieces(n) |-> G[s]] OBVIOUS
<1> HIDE DEF G
<1>3. Halving(G, f, n) BY <1>1, <1>2, Zenon DEF Halving
<1> QED BY <1>3 DEF G

LEMMA HalvingUnique ==
  ASSUME NEW n \in Nat, NEW f, NEW G, NEW H, Halving(G, f, n), Halving(H, f, n)
  PROVE  \A s \in Pieces(n) : G[s] = H[s]
<1> DEFINE A == {k \in Nat : \A s \in Pieces(n) : s[2] = k => G[s] = H[s]}
<1>1. ASSUME NEW k \in Nat, \A m \in Nat : m < k => m \in A PROVE k \in A
  <2> SUFFICES ASSUME NEW s \in Pieces(n), s[2] = k PROVE G[s] = H[s]
    OBVIOUS
  <2>1. /\ G[s] = IF s[2] = 0 THEN Complex(0, 0)
                  ELSE IF s[2] = 1 THEN f[s[1]]
                  ELSE CAdd(G[<<s[1], s[2] \div 2>>],
                            G[<<s[1] + (s[2] \div 2), s[2] - (s[2] \div 2)>>])
        /\ H[s] = IF s[2] = 0 THEN Complex(0, 0)
                  ELSE IF s[2] = 1 THEN f[s[1]]
                  ELSE CAdd(H[<<s[1], s[2] \div 2>>],
                            H[<<s[1] + (s[2] \div 2), s[2] - (s[2] \div 2)>>])
    BY Zenon DEF Halving
  <2>2. CASE k > 1
    <3> DEFINE a == s[1]  h == k \div 2
    <3>1. h \in Nat /\ h >= 1 /\ h < k BY <2>2, HalfOf
    <3>2. a \in 0 .. n /\ k \in 0 .. n /\ a + k <= n BY DEF Pieces
    <3> HIDE DEF h
    <3>3. <<a, h>> \in Pieces(n) /\ <<a + h, k - h>> \in Pieces(n)
      BY <3>1, <3>2 DEF Pieces
    <3>4. h \in A /\ k - h \in A BY <1>1, <3>1
    <3>5. G[<<a, h>>] = H[<<a, h>>] /\ G[<<a + h, k - h>>] = H[<<a + h, k - h>>]
      BY <3>3, <3>4
    <3> QED BY <2>1, <3>5 DEF h
  <2> QED BY <2>1, <2>2
<1> HIDE DEF A
<1>2. \A k \in Nat : k \in A BY <1>1, StrongInduction
<1> QED BY <1>2 DEF A, Pieces

LEMMA SumIsPrefix ==
  ASSUME NEW n \in Nat, NEW f, NEW L, Terms(f, n), Prefixes(L, f, n)
  PROVE  CSum(f, n) = L[n]
<1> DEFINE G == [s \in Pieces(n) |-> CSub(L[s[1] + s[2]], L[s[1]])]
           H == CHOOSE B : Halving(B, f, n)
<1>1. Halving(G, f, n) BY HalvingExists
<1>2. Halving(H, f, n) BY <1>1
<1>3. <<0, n>> \in Pieces(n) BY DEF Pieces
<1>4. CSum(f, n) = H[<<0, n>>] BY DEF CSum, Halving
<1>5. G[<<0, n>>] = CSub(L[n], L[0]) BY <1>3
<1>6. L[n] \in C /\ L[0] = Zero BY DEF Prefixes
<1>7. CSub(L[n], Zero) = L[n]
  <2>1. CAdd(L[n], Zero) = L[n] /\ CSub(CAdd(L[n], Zero), Zero) = L[n] BY <1>6, AddRing, ZeroOne
  <2> QED BY <2>1
<1> HIDE DEF G, H
<1>8. H[<<0, n>>] = G[<<0, n>>] BY <1>1, <1>2, <1>3, HalvingUnique
<1> QED BY <1>4, <1>5, <1>6, <1>7, <1>8

-----------------------------------------------------------------------------
(* Sums.                                                                   *)
LEMMA SumEmpty == ASSUME NEW f PROVE CSum(f, 0) = Zero
<1>1. Terms(f, 0) BY DEF Terms
<1>2. PICK L : Prefixes(L, f, 0) BY <1>1, PrefixesExist
<1> QED BY <1>1, <1>2, SumIsPrefix DEF Prefixes

LEMMA SumNext ==
  ASSUME NEW n \in Nat, NEW f, Terms(f, n + 1)
  PROVE  CSum(f, n) \in C /\ f[n] \in C /\ CSum(f, n + 1) = CAdd(CSum(f, n), f[n])
<1>0. n + 1 \in Nat OBVIOUS
<1>1. PICK L : Prefixes(L, f, n + 1) BY <1>0, PrefixesExist
<1>2. Terms(f, n) BY DEF Terms
<1>3. Prefixes(L, f, n) BY <1>1 DEF Prefixes
<1>4. CSum(f, n) = L[n] BY <1>2, <1>3, SumIsPrefix
<1>5. CSum(f, n + 1) = L[n + 1] BY <1>0, <1>1, SumIsPrefix
<1>6. L[n + 1] = CAdd(L[n], f[n]) /\ L[n] \in C BY <1>1 DEF Prefixes
<1>7. f[n] \in C BY DEF Terms
<1> QED BY <1>4, <1>5, <1>6, <1>7

LEMMA SumType == ASSUME NEW n \in Nat, NEW f, Terms(f, n) PROVE CSum(f, n) \in C
<1>1. PICK L : Prefixes(L, f, n) BY PrefixesExist
<1>2. CSum(f, n) = L[n] BY <1>1, SumIsPrefix
<1> QED BY <1>1, <1>2 DEF Prefixes

LEMMA SumSame ==
  ASSUME NEW n \in Nat, NEW f, NEW g, Terms(f, n), \A i \in 0 .. n - 1 : f[i] = g[i]
  PROVE  CSum(f, n) = CSum(g, n)
<1>1. PICK L : Prefixes(L, f, n) BY PrefixesExist
<1>2. Prefixes(L, g, n) /\ Terms(g, n) BY <1>1 DEF Prefixes, Terms
<1>3. CSum(f, n) = L[n] BY <1>1, SumIsPrefix
<1>4. CSum(g, n) = L[n] BY <1>2, SumIsPrefix
<1> QED BY <1>3, <1>4

LEMMA SumOne == ASSUME NEW f, f[0] \in C PROVE CSum(f, 1) = f[0]
<1>1. Terms(f, 0 + 1) BY DEF Terms
<1>2. CSum(f, 0 + 1) = CAdd(CSum(f, 0), f[0]) BY <1>1, SumNext
<1>3. CSum(f, 0 + 1) = CAdd(Zero, f[0]) BY <1>2, SumEmpty
<1>4. CAdd(Zero, f[0]) = f[0] BY AddRing, ZeroOne
<1> QED BY <1>3, <1>4

LEMMA Regroup ==
  ASSUME NEW a \in C, NEW b \in C, NEW c \in C, NEW d \in C
  PROVE  CAdd(CAdd(a, b), CAdd(c, d)) = CAdd(CAdd(a, c), CAdd(b, d))
<1>1. CAdd(c, d) \in C /\ CAdd(b, d) \in C /\ CAdd(b, c) \in C BY Closed, Zenon
<1>2. CAdd(CAdd(a, b), CAdd(c, d)) = CAdd(a, CAdd(b, CAdd(c, d))) BY <1>1, AddRing
<1>3. CAdd(b, CAdd(c, d)) = CAdd(CAdd(b, c), d) BY AddRing
<1>4. CAdd(b, c) = CAdd(c, b) BY AddRing
<1>5. CAdd(CAdd(c, b), d) = CAdd(c, CAdd(b, d)) BY AddRing
<1>6. CAdd(a, CAdd(c, CAdd(b, d))) = CAdd(CAdd(a, c), CAdd(b, d)) BY <1>1, AddRing
<1> QED BY <1>2, <1>3, <1>4, <1>5, <1>6

LEMMA SumAdd ==
  ASSUME NEW n \in Nat, NEW f, NEW g, NEW h, Terms(f, n), Terms(g, n),
         \A i \in 0 .. n - 1 : h[i] = CAdd(f[i], g[i])
  PROVE  CSum(h, n) = CAdd(CSum(f, n), CSum(g, n))
<1> DEFINE A == {k \in Nat : k <= n => CSum(h, k) = CAdd(CSum(f, k), CSum(g, k))}
<1>1. 0 \in A
  <2>1. CAdd(Zero, Zero) = Zero BY AddRing, ZeroOne
  <2> QED BY <2>1, SumEmpty
<1>2. ASSUME NEW k \in Nat, k \in A PROVE k + 1 \in A
  <2> SUFFICES ASSUME k + 1 <= n PROVE CSum(h, k + 1) = CAdd(CSum(f, k + 1), CSum(g, k + 1))
    OBVIOUS
  <2>1. Terms(f, k + 1) /\ Terms(g, k + 1) BY DEF Terms
  <2>2. \A i \in 0 .. n - 1 : f[i] \in C /\ g[i] \in C BY DEF Terms
  <2>3. Terms(h, k + 1)
    <3>1. \A i \in 0 .. n - 1 : h[i] \in C BY <2>2, Closed, Zenon
    <3> QED BY <3>1 DEF Terms
  <2>4. /\ CSum(f, k) \in C /\ CSum(f, k + 1) = CAdd(CSum(f, k), f[k]) /\ f[k] \in C
        /\ CSum(g, k) \in C /\ CSum(g, k + 1) = CAdd(CSum(g, k), g[k]) /\ g[k] \in C
        /\ CSum(h, k + 1) = CAdd(CSum(h, k), h[k])
    BY <2>1, <2>3, SumNext
  <2>5. h[k] = CAdd(f[k], g[k]) /\ CSum(h, k) = CAdd(CSum(f, k), CSum(g, k))
    BY <1>2
  <2> QED BY <2>4, <2>5, Regroup
<1>3. \A k \in Nat : k \in A
  <2> HIDE DEF A
  <2> QED BY <1>1, <1>2, Induction
<1> QED BY <1>3

LEMMA SumMul ==
  ASSUME NEW n \in Nat, NEW f, NEW h, NEW c \in C, Terms(f, n),
         \A i \in 0 .. n - 1 : h[i] = CMul(c, f[i])
  PROVE  CSum(h, n) = CMul(c, CSum(f, n))
<1> DEFINE A == {k \in Nat : k <= n => CSum(h, k) = CMul(c, CSum(f, k))}
<1>1. 0 \in A
  <2>1. CMul(c, Zero) = Zero BY MulRing, ZeroOne
  <2> QED BY <2>1, SumEmpty
<1>2. ASSUME NEW k \in Nat, k \in A PROVE k + 1 \in A
  <2> SUFFICES ASSUME k + 1 <= n PROVE CSum(h, k + 1) = CMul(c, CSum(f, k + 1))
    OBVIOUS
  <2>1. Terms(f, k + 1) BY DEF Terms
  <2>3. Terms(h, k + 1)
    <3>0. \A i \in 0 .. n - 1 : f[i] \in C BY DEF Terms
    <3>1. \A i \in 0 .. n - 1 : h[i] \in C BY <3>0, Closed, Zenon
    <3> QED BY <3>1 DEF Terms
  <2>4. /\ CSum(f, k) \in C /\ CSum(f, k + 1) = CAdd(CSum(f, k), f[k]) /\ f[k] \in C
        /\ CSum(h, k + 1) = CAdd(CSum(h, k), h[k])
    BY <2>1, <2>3, SumNext
  <2>5. h[k] = CMul(c, f[k]) /\ CSum(h, k) = CMul(c, CSum(f, k))
    BY <1>2
  <2> QED BY <2>4, <2>5, MulRing
<1>3. \A k \in Nat : k \in A
  <2> HIDE DEF A
  <2> QED BY <1>1, <1>2, Induction
<1> QED BY <1>3

LEMMA ConjZero == Conj(Zero) = Zero
<1>1. CSub(Zero, Zero) = Zero BY AddRing, ZeroOne
<1>2. Conj(CSub(Zero, Zero)) = CSub(Conj(Zero), Conj(Zero)) BY ConjRing, ZeroOne
<1>3. Conj(Zero) \in C BY Closed, ZeroOne
<1> QED BY <1>1, <1>2, <1>3, AddRing

LEMMA SumConj ==
  ASSUME NEW n \in Nat, NEW f, NEW h, Terms(f, n),
         \A i \in 0 .. n - 1 : h[i] = Conj(f[i])
  PROVE  CSum(h, n) = Conj(CSum(f, n))
<1> DEFINE A == {k \in Nat : k <= n => CSum(h, k) = Conj(CSum(f, k))}
<1>1. 0 \in A
  BY SumEmpty, ConjZero
<1>2. ASSUME NEW k \in Nat, k \in A PROVE k + 1 \in A
  <2> SUFFICES ASSUME k + 1 <= n PROVE CSum(h, k + 1) = Conj(CSum(f, k + 1))
    OBVIOUS
  <2>1. Terms(f, k + 1) BY DEF Terms
  <2>3. Terms(h, k + 1)
    <3>0. \A i \in 0 .. n - 1 : f[i] \in C BY DEF Terms
    <3>1. \A i \in 0 .. n - 1 : h[i] \in C BY <3>0, Closed
    <3> QED BY <3>1 DEF Terms
  <2>4. /\ CSum(f, k) \in C /\ CSum(f, k + 1) = CAdd(CSum(f, k), f[k]) /\ f[k] \in C
        /\ CSum(h, k + 1) = CAdd(CSum(h, k), h[k])
    BY <2>1, <2>3, SumNext
  <2>5. h[k] = Conj(f[k]) /\ CSum(h, k) = Conj(CSum(f, k))
    BY <1>2
  <2> QED BY <2>4, <2>5, ConjRing
<1>3. \A k \in Nat : k \in A
  <2> HIDE DEF A
  <2> QED BY <1>1, <1>2, Induction
<1> QED BY <1>3

LEMMA SumZeroes ==
  ASSUME NEW n \in Nat, NEW f, \A i \in 0 .. n - 1 : f[i] = Zero
  PROVE  CSum(f, n) = Zero
<1>1. Terms(f, n) BY ZeroOne DEF Terms
<1>2. \A i \in 0 .. n - 1 : f[i] = CMul(Zero, f[i]) BY MulRing, ZeroOne
<1>3. CSum(f, n) = CMul(Zero, CSum(f, n)) BY <1>1, <1>2, ZeroOne, SumMul
<1> QED BY <1>1, <1>3, SumType, MulRing

\* Sums of the first terms and the rest.
LEMMA SumSplit ==
  ASSUME NEW m \in Nat, NEW n \in Nat, NEW f, NEW g, Terms(f, m + n),
         \A i \in 0 .. n - 1 : g[i] = f[m + i]
  PROVE  CSum(f, m + n) = CAdd(CSum(f, m), CSum(g, n))
<1> DEFINE A == {k \in Nat : k <= n => CSum(f, m + k) = CAdd(CSum(f, m), CSum(g, k))}
<1>0. Terms(f, m) /\ CSum(f, m) \in C BY SumType DEF Terms
<1>1. 0 \in A
  <2>1. CAdd(CSum(f, m), Zero) = CSum(f, m) BY <1>0, AddRing
  <2> QED BY <2>1, SumEmpty
<1>2. ASSUME NEW k \in Nat, k \in A PROVE k + 1 \in A
  <2> SUFFICES ASSUME k + 1 <= n PROVE CSum(f, m + (k + 1)) = CAdd(CSum(f, m), CSum(g, k + 1))
    OBVIOUS
  <2>1. Terms(f, (m + k) + 1) /\ m + k \in Nat BY DEF Terms
  <2>3. Terms(g, k + 1)
    <3>0. \A i \in 0 .. n - 1 : m + i \in 0 .. (m + n) - 1 OBVIOUS
    <3>1. \A i \in 0 .. n - 1 : g[i] \in C BY <3>0 DEF Terms
    <3> QED BY <3>1 DEF Terms
  <2>4. /\ CSum(f, m + k) \in C /\ CSum(f, (m + k) + 1) = CAdd(CSum(f, m + k), f[m + k])
        /\ f[m + k] \in C
    BY <2>1, SumNext
  <2>6. CSum(g, k + 1) = CAdd(CSum(g, k), g[k]) /\ CSum(g, k) \in C
    BY <2>3, SumNext
  <2>5. g[k] = f[m + k] /\ CSum(f, m + k) = CAdd(CSum(f, m), CSum(g, k)) /\
      (m + k) + 1 = m + (k + 1)
    BY <1>2
  <2> QED BY <1>0, <2>4, <2>5, <2>6, AddRing
<1>3. \A k \in Nat : k \in A
  <2> HIDE DEF A
  <2> QED BY <1>1, <1>2, Induction
<1> QED BY <1>3

\* A sum of which all terms but one are zero.
LEMMA SumPick ==
  ASSUME NEW n \in Nat, NEW f, NEW j \in 0 .. n - 1, f[j] \in C,
         \A i \in 0 .. n - 1 : i # j => f[i] = Zero
  PROVE  CSum(f, n) = f[j]
<1> DEFINE g == [i \in 0 .. n - j - 1 |-> f[j + i]]
           h == [i \in 0 .. n - j - 2 |-> f[j + 1 + i]]
<1>1. Terms(f, n) BY ZeroOne DEF Terms
<1>2. CSum(f, j) = Zero BY SumZeroes
<1>3. CSum(f, j + (n - j)) = CAdd(CSum(f, j), CSum(g, n - j))
  <2>1. j \in Nat /\ n - j \in Nat /\ j + (n - j) = n OBVIOUS
  <2>2. \A i \in 0 .. (n - j) - 1 : g[i] = f[j + i] OBVIOUS
  <2> HIDE DEF g
  <2> QED BY <1>1, <2>1, <2>2, SumSplit
<1>4. CSum(g, 1 + (n - j - 1)) = CAdd(CSum(g, 1), CSum(h, n - j - 1))
  <2>1. 1 \in Nat /\ n - j - 1 \in Nat /\ 1 + (n - j - 1) = n - j OBVIOUS
  <2>2. \A i \in 0 .. (n - j - 1) - 1 : h[i] = g[1 + i]
    <3> SUFFICES ASSUME NEW i \in 0 .. (n - j - 1) - 1 PROVE h[i] = g[1 + i] OBVIOUS
    <3>1. h[i] = f[j + 1 + i] OBVIOUS
    <3>2. 1 + i \in 0 .. n - j - 1 OBVIOUS
    <3>3. g[1 + i] = f[j + (1 + i)] BY <3>2
    <3>4. j + (1 + i) = j + 1 + i OBVIOUS
    <3> QED BY <3>1, <3>3, <3>4
  <2>3. Terms(g, 1 + (n - j - 1))
    <3>1. \A i \in 0 .. n - j - 1 : g[i] = f[j + i] /\ j + i \in 0 .. n - 1 OBVIOUS
    <3> HIDE DEF g
    <3> QED BY <1>1, <3>1, <2>1 DEF Terms
  <2> HIDE DEF g, h
  <2> QED BY <2>1, <2>2, <2>3, SumSplit
<1>5. CSum(h, n - j - 1) = Zero
  <2>1. n - j - 1 \in Nat /\ \A i \in 0 .. (n - j - 1) - 1 : h[i] = Zero
    <3> SUFFICES ASSUME NEW i \in 0 .. (n - j - 1) - 1 PROVE h[i] = Zero OBVIOUS
    <3>1. h[i] = f[j + 1 + i] /\ j + 1 + i \in 0 .. n - 1 /\ j + 1 + i # j OBVIOUS
    <3> QED BY <3>1
  <2> HIDE DEF h
  <2> QED BY <2>1, SumZeroes
<1>6. g[0] = f[j]
  <2>1. 0 \in 0 .. n - j - 1 /\ j + 0 = j OBVIOUS
  <2> QED BY <2>1
<1>7. CSum(g, 1) = f[j]
  <2> HIDE DEF g
  <2> QED BY <1>6, SumOne
<1>8. j + (n - j) = n /\ 1 + (n - j - 1) = n - j OBVIOUS
<1>9. CAdd(f[j], Zero) = f[j] /\ CAdd(Zero, f[j]) = f[j] BY AddRing
<1> HIDE DEF g, h
<1> QED BY <1>2, <1>3, <1>4, <1>5, <1>7, <1>8, <1>9

LEMMA SumExchange ==
  ASSUME NEW m \in Nat, NEW n \in Nat, NEW F,
         \A i \in 0 .. m - 1 : Terms(F[i], n)
  PROVE  CSum([i \in 0 .. m - 1 |-> CSum(F[i], n)], m)
           = CSum([j \in 0 .. n - 1 |-> CSum([i \in 0 .. m - 1 |-> F[i][j]], m)], n)
<1> DEFINE R == [i \in 0 .. m - 1 |-> CSum(F[i], n)]
           D == [j \in 0 .. n - 1 |-> [i \in 0 .. m - 1 |-> F[i][j]]]
           Q == [k \in 0 .. m |-> [j \in 0 .. n - 1 |-> CSum(D[j], k)]]
           A == {k \in Nat : k <= m => CSum(R, k) = CSum(Q[k], n)}
<1>0. \A i \in 0 .. m - 1 : \A j \in 0 .. n - 1 : F[i][j] \in C
  BY DEF Terms
<1>d. \A j \in 0 .. n - 1 : Terms(D[j], m)
  BY <1>0 DEF Terms
<1>r. Terms(R, m)
  <2>1. \A i \in 0 .. m - 1 : CSum(F[i], n) \in C BY SumType
  <2> QED BY <2>1 DEF Terms
<1>q. \A k \in 0 .. m : \A j \in 0 .. n - 1 : Q[k][j] = CSum(D[j], k)
  <2> HIDE DEF D
  <2> QED OBVIOUS
<1>f. \A i \in 0 .. m - 1 : \A j \in 0 .. n - 1 : D[j][i] = F[i][j]
  OBVIOUS
<1>g. \A i \in 0 .. m - 1 : R[i] = CSum(F[i], n)
  OBVIOUS
<1>1. 0 \in A
  <2>1. \A j \in 0 .. n - 1 : Q[0][j] = Zero BY <1>q, SumEmpty
  <2>2. CSum(Q[0], n) = Zero
    <3> HIDE DEF Q
    <3> QED BY <2>1, SumZeroes
  <2> QED BY <2>2, SumEmpty
<1>2. ASSUME NEW k \in Nat, k \in A PROVE k + 1 \in A
  <2> SUFFICES ASSUME k + 1 <= m PROVE CSum(R, k + 1) = CSum(Q[k + 1], n)
    OBVIOUS
  <2>i. CSum(R, k) = CSum(Q[k], n) BY <1>2
  <2>k. k \in 0 .. m /\ k + 1 \in 0 .. m /\ k \in 0 .. m - 1 OBVIOUS
  <2> HIDE DEF R, D, Q, A
  <2>1. CSum(R, k + 1) = CAdd(CSum(R, k), CSum(F[k], n))
    <3>1. Terms(R, k + 1) BY <1>r DEF Terms
    <3> QED BY <3>1, <1>g, <2>k, SumNext
  <2>2. \A j \in 0 .. n - 1 : Q[k + 1][j] = CAdd(Q[k][j], F[k][j]) /\ Q[k][j] \in C
    <3> SUFFICES ASSUME NEW j \in 0 .. n - 1
                 PROVE  Q[k + 1][j] = CAdd(Q[k][j], F[k][j]) /\ Q[k][j] \in C
      OBVIOUS
    <3>1. Terms(D[j], k + 1) BY <1>d DEF Terms
    <3>2. CSum(D[j], k + 1) = CAdd(CSum(D[j], k), D[j][k]) /\ CSum(D[j], k) \in C
      BY <3>1, SumNext
    <3> QED BY <1>q, <1>f, <2>k, <3>2
  <2>3. Terms(Q[k], n) BY <2>2 DEF Terms
  <2>4. Terms(F[k], n) BY <2>k
  <2>5. CSum(Q[k + 1], n) = CAdd(CSum(Q[k], n), CSum(F[k], n))
    BY <2>2, <2>3, <2>4, SumAdd
  <2> QED BY <2>1, <2>5, <2>i
<1>3. \A k \in Nat : k \in A
  <2> HIDE DEF A
  <2> QED BY <1>1, <1>2, Induction
<1>4. CSum(R, m) = CSum(Q[m], n)
  <2> HIDE DEF R, Q
  <2> QED BY <1>3
<1>5. Q[m] = [j \in 0 .. n - 1 |-> CSum(D[j], m)]
  <2> HIDE DEF D
  <2> QED OBVIOUS
<1>6. [j \in 0 .. n - 1 |-> CSum(D[j], m)]
        = [j \in 0 .. n - 1 |-> CSum([i \in 0 .. m - 1 |-> F[i][j]], m)]
  <2>1. \A j \in 0 .. n - 1 : D[j] = [i \in 0 .. m - 1 |-> F[i][j]] OBVIOUS
  <2> HIDE DEF D
  <2> QED BY <2>1
<1> QED
  <2> HIDE DEF Q, D
  <2> QED BY <1>4, <1>5, <1>6, Zenon

\* p sums over every p-th term.
LEMMA SumInterleave ==
  ASSUME NEW p \in Nat, NEW m \in Nat, NEW f, Terms(f, p * m)
  PROVE  CSum(f, p * m)
           = CSum([q \in 0 .. p - 1 |-> CSum([j \in 0 .. m - 1 |-> f[q + p * j]], m)], p)
<1> DEFINE D == [q \in 0 .. p - 1 |-> [j \in 0 .. m - 1 |-> f[q + p * j]]]
           Q == [k \in 0 .. m |-> [q \in 0 .. p - 1 |-> CSum(D[q], k)]]
           A == {k \in Nat : k <= m => CSum(f, p * k) = CSum(Q[k], p)}
<1>0. ASSUME NEW q \in 0 .. p - 1, NEW j \in 0 .. m - 1
      PROVE  q + p * j \in 0 .. (p * m) - 1 /\ f[q + p * j] \in C
  <2>1. m - 1 - j \in Nat /\ p \in Nat OBVIOUS
  <2>2. p * (m - 1 - j) \in Nat
    <3> DEFINE a == m - 1 - j
    <3> HIDE DEF a
    <3>1. a \in Nat BY <2>1 DEF a
    <3>2. p * a \in Nat BY <3>1
    <3> QED BY <3>2 DEF a
  <2>3. p * (m - 1 - j) = p * m - p - p * j /\ p * j \in Nat /\ p * m \in Nat OBVIOUS
  <2>4. q + p * j \in 0 .. (p * m) - 1 BY <2>2, <2>3
  <2> QED BY <2>4 DEF Terms
<1>d. \A q \in 0 .. p - 1 : Terms(D[q], m)
  BY <1>0 DEF Terms
<1>q. \A k \in 0 .. m : \A q \in 0 .. p - 1 : Q[k][q] = CSum(D[q], k)
  <2> HIDE DEF D
  <2> QED OBVIOUS
<1>f. \A q \in 0 .. p - 1 : \A j \in 0 .. m - 1 : D[q][j] = f[q + p * j]
  OBVIOUS
<1>1. 0 \in A
  <2>1. \A j \in 0 .. p - 1 : Q[0][j] = Zero BY <1>q, SumEmpty
  <2>2. CSum(Q[0], p) = Zero
    <3> HIDE DEF Q
    <3> QED BY <2>1, SumZeroes
  <2>3. p * 0 = 0 OBVIOUS
  <2> HIDE DEF Q
  <2> QED BY <2>2, <2>3, SumEmpty
<1>2. ASSUME NEW k \in Nat, k \in A PROVE k + 1 \in A
  <2> SUFFICES ASSUME k + 1 <= m PROVE CSum(f, p * (k + 1)) = CSum(Q[k + 1], p)
    OBVIOUS
  <2>i. CSum(f, p * k) = CSum(Q[k], p) BY <1>2
  <2>k. k \in 0 .. m /\ k + 1 \in 0 .. m /\ k \in 0 .. m - 1 OBVIOUS
  <2> DEFINE g == [q \in 0 .. p - 1 |-> f[p * k + q]]
  <2>g. \A q \in 0 .. p - 1 : g[q] = f[p * k + q] OBVIOUS
  <2> HIDE DEF D, Q, A, g
  <2>1. p * (k + 1) = p * k + p /\ p * k \in Nat OBVIOUS
  <2>2. Terms(f, p * k + p)
    <3>1. ASSUME p > 0 PROVE p * k + p <= p * m
      <4>1. p - 1 \in 0 .. p - 1 BY <3>1
      <4>2. (p - 1) + p * k \in 0 .. (p * m) - 1 BY <1>0, <2>k, <4>1
      <4>3. p * m \in Nat /\ p * k \in Nat OBVIOUS
      <4> QED BY <4>2, <4>3
    <3>2. p = 0 \/ p > 0 OBVIOUS
    <3>3. CASE p = 0
      <4>1. p * k + p = 0 BY <2>1, <3>3
      <4> QED BY <4>1 DEF Terms
    <3>4. CASE p > 0
      <4>1. p * k + p <= p * m /\ p * m \in Nat BY <3>1, <3>4
      <4>2. \A i \in 0 .. (p * k + p) - 1 : i \in 0 .. (p * m) - 1 BY <2>1, <4>1
      <4> QED BY <4>2 DEF Terms
    <3> QED BY <3>2, <3>3, <3>4
  <2>3. CSum(f, p * k + p) = CAdd(CSum(f, p * k), CSum(g, p))
    <3> DEFINE pk == p * k
    <3>1. pk \in Nat /\ Terms(f, pk + p) /\ \A i \in 0 .. p - 1 : g[i] = f[pk + i]
      BY <2>1, <2>2, <2>g
    <3> HIDE DEF pk
    <3>2. CSum(f, pk + p) = CAdd(CSum(f, pk), CSum(g, p)) BY <3>1, SumSplit
    <3> QED BY <3>2 DEF pk
  <2>4. \A q \in 0 .. p - 1 : Q[k + 1][q] = CAdd(Q[k][q], g[q]) /\ Q[k][q] \in C /\ g[q] \in C
    <3> SUFFICES ASSUME NEW q \in 0 .. p - 1
                 PROVE  Q[k + 1][q] = CAdd(Q[k][q], g[q]) /\ Q[k][q] \in C /\ g[q] \in C
      OBVIOUS
    <3>1. Terms(D[q], k + 1) BY <1>d DEF Terms
    <3>2. CSum(D[q], k + 1) = CAdd(CSum(D[q], k), D[q][k]) /\ CSum(D[q], k) \in C
      BY <3>1, SumNext
    <3>3. D[q][k] = g[q]
      <4>1. q + p * k = p * k + q OBVIOUS
      <4> QED BY <1>f, <2>k, <2>g, <4>1
    <3>4. g[q] \in C BY <1>0, <1>f, <2>k, <3>3
    <3> QED BY <1>q, <2>k, <3>2, <3>3, <3>4
  <2>5. Terms(Q[k], p) /\ Terms(g, p) BY <2>4 DEF Terms
  <2>6. CSum(Q[k + 1], p) = CAdd(CSum(Q[k], p), CSum(g, p))
    BY <2>4, <2>5, SumAdd
  <2> QED BY <2>1, <2>3, <2>6, <2>i
<1>3. \A k \in Nat : k \in A
  <2> HIDE DEF A
  <2> QED BY <1>1, <1>2, Induction
<1>4. CSum(f, p * m) = CSum(Q[m], p)
  <2> HIDE DEF Q
  <2> QED BY <1>3
<1>5. Q[m] = [q \in 0 .. p - 1 |-> CSum(D[q], m)]
  <2> HIDE DEF D
  <2> QED OBVIOUS
<1>6. [q \in 0 .. p - 1 |-> CSum(D[q], m)]
        = [q \in 0 .. p - 1 |-> CSum([j \in 0 .. m - 1 |-> f[q + p * j]], m)]
  <2>1. \A q \in 0 .. p - 1 : D[q] = [j \in 0 .. m - 1 |-> f[q + p * j]] OBVIOUS
  <2> HIDE DEF D
  <2> QED BY <2>1
<1> QED
  <2> HIDE DEF Q, D
  <2> QED BY <1>4, <1>5, <1>6, Zenon

\* Terms that have moved round by d.
LEMMA SumRotate ==
  ASSUME NEW n \in Nat, NEW d \in 0 .. n, NEW f, NEW g, Terms(f, n),
         \A i \in 0 .. n - d - 1 : g[i] = f[d + i],
         \A i \in 0 .. d - 1 : g[n - d + i] = f[i]
  PROVE  CSum(g, n) = CSum(f, n)
<1>0. d \in Nat /\ n - d \in Nat /\ d + (n - d) = n /\ (n - d) + d = n OBVIOUS
<1>1. Terms(f, d + (n - d)) BY <1>0
<1>2. CSum(f, d + (n - d)) = CAdd(CSum(f, d), CSum(g, n - d))
  <2>1. \A i \in 0 .. (n - d) - 1 : g[i] = f[d + i] OBVIOUS
  <2> QED BY <1>0, <1>1, <2>1, SumSplit
<1>3. \A i \in 0 .. n - 1 : g[i] \in C
  <2> SUFFICES ASSUME NEW i \in 0 .. n - 1 PROVE g[i] \in C OBVIOUS
  <2>1. CASE i <= n - d - 1
    <3>1. g[i] = f[d + i] /\ d + i \in 0 .. n - 1 BY <2>1
    <3> QED BY <3>1 DEF Terms
  <2>2. CASE i > n - d - 1
    <3> DEFINE j == i - (n - d)
    <3>1. j \in 0 .. d - 1 /\ n - d + j = i BY <2>2
    <3>2. j \in 0 .. n - 1 BY <3>1
    <3>3. g[i] = f[j]
      <4> HIDE DEF j
      <4> QED BY <3>1
    <3> QED BY <3>2, <3>3 DEF Terms
  <2> QED BY <2>1, <2>2
<1>4. Terms(g, (n - d) + d) BY <1>0, <1>3 DEF Terms
<1>5. CSum(g, (n - d) + d) = CAdd(CSum(g, n - d), CSum(f, d))
  <2>1. \A i \in 0 .. d - 1 : f[i] = g[(n - d) + i] OBVIOUS
  <2> QED BY <1>0, <1>4, <2>1, SumSplit
<1>6. Terms(f, d) /\ Terms(g, n - d) BY <1>3 DEF Terms
<1>7. CSum(f, d) \in C /\ CSum(g, n - d) \in C BY <1>0, <1>6, SumType
<1> QED BY <1>0, <1>2, <1>5, <1>7, AddRing

-----------------------------------------------------------------------------
(* The circle: powers of Root, turns and their sums.                       *)
\* Power by squaring is what multiplying by Root again and again gives.
Squaring(G) ==
  G = [n \in Nat |->
         IF n = 0 THEN Complex(1, 0)
         ELSE IF n % 2 = 0 THEN CMul(G[n \div 2], G[n \div 2])
         ELSE CMul(CMul(G[n \div 2], G[n \div 2]), Root)]

LEMMA RootInC == Root \in C
BY CircleAssumption DEF CircleAssumption, C

LEMMA Halves == ASSUME NEW n \in Nat, n # 0
                PROVE  /\ n \div 2 \in Nat /\ n \div 2 < n
                       /\ n % 2 = 0 => n = (n \div 2) + (n \div 2)
                       /\ n % 2 # 0 => n = ((n \div 2) + (n \div 2)) + 1
OBVIOUS

\* Successive powers.
Powers(g) == g \in [Nat -> C] /\ g[0] = One /\ \A n \in Nat : g[n + 1] = CMul(g[n], Root)

LEMMA PowersExist == \E g : Powers(g)
<1> DEFINE step == [s \in Nat \X C |-> CMul(s[2], Root)]
<1>1. step \in Advances(C)
  <2>1. ASSUME NEW s \in Nat \X C PROVE step[s] \in C
    <3>1. s[2] \in C OBVIOUS
    <3> QED BY <3>1, RootInC, Closed
  <2> QED BY <2>1 DEF Advances
<1>2. PICK g \in [Nat -> C] : g[0] = One /\ \A n \in Nat : g[n + 1] = step[<<n, g[n]>>]
  <2> HIDE DEF step
  <2> QED BY <1>1, ZeroOne, Recursion
<1>3. ASSUME NEW n \in Nat PROVE g[n + 1] = CMul(g[n], Root)
  <2>1. g[n] \in C /\ <<n, g[n]>> \in Nat \X C BY <1>2
  <2> QED BY <1>2, <2>1, Zenon
<1> QED BY <1>2, <1>3 DEF Powers

LEMMA PowersAdd ==
  ASSUME NEW g, Powers(g), NEW a \in Nat
  PROVE  \A b \in Nat : g[a + b] = CMul(g[a], g[b])
<1> DEFINE A == {b \in Nat : g[a + b] = CMul(g[a], g[b])}
<1>0. g[a] \in C /\ g[0] = One BY DEF Powers
<1>1. 0 \in A
  <2>1. a + 0 = a OBVIOUS
  <2>2. CMul(g[a], One) = g[a] BY <1>0, MulRing
  <2> QED BY <1>0, <2>1, <2>2
<1>2. ASSUME NEW b \in Nat, b \in A PROVE b + 1 \in A
  <2>1. g[b] \in C /\ a + b \in Nat BY DEF Powers
  <2>2. g[b + 1] = CMul(g[b], Root) /\ g[(a + b) + 1] = CMul(g[a + b], Root) BY <2>1 DEF Powers
  <2>3. g[a + b] = CMul(g[a], g[b]) BY <1>2
  <2>4. CMul(CMul(g[a], g[b]), Root) = CMul(g[a], CMul(g[b], Root))
    BY <1>0, <2>1, RootInC, MulRing
  <2>5. (a + b) + 1 = a + (b + 1) OBVIOUS
  <2> QED BY <2>2, <2>3, <2>4, <2>5
<1> HIDE DEF A
<1>3. \A b \in Nat : b \in A BY <1>1, <1>2, Induction
<1> QED BY <1>3 DEF A

LEMMA PowersSquare == ASSUME NEW g, Powers(g) PROVE Squaring(g)
<1>1. ASSUME NEW n \in Nat
      PROVE  g[n] = IF n = 0 THEN Complex(1, 0)
                    ELSE IF n % 2 = 0 THEN CMul(g[n \div 2], g[n \div 2])
                    ELSE CMul(CMul(g[n \div 2], g[n \div 2]), Root)
  <2>1. CASE n = 0 BY <2>1 DEF Powers, One
  <2>2. CASE n # 0
    <3> DEFINE h == n \div 2
    <3>1. h \in Nat /\ (n % 2 = 0 => n = h + h) /\ (n % 2 # 0 => n = (h + h) + 1)
      BY <2>2, Halves
    <3> HIDE DEF h
    <3>2. g[h + h] = CMul(g[h], g[h]) BY <3>1, PowersAdd
    <3>3. g[(h + h) + 1] = CMul(g[h + h], Root)
      <4>1. h + h \in Nat BY <3>1
      <4> QED BY <4>1 DEF Powers
    <3>4. CASE n % 2 = 0
      <4>1. g[n] = CMul(g[h], g[h]) BY <3>1, <3>2, <3>4
      <4> QED BY <2>2, <3>4, <4>1 DEF h
    <3>5. CASE n % 2 # 0
      <4>1. g[n] = CMul(CMul(g[h], g[h]), Root) BY <3>1, <3>2, <3>3, <3>5
      <4> QED BY <2>2, <3>5, <4>1 DEF h
    <3> QED BY <3>4, <3>5
  <2> QED BY <2>1, <2>2
<1>2. g = [n \in Nat |-> g[n]] BY DEF Powers
<1> QED BY <1>1, <1>2, Zenon DEF Squaring

LEMMA PowerLaws == Powers(Power)
<1>1. PICK g : Powers(g) BY PowersExist
<1>2. Squaring(g) BY <1>1, PowersSquare
<1> DEFINE H == CHOOSE G : Squaring(G)
<1>3. Squaring(H) BY <1>2
<1>4. Power = H BY DEF Power, Squaring
<1> HIDE DEF H
<1> DEFINE A == {n \in Nat : H[n] = g[n]}
<1>5. ASSUME NEW n \in Nat, \A m \in Nat : m < n => m \in A PROVE n \in A
  <2>1. /\ H[n] = IF n = 0 THEN Complex(1, 0)
                  ELSE IF n % 2 = 0 THEN CMul(H[n \div 2], H[n \div 2])
                  ELSE CMul(CMul(H[n \div 2], H[n \div 2]), Root)
        /\ g[n] = IF n = 0 THEN Complex(1, 0)
                  ELSE IF n % 2 = 0 THEN CMul(g[n \div 2], g[n \div 2])
                  ELSE CMul(CMul(g[n \div 2], g[n \div 2]), Root)
    BY <1>2, <1>3, Zenon DEF Squaring
  <2>2. CASE n # 0
    <3>1. n \div 2 \in A BY <1>5, <2>2, Halves
    <3>2. H[n \div 2] = g[n \div 2] BY <3>1
    <3> QED BY <2>1, <3>2
  <2> QED BY <2>1, <2>2
<1>6. \A n \in Nat : n \in A
  <2> HIDE DEF A
  <2> QED BY <1>5, StrongInduction
<1>7. H = g
  <2>1. H = [n \in Nat |-> H[n]]
    <3>1. DOMAIN H = Nat /\ H = [n \in DOMAIN H |-> H[n]] BY <1>3, Zenon DEF Squaring
    <3> QED BY <3>1
  <2>2. g = [n \in Nat |-> g[n]] BY <1>1 DEF Powers
  <2>3. \A n \in Nat : H[n] = g[n] BY <1>6
  <2> QED BY <2>1, <2>2, <2>3, Zenon
<1> QED BY <1>1, <1>4, <1>7

-----------------------------------------------------------------------------
Turn(k) == Power[k % (P + 1)]
MinusOne == Complex(-1, 0)

LEMMA QuarterOfTurn == (P + 1) \div 4 \in Nat /\ 4 * ((P + 1) \div 4) = P + 1
<1>1. P \in Nat /\ P % 4 = 3 BY FieldAssumption DEF FieldAssumption
<1> QED BY <1>1

LEMMA ISquared == CMul(Img, Img) = MinusOne /\ CMul(MinusOne, MinusOne) = One
<1> DEFINE z == 0 o == 1 n == -1
<1>1. /\ z \in Int /\ o \in Int /\ n \in Int /\ Img = Complex(z, o) /\ MinusOne = Complex(n, z)
      /\ One = Complex(o, z)
      /\ z * z - o * o = n /\ z * o + o * z = z /\ n * n - z * z = o /\ n * z + z * n = z
  BY DEF Img, MinusOne, One
<1> HIDE DEF z, o, n
<1>2. z \in Int /\ o \in Int /\ n \in Int BY <1>1
<1>3. CMul(Complex(z, o), Complex(z, o)) = Complex(z * z - o * o, z * o + o * z)
  BY <1>2, MulHom
<1>4. CMul(Complex(n, z), Complex(n, z)) = Complex(n * n - z * z, n * z + z * n)
  BY <1>2, MulHom
<1>5. Img = Complex(z, o) /\ MinusOne = Complex(n, z) /\ One = Complex(o, z) BY <1>1
<1>6. z * z - o * o = n /\ z * o + o * z = z /\ n * n - z * z = o /\ n * z + z * n = z
  BY <1>1
<1> QED BY <1>3, <1>4, <1>5, <1>6, Zenon

LEMMA WholePower == Power[P + 1] = One /\ Power[2 * ((P + 1) \div 4)] = MinusOne
<1> DEFINE q == (P + 1) \div 4
<1>1. q \in Nat /\ 4 * q = P + 1 BY QuarterOfTurn
<1>2. Power[q] = Img BY CircleAssumption DEF CircleAssumption, Img
<1> HIDE DEF q
<1>3. Power[q + q] = MinusOne BY <1>1, <1>2, PowerLaws, PowersAdd, ISquared, Zenon
<1>4. Power[(q + q) + (q + q)] = One
  <2>1. q + q \in Nat BY <1>1
  <2> QED BY <1>3, <2>1, PowerLaws, PowersAdd, ISquared
<1>5. (q + q) + (q + q) = P + 1 /\ q + q = 2 * q BY <1>1
<1> QED BY <1>3, <1>4, <1>5 DEF q

LEMMA PowerPeriod == ASSUME NEW a \in Nat PROVE Power[a] = Turn(a)
<1> DEFINE n == P + 1
<1>0. n \in Nat \ {0} /\ Power[n] = One BY PIsOdd, WholePower
<1> HIDE DEF n
<1> DEFINE A == {k \in Nat : Power[k * n] = One}
<1>1. 0 \in A
  <2>1. 0 * n = 0 BY <1>0
  <2> QED BY <2>1, PowerLaws DEF Powers
<1>2. ASSUME NEW k \in Nat, k \in A PROVE k + 1 \in A
  <2>1. (k + 1) * n = k * n + n /\ k * n \in Nat BY <1>0
  <2>2. Power[k * n + n] = CMul(Power[k * n], Power[n]) BY <1>0, <2>1, PowerLaws, PowersAdd
  <2>3. CMul(One, One) = One BY MulRing, ZeroOne
  <2> QED BY <1>0, <1>2, <2>1, <2>2, <2>3
<1>3. \A k \in Nat : k \in A
  <2> HIDE DEF A
  <2> QED BY <1>1, <1>2, Induction
<1> DEFINE r == a % n  k == a \div n
<1>4. r \in 0 .. n - 1 /\ k \in Int /\ a = k * n + r BY <1>0, Division, SMTT(30)
<1>5. k \in Nat
  <2> HIDE DEF r, k
  <2>1. ASSUME k < 0 PROVE FALSE
    <3>1. k + 1 <= 0 BY <1>4, <2>1
    <3>2. (0 - (k + 1)) * n >= 0
      <4> DEFINE b == 0 - (k + 1)
      <4>1. b \in Nat BY <1>4, <3>1
      <4> HIDE DEF b
      <4>2. b * n >= 0 BY <1>0, <4>1
      <4> QED BY <4>2 DEF b
    <3>3. (0 - (k + 1)) * n = 0 - k * n - n BY <1>0, <1>4
    <3>4. k * n \in Int BY <1>0, <1>4
    <3> QED BY <1>0, <1>4, <3>2, <3>3, <3>4
  <2> QED BY <1>4, <2>1
<1> HIDE DEF r, k
<1>6. Power[k * n] = One BY <1>3, <1>5
<1>7. k * n \in Nat /\ r \in Nat BY <1>0, <1>4, <1>5
<1>8. Power[k * n + r] = CMul(Power[k * n], Power[r]) BY <1>7, PowerLaws, PowersAdd
<1>9. Power[r] \in C BY <1>7, PowerLaws DEF Powers
<1>10. CMul(One, Power[r]) = Power[r] BY <1>9, MulRing
<1> QED BY <1>4, <1>6, <1>8, <1>10 DEF r, n, Turn

LEMMA TurnInC == ASSUME NEW k \in Int PROVE Turn(k) \in C
<1>1. k % (P + 1) \in Nat
  <2>1. P + 1 \in Nat \ {0} BY PIsOdd
  <2> QED BY <2>1, Division
<1> QED BY <1>1, PowerLaws DEF Turn, Powers

LEMMA TurnRound ==
  ASSUME NEW j \in Int, NEW k \in Int PROVE Turn(j + k * (P + 1)) = Turn(j)
<1> DEFINE n == P + 1
<1>0. n \in Nat \ {0} BY PIsOdd
<1> HIDE DEF n
<1> DEFINE r == j % n  a == j \div n
<1>1. r \in 0 .. n - 1 /\ a \in Int /\ j = a * n + r BY <1>0, Division
<1> HIDE DEF r, a
<1>2. j + k * n = (a + k) * n + r /\ a + k \in Int BY <1>0, <1>1
<1>3. (j + k * n) % n = r BY <1>0, <1>1, <1>2, Remainder
<1> QED BY <1>3 DEF Turn, n, r

LEMMA TurnAdd ==
  ASSUME NEW j \in Int, NEW k \in Int PROVE Turn(j + k) = CMul(Turn(j), Turn(k))
<1> DEFINE n == P + 1
<1>0. n \in Nat \ {0} BY PIsOdd
<1> DEFINE r == j % n  a == j \div n  s == k % n  b == k \div n
<1>1. r \in 0 .. n - 1 /\ a \in Int /\ j = a * n + r BY <1>0, Division, Zenon
<1>2. s \in 0 .. n - 1 /\ b \in Int /\ k = b * n + s BY <1>0, Division, Zenon
<1>3. Turn(j) = Power[r] /\ Turn(k) = Power[s] BY DEF Turn
<1> HIDE DEF r, a, s, b
<1>4. r + s \in Nat /\ r \in Nat /\ s \in Nat BY <1>0, <1>1, <1>2
<1>5. Power[r + s] = CMul(Power[r], Power[s]) BY <1>4, PowerLaws, PowersAdd
<1>6. Power[r + s] = Turn(r + s) BY <1>4, PowerPeriod
<1>7. j + k = (r + s) + (a + b) * (P + 1) /\ a + b \in Int BY <1>0, <1>1, <1>2
<1>8. Turn(j + k) = Turn(r + s)
  <2>1. r + s \in Int BY <1>4
  <2> QED BY <1>7, <2>1, TurnRound
<1> QED BY <1>3, <1>5, <1>6, <1>8

LEMMA TurnZero == Turn(0) = One
<1>1. P + 1 \in Nat \ {0} BY PIsOdd
<1>2. 0 % (P + 1) = 0 BY <1>1
<1> QED BY <1>2, PowerLaws DEF Turn, Powers

LEMMA ConjOne == Conj(One) = One
<1> DEFINE z == 0 o == 1
<1>1. z \in Int /\ o \in Int /\ One = Complex(o, z) /\ z + z = z /\ z = o - o BY DEF One
<1> HIDE DEF z, o
<1>2. Conj(Complex(o, z)) = Complex(o, -z) BY <1>1, ConjHom
<1>3. -z = z
  <2>0. z \in Int BY <1>1
  <2>1. -z + z = 0 /\ -z \in Int BY <2>0
  <2>3. z = 0 BY <1>1
  <2> DEFINE w == -z
  <2>4. w \in Int /\ w + z = 0 BY <2>1
  <2> HIDE DEF w
  <2>5. w = z BY <2>3, <2>4
  <2> QED BY <2>5 DEF w
<1> QED BY <1>1, <1>2, <1>3

LEMMA OnCircle == ASSUME NEW k \in Int PROVE CMul(Turn(k), Conj(Turn(k))) = One
<1> DEFINE A == {n \in Nat : CMul(Power[n], Conj(Power[n])) = One}
<1>1. 0 \in A
  <2>1. Power[0] = One BY PowerLaws DEF Powers
  <2>2. Conj(One) = One BY ConjOne
  <2>3. CMul(One, One) = One BY MulRing, ZeroOne
  <2> QED BY <2>1, <2>2, <2>3
<1>2. ASSUME NEW n \in Nat, n \in A PROVE n + 1 \in A
  <2> DEFINE z == Power[n]
  <2>1. z \in C /\ Power[n + 1] = CMul(z, Root) /\ CMul(z, Conj(z)) = One
    BY <1>2, PowerLaws DEF Powers
  <2> HIDE DEF z
  <2>2. Conj(z) \in C /\ Root \in C /\ Conj(Root) \in C BY <2>1, RootInC, Closed
  <2>3. Conj(CMul(z, Root)) = CMul(Conj(z), Conj(Root)) BY <2>1, <2>2, ConjRing
  <2>4. CMul(Root, Conj(Root)) = One BY CircleAssumption DEF CircleAssumption, One
  <2>5. CMul(CMul(z, Root), CMul(Conj(z), Conj(Root))) = One
    <3>1. CMul(Conj(z), Conj(Root)) \in C BY <2>2, Closed, Zenon
    <3>2. CMul(CMul(z, Root), CMul(Conj(z), Conj(Root)))
            = CMul(z, CMul(Root, CMul(Conj(z), Conj(Root)))) BY <2>1, <2>2, <3>1, MulRing
    <3>3. CMul(Conj(z), Conj(Root)) = CMul(Conj(Root), Conj(z)) BY <2>2, MulRing
    <3>4. CMul(Root, CMul(Conj(Root), Conj(z))) = CMul(CMul(Root, Conj(Root)), Conj(z))
      BY <2>2, MulRing
    <3>5. CMul(One, Conj(z)) = Conj(z) BY <2>2, MulRing
    <3> QED BY <2>1, <2>4, <3>2, <3>3, <3>4, <3>5
  <2> QED BY <2>1, <2>3, <2>5
<1>3. \A n \in Nat : n \in A
  <2> HIDE DEF A
  <2> QED BY <1>1, <1>2, Induction
<1>4. k % (P + 1) \in Nat
  <2>1. P + 1 \in Nat \ {0} BY PIsOdd
  <2> QED BY <2>1, Division
<1> QED BY <1>3, <1>4 DEF Turn

LEMMA TurnBack == ASSUME NEW k \in Int PROVE Turn(-k) = Conj(Turn(k))
<1> DEFINE z == Turn(k)  w == Turn(-k)
<1>0. -k \in Int /\ k + (-k) = 0 OBVIOUS
<1>1. z \in C /\ w \in C /\ Conj(z) \in C BY <1>0, TurnInC, Closed
<1>2. CMul(z, w) = One
  <2>1. Turn(k + (-k)) = CMul(z, w) BY <1>0, TurnAdd
  <2> QED BY <1>0, <2>1, TurnZero
<1>3. CMul(z, Conj(z)) = One BY OnCircle
<1> HIDE DEF z, w
<1>4. CMul(w, CMul(z, Conj(z))) = w BY <1>1, <1>3, MulRing
<1>5. CMul(w, CMul(z, Conj(z))) = CMul(CMul(w, z), Conj(z)) BY <1>1, MulRing
<1>6. CMul(w, z) = One BY <1>1, <1>2, MulRing
<1>7. CMul(One, Conj(z)) = Conj(z) BY <1>1, MulRing
<1> QED BY <1>4, <1>5, <1>6, <1>7 DEF z, w

-----------------------------------------------------------------------------
(* P is prime: nothing but 0 divides 0, and n can be divided by.           *)
\* In a prime field every number but 0 has an inverse: 1 is the least positive
\* sum of multiples of it and of P.
LEMMA PrimeInverse ==
  ASSUME NEW a \in Int, a % P # 0
  PROVE  \E k \in 0 .. P - 1 : (k * a) % P = 1
<1> DEFINE D == {d \in Nat : d >= 1 /\ \E u, v \in Int : d = u * a + v * P}
<1>0. P \in Nat \ {0} /\ P >= 3 BY PIsOdd
<1>a. ASSUME NEW e \in Nat, e >= 1, NEW u \in Int, NEW v \in Int, e = u * a + v * P
      PROVE  e \in D
  BY <1>a
<1>b. \A e \in D : e \in Nat \ {0} /\ \E u, v \in Int : e = u * a + v * P
  OBVIOUS
<1> HIDE DEF D
<1>1. P \in D
  <2>1. P = 0 * a + 1 * P BY <1>0
  <2>2. \E u, v \in Int : P = u * a + v * P BY <2>1
  <2> QED BY <1>0, <2>2 DEF D
<1>2. PICK d \in D : \A e \in D : d <= e
  <2>1. D \in SUBSET Nat /\ D # {} BY <1>b, <1>1
  <2> QED BY <2>1, FirstExists
<1>3. PICK u \in Int, v \in Int : d = u * a + v * P BY <1>b, <1>2, Zenon
<1>4. d \in Nat \ {0} /\ d <= P BY <1>b, <1>1, <1>2
<1>5. P % d = 0
  <2> DEFINE r == P % d  q == P \div d
  <2>0. P \in Int /\ d \in Nat \ {0} BY <1>0, <1>4
  <2>1. r \in 0 .. d - 1 /\ q \in Int /\ P = q * d + r BY <2>0, Division
  <2> HIDE DEF r, q
  <2>2. r = (0 - q * u) * a + (1 - q * v) * P
    <3>1. r = P - q * (u * a + v * P) BY <1>3, <1>4, <2>1
    <3> QED BY <1>0, <2>1, <3>1
  <2>3. 0 - q * u \in Int /\ 1 - q * v \in Int BY <2>1
  <2>4. r >= 1 => r \in D
    <3>1. r \in Nat BY <1>4, <2>1
    <3> QED BY <1>a, <2>2, <2>3, <3>1, Zenon
  <2>5. r = 0 BY <1>2, <1>4, <2>1, <2>4
  <2> QED BY <2>5 DEF r
<1>6. d = 1
  <2>1. d \notin 2 .. P - 1 BY <1>5, FieldAssumption DEF FieldAssumption
  <2>2. ASSUME d = P PROVE FALSE
    <3> DEFINE r == a % P  q == a \div P
    <3>1. r \in 0 .. P - 1 /\ q \in Int /\ a = q * P + r BY <1>0, Division
    <3>2. r # 0 OBVIOUS
    <3> HIDE DEF r, q
    <3>3. r = 1 * a + (0 - q) * P BY <1>0, <3>1
    <3>4. r \in D
      <4>1. r \in Nat /\ r >= 1 /\ 1 \in Int /\ 0 - q \in Int BY <1>0, <3>1, <3>2
      <4> QED BY <1>a, <3>3, <4>1, Zenon
    <3> QED BY <1>0, <1>2, <2>2, <3>1, <3>4
  <2> QED BY <1>0, <1>4, <2>1, <2>2
<1> DEFINE k == u % P  q == u \div P
<1>7. k \in 0 .. P - 1 /\ q \in Int /\ u = q * P + k BY <1>0, Division
<1> HIDE DEF k, q
<1>8. k * a = (0 - (v + q * a)) * P + 1
  <2>1. u * a = 1 - v * P BY <1>0, <1>3, <1>6
  <2>2. k = u - q * P BY <1>0, <1>7
  <2>3. k * a = u * a - q * P * a BY <1>0, <1>7, <2>2
  <2> QED BY <1>0, <1>7, <2>1, <2>3
<1>9. 0 - (v + q * a) \in Int /\ 1 \in 0 .. P - 1 BY <1>0, <1>7
<1>10. (k * a) % P = 1 BY <1>0, <1>8, <1>9, Remainder
<1> QED BY <1>7, <1>10

LEMMA NoDivisorsOfZero ==
  ASSUME NEW a \in Int, NEW b \in Int, (a * b) % P = 0, a % P # 0
  PROVE  b % P = 0
<1>0. P \in Nat \ {0} /\ P >= 3 BY PIsOdd
<1>1. PICK k \in 0 .. P - 1 : (k * a) % P = 1 BY PrimeInverse
<1> DEFINE w == (k * a) \div P  ab == a * b  z == ab \div P
<1>2. w \in Int /\ k * a = w * P + 1
  <2>1. k * a \in Int BY <1>0, <1>1
  <2> QED BY <1>0, <1>1, <2>1, Division
<1>3. z \in Int /\ a * b = z * P
  <2>0. ab % P = 0 OBVIOUS
  <2>1. ab \in Int /\ P \in Nat \ {0} BY <1>0
  <2> HIDE DEF ab
  <2>2. z \in Int /\ ab = z * P + (ab % P) BY <2>1, Division
  <2>3. ab = z * P BY <2>0, <2>1, <2>2
  <2> QED BY <2>2, <2>3 DEF ab
<1> HIDE DEF w, z
<1>4. k * (a * b) = k * a * b BY <1>0, <1>1
<1>5. b = (k * z - w * b) * P + 0
  <2>1. k * (z * P) = (w * P + 1) * b BY <1>2, <1>3, <1>4
  <2> QED BY <1>0, <1>1, <1>2, <1>3, <2>1
<1>6. k * z - w * b \in Int /\ 0 \in 0 .. P - 1 BY <1>0, <1>1, <1>2, <1>3
<1> QED BY <1>0, <1>5, <1>6, Remainder

Scalar(s) == Complex(s, 0)
LEMMA RealInC == ASSUME NEW s \in Int PROVE Scalar(s) \in C
BY InC DEF Scalar
LEMMA RealMul == ASSUME NEW s \in Int, NEW t \in Int
                 PROVE  CMul(Scalar(s), Scalar(t)) = Scalar(s * t)
<1>1. CMul(Complex(s, 0), Complex(t, 0)) = Complex(s * t - 0 * 0, s * 0 + 0 * t)
  BY MulHom
<1>2. s * t - 0 * 0 = s * t /\ s * 0 + 0 * t = 0 OBVIOUS
<1> QED BY <1>1, <1>2 DEF Scalar
LEMMA RealAdd == ASSUME NEW s \in Int, NEW t \in Int
                 PROVE  CAdd(Scalar(s), Scalar(t)) = Scalar(s + t)
<1>1. CAdd(Complex(s, 0), Complex(t, 0)) = Complex(s + t, 0 + 0) BY AddHom
<1> QED BY <1>1 DEF Scalar
LEMMA RealConj == ASSUME NEW s \in Int PROVE Conj(Scalar(s)) = Scalar(s)
<1> DEFINE z == 0
<1>1. z \in Int /\ Scalar(s) = Complex(s, z) /\ z = 0 BY DEF Scalar
<1> HIDE DEF z
<1>2. Conj(Complex(s, z)) = Complex(s, -z) BY <1>1, ConjHom
<1>3. -z = z
  <2>0. z \in Int BY <1>1
  <2>1. -z + z = 0 /\ -z \in Int BY <2>0
  <2> DEFINE w == -z
  <2>2. w \in Int /\ w + z = 0 BY <2>1
  <2> HIDE DEF w
  <2>3. w = z BY <1>1, <2>2
  <2> QED BY <2>3 DEF w
<1> QED BY <1>1, <1>2, <1>3
LEMMA RealScale == ASSUME NEW a \in C, NEW s \in Int
                   PROVE  Scaled(a, s) = CMul(Scalar(s), a) /\ Scaled(a, s) \in C
<1>1. Scaled(a, s) = CMul(a, Scalar(s)) BY ScaledIsMul DEF Scalar
<1>2. Scalar(s) \in C BY RealInC
<1> QED BY <1>1, <1>2, MulRing, Closed

LEMMA RealInverse ==
  ASSUME NEW s \in Int, s % P # 0
  PROVE  \E k \in 0 .. P - 1 : (k * s) % P = 1 /\ CMul(Scalar(k), Scalar(s)) = One
<1>1. PICK k \in 0 .. P - 1 : (k * s) % P = 1 BY PrimeInverse
<1>2. k \in Int /\ k * s \in Int BY <1>1, PIsOdd
<1>3. CMul(Scalar(k), Scalar(s)) = Scalar(k * s) BY <1>2, RealMul
<1>4. (k * s) % P = 1 % P BY <1>1, PIsOdd
<1>5. Scalar(k * s) = One BY <1>4 DEF Scalar, One, Complex
<1> QED BY <1>1, <1>3, <1>5

LEMMA RealCancel ==
  ASSUME NEW s \in Int, s % P # 0, NEW a \in C, NEW b \in C,
         CMul(Scalar(s), a) = CMul(Scalar(s), b)
  PROVE  a = b
<1>1. PICK k \in 0 .. P - 1 : CMul(Scalar(k), Scalar(s)) = One BY RealInverse
<1>2. Scalar(k) \in C /\ Scalar(s) \in C BY <1>1, PIsOdd, RealInC
<1>3. CMul(Scalar(k), CMul(Scalar(s), a)) = a
  <2>1. CMul(CMul(Scalar(k), Scalar(s)), a) = CMul(Scalar(k), CMul(Scalar(s), a))
    BY <1>2, MulRing
  <2> QED BY <1>1, <2>1, MulRing
<1>4. CMul(Scalar(k), CMul(Scalar(s), b)) = b
  <2>1. CMul(CMul(Scalar(k), Scalar(s)), b) = CMul(Scalar(k), CMul(Scalar(s), b))
    BY <1>2, MulRing
  <2> QED BY <1>1, <2>1, MulRing
<1> QED BY <1>3, <1>4

\* A number of the circle that is not 1 moves everything but 0.
LEMMA CircleMoves ==
  ASSUME NEW z \in C, NEW x \in C, CMul(z, Conj(z)) = One, z # One, CMul(z, x) = x
  PROVE  x = Zero
<1>0. P \in Nat \ {0} /\ P >= 3 BY PIsOdd
<1> DEFINE zr == z.r  zi == z.i  s == 2 - 2 * zr
<1>1. zr \in 0 .. P - 1 /\ zi \in 0 .. P - 1 /\ z = [r |-> zr, i |-> zi] /\ zr \in Int /\
    zi \in Int
      /\ s \in Int
  BY <1>0 DEF C
<1>2. z = Complex(zr, zi) BY AsComplex
<1> HIDE DEF zr, zi
<1>3. (zr * zr + zi * zi) % P = 1
  <2> DEFINE y == -zi
  <2>1. Conj(z) = Complex(zr, y) BY <1>1, <1>2, ConjHom
  <2>2. zr * zr - zi * y = zr * zr + zi * zi BY <1>1
  <2>5. zr \in Int /\ zi \in Int /\ y \in Int BY <1>1
  <2> HIDE DEF y
  <2>3. CMul(z, Conj(z)) = Complex(zr * zr - zi * y, zr * y + zi * zr)
    BY <1>2, <2>1, <2>5, MulNamed
  <2>4. Complex(zr * zr + zi * zi, zr * y + zi * zr).r = One.r BY <2>2, <2>3
  <2>6. 1 % P = 1 BY <1>0
  <2> QED BY <2>4, <2>6 DEF Complex, One
<1>4. s % P # 0
  <2> SUFFICES ASSUME s % P = 0 PROVE FALSE OBVIOUS
  <2>1. (2 * (1 - zr)) % P = 0 /\ 2 % P # 0 /\ 1 - zr \in Int
    <3>1. 2 * (1 - zr) = s BY <1>1
    <3> QED BY <1>0, <1>1, <3>1
  <2>2. (1 - zr) % P = 0 BY <2>1, NoDivisorsOfZero
  <2>3. zr = 1
    <3>1. PICK k \in Int : 1 - zr = ((1 - zr) % P) + k * P BY <2>1, ModRest
    <3>2. 1 - zr = k * P BY <1>0, <2>2, <3>1
    <3>3. k = 0
      <4>1. k * P <= 1 /\ k * P > 0 - P BY <1>0, <1>1, <3>2
      <4>2. k >= 1 => k * P >= P BY <1>0
      <4>3. k <= -1 => k * P <= 0 - P BY <1>0
      <4> QED BY <1>0, <4>1, <4>2, <4>3
    <3> QED BY <1>0, <1>1, <3>2, <3>3
  <2>4. (zi * zi) % P = 0
    <3>1. PICK k \in Int : zr * zr + zi * zi = ((zr * zr + zi * zi) % P) + k * P
      <4>1. zr * zr + zi * zi \in Int BY <1>1
      <4> QED BY <4>1, ModRest
    <3>2. zi * zi = k * P + 0 BY <1>0, <1>1, <1>3, <2>3, <3>1
    <3>3. 0 \in 0 .. P - 1 BY <1>0
    <3> QED BY <1>0, <3>2, <3>3, Remainder, Zenon
  <2>5. zi % P = zi BY <1>1, ModSame
  <2>6. zi = 0 BY <1>1, <2>4, <2>5, NoDivisorsOfZero
  <2> QED BY <1>2, <2>3, <2>6 DEF One
<1> HIDE DEF s
<1> DEFINE c == Conj(z)
<1>5. c \in C /\ CMul(z, c) = One BY Closed
<1>6. CAdd(z, c) = Scalar(2 * zr)
  <2>1. CAdd(z, c) = Complex(zr + zr, zi + (-zi))
    <3>1. c = Complex(zr, -zi) /\ -zi \in Int BY <1>1, <1>2, ConjHom
    <3> HIDE DEF c
    <3> QED BY <1>1, <1>2, <3>1, AddHom
  <2>2. zr + zr = 2 * zr /\ zi + (-zi) = 0 BY <1>1
  <2> QED BY <2>1, <2>2 DEF Scalar
<1> HIDE DEF c
<1>7. CMul(c, x) = x
  <2>1. CMul(c, CMul(z, x)) = CMul(CMul(c, z), x) BY <1>5, MulRing
  <2>2. CMul(c, z) = One /\ CMul(One, x) = x BY <1>5, MulRing
  <2> QED BY <2>1, <2>2
<1>8. CMul(CAdd(z, c), x) = CAdd(x, x)
  <2>1. CMul(x, CAdd(z, c)) = CAdd(CMul(x, z), CMul(x, c)) BY <1>5, MulRing
  <2>2. CAdd(z, c) \in C BY <1>5, Closed
  <2>3. CMul(x, z) = x /\ CMul(x, c) = x BY <1>5, <1>7, MulRing
  <2>4. CMul(CAdd(z, c), x) = CMul(x, CAdd(z, c)) BY <2>2, MulRing
  <2> QED BY <2>1, <2>3, <2>4
<1>9. CMul(Scalar(s), x) = CMul(Scalar(s), Zero)
  <2> DEFINE xr == x.r  xi == x.i  t == 2 * zr
  <2>1. xr \in Int /\ xi \in Int /\ x = Complex(xr, xi) BY AsComplex
  <2>2. t \in Int /\ s \in Int /\ s + t = 2 /\ s = 2 - t /\ Scalar(t) = CAdd(z, c)
    BY <1>1, <1>6 DEF s
  <2> HIDE DEF xr, xi, t
  <2>3. CMul(Scalar(t), x) = CAdd(x, x) BY <1>8, <2>2
  <2>4. CMul(Scalar(t), x) \in C /\ CMul(Scalar(s), x) \in C /\ Scalar(s) \in C /\
      Scalar(t) \in C
    BY <2>2, RealInC, Closed
  <2>5. CAdd(CMul(Scalar(s), x), CMul(Scalar(t), x)) = CMul(Scalar(2), x)
    <3>1. CMul(x, CAdd(Scalar(s), Scalar(t))) = CAdd(CMul(x, Scalar(s)), CMul(x, Scalar(t)))
      BY <2>4, MulRing
    <3>2. CAdd(Scalar(s), Scalar(t)) = Scalar(2) BY <2>2, RealAdd
    <3>3. Scalar(2) \in C BY RealInC
    <3> QED BY <2>4, <3>1, <3>2, <3>3, MulRing
  <2>6. CMul(Scalar(2), x) = CAdd(x, x)
    <3>1. CMul(x, CAdd(One, One)) = CAdd(CMul(x, One), CMul(x, One)) BY ZeroOne, MulRing
    <3>2. One = Scalar(1) BY DEF One, Scalar
    <3>3. CAdd(One, One) = Scalar(2) BY <3>2, RealAdd
    <3>4. Scalar(2) \in C BY RealInC
    <3> QED BY <3>1, <3>3, <3>4, MulRing
  <2>7. CMul(Scalar(s), x) = CSub(CAdd(CMul(Scalar(s), x), CMul(Scalar(t), x)), CMul(Scalar(t), x))
    BY <2>4, AddRing
  <2>8. CMul(Scalar(s), x) = Zero
    <3>1. CAdd(x, x) \in C BY Closed
    <3>2. CSub(CAdd(x, x), CAdd(x, x)) = Zero BY <3>1, AddRing
    <3> QED BY <2>3, <2>5, <2>6, <2>7, <3>2
  <2>9. CMul(Scalar(s), Zero) = Zero BY <2>4, ZeroOne, MulRing
  <2> QED BY <2>8, <2>9
<1> QED BY <1>1, <1>4, <1>9, RealCancel, ZeroOne

-----------------------------------------------------------------------------
\* The lengths that have their part of a turn, and the part.
Orders == {n \in Nat \ {0} : (P + 1) % n = 0}
Share(n) == (P + 1) \div n

LEMMA ShareOf ==
  ASSUME NEW n \in Orders
  PROVE  n \in Nat \ {0} /\ Share(n) \in Nat \ {0} /\ Share(n) * n = P + 1
<1> DEFINE t == P + 1  s == t \div n
<1>0. t \in Nat \ {0} /\ n \in Nat \ {0} /\ t % n = 0 BY PIsOdd DEF Orders
<1> HIDE DEF t
<1>1. s \in Int /\ t = s * n + (t % n) BY <1>0, Division
<1> HIDE DEF s
<1>2. t = s * n BY <1>0, <1>1
<1>3. s >= 1
  <2>1. ASSUME s <= 0 PROVE FALSE
    <3>1. (0 - s) * n >= 0
      <4> DEFINE r == 0 - s
      <4>1. r \in Nat BY <1>1, <2>1
      <4> HIDE DEF r
      <4>2. r * n \in Nat BY <1>0, <4>1
      <4> QED BY <4>2 DEF r
    <3>2. (0 - s) * n = 0 - t BY <1>0, <1>1, <1>2
    <3> QED BY <1>0, <3>1, <3>2
  <2> QED BY <1>1, <2>1
<1>4. s \in Nat \ {0} BY <1>1, <1>3
<1> QED BY <1>0, <1>2, <1>4 DEF s, t, Share

LEMMA RootTurn ==
  ASSUME NEW n \in Orders, NEW k \in Int
  PROVE  kf_cexp(k, n) = Turn(Share(n) * k) /\ Share(n) * k \in Int
<1> DEFINE s == Share(n)
<1>1. n \in Nat \ {0} /\ s \in Nat \ {0} /\ s * n = P + 1 BY ShareOf
<1> HIDE DEF s
<1>2. (P + 1) * k = (s * k) * n + 0 /\ s * k \in Int /\ 0 \in 0 .. n - 1
  <2>1. (s * n) * k = (s * k) * n + 0 BY <1>1
  <2> QED BY <1>1, <2>1
<1>3. ((P + 1) * k) \div n = s * k BY <1>1, <1>2, Remainder
<1> QED BY <1>2, <1>3 DEF kf_cexp, Turn, s

LEMMA RootType == ASSUME NEW n \in Orders, NEW k \in Int PROVE kf_cexp(k, n) \in C
BY RootTurn, TurnInC

LEMMA RootAdd ==
  ASSUME NEW n \in Orders, NEW j \in Int, NEW k \in Int
  PROVE  kf_cexp(j + k, n) = CMul(kf_cexp(j, n), kf_cexp(k, n))
<1> DEFINE s == Share(n)
<1>1. s \in Int BY ShareOf
<1>2. /\ kf_cexp(j, n) = Turn(s * j) /\ kf_cexp(k, n) = Turn(s * k)
      /\ j + k \in Int /\ kf_cexp(j + k, n) = Turn(s * (j + k))
  <2>1. j + k \in Int OBVIOUS
  <2> QED BY <2>1, RootTurn
<1> HIDE DEF s
<1>3. s * (j + k) = s * j + s * k /\ s * j \in Int /\ s * k \in Int BY <1>1
<1> QED BY <1>2, <1>3, TurnAdd

LEMMA RootRound ==
  ASSUME NEW n \in Orders, NEW j \in Int, NEW k \in Int
  PROVE  j + k * n \in Int /\ kf_cexp(j + k * n, n) = kf_cexp(j, n)
<1> DEFINE s == Share(n)  i == j + k * n
<1>1. s \in Int /\ n \in Int /\ s * n = P + 1 BY ShareOf
<1>2. i \in Int BY <1>1
<1>3. kf_cexp(j, n) = Turn(s * j) /\ kf_cexp(i, n) = Turn(s * i) BY <1>2, RootTurn
<1> HIDE DEF s
<1>4. s * i = s * j + k * (P + 1)
  <2>1. s * (j + k * n) = s * j + k * (s * n) BY <1>1
  <2> QED BY <1>1, <2>1
<1>5. s * j \in Int BY <1>1
<1>6. Turn(s * j + k * (P + 1)) = Turn(s * j) BY <1>5, TurnRound
<1> QED BY <1>2, <1>3, <1>4, <1>6

LEMMA RootZero == ASSUME NEW n \in Orders PROVE kf_cexp(0, n) = One
<1>1. Share(n) * 0 = 0 BY ShareOf
<1> QED BY <1>1, RootTurn, TurnZero

LEMMA RootBack ==
  ASSUME NEW n \in Orders, NEW k \in Int
  PROVE  -k \in Int /\ kf_cexp(-k, n) = Conj(kf_cexp(k, n))
<1> DEFINE s == Share(n)
<1>1. s \in Int BY ShareOf
<1>2. -k \in Int /\ kf_cexp(k, n) = Turn(s * k) /\ kf_cexp(-k, n) = Turn(s * (-k))
  <2>1. -k \in Int OBVIOUS
  <2> QED BY <2>1, RootTurn
<1> HIDE DEF s
<1>3. s * (-k) = -(s * k) /\ s * k \in Int BY <1>1
<1> QED BY <1>2, <1>3, TurnBack

LEMMA RootOnCircle ==
  ASSUME NEW n \in Orders, NEW k \in Int
  PROVE  CMul(kf_cexp(k, n), Conj(kf_cexp(k, n))) = One
BY RootTurn, OnCircle

LEMMA RootIsOne ==
  ASSUME NEW n \in Orders, NEW k \in Int, kf_cexp(k, n) = One
  PROVE  \E j \in Int : k = j * n
<1> DEFINE s == Share(n)  t == P + 1
<1>1. s \in Nat \ {0} /\ n \in Nat \ {0} /\ s * n = t BY ShareOf
<1>2. s * k \in Int /\ Turn(s * k) = One BY RootTurn
<1>3. t \in Nat \ {0} BY PIsOdd
<1> HIDE DEF s
<1> DEFINE r == (s * k) % t  j == (s * k) \div t
<1>4. r \in 0 .. t - 1 /\ j \in Int /\ s * k = j * t + r
  <2> DEFINE x == s * k
  <2>1. x \in Int BY <1>2
  <2> HIDE DEF x, t
  <2>2. x % t \in 0 .. t - 1 /\ x \div t \in Int /\ x = (x \div t) * t + (x % t)
    BY <1>3, <2>1, Division
  <2> QED BY <2>2 DEF x
<1>5. r = 0
  <2>1. Power[r] = One BY <1>2 DEF Turn
  <2> HIDE DEF r
  <2>2. r \notin 1 .. P BY <2>1, CircleAssumption DEF CircleAssumption, One
  <2> QED BY <1>3, <1>4, <2>2, PIsOdd
<1> HIDE DEF r, j
<1>6. s * k = s * (j * n)
  <2>1. j * (s * n) = s * (j * n) BY <1>1, <1>4
  <2>2. s * k = j * t
    <3>1. s * k \in Int /\ j * t \in Int BY <1>1, <1>3, <1>4
    <3> QED BY <1>4, <1>5, <3>1
  <2> QED BY <1>1, <2>1, <2>2
<1>7. k = j * n
  <2> DEFINE y == j * n
  <2>1. y \in Int /\ s * k = s * y BY <1>1, <1>4, <1>6
  <2> HIDE DEF y
  <2>2. k < y => s * k < s * y
    <3> SUFFICES ASSUME k < y PROVE s * k < s * y OBVIOUS
    <3> DEFINE d == y - k
    <3>1. d \in Nat \ {0} BY <2>1
    <3> HIDE DEF d
    <3>2. s * d > 0 BY <1>1, <3>1
    <3>3. s * (y - k) = s * y - s * k BY <1>1, <2>1
    <3>4. s * y \in Int /\ s * k \in Int BY <1>1, <2>1
    <3> QED BY <3>2, <3>3, <3>4 DEF d
  <2>3. y < k => s * y < s * k
    <3> SUFFICES ASSUME y < k PROVE s * y < s * k OBVIOUS
    <3> DEFINE d == k - y
    <3>1. d \in Nat \ {0} BY <2>1
    <3> HIDE DEF d
    <3>2. s * d > 0 BY <1>1, <3>1
    <3>3. s * (k - y) = s * k - s * y BY <1>1, <2>1
    <3>4. s * y \in Int /\ s * k \in Int BY <1>1, <2>1
    <3> QED BY <3>2, <3>3, <3>4 DEF d
  <2>4. s * y \in Int BY <1>1, <2>1
  <2> QED BY <2>1, <2>2, <2>3, <2>4 DEF y
<1> QED BY <1>4, <1>7

LEMMA RootSub ==
  ASSUME NEW a \in Nat \ {0}, NEW b \in Nat \ {0}, a * b \in Orders, NEW k \in Int
  PROVE  a \in Orders /\ k * b \in Int /\ kf_cexp(k * b, a * b) = kf_cexp(k, a)
<1> DEFINE s == Share(a * b)  t == P + 1
<1>1. s \in Nat \ {0} /\ s * (a * b) = t BY ShareOf
<1>2. k * b \in Int BY SMT
<1>3. kf_cexp(k * b, a * b) = Turn(s * (k * b)) BY <1>2, RootTurn
<1> HIDE DEF s
<1>4. t = (s * b) * a + 0 /\ s * b \in Int /\ 0 \in 0 .. a - 1 BY <1>1
<1>5. t % a = 0 /\ t \div a = s * b
  <2> HIDE DEF t
  <2> QED BY <1>4, Remainder, Zenon
<1>6. a \in Orders /\ Share(a) = s * b BY <1>5 DEF Orders, Share
<1>7. kf_cexp(k, a) = Turn((s * b) * k) BY <1>6, RootTurn
<1>8. (s * b) * k = s * (k * b) BY <1>1
<1> QED BY <1>2, <1>3, <1>6, <1>7, <1>8

LEMMA RootHalf ==
  ASSUME NEW m \in Nat \ {0}, 2 * m \in Orders
  PROVE  kf_cexp(m, 2 * m) = MinusOne /\ kf_cexp(-m, 2 * m) = MinusOne
<1> DEFINE s == Share(2 * m)  q == (P + 1) \div 4
<1>1. s \in Nat \ {0} /\ s * (2 * m) = P + 1 BY ShareOf
<1>2. kf_cexp(m, 2 * m) = Turn(s * m) BY RootTurn
<1> HIDE DEF s
<1>3. q \in Nat /\ 4 * q = P + 1 BY QuarterOfTurn
<1> HIDE DEF q
<1>4. s * m = 2 * q /\ 2 * q \in Nat
  <2>1. s * (2 * m) = 2 * (s * m) /\ s * m \in Int BY <1>1
  <2> QED BY <1>1, <1>3, <2>1
<1>5. Turn(2 * q) = MinusOne
  <2>1. Power[2 * q] = MinusOne BY WholePower DEF q
  <2> QED BY <1>4, <2>1, PowerPeriod
<1>6. Conj(MinusOne) = MinusOne BY RealConj DEF MinusOne, Scalar
<1>7. kf_cexp(-m, 2 * m) = Conj(kf_cexp(m, 2 * m)) BY RootBack
<1> QED BY <1>2, <1>4, <1>5, <1>6, <1>7

LEMMA RootQuarter ==
  ASSUME NEW m \in Nat \ {0}, 4 * m \in Orders
  PROVE  kf_cexp(m, 4 * m) = Img
<1> DEFINE s == Share(4 * m)  q == (P + 1) \div 4
<1>1. s \in Nat \ {0} /\ s * (4 * m) = P + 1 BY ShareOf
<1>2. kf_cexp(m, 4 * m) = Turn(s * m) BY RootTurn
<1> HIDE DEF s
<1>3. q \in Nat /\ 4 * q = P + 1 BY QuarterOfTurn
<1>4. Power[q] = Img BY CircleAssumption DEF CircleAssumption, Img
<1> HIDE DEF q
<1>5. s * m = q
  <2>1. s * (4 * m) = 4 * (s * m) /\ s * m \in Int BY <1>1
  <2> QED BY <1>1, <1>3, <2>1
<1> QED BY <1>2, <1>3, <1>4, <1>5, PowerPeriod

-----------------------------------------------------------------------------
\* The sum of the powers of a root is 0, or n where all of them are 1.
LEMMA SumOnes ==
  ASSUME NEW n \in Nat, NEW f, \A j \in 0 .. n - 1 : f[j] = One
  PROVE  CSum(f, n) = Scalar(n)
<1> DEFINE A == {k \in Nat : k <= n => CSum(f, k) = Scalar(k)}
<1>1. 0 \in A
  <2>1. Zero = Scalar(0) BY DEF Zero, Scalar
  <2> QED BY <2>1, SumEmpty
<1>2. ASSUME NEW k \in Nat, k \in A PROVE k + 1 \in A
  <2> SUFFICES ASSUME k + 1 <= n PROVE CSum(f, k + 1) = Scalar(k + 1) OBVIOUS
  <2>1. CSum(f, k) = Scalar(k) /\ f[k] = One BY <1>2
  <2>2. Terms(f, k + 1) BY ZeroOne DEF Terms
  <2>3. CSum(f, k + 1) = CAdd(Scalar(k), One) BY <2>1, <2>2, SumNext
  <2>4. One = Scalar(1) BY DEF One, Scalar
  <2> QED BY <2>3, <2>4, RealAdd
<1> HIDE DEF A
<1>3. \A k \in Nat : k \in A BY <1>1, <1>2, Induction
<1> QED BY <1>3 DEF A

LEMMA RootsSum ==
  ASSUME NEW n \in Orders, NEW d \in Int,
         NEW f, \A j \in 0 .. n - 1 : f[j] = kf_cexp(d * j, n)
  PROVE  CSum(f, n) = IF \E k \in Int : d = k * n THEN Scalar(n) ELSE Zero
<1>0. n \in Nat \ {0} BY ShareOf
<1>1. \A j \in 0 .. n - 1 : d * j \in Int /\ f[j] \in C
  <2>1. ASSUME NEW j \in 0 .. n - 1 PROVE d * j \in Int BY <1>0
  <2>2. \A j \in 0 .. n - 1 : f[j] \in C BY <2>1, RootType
  <2> QED BY <2>1, <2>2
<1>2. CASE \E k \in Int : d = k * n
  <2>1. PICK k \in Int : d = k * n BY <1>2
  <2>2. ASSUME NEW j \in 0 .. n - 1 PROVE f[j] = One
    <3>1. d * j = 0 + (k * j) * n /\ k * j \in Int BY <1>0, <2>1
    <3>2. kf_cexp(0 + (k * j) * n, n) = kf_cexp(0, n) BY <3>1, RootRound
    <3> QED BY <3>1, <3>2, RootZero
  <2> QED BY <1>0, <1>2, <2>2, SumOnes
<1>3. CASE ~ \E k \in Int : d = k * n
  <2> DEFINE g == [j \in 0 .. n - 1 |-> kf_cexp(d * (j + 1), n)]  w == kf_cexp(d, n)
  <2>1. w \in C /\ Terms(f, n) BY <1>1, RootType DEF Terms
  <2>2. ASSUME NEW j \in 0 .. n - 1 PROVE g[j] = CMul(w, f[j])
    <3>1. d * (j + 1) = d + d * j /\ d * j \in Int BY <1>0
    <3>2. kf_cexp(d + d * j, n) = CMul(w, kf_cexp(d * j, n)) BY <3>1, RootAdd
    <3> QED BY <3>1, <3>2
  <2>3. ASSUME NEW i \in 0 .. n - 1 - 1 PROVE g[i] = f[1 + i]
    <3>1. i + 1 \in 0 .. n - 1 /\ i \in 0 .. n - 1 /\ i + 1 = 1 + i BY <1>0
    <3> QED BY <3>1
  <2>4. g[n - 1] = f[0]
    <3>1. n - 1 \in 0 .. n - 1 /\ (n - 1) + 1 = n /\ 0 \in 0 .. n - 1 BY <1>0
    <3>2. g[n - 1] = kf_cexp(d * n, n) BY <3>1
    <3>3. d * 0 = 0 /\ d * n = 0 + d * n BY <1>0
    <3>4. kf_cexp(0 + d * n, n) = kf_cexp(0, n) BY RootRound
    <3> QED BY <3>1, <3>2, <3>3, <3>4
  <2> HIDE DEF g, w
  <2>5. CSum(g, n) = CMul(w, CSum(f, n)) BY <1>0, <2>1, <2>2, SumMul
  <2>6. CSum(g, n) = CSum(f, n)
    <3>1. \A i \in 0 .. 1 - 1 : g[n - 1 + i] = f[i] BY <1>0, <2>4
    <3>2. 1 \in 0 .. n BY <1>0
    <3> QED BY <1>0, <2>1, <2>3, <3>1, <3>2, SumRotate
  <2>7. CSum(f, n) \in C BY <1>0, <2>1, SumType
  <2>8. CMul(w, Conj(w)) = One /\ w # One
    <3>1. w # One BY <1>3, RootIsOne DEF w
    <3> QED BY <3>1, RootOnCircle DEF w
  <2>9. CSum(f, n) = Zero BY <2>1, <2>5, <2>6, <2>7, <2>8, CircleMoves, Zenon
  <2> QED BY <1>3, <2>9
<1> QED BY <1>2, <1>3

-----------------------------------------------------------------------------
\* Bin k of the discrete Fourier transform of the n complex numbers x.
Spectrum(x, n, k) == CSum([t \in 0 .. n - 1 |-> CMul(x[t], kf_cexp(-(k * t), n))], n)

LEMMA SpectrumTerms ==
  ASSUME NEW n \in Orders, NEW x, Terms(x, n), NEW k \in Int
  PROVE  /\ n \in Nat \ {0}
         /\ \A t \in 0 .. n - 1 : /\ -(k * t) \in Int /\ x[t] \in C /\ kf_cexp(-(k * t), n) \in C
                                  /\ CMul(x[t], kf_cexp(-(k * t), n)) \in C
         /\ Terms([t \in 0 .. n - 1 |-> CMul(x[t], kf_cexp(-(k * t), n))], n)
         /\ Spectrum(x, n, k) \in C
<1>0. n \in Nat \ {0} BY ShareOf
<1>1. ASSUME NEW t \in 0 .. n - 1
      PROVE  /\ -(k * t) \in Int /\ x[t] \in C /\ kf_cexp(-(k * t), n) \in C
             /\ CMul(x[t], kf_cexp(-(k * t), n)) \in C
  <2>1. -(k * t) \in Int /\ x[t] \in C BY <1>0 DEF Terms
  <2>2. kf_cexp(-(k * t), n) \in C BY <2>1, RootType
  <2> QED BY <2>1, <2>2, Closed, Zenon
<1> DEFINE f == [t \in 0 .. n - 1 |-> CMul(x[t], kf_cexp(-(k * t), n))]
<1>2. Terms(f, n) BY <1>1 DEF Terms
<1>3. CSum(f, n) \in C BY <1>0, <1>2, SumType
<1> QED BY <1>0, <1>1, <1>2, <1>3 DEF Spectrum

LEMMA SpectrumSame ==
  ASSUME NEW n \in Orders, NEW x, NEW y, Terms(x, n), NEW k \in Int,
         \A t \in 0 .. n - 1 : y[t] = x[t]
  PROVE  Spectrum(y, n, k) = Spectrum(x, n, k)
<1> DEFINE f == [t \in 0 .. n - 1 |-> CMul(x[t], kf_cexp(-(k * t), n))]
           g == [t \in 0 .. n - 1 |-> CMul(y[t], kf_cexp(-(k * t), n))]
<1>1. f = g OBVIOUS
<1> QED BY <1>1, Zenon DEF Spectrum

LEMMA SpectrumRound ==
  ASSUME NEW n \in Orders, NEW x, Terms(x, n), NEW k \in Int, NEW j \in Int
  PROVE  k + j * n \in Int /\ Spectrum(x, n, k + j * n) = Spectrum(x, n, k)
<1>0. n \in Nat \ {0} BY ShareOf
<1> DEFINE l == k + j * n
           f == [t \in 0 .. n - 1 |-> CMul(x[t], kf_cexp(-(k * t), n))]
           g == [t \in 0 .. n - 1 |-> CMul(x[t], kf_cexp(-(l * t), n))]
<1>1. l \in Int BY <1>0
<1>2. ASSUME NEW t \in 0 .. n - 1 PROVE f[t] = g[t]
  <2>1. -(l * t) = -(k * t) + (0 - j * t) * n /\ -(k * t) \in Int /\ 0 - j * t \in Int
    <3>1. (k + j * n) * t = k * t + (j * t) * n BY <1>0
    <3>2. k * t \in Int /\ j * t \in Int BY <1>0
    <3>3. (0 - j * t) * n = 0 - (j * t) * n BY <1>0, <3>2
    <3>4. (j * t) * n \in Int BY <1>0, <3>2
    <3> QED BY <3>1, <3>2, <3>3, <3>4
  <2> HIDE DEF l
  <2>2. kf_cexp(-(k * t) + (0 - j * t) * n, n) = kf_cexp(-(k * t), n) BY <2>1, RootRound
  <2> QED BY <2>1, <2>2
<1>3. f = g BY <1>2
<1> QED BY <1>1, <1>3, Zenon DEF Spectrum

LEMMA SpectrumReal ==
  ASSUME NEW n \in Orders, NEW x, Terms(x, n), NEW k \in Int,
         \A t \in 0 .. n - 1 : Conj(x[t]) = x[t]
  PROVE  /\ -k \in Int /\ Spectrum(x, n, -k) = Conj(Spectrum(x, n, k))
         /\ n - k \in Int /\ Spectrum(x, n, n - k) = Conj(Spectrum(x, n, k))
<1>0. n \in Nat \ {0} BY ShareOf
<1> DEFINE l == -k
           f == [t \in 0 .. n - 1 |-> CMul(x[t], kf_cexp(-(k * t), n))]
           g == [t \in 0 .. n - 1 |-> CMul(x[t], kf_cexp(-(l * t), n))]
<1>1. l \in Int OBVIOUS
<1>2. ASSUME NEW t \in 0 .. n - 1 PROVE g[t] = Conj(f[t])
  <2>1. /\ -(k * t) \in Int /\ x[t] \in C /\ kf_cexp(-(k * t), n) \in C BY SpectrumTerms, Zenon
  <2>2. Conj(CMul(x[t], kf_cexp(-(k * t), n))) = CMul(Conj(x[t]), Conj(kf_cexp(-(k * t), n)))
    BY <2>1, ConjRing
  <2>3. -(l * t) = -(-(k * t)) BY <1>0
  <2>4. kf_cexp(-(-(k * t)), n) = Conj(kf_cexp(-(k * t), n)) BY <2>1, RootBack
  <2> QED BY <2>2, <2>3, <2>4
<1>3. Terms(f, n) BY SpectrumTerms, Zenon
<1>4. CSum(g, n) = Conj(CSum(f, n))
  <2> HIDE DEF f, g
  <2> QED BY <1>0, <1>2, <1>3, SumConj
<1>5. Spectrum(x, n, l) = Conj(Spectrum(x, n, k)) BY <1>4 DEF Spectrum
<1>6. n - k = l + 1 * n /\ n - k \in Int BY <1>0
<1>7. Spectrum(x, n, l + 1 * n) = Spectrum(x, n, l)
  <2> HIDE DEF l
  <2> QED BY <1>1, SpectrumRound
<1> QED BY <1>1, <1>5, <1>6, <1>7

\* A transform and the one with the other sign give n times what they were given.
LEMMA Inversion ==
  ASSUME NEW n \in Orders, NEW x, Terms(x, n), NEW g \in {1, -1},
         NEW Y, \A k \in 0 .. n - 1 : Y[k] = Spectrum(x, n, g * k), NEW s \in Int
  PROVE  /\ Terms(Y, n)
         /\ s % n \in 0 .. n - 1
         /\ Spectrum(Y, n, -(g * s)) = CMul(Scalar(n), x[s % n])
<1>0. n \in Nat \ {0} /\ g \in Int BY ShareOf
<1>1. Terms(Y, n)
  <2>1. ASSUME NEW k \in 0 .. n - 1 PROVE Y[k] \in C
    <3>1. g * k \in Int BY <1>0
    <3> QED BY <3>1, SpectrumTerms, Zenon
  <2> QED BY <2>1 DEF Terms
<1> DEFINE r == s % n  q == s \div n
<1>2. r \in 0 .. n - 1 /\ q \in Int /\ s = q * n + r BY <1>0, Division, Zenon
<1> HIDE DEF r, q
<1> DEFINE E(k, t) == kf_cexp(-((g * k) * t), n)
           B(k) == kf_cexp(-((-(g * s)) * k), n)
           D(k, t) == kf_cexp((g * (s - t)) * k, n)
           F == [k \in 0 .. n - 1 |-> [t \in 0 .. n - 1 |-> CMul(x[t], D(k, t))]]
           G == [t \in 0 .. n - 1 |-> CSum([k \in 0 .. n - 1 |-> F[k][t]], n)]
<1>3. ASSUME NEW k \in 0 .. n - 1, NEW t \in 0 .. n - 1
      PROVE  /\ x[t] \in C /\ E(k, t) \in C /\ B(k) \in C /\ D(k, t) \in C
             /\ D(k, t) = CMul(E(k, t), B(k))
  <2>1. k \in Int /\ t \in Int /\ x[t] \in C BY <1>0 DEF Terms
  <2>2. -((g * k) * t) \in Int /\ -((-(g * s)) * k) \in Int /\ (g * (s - t)) * k \in Int
    BY <1>0, <2>1
  <2>3. (g * (s - t)) * k = -((g * k) * t) + (-((-(g * s)) * k))
    <3>1. CASE g = 1
      <4>1. 1 * k = k /\ 1 * s = s /\ 1 * (s - t) = s - t BY <2>1
      <4>2. (s - t) * k = s * k - t * k /\ -(k * t) = 0 - t * k /\ -((-s) * k) = s * k
        BY <2>1
      <4>3. s * k \in Int /\ t * k \in Int BY <2>1
      <4> QED BY <3>1, <4>1, <4>2, <4>3
    <3>2. CASE g = -1
      <4>1. (g * (s - t)) * k = t * k - s * k BY <2>1, <3>2
      <4>2. -((g * k) * t) = t * k BY <2>1, <3>2
      <4>3. -((-(g * s)) * k) = 0 - s * k BY <2>1, <3>2
      <4>4. s * k \in Int /\ t * k \in Int BY <2>1
      <4> QED BY <4>1, <4>2, <4>3, <4>4
    <3> QED BY <3>1, <3>2
  <2> QED BY <2>1, <2>2, <2>3, RootAdd, RootType, Zenon
<1>4. ASSUME NEW k \in 0 .. n - 1
      PROVE  Terms(F[k], n) /\ CSum(F[k], n) = CMul(Y[k], B(k))
  <2> DEFINE f == [t \in 0 .. n - 1 |-> CMul(x[t], E(k, t))]
  <2>1. Y[k] = CSum(f, n) BY DEF Spectrum
  <2>2. 0 \in 0 .. n - 1 BY <1>0
  <2>3. B(k) \in C BY <1>3, <2>2
  <2>4. ASSUME NEW t \in 0 .. n - 1
        PROVE f[t] \in C /\ F[k][t] \in C /\ F[k][t] = CMul(B(k), f[t])
    <3> DEFINE a == x[t]  b == E(k, t)  c == B(k)
    <3>1. a \in C /\ b \in C /\ c \in C /\ F[k][t] = CMul(a, CMul(b, c)) /\ f[t] = CMul(a, b)
      BY <1>3
    <3> HIDE DEF a, b, c, f, F
    <3>2. CMul(a, b) \in C /\ CMul(b, c) \in C BY <3>1, Closed, Zenon
    <3>3. CMul(a, CMul(b, c)) = CMul(CMul(a, b), c) BY <3>1, MulRing
    <3>4. CMul(CMul(a, b), c) = CMul(c, CMul(a, b)) BY <3>1, <3>2, MulRing
    <3>5. CMul(a, CMul(b, c)) \in C BY <3>1, <3>2, Closed
    <3> QED BY <3>1, <3>2, <3>3, <3>4, <3>5 DEF c
  <2>5. Terms(f, n) /\ Terms(F[k], n) BY <2>4 DEF Terms
  <2> HIDE DEF f, F
  <2>6. \A t \in 0 .. n - 1 : F[k][t] = CMul(B(k), f[t]) BY <2>4
  <2> DEFINE b == B(k)  h == F[k]
  <2>7. b \in C /\ \A t \in 0 .. n - 1 : h[t] = CMul(b, f[t]) BY <2>3, <2>6
  <2> HIDE DEF b, h
  <2>8. CSum(h, n) = CMul(b, CSum(f, n)) BY <1>0, <2>5, <2>7, SumMul
  <2>9. CSum(f, n) \in C BY <1>0, <2>5, SumType
  <2>10. CMul(b, CSum(f, n)) = CMul(CSum(f, n), b) BY <2>7, <2>9, MulRing
  <2> QED BY <2>1, <2>5, <2>8, <2>10 DEF b, h
<1>5. Spectrum(Y, n, -(g * s)) = CSum([k \in 0 .. n - 1 |-> CSum(F[k], n)], n)
  <2>1. [k \in 0 .. n - 1 |-> CSum(F[k], n)]
          = [k \in 0 .. n - 1 |-> CMul(Y[k], kf_cexp(-((-(g * s)) * k), n))]
    <3> HIDE DEF F
    <3> QED BY <1>4
  <2> QED BY <2>1, Zenon DEF Spectrum
<1>6. CSum([k \in 0 .. n - 1 |-> CSum(F[k], n)], n) = CSum(G, n)
  <2>1. \A k \in 0 .. n - 1 : Terms(F[k], n) BY <1>4
  <2> HIDE DEF F
  <2> QED BY <1>0, <2>1, SumExchange, Zenon DEF G
<1>7. ASSUME NEW t \in 0 .. n - 1
      PROVE  G[t] = IF t = r THEN CMul(x[t], Scalar(n)) ELSE Zero
  <2> DEFINE d == g * (s - t)
             f == [k \in 0 .. n - 1 |-> kf_cexp(d * k, n)]
             h == [k \in 0 .. n - 1 |-> F[k][t]]
  <2>0. d \in Int /\ t \in Int BY <1>0
  <2>1. Terms(f, n) BY <1>3 DEF Terms
  <2>2. \A k \in 0 .. n - 1 : h[k] = CMul(x[t], f[k]) OBVIOUS
  <2>3. x[t] \in C BY DEF Terms
  <2>4. CSum(h, n) = CMul(x[t], CSum(f, n))
    <3> HIDE DEF f, h
    <3> QED BY <1>0, <2>1, <2>2, <2>3, SumMul
  <2>5. CSum(f, n) = IF \E k \in Int : d = k * n THEN Scalar(n) ELSE Zero
    <3>1. \A k \in 0 .. n - 1 : f[k] = kf_cexp(d * k, n) OBVIOUS
    <3> HIDE DEF f, d
    <3> QED BY <2>0, <3>1, RootsSum, Zenon
  <2>6. (\E k \in Int : d = k * n) <=> t = r
    <3>1. ASSUME t = r PROVE \E k \in Int : d = k * n
      <4>1. s - t = q * n BY <1>0, <1>2, <3>1
      <4>2. g * (q * n) = (g * q) * n /\ g * q \in Int BY <1>0, <1>2
      <4> QED BY <4>1, <4>2
    <3>2. ASSUME NEW k \in Int, d = k * n PROVE t = r
      <4>1. s - t = (g * k) * n /\ g * k \in Int
        <5>1. s - t = g * (g * (s - t))
          <6>1. s - t \in Int BY <2>0
          <6> QED BY <6>1
        <5>2. g * (k * n) = (g * k) * n BY <1>0
        <5> QED BY <1>0, <3>2, <5>1, <5>2
      <4> DEFINE j == g * k
      <4>2. s = j * n + t /\ j \in Int
        <5>1. j \in Int /\ s - t = j * n BY <4>1
        <5> HIDE DEF j
        <5> QED BY <1>0, <2>0, <5>1
      <4> HIDE DEF j
      <4>3. s % n = t BY <1>0, <4>2, Remainder
      <4> QED BY <4>3 DEF r
    <3> QED BY <3>1, <3>2
  <2>7. CMul(x[t], Zero) = Zero BY <2>3, ZeroOne, MulRing
  <2>8. G[t] = CSum(h, n) OBVIOUS
  <2> HIDE DEF G, h, f, d
  <2> QED BY <2>4, <2>5, <2>6, <2>7, <2>8
<1>8. CSum(G, n) = CMul(x[r], Scalar(n))
  <2> HIDE DEF G
  <2>1. x[r] \in C /\ Scalar(n) \in C BY <1>0, <1>2, RealInC DEF Terms
  <2>2. G[r] = CMul(x[r], Scalar(n)) /\ G[r] \in C BY <1>2, <1>7, <2>1, Closed
  <2>3. \A i \in 0 .. n - 1 : i # r => G[i] = Zero BY <1>7
  <2>4. CSum(G, n) = G[r] BY <1>0, <1>2, <2>2, <2>3, SumPick
  <2> QED BY <2>2, <2>4
<1>9. x[r] \in C /\ Scalar(n) \in C BY <1>0, <1>2, RealInC DEF Terms
<1>10. CMul(x[r], Scalar(n)) = CMul(Scalar(n), x[r]) BY <1>9, MulRing
<1> QED BY <1>1, <1>2, <1>5, <1>6, <1>8, <1>10 DEF r

LEMMA OrderUnit == ASSUME NEW n \in Orders PROVE n \in Int /\ n % P # 0
<1> DEFINE s == Share(n)
<1>0. P \in Nat \ {0} /\ P >= 3 BY PIsOdd
<1>1. n \in Nat \ {0} /\ s \in Nat \ {0} /\ s * n = P + 1 BY ShareOf
<1> HIDE DEF s
<1>2. n <= P + 1
  <2>1. (s - 1) * n \in Nat
    <3>1. s - 1 \in Nat BY <1>1
    <3> QED BY <1>1, <3>1
  <2>2. (s - 1) * n = s * n - n BY <1>1
  <2> QED BY <1>0, <1>1, <2>1, <2>2
<1>3. CASE n < P
  <2>1. n % P = n BY <1>0, <1>1, <1>3
  <2> QED BY <1>1, <2>1
<1>4. CASE n = P
  <2>1. s * P = P + 1 BY <1>1, <1>4
  <2>2. s = 1 => s * P = P BY <1>0
  <2>3. s >= 2 => s * P >= 2 * P
    <3> SUFFICES ASSUME s >= 2 PROVE s * P >= 2 * P OBVIOUS
    <3>1. s - 2 \in Nat BY <1>1
    <3>2. (s - 2) * P \in Nat BY <1>0, <3>1
    <3>3. (s - 2) * P = s * P - 2 * P BY <1>0, <1>1
    <3> QED BY <1>0, <1>1, <3>2, <3>3
  <2> QED BY <1>0, <1>1, <2>1, <2>2, <2>3
<1>5. CASE n = P + 1
  <2>1. n = 1 * P + 1 /\ 1 \in 0 .. P - 1 BY <1>0, <1>5
  <2>2. n % P = 1 BY <1>0, <2>1, Remainder
  <2> QED BY <1>1, <2>2
<1> QED BY <1>0, <1>1, <1>2, <1>3, <1>4, <1>5

LEMMA OrderCancel ==
  ASSUME NEW n \in Orders, NEW a \in C, NEW b \in C, CMul(Scalar(n), a) = CMul(Scalar(n), b)
  PROVE  a = b
BY OrderUnit, RealCancel

\* Numbers with the same spectrum are the same.
LEMMA SpectrumUnique ==
  ASSUME NEW n \in Orders, NEW x, NEW y, Terms(x, n), Terms(y, n),
         \A k \in 0 .. n - 1 : Spectrum(x, n, k) = Spectrum(y, n, k)
  PROVE  \A t \in 0 .. n - 1 : x[t] = y[t]
<1>0. n \in Nat \ {0} BY ShareOf
<1> DEFINE Y == [k \in 0 .. n - 1 |-> Spectrum(x, n, k)]
<1>1. \A k \in 0 .. n - 1 : 1 * k = k BY <1>0
<1>2. \A k \in 0 .. n - 1 : Y[k] = Spectrum(x, n, 1 * k) BY <1>1
<1>3. \A k \in 0 .. n - 1 : Y[k] = Spectrum(y, n, 1 * k) BY <1>1
<1> HIDE DEF Y
<1>4. ASSUME NEW t \in 0 .. n - 1 PROVE x[t] = y[t]
  <2>1. t \in Int /\ t % n = t /\ 1 \in {1, -1} BY <1>0
  <2>2. Spectrum(Y, n, -(1 * t)) = CMul(Scalar(n), x[t % n]) BY <1>2, <2>1, Inversion
  <2>3. Spectrum(Y, n, -(1 * t)) = CMul(Scalar(n), y[t % n]) BY <1>3, <2>1, Inversion
  <2>4. x[t] \in C /\ y[t] \in C BY DEF Terms
  <2> QED BY <2>1, <2>2, <2>3, <2>4, OrderCancel
<1> QED BY <1>4

LEMMA FourFactors ==
  ASSUME NEW a \in C, NEW b \in C, NEW c \in C, NEW d \in C
  PROVE  CMul(CMul(a, b), CMul(c, d)) = CMul(a, CMul(c, CMul(b, d)))
<1> DEFINE z == CMul(c, d)
<1>1. z \in C BY Closed
<1>2. CMul(CMul(b, c), d) = CMul(b, z) BY MulRing
<1>3. CMul(b, c) = CMul(c, b) BY MulRing
<1>4. CMul(CMul(c, b), d) = CMul(c, CMul(b, d)) BY MulRing
<1> HIDE DEF z
<1>5. CMul(CMul(a, b), z) = CMul(a, CMul(b, z)) BY <1>1, MulRing
<1> QED BY <1>2, <1>3, <1>4, <1>5 DEF z

\* H is, by n, the spectrum of c, which goes on to the left and to the right.
Continued(c, H, n) ==
  \A u \in Int : c[u] \in C /\ Spectrum(H, n, -u) = CMul(Scalar(n), c[u])
Multiplied(x, a, H, n) ==
  \A k \in 0 .. n - 1 : CMul(Scalar(n), Spectrum(x, n, k)) = CMul(Spectrum(a, n, k), H[k])
SummedUp(x, a, c, n, t) ==
  CMul(Scalar(n), x[t]) = CSum([s \in 0 .. n - 1 |-> CMul(a[s], c[t - s])], n)

\* The convolution theorem, for any number of terms that has its part of a
\* turn: what a product of spectra is, by n, the spectrum of, is a circular
\* convolution.  spectral_mul_accum rests on it (mdf.c:309-326).
THEOREM Product ==
  ASSUME NEW n \in Orders, NEW x, NEW a, NEW H, Terms(x, n), Terms(a, n), Terms(H, n),
         NEW c, Continued(c, H, n), Multiplied(x, a, H, n), NEW t \in 0 .. n - 1
  PROVE  SummedUp(x, a, c, n, t)
<1>20. SUFFICES ASSUME \A u \in Int : c[u] \in C /\ Spectrum(H, n, -u) = CMul(Scalar(n), c[u]),
                    \A k \in 0 .. n - 1 :
                        CMul(Scalar(n), Spectrum(x, n, k)) = CMul(Spectrum(a, n, k), H[k])
             PROVE  CMul(Scalar(n), x[t]) = CSum([s \in 0 .. n - 1 |-> CMul(a[s], c[t - s])], n)
  BY DEF Continued, Multiplied, SummedUp
<1>0. n \in Nat \ {0} /\ Scalar(n) \in C /\ t \in Int /\ 1 \in {1, -1} BY ShareOf, RealInC
<1> DEFINE X == [k \in 0 .. n - 1 |-> Spectrum(x, n, k)]
           R(k) == kf_cexp(-((-(1 * t)) * k), n)
           E(k, s) == kf_cexp(-(k * s), n)
           D(k, s) == kf_cexp(-((-(t - s)) * k), n)
           F == [k \in 0 .. n - 1 |-> [s \in 0 .. n - 1 |-> CMul(CMul(a[s], E(k, s)), CMul(H[k], R(k)))]]
           G == [s \in 0 .. n - 1 |-> CSum([k \in 0 .. n - 1 |-> F[k][s]], n)]
           L == [s \in 0 .. n - 1 |-> CMul(a[s], c[t - s])]
<1>1. Spectrum(X, n, -(1 * t)) = CMul(Scalar(n), x[t])
  <2>1. \A k \in 0 .. n - 1 : X[k] = Spectrum(x, n, 1 * k) BY <1>0
  <2> HIDE DEF X
  <2>2. Spectrum(X, n, -(1 * t)) = CMul(Scalar(n), x[t % n]) BY <1>0, <2>1, Inversion, Zenon
  <2>3. t % n = t BY <1>0
  <2> QED BY <2>2, <2>3
<1>2. ASSUME NEW k \in 0 .. n - 1, NEW s \in 0 .. n - 1
      PROVE  /\ a[s] \in C /\ H[k] \in C /\ R(k) \in C /\ E(k, s) \in C /\ D(k, s) \in C
             /\ D(k, s) = CMul(E(k, s), R(k))
  <2>1. k \in Int /\ s \in Int /\ a[s] \in C /\ H[k] \in C BY <1>0 DEF Terms
  <2>2. -((-(1 * t)) * k) \in Int /\ -(k * s) \in Int /\ -((-(t - s)) * k) \in Int
    BY <1>0, <2>1
  <2>3. -((-(t - s)) * k) = -(k * s) + (-((-(1 * t)) * k))
    <3>1. -((-(t - s)) * k) = t * k - s * k BY <1>0, <2>1
    <3>2. -(k * s) = 0 - s * k /\ -((-(1 * t)) * k) = t * k BY <1>0, <2>1
    <3>3. t * k \in Int /\ s * k \in Int BY <1>0, <2>1
    <3> QED BY <3>1, <3>2, <3>3
  <2> QED BY <2>1, <2>2, <2>3, RootAdd, RootType, Zenon
<1>3. ASSUME NEW k \in 0 .. n - 1
      PROVE  /\ Terms(F[k], n) /\ X[k] \in C
             /\ CSum(F[k], n) = CMul(Scalar(n), CMul(X[k], R(k)))
  <2> DEFINE f == [s \in 0 .. n - 1 |-> CMul(a[s], E(k, s))]  h == F[k]  b == CMul(H[k], R(k))
  <2>1. Spectrum(a, n, k) = CSum(f, n) BY DEF Spectrum
  <2>2. 0 \in 0 .. n - 1 /\ k \in Int BY <1>0
  <2>3. H[k] \in C /\ R(k) \in C BY <1>2, <2>2
  <2>4. b \in C BY <2>3, Closed, Zenon
  <2>5. Terms(f, n)
    <3>1. \A s \in 0 .. n - 1 : CMul(a[s], E(k, s)) \in C BY <1>2, Closed
    <3> QED BY <3>1 DEF Terms
  <2>6. ASSUME NEW s \in 0 .. n - 1 PROVE h[s] \in C /\ h[s] = CMul(b, f[s])
    <3>1. f[s] \in C BY <2>5 DEF Terms
    <3>2. h[s] = CMul(f[s], b) OBVIOUS
    <3> HIDE DEF h, f, b
    <3>3. CMul(f[s], b) = CMul(b, f[s]) /\ CMul(f[s], b) \in C BY <2>4, <3>1, MulRing, Closed
    <3> QED BY <3>2, <3>3
  <2> HIDE DEF h, f, b
  <2>7. CSum(h, n) = CMul(b, CSum(f, n)) BY <1>0, <2>4, <2>5, <2>6, SumMul
  <2>8. Terms(h, n) BY <2>6 DEF Terms
  <2>9. X[k] \in C /\ X[k] = Spectrum(x, n, k)
    <3>1. Spectrum(x, n, k) \in C BY <2>2, SpectrumTerms, Zenon
    <3> QED BY <3>1
  <2>10. CMul(Scalar(n), X[k]) = CMul(CSum(f, n), H[k]) BY <1>20, <2>1, <2>9
  <2>11. CSum(f, n) \in C BY <1>0, <2>5, SumType
  <2> HIDE DEF X
  <2> DEFINE r == R(k) hk == H[k] xk == X[k] z == CSum(f, n) m == Scalar(n)
  <2>12. CMul(b, z) = CMul(m, CMul(xk, r))
    <3>1. /\ r \in C /\ hk \in C /\ xk \in C /\ z \in C /\ m \in C
          /\ b = CMul(hk, r) /\ CMul(m, xk) = CMul(z, hk)
      BY <1>0, <2>3, <2>9, <2>10, <2>11 DEF b
    <3> HIDE DEF r, hk, xk, z, m
    <3>2. CMul(CMul(hk, r), z) = CMul(z, CMul(hk, r)) BY <2>4, <3>1, MulRing
    <3>3. CMul(z, CMul(hk, r)) = CMul(CMul(z, hk), r) BY <3>1, MulRing
    <3>4. CMul(CMul(m, xk), r) = CMul(m, CMul(xk, r)) BY <3>1, MulRing
    <3> QED BY <3>1, <3>2, <3>3, <3>4
  <2> QED BY <2>7, <2>8, <2>9, <2>12 DEF h
<1>4. CSum([k \in 0 .. n - 1 |-> CSum(F[k], n)], n) = CMul(Scalar(n), CMul(Scalar(n), x[t]))
  <2> DEFINE f == [k \in 0 .. n - 1 |-> CMul(X[k], R(k))]
             h == [k \in 0 .. n - 1 |-> CSum(F[k], n)]
  <2>1. Spectrum(X, n, -(1 * t)) = CSum(f, n) BY DEF Spectrum
  <2>2. Terms(f, n)
    <3>1. 0 \in 0 .. n - 1 BY <1>0
    <3> HIDE DEF X
    <3>2. \A k \in 0 .. n - 1 : CMul(X[k], R(k)) \in C BY <1>2, <1>3, <3>1, Closed, Zenon
    <3> QED BY <3>2 DEF Terms
  <2>3. \A k \in 0 .. n - 1 : h[k] = CMul(Scalar(n), f[k])
    <3> HIDE DEF F, X
    <3> QED BY <1>3
  <2> HIDE DEF f, h
  <2>4. CSum(h, n) = CMul(Scalar(n), CSum(f, n)) BY <1>0, <2>2, <2>3, SumMul
  <2> QED BY <1>1, <2>1, <2>4 DEF h
<1>5. CSum([k \in 0 .. n - 1 |-> CSum(F[k], n)], n) = CSum(G, n)
  <2>1. \A k \in 0 .. n - 1 : Terms(F[k], n) BY <1>3
  <2> HIDE DEF F
  <2> QED BY <1>0, <2>1, SumExchange, Zenon DEF G
<1>6. ASSUME NEW s \in 0 .. n - 1
      PROVE  L[s] \in C /\ G[s] = CMul(Scalar(n), L[s])
  <2> DEFINE f == [k \in 0 .. n - 1 |-> CMul(H[k], D(k, s))]  h == [k \in 0 .. n - 1 |-> F[k][s]]
  <2>1. t - s \in Int BY <1>0
  <2>2. Spectrum(H, n, -(t - s)) = CSum(f, n) BY DEF Spectrum
  <2>3. c[t - s] \in C /\ Spectrum(H, n, -(t - s)) = CMul(Scalar(n), c[t - s])
    BY <1>20, <2>1
  <2>4. a[s] \in C BY DEF Terms
  <2>5. Terms(f, n)
    <3>1. \A k \in 0 .. n - 1 : CMul(H[k], D(k, s)) \in C BY <1>2, Closed
    <3> QED BY <3>1 DEF Terms
  <2>6. ASSUME NEW k \in 0 .. n - 1 PROVE h[k] = CMul(a[s], f[k])
    <3> DEFINE e == E(k, s) r == R(k) hk == H[k] d == D(k, s) al == a[s]
    <3>1. /\ al \in C /\ hk \in C /\ r \in C /\ e \in C /\ d = CMul(e, r) BY <1>2
    <3>2. h[k] = CMul(CMul(al, e), CMul(hk, r)) /\ f[k] = CMul(hk, d) OBVIOUS
    <3> HIDE DEF e, r, hk, d, h, f, al
    <3>3. CMul(CMul(al, e), CMul(hk, r)) = CMul(al, CMul(hk, CMul(e, r))) BY <3>1, FourFactors
    <3> QED BY <3>1, <3>2, <3>3 DEF al
  <2>7. G[s] = CSum(h, n) /\ L[s] = CMul(a[s], c[t - s]) OBVIOUS
  <2> HIDE DEF f, h, G, L
  <2>8. CSum(h, n) = CMul(a[s], CSum(f, n)) BY <1>0, <2>4, <2>5, <2>6, SumMul
  <2> DEFINE cs == c[t - s] al == a[s] m == Scalar(n)
  <2>9. cs \in C /\ al \in C /\ m \in C /\ G[s] = CMul(al, CMul(m, cs)) /\ L[s] = CMul(al, cs)
    BY <1>0, <2>2, <2>3, <2>4, <2>7, <2>8
  <2> HIDE DEF cs, al
  <2>10. CMul(al, cs) \in C BY <2>9, Closed
  <2>14. cs \in C /\ al \in C /\ m \in C BY <2>9
  <2> HIDE DEF m
  <2>11. CMul(al, CMul(m, cs)) = CMul(CMul(al, m), cs) BY <2>14, MulRing
  <2>12. CMul(al, m) = CMul(m, al) BY <2>14, MulRing
  <2>13. CMul(CMul(m, al), cs) = CMul(m, CMul(al, cs)) BY <2>14, MulRing
  <2> QED BY <2>9, <2>10, <2>11, <2>12, <2>13 DEF m
<1>7. CSum(G, n) = CMul(Scalar(n), CSum(L, n)) /\ CSum(L, n) \in C
  <2> HIDE DEF G, L
  <2>1. Terms(L, n) BY <1>6 DEF Terms
  <2> QED BY <1>0, <1>6, <2>1, SumMul, SumType
<1>8. x[t] \in C /\ CMul(Scalar(n), x[t]) \in C
  <2>1. x[t] \in C BY DEF Terms
  <2> QED BY <1>0, <2>1, Closed
<1> QED BY <1>4, <1>5, <1>7, <1>8, OrderCancel DEF L

-----------------------------------------------------------------------------
LEMMA DivExact ==
  ASSUME NEW n \in Nat \ {0}, NEW q \in Nat \ {0}, n % q = 0
  PROVE  n \div q \in Nat \ {0} /\ q * (n \div q) = n
<1> DEFINE d == n \div q
<1>1. d \in Int /\ n = d * q + (n % q) BY Division
<1> HIDE DEF d
<1>2. n = d * q BY <1>1
<1>3. d >= 1
  <2>1. ASSUME d <= 0 PROVE FALSE
    <3> DEFINE e == 0 - d
    <3>1. e \in Nat BY <1>1, <2>1
    <3>2. e * q \in Nat BY <3>1
    <3>3. (0 - d) * q = 0 - d * q /\ d * q \in Int BY <1>1
    <3> QED BY <1>2, <3>2, <3>3
  <2> QED BY <1>1, <2>1
<1>4. q * d = d * q BY <1>1
<1> QED BY <1>1, <1>2, <1>3, <1>4 DEF d

LEMMA RadixDivides ==
  ASSUME NEW n \in Nat \ {0}, NEW p \in Nat \ {0}
  PROVE  /\ Radix(n, p) \in Nat \ {0} /\ n % Radix(n, p) = 0
         /\ n # 1 /\ p # 1 => Radix(n, p) # 1
<1> DEFINE later(q) == (q = 2 /\ p = 4) \/ (q % 2 = 1 /\ q >= 3 /\ (q > p \/ p = 4))
           fits == {q \in 2 .. n : later(q) /\ q <= 32000 /\ q * q <= n /\ n % q = 0}
           best == CHOOSE q \in fits : \A r \in fits : q <= r
<1>1. Radix(n, p) = IF n % p = 0 THEN p ELSE IF fits = {} THEN n ELSE best BY DEF Radix
<1>2. \A q \in fits : q \in Nat \ {0, 1} /\ n % q = 0 OBVIOUS
<1> HIDE DEF fits
<1>3. fits # {} => best \in fits
  <2>1. fits # {} => \E q \in fits : \A r \in fits : q <= r
    <3>1. fits \in SUBSET Nat BY <1>2
    <3> QED BY <3>1, FirstExists
  <2> QED BY <2>1
<1> HIDE DEF best
<1>4. n % n = 0 OBVIOUS
<1> QED BY <1>1, <1>2, <1>3, <1>4, Zenon

\* The stages of kf_factor.
Factoring(G, n) ==
  G = [l \in Nat |->
         IF l = 0 THEN [p |-> 4, m |-> n]
         ELSE [p |-> Radix(G[l - 1].m, G[l - 1].p),
               m |-> G[l - 1].m \div Radix(G[l - 1].m, G[l - 1].p)]]
Factor == [p : Nat \ {0}, m : Nat \ {0}]

LEMMA NextFactor ==
  ASSUME NEW s \in Factor
  PROVE  LET q == Radix(s.m, s.p)
         IN  /\ [p |-> q, m |-> s.m \div q] \in Factor
             /\ q * (s.m \div q) = s.m
             /\ s.m # 1 /\ s.p # 1 => q # 1 /\ s.m \div q < s.m
             /\ s.m = 1 => s.m \div q = 1
<1> DEFINE n == s.m  q == Radix(s.m, s.p)  d == n \div q
<1>1. n \in Nat \ {0} /\ s.p \in Nat \ {0} BY DEF Factor
<1>2. q \in Nat \ {0} /\ n % q = 0 /\ (n # 1 /\ s.p # 1 => q # 1) BY <1>1, RadixDivides, Zenon
<1> HIDE DEF n, q
<1>3. d \in Nat \ {0} /\ q * d = n BY <1>1, <1>2, DivExact
<1> HIDE DEF d
<1>4. q # 1 => d < n
  <2> SUFFICES ASSUME q # 1 PROVE d < n OBVIOUS
  <2>1. (q - 2) * d >= 0
    <3>1. q - 2 \in Nat BY <1>2
    <3>2. (q - 2) * d \in Nat BY <1>3, <3>1
    <3> QED BY <3>2
  <2>2. (q - 2) * d = q * d - 2 * d BY <1>2, <1>3
  <2> QED BY <1>1, <1>3, <2>1, <2>2
<1>5. n = 1 => d = 1
  <2> SUFFICES ASSUME n = 1 PROVE d = 1 OBVIOUS
  <2>1. (q - 1) * d >= 0
    <3>1. q - 1 \in Nat BY <1>2
    <3>2. (q - 1) * d \in Nat BY <1>3, <3>1
    <3> QED BY <3>2
  <2>2. (q - 1) * d = q * d - d BY <1>2, <1>3
  <2> QED BY <1>1, <1>3, <2>1, <2>2
<1>6. [p |-> q, m |-> d] \in Factor BY <1>2, <1>3 DEF Factor
<1> QED BY <1>2, <1>3, <1>4, <1>5, <1>6 DEF n, q, d

LEMMA FactoringExists ==
  ASSUME NEW n \in Nat \ {0}
  PROVE  \E G : G \in [Nat -> Factor] /\ Factoring(G, n)
<1> DEFINE z == [p |-> 4, m |-> n]
           nxt(s) == [p |-> Radix(s.m, s.p), m |-> s.m \div Radix(s.m, s.p)]
           step == [s \in Nat \X Factor |-> nxt(s[2])]
<1>1. z \in Factor BY DEF Factor
<1>2. step \in Advances(Factor)
  <2>1. ASSUME NEW s \in Nat \X Factor PROVE nxt(s[2]) \in Factor
    <3>1. s[2] \in Factor OBVIOUS
    <3> QED BY <3>1, NextFactor
  <2> QED BY <2>1 DEF Advances
<1>3. PICK g \in [Nat -> Factor] : g[0] = z /\ \A k \in Nat : g[k + 1] = step[<<k, g[k]>>]
  <2> HIDE DEF step, z
  <2> QED BY <1>1, <1>2, Recursion
<1>4. ASSUME NEW k \in Nat PROVE g[k + 1] = nxt(g[k])
  <2>1. g[k] \in Factor /\ <<k, g[k]>> \in Nat \X Factor BY <1>3
  <2> QED BY <1>3, <2>1, Zenon
<1>5. ASSUME NEW l \in Nat PROVE g[l] = IF l = 0 THEN z ELSE nxt(g[l - 1])
  <2>1. CASE l = 0 BY <1>3, <2>1
  <2>2. CASE l # 0
    <3>1. l - 1 \in Nat /\ (l - 1) + 1 = l BY <2>2
    <3>2. g[(l - 1) + 1] = nxt(g[l - 1]) BY <1>4, <3>1, Zenon
    <3> QED BY <2>2, <3>1, <3>2
  <2> QED BY <2>1, <2>2
<1>6. g = [l \in Nat |-> IF l = 0 THEN z ELSE nxt(g[l - 1])]
  <2> HIDE DEF nxt, z
  <2>1. g = [l \in Nat |-> g[l]] BY <1>3
  <2> QED BY <1>5, <2>1
<1>7. Factoring(g, n) BY <1>6, Zenon DEF Factoring
<1> QED BY <1>3, <1>7

\* What kf_factor makes: radices whose products are the lengths, down to 1.
Chain(f, n) ==
  /\ Len(f) \in Nat \ {0}
  /\ \A l \in 1 .. Len(f) : f[l].p \in Nat \ {0} /\ f[l].m \in Nat \ {0}
                            /\ f[l].p * f[l].m = IF l = 1 THEN n ELSE f[l - 1].m
  /\ f[Len(f)].m = 1

\* kf_factor, for a length of any factors: each radix divides what the stages
\* above it left, they come down to 1, and there the search ends
\* (kiss_fft.c:437-456).
THEOREM FactorsOf == ASSUME NEW n \in Nat \ {0} PROVE Chain(kf_factor(n), n)
<1> DEFINE H == CHOOSE G : Factoring(G, n)
<1>0. Factoring(H, n) BY FactoringExists
<1> DEFINE levels == CHOOSE l \in 1 .. n : H[l].m = 1 /\ \A k \in 1 .. l - 1 : H[k].m # 1
<1>1. kf_factor(n) = [l \in 1 .. levels |-> H[l]] BY DEF kf_factor, Factoring
<1> HIDE DEF H
<1>2. H[0] = [p |-> 4, m |-> n]
  <2>1. \A l \in Nat : H[l] = IF l = 0 THEN [p |-> 4, m |-> n]
         ELSE [p |-> Radix(H[l - 1].m, H[l - 1].p),
               m |-> H[l - 1].m \div Radix(H[l - 1].m, H[l - 1].p)]
    BY <1>0, Zenon DEF Factoring
  <2> QED BY <2>1, Zenon
<1>3. ASSUME NEW l \in Nat
      PROVE  H[l + 1] = [p |-> Radix(H[l].m, H[l].p), m |-> H[l].m \div Radix(H[l].m, H[l].p)]
  <2>1. \A k \in Nat : H[k] = IF k = 0 THEN [p |-> 4, m |-> n]
         ELSE [p |-> Radix(H[k - 1].m, H[k - 1].p),
               m |-> H[k - 1].m \div Radix(H[k - 1].m, H[k - 1].p)]
    BY <1>0, Zenon DEF Factoring
  <2>2. l + 1 \in Nat /\ l + 1 # 0 /\ (l + 1) - 1 = l OBVIOUS
  <2> QED BY <2>1, <2>2
<1> DEFINE A == {l \in Nat : /\ H[l] \in Factor
                             /\ H[l].m = 1 \/ (H[l].m + l <= n /\ H[l].p # 1)}
<1>4. 0 \in A BY <1>2 DEF Factor
<1>5. ASSUME NEW l \in Nat, l \in A
      PROVE  l + 1 \in A /\ H[l + 1].p * H[l + 1].m = H[l].m
  <2> DEFINE s == H[l]  q == Radix(s.m, s.p)  t == H[l + 1]
  <2>1. s \in Factor /\ (s.m = 1 \/ (s.m + l <= n /\ s.p # 1)) BY <1>5
  <2>2. t = [p |-> q, m |-> s.m \div q] BY <1>3
  <2>3. /\ t \in Factor /\ q * (s.m \div q) = s.m
        /\ s.m # 1 /\ s.p # 1 => q # 1 /\ s.m \div q < s.m
        /\ s.m = 1 => s.m \div q = 1
    <3> HIDE DEF s, t
    <3> QED BY <2>1, <2>2, NextFactor
  <2>4. t.p = q /\ t.m = s.m \div q BY <2>2
  <2>5. t.m \in Nat /\ s.m \in Nat BY <2>1, <2>3 DEF Factor
  <2> HIDE DEF s, t, q
  <2>6. t.m = 1 \/ (t.m + (l + 1) <= n /\ t.p # 1) BY <2>1, <2>3, <2>4, <2>5
  <2>7. t.p * t.m = s.m BY <2>3, <2>4
  <2>8. l + 1 \in A BY <2>3, <2>6 DEF t
  <2> QED BY <2>7, <2>8 DEF s, t
<1>6. \A l \in Nat : l \in A
  <2> HIDE DEF A
  <2> QED BY <1>4, <1>5, Induction, Zenon
<1>7. \A l \in Nat : H[l + 1].p * H[l + 1].m = H[l].m BY <1>5, <1>6, Zenon
<1>8. \A l \in Nat : H[l].p \in Nat \ {0} /\ H[l].m \in Nat \ {0} BY <1>6 DEF Factor
<1>9. H[n].m = 1
  <2>1. n \in A BY <1>6
  <2>2. H[n].m \in Nat \ {0} BY <1>8
  <2> QED BY <2>1, <2>2
<1> HIDE DEF A
<1>10. \E l \in 1 .. n : H[l].m = 1 /\ \A k \in 1 .. l - 1 : H[k].m # 1
  <2> DEFINE D == {l \in Nat \ {0} : H[l].m = 1}
  <2>1. D \in SUBSET Nat /\ n \in D BY <1>9
  <2>2. PICK l \in D : \A k \in D : l <= k
    <3> HIDE DEF D
    <3>1. D # {} BY <2>1
    <3> QED BY <2>1, <3>1, FirstExists
  <2>3. l <= n /\ l \in Nat \ {0} /\ H[l].m = 1 BY <2>1, <2>2
  <2>4. ASSUME NEW k \in 1 .. l - 1 PROVE H[k].m # 1
    <3>1. k \in Nat \ {0} /\ ~(l <= k) BY <2>3
    <3> QED BY <2>2, <3>1
  <2> QED BY <2>3, <2>4
<1>11. levels \in 1 .. n /\ H[levels].m = 1 BY <1>10
<1> HIDE DEF levels
<1> DEFINE f == [l \in 1 .. levels |-> H[l]]
<1>12. Len(f) = levels /\ levels \in Nat \ {0}
  <2>1. levels \in Nat \ {0} BY <1>11
  <2> QED BY <2>1
<1>13. ASSUME NEW l \in 1 .. levels
       PROVE  f[l].p \in Nat \ {0} /\ f[l].m \in Nat \ {0}
              /\ f[l].p * f[l].m = IF l = 1 THEN n ELSE f[l - 1].m
  <2>1. f[l] = H[l] /\ l \in Nat /\ l - 1 \in Nat /\ (l - 1) + 1 = l BY <1>12
  <2>2. H[l].p * H[l].m = H[l - 1].m
    <3>1. H[(l - 1) + 1].p * H[(l - 1) + 1].m = H[l - 1].m BY <1>7, <2>1
    <3> QED BY <2>1, <3>1
  <2>3. l # 1 => f[l - 1] = H[l - 1]
    <3>1. l # 1 => l - 1 \in 1 .. levels BY <1>12
    <3> QED BY <3>1
  <2>4. l = 1 => H[l - 1].m = n BY <1>2
  <2> QED BY <1>8, <2>1, <2>2, <2>3, <2>4
<1>14. f[levels].m = 1
  <2>1. levels \in 1 .. levels BY <1>12
  <2> QED BY <1>11, <2>1
<1> QED BY <1>1, <1>12, <1>13, <1>14 DEF Chain

\* A plan of kiss_fft: the twiddles turn one way or the other.
Sense(st) == IF st.inverse THEN 1 ELSE -1
Planned(st) ==
  /\ st.nfft \in Orders /\ st.inverse \in BOOLEAN /\ Chain(st.factors, st.nfft)
  /\ \A i \in 0 .. st.nfft - 1 : st.twiddles[i] = kf_cexp(Sense(st) * i, st.nfft)
Ratio(st, l) == st.nfft \div Span(st, l)

LEMMA PlanOf ==
  ASSUME NEW n \in Orders, NEW inverse \in BOOLEAN
  PROVE  LET st == kiss_fft_alloc(n, inverse)
         IN  Planned(st) /\ st.nfft = n /\ st.inverse = inverse
<1> DEFINE st == kiss_fft_alloc(n, inverse)
<1>1. /\ st.nfft = n /\ st.inverse = inverse /\ st.factors = kf_factor(n)
      /\ st.twiddles = [i \in 0 .. n - 1 |-> kf_cexp(IF inverse THEN i ELSE -i, n)]
  BY DEF kiss_fft_alloc
<1>2. n \in Nat \ {0} BY ShareOf
<1> HIDE DEF st
<1>3. Chain(st.factors, n) BY <1>1, <1>2, FactorsOf
<1>4. ASSUME NEW i \in 0 .. n - 1 PROVE st.twiddles[i] = kf_cexp(Sense(st) * i, n)
  <2>1. Sense(st) * i = IF inverse THEN i ELSE -i
    <3>1. i \in Int /\ 1 * i = i /\ (-1) * i = -i BY <1>2
    <3> QED BY <1>1, <3>1 DEF Sense
  <2> QED BY <1>1, <2>1
<1> QED BY <1>1, <1>3, <1>4 DEF Planned, st

LEMMA Senses ==
  ASSUME NEW st, Planned(st)
  PROVE  Sense(st) \in {1, -1} /\ Sense(st) \in Int /\ st.nfft \in Nat \ {0}
BY ShareOf DEF Planned, Sense

LEMMA Spans ==
  ASSUME NEW st, Planned(st), NEW l \in 0 .. Len(st.factors)
  PROVE  /\ Span(st, l) \in Nat \ {0} /\ Ratio(st, l) \in Nat \ {0}
         /\ Span(st, l) * Ratio(st, l) = st.nfft
         /\ l > 0 => /\ l - 1 \in 0 .. Len(st.factors)
                     /\ st.factors[l].p \in Nat \ {0}
                     /\ Span(st, l) = st.factors[l].m
                     /\ st.factors[l].p * Span(st, l) = Span(st, l - 1)
                     /\ Ratio(st, l) = st.factors[l].p * Ratio(st, l - 1)
<1> DEFINE L == Len(st.factors)  h == st.nfft
<1>0. h \in Nat \ {0} /\ L \in Nat \ {0} BY ShareOf DEF Planned, Chain
<1>a. \A k \in 1 .. L : st.factors[k].p \in Nat \ {0} /\ st.factors[k].m \in Nat \ {0}
         /\ st.factors[k].p * st.factors[k].m = IF k = 1 THEN h ELSE st.factors[k - 1].m
  BY DEF Planned, Chain
<1> HIDE DEF L, h
<1>1. \A k \in 0 .. L : Span(st, k) \in Nat \ {0} BY <1>0, <1>a DEF Span, h
<1>2. ASSUME NEW k \in 1 .. L
      PROVE  k - 1 \in 0 .. L /\ st.factors[k].p * Span(st, k) = Span(st, k - 1)
  <2>1. k - 1 \in 0 .. L /\ k # 0 /\ (k - 1 = 0 <=> k = 1) BY <1>0
  <2> QED BY <1>a, <2>1 DEF Span, h
<1> DEFINE A == {k \in Nat : k <= L => Ratio(st, k) \in Nat \ {0} /\
    Span(st, k) * Ratio(st, k) = h}
<1>3. 0 \in A
  <2>1. h \div h = 1 /\ h * 1 = h BY <1>0
  <2> QED BY <1>0, <2>1 DEF Ratio, Span, h
<1>4. ASSUME NEW k \in Nat, k \in A, k + 1 <= L
      PROVE  /\ Ratio(st, k + 1) = st.factors[k + 1].p * Ratio(st, k)
             /\ Ratio(st, k + 1) \in Nat \ {0} /\ Span(st, k + 1) * Ratio(st, k + 1) = h
  <2> DEFINE p == st.factors[k + 1].p  m == Span(st, k + 1)  mm == Span(st, k)  r == Ratio(st, k)
  <2>0. k + 1 \in 1 .. L /\ (k + 1) - 1 = k /\ k \in 0 .. L /\ k + 1 \in 0 .. L BY <1>0, <1>4
  <2>1. p \in Nat \ {0} /\ m \in Nat \ {0} /\ p * m = mm /\ r \in Nat \ {0} /\ mm * r = h
    BY <1>a, <1>1, <1>2, <1>4, <2>0
  <2> HIDE DEF p, m, mm, r
  <2>2. h = (p * r) * m + 0 /\ m * (p * r) = h /\ p * r \in Int /\ p * r \in Nat
    <3>1. (p * m) * r = (p * r) * m BY <2>1
    <3>2. p * r \in Nat /\ (p * r) * m \in Nat /\ m * (p * r) = (p * r) * m BY <2>1
    <3> QED BY <2>1, <3>1, <3>2
  <2>3. h \div m = p * r
    <3>1. 0 \in 0 .. m - 1 BY <2>1
    <3> QED BY <2>1, <2>2, <3>1, Remainder
  <2>4. p * r > 0 BY <2>1
  <2> QED BY <2>2, <2>3, <2>4 DEF Ratio, m, p, r, h
<1>5. \A k \in Nat : k \in A
  <2>1. ASSUME NEW k \in Nat, k \in A PROVE k + 1 \in A
    <3>1. k + 1 <= L => Ratio(st, k + 1) \in Nat \ {0} /\ Span(st, k + 1) * Ratio(st, k + 1) = h
      <4> HIDE DEF A
      <4> QED BY <1>4, <2>1
    <3> QED BY <3>1
  <2> HIDE DEF A
  <2> QED BY <1>3, <2>1, Induction
<1>6. l \in Nat /\ l <= L BY <1>0 DEF L
<1>7. Ratio(st, l) \in Nat \ {0} /\ Span(st, l) * Ratio(st, l) = h BY <1>5, <1>6
<1>8. ASSUME l > 0
      PROVE  /\ l - 1 \in 0 .. L
             /\ st.factors[l].p \in Nat \ {0}
             /\ Span(st, l) = st.factors[l].m
             /\ st.factors[l].p * Span(st, l) = Span(st, l - 1)
             /\ Ratio(st, l) = st.factors[l].p * Ratio(st, l - 1)
  <2>1. l \in 1 .. L /\ l - 1 \in Nat /\ (l - 1) + 1 = l BY <1>0, <1>6, <1>8
  <2>2. l - 1 \in A BY <1>5, <2>1
  <2> HIDE DEF A
  <2>3. Ratio(st, (l - 1) + 1) = st.factors[(l - 1) + 1].p * Ratio(st, l - 1)
    BY <1>4, <1>6, <2>1, <2>2
  <2>4. Span(st, l) = st.factors[l].m BY <1>8 DEF Span
  <2> QED BY <1>a, <1>2, <2>1, <2>3, <2>4
<1> QED BY <1>1, <1>6, <1>7, <1>8 DEF L, h

\* Division by p*m is division by m and then by p.
InSteps(o, m, p, mm) ==
  /\ (o \div m) % p \in 0 .. p - 1 /\ o % m \in 0 .. m - 1
  /\ o \div m \in Int /\ o \div mm \in Int
  /\ o % mm = ((o \div m) % p) * m + (o % m)
  /\ o % mm \in 0 .. mm - 1
  /\ o \div mm = (o \div m) \div p
  /\ (o % mm) \div m = (o \div m) % p
  /\ (o % mm) % m = o % m
  /\ o = (o \div mm) * mm + (o % mm)

LEMMA Nested ==
  ASSUME NEW o \in Int, NEW m \in Nat \ {0}, NEW p \in Nat \ {0},
         NEW mm \in Nat \ {0}, mm = p * m
  PROVE  InSteps(o, m, p, mm)
<1> DEFINE a == o \div m  r == o % m  b == a \div p  c == a % p
<1>1. a \in Int /\ r \in 0 .. m - 1 /\ o = a * m + r BY Division
<1> HIDE DEF a, r
<1>2. b \in Int /\ c \in 0 .. p - 1 /\ a = b * p + c BY <1>1, Division
<1> HIDE DEF b, c
<1>3. mm \in Nat \ {0} OBVIOUS
<1>4. c * m + r \in 0 .. mm - 1
  <2>1. c * m \in Nat /\ r \in Nat /\ r < m BY <1>1, <1>2
  <2>2. (p - 1 - c) * m >= 0
    <3>1. p - 1 - c \in Nat BY <1>2
    <3>2. (p - 1 - c) * m \in Nat BY <3>1
    <3> QED BY <3>2
  <2>3. (p - 1 - c) * m = p * m - m - c * m BY <1>2
  <2>4. p * m \in Nat BY <1>3
  <2> QED BY <2>1, <2>2, <2>3, <2>4
<1>5. o = b * mm + (c * m + r)
  <2>1. (b * p + c) * m = b * (p * m) + c * m BY <1>2
  <2>2. b * (p * m) \in Int /\ c * m \in Int BY <1>2
  <2> QED BY <1>1, <1>2, <2>1, <2>2
<1> DEFINE x == c * m + r
<1>6. x \in 0 .. mm - 1 /\ o = b * mm + x BY <1>4, <1>5
<1> HIDE DEF x
<1>7. o % mm = x /\ o \div mm = b
  BY <1>2, <1>3, <1>6, Remainder, Zenon
<1>8. x \div m = c /\ x % m = r
  <2>1. c \in Int /\ x = c * m + r BY <1>2 DEF x
  <2> QED BY <1>1, <2>1, Remainder
<1>9. x = c * m + r BY DEF x
<1> QED BY <1>1, <1>2, <1>3, <1>6, <1>7, <1>8, <1>9 DEF a, r, b, c, InSteps

\* The sums of Source.
Moves(G, st, o) ==
  G = [l \in 0 .. Len(st.factors) |->
         IF l = 0 THEN 0
         ELSE G[l - 1] + ((o % Span(st, l - 1)) \div Span(st, l))
                           * (st.nfft \div Span(st, l - 1))]
Offsets(st, o) == CHOOSE G : Moves(G, st, o)
Digit(st, o, l) == (o % Span(st, l - 1)) \div Span(st, l)

LEMMA Digits ==
  ASSUME NEW st, Planned(st), NEW o \in Int, NEW l \in 1 .. Len(st.factors)
  PROVE  /\ Digit(st, o, l) \in 0 .. st.factors[l].p - 1
         /\ Digit(st, o, l) * Ratio(st, l - 1) \in Int
         /\ Digit(st, o, l) = (o \div Span(st, l)) % st.factors[l].p
         /\ o \div Span(st, l - 1) = (o \div Span(st, l)) \div st.factors[l].p
<1> DEFINE p == st.factors[l].p  m == Span(st, l)  mm == Span(st, l - 1)  r == Ratio(st, l - 1)
<1>0. Len(st.factors) \in Nat BY DEF Planned, Chain
<1>1. l \in 0 .. Len(st.factors) /\ l > 0 /\ l - 1 \in 0 .. Len(st.factors) BY <1>0
<1>2. p \in Nat \ {0} /\ m \in Nat \ {0} /\ p * m = mm BY <1>1, Spans
<1>3. r \in Nat \ {0} BY <1>1, Spans
<1> HIDE DEF p, m, mm, r
<1>4. (o \div m) % p \in 0 .. p - 1 /\ (o % mm) \div m = (o \div m) % p
      /\ o \div mm = (o \div m) \div p
  <2>1. p \in Nat \ {0} /\ m \in Nat \ {0} /\ mm \in Nat \ {0} /\ mm = p * m
    BY <1>1, <1>2, Spans DEF mm
  <2>2. InSteps(o, m, p, mm) BY <2>1, Nested
  <2> QED BY <2>2 DEF InSteps
<1> DEFINE d == (o % mm) \div m
<1>5. d \in 0 .. p - 1 BY <1>4
<1> HIDE DEF d
<1>6. d * r \in Int BY <1>2, <1>3, <1>5
<1> QED BY <1>4, <1>5, <1>6 DEF Digit, p, m, mm, r, d

LEMMA OffsetsExist ==
  ASSUME NEW st, Planned(st), NEW o \in Int
  PROVE  /\ Moves(Offsets(st, o), st, o)
         /\ Offsets(st, o)[0] = 0
         /\ \A l \in 1 .. Len(st.factors) :
               Offsets(st, o)[l] = Offsets(st, o)[l - 1] + Digit(st, o, l) * Ratio(st, l - 1)
         /\ Source(st, o) = Offsets(st, o)[Len(st.factors)]
<1> DEFINE L == Len(st.factors)
           t == [l \in Nat |-> IF l \in 1 .. L THEN Digit(st, o, l) * Ratio(st, l - 1) ELSE 0]
           step == [s \in Nat \X Int |-> s[2] + t[s[1] + 1]]
<1>0. L \in Nat \ {0} BY DEF Planned, Chain
<1>1. ASSUME NEW l \in Nat PROVE t[l] \in Int
  <2>1. CASE l \in 1 .. L
    <3>1. Digit(st, o, l) * Ratio(st, l - 1) \in Int BY <2>1, Digits
    <3> QED BY <2>1, <3>1
  <2>2. CASE l \notin 1 .. L BY <2>2
  <2> QED BY <2>1, <2>2
<1>2. step \in Advances(Int)
  <2> HIDE DEF t
  <2>1. ASSUME NEW s \in Nat \X Int PROVE s[2] + t[s[1] + 1] \in Int
    <3>1. s[2] \in Int /\ s[1] + 1 \in Nat OBVIOUS
    <3> QED BY <1>1, <3>1
  <2> QED BY <2>1 DEF Advances
<1>3. PICK g \in [Nat -> Int] : g[0] = 0 /\ \A k \in Nat : g[k + 1] = step[<<k, g[k]>>]
  <2> DEFINE z == 0  S == Int
  <2>1. z \in S OBVIOUS
  <2> HIDE DEF step, z
  <2>0. step \in Advances(S) BY <1>2
  <2> HIDE DEF S
  <2>2. \E g \in [Nat -> S] : g[0] = z /\ \A k \in Nat : g[k + 1] = step[<<k, g[k]>>]
    BY <2>0, <2>1, Recursion
  <2> QED BY <2>2 DEF z, S
<1>4. ASSUME NEW k \in Nat PROVE g[k + 1] = g[k] + t[k + 1]
  <2> HIDE DEF t
  <2>1. g[k] \in Int /\ <<k, g[k]>> \in Nat \X Int BY <1>3
  <2> QED BY <1>3, <2>1, Zenon
<1> DEFINE G == [l \in 0 .. L |-> g[l]]
<1>5. ASSUME NEW l \in 0 .. L
      PROVE  G[l] = IF l = 0 THEN 0
                    ELSE G[l - 1] + ((o % Span(st, l - 1)) \div Span(st, l))
                                      * (st.nfft \div Span(st, l - 1))
  <2>1. CASE l = 0 BY <1>3, <2>1
  <2>2. CASE l # 0
    <3>1. l \in 1 .. L /\ l - 1 \in Nat /\ l - 1 \in 0 .. L /\ (l - 1) + 1 = l /\ l \in Nat
      BY <1>0, <2>2
    <3>2. g[(l - 1) + 1] = g[l - 1] + t[(l - 1) + 1]
      <4> HIDE DEF t
      <4> QED BY <1>4, <3>1, Zenon
    <3>3. t[l] = Digit(st, o, l) * Ratio(st, l - 1) BY <3>1
    <3> HIDE DEF t
    <3> QED BY <2>2, <3>1, <3>2, <3>3 DEF Digit, Ratio
  <2> QED BY <2>1, <2>2
<1>6. Moves(G, st, o)
  <2>1. G = [l \in 0 .. L |-> G[l]] OBVIOUS
  <2> HIDE DEF G
  <2> QED BY <1>5, <2>1, Zenon DEF Moves
<1> DEFINE H == Offsets(st, o)
<1>7. Moves(H, st, o) BY <1>6 DEF Offsets
<1>8. Source(st, o) = H[L] BY DEF Source, Moves, Offsets
<1> HIDE DEF H, G, t, step
<1>9. \A l \in 0 .. L : H[l] = IF l = 0 THEN 0
                    ELSE H[l - 1] + ((o % Span(st, l - 1)) \div Span(st, l))
                                      * (st.nfft \div Span(st, l - 1))
  BY <1>7, Zenon DEF Moves
<1>10. H[0] = 0 BY <1>0, <1>9
<1>11. ASSUME NEW l \in 1 .. L PROVE H[l] = H[l - 1] + Digit(st, o, l) * Ratio(st, l - 1)
  <2>1. l \in 0 .. L /\ l # 0 BY <1>0
  <2> QED BY <1>9, <2>1 DEF Digit, Ratio
<1> QED BY <1>7, <1>8, <1>10, <1>11 DEF H

\* The place in the input of what a block of level l starts with, and that it is the
\* same for all of the block.
LEMMA OffsetRange ==
  ASSUME NEW st, Planned(st), NEW o \in Int, NEW l \in 0 .. Len(st.factors)
  PROVE  Offsets(st, o)[l] \in 0 .. Ratio(st, l) - 1
<1> DEFINE L == Len(st.factors)  H == Offsets(st, o)
           A == {k \in Nat : k <= L => H[k] \in 0 .. Ratio(st, k) - 1}
<1>0. L \in Nat \ {0} BY DEF Planned, Chain
<1>1. 0 \in A
  <2>1. H[0] = 0 BY OffsetsExist
  <2>2. Ratio(st, 0) \in Nat \ {0}
    <3>1. 0 \in 0 .. L BY <1>0
    <3> QED BY <3>1, Spans
  <2> HIDE DEF H
  <2> QED BY <2>1, <2>2
<1>2. ASSUME NEW k \in Nat, k \in A, k + 1 <= L PROVE H[k + 1] \in 0 .. Ratio(st, k + 1) - 1
  <2> DEFINE p == st.factors[k + 1].p  r == Ratio(st, k)  d == Digit(st, o, k + 1)  x == H[k]
  <2>1. k + 1 \in 1 .. L /\ k + 1 \in 0 .. L /\ k + 1 > 0 /\ (k + 1) - 1 = k /\ k \in 0 .. L
    BY <1>0, <1>2
  <2>2. d \in 0 .. p - 1 BY <2>1, Digits
  <2>3. p \in Nat \ {0} /\ Ratio(st, k + 1) = p * r /\ r \in Nat \ {0}
    <3>1. p \in Nat \ {0} /\ Ratio(st, k + 1) = p * Ratio(st, (k + 1) - 1) BY <2>1, Spans
    <3>2. r \in Nat \ {0} BY <2>1, Spans
    <3> QED BY <2>1, <3>1, <3>2
  <2>4. H[k + 1] = x + d * r
    <3>1. H[k + 1] = H[(k + 1) - 1] + d * Ratio(st, (k + 1) - 1) BY <2>1, OffsetsExist
    <3> QED BY <2>1, <3>1
  <2>5. x \in 0 .. r - 1 BY <1>2, <2>1
  <2> HIDE DEF p, r, d, x, H
  <2>6. (p - 1 - d) * r >= 0 /\ d * r \in Nat
    <3>1. p - 1 - d \in Nat BY <2>2, <2>3
    <3>2. (p - 1 - d) * r \in Nat /\ d * r \in Nat BY <2>2, <2>3, <3>1
    <3> QED BY <3>2
  <2>7. (p - 1 - d) * r = p * r - r - d * r /\ p * r \in Nat BY <2>2, <2>3
  <2>8. x + d * r \in 0 .. (p * r) - 1 BY <2>3, <2>5, <2>6, <2>7
  <2> QED BY <2>3, <2>4, <2>8
<1>3. \A k \in Nat : k \in A
  <2>1. \A k \in Nat : k \in A => k + 1 \in A BY <1>2
  <2> HIDE DEF A
  <2> QED BY <1>1, <2>1, Induction
<1>4. l \in Nat /\ l <= L BY <1>0
<1> QED BY <1>3, <1>4

LEMMA OffsetSame ==
  ASSUME NEW st, Planned(st), NEW o \in Int, NEW u \in Int, NEW l \in 0 .. Len(st.factors),
         o \div Span(st, l) = u \div Span(st, l)
  PROVE  Offsets(st, o)[l] = Offsets(st, u)[l]
<1> DEFINE L == Len(st.factors)  H == Offsets(st, o)  G == Offsets(st, u)
           A == {k \in Nat : k <= L /\ o \div Span(st, k) = u \div Span(st, k) => H[k] = G[k]}
<1>0. L \in Nat \ {0} BY DEF Planned, Chain
<1>1. 0 \in A BY OffsetsExist
<1>2. ASSUME NEW k \in Nat, k \in A, k + 1 <= L, o \div Span(st, k + 1) = u \div Span(st, k + 1)
      PROVE  H[k + 1] = G[k + 1]
  <2>1. k + 1 \in 1 .. L /\ (k + 1) - 1 = k BY <1>0, <1>2
  <2>2. /\ H[k + 1] = H[(k + 1) - 1] + Digit(st, o, k + 1) * Ratio(st, (k + 1) - 1)
        /\ G[k + 1] = G[(k + 1) - 1] + Digit(st, u, k + 1) * Ratio(st, (k + 1) - 1)
    BY <2>1, OffsetsExist
  <2>3. Digit(st, o, k + 1) = Digit(st, u, k + 1)
        /\ o \div Span(st, (k + 1) - 1) = u \div Span(st, (k + 1) - 1)
    BY <1>2, <2>1, Digits
  <2>4. H[k] = G[k] BY <1>2, <2>1, <2>3
  <2> HIDE DEF H, G
  <2> QED BY <2>1, <2>2, <2>3, <2>4
<1>3. \A k \in Nat : k \in A
  <2>1. \A k \in Nat : k \in A => k + 1 \in A BY <1>2
  <2> HIDE DEF A
  <2> QED BY <1>1, <2>1, Induction
<1>4. l \in Nat /\ l <= L BY <1>0
<1> QED BY <1>3, <1>4

-----------------------------------------------------------------------------
\* The operations on numbers that are named by their parts.
LEMMA NamedAdd ==
  ASSUME NEW x \in Int, NEW y \in Int, NEW u \in Int, NEW v \in Int, NEW a, NEW b,
         a = Complex(x, y), b = Complex(u, v)
  PROVE  CAdd(a, b) = Complex(x + u, y + v)
BY AddHom
LEMMA NamedSub ==
  ASSUME NEW x \in Int, NEW y \in Int, NEW u \in Int, NEW v \in Int, NEW a, NEW b,
         a = Complex(x, y), b = Complex(u, v)
  PROVE  CSub(a, b) = Complex(x - u, y - v)
BY SubHom
LEMMA NamedConj ==
  ASSUME NEW x \in Int, NEW y \in Int, NEW a, a = Complex(x, y)
  PROVE  Conj(a) = Complex(x, -y)
BY ConjHom
LEMMA NamedTimesI ==
  ASSUME NEW x \in Int, NEW y \in Int, NEW a, a = Complex(x, y)
  PROVE  TimesI(a) = Complex(-y, x)
BY TimesIHom
LEMMA NamedScaled ==
  ASSUME NEW x \in Int, NEW y \in Int, NEW s \in Int, NEW a, a = Complex(x, y)
  PROVE  Scaled(a, s) = Complex(x * s, y * s)
BY ScaledHom

\* The identities behind the butterflies.
LEMMA PairIdentity ==
  ASSUME NEW s \in C, NEW t \in C, NEW er \in Int, NEW ei \in Int, NEW e,
         e = Complex(er, ei)
  PROVE  CAdd(CMul(s, e), CMul(t, Conj(e)))
           = CAdd(Scaled(CAdd(s, t), er), TimesI(Scaled(CSub(s, t), ei)))
<1> DEFINE sr == s.r  si == s.i  tr == t.r  ti == t.i
<1>1. /\ sr \in Int /\ si \in Int /\ s = Complex(sr, si)
      /\ tr \in Int /\ ti \in Int /\ t = Complex(tr, ti)
  BY AsComplex
<1> HIDE DEF sr, si, tr, ti
<1>t. sr \in Int /\ si \in Int /\ tr \in Int /\ ti \in Int BY <1>1
<1>es. s = Complex(sr, si) BY <1>1
<1>et. t = Complex(tr, ti) BY <1>1
<1>ee. e = Complex(er, ei) OBVIOUS
<1>4. CMul(s, e) = Complex(sr * er - si * ei, sr * ei + si * er)
  <2>1. ei \in Int /\ er \in Int /\ si \in Int /\ sr \in Int BY <1>t
  <2> QED BY <1>es, <1>ee, <2>1, MulNamed
<1>5. Conj(e) = Complex(er, -ei)
  <2>1. ei \in Int /\ er \in Int BY <1>t
  <2> QED BY <1>ee, <2>1, NamedConj
<1>6. CMul(t, Conj(e)) = Complex(tr * er - ti * (-ei), tr * (-ei) + ti * er)
  <2>1. (-ei) \in Int /\ er \in Int /\ ti \in Int /\ tr \in Int BY <1>t
  <2> QED BY <1>et, <1>5, <2>1, MulNamed
<1>7. CAdd(CMul(s, e), CMul(t, Conj(e)))
      = Complex((sr * er - si * ei) + (tr * er - ti * (-ei)),
              (sr * ei + si * er) + (tr * (-ei) + ti * er))
  <2>1. (sr * ei + si * er) \in Int /\ (sr * er - si * ei) \in Int /\
      (tr * (-ei) + ti * er) \in Int /\ (tr * er - ti * (-ei)) \in Int
    BY <1>t
  <2> QED BY <1>4, <1>6, <2>1, NamedAdd
<1>8. CAdd(s, t) = Complex(sr + tr, si + ti)
  <2>1. si \in Int /\ sr \in Int /\ ti \in Int /\ tr \in Int BY <1>t
  <2> QED BY <1>es, <1>et, <2>1, NamedAdd
<1>9. Scaled(CAdd(s, t), er) = Complex((sr + tr) * er, (si + ti) * er)
  <2>1. (si + ti) \in Int /\ (sr + tr) \in Int /\ er \in Int BY <1>t
  <2> QED BY <1>8, <2>1, NamedScaled
<1>10. CSub(s, t) = Complex(sr - tr, si - ti)
  <2>1. si \in Int /\ sr \in Int /\ ti \in Int /\ tr \in Int BY <1>t
  <2> QED BY <1>es, <1>et, <2>1, NamedSub
<1>11. Scaled(CSub(s, t), ei) = Complex((sr - tr) * ei, (si - ti) * ei)
  <2>1. (si - ti) \in Int /\ (sr - tr) \in Int /\ ei \in Int BY <1>t
  <2> QED BY <1>10, <2>1, NamedScaled
<1>12. TimesI(Scaled(CSub(s, t), ei)) = Complex(-((si - ti) * ei), (sr - tr) * ei)
  <2>1. ((si - ti) * ei) \in Int /\ ((sr - tr) * ei) \in Int BY <1>t
  <2> QED BY <1>11, <2>1, NamedTimesI
<1>13. CAdd(Scaled(CAdd(s, t), er), TimesI(Scaled(CSub(s, t), ei)))
      = Complex(((sr + tr) * er) + (-((si - ti) * ei)), ((si + ti) * er) + ((sr - tr) * ei))
  <2>1. ((si + ti) * er) \in Int /\ ((sr + tr) * er) \in Int /\ ((sr - tr) * ei) \in Int /\
      (-((si - ti) * ei)) \in Int
    BY <1>t
  <2> QED BY <1>9, <1>12, <2>1, NamedAdd
<1>14. ((sr * er - si * ei) + (tr * er - ti * (-ei))) = (((sr + tr) * er) + (-((si - ti) * ei)))
  BY <1>t
<1>15. ((sr * ei + si * er) + (tr * (-ei) + ti * er)) = (((si + ti) * er) + ((sr - tr) * ei))
  BY <1>t
<1> QED BY <1>7, <1>13, <1>14, <1>15

LEMMA Butterfly2 ==
  ASSUME NEW a \in C, NEW b \in C
  PROVE  CSub(a, b) = CAdd(a, CMul(b, MinusOne))
<1> DEFINE ar == a.r  ai == a.i  br == b.r  bi == b.i
           z == 0  o == 1  n == -1
<1>1. /\ ar \in Int /\ ai \in Int /\ a = Complex(ar, ai)
      /\ br \in Int /\ bi \in Int /\ b = Complex(br, bi)
  BY AsComplex
<1>2. /\ z \in Int /\ o \in Int /\ n \in Int /\ z = 0 /\ o = 1 /\ n = -1
      /\ MinusOne = Complex(n, z) /\ Img = Complex(z, o)
  BY DEF MinusOne, Img
<1> HIDE DEF ar, ai, br, bi, z, o, n
<1>t. ar \in Int /\ ai \in Int /\ br \in Int /\ bi \in Int /\ z \in Int /\ o \in Int /\
    n \in Int
  BY <1>1, <1>2
<1>ea. a = Complex(ar, ai) BY <1>1
<1>eb. b = Complex(br, bi) BY <1>1
<1>eMinusOne. MinusOne = Complex(n, z) BY <1>2
<1>eImg. Img = Complex(z, o) BY <1>2
<1>4. CSub(a, b) = Complex(ar - br, ai - bi)
  <2>1. ai \in Int /\ ar \in Int /\ bi \in Int /\ br \in Int BY <1>t
  <2> QED BY <1>ea, <1>eb, <2>1, NamedSub
<1>5. CMul(b, MinusOne) = Complex(br * n - bi * z, br * z + bi * n)
  <2>1. bi \in Int /\ br \in Int /\ n \in Int /\ z \in Int BY <1>t
  <2> QED BY <1>eb, <1>eMinusOne, <2>1, MulNamed
<1>6. CAdd(a, CMul(b, MinusOne)) = Complex(ar + (br * n - bi * z), ai + (br * z + bi * n))
  <2>1. (br * n - bi * z) \in Int /\ (br * z + bi * n) \in Int /\ ai \in Int /\ ar \in Int
    BY <1>t
  <2> QED BY <1>ea, <1>5, <2>1, NamedAdd
<1>7. (ar - br) = (ar + (br * n - bi * z))
  BY <1>t, <1>2
<1>8. (ai - bi) = (ai + (br * z + bi * n))
  BY <1>t, <1>2
<1> QED BY <1>4, <1>6, <1>7, <1>8

LEMMA Butterfly3Up ==
  ASSUME NEW a \in C, NEW b \in C, NEW u \in C, NEW w \in Int
  PROVE  CAdd(CSub(a, Scaled(b, w)), u) = CAdd(a, CAdd(Scaled(b, -w), u))
<1> DEFINE ar == a.r  ai == a.i  br == b.r  bi == b.i  ur == u.r  ui == u.i
<1>1. /\ ar \in Int /\ ai \in Int /\ a = Complex(ar, ai)
      /\ br \in Int /\ bi \in Int /\ b = Complex(br, bi)
      /\ ur \in Int /\ ui \in Int /\ u = Complex(ur, ui)
  BY AsComplex
<1> HIDE DEF ar, ai, br, bi, ur, ui
<1>t. ar \in Int /\ ai \in Int /\ br \in Int /\ bi \in Int /\ ur \in Int /\ ui \in Int BY <1>1
<1>ea. a = Complex(ar, ai) BY <1>1
<1>eb. b = Complex(br, bi) BY <1>1
<1>eu. u = Complex(ur, ui) BY <1>1
<1>4. Scaled(b, w) = Complex(br * w, bi * w)
  <2>1. bi \in Int /\ br \in Int /\ w \in Int BY <1>t
  <2> QED BY <1>eb, <2>1, NamedScaled
<1>5. CSub(a, Scaled(b, w)) = Complex(ar - (br * w), ai - (bi * w))
  <2>1. (bi * w) \in Int /\ (br * w) \in Int /\ ai \in Int /\ ar \in Int BY <1>t
  <2> QED BY <1>ea, <1>4, <2>1, NamedSub
<1>6. CAdd(CSub(a, Scaled(b, w)), u) = Complex((ar - (br * w)) + ur, (ai - (bi * w)) + ui)
  <2>1. (ai - (bi * w)) \in Int /\ (ar - (br * w)) \in Int /\ ui \in Int /\ ur \in Int BY <1>t
  <2> QED BY <1>5, <1>eu, <2>1, NamedAdd
<1>7. Scaled(b, -w) = Complex(br * (-w), bi * (-w))
  <2>1. -w \in Int /\ bi \in Int /\ br \in Int BY <1>t
  <2> QED BY <1>eb, <2>1, NamedScaled
<1>8. CAdd(Scaled(b, -w), u) = Complex((br * (-w)) + ur, (bi * (-w)) + ui)
  <2>1. (bi * (-w)) \in Int /\ (br * (-w)) \in Int /\ ui \in Int /\ ur \in Int BY <1>t
  <2> QED BY <1>7, <1>eu, <2>1, NamedAdd
<1>9. CAdd(a, CAdd(Scaled(b, -w), u))
      = Complex(ar + ((br * (-w)) + ur), ai + ((bi * (-w)) + ui))
  <2>1. ((bi * (-w)) + ui) \in Int /\ ((br * (-w)) + ur) \in Int /\ ai \in Int /\ ar \in Int
    BY <1>t
  <2> QED BY <1>ea, <1>8, <2>1, NamedAdd
<1>10. ((ar - (br * w)) + ur) = (ar + ((br * (-w)) + ur))
  BY <1>t
<1>11. ((ai - (bi * w)) + ui) = (ai + ((bi * (-w)) + ui))
  BY <1>t
<1> QED BY <1>6, <1>9, <1>10, <1>11

LEMMA Butterfly3Down ==
  ASSUME NEW a \in C, NEW b \in C, NEW d \in C, NEW w \in Int, NEW v \in Int
  PROVE  CSub(CSub(a, Scaled(b, w)), TimesI(Scaled(d, v)))
           = CAdd(a, CAdd(Scaled(b, -w), TimesI(Scaled(d, -v))))
<1> DEFINE ar == a.r  ai == a.i  br == b.r  bi == b.i  dr == d.r  di == d.i
<1>1. /\ ar \in Int /\ ai \in Int /\ a = Complex(ar, ai)
      /\ br \in Int /\ bi \in Int /\ b = Complex(br, bi)
      /\ dr \in Int /\ di \in Int /\ d = Complex(dr, di)
  BY AsComplex
<1> HIDE DEF ar, ai, br, bi, dr, di
<1>t. ar \in Int /\ ai \in Int /\ br \in Int /\ bi \in Int /\ dr \in Int /\ di \in Int BY <1>1
<1>ea. a = Complex(ar, ai) BY <1>1
<1>eb. b = Complex(br, bi) BY <1>1
<1>ed. d = Complex(dr, di) BY <1>1
<1>4. Scaled(b, w) = Complex(br * w, bi * w)
  <2>1. bi \in Int /\ br \in Int /\ w \in Int BY <1>t
  <2> QED BY <1>eb, <2>1, NamedScaled
<1>5. CSub(a, Scaled(b, w)) = Complex(ar - (br * w), ai - (bi * w))
  <2>1. (bi * w) \in Int /\ (br * w) \in Int /\ ai \in Int /\ ar \in Int BY <1>t
  <2> QED BY <1>ea, <1>4, <2>1, NamedSub
<1>6. Scaled(d, v) = Complex(dr * v, di * v)
  <2>1. di \in Int /\ dr \in Int /\ v \in Int BY <1>t
  <2> QED BY <1>ed, <2>1, NamedScaled
<1>7. TimesI(Scaled(d, v)) = Complex(-(di * v), dr * v)
  <2>1. (di * v) \in Int /\ (dr * v) \in Int BY <1>t
  <2> QED BY <1>6, <2>1, NamedTimesI
<1>8. CSub(CSub(a, Scaled(b, w)), TimesI(Scaled(d, v)))
      = Complex((ar - (br * w)) - (-(di * v)), (ai - (bi * w)) - (dr * v))
  <2>1. (-(di * v)) \in Int /\ (ai - (bi * w)) \in Int /\ (ar - (br * w)) \in Int /\
      (dr * v) \in Int
    BY <1>t
  <2> QED BY <1>5, <1>7, <2>1, NamedSub
<1>9. Scaled(b, -w) = Complex(br * (-w), bi * (-w))
  <2>1. -w \in Int /\ bi \in Int /\ br \in Int BY <1>t
  <2> QED BY <1>eb, <2>1, NamedScaled
<1>10. Scaled(d, -v) = Complex(dr * (-v), di * (-v))
  <2>1. -v \in Int /\ di \in Int /\ dr \in Int BY <1>t
  <2> QED BY <1>ed, <2>1, NamedScaled
<1>11. TimesI(Scaled(d, -v)) = Complex(-(di * (-v)), dr * (-v))
  <2>1. (di * (-v)) \in Int /\ (dr * (-v)) \in Int BY <1>t
  <2> QED BY <1>10, <2>1, NamedTimesI
<1>12. CAdd(Scaled(b, -w), TimesI(Scaled(d, -v)))
      = Complex((br * (-w)) + (-(di * (-v))), (bi * (-w)) + (dr * (-v)))
  <2>1. (-(di * (-v))) \in Int /\ (bi * (-w)) \in Int /\ (br * (-w)) \in Int /\
      (dr * (-v)) \in Int
    BY <1>t
  <2> QED BY <1>9, <1>11, <2>1, NamedAdd
<1>13. CAdd(a, CAdd(Scaled(b, -w), TimesI(Scaled(d, -v))))
      = Complex(ar + ((br * (-w)) + (-(di * (-v)))), ai + ((bi * (-w)) + (dr * (-v))))
  <2>1. ((bi * (-w)) + (dr * (-v))) \in Int /\ ((br * (-w)) + (-(di * (-v)))) \in Int /\
      ai \in Int /\ ar \in Int
    BY <1>t
  <2> QED BY <1>ea, <1>12, <2>1, NamedAdd
<1>14. ((ar - (br * w)) - (-(di * v))) = (ar + ((br * (-w)) + (-(di * (-v)))))
  BY <1>t
<1>15. ((ai - (bi * w)) - (dr * v)) = (ai + ((bi * (-w)) + (dr * (-v))))
  BY <1>t
<1> QED BY <1>8, <1>13, <1>14, <1>15

LEMMA Butterfly4First ==
  ASSUME NEW a \in C, NEW b \in C, NEW c \in C, NEW d \in C
  PROVE  CAdd(CAdd(a, c), CAdd(b, d)) = CAdd(CAdd(CAdd(a, b), c), d)
<1> DEFINE ar == a.r  ai == a.i  br == b.r  bi == b.i  cr == c.r  ci == c.i  dr == d.r
           di == d.i
<1>1. /\ ar \in Int /\ ai \in Int /\ a = Complex(ar, ai)
      /\ br \in Int /\ bi \in Int /\ b = Complex(br, bi)
      /\ cr \in Int /\ ci \in Int /\ c = Complex(cr, ci)
      /\ dr \in Int /\ di \in Int /\ d = Complex(dr, di)
  BY AsComplex
<1> HIDE DEF ar, ai, br, bi, cr, ci, dr, di
<1>t. ar \in Int /\ ai \in Int /\ br \in Int /\ bi \in Int /\ cr \in Int /\ ci \in Int /\
    dr \in Int /\ di \in Int
  BY <1>1
<1>ea. a = Complex(ar, ai) BY <1>1
<1>eb. b = Complex(br, bi) BY <1>1
<1>ec. c = Complex(cr, ci) BY <1>1
<1>ed. d = Complex(dr, di) BY <1>1
<1>4. CAdd(a, c) = Complex(ar + cr, ai + ci)
  <2>1. ai \in Int /\ ar \in Int /\ ci \in Int /\ cr \in Int BY <1>t
  <2> QED BY <1>ea, <1>ec, <2>1, NamedAdd
<1>5. CAdd(b, d) = Complex(br + dr, bi + di)
  <2>1. bi \in Int /\ br \in Int /\ di \in Int /\ dr \in Int BY <1>t
  <2> QED BY <1>eb, <1>ed, <2>1, NamedAdd
<1>6. CAdd(CAdd(a, c), CAdd(b, d)) = Complex((ar + cr) + (br + dr), (ai + ci) + (bi + di))
  <2>1. (ai + ci) \in Int /\ (ar + cr) \in Int /\ (bi + di) \in Int /\ (br + dr) \in Int BY <1>t
  <2> QED BY <1>4, <1>5, <2>1, NamedAdd
<1>7. CAdd(a, b) = Complex(ar + br, ai + bi)
  <2>1. ai \in Int /\ ar \in Int /\ bi \in Int /\ br \in Int BY <1>t
  <2> QED BY <1>ea, <1>eb, <2>1, NamedAdd
<1>8. CAdd(CAdd(a, b), c) = Complex((ar + br) + cr, (ai + bi) + ci)
  <2>1. (ai + bi) \in Int /\ (ar + br) \in Int /\ ci \in Int /\ cr \in Int BY <1>t
  <2> QED BY <1>7, <1>ec, <2>1, NamedAdd
<1>9. CAdd(CAdd(CAdd(a, b), c), d) = Complex(((ar + br) + cr) + dr, ((ai + bi) + ci) + di)
  <2>1. ((ai + bi) + ci) \in Int /\ ((ar + br) + cr) \in Int /\ di \in Int /\ dr \in Int BY <1>t
  <2> QED BY <1>8, <1>ed, <2>1, NamedAdd
<1>10. ((ar + cr) + (br + dr)) = (((ar + br) + cr) + dr)
  BY <1>t
<1>11. ((ai + ci) + (bi + di)) = (((ai + bi) + ci) + di)
  BY <1>t
<1> QED BY <1>6, <1>9, <1>10, <1>11

LEMMA Butterfly4Third ==
  ASSUME NEW a \in C, NEW b \in C, NEW c \in C, NEW d \in C
  PROVE  CSub(CAdd(a, c), CAdd(b, d))
           = CAdd(CAdd(CAdd(a, CMul(b, MinusOne)), c), CMul(d, MinusOne))
<1> DEFINE ar == a.r  ai == a.i  br == b.r  bi == b.i  cr == c.r  ci == c.i  dr == d.r
           di == d.i
           z == 0  o == 1  n == -1
<1>1. /\ ar \in Int /\ ai \in Int /\ a = Complex(ar, ai)
      /\ br \in Int /\ bi \in Int /\ b = Complex(br, bi)
      /\ cr \in Int /\ ci \in Int /\ c = Complex(cr, ci)
      /\ dr \in Int /\ di \in Int /\ d = Complex(dr, di)
  BY AsComplex
<1>2. /\ z \in Int /\ o \in Int /\ n \in Int /\ z = 0 /\ o = 1 /\ n = -1
      /\ MinusOne = Complex(n, z) /\ Img = Complex(z, o)
  BY DEF MinusOne, Img
<1> HIDE DEF ar, ai, br, bi, cr, ci, dr, di, z, o, n
<1>t. ar \in Int /\ ai \in Int /\ br \in Int /\ bi \in Int /\ cr \in Int /\ ci \in Int /\
    dr \in Int /\ di \in Int /\ z \in Int /\ o \in Int /\ n \in Int
  BY <1>1, <1>2
<1>ea. a = Complex(ar, ai) BY <1>1
<1>eb. b = Complex(br, bi) BY <1>1
<1>ec. c = Complex(cr, ci) BY <1>1
<1>ed. d = Complex(dr, di) BY <1>1
<1>eMinusOne. MinusOne = Complex(n, z) BY <1>2
<1>eImg. Img = Complex(z, o) BY <1>2
<1>4. CAdd(a, c) = Complex(ar + cr, ai + ci)
  <2>1. ai \in Int /\ ar \in Int /\ ci \in Int /\ cr \in Int BY <1>t
  <2> QED BY <1>ea, <1>ec, <2>1, NamedAdd
<1>5. CAdd(b, d) = Complex(br + dr, bi + di)
  <2>1. bi \in Int /\ br \in Int /\ di \in Int /\ dr \in Int BY <1>t
  <2> QED BY <1>eb, <1>ed, <2>1, NamedAdd
<1>6. CSub(CAdd(a, c), CAdd(b, d)) = Complex((ar + cr) - (br + dr), (ai + ci) - (bi + di))
  <2>1. (ai + ci) \in Int /\ (ar + cr) \in Int /\ (bi + di) \in Int /\ (br + dr) \in Int BY <1>t
  <2> QED BY <1>4, <1>5, <2>1, NamedSub
<1>7. CMul(b, MinusOne) = Complex(br * n - bi * z, br * z + bi * n)
  <2>1. bi \in Int /\ br \in Int /\ n \in Int /\ z \in Int BY <1>t
  <2> QED BY <1>eb, <1>eMinusOne, <2>1, MulNamed
<1>8. CAdd(a, CMul(b, MinusOne)) = Complex(ar + (br * n - bi * z), ai + (br * z + bi * n))
  <2>1. (br * n - bi * z) \in Int /\ (br * z + bi * n) \in Int /\ ai \in Int /\ ar \in Int
    BY <1>t
  <2> QED BY <1>ea, <1>7, <2>1, NamedAdd
<1>9. CAdd(CAdd(a, CMul(b, MinusOne)), c)
      = Complex((ar + (br * n - bi * z)) + cr, (ai + (br * z + bi * n)) + ci)
  <2>1. (ai + (br * z + bi * n)) \in Int /\ (ar + (br * n - bi * z)) \in Int /\ ci \in Int /\
      cr \in Int
    BY <1>t
  <2> QED BY <1>8, <1>ec, <2>1, NamedAdd
<1>10. CMul(d, MinusOne) = Complex(dr * n - di * z, dr * z + di * n)
  <2>1. di \in Int /\ dr \in Int /\ n \in Int /\ z \in Int BY <1>t
  <2> QED BY <1>ed, <1>eMinusOne, <2>1, MulNamed
<1>11. CAdd(CAdd(CAdd(a, CMul(b, MinusOne)), c), CMul(d, MinusOne))
      = Complex(((ar + (br * n - bi * z)) + cr) + (dr * n - di * z),
              ((ai + (br * z + bi * n)) + ci) + (dr * z + di * n))
  <2>1. ((ai + (br * z + bi * n)) + ci) \in Int /\ ((ar + (br * n - bi * z)) + cr) \in Int /\
      (dr * n - di * z) \in Int /\ (dr * z + di * n) \in Int
    BY <1>t
  <2> QED BY <1>9, <1>10, <2>1, NamedAdd
<1>12. ((ar + cr) - (br + dr)) = (((ar + (br * n - bi * z)) + cr) + (dr * n - di * z))
  BY <1>t, <1>2
<1>13. ((ai + ci) - (bi + di)) = (((ai + (br * z + bi * n)) + ci) + (dr * z + di * n))
  BY <1>t, <1>2
<1> QED BY <1>6, <1>11, <1>12, <1>13

LEMMA Butterfly4Right ==
  ASSUME NEW a \in C, NEW b \in C, NEW c \in C, NEW d \in C
  PROVE  CSub(CSub(a, c), TimesI(CSub(b, d)))
           = CAdd(CAdd(CAdd(a, CMul(b, Conj(Img))), CMul(c, MinusOne)), CMul(d, Img))
<1> DEFINE ar == a.r  ai == a.i  br == b.r  bi == b.i  cr == c.r  ci == c.i  dr == d.r
           di == d.i
           z == 0  o == 1  n == -1
<1>1. /\ ar \in Int /\ ai \in Int /\ a = Complex(ar, ai)
      /\ br \in Int /\ bi \in Int /\ b = Complex(br, bi)
      /\ cr \in Int /\ ci \in Int /\ c = Complex(cr, ci)
      /\ dr \in Int /\ di \in Int /\ d = Complex(dr, di)
  BY AsComplex
<1>2. /\ z \in Int /\ o \in Int /\ n \in Int /\ z = 0 /\ o = 1 /\ n = -1
      /\ MinusOne = Complex(n, z) /\ Img = Complex(z, o)
  BY DEF MinusOne, Img
<1> HIDE DEF ar, ai, br, bi, cr, ci, dr, di, z, o, n
<1>t. ar \in Int /\ ai \in Int /\ br \in Int /\ bi \in Int /\ cr \in Int /\ ci \in Int /\
    dr \in Int /\ di \in Int /\ z \in Int /\ o \in Int /\ n \in Int
  BY <1>1, <1>2
<1>ea. a = Complex(ar, ai) BY <1>1
<1>eb. b = Complex(br, bi) BY <1>1
<1>ec. c = Complex(cr, ci) BY <1>1
<1>ed. d = Complex(dr, di) BY <1>1
<1>eMinusOne. MinusOne = Complex(n, z) BY <1>2
<1>eImg. Img = Complex(z, o) BY <1>2
<1>eConj. Conj(Img) = Complex(z, n)
  <2> DEFINE w == -o
  <2>1. z \in Int /\ o \in Int BY <1>t
  <2>2. w \in Int /\ w + o = 0 BY <2>1
  <2>3. Conj(Img) = Complex(z, w) BY <2>1, <1>eImg, NamedConj
  <2> HIDE DEF w
  <2>4. w = n BY <1>2, <2>2
  <2> QED BY <2>3, <2>4
<1>4. CSub(a, c) = Complex(ar - cr, ai - ci)
  <2>1. ai \in Int /\ ar \in Int /\ ci \in Int /\ cr \in Int BY <1>t
  <2> QED BY <1>ea, <1>ec, <2>1, NamedSub
<1>5. CSub(b, d) = Complex(br - dr, bi - di)
  <2>1. bi \in Int /\ br \in Int /\ di \in Int /\ dr \in Int BY <1>t
  <2> QED BY <1>eb, <1>ed, <2>1, NamedSub
<1>6. TimesI(CSub(b, d)) = Complex(-(bi - di), br - dr)
  <2>1. (bi - di) \in Int /\ (br - dr) \in Int BY <1>t
  <2> QED BY <1>5, <2>1, NamedTimesI
<1>7. CSub(CSub(a, c), TimesI(CSub(b, d)))
      = Complex((ar - cr) - (-(bi - di)), (ai - ci) - (br - dr))
  <2>1. (-(bi - di)) \in Int /\ (ai - ci) \in Int /\ (ar - cr) \in Int /\ (br - dr) \in Int
    BY <1>t
  <2> QED BY <1>4, <1>6, <2>1, NamedSub
<1>8. CMul(b, Conj(Img)) = Complex(br * z - bi * n, br * n + bi * z)
  <2>1. bi \in Int /\ br \in Int /\ n \in Int /\ z \in Int BY <1>t
  <2> QED BY <1>eb, <1>eConj, <2>1, MulNamed
<1>9. CAdd(a, CMul(b, Conj(Img))) = Complex(ar + (br * z - bi * n), ai + (br * n + bi * z))
  <2>1. (br * n + bi * z) \in Int /\ (br * z - bi * n) \in Int /\ ai \in Int /\ ar \in Int
    BY <1>t
  <2> QED BY <1>ea, <1>8, <2>1, NamedAdd
<1>10. CMul(c, MinusOne) = Complex(cr * n - ci * z, cr * z + ci * n)
  <2>1. ci \in Int /\ cr \in Int /\ n \in Int /\ z \in Int BY <1>t
  <2> QED BY <1>ec, <1>eMinusOne, <2>1, MulNamed
<1>11. CAdd(CAdd(a, CMul(b, Conj(Img))), CMul(c, MinusOne))
      = Complex((ar + (br * z - bi * n)) + (cr * n - ci * z),
              (ai + (br * n + bi * z)) + (cr * z + ci * n))
  <2>1. (ai + (br * n + bi * z)) \in Int /\ (ar + (br * z - bi * n)) \in Int /\
      (cr * n - ci * z) \in Int /\ (cr * z + ci * n) \in Int
    BY <1>t
  <2> QED BY <1>9, <1>10, <2>1, NamedAdd
<1>12. CMul(d, Img) = Complex(dr * z - di * o, dr * o + di * z)
  <2>1. di \in Int /\ dr \in Int /\ o \in Int /\ z \in Int BY <1>t
  <2> QED BY <1>ed, <1>eImg, <2>1, MulNamed
<1>13. CAdd(CAdd(CAdd(a, CMul(b, Conj(Img))), CMul(c, MinusOne)), CMul(d, Img))
      = Complex(((ar + (br * z - bi * n)) + (cr * n - ci * z)) + (dr * z - di * o),
              ((ai + (br * n + bi * z)) + (cr * z + ci * n)) + (dr * o + di * z))
  <2>1. ((ai + (br * n + bi * z)) + (cr * z + ci * n)) \in Int /\
      ((ar + (br * z - bi * n)) + (cr * n - ci * z)) \in Int /\ (dr * o + di * z) \in Int /\
      (dr * z - di * o) \in Int
    BY <1>t
  <2> QED BY <1>11, <1>12, <2>1, NamedAdd
<1>14. ((ar - cr) - (-(bi - di))) = (((ar + (br * z - bi * n)) + (cr * n - ci * z)) + (dr * z - di * o))
  BY <1>t, <1>2
<1>15. ((ai - ci) - (br - dr)) = (((ai + (br * n + bi * z)) + (cr * z + ci * n)) + (dr * o + di * z))
  BY <1>t, <1>2
<1> QED BY <1>7, <1>13, <1>14, <1>15

LEMMA Butterfly4Left ==
  ASSUME NEW a \in C, NEW b \in C, NEW c \in C, NEW d \in C
  PROVE  CAdd(CSub(a, c), TimesI(CSub(b, d)))
           = CAdd(CAdd(CAdd(a, CMul(b, Img)), CMul(c, MinusOne)), CMul(d, Conj(Img)))
<1> DEFINE ar == a.r  ai == a.i  br == b.r  bi == b.i  cr == c.r  ci == c.i  dr == d.r
           di == d.i
           z == 0  o == 1  n == -1
<1>1. /\ ar \in Int /\ ai \in Int /\ a = Complex(ar, ai)
      /\ br \in Int /\ bi \in Int /\ b = Complex(br, bi)
      /\ cr \in Int /\ ci \in Int /\ c = Complex(cr, ci)
      /\ dr \in Int /\ di \in Int /\ d = Complex(dr, di)
  BY AsComplex
<1>2. /\ z \in Int /\ o \in Int /\ n \in Int /\ z = 0 /\ o = 1 /\ n = -1
      /\ MinusOne = Complex(n, z) /\ Img = Complex(z, o)
  BY DEF MinusOne, Img
<1> HIDE DEF ar, ai, br, bi, cr, ci, dr, di, z, o, n
<1>t. ar \in Int /\ ai \in Int /\ br \in Int /\ bi \in Int /\ cr \in Int /\ ci \in Int /\
    dr \in Int /\ di \in Int /\ z \in Int /\ o \in Int /\ n \in Int
  BY <1>1, <1>2
<1>ea. a = Complex(ar, ai) BY <1>1
<1>eb. b = Complex(br, bi) BY <1>1
<1>ec. c = Complex(cr, ci) BY <1>1
<1>ed. d = Complex(dr, di) BY <1>1
<1>eMinusOne. MinusOne = Complex(n, z) BY <1>2
<1>eImg. Img = Complex(z, o) BY <1>2
<1>eConj. Conj(Img) = Complex(z, n)
  <2> DEFINE w == -o
  <2>1. z \in Int /\ o \in Int BY <1>t
  <2>2. w \in Int /\ w + o = 0 BY <2>1
  <2>3. Conj(Img) = Complex(z, w) BY <2>1, <1>eImg, NamedConj
  <2> HIDE DEF w
  <2>4. w = n BY <1>2, <2>2
  <2> QED BY <2>3, <2>4
<1>4. CSub(a, c) = Complex(ar - cr, ai - ci)
  <2>1. ai \in Int /\ ar \in Int /\ ci \in Int /\ cr \in Int BY <1>t
  <2> QED BY <1>ea, <1>ec, <2>1, NamedSub
<1>5. CSub(b, d) = Complex(br - dr, bi - di)
  <2>1. bi \in Int /\ br \in Int /\ di \in Int /\ dr \in Int BY <1>t
  <2> QED BY <1>eb, <1>ed, <2>1, NamedSub
<1>6. TimesI(CSub(b, d)) = Complex(-(bi - di), br - dr)
  <2>1. (bi - di) \in Int /\ (br - dr) \in Int BY <1>t
  <2> QED BY <1>5, <2>1, NamedTimesI
<1>7. CAdd(CSub(a, c), TimesI(CSub(b, d)))
      = Complex((ar - cr) + (-(bi - di)), (ai - ci) + (br - dr))
  <2>1. (-(bi - di)) \in Int /\ (ai - ci) \in Int /\ (ar - cr) \in Int /\ (br - dr) \in Int
    BY <1>t
  <2> QED BY <1>4, <1>6, <2>1, NamedAdd
<1>8. CMul(b, Img) = Complex(br * z - bi * o, br * o + bi * z)
  <2>1. bi \in Int /\ br \in Int /\ o \in Int /\ z \in Int BY <1>t
  <2> QED BY <1>eb, <1>eImg, <2>1, MulNamed
<1>9. CAdd(a, CMul(b, Img)) = Complex(ar + (br * z - bi * o), ai + (br * o + bi * z))
  <2>1. (br * o + bi * z) \in Int /\ (br * z - bi * o) \in Int /\ ai \in Int /\ ar \in Int
    BY <1>t
  <2> QED BY <1>ea, <1>8, <2>1, NamedAdd
<1>10. CMul(c, MinusOne) = Complex(cr * n - ci * z, cr * z + ci * n)
  <2>1. ci \in Int /\ cr \in Int /\ n \in Int /\ z \in Int BY <1>t
  <2> QED BY <1>ec, <1>eMinusOne, <2>1, MulNamed
<1>11. CAdd(CAdd(a, CMul(b, Img)), CMul(c, MinusOne))
      = Complex((ar + (br * z - bi * o)) + (cr * n - ci * z),
              (ai + (br * o + bi * z)) + (cr * z + ci * n))
  <2>1. (ai + (br * o + bi * z)) \in Int /\ (ar + (br * z - bi * o)) \in Int /\
      (cr * n - ci * z) \in Int /\ (cr * z + ci * n) \in Int
    BY <1>t
  <2> QED BY <1>9, <1>10, <2>1, NamedAdd
<1>12. CMul(d, Conj(Img)) = Complex(dr * z - di * n, dr * n + di * z)
  <2>1. di \in Int /\ dr \in Int /\ n \in Int /\ z \in Int BY <1>t
  <2> QED BY <1>ed, <1>eConj, <2>1, MulNamed
<1>13. CAdd(CAdd(CAdd(a, CMul(b, Img)), CMul(c, MinusOne)), CMul(d, Conj(Img)))
      = Complex(((ar + (br * z - bi * o)) + (cr * n - ci * z)) + (dr * z - di * n),
              ((ai + (br * o + bi * z)) + (cr * z + ci * n)) + (dr * n + di * z))
  <2>1. ((ai + (br * o + bi * z)) + (cr * z + ci * n)) \in Int /\
      ((ar + (br * z - bi * o)) + (cr * n - ci * z)) \in Int /\ (dr * n + di * z) \in Int /\
      (dr * z - di * n) \in Int
    BY <1>t
  <2> QED BY <1>11, <1>12, <2>1, NamedAdd
<1>14. ((ar - cr) + (-(bi - di))) = (((ar + (br * z - bi * o)) + (cr * n - ci * z)) + (dr * z - di * n))
  BY <1>t, <1>2
<1>15. ((ai - ci) + (br - dr)) = (((ai + (br * o + bi * z)) + (cr * z + ci * n)) + (dr * n + di * z))
  BY <1>t, <1>2
<1> QED BY <1>7, <1>13, <1>14, <1>15

LEMMA Fold5 ==
  ASSUME NEW a \in C, NEW b \in C, NEW c \in C, NEW d \in C, NEW e \in C
  PROVE  CAdd(CAdd(CAdd(CAdd(a, b), c), d), e) = CAdd(CAdd(a, CAdd(b, e)), CAdd(c, d))
<1> DEFINE ar == a.r  ai == a.i  br == b.r  bi == b.i  cr == c.r  ci == c.i  dr == d.r
           di == d.i  er == e.r  ei == e.i
<1>1. /\ ar \in Int /\ ai \in Int /\ a = Complex(ar, ai)
      /\ br \in Int /\ bi \in Int /\ b = Complex(br, bi)
      /\ cr \in Int /\ ci \in Int /\ c = Complex(cr, ci)
      /\ dr \in Int /\ di \in Int /\ d = Complex(dr, di)
      /\ er \in Int /\ ei \in Int /\ e = Complex(er, ei)
  BY AsComplex
<1> HIDE DEF ar, ai, br, bi, cr, ci, dr, di, er, ei
<1>t. ar \in Int /\ ai \in Int /\ br \in Int /\ bi \in Int /\ cr \in Int /\ ci \in Int /\
    dr \in Int /\ di \in Int /\ er \in Int /\ ei \in Int
  BY <1>1
<1>ea. a = Complex(ar, ai) BY <1>1
<1>eb. b = Complex(br, bi) BY <1>1
<1>ec. c = Complex(cr, ci) BY <1>1
<1>ed. d = Complex(dr, di) BY <1>1
<1>ee. e = Complex(er, ei) BY <1>1
<1>4. CAdd(a, b) = Complex(ar + br, ai + bi)
  <2>1. ai \in Int /\ ar \in Int /\ bi \in Int /\ br \in Int BY <1>t
  <2> QED BY <1>ea, <1>eb, <2>1, NamedAdd
<1>5. CAdd(CAdd(a, b), c) = Complex((ar + br) + cr, (ai + bi) + ci)
  <2>1. (ai + bi) \in Int /\ (ar + br) \in Int /\ ci \in Int /\ cr \in Int BY <1>t
  <2> QED BY <1>4, <1>ec, <2>1, NamedAdd
<1>6. CAdd(CAdd(CAdd(a, b), c), d) = Complex(((ar + br) + cr) + dr, ((ai + bi) + ci) + di)
  <2>1. ((ai + bi) + ci) \in Int /\ ((ar + br) + cr) \in Int /\ di \in Int /\ dr \in Int BY <1>t
  <2> QED BY <1>5, <1>ed, <2>1, NamedAdd
<1>7. CAdd(CAdd(CAdd(CAdd(a, b), c), d), e)
      = Complex((((ar + br) + cr) + dr) + er, (((ai + bi) + ci) + di) + ei)
  <2>1. (((ai + bi) + ci) + di) \in Int /\ (((ar + br) + cr) + dr) \in Int /\ ei \in Int /\
      er \in Int
    BY <1>t
  <2> QED BY <1>6, <1>ee, <2>1, NamedAdd
<1>8. CAdd(b, e) = Complex(br + er, bi + ei)
  <2>1. bi \in Int /\ br \in Int /\ ei \in Int /\ er \in Int BY <1>t
  <2> QED BY <1>eb, <1>ee, <2>1, NamedAdd
<1>9. CAdd(a, CAdd(b, e)) = Complex(ar + (br + er), ai + (bi + ei))
  <2>1. (bi + ei) \in Int /\ (br + er) \in Int /\ ai \in Int /\ ar \in Int BY <1>t
  <2> QED BY <1>ea, <1>8, <2>1, NamedAdd
<1>10. CAdd(c, d) = Complex(cr + dr, ci + di)
  <2>1. ci \in Int /\ cr \in Int /\ di \in Int /\ dr \in Int BY <1>t
  <2> QED BY <1>ec, <1>ed, <2>1, NamedAdd
<1>11. CAdd(CAdd(a, CAdd(b, e)), CAdd(c, d))
      = Complex((ar + (br + er)) + (cr + dr), (ai + (bi + ei)) + (ci + di))
  <2>1. (ai + (bi + ei)) \in Int /\ (ar + (br + er)) \in Int /\ (ci + di) \in Int /\
      (cr + dr) \in Int
    BY <1>t
  <2> QED BY <1>9, <1>10, <2>1, NamedAdd
<1>12. ((((ar + br) + cr) + dr) + er) = ((ar + (br + er)) + (cr + dr))
  BY <1>t
<1>13. ((((ai + bi) + ci) + di) + ei) = ((ai + (bi + ei)) + (ci + di))
  BY <1>t
<1> QED BY <1>7, <1>11, <1>12, <1>13

LEMMA Butterfly5Second ==
  ASSUME NEW a \in C, NEW b \in C, NEW c \in C, NEW x \in C, NEW y \in C, NEW p \in Int,
         NEW q \in Int
  PROVE  CSub(CAdd(a, CAdd(b, c)), TimesI(CAdd(Scaled(x, -p), Scaled(y, -q))))
           = CAdd(CAdd(a, CAdd(b, TimesI(Scaled(x, p)))), CAdd(c, TimesI(Scaled(y, q))))
<1> DEFINE ar == a.r  ai == a.i  br == b.r  bi == b.i  cr == c.r  ci == c.i  xr == x.r
           xi == x.i  yr == y.r  yi == y.i
<1>1. /\ ar \in Int /\ ai \in Int /\ a = Complex(ar, ai)
      /\ br \in Int /\ bi \in Int /\ b = Complex(br, bi)
      /\ cr \in Int /\ ci \in Int /\ c = Complex(cr, ci)
      /\ xr \in Int /\ xi \in Int /\ x = Complex(xr, xi)
      /\ yr \in Int /\ yi \in Int /\ y = Complex(yr, yi)
  BY AsComplex
<1> HIDE DEF ar, ai, br, bi, cr, ci, xr, xi, yr, yi
<1>t. ar \in Int /\ ai \in Int /\ br \in Int /\ bi \in Int /\ cr \in Int /\ ci \in Int /\
    xr \in Int /\ xi \in Int /\ yr \in Int /\ yi \in Int
  BY <1>1
<1>ea. a = Complex(ar, ai) BY <1>1
<1>eb. b = Complex(br, bi) BY <1>1
<1>ec. c = Complex(cr, ci) BY <1>1
<1>ex. x = Complex(xr, xi) BY <1>1
<1>ey. y = Complex(yr, yi) BY <1>1
<1>4. CAdd(b, c) = Complex(br + cr, bi + ci)
  <2>1. bi \in Int /\ br \in Int /\ ci \in Int /\ cr \in Int BY <1>t
  <2> QED BY <1>eb, <1>ec, <2>1, NamedAdd
<1>5. CAdd(a, CAdd(b, c)) = Complex(ar + (br + cr), ai + (bi + ci))
  <2>1. (bi + ci) \in Int /\ (br + cr) \in Int /\ ai \in Int /\ ar \in Int BY <1>t
  <2> QED BY <1>ea, <1>4, <2>1, NamedAdd
<1>6. Scaled(x, -p) = Complex(xr * (-p), xi * (-p))
  <2>1. -p \in Int /\ xi \in Int /\ xr \in Int BY <1>t
  <2> QED BY <1>ex, <2>1, NamedScaled
<1>7. Scaled(y, -q) = Complex(yr * (-q), yi * (-q))
  <2>1. -q \in Int /\ yi \in Int /\ yr \in Int BY <1>t
  <2> QED BY <1>ey, <2>1, NamedScaled
<1>8. CAdd(Scaled(x, -p), Scaled(y, -q))
      = Complex((xr * (-p)) + (yr * (-q)), (xi * (-p)) + (yi * (-q)))
  <2>1. (xi * (-p)) \in Int /\ (xr * (-p)) \in Int /\ (yi * (-q)) \in Int /\ (yr * (-q)) \in Int
    BY <1>t
  <2> QED BY <1>6, <1>7, <2>1, NamedAdd
<1>9. TimesI(CAdd(Scaled(x, -p), Scaled(y, -q)))
      = Complex(-((xi * (-p)) + (yi * (-q))), (xr * (-p)) + (yr * (-q)))
  <2>1. ((xi * (-p)) + (yi * (-q))) \in Int /\ ((xr * (-p)) + (yr * (-q))) \in Int BY <1>t
  <2> QED BY <1>8, <2>1, NamedTimesI
<1>10. CSub(CAdd(a, CAdd(b, c)), TimesI(CAdd(Scaled(x, -p), Scaled(y, -q))))
      = Complex((ar + (br + cr)) - (-((xi * (-p)) + (yi * (-q)))),
              (ai + (bi + ci)) - ((xr * (-p)) + (yr * (-q))))
  <2>1. ((xr * (-p)) + (yr * (-q))) \in Int /\ (-((xi * (-p)) + (yi * (-q)))) \in Int /\
      (ai + (bi + ci)) \in Int /\ (ar + (br + cr)) \in Int
    BY <1>t
  <2> QED BY <1>5, <1>9, <2>1, NamedSub
<1>11. Scaled(x, p) = Complex(xr * p, xi * p)
  <2>1. p \in Int /\ xi \in Int /\ xr \in Int BY <1>t
  <2> QED BY <1>ex, <2>1, NamedScaled
<1>12. TimesI(Scaled(x, p)) = Complex(-(xi * p), xr * p)
  <2>1. (xi * p) \in Int /\ (xr * p) \in Int BY <1>t
  <2> QED BY <1>11, <2>1, NamedTimesI
<1>13. CAdd(b, TimesI(Scaled(x, p))) = Complex(br + (-(xi * p)), bi + (xr * p))
  <2>1. (-(xi * p)) \in Int /\ (xr * p) \in Int /\ bi \in Int /\ br \in Int BY <1>t
  <2> QED BY <1>eb, <1>12, <2>1, NamedAdd
<1>14. CAdd(a, CAdd(b, TimesI(Scaled(x, p))))
      = Complex(ar + (br + (-(xi * p))), ai + (bi + (xr * p)))
  <2>1. (bi + (xr * p)) \in Int /\ (br + (-(xi * p))) \in Int /\ ai \in Int /\ ar \in Int
    BY <1>t
  <2> QED BY <1>ea, <1>13, <2>1, NamedAdd
<1>15. Scaled(y, q) = Complex(yr * q, yi * q)
  <2>1. q \in Int /\ yi \in Int /\ yr \in Int BY <1>t
  <2> QED BY <1>ey, <2>1, NamedScaled
<1>16. TimesI(Scaled(y, q)) = Complex(-(yi * q), yr * q)
  <2>1. (yi * q) \in Int /\ (yr * q) \in Int BY <1>t
  <2> QED BY <1>15, <2>1, NamedTimesI
<1>17. CAdd(c, TimesI(Scaled(y, q))) = Complex(cr + (-(yi * q)), ci + (yr * q))
  <2>1. (-(yi * q)) \in Int /\ (yr * q) \in Int /\ ci \in Int /\ cr \in Int BY <1>t
  <2> QED BY <1>ec, <1>16, <2>1, NamedAdd
<1>18. CAdd(CAdd(a, CAdd(b, TimesI(Scaled(x, p)))), CAdd(c, TimesI(Scaled(y, q))))
      = Complex((ar + (br + (-(xi * p)))) + (cr + (-(yi * q))),
              (ai + (bi + (xr * p))) + (ci + (yr * q)))
  <2>1. (ai + (bi + (xr * p))) \in Int /\ (ar + (br + (-(xi * p)))) \in Int /\
      (ci + (yr * q)) \in Int /\ (cr + (-(yi * q))) \in Int
    BY <1>t
  <2> QED BY <1>14, <1>17, <2>1, NamedAdd
<1>19. ((ar + (br + cr)) - (-((xi * (-p)) + (yi * (-q)))))
      = ((ar + (br + (-(xi * p)))) + (cr + (-(yi * q))))
  BY <1>t
<1>20. ((ai + (bi + ci)) - ((xr * (-p)) + (yr * (-q))))
      = ((ai + (bi + (xr * p))) + (ci + (yr * q)))
  BY <1>t
<1> QED BY <1>10, <1>18, <1>19, <1>20

LEMMA Butterfly5Fifth ==
  ASSUME NEW a \in C, NEW b \in C, NEW c \in C, NEW x \in C, NEW y \in C, NEW p \in Int,
         NEW q \in Int
  PROVE  CAdd(CAdd(a, CAdd(b, c)), TimesI(CAdd(Scaled(x, -p), Scaled(y, -q))))
           = CAdd(CAdd(a, CAdd(b, TimesI(Scaled(x, -p)))), CAdd(c, TimesI(Scaled(y, -q))))
<1> DEFINE ar == a.r  ai == a.i  br == b.r  bi == b.i  cr == c.r  ci == c.i  xr == x.r
           xi == x.i  yr == y.r  yi == y.i
<1>1. /\ ar \in Int /\ ai \in Int /\ a = Complex(ar, ai)
      /\ br \in Int /\ bi \in Int /\ b = Complex(br, bi)
      /\ cr \in Int /\ ci \in Int /\ c = Complex(cr, ci)
      /\ xr \in Int /\ xi \in Int /\ x = Complex(xr, xi)
      /\ yr \in Int /\ yi \in Int /\ y = Complex(yr, yi)
  BY AsComplex
<1> HIDE DEF ar, ai, br, bi, cr, ci, xr, xi, yr, yi
<1>t. ar \in Int /\ ai \in Int /\ br \in Int /\ bi \in Int /\ cr \in Int /\ ci \in Int /\
    xr \in Int /\ xi \in Int /\ yr \in Int /\ yi \in Int
  BY <1>1
<1>ea. a = Complex(ar, ai) BY <1>1
<1>eb. b = Complex(br, bi) BY <1>1
<1>ec. c = Complex(cr, ci) BY <1>1
<1>ex. x = Complex(xr, xi) BY <1>1
<1>ey. y = Complex(yr, yi) BY <1>1
<1>4. CAdd(b, c) = Complex(br + cr, bi + ci)
  <2>1. bi \in Int /\ br \in Int /\ ci \in Int /\ cr \in Int BY <1>t
  <2> QED BY <1>eb, <1>ec, <2>1, NamedAdd
<1>5. CAdd(a, CAdd(b, c)) = Complex(ar + (br + cr), ai + (bi + ci))
  <2>1. (bi + ci) \in Int /\ (br + cr) \in Int /\ ai \in Int /\ ar \in Int BY <1>t
  <2> QED BY <1>ea, <1>4, <2>1, NamedAdd
<1>6. Scaled(x, -p) = Complex(xr * (-p), xi * (-p))
  <2>1. -p \in Int /\ xi \in Int /\ xr \in Int BY <1>t
  <2> QED BY <1>ex, <2>1, NamedScaled
<1>7. Scaled(y, -q) = Complex(yr * (-q), yi * (-q))
  <2>1. -q \in Int /\ yi \in Int /\ yr \in Int BY <1>t
  <2> QED BY <1>ey, <2>1, NamedScaled
<1>8. CAdd(Scaled(x, -p), Scaled(y, -q))
      = Complex((xr * (-p)) + (yr * (-q)), (xi * (-p)) + (yi * (-q)))
  <2>1. (xi * (-p)) \in Int /\ (xr * (-p)) \in Int /\ (yi * (-q)) \in Int /\ (yr * (-q)) \in Int
    BY <1>t
  <2> QED BY <1>6, <1>7, <2>1, NamedAdd
<1>9. TimesI(CAdd(Scaled(x, -p), Scaled(y, -q)))
      = Complex(-((xi * (-p)) + (yi * (-q))), (xr * (-p)) + (yr * (-q)))
  <2>1. ((xi * (-p)) + (yi * (-q))) \in Int /\ ((xr * (-p)) + (yr * (-q))) \in Int BY <1>t
  <2> QED BY <1>8, <2>1, NamedTimesI
<1>10. CAdd(CAdd(a, CAdd(b, c)), TimesI(CAdd(Scaled(x, -p), Scaled(y, -q))))
      = Complex((ar + (br + cr)) + (-((xi * (-p)) + (yi * (-q)))),
              (ai + (bi + ci)) + ((xr * (-p)) + (yr * (-q))))
  <2>1. ((xr * (-p)) + (yr * (-q))) \in Int /\ (-((xi * (-p)) + (yi * (-q)))) \in Int /\
      (ai + (bi + ci)) \in Int /\ (ar + (br + cr)) \in Int
    BY <1>t
  <2> QED BY <1>5, <1>9, <2>1, NamedAdd
<1>11. TimesI(Scaled(x, -p)) = Complex(-(xi * (-p)), xr * (-p))
  <2>1. (xi * (-p)) \in Int /\ (xr * (-p)) \in Int BY <1>t
  <2> QED BY <1>6, <2>1, NamedTimesI
<1>12. CAdd(b, TimesI(Scaled(x, -p))) = Complex(br + (-(xi * (-p))), bi + (xr * (-p)))
  <2>1. (-(xi * (-p))) \in Int /\ (xr * (-p)) \in Int /\ bi \in Int /\ br \in Int BY <1>t
  <2> QED BY <1>eb, <1>11, <2>1, NamedAdd
<1>13. CAdd(a, CAdd(b, TimesI(Scaled(x, -p))))
      = Complex(ar + (br + (-(xi * (-p)))), ai + (bi + (xr * (-p))))
  <2>1. (bi + (xr * (-p))) \in Int /\ (br + (-(xi * (-p)))) \in Int /\ ai \in Int /\ ar \in Int
    BY <1>t
  <2> QED BY <1>ea, <1>12, <2>1, NamedAdd
<1>14. TimesI(Scaled(y, -q)) = Complex(-(yi * (-q)), yr * (-q))
  <2>1. (yi * (-q)) \in Int /\ (yr * (-q)) \in Int BY <1>t
  <2> QED BY <1>7, <2>1, NamedTimesI
<1>15. CAdd(c, TimesI(Scaled(y, -q))) = Complex(cr + (-(yi * (-q))), ci + (yr * (-q)))
  <2>1. (-(yi * (-q))) \in Int /\ (yr * (-q)) \in Int /\ ci \in Int /\ cr \in Int BY <1>t
  <2> QED BY <1>ec, <1>14, <2>1, NamedAdd
<1>16. CAdd(CAdd(a, CAdd(b, TimesI(Scaled(x, -p)))), CAdd(c, TimesI(Scaled(y, -q))))
      = Complex((ar + (br + (-(xi * (-p))))) + (cr + (-(yi * (-q)))),
              (ai + (bi + (xr * (-p)))) + (ci + (yr * (-q))))
  <2>1. (ai + (bi + (xr * (-p)))) \in Int /\ (ar + (br + (-(xi * (-p))))) \in Int /\
      (ci + (yr * (-q))) \in Int /\ (cr + (-(yi * (-q)))) \in Int
    BY <1>t
  <2> QED BY <1>13, <1>15, <2>1, NamedAdd
<1>17. ((ar + (br + cr)) + (-((xi * (-p)) + (yi * (-q)))))
      = ((ar + (br + (-(xi * (-p))))) + (cr + (-(yi * (-q)))))
  BY <1>t
<1>18. ((ai + (bi + ci)) + ((xr * (-p)) + (yr * (-q))))
      = ((ai + (bi + (xr * (-p)))) + (ci + (yr * (-q))))
  BY <1>t
<1> QED BY <1>10, <1>16, <1>17, <1>18

LEMMA Butterfly5Third ==
  ASSUME NEW a \in C, NEW b \in C, NEW c \in C, NEW x \in C, NEW y \in C, NEW p \in Int,
         NEW q \in Int
  PROVE  CAdd(CAdd(a, CAdd(b, c)), TimesI(CSub(Scaled(x, q), Scaled(y, p))))
           = CAdd(CAdd(a, CAdd(b, TimesI(Scaled(x, q)))), CAdd(c, TimesI(Scaled(y, -p))))
<1> DEFINE ar == a.r  ai == a.i  br == b.r  bi == b.i  cr == c.r  ci == c.i  xr == x.r
           xi == x.i  yr == y.r  yi == y.i
<1>1. /\ ar \in Int /\ ai \in Int /\ a = Complex(ar, ai)
      /\ br \in Int /\ bi \in Int /\ b = Complex(br, bi)
      /\ cr \in Int /\ ci \in Int /\ c = Complex(cr, ci)
      /\ xr \in Int /\ xi \in Int /\ x = Complex(xr, xi)
      /\ yr \in Int /\ yi \in Int /\ y = Complex(yr, yi)
  BY AsComplex
<1> HIDE DEF ar, ai, br, bi, cr, ci, xr, xi, yr, yi
<1>t. ar \in Int /\ ai \in Int /\ br \in Int /\ bi \in Int /\ cr \in Int /\ ci \in Int /\
    xr \in Int /\ xi \in Int /\ yr \in Int /\ yi \in Int
  BY <1>1
<1>ea. a = Complex(ar, ai) BY <1>1
<1>eb. b = Complex(br, bi) BY <1>1
<1>ec. c = Complex(cr, ci) BY <1>1
<1>ex. x = Complex(xr, xi) BY <1>1
<1>ey. y = Complex(yr, yi) BY <1>1
<1>4. CAdd(b, c) = Complex(br + cr, bi + ci)
  <2>1. bi \in Int /\ br \in Int /\ ci \in Int /\ cr \in Int BY <1>t
  <2> QED BY <1>eb, <1>ec, <2>1, NamedAdd
<1>5. CAdd(a, CAdd(b, c)) = Complex(ar + (br + cr), ai + (bi + ci))
  <2>1. (bi + ci) \in Int /\ (br + cr) \in Int /\ ai \in Int /\ ar \in Int BY <1>t
  <2> QED BY <1>ea, <1>4, <2>1, NamedAdd
<1>6. Scaled(x, q) = Complex(xr * q, xi * q)
  <2>1. q \in Int /\ xi \in Int /\ xr \in Int BY <1>t
  <2> QED BY <1>ex, <2>1, NamedScaled
<1>7. Scaled(y, p) = Complex(yr * p, yi * p)
  <2>1. p \in Int /\ yi \in Int /\ yr \in Int BY <1>t
  <2> QED BY <1>ey, <2>1, NamedScaled
<1>8. CSub(Scaled(x, q), Scaled(y, p)) = Complex((xr * q) - (yr * p), (xi * q) - (yi * p))
  <2>1. (xi * q) \in Int /\ (xr * q) \in Int /\ (yi * p) \in Int /\ (yr * p) \in Int BY <1>t
  <2> QED BY <1>6, <1>7, <2>1, NamedSub
<1>9. TimesI(CSub(Scaled(x, q), Scaled(y, p)))
      = Complex(-((xi * q) - (yi * p)), (xr * q) - (yr * p))
  <2>1. ((xi * q) - (yi * p)) \in Int /\ ((xr * q) - (yr * p)) \in Int BY <1>t
  <2> QED BY <1>8, <2>1, NamedTimesI
<1>10. CAdd(CAdd(a, CAdd(b, c)), TimesI(CSub(Scaled(x, q), Scaled(y, p))))
      = Complex((ar + (br + cr)) + (-((xi * q) - (yi * p))),
              (ai + (bi + ci)) + ((xr * q) - (yr * p)))
  <2>1. ((xr * q) - (yr * p)) \in Int /\ (-((xi * q) - (yi * p))) \in Int /\
      (ai + (bi + ci)) \in Int /\ (ar + (br + cr)) \in Int
    BY <1>t
  <2> QED BY <1>5, <1>9, <2>1, NamedAdd
<1>11. TimesI(Scaled(x, q)) = Complex(-(xi * q), xr * q)
  <2>1. (xi * q) \in Int /\ (xr * q) \in Int BY <1>t
  <2> QED BY <1>6, <2>1, NamedTimesI
<1>12. CAdd(b, TimesI(Scaled(x, q))) = Complex(br + (-(xi * q)), bi + (xr * q))
  <2>1. (-(xi * q)) \in Int /\ (xr * q) \in Int /\ bi \in Int /\ br \in Int BY <1>t
  <2> QED BY <1>eb, <1>11, <2>1, NamedAdd
<1>13. CAdd(a, CAdd(b, TimesI(Scaled(x, q))))
      = Complex(ar + (br + (-(xi * q))), ai + (bi + (xr * q)))
  <2>1. (bi + (xr * q)) \in Int /\ (br + (-(xi * q))) \in Int /\ ai \in Int /\ ar \in Int
    BY <1>t
  <2> QED BY <1>ea, <1>12, <2>1, NamedAdd
<1>14. Scaled(y, -p) = Complex(yr * (-p), yi * (-p))
  <2>1. -p \in Int /\ yi \in Int /\ yr \in Int BY <1>t
  <2> QED BY <1>ey, <2>1, NamedScaled
<1>15. TimesI(Scaled(y, -p)) = Complex(-(yi * (-p)), yr * (-p))
  <2>1. (yi * (-p)) \in Int /\ (yr * (-p)) \in Int BY <1>t
  <2> QED BY <1>14, <2>1, NamedTimesI
<1>16. CAdd(c, TimesI(Scaled(y, -p))) = Complex(cr + (-(yi * (-p))), ci + (yr * (-p)))
  <2>1. (-(yi * (-p))) \in Int /\ (yr * (-p)) \in Int /\ ci \in Int /\ cr \in Int BY <1>t
  <2> QED BY <1>ec, <1>15, <2>1, NamedAdd
<1>17. CAdd(CAdd(a, CAdd(b, TimesI(Scaled(x, q)))), CAdd(c, TimesI(Scaled(y, -p))))
      = Complex((ar + (br + (-(xi * q)))) + (cr + (-(yi * (-p)))),
              (ai + (bi + (xr * q))) + (ci + (yr * (-p))))
  <2>1. (ai + (bi + (xr * q))) \in Int /\ (ar + (br + (-(xi * q)))) \in Int /\
      (ci + (yr * (-p))) \in Int /\ (cr + (-(yi * (-p)))) \in Int
    BY <1>t
  <2> QED BY <1>13, <1>16, <2>1, NamedAdd
<1>18. ((ar + (br + cr)) + (-((xi * q) - (yi * p))))
      = ((ar + (br + (-(xi * q)))) + (cr + (-(yi * (-p)))))
  BY <1>t
<1>19. ((ai + (bi + ci)) + ((xr * q) - (yr * p)))
      = ((ai + (bi + (xr * q))) + (ci + (yr * (-p))))
  BY <1>t
<1> QED BY <1>10, <1>17, <1>18, <1>19

LEMMA Butterfly5Fourth ==
  ASSUME NEW a \in C, NEW b \in C, NEW c \in C, NEW x \in C, NEW y \in C, NEW p \in Int,
         NEW q \in Int
  PROVE  CSub(CAdd(a, CAdd(b, c)), TimesI(CSub(Scaled(x, q), Scaled(y, p))))
           = CAdd(CAdd(a, CAdd(b, TimesI(Scaled(x, -q)))), CAdd(c, TimesI(Scaled(y, p))))
<1> DEFINE ar == a.r  ai == a.i  br == b.r  bi == b.i  cr == c.r  ci == c.i  xr == x.r
           xi == x.i  yr == y.r  yi == y.i
<1>1. /\ ar \in Int /\ ai \in Int /\ a = Complex(ar, ai)
      /\ br \in Int /\ bi \in Int /\ b = Complex(br, bi)
      /\ cr \in Int /\ ci \in Int /\ c = Complex(cr, ci)
      /\ xr \in Int /\ xi \in Int /\ x = Complex(xr, xi)
      /\ yr \in Int /\ yi \in Int /\ y = Complex(yr, yi)
  BY AsComplex
<1> HIDE DEF ar, ai, br, bi, cr, ci, xr, xi, yr, yi
<1>t. ar \in Int /\ ai \in Int /\ br \in Int /\ bi \in Int /\ cr \in Int /\ ci \in Int /\
    xr \in Int /\ xi \in Int /\ yr \in Int /\ yi \in Int
  BY <1>1
<1>ea. a = Complex(ar, ai) BY <1>1
<1>eb. b = Complex(br, bi) BY <1>1
<1>ec. c = Complex(cr, ci) BY <1>1
<1>ex. x = Complex(xr, xi) BY <1>1
<1>ey. y = Complex(yr, yi) BY <1>1
<1>4. CAdd(b, c) = Complex(br + cr, bi + ci)
  <2>1. bi \in Int /\ br \in Int /\ ci \in Int /\ cr \in Int BY <1>t
  <2> QED BY <1>eb, <1>ec, <2>1, NamedAdd
<1>5. CAdd(a, CAdd(b, c)) = Complex(ar + (br + cr), ai + (bi + ci))
  <2>1. (bi + ci) \in Int /\ (br + cr) \in Int /\ ai \in Int /\ ar \in Int BY <1>t
  <2> QED BY <1>ea, <1>4, <2>1, NamedAdd
<1>6. Scaled(x, q) = Complex(xr * q, xi * q)
  <2>1. q \in Int /\ xi \in Int /\ xr \in Int BY <1>t
  <2> QED BY <1>ex, <2>1, NamedScaled
<1>7. Scaled(y, p) = Complex(yr * p, yi * p)
  <2>1. p \in Int /\ yi \in Int /\ yr \in Int BY <1>t
  <2> QED BY <1>ey, <2>1, NamedScaled
<1>8. CSub(Scaled(x, q), Scaled(y, p)) = Complex((xr * q) - (yr * p), (xi * q) - (yi * p))
  <2>1. (xi * q) \in Int /\ (xr * q) \in Int /\ (yi * p) \in Int /\ (yr * p) \in Int BY <1>t
  <2> QED BY <1>6, <1>7, <2>1, NamedSub
<1>9. TimesI(CSub(Scaled(x, q), Scaled(y, p)))
      = Complex(-((xi * q) - (yi * p)), (xr * q) - (yr * p))
  <2>1. ((xi * q) - (yi * p)) \in Int /\ ((xr * q) - (yr * p)) \in Int BY <1>t
  <2> QED BY <1>8, <2>1, NamedTimesI
<1>10. CSub(CAdd(a, CAdd(b, c)), TimesI(CSub(Scaled(x, q), Scaled(y, p))))
      = Complex((ar + (br + cr)) - (-((xi * q) - (yi * p))),
              (ai + (bi + ci)) - ((xr * q) - (yr * p)))
  <2>1. ((xr * q) - (yr * p)) \in Int /\ (-((xi * q) - (yi * p))) \in Int /\
      (ai + (bi + ci)) \in Int /\ (ar + (br + cr)) \in Int
    BY <1>t
  <2> QED BY <1>5, <1>9, <2>1, NamedSub
<1>11. Scaled(x, -q) = Complex(xr * (-q), xi * (-q))
  <2>1. -q \in Int /\ xi \in Int /\ xr \in Int BY <1>t
  <2> QED BY <1>ex, <2>1, NamedScaled
<1>12. TimesI(Scaled(x, -q)) = Complex(-(xi * (-q)), xr * (-q))
  <2>1. (xi * (-q)) \in Int /\ (xr * (-q)) \in Int BY <1>t
  <2> QED BY <1>11, <2>1, NamedTimesI
<1>13. CAdd(b, TimesI(Scaled(x, -q))) = Complex(br + (-(xi * (-q))), bi + (xr * (-q)))
  <2>1. (-(xi * (-q))) \in Int /\ (xr * (-q)) \in Int /\ bi \in Int /\ br \in Int BY <1>t
  <2> QED BY <1>eb, <1>12, <2>1, NamedAdd
<1>14. CAdd(a, CAdd(b, TimesI(Scaled(x, -q))))
      = Complex(ar + (br + (-(xi * (-q)))), ai + (bi + (xr * (-q))))
  <2>1. (bi + (xr * (-q))) \in Int /\ (br + (-(xi * (-q)))) \in Int /\ ai \in Int /\ ar \in Int
    BY <1>t
  <2> QED BY <1>ea, <1>13, <2>1, NamedAdd
<1>15. TimesI(Scaled(y, p)) = Complex(-(yi * p), yr * p)
  <2>1. (yi * p) \in Int /\ (yr * p) \in Int BY <1>t
  <2> QED BY <1>7, <2>1, NamedTimesI
<1>16. CAdd(c, TimesI(Scaled(y, p))) = Complex(cr + (-(yi * p)), ci + (yr * p))
  <2>1. (-(yi * p)) \in Int /\ (yr * p) \in Int /\ ci \in Int /\ cr \in Int BY <1>t
  <2> QED BY <1>ec, <1>15, <2>1, NamedAdd
<1>17. CAdd(CAdd(a, CAdd(b, TimesI(Scaled(x, -q)))), CAdd(c, TimesI(Scaled(y, p))))
      = Complex((ar + (br + (-(xi * (-q))))) + (cr + (-(yi * p))),
              (ai + (bi + (xr * (-q)))) + (ci + (yr * p)))
  <2>1. (ai + (bi + (xr * (-q)))) \in Int /\ (ar + (br + (-(xi * (-q))))) \in Int /\
      (ci + (yr * p)) \in Int /\ (cr + (-(yi * p))) \in Int
    BY <1>t
  <2> QED BY <1>14, <1>16, <2>1, NamedAdd
<1>18. ((ar + (br + cr)) - (-((xi * q) - (yi * p))))
      = ((ar + (br + (-(xi * (-q))))) + (cr + (-(yi * p))))
  BY <1>t
<1>19. ((ai + (bi + ci)) - ((xr * q) - (yr * p)))
      = ((ai + (bi + (xr * (-q)))) + (ci + (yr * p)))
  BY <1>t
<1> QED BY <1>10, <1>17, <1>18, <1>19

-----------------------------------------------------------------------------
\* The twiddles of a plan, continued round the circle.
Turned(st, i) == kf_cexp(Sense(st) * i, st.nfft)

LEMMA TurnedLaws ==
  ASSUME NEW st, Planned(st), NEW i \in Int, NEW j \in Int
  PROVE  /\ Turned(st, i) \in C
         /\ Turned(st, i + j) = CMul(Turned(st, i), Turned(st, j))
         /\ Turned(st, i + j * st.nfft) = Turned(st, i)
         /\ Turned(st, -i) = Conj(Turned(st, i))
         /\ Turned(st, 0) = One
<1> DEFINE g == Sense(st)  n == st.nfft
<1>1. g \in Int /\ n \in Orders /\ n \in Int BY Senses DEF Planned
<1> HIDE DEF g, n
<1>2. g * i \in Int /\ g * j \in Int BY <1>1
<1>3. kf_cexp(g * i, n) \in C BY <1>1, <1>2, RootType
<1>4. kf_cexp(g * (i + j), n) = CMul(kf_cexp(g * i, n), kf_cexp(g * j, n))
  <2>1. g * (i + j) = g * i + g * j BY <1>1
  <2> QED BY <1>1, <1>2, <2>1, RootAdd, Zenon
<1>5. kf_cexp(g * (i + j * n), n) = kf_cexp(g * i, n)
  <2>1. g * (i + j * n) = g * i + (g * j) * n BY <1>1
  <2> DEFINE x == g * i  y == g * j
  <2>2. x \in Int /\ y \in Int BY <1>2
  <2> HIDE DEF x, y
  <2>3. kf_cexp(x + y * n, n) = kf_cexp(x, n) BY <1>1, <2>2, RootRound
  <2> QED BY <2>1, <2>3 DEF x, y
<1>6. kf_cexp(g * (-i), n) = Conj(kf_cexp(g * i, n))
  <2>1. g * (-i) = -(g * i) BY <1>1
  <2> QED BY <1>1, <1>2, <2>1, RootBack
<1>7. kf_cexp(g * 0, n) = One
  <2>1. g * 0 = 0 BY <1>1
  <2> QED BY <1>1, <2>1, RootZero
<1> QED BY <1>3, <1>4, <1>5, <1>6, <1>7 DEF Turned, g, n

LEMMA TurnedTwiddle ==
  ASSUME NEW st, Planned(st), NEW i \in 0 .. st.nfft - 1
  PROVE  st.twiddles[i] = Turned(st, i)
BY DEF Planned, Turned

\* Column u of a block of p times m values, and the sum that its output is to be.
Column(st, a, fs, m, p, u) ==
  /\ Planned(st) /\ fs \in Nat \ {0} /\ m \in Nat \ {0} /\ p \in Nat \ {0}
  /\ (p * m) * fs = st.nfft /\ u \in 0 .. m - 1 /\ Terms(a, p)
Wanted(st, a, fs, p, k) ==
  CSum([q \in 0 .. p - 1 |-> CMul(a[q], Turned(st, (k * q) * fs))], p)
Twisted(st, a, fs, u) ==
  [q \in Nat |-> IF q = 0 THEN a[0] ELSE CMul(a[q], st.twiddles[q * u * fs])]

LEMMA ColumnIndex ==
  ASSUME NEW st, NEW a, NEW fs, NEW m, NEW p, NEW u, Column(st, a, fs, m, p, u),
         NEW q \in 0 .. p - 1
  PROVE  /\ (q * u) * fs \in 0 .. st.nfft - 1
         /\ u + q * m \in 0 .. (p * m) - 1
         /\ fs * (u + q * m) \in 0 .. st.nfft - 1
         /\ p * m \in Nat
<1> DEFINE n == st.nfft
<1>0. fs \in Nat \ {0} /\ m \in Nat \ {0} /\ p \in Nat \ {0} /\ u \in 0 .. m - 1 /\
    (p * m) * fs = n
  BY DEF Column
<1> HIDE DEF n
<1>1. p * m \in Nat /\ q * u \in Nat /\ q * m \in Nat /\ u + q * m \in Nat BY <1>0
<1>2. q * u <= p * m - 1
  <2>1. (p - 1 - q) * u \in Nat
    <3>1. p - 1 - q \in Nat BY <1>0
    <3> QED BY <1>0, <3>1
  <2>2. (p - 1) * (m - 1 - u) \in Nat
    <3>1. m - 1 - u \in Nat /\ p - 1 \in Nat BY <1>0
    <3> QED BY <3>1
  <2>3. (p - 1 - q) * u = p * u - u - q * u BY <1>0
  <2>4. (p - 1) * (m - 1 - u) = p * m - p - p * u - m + 1 + u BY <1>0
  <2>5. p * u \in Nat BY <1>0
  <2> QED BY <1>0, <1>1, <2>1, <2>2, <2>3, <2>4, <2>5
<1>3. u + q * m <= p * m - 1
  <2>1. (p - 1 - q) * m \in Nat
    <3>1. p - 1 - q \in Nat BY <1>0
    <3> QED BY <1>0, <3>1
  <2>2. (p - 1 - q) * m = p * m - m - q * m BY <1>0
  <2> QED BY <1>0, <1>1, <2>1, <2>2
<1>4. ASSUME NEW x \in Nat, x <= p * m - 1 PROVE x * fs \in 0 .. n - 1 /\ fs * x \in 0 .. n - 1
  <2> DEFINE b == p * m
  <2>1. b \in Nat /\ x <= b - 1 /\ b * fs = n BY <1>0, <1>1, <1>4
  <2> HIDE DEF b
  <2>2. (b - 1 - x) * fs \in Nat
    <3>1. b - 1 - x \in Nat BY <2>1
    <3> QED BY <1>0, <3>1
  <2>3. (b - 1 - x) * fs = b * fs - fs - x * fs /\ x * fs \in Nat /\ fs * x = x * fs /\
      b * fs \in Nat
    BY <1>0, <2>1
  <2> QED BY <1>0, <2>1, <2>2, <2>3
<1>5. (q * u) * fs \in 0 .. n - 1 BY <1>1, <1>2, <1>4
<1>6. fs * (u + q * m) \in 0 .. n - 1
  <2> DEFINE x == u + q * m
  <2>1. x \in Nat /\ x <= p * m - 1 BY <1>1, <1>3
  <2> HIDE DEF x
  <2>2. fs * x \in 0 .. n - 1 BY <1>4, <2>1
  <2> QED BY <2>2 DEF x
<1> QED BY <1>1, <1>3, <1>5, <1>6 DEF n

LEMMA TwistedTerms ==
  ASSUME NEW st, NEW a, NEW fs, NEW m, NEW p, NEW u, Column(st, a, fs, m, p, u),
         NEW q \in 0 .. p - 1, NEW k \in 0 .. p - 1
  PROVE  LET t == Twisted(st, a, fs, u)
             e == Turned(st, (k * q) * (fs * m))
         IN  /\ t[q] \in C /\ e \in C
             /\ CMul(a[q], Turned(st, ((u + k * m) * q) * fs)) = CMul(t[q], e)
<1> DEFINE t == Twisted(st, a, fs, u)  i == (q * u) * fs  j == (k * q) * (fs * m)
<1>0. /\ fs \in Nat \ {0} /\ m \in Nat \ {0} /\ p \in Nat \ {0} /\ u \in 0 .. m - 1
      /\ Planned(st) /\ a[q] \in C /\ q \in Nat /\ k \in Nat
  BY DEF Column, Terms
<1>1. i \in 0 .. st.nfft - 1 /\ i \in Int
  <2>1. st.nfft \in Nat BY <1>0, Senses
  <2> QED BY <2>1, ColumnIndex
<1>2. t[q] = CMul(a[q], Turned(st, i))
  <2>1. CASE q = 0
    <3>1. i = 0 BY <1>0, <2>1
    <3>2. Turned(st, 0) = One BY <1>0, TurnedLaws
    <3>3. CMul(a[q], One) = a[q] BY <1>0, MulRing
    <3>4. t[q] = a[q] BY <1>0, <2>1 DEF Twisted
    <3> QED BY <3>1, <3>2, <3>3, <3>4
  <2>2. CASE q # 0
    <3>1. st.twiddles[i] = Turned(st, i) BY <1>0, <1>1, TurnedTwiddle
    <3>2. t[q] = CMul(a[q], st.twiddles[q * u * fs]) BY <1>0, <2>2 DEF Twisted
    <3> QED BY <3>1, <3>2
  <2> QED BY <2>1, <2>2
<1>3. j \in Int BY <1>0
<1>4. ((u + k * m) * q) * fs = i + j
  <2>1. (u + k * m) * q = q * u + (k * q) * m BY <1>0
  <2>2. (q * u + (k * q) * m) * fs = (q * u) * fs + ((k * q) * m) * fs BY <1>0
  <2>3. ((k * q) * m) * fs = (k * q) * (fs * m) BY <1>0
  <2> QED BY <2>1, <2>2, <2>3
<1> HIDE DEF i, j, t
<1>5. Turned(st, i) \in C /\ Turned(st, j) \in C /\
    Turned(st, i + j) = CMul(Turned(st, i), Turned(st, j))
  BY <1>0, <1>1, <1>3, TurnedLaws
<1>6. CMul(CMul(a[q], Turned(st, i)), Turned(st, j)) = CMul(a[q], CMul(Turned(st, i), Turned(st, j)))
  BY <1>0, <1>5, MulRing
<1>7. t[q] \in C BY <1>0, <1>2, <1>5, Closed, Zenon
<1> QED BY <1>2, <1>4, <1>5, <1>6, <1>7 DEF j, t

LEMMA WantedTwisted ==
  ASSUME NEW st, NEW a, NEW fs, NEW m, NEW p, NEW u, Column(st, a, fs, m, p, u),
         NEW k \in 0 .. p - 1
  PROVE  LET f == [q \in 0 .. p - 1 |->
                      CMul(Twisted(st, a, fs, u)[q], Turned(st, (k * q) * (fs * m)))]
         IN  Wanted(st, a, fs, p, u + k * m) = CSum(f, p) /\ Terms(f, p)
<1> DEFINE f == [q \in 0 .. p - 1 |->
                    CMul(Twisted(st, a, fs, u)[q], Turned(st, (k * q) * (fs * m)))]
           g == [q \in 0 .. p - 1 |-> CMul(a[q], Turned(st, ((u + k * m) * q) * fs))]
<1>1. ASSUME NEW q \in 0 .. p - 1 PROVE f[q] = g[q] /\ f[q] \in C
  <2> DEFINE t == Twisted(st, a, fs, u)[q]  e == Turned(st, (k * q) * (fs * m))
             x == CMul(a[q], Turned(st, ((u + k * m) * q) * fs))
  <2>1. t \in C /\ e \in C /\ x = CMul(t, e) BY TwistedTerms
  <2>2. f[q] = CMul(t, e) /\ g[q] = x OBVIOUS
  <2> HIDE DEF f, g, t, e, x
  <2> QED BY <2>1, <2>2, Closed
<1>2. f = g BY <1>1
<1>3. Terms(f, p) BY <1>1 DEF Terms
<1> QED BY <1>2, <1>3, Zenon DEF Wanted

-----------------------------------------------------------------------------
\* The radix that has no butterfly of its own.
Walk(G, n, s, p) ==
  G = [q \in 0 .. p - 1 |->
         IF q = 0 THEN 0
         ELSE LET t == G[q - 1] + s IN IF t >= n THEN t - n ELSE t]

LEMMA ModAdd ==
  ASSUME NEW n \in Nat \ {0}, NEW x \in Int, NEW s \in 0 .. n - 1
  PROVE  (x + s) % n = IF (x % n) + s >= n THEN (x % n) + s - n ELSE (x % n) + s
<1> DEFINE r == x % n  b == x \div n
<1>1. r \in 0 .. n - 1 /\ b \in Int /\ x = b * n + r BY Division
<1> HIDE DEF r, b
<1>2. CASE r + s >= n
  <2> DEFINE v == r + s - n
  <2>1. v \in 0 .. n - 1 BY <1>1, <1>2
  <2>2. x + s = (b + 1) * n + v /\ b + 1 \in Int
    <3>1. (b + 1) * n = b * n + n /\ b * n \in Int BY <1>1
    <3> QED BY <1>1, <3>1
  <2> HIDE DEF v
  <2>3. (x + s) % n = v BY <2>1, <2>2, Remainder
  <2> QED BY <1>2, <2>3 DEF v, r
<1>3. CASE ~(r + s >= n)
  <2> DEFINE v == r + s
  <2>1. v \in 0 .. n - 1 BY <1>1, <1>3
  <2>2. x + s = b * n + v
    <3>1. b * n \in Int BY <1>1
    <3> QED BY <1>1, <3>1
  <2> HIDE DEF v
  <2>3. (x + s) % n = v BY <1>1, <2>1, <2>2, Remainder
  <2> QED BY <1>3, <2>3 DEF v, r
<1> QED BY <1>2, <1>3

LEMMA WalkOf ==
  ASSUME NEW n \in Nat \ {0}, NEW s \in 0 .. n - 1, NEW p \in Nat \ {0}
  PROVE  \A q \in 0 .. p - 1 : (CHOOSE G : Walk(G, n, s, p))[q] = (s * q) % n
<1> DEFINE F == [q \in 0 .. p - 1 |-> (s * q) % n]  H == CHOOSE G : Walk(G, n, s, p)
<1>1. ASSUME NEW q \in 0 .. p - 1, q # 0
      PROVE  (s * q) % n = IF ((s * (q - 1)) % n) + s >= n THEN ((s * (q - 1)) % n) + s - n
                           ELSE ((s * (q - 1)) % n) + s
  <2> DEFINE x == s * (q - 1)
  <2>1. x \in Int /\ s * q = x + s BY SMT
  <2> HIDE DEF x
  <2>2. (x + s) % n = IF (x % n) + s >= n THEN (x % n) + s - n ELSE (x % n) + s
    BY <2>1, ModAdd, Zenon
  <2> QED BY <2>1, <2>2 DEF x
<1>2. (s * 0) % n = 0
  <2>1. s * 0 = 0 /\ 0 % n = 0 BY SMT
  <2> QED BY <2>1
<1>3. ASSUME NEW q \in 0 .. p - 1
      PROVE  F[q] = IF q = 0 THEN 0
                    ELSE LET t == F[q - 1] + s IN IF t >= n THEN t - n ELSE t
  <2>1. CASE q = 0 BY <1>2, <2>1
  <2>2. CASE q # 0
    <3>1. q - 1 \in 0 .. p - 1 BY <2>2
    <3>2. F[q] = (s * q) % n /\ F[q - 1] = (s * (q - 1)) % n BY <3>1
    <3> HIDE DEF F
    <3> QED BY <1>1, <2>2, <3>2
  <2> QED BY <2>1, <2>2
<1>4. Walk(F, n, s, p)
  <2>1. F = [q \in 0 .. p - 1 |-> F[q]] OBVIOUS
  <2> HIDE DEF F
  <2> QED BY <1>3, <2>1, Zenon DEF Walk
<1>5. Walk(H, n, s, p) BY <1>4
<1> HIDE DEF H
<1>6. \A q \in 0 .. p - 1 :
        H[q] = IF q = 0 THEN 0
               ELSE LET t == H[q - 1] + s IN IF t >= n THEN t - n ELSE t
  BY <1>5, Zenon DEF Walk
<1> HIDE DEF F
<1> DEFINE A == {q \in Nat : q <= p - 1 => H[q] = F[q]}
<1>7. 0 \in A
  <2>1. 0 \in 0 .. p - 1 OBVIOUS
  <2> QED BY <1>3, <1>6, <2>1
<1>8. ASSUME NEW q \in Nat, q \in A PROVE q + 1 \in A
  <2> SUFFICES ASSUME q + 1 <= p - 1 PROVE H[q + 1] = F[q + 1] OBVIOUS
  <2>1. q + 1 \in 0 .. p - 1 /\ q + 1 # 0 /\ (q + 1) - 1 = q OBVIOUS
  <2>2. H[q] = F[q] BY <1>8
  <2> QED BY <1>3, <1>6, <2>1, <2>2
<1>9. \A q \in Nat : q \in A
  <2> HIDE DEF A
  <2> QED BY <1>7, <1>8, Induction
<1>10. \A q \in 0 .. p - 1 : q \in Nat /\ q <= p - 1 OBVIOUS
<1>11. \A q \in 0 .. p - 1 : H[q] = F[q] BY <1>9, <1>10
<1> QED BY <1>11 DEF F, H

LEMMA GenericButterfly ==
  ASSUME NEW st, NEW a, NEW fs, NEW m, NEW p, NEW u, Column(st, a, fs, m, p, u),
         NEW k \in 0 .. p - 1
  PROVE  BflyGeneric(a, st, fs, m, p, u)[k + 1] = Wanted(st, a, fs, p, u + k * m)
<1> DEFINE n == st.nfft  j == u + k * m  s == fs * j
           at == CHOOSE G : Walk(G, n, s, p)
           f == [q \in 0 .. p - 1 |-> IF q = 0 THEN a[0] ELSE CMul(a[q], st.twiddles[at[q]])]
           g == [q \in 0 .. p - 1 |-> CMul(a[q], Turned(st, (j * q) * fs))]
<1>0. /\ fs \in Nat \ {0} /\ m \in Nat \ {0} /\ p \in Nat \ {0} /\ Planned(st) /\ Terms(a, p)
      /\ n \in Nat \ {0}
  BY Senses DEF Column
<1>1. s \in 0 .. n - 1 /\ j \in Nat BY <1>0, ColumnIndex
<1>2. BflyGeneric(a, st, fs, m, p, u)[k + 1] = CSum(f, p)
  <2> DEFINE V(x) == CSum([q \in 0 .. p - 1 |->
                              IF q = 0 THEN a[0]
                              ELSE CMul(a[q], st.twiddles[(CHOOSE G : Walk(G, n, fs * x, p))[q]])], p)
  <2>1. BflyGeneric(a, st, fs, m, p, u) = [q1 \in 1 .. p |-> V(u + (q1 - 1) * m)]
    BY DEF BflyGeneric, Walk
  <2>2. CSum(f, p) = V(j) OBVIOUS
  <2>3. k + 1 \in 1 .. p /\ (k + 1) - 1 = k BY <1>0
  <2> HIDE DEF V, f
  <2> QED BY <2>1, <2>2, <2>3
<1>3. ASSUME NEW q \in 0 .. p - 1 PROVE f[q] = g[q]
  <2>1. q \in Nat /\ a[q] \in C BY <1>0 DEF Terms
  <2>2. at[q] = (s * q) % n
    <3> HIDE DEF s, n
    <3> QED BY <1>0, <1>1, WalkOf, Zenon
  <2> DEFINE i == (j * q) * fs
  <2>3. i = s * q /\ i \in Int
    <3>1. (j * q) * fs = (fs * j) * q
      <4> HIDE DEF j
      <4> QED BY <1>0, <1>1, <2>1
    <3>2. s * q \in Int BY <1>0, <1>1, <2>1
    <3> QED BY <3>1, <3>2
  <2>4. st.twiddles[at[q]] = Turned(st, i)
    <3> DEFINE r == i % n  b == i \div n
    <3>1. r \in 0 .. n - 1 /\ b \in Int /\ i = b * n + r
      <4> HIDE DEF i, n
      <4> QED BY <1>0, <2>3, Division, Zenon
    <3>2. at[q] = r BY <2>2, <2>3
    <3> HIDE DEF r, b, at, i
    <3>3. st.twiddles[r] = Turned(st, r) BY <1>0, <3>1, TurnedTwiddle
    <3>4. r \in Int /\ r + b * n = i BY <1>0, <3>1
    <3>5. Turned(st, r + b * n) = Turned(st, r) BY <1>0, <3>1, <3>4, TurnedLaws, Zenon
    <3> QED BY <3>2, <3>3, <3>4, <3>5
  <2>5. CASE q = 0
    <3>1. i = 0
      <4>1. j * 0 = 0 /\ 0 * fs = 0 BY <1>0, <1>1
      <4> QED BY <2>5, <4>1
    <3>2. Turned(st, 0) = One BY <1>0, TurnedLaws
    <3>3. CMul(a[q], One) = a[q] BY <2>1, MulRing
    <3>4. f[q] = a[q] /\ g[q] = CMul(a[q], Turned(st, i)) BY <2>5
    <3> HIDE DEF f, g, i
    <3> QED BY <3>1, <3>2, <3>3, <3>4
  <2>6. CASE q # 0
    <3>1. f[q] = CMul(a[q], st.twiddles[at[q]]) /\ g[q] = CMul(a[q], Turned(st, i)) BY <2>6
    <3> HIDE DEF f, g, i, at
    <3> QED BY <2>4, <3>1
  <2> QED BY <2>5, <2>6
<1>4. f = g
  <2>1. f = [q \in 0 .. p - 1 |-> f[q]] /\ g = [q \in 0 .. p - 1 |-> g[q]] OBVIOUS
  <2> HIDE DEF f, g
  <2> QED BY <1>3, <2>1
<1> QED BY <1>2, <1>4, Zenon DEF Wanted

-----------------------------------------------------------------------------
\* The radices that have a butterfly of their own.
LEMMA SumOfFew ==
  ASSUME NEW f, NEW p \in Nat, Terms(f, p)
  PROVE  /\ p = 2 => CSum(f, p) = CAdd(f[0], f[1])
         /\ p = 3 => CSum(f, p) = CAdd(CAdd(f[0], f[1]), f[2])
         /\ p = 4 => CSum(f, p) = CAdd(CAdd(CAdd(f[0], f[1]), f[2]), f[3])
         /\ p = 5 => CSum(f, p) = CAdd(CAdd(CAdd(CAdd(f[0], f[1]), f[2]), f[3]), f[4])
<1>1. ASSUME NEW k \in 1 .. 5, k <= p PROVE Terms(f, k) BY <1>1 DEF Terms
<1>2. ASSUME NEW k \in 1 .. 4, k + 1 <= p PROVE CSum(f, k + 1) = CAdd(CSum(f, k), f[k])
  <2>1. k \in Nat /\ k + 1 \in 1 .. 5 OBVIOUS
  <2>2. Terms(f, k + 1) BY <1>1, <1>2, <2>1
  <2> QED BY <2>1, <2>2, SumNext
<1>3. p >= 1 => CSum(f, 1) = f[0]
  <2> SUFFICES ASSUME p >= 1 PROVE CSum(f, 1) = f[0] OBVIOUS
  <2>1. f[0] \in C BY DEF Terms
  <2> QED BY <2>1, SumOne
<1>4. p >= 2 => CSum(f, 2) = CAdd(CSum(f, 1), f[1])
  <2>1. 1 \in 1 .. 4 /\ 1 + 1 = 2 OBVIOUS
  <2> QED BY <1>2, <2>1
<1>5. p >= 3 => CSum(f, 3) = CAdd(CSum(f, 2), f[2])
  <2>1. 2 \in 1 .. 4 /\ 2 + 1 = 3 OBVIOUS
  <2> QED BY <1>2, <2>1
<1>6. p >= 4 => CSum(f, 4) = CAdd(CSum(f, 3), f[3])
  <2>1. 3 \in 1 .. 4 /\ 3 + 1 = 4 OBVIOUS
  <2> QED BY <1>2, <2>1
<1>7. p >= 5 => CSum(f, 5) = CAdd(CSum(f, 4), f[4])
  <2>1. 4 \in 1 .. 4 /\ 4 + 1 = 5 OBVIOUS
  <2> QED BY <1>2, <2>1
<1> QED BY <1>3, <1>4, <1>5, <1>6, <1>7

\* The p-th parts of a turn that column sums meet.
Arc(st, g, x) == Turned(st, x * g)

LEMMA PartLaws ==
  ASSUME NEW st, Planned(st), NEW p \in Nat \ {0}, NEW g \in Nat \ {0}, p * g = st.nfft,
         NEW x \in Int, NEW y \in Int
  PROVE  /\ Arc(st, g, x) \in C /\ Arc(st, g, 0) = One
         /\ Arc(st, g, x + y) = CMul(Arc(st, g, x), Arc(st, g, y))
         /\ Arc(st, g, x + y * p) = Arc(st, g, x)
         /\ Arc(st, g, -x) = Conj(Arc(st, g, x))
         /\ Arc(st, g, x) = kf_cexp(Sense(st) * x, p) /\ p \in Orders
<1> DEFINE n == st.nfft  s == Sense(st)
<1>0. n \in Nat \ {0} /\ s \in Int /\ n \in Orders BY Senses DEF Planned
<1>1. x * g \in Int /\ y * g \in Int OBVIOUS
<1>2. (x + y) * g = x * g + y * g /\ (-x) * g = -(x * g) /\ 0 * g = 0 OBVIOUS
<1>3. (x + y * p) * g = x * g + y * n
  <2>1. (x + y * p) * g = x * g + y * (p * g) OBVIOUS
  <2> QED BY <2>1
<1>4. s * (x * g) = (s * x) * g /\ s * x \in Int BY <1>0
<1> HIDE DEF n, s
<1>5. kf_cexp((s * x) * g, p * g) = kf_cexp(s * x, p) /\ p \in Orders
  <2> DEFINE z == s * x
  <2>1. z \in Int /\ p * g \in Orders BY <1>0, <1>4 DEF n
  <2> HIDE DEF z
  <2>2. kf_cexp(z * g, p * g) = kf_cexp(z, p) /\ p \in Orders BY <2>1, RootSub
  <2> QED BY <2>2 DEF z
<1>6. Turned(st, x * g) = kf_cexp(s * x, p)
  BY <1>4, <1>5 DEF Turned, s
<1> DEFINE v == x * g  w == y * g
<1>7. v \in Int /\ w \in Int BY <1>1
<1> HIDE DEF v, w
<1>8. /\ Turned(st, v) \in C /\ Turned(st, 0) = One
      /\ Turned(st, v + w) = CMul(Turned(st, v), Turned(st, w))
      /\ Turned(st, -v) = Conj(Turned(st, v))
  BY <1>7, TurnedLaws
<1>9. Turned(st, v + y * st.nfft) = Turned(st, v) BY <1>7, TurnedLaws, Zenon
<1> QED BY <1>2, <1>3, <1>5, <1>6, <1>8, <1>9 DEF Arc, v, w, n, s

LEMMA ColumnSums ==
  ASSUME NEW st, NEW a, NEW fs, NEW m, NEW p, NEW u, Column(st, a, fs, m, p, u),
         NEW k \in 0 .. p - 1
  PROVE  LET T == Twisted(st, a, fs, u)
             S(x) == Arc(st, fs * m, x)
             w == Wanted(st, a, fs, p, u + k * m)
         IN  /\ \A q \in 0 .. p - 1 : T[q] \in C
             /\ p = 2 => w = CAdd(T[0], CMul(T[1], S(k)))
             /\ p = 3 => w = CAdd(CAdd(T[0], CMul(T[1], S(k))), CMul(T[2], S(k * 2)))
             /\ p = 4 => w = CAdd(CAdd(CAdd(T[0], CMul(T[1], S(k))), CMul(T[2], S(k * 2))),
                                  CMul(T[3], S(k * 3)))
             /\ p = 5 => w = CAdd(CAdd(CAdd(CAdd(T[0], CMul(T[1], S(k))),
                                            CMul(T[2], S(k * 2))),
                                       CMul(T[3], S(k * 3))), CMul(T[4], S(k * 4)))
<1> DEFINE T == Twisted(st, a, fs, u)  w == Wanted(st, a, fs, p, u + k * m)
           f == [q \in 0 .. p - 1 |-> CMul(T[q], Turned(st, (k * q) * (fs * m)))]
           S(x) == Arc(st, fs * m, x)
<1>0. p \in Nat \ {0} /\ k \in Int /\ fs \in Nat \ {0} /\ m \in Nat \ {0} BY DEF Column
<1>1. w = CSum(f, p) /\ Terms(f, p) BY WantedTwisted
<1>2. ASSUME NEW q \in 0 .. p - 1 PROVE T[q] \in C /\ f[q] = CMul(T[q], S(k * q))
  <2>1. T[q] \in C BY TwistedTerms
  <2> QED BY <2>1 DEF Arc
<1>3. f[0] = T[0]
  <2>1. 0 \in 0 .. p - 1 /\ k * 0 = 0 BY <1>0
  <2>2. S(0) = One
    <3>1. 0 * (fs * m) = 0 BY <1>0
    <3>2. Turned(st, 0) = One BY TurnedLaws DEF Column
    <3> QED BY <3>1, <3>2 DEF Arc
  <2>3. f[0] = CMul(T[0], S(0)) /\ T[0] \in C BY <1>2, <2>1
  <2> HIDE DEF f, S, T
  <2>4. CMul(T[0], One) = T[0] BY <2>3, MulRing
  <2> QED BY <2>2, <2>3, <2>4
<1>4. k * 1 = k BY <1>0
<1> HIDE DEF f, S, T, w
<1>5. /\ p = 2 => w = CAdd(f[0], f[1])
      /\ p = 3 => w = CAdd(CAdd(f[0], f[1]), f[2])
      /\ p = 4 => w = CAdd(CAdd(CAdd(f[0], f[1]), f[2]), f[3])
      /\ p = 5 => w = CAdd(CAdd(CAdd(CAdd(f[0], f[1]), f[2]), f[3]), f[4])
  BY <1>0, <1>1, SumOfFew
<1>6. /\ p >= 2 => f[1] = CMul(T[1], S(k))
      /\ p >= 3 => f[2] = CMul(T[2], S(k * 2))
      /\ p >= 4 => f[3] = CMul(T[3], S(k * 3))
      /\ p >= 5 => f[4] = CMul(T[4], S(k * 4))
  BY <1>0, <1>2, <1>4
<1>7. \A q \in 0 .. p - 1 : T[q] \in C BY <1>2
<1>8. /\ p = 2 => w = CAdd(T[0], CMul(T[1], S(k)))
      /\ p = 3 => w = CAdd(CAdd(T[0], CMul(T[1], S(k))), CMul(T[2], S(k * 2)))
      /\ p = 4 => w = CAdd(CAdd(CAdd(T[0], CMul(T[1], S(k))), CMul(T[2], S(k * 2))),
                           CMul(T[3], S(k * 3)))
      /\ p = 5 => w = CAdd(CAdd(CAdd(CAdd(T[0], CMul(T[1], S(k))), CMul(T[2], S(k * 2))),
                                CMul(T[3], S(k * 3))), CMul(T[4], S(k * 4)))
  BY <1>3, <1>5, <1>6
<1> QED BY <1>7, <1>8 DEF T, S, w

\* The twiddled values as the butterflies have them.
LEMMA TwistedIs ==
  ASSUME NEW st, NEW a, NEW fs, NEW m, NEW p, NEW u, Column(st, a, fs, m, p, u)
  PROVE  LET T == Twisted(st, a, fs, u)
             tw == [q \in 1 .. p - 1 |-> st.twiddles[q * u * fs]]
         IN  T[0] = a[0] /\ \A q \in 1 .. p - 1 : T[q] = CMul(a[q], tw[q])
<1>1. \A q \in 1 .. p - 1 : q \in Nat /\ q # 0 BY DEF Column
<1> QED BY <1>1 DEF Twisted

LEMMA ArcTwiddles ==
  ASSUME NEW st, NEW a, NEW fs, NEW m, NEW p, NEW u, Column(st, a, fs, m, p, u)
  PROVE  /\ fs \in Nat \ {0} /\ m \in Nat \ {0} /\ p \in Nat \ {0} /\ Planned(st)
         /\ fs * m \in Nat \ {0} /\ p * (fs * m) = st.nfft
         /\ p > 1 => st.twiddles[fs * m] = Arc(st, fs * m, 1)
         /\ p > 2 => st.twiddles[fs * 2 * m] = Arc(st, fs * m, 2)
<1> DEFINE g == fs * m  n == st.nfft
<1>1. fs \in Nat \ {0} /\ m \in Nat \ {0} /\ p \in Nat \ {0} /\ Planned(st) /\ (p * m) * fs = n
  BY DEF Column
<1>2. g \in Nat \ {0} /\ p * g = n
  <2>1. g \in Nat /\ g # 0 BY <1>1
  <2>2. (p * m) * fs = p * (fs * m) BY <1>1
  <2> QED BY <1>1, <2>1, <2>2
<1>3. fs * 2 * m = 2 * g BY <1>1
<1>4. 1 * g = g BY <1>2
<1>5. p > 1 => g \in 0 .. n - 1
  <2>1. (p - 1) * g = p * g - g BY <1>1, <1>2
  <2>2. p > 1 => (p - 1) * g >= 1 BY <1>1, <1>2
  <2> HIDE DEF g, n
  <2> QED BY <1>1, <1>2, <2>1, <2>2
<1>6. p > 2 => 2 * g \in 0 .. n - 1
  <2>1. (p - 2) * g = p * g - 2 * g BY <1>1, <1>2
  <2>2. p > 2 => (p - 2) * g >= 1 BY <1>1, <1>2
  <2> HIDE DEF g, n
  <2> QED BY <1>1, <1>2, <2>1, <2>2
<1> HIDE DEF g, n
<1>7. p > 1 => st.twiddles[g] = Turned(st, g) BY <1>1, <1>5, TurnedTwiddle DEF n
<1>8. p > 2 => st.twiddles[2 * g] = Turned(st, 2 * g)
  <2> DEFINE x == 2 * g
  <2>1. p > 2 => x \in 0 .. st.nfft - 1 BY <1>6 DEF n
  <2> HIDE DEF x
  <2>2. p > 2 => st.twiddles[x] = Turned(st, x) BY <1>1, <2>1, TurnedTwiddle
  <2> QED BY <2>2 DEF x
<1>9. Arc(st, g, 1) = Turned(st, g) /\ Arc(st, g, 2) = Turned(st, 2 * g) BY <1>4 DEF Arc
<1> QED BY <1>1, <1>2, <1>3, <1>7, <1>8, <1>9 DEF g, n

LEMMA RadixTwo ==
  ASSUME NEW st, NEW a, NEW fs, NEW m, NEW u, Column(st, a, fs, m, 2, u), NEW k \in 0 .. 1
  PROVE  Butterfly(a, st, fs, m, 2, u)[k + 1] = Wanted(st, a, fs, 2, u + k * m)
<1> DEFINE T == Twisted(st, a, fs, u)  g == fs * m  S(x) == Arc(st, g, x)
           tw == [q \in 1 .. 2 - 1 |-> st.twiddles[q * u * fs]]
<1>0. Planned(st) /\ g \in Nat \ {0} /\ 2 * g = st.nfft /\ 2 \in Nat \ {0} BY ArcTwiddles
<1>1. T[0] = a[0] /\ T[1] = CMul(a[1], tw[1])
  <2>1. 1 \in 1 .. 2 - 1 OBVIOUS
  <2> HIDE DEF T, tw
  <2> QED BY <2>1, TwistedIs DEF T, tw
<1>2. Butterfly(a, st, fs, m, 2, u) = <<CAdd(T[0], T[1]), CSub(T[0], T[1])>>
  <2>1. Butterfly(a, st, fs, m, 2, u) = Bfly2(a, tw) BY DEF Butterfly
  <2> HIDE DEF T, tw
  <2> QED BY <1>1, <2>1 DEF Bfly2
<1>3. S(0) = One /\ S(1) = MinusOne
  <2> HIDE DEF g
  <2>1. S(0) = One /\ S(1) = kf_cexp(Sense(st) * 1, 2) /\ 2 \in Orders BY <1>0, PartLaws
  <2>2. kf_cexp(1, 2 * 1) = MinusOne /\ kf_cexp(-1, 2 * 1) = MinusOne
    <3>1. 1 \in Nat \ {0} /\ 2 * 1 = 2 OBVIOUS
    <3> QED BY <2>1, <3>1, RootHalf
  <2>3. Sense(st) * 1 \in {1, -1} BY <1>0, Senses
  <2> HIDE DEF S
  <2> QED BY <2>1, <2>2, <2>3
<1>4. /\ T[0] \in C /\ T[1] \in C
      /\ Wanted(st, a, fs, 2, u + k * m) = CAdd(T[0], CMul(T[1], S(k)))
  <2>1. k \in 0 .. 2 - 1 /\ 0 \in 0 .. 2 - 1 /\ 1 \in 0 .. 2 - 1 OBVIOUS
  <2> QED BY <2>1, ColumnSums
<1> HIDE DEF T, g, S, tw
<1>5. CMul(T[1], One) = T[1] /\ CSub(T[0], T[1]) = CAdd(T[0], CMul(T[1], MinusOne))
  BY <1>4, MulRing, Butterfly2
<1>6. CASE k = 0 BY <1>2, <1>3, <1>4, <1>5, <1>6
<1>7. CASE k = 1 BY <1>2, <1>3, <1>4, <1>5, <1>7
<1> QED BY <1>6, <1>7

\* A third of a turn has the real part of which the butterfly takes the half.
LEMMA ThirdOfTurn ==
  ASSUME NEW st, Planned(st), NEW g \in Nat \ {0}, 3 * g = st.nfft
  PROVE  LET e == Arc(st, g, 1)
         IN  /\ e \in C /\ e = Complex(-Half, e.i)
             /\ Arc(st, g, 0) = One /\ Arc(st, g, 2) = Conj(e) /\ Arc(st, g, 4) = e
<1> DEFINE S(x) == Arc(st, g, x)  e == S(1)  s == Sense(st)
<1>0. ASSUME NEW x \in Int
      PROVE  /\ S(x) \in C /\ S(0) = One /\ S(x + 3) = S(x) /\ S(-x) = Conj(S(x))
             /\ S(x) = kf_cexp(s * x, 3) /\ 3 \in Orders
  <2> DEFINE p == 3
  <2>1. p \in Nat \ {0} /\ p * g = st.nfft OBVIOUS
  <2> HIDE DEF p
  <2>2. /\ S(x) \in C /\ S(0) = One /\ S(-x) = Conj(S(x))
        /\ S(x) = kf_cexp(s * x, p) /\ p \in Orders
    BY <2>1, PartLaws, ZenonT(40) DEF S, s
  <2>3. S(x + 1 * p) = S(x)
    <3>1. 1 \in Int OBVIOUS
    <3> QED BY <2>1, <3>1, PartLaws, ZenonT(40)
  <2>4. 1 * 3 = 3 OBVIOUS
  <2> QED BY <2>2, <2>3, <2>4 DEF p
<1> HIDE DEF S, s
<1>1. e \in C /\ S(0) = One BY <1>0
<1>2. S(2) = Conj(e)
  <2>1. S(-1) = Conj(e)
    <3>1. 1 \in Int OBVIOUS
    <3>2. S(-1) = Conj(S(1)) BY <1>0, <3>1
    <3> QED BY <3>2
  <2>2. S(-1 + 3) = S(-1)
    <3>1. -1 \in Int OBVIOUS
    <3> HIDE DEF S
    <3> QED BY <1>0, <3>1
  <2>3. -1 + 3 = 2 OBVIOUS
  <2> HIDE DEF S, e
  <2> QED BY <2>1, <2>2, <2>3
<1>3. S(4) = e
  <2>1. S(1 + 3) = S(1) BY <1>0
  <2>2. 1 + 3 = 4 OBVIOUS
  <2> HIDE DEF S
  <2> QED BY <2>1, <2>2
<1>4. CAdd(CAdd(One, e), Conj(e)) = Zero
  <2> DEFINE f == [j \in 0 .. 2 |-> S(j)]
  <2>1. 3 \in Orders BY <1>0
  <2>2. s \in Int /\ s \in {1, -1} BY Senses DEF s
  <2>3. \A j \in 0 .. 3 - 1 : f[j] = kf_cexp(s * j, 3)
    <3> SUFFICES ASSUME NEW j \in 0 .. 2 PROVE f[j] = kf_cexp(s * j, 3) OBVIOUS
    <3> QED BY <1>0
  <2>4. f[0] = One /\ f[1] = e /\ f[2] = Conj(e) BY <1>1, <1>2
  <2>5. ~ \E k \in Int : s = k * 3
    <3> SUFFICES ASSUME NEW k \in Int, s = k * 3 PROVE FALSE OBVIOUS
    <3> QED BY <2>2
  <2> HIDE DEF f, S, e, s
  <2>6. CSum(f, 3) = Zero BY <2>1, <2>2, <2>3, <2>5, RootsSum, Zenon
  <2>7. Terms(f, 3)
    <3>1. Conj(e) \in C BY <1>1, Closed
    <3> QED BY <1>1, <2>4, <3>1, ZeroOne DEF Terms
  <2>8. CSum(f, 3) = CAdd(CAdd(f[0], f[1]), f[2]) BY <2>7, SumOfFew
  <2> QED BY <2>4, <2>6, <2>8
<1>5. e = Complex(-Half, e.i)
  <2> HIDE DEF S, e, s
  <2> DEFINE x == e.r  y == e.i
  <2>1. x \in Int /\ y \in Int /\ e = Complex(x, y) BY <1>1, AsComplex
  <2> HIDE DEF x, y
  <2>2. -y \in Int /\ 1 + x \in Int /\ 0 + y \in Int BY <2>1
  <2>3. Conj(e) = Complex(x, -y) BY <2>1, NamedConj
  <2>4. CAdd(One, e) = Complex(1 + x, 0 + y) BY <2>1, NamedAdd DEF One
  <2>5. CAdd(CAdd(One, e), Conj(e)) = Complex((1 + x) + x, (0 + y) + (-y))
    BY <2>1, <2>2, <2>3, <2>4, NamedAdd
  <2>6. (1 + 2 * x) % P = 0
    <3>1. (1 + x) + x = 1 + 2 * x BY <2>1
    <3>2. 0 % P = 0
      <4>1. 0 \in 0 .. P - 1 BY PIsOdd
      <4> QED BY <4>1, ModSame
    <3>3. ((1 + x) + x) % P = 0 % P BY <1>4, <2>5 DEF Zero, Complex
    <3> QED BY <3>1, <3>2, <3>3
  <2>7. PICK d \in Int : 1 + 2 * x = d * P
    <3>1. 1 + 2 * x \in Int BY <2>1
    <3>2. PICK d \in Int : 1 + 2 * x = ((1 + 2 * x) % P) + d * P BY <3>1, ModRest
    <3>3. d * P \in Int BY PIsOdd
    <3> QED BY <2>6, <3>1, <3>2, <3>3
  <2>8. P \in Nat /\ Half \in Nat /\ 2 * Half = P + 1 BY PIsOdd
  <2> DEFINE c == (d + 1) * Half - (x + Half)
  <2>9. c \in Int /\ x = -Half + c * P
    <3>1. (d + 1) * Half = d * Half + Half /\ d * Half \in Int BY <2>8
    <3> DEFINE h == d * Half
    <3>2. 2 * h = d * P + d
      <4>1. 2 * h = d * (2 * Half) BY <2>8
      <4>2. d * (2 * Half) = d * (P + 1) BY <2>8
      <4>3. d * (P + 1) = d * P + d BY <2>8
      <4> QED BY <4>1, <4>2, <4>3
    <3>3. c = h - x BY <2>1, <2>8, <3>1
    <3>4. h \in Int BY <3>1
    <3> HIDE DEF h
    <3>5. c * P = h * P - x * P BY <2>1, <2>8, <3>3, <3>4
    <3>6. d * P \in Int /\ h * P \in Int /\ x * P \in Int BY <2>1, <2>8, <3>4
    <3>7. c = 1 + x + d - h
      <4> HIDE DEF c
      <4> QED BY <2>1, <2>7, <3>2, <3>3, <3>4, <3>6
    <3>8. 2 * c = d + 1
      <4> HIDE DEF c
      <4> QED BY <2>1, <3>3, <3>4, <3>7
    <3> HIDE DEF c
    <3>9. c \in Int BY <2>1, <3>3, <3>4
    <3>10. 2 * (c * P) = (d + 1) * P
      <4>1. 2 * (c * P) = (2 * c) * P BY <2>8, <3>9
      <4> QED BY <3>8, <4>1
    <3>11. (d + 1) * P = d * P + P BY <2>8
    <3>12. c * P \in Int BY <2>8, <3>9
    <3> QED BY <2>1, <2>7, <2>8, <3>6, <3>9, <3>10, <3>11, <3>12
  <2>10. y = y + 0 * P BY <2>1, <2>8
  <2>11. -Half \in Int /\ 0 \in Int BY <2>8
  <2> HIDE DEF c
  <2>12. Complex(x, y) = Complex(-Half, y) BY <2>1, <2>9, <2>10, <2>11, Congruent
  <2> QED BY <2>1, <2>12 DEF y
<1> QED BY <1>1, <1>2, <1>3, <1>5 DEF S

LEMMA RadixThree ==
  ASSUME NEW st, NEW a, NEW fs, NEW m, NEW u, Column(st, a, fs, m, 3, u), NEW k \in 0 .. 2
  PROVE  Butterfly(a, st, fs, m, 3, u)[k + 1] = Wanted(st, a, fs, 3, u + k * m)
<1> DEFINE T == Twisted(st, a, fs, u)  g == fs * m  S(x) == Arc(st, g, x)  e == S(1)
           tw == [q \in 1 .. 3 - 1 |-> st.twiddles[q * u * fs]]
           s3 == CAdd(T[1], T[2])
           d == CSub(T[1], T[2])
           s0 == TimesI(Scaled(d, e.i))
           mid == CSub(T[0], Scaled(s3, Half))
           v == e.i
<1>0. Planned(st) /\ g \in Nat \ {0} /\ 3 * g = st.nfft /\ st.twiddles[g] = e
  BY ArcTwiddles
<1>1. T[0] = a[0] /\ T[1] = CMul(a[1], tw[1]) /\ T[2] = CMul(a[2], tw[2])
  <2>1. 1 \in 1 .. 3 - 1 /\ 2 \in 1 .. 3 - 1 OBVIOUS
  <2> HIDE DEF T, tw
  <2> QED BY <2>1, TwistedIs DEF T, tw
<1>2. Butterfly(a, st, fs, m, 3, u) = <<CAdd(T[0], s3), CAdd(mid, s0), CSub(mid, s0)>>
  <2>1. Butterfly(a, st, fs, m, 3, u) = Bfly3(a, tw, st.twiddles[g]) BY DEF Butterfly
  <2> HIDE DEF T, tw, e
  <2> QED BY <1>0, <1>1, <2>1 DEF Bfly3
<1>3. e \in C /\ e = Complex(-Half, v) /\ S(0) = One /\ S(2) = Conj(e) /\ S(4) = e
  <2> HIDE DEF g
  <2> QED BY <1>0, ThirdOfTurn
<1>4. /\ T[0] \in C /\ T[1] \in C /\ T[2] \in C
      /\ Wanted(st, a, fs, 3, u + k * m) = CAdd(CAdd(T[0], CMul(T[1], S(k))), CMul(T[2], S(k * 2)))
  <2>1. k \in 0 .. 3 - 1 /\ 0 \in 0 .. 3 - 1 /\ 1 \in 0 .. 3 - 1 /\ 2 \in 0 .. 3 - 1 OBVIOUS
  <2> QED BY <2>1, ColumnSums
<1>5. v \in Int /\ -v \in Int /\ Half \in Int /\ -Half \in Int
  <2>1. v \in Int BY <1>3, AsComplex
  <2> QED BY <2>1, PIsOdd
<1>6. s3 \in C /\ d \in C /\ Conj(e) \in C
  <2> HIDE DEF T, e
  <2> QED BY <1>3, <1>4, Closed, Zenon
<1>7. Scaled(d, v) \in C /\ s0 \in C
  <2>1. Scaled(d, v) \in C
    <3> HIDE DEF d, v
    <3> QED BY <1>5, <1>6, RealScale
  <2> HIDE DEF d, e
  <2> QED BY <2>1, Closed
<1> HIDE DEF T, g, S, tw, e
<1>8. ASSUME NEW z \in C
      PROVE  CAdd(CAdd(T[0], CMul(T[1], z)), CMul(T[2], Conj(z)))
               = CAdd(T[0], CAdd(CMul(T[1], z), CMul(T[2], Conj(z))))
  <2>1. Conj(z) \in C BY Closed
  <2>2. CMul(T[1], z) \in C /\ CMul(T[2], Conj(z)) \in C BY <1>4, <2>1, Closed, Zenon
  <2> QED BY <1>4, <2>2, AddRing
<1>9. CASE k = 0
  <2>1. k * 2 = 0 BY <1>9
  <2>2. CMul(T[1], One) = T[1] /\ CMul(T[2], One) = T[2] BY <1>4, MulRing
  <2>3. CAdd(CAdd(T[0], T[1]), T[2]) = CAdd(T[0], s3) BY <1>4, AddRing
  <2> QED BY <1>2, <1>3, <1>4, <1>9, <2>1, <2>2, <2>3
<1>10. CASE k = 1
  <2>1. k * 2 = 2 BY <1>10
  <2>2. CAdd(CMul(T[1], e), CMul(T[2], Conj(e)))
          = CAdd(Scaled(s3, -Half), TimesI(Scaled(d, v)))
    <3> HIDE DEF v
    <3> QED BY <1>3, <1>4, <1>5, PairIdentity
  <2>3. CAdd(mid, s0) = CAdd(T[0], CAdd(Scaled(s3, -Half), s0))
    <3> HIDE DEF s0, s3
    <3> QED BY <1>4, <1>5, <1>6, <1>7, Butterfly3Up
  <2>4. CAdd(CAdd(T[0], CMul(T[1], e)), CMul(T[2], Conj(e)))
          = CAdd(T[0], CAdd(CMul(T[1], e), CMul(T[2], Conj(e))))
    BY <1>3, <1>8
  <2>5. s0 = TimesI(Scaled(d, v)) /\ e = S(1) BY DEF e
  <2> HIDE DEF d, s3, s0, mid, v
  <2> QED BY <1>2, <1>3, <1>4, <1>10, <2>1, <2>2, <2>3, <2>4, <2>5
<1>11. CASE k = 2
  <2>1. k * 2 = 4 BY <1>11
  <2>2. Conj(e) = Complex(-Half, -v) /\ Conj(Conj(e)) = e
    <3>1. Conj(Conj(e)) = e BY <1>3, ConjRing
    <3> HIDE DEF v
    <3> QED BY <1>3, <1>5, <3>1, NamedConj
  <2>3. CAdd(CMul(T[1], Conj(e)), CMul(T[2], Conj(Conj(e))))
          = CAdd(Scaled(s3, -Half), TimesI(Scaled(d, -v)))
    <3> DEFINE z == Conj(e)  w == -v
    <3>1. z = Complex(-Half, w) /\ w \in Int BY <1>5, <2>2
    <3> HIDE DEF z, w, v
    <3>2. CAdd(CMul(T[1], z), CMul(T[2], Conj(z)))
            = CAdd(Scaled(s3, -Half), TimesI(Scaled(d, w)))
      BY <1>4, <1>5, <3>1, PairIdentity
    <3> QED BY <3>2 DEF z, w
  <2>4. CSub(mid, s0) = CAdd(T[0], CAdd(Scaled(s3, -Half), TimesI(Scaled(d, -v))))
    <3> HIDE DEF d, s3, v
    <3> QED BY <1>4, <1>5, <1>6, Butterfly3Down DEF v
  <2>5. CAdd(CAdd(T[0], CMul(T[1], Conj(e))), CMul(T[2], Conj(Conj(e))))
          = CAdd(T[0], CAdd(CMul(T[1], Conj(e)), CMul(T[2], Conj(Conj(e)))))
    BY <1>6, <1>8
  <2> HIDE DEF d, s3, s0, mid, v
  <2> QED BY <1>2, <1>3, <1>4, <1>11, <2>1, <2>2, <2>3, <2>4, <2>5
<1> QED BY <1>9, <1>10, <1>11

LEMMA ArcLaws ==
  ASSUME NEW st, Planned(st), NEW p \in Nat \ {0}, NEW g \in Nat \ {0}, p * g = st.nfft,
         NEW x \in Int
  PROVE  /\ Arc(st, g, x) \in C /\ Arc(st, g, 0) = One
         /\ Arc(st, g, -x) = Conj(Arc(st, g, x))
         /\ Arc(st, g, x + p) = Arc(st, g, x)
         /\ Arc(st, g, x) = kf_cexp(Sense(st) * x, p) /\ p \in Orders
<1>1. 1 \in Int /\ x + 1 * p = x + p OBVIOUS
<1> DEFINE y == 1
<1> HIDE DEF y
<1>2. y \in Int BY <1>1 DEF y
<1>3. /\ Arc(st, g, x) \in C /\ Arc(st, g, 0) = One
      /\ Arc(st, g, -x) = Conj(Arc(st, g, x))
      /\ Arc(st, g, x) = kf_cexp(Sense(st) * x, p) /\ p \in Orders
  BY <1>2, PartLaws, ZenonT(40)
<1>4. Arc(st, g, x + y * p) = Arc(st, g, x) BY <1>2, PartLaws, ZenonT(40)
<1> QED BY <1>1, <1>3, <1>4 DEF y

LEMMA ArcAdd ==
  ASSUME NEW st, Planned(st), NEW g \in Nat \ {0}, NEW x \in Int, NEW y \in Int
  PROVE  Arc(st, g, x + y) = CMul(Arc(st, g, x), Arc(st, g, y))
<1> DEFINE v == x * g  w == y * g
<1>1. v \in Int /\ w \in Int /\ (x + y) * g = v + w OBVIOUS
<1> HIDE DEF v, w
<1>2. Turned(st, v + w) = CMul(Turned(st, v), Turned(st, w)) BY <1>1, TurnedLaws
<1> QED BY <1>1, <1>2 DEF v, w, Arc

LEMMA FourthOfTurn ==
  ASSUME NEW st, Planned(st), NEW g \in Nat \ {0}, 4 * g = st.nfft
  PROVE  LET e == IF st.inverse THEN Img ELSE Conj(Img)
             S(x) == Arc(st, g, x)
         IN  /\ S(0) = One /\ S(1) = e /\ S(2) = MinusOne /\ S(3) = Conj(e)
             /\ S(4) = One /\ S(6) = MinusOne /\ S(9) = e
<1> DEFINE S(x) == Arc(st, g, x)  s == Sense(st)  p == 4
           e == IF st.inverse THEN Img ELSE Conj(Img)
<1>0. p \in Nat \ {0} /\ p * g = st.nfft /\ p \in Int BY DEF Planned
<1>1. Img \in C
  <2>1. 0 \in Int /\ 1 \in Int OBVIOUS
  <2> QED BY <2>1, InC DEF Img
<1> HIDE DEF p
<1>2. ASSUME NEW x \in Int
      PROVE  /\ S(x) \in C /\ S(0) = One /\ S(-x) = Conj(S(x)) /\ S(x) = kf_cexp(s * x, p)
             /\ p \in Orders /\ S(x + p) = S(x)
  BY <1>0, ArcLaws, ZenonT(40)
<1>3. ASSUME NEW x \in Int, NEW y \in Int PROVE S(x + y) = CMul(S(x), S(y))
  BY <1>0, ArcAdd
<1> HIDE DEF S
<1>4. S(1) = e
  <2>1. p \in Orders /\ S(1) = kf_cexp(s * 1, p)
    <3>1. 1 \in Int OBVIOUS
    <3> QED BY <1>2, <3>1
  <2>2. kf_cexp(1, 4 * 1) = Img
    <3>1. 1 \in Nat \ {0} /\ 4 * 1 = 4 /\ 4 \in Orders BY <2>1 DEF p
    <3> QED BY <3>1, RootQuarter
  <2>3. kf_cexp(1, p) = Img
    <3>1. 4 * 1 = p BY DEF p
    <3> QED BY <2>2, <3>1
  <2>4. kf_cexp(-1, p) = Conj(Img)
    <3>1. 1 \in Int OBVIOUS
    <3> QED BY <2>1, <2>3, <3>1, RootBack
  <2>5. s * 1 = IF st.inverse THEN 1 ELSE -1 BY DEF s, Sense
  <2> QED BY <2>1, <2>3, <2>4, <2>5
<1>5. S(2) = MinusOne
  <2>1. 1 \in Int /\ 1 + 1 = 2 OBVIOUS
  <2>2. S(2) = CMul(e, e) BY <1>3, <1>4, <2>1, Zenon
  <2>3. CMul(Img, Img) = MinusOne BY ISquared
  <2>4. CMul(Conj(Img), Conj(Img)) = Conj(MinusOne) BY <1>1, <2>3, ConjRing
  <2>5. Conj(MinusOne) = MinusOne
    <3>1. -1 \in Int OBVIOUS
    <3> QED BY <3>1, RealConj DEF Scalar, MinusOne
  <2> QED BY <2>2, <2>3, <2>4, <2>5
<1>6. S(3) = Conj(e)
  <2>1. S(-1) = Conj(e)
    <3>1. 1 \in Int OBVIOUS
    <3>2. S(-1) = Conj(S(1)) BY <1>2, <3>1
    <3> QED BY <1>4, <3>2
  <2>2. -1 \in Int /\ -1 + p = 3 BY DEF p
  <2>3. S(-1 + p) = S(-1) BY <1>2, <2>2
  <2> QED BY <2>1, <2>2, <2>3
<1>7. S(0) = One /\ S(4) = S(0) /\ S(6) = S(2) /\ S(5) = S(1) /\ S(9) = S(5)
  <2>1. 0 \in Int /\ 0 + p = 4 BY DEF p
  <2>2. 2 \in Int /\ 2 + p = 6 BY DEF p
  <2>3. 1 \in Int /\ 1 + p = 5 BY DEF p
  <2>4. 5 \in Int /\ 5 + p = 9 BY DEF p
  <2>5. S(0 + p) = S(0) /\ S(0) = One BY <1>2, <2>1
  <2>6. S(2 + p) = S(2) BY <1>2, <2>2
  <2>7. S(1 + p) = S(1) BY <1>2, <2>3
  <2>8. S(5 + p) = S(5) BY <1>2, <2>4
  <2> QED BY <2>1, <2>2, <2>3, <2>4, <2>5, <2>6, <2>7, <2>8
<1> QED BY <1>4, <1>5, <1>6, <1>7 DEF S

LEMMA RadixFour ==
  ASSUME NEW st, NEW a, NEW fs, NEW m, NEW u, Column(st, a, fs, m, 4, u), NEW k \in 0 .. 3
  PROVE  Butterfly(a, st, fs, m, 4, u)[k + 1] = Wanted(st, a, fs, 4, u + k * m)
<1> DEFINE T == Twisted(st, a, fs, u)  g == fs * m  S(x) == Arc(st, g, x)
           e == IF st.inverse THEN Img ELSE Conj(Img)
           tw == [q \in 1 .. 4 - 1 |-> st.twiddles[q * u * fs]]
           sum == CAdd(T[0], T[2])
           s5 == CSub(T[0], T[2])
           s3 == CAdd(T[1], T[3])
           s4 == TimesI(CSub(T[1], T[3]))
           B == Butterfly(a, st, fs, m, 4, u)
           W(z, y, x) == CAdd(CAdd(CAdd(T[0], CMul(T[1], z)), CMul(T[2], y)), CMul(T[3], x))
<1>0. Planned(st) /\ g \in Nat \ {0} /\ 4 * g = st.nfft
  BY ArcTwiddles
<1>1. T[0] = a[0] /\ T[1] = CMul(a[1], tw[1]) /\ T[2] = CMul(a[2], tw[2])
      /\ T[3] = CMul(a[3], tw[3])
  <2>1. 1 \in 1 .. 4 - 1 /\ 2 \in 1 .. 4 - 1 /\ 3 \in 1 .. 4 - 1 OBVIOUS
  <2> HIDE DEF T, tw
  <2> QED BY <2>1, TwistedIs DEF T, tw
<1>2. B = IF st.inverse THEN <<CAdd(sum, s3), CAdd(s5, s4), CSub(sum, s3), CSub(s5, s4)>>
          ELSE <<CAdd(sum, s3), CSub(s5, s4), CSub(sum, s3), CAdd(s5, s4)>>
  <2>1. B = Bfly4(a, tw, st.inverse) BY DEF Butterfly
  <2> HIDE DEF T, tw, B
  <2> QED BY <1>0, <1>1, <2>1 DEF Bfly4
<1>3. /\ S(0) = One /\ S(1) = e /\ S(2) = MinusOne /\ S(3) = Conj(e)
      /\ S(4) = One /\ S(6) = MinusOne /\ S(9) = e
  <2> HIDE DEF g
  <2> QED BY <1>0, FourthOfTurn
<1>4. /\ T[0] \in C /\ T[1] \in C /\ T[2] \in C /\ T[3] \in C
      /\ Wanted(st, a, fs, 4, u + k * m) = W(S(k), S(k * 2), S(k * 3))
  <2>1. k \in 0 .. 4 - 1 /\ 0 \in 0 .. 4 - 1 /\ 1 \in 0 .. 4 - 1 /\ 2 \in 0 .. 4 - 1
        /\ 3 \in 0 .. 4 - 1
    OBVIOUS
  <2> QED BY <2>1, ColumnSums
<1>5. /\ CMul(T[1], One) = T[1] /\ CMul(T[2], One) = T[2] /\ CMul(T[3], One) = T[3]
  BY <1>4, MulRing
<1>6. Conj(Conj(Img)) = Img
  <2>1. 0 \in Int /\ 1 \in Int OBVIOUS
  <2>2. Img \in C BY <2>1, InC DEF Img
  <2> QED BY <2>2, ConjRing
<1>7. /\ CAdd(sum, s3) = CAdd(CAdd(CAdd(T[0], T[1]), T[2]), T[3])
      /\ CSub(sum, s3) = W(MinusOne, One, MinusOne)
      /\ CSub(s5, s4) = W(Conj(Img), MinusOne, Img)
      /\ CAdd(s5, s4) = W(Img, MinusOne, Conj(Img))
  <2> HIDE DEF T
  <2>1. CAdd(sum, s3) = CAdd(CAdd(CAdd(T[0], T[1]), T[2]), T[3]) BY <1>4, Butterfly4First
  <2>2. CSub(sum, s3) = CAdd(CAdd(CAdd(T[0], CMul(T[1], MinusOne)), T[2]), CMul(T[3], MinusOne))
    BY <1>4, Butterfly4Third
  <2>3. CSub(s5, s4) = W(Conj(Img), MinusOne, Img) BY <1>4, Butterfly4Right
  <2>4. CAdd(s5, s4) = W(Img, MinusOne, Conj(Img)) BY <1>4, Butterfly4Left
  <2> QED BY <1>5, <2>1, <2>2, <2>3, <2>4
<1>8. W(One, One, One) = CAdd(CAdd(CAdd(T[0], T[1]), T[2]), T[3]) BY <1>5
<1> HIDE DEF T, g, S, tw, sum, s5, s3, s4, B, W
<1>9. CASE k = 0
  <2>1. k + 1 = 1 /\ k * 2 = 0 /\ k * 3 = 0 BY <1>9
  <2>2. B[1] = CAdd(sum, s3) BY <1>2
  <2> QED BY <1>3, <1>4, <1>7, <1>8, <1>9, <2>1, <2>2 DEF B
<1>10. CASE k = 2
  <2>1. k + 1 = 3 /\ k * 2 = 4 /\ k * 3 = 6 BY <1>10
  <2>2. B[3] = CSub(sum, s3) BY <1>2
  <2> QED BY <1>3, <1>4, <1>7, <1>10, <2>1, <2>2 DEF B
<1>11. CASE k = 1
  <2>1. k + 1 = 2 /\ k * 2 = 2 /\ k * 3 = 3 BY <1>11
  <2>2. B[2] = IF st.inverse THEN CAdd(s5, s4) ELSE CSub(s5, s4) BY <1>2
  <2>3. B[2] = W(e, MinusOne, Conj(e)) BY <1>6, <1>7, <2>2
  <2> HIDE DEF e
  <2> QED BY <1>3, <1>4, <1>11, <2>1, <2>3 DEF B
<1>12. CASE k = 3
  <2>1. k + 1 = 4 /\ k * 2 = 6 /\ k * 3 = 9 BY <1>12
  <2>2. B[4] = IF st.inverse THEN CSub(s5, s4) ELSE CAdd(s5, s4) BY <1>2
  <2>3. B[4] = W(Conj(e), MinusOne, e) BY <1>6, <1>7, <2>2
  <2> HIDE DEF e
  <2> QED BY <1>3, <1>4, <1>12, <2>1, <2>3 DEF B
<1> QED BY <1>9, <1>10, <1>11, <1>12

LEMMA FifthOfTurn ==
  ASSUME NEW st, Planned(st), NEW g \in Nat \ {0}, 5 * g = st.nfft
  PROVE  LET S(x) == Arc(st, g, x)
             e == S(1)
             d == S(2)
         IN  /\ e \in C /\ d \in C
             /\ S(0) = One /\ S(3) = Conj(d) /\ S(4) = Conj(e) /\ S(6) = e
             /\ S(8) = Conj(d) /\ S(9) = Conj(e) /\ S(12) = d /\ S(16) = e
<1> DEFINE S(x) == Arc(st, g, x)  p == 5
<1>0. p \in Nat \ {0} /\ p * g = st.nfft /\ p \in Int OBVIOUS
<1> HIDE DEF p
<1>2. ASSUME NEW x \in Int
      PROVE  S(x) \in C /\ S(0) = One /\ S(-x) = Conj(S(x)) /\ S(x + p) = S(x)
  BY <1>0, ArcLaws, Zenon
<1> HIDE DEF S
<1>3. 1 \in Int /\ 2 \in Int /\ -1 \in Int /\ -2 \in Int /\ 3 \in Int /\ 4 \in Int /\ 7 \in Int
      /\ 11 \in Int /\ 6 \in Int
  OBVIOUS
<1>4. S(1) \in C /\ S(2) \in C /\ S(0) = One /\ S(-1) = Conj(S(1)) /\ S(-2) = Conj(S(2))
  BY <1>2, <1>3
<1>5. /\ -1 + p = 4 /\ -2 + p = 3 /\ 1 + p = 6 /\ 3 + p = 8 /\ 4 + p = 9 /\ 2 + p = 7 /\ 7 + p = 12
      /\ 6 + p = 11 /\ 11 + p = 16
  BY DEF p
<1>6. /\ S(-1 + p) = S(-1) /\ S(-2 + p) = S(-2) /\ S(1 + p) = S(1) /\ S(3 + p) = S(3)
      /\ S(4 + p) = S(4) /\ S(2 + p) = S(2) /\ S(7 + p) = S(7) /\ S(6 + p) = S(6)
      /\ S(11 + p) = S(11)
  BY <1>2, <1>3
<1>7. /\ S(4) = S(-1) /\ S(3) = S(-2) /\ S(6) = S(1) /\ S(8) = S(3) /\ S(9) = S(4)
      /\ S(7) = S(2) /\ S(12) = S(7) /\ S(11) = S(6) /\ S(16) = S(11)
  BY <1>5, <1>6
<1> QED BY <1>4, <1>7 DEF S

\* Four inputs of a fifth, in two pairs.
InPairs(a, s, t, u, v, er, ei, dr, di, e, d) ==
  CAdd(CAdd(CAdd(CAdd(a, CMul(s, e)), CMul(t, d)), CMul(u, Conj(d))), CMul(v, Conj(e)))
    = CAdd(CAdd(a, CAdd(Scaled(CAdd(s, v), er), TimesI(Scaled(CSub(s, v), ei)))),
           CAdd(Scaled(CAdd(t, u), dr), TimesI(Scaled(CSub(t, u), di))))

LEMMA FifthPairs ==
  ASSUME NEW a \in C, NEW s \in C, NEW t \in C, NEW u \in C, NEW v \in C,
         NEW er \in Int, NEW ei \in Int, NEW dr \in Int, NEW di \in Int, NEW e, NEW d,
         e = Complex(er, ei), d = Complex(dr, di)
  PROVE  InPairs(a, s, t, u, v, er, ei, dr, di, e, d)
<1>1. e \in C /\ d \in C BY InC
<1>2. Conj(e) \in C /\ Conj(d) \in C BY <1>1, Closed
<1>3. CMul(s, e) \in C /\ CMul(t, d) \in C /\ CMul(u, Conj(d)) \in C /\ CMul(v, Conj(e)) \in C
  BY <1>1, <1>2, Closed, Zenon
<1> DEFINE b == CMul(s, e)  c == CMul(t, d)  x == CMul(u, Conj(d))  y == CMul(v, Conj(e))
<1>4. CAdd(b, y) = CAdd(Scaled(CAdd(s, v), er), TimesI(Scaled(CSub(s, v), ei)))
  BY PairIdentity
<1>5. CAdd(c, x) = CAdd(Scaled(CAdd(t, u), dr), TimesI(Scaled(CSub(t, u), di)))
  BY PairIdentity
<1>6. b \in C /\ c \in C /\ x \in C /\ y \in C BY <1>3
<1> HIDE DEF b, c, x, y
<1>7. CAdd(CAdd(CAdd(CAdd(a, b), c), x), y) = CAdd(CAdd(a, CAdd(b, y)), CAdd(c, x))
  BY <1>6, Fold5
<1> QED BY <1>4, <1>5, <1>7 DEF b, c, x, y, InPairs

Outer(a, b, c, x, y, p, q) ==
  /\ CSub(CAdd(a, CAdd(b, c)), TimesI(CAdd(Scaled(x, -p), Scaled(y, -q))))
       = CAdd(CAdd(a, CAdd(b, TimesI(Scaled(x, p)))), CAdd(c, TimesI(Scaled(y, q))))
  /\ CAdd(CAdd(a, CAdd(b, c)), TimesI(CAdd(Scaled(x, -p), Scaled(y, -q))))
       = CAdd(CAdd(a, CAdd(b, TimesI(Scaled(x, -p)))), CAdd(c, TimesI(Scaled(y, -q))))
Inner(a, b, c, x, y, p, q) ==
  /\ CAdd(CAdd(a, CAdd(b, c)), TimesI(CSub(Scaled(x, q), Scaled(y, p))))
       = CAdd(CAdd(a, CAdd(b, TimesI(Scaled(x, q)))), CAdd(c, TimesI(Scaled(y, -p))))
  /\ CSub(CAdd(a, CAdd(b, c)), TimesI(CSub(Scaled(x, q), Scaled(y, p))))
       = CAdd(CAdd(a, CAdd(b, TimesI(Scaled(x, -q)))), CAdd(c, TimesI(Scaled(y, p))))

LEMMA OuterInner ==
  ASSUME NEW a \in C, NEW b \in C, NEW c \in C, NEW x \in C, NEW y \in C, NEW p \in Int,
         NEW q \in Int
  PROVE  Outer(a, b, c, x, y, p, q) /\ Inner(a, b, c, x, y, p, q)
<1>1. CSub(CAdd(a, CAdd(b, c)), TimesI(CAdd(Scaled(x, -p), Scaled(y, -q))))
        = CAdd(CAdd(a, CAdd(b, TimesI(Scaled(x, p)))), CAdd(c, TimesI(Scaled(y, q))))
  BY Butterfly5Second
<1>2. CAdd(CAdd(a, CAdd(b, c)), TimesI(CAdd(Scaled(x, -p), Scaled(y, -q))))
        = CAdd(CAdd(a, CAdd(b, TimesI(Scaled(x, -p)))), CAdd(c, TimesI(Scaled(y, -q))))
  BY Butterfly5Fifth, SMTT(30)
<1>3. CAdd(CAdd(a, CAdd(b, c)), TimesI(CSub(Scaled(x, q), Scaled(y, p))))
        = CAdd(CAdd(a, CAdd(b, TimesI(Scaled(x, q)))), CAdd(c, TimesI(Scaled(y, -p))))
  BY Butterfly5Third
<1>4. CSub(CAdd(a, CAdd(b, c)), TimesI(CSub(Scaled(x, q), Scaled(y, p))))
        = CAdd(CAdd(a, CAdd(b, TimesI(Scaled(x, -q)))), CAdd(c, TimesI(Scaled(y, p))))
  BY Butterfly5Fourth
<1> QED BY <1>1, <1>2, <1>3, <1>4 DEF Outer, Inner

LEMMA RadixFive ==
  ASSUME NEW st, NEW a, NEW fs, NEW m, NEW u, Column(st, a, fs, m, 5, u), NEW k \in 0 .. 4
  PROVE  Butterfly(a, st, fs, m, 5, u)[k + 1] = Wanted(st, a, fs, 5, u + k * m)
<1> DEFINE T == Twisted(st, a, fs, u)  g == fs * m  S(x) == Arc(st, g, x)
           e == S(1)  d == S(2)
           tw == [q \in 1 .. 5 - 1 |-> st.twiddles[q * u * fs]]
           s7 == CAdd(T[1], T[4])
           s10 == CSub(T[1], T[4])
           s8 == CAdd(T[2], T[3])
           s9 == CSub(T[2], T[3])
           er == e.r  ei == e.i  dr == d.r  di == d.i
           s5 == CAdd(T[0], CAdd(Scaled(s7, er), Scaled(s8, dr)))
           s6 == TimesI(CAdd(Scaled(s10, -ei), Scaled(s9, -di)))
           s11 == CAdd(T[0], CAdd(Scaled(s7, dr), Scaled(s8, er)))
           s12 == TimesI(CSub(Scaled(s10, di), Scaled(s9, ei)))
           B == Butterfly(a, st, fs, m, 5, u)
           W(z, y, x, w) ==
             CAdd(CAdd(CAdd(CAdd(T[0], CMul(T[1], z)), CMul(T[2], y)), CMul(T[3], x)), CMul(T[4], w))
           R(zr, zi, yr, yi) ==
             CAdd(CAdd(T[0], CAdd(Scaled(s7, zr), TimesI(Scaled(s10, zi)))),
                  CAdd(Scaled(s8, yr), TimesI(Scaled(s9, yi))))
<1>0. Planned(st) /\ g \in Nat \ {0} /\ 5 * g = st.nfft /\ st.twiddles[g] = e
      /\ st.twiddles[fs * 2 * m] = d
  BY ArcTwiddles
<1>1. T[0] = a[0] /\ T[1] = CMul(a[1], tw[1]) /\ T[2] = CMul(a[2], tw[2])
      /\ T[3] = CMul(a[3], tw[3]) /\ T[4] = CMul(a[4], tw[4])
  <2>1. 1 \in 1 .. 5 - 1 /\ 2 \in 1 .. 5 - 1 /\ 3 \in 1 .. 5 - 1 /\ 4 \in 1 .. 5 - 1 OBVIOUS
  <2> HIDE DEF T, tw
  <2> QED BY <2>1, TwistedIs DEF T, tw
<1>2. B = <<CAdd(T[0], CAdd(s7, s8)), CSub(s5, s6), CAdd(s11, s12), CSub(s11, s12), CAdd(s5, s6)>>
  <2>1. B = Bfly5(a, tw, e, d)
    <3>1. B = Bfly5(a, tw, st.twiddles[g], st.twiddles[fs * 2 * m]) BY DEF Butterfly
    <3> HIDE DEF B, tw, e, d, g
    <3> QED BY <1>0, <3>1
  <2> HIDE DEF T, tw, B, e, d
  <2> QED BY <1>1, <2>1 DEF Bfly5
<1>3. /\ e \in C /\ d \in C
      /\ S(0) = One /\ S(3) = Conj(d) /\ S(4) = Conj(e) /\ S(6) = e
      /\ S(8) = Conj(d) /\ S(9) = Conj(e) /\ S(12) = d /\ S(16) = e
  <2> HIDE DEF g
  <2> QED BY <1>0, FifthOfTurn
<1>20. /\ T[0] \in C /\ T[1] \in C /\ T[2] \in C /\ T[3] \in C /\ T[4] \in C
       /\ Wanted(st, a, fs, 5, u + k * m) = W(S(k), S(k * 2), S(k * 3), S(k * 4))
  <2>1. k \in 0 .. 5 - 1 /\ 0 \in 0 .. 5 - 1 /\ 1 \in 0 .. 5 - 1 /\ 2 \in 0 .. 5 - 1
        /\ 3 \in 0 .. 5 - 1 /\ 4 \in 0 .. 5 - 1
    OBVIOUS
  <2> QED BY <2>1, ColumnSums
<1>4. T[0] \in C /\ T[1] \in C /\ T[2] \in C /\ T[3] \in C /\ T[4] \in C BY <1>20
<1> HIDE DEF e, d
<1>5. /\ er \in Int /\ ei \in Int /\ dr \in Int /\ di \in Int /\ -ei \in Int /\ -di \in Int
      /\ e = Complex(er, ei) /\ d = Complex(dr, di)
  <2>1. er \in Int /\ ei \in Int /\ dr \in Int /\ di \in Int BY <1>3, AsComplex
  <2>2. e = Complex(er, ei) /\ d = Complex(dr, di) BY <1>3, AsComplex
  <2> QED BY <2>1, <2>2
<1> HIDE DEF er, ei, dr, di, T
<1>6. Conj(e) = Complex(er, -ei) /\ Conj(d) = Complex(dr, -di) /\ Conj(Conj(e)) = e
      /\ Conj(Conj(d)) = d
  BY <1>3, <1>5, NamedConj, ConjRing
<1>7. s7 \in C /\ s8 \in C /\ s9 \in C /\ s10 \in C BY <1>4, Closed, Zenon
<1>8. /\ Scaled(s7, er) \in C /\ Scaled(s8, dr) \in C /\ Scaled(s7, dr) \in C
      /\ Scaled(s8, er) \in C
  <2> HIDE DEF s7, s8
  <2> QED BY <1>5, <1>7, RealScale
<1>9. ASSUME NEW zr \in Int, NEW zi \in Int, NEW yr \in Int, NEW yi \in Int, NEW z, NEW y,
             z = Complex(zr, zi), y = Complex(yr, yi)
      PROVE  W(z, y, Conj(y), Conj(z)) = R(zr, zi, yr, yi)
  <2>1. InPairs(T[0], T[1], T[2], T[3], T[4], zr, zi, yr, yi, z, y) BY <1>4, <1>9, FifthPairs
  <2> QED BY <2>1 DEF InPairs
<1>10. /\ CSub(s5, s6) = R(er, ei, dr, di) /\ CAdd(s5, s6) = R(er, -ei, dr, -di)
       /\ CAdd(s11, s12) = R(dr, di, er, -ei) /\ CSub(s11, s12) = R(dr, -di, er, ei)
  <2> HIDE DEF s7, s8, s9, s10
  <2> DEFINE b == Scaled(s7, er)  c == Scaled(s8, dr)  bb == Scaled(s7, dr)  cc == Scaled(s8, er)
  <2>1. Outer(T[0], b, c, s10, s9, ei, di) BY <1>4, <1>5, <1>7, <1>8, OuterInner, Zenon
  <2>2. Inner(T[0], bb, cc, s10, s9, ei, di) BY <1>4, <1>5, <1>7, <1>8, OuterInner, Zenon
  <2>3. CSub(s5, s6) = R(er, ei, dr, di) BY <2>1 DEF Outer
  <2>4. CAdd(s5, s6) = R(er, -ei, dr, -di) BY <2>1 DEF Outer
  <2>5. CAdd(s11, s12) = R(dr, di, er, -ei) BY <2>2 DEF Inner
  <2>6. CSub(s11, s12) = R(dr, -di, er, ei) BY <2>2 DEF Inner
  <2> QED BY <2>3, <2>4, <2>5, <2>6
<1>11. W(One, One, One, One) = CAdd(T[0], CAdd(s7, s8))
  <2>1. CMul(T[1], One) = T[1] /\ CMul(T[2], One) = T[2] /\ CMul(T[3], One) = T[3]
        /\ CMul(T[4], One) = T[4]
    BY <1>4, MulRing
  <2>2. CAdd(CAdd(CAdd(CAdd(T[0], T[1]), T[2]), T[3]), T[4]) = CAdd(CAdd(T[0], s7), s8)
    BY <1>4, Fold5, SMTT(30)
  <2>3. CAdd(CAdd(T[0], s7), s8) = CAdd(T[0], CAdd(s7, s8))
    <3> HIDE DEF s7, s8
    <3> QED BY <1>4, <1>7, AddRing
  <2> QED BY <2>1, <2>2, <2>3
<1>12. /\ R(er, ei, dr, di) = W(e, d, Conj(d), Conj(e))
       /\ R(er, -ei, dr, -di) = W(Conj(e), Conj(d), d, e)
       /\ R(dr, di, er, -ei) = W(d, Conj(e), e, Conj(d))
       /\ R(dr, -di, er, ei) = W(Conj(d), e, Conj(e), d)
  <2> HIDE DEF W, R
  <2>1. R(er, ei, dr, di) = W(e, d, Conj(d), Conj(e)) BY <1>5, <1>9
  <2>2. R(er, -ei, dr, -di) = W(Conj(e), Conj(d), Conj(Conj(d)), Conj(Conj(e)))
    BY <1>5, <1>6, <1>9
  <2>3. R(dr, di, er, -ei) = W(d, Conj(e), Conj(Conj(e)), Conj(d)) BY <1>5, <1>6, <1>9
  <2>4. R(dr, -di, er, ei) = W(Conj(d), e, Conj(e), Conj(Conj(d))) BY <1>5, <1>6, <1>9
  <2> QED BY <1>6, <2>1, <2>2, <2>3, <2>4
<1>13. e = S(1) /\ d = S(2) BY DEF e, d
<1> HIDE DEF g, S, tw, s5, s6, s7, s8, s9, s10, s11, s12, B, W, R
<1>14. /\ B[1] = CAdd(T[0], CAdd(s7, s8)) /\ B[2] = CSub(s5, s6) /\ B[3] = CAdd(s11, s12)
       /\ B[4] = CSub(s11, s12) /\ B[5] = CAdd(s5, s6)
  BY <1>2
<1>15. CASE k = 0
  <2>1. k + 1 = 1 /\ k * 2 = 0 /\ k * 3 = 0 /\ k * 4 = 0 BY <1>15
  <2> QED BY <1>20, <1>3, <1>11, <1>14, <1>15, <2>1 DEF B
<1>16. CASE k = 1
  <2>1. k + 1 = 2 /\ k * 2 = 2 /\ k * 3 = 3 /\ k * 4 = 4 BY <1>16
  <2> QED BY <1>20, <1>3, <1>10, <1>12, <1>13, <1>14, <1>16, <2>1 DEF B
<1>17. CASE k = 2
  <2>1. k + 1 = 3 /\ k * 2 = 4 /\ k * 3 = 6 /\ k * 4 = 8 BY <1>17
  <2> QED BY <1>20, <1>3, <1>10, <1>12, <1>13, <1>14, <1>17, <2>1 DEF B
<1>18. CASE k = 3
  <2>1. k + 1 = 4 /\ k * 2 = 6 /\ k * 3 = 9 /\ k * 4 = 12 BY <1>18
  <2> QED BY <1>20, <1>3, <1>10, <1>12, <1>13, <1>14, <1>18, <2>1 DEF B
<1>19. CASE k = 4
  <2>1. k + 1 = 5 /\ k * 2 = 8 /\ k * 3 = 12 /\ k * 4 = 16 BY <1>19
  <2> QED BY <1>20, <1>3, <1>10, <1>12, <1>13, <1>14, <1>19, <2>1 DEF B
<1> QED BY <1>15, <1>16, <1>17, <1>18, <1>19

\* Whatever its radix, a butterfly gives the sums of its block: kf_bfly2, 3, 4
\* and 5 with their folded sums, and kf_bfly_generic with its index that walks
\* round the twiddles, for either direction (kiss_fft.c:29-319).
THEOREM ButterflyTrue ==
  ASSUME NEW st, NEW a, NEW fs, NEW m, NEW p, NEW u, Column(st, a, fs, m, p, u),
         NEW k \in 0 .. p - 1
  PROVE  Butterfly(a, st, fs, m, p, u)[k + 1] = Wanted(st, a, fs, p, u + k * m)
<1>1. CASE p = 2 BY <1>1, RadixTwo
<1>2. CASE p = 3 BY <1>2, RadixThree
<1>3. CASE p = 4 BY <1>3, RadixFour
<1>4. CASE p = 5 BY <1>4, RadixFive
<1>5. CASE p \notin {2, 3, 4, 5}
  <2>1. Butterfly(a, st, fs, m, p, u) = BflyGeneric(a, st, fs, m, p, u) BY <1>5 DEF Butterfly
  <2> QED BY <2>1, GenericButterfly
<1> QED BY <1>1, <1>2, <1>3, <1>4, <1>5

-----------------------------------------------------------------------------
\* The stages, one after another.
InBlock(o, m, p, mm, n, q) ==
  LET b == (o \div mm) * mm + (o % m) + q * m
  IN  /\ b \in 0 .. n - 1 /\ b \div mm = o \div mm /\ b % mm = (o % m) + q * m
      /\ b % m = o % m /\ (b % mm) \div m = q
      /\ (o % mm) \div m \in 0 .. p - 1 /\ o % m \in 0 .. m - 1 /\ o % mm \in 0 .. mm - 1
      /\ o % mm = (o % m) + ((o % mm) \div m) * m

LEMMA Blockwise ==
  ASSUME NEW m \in Nat \ {0}, NEW p \in Nat \ {0}, NEW mm \in Nat \ {0}, mm = p * m,
         NEW n \in Nat \ {0}, NEW r \in Nat \ {0}, mm * r = n, NEW o \in 0 .. n - 1,
         NEW q \in 0 .. p - 1
  PROVE  InBlock(o, m, p, mm, n, q)
<1> DEFINE u == o % m  h == o \div mm  k == (o \div m) % p  w == u + q * m  v == o % mm
<1>1. InSteps(o, m, p, mm) BY Nested
<1>2. /\ u \in 0 .. m - 1 /\ k \in 0 .. p - 1 /\ h \in Int /\ v = k * m + u /\ v \in 0 .. mm - 1
  BY <1>1 DEF InSteps
<1>3. o = h * mm + v BY <1>1 DEF InSteps
<1> HIDE DEF u, h, k, v
<1>4. v \div m = k /\ v % m = u BY <1>2, Remainder
<1>5. w \in 0 .. mm - 1
  <2>1. q * m \in Nat OBVIOUS
  <2>2. (p - 1 - q) * m \in Nat
    <3>1. p - 1 - q \in Nat OBVIOUS
    <3> QED BY <3>1
  <2>3. (p - 1 - q) * m = p * m - m - q * m OBVIOUS
  <2> QED BY <1>2, <2>1, <2>2, <2>3
<1>6. w % m = u /\ w \div m = q
  <2>1. w = q * m + u BY <1>2
  <2> HIDE DEF w
  <2> QED BY <1>2, <2>1, Remainder
<1> HIDE DEF w
<1>7. (h * mm + w) % mm = w /\ (h * mm + w) \div mm = h BY <1>2, <1>5, Remainder
<1>8. h >= 0 /\ h <= r - 1
  <2>1. h < 0 => (-h - 1) * mm >= 0
    <3> SUFFICES ASSUME h < 0 PROVE (-h - 1) * mm >= 0 OBVIOUS
    <3>1. -h - 1 \in Nat BY <1>2
    <3> QED BY <3>1
  <2>2. (-h - 1) * mm = -(h * mm) - mm BY <1>2
  <2>3. h > r - 1 => (h - r) * mm >= 0
    <3> SUFFICES ASSUME h > r - 1 PROVE (h - r) * mm >= 0 OBVIOUS
    <3>1. h - r \in Nat BY <1>2
    <3> QED BY <3>1
  <2>4. (h - r) * mm = h * mm - mm * r BY <1>2
  <2>5. h * mm \in Int BY <1>2
  <2> QED BY <1>2, <1>3, <2>1, <2>2, <2>3, <2>4, <2>5
<1>9. h * mm + w \in 0 .. n - 1
  <2>1. h * mm \in Nat
    <3>1. h \in Nat BY <1>2, <1>8
    <3> QED BY <3>1
  <2>2. (r - 1 - h) * mm \in Nat
    <3>1. r - 1 - h \in Nat BY <1>2, <1>8
    <3> QED BY <3>1
  <2>3. (r - 1 - h) * mm = mm * r - mm - h * mm BY <1>2
  <2> QED BY <1>5, <2>1, <2>2, <2>3
<1>10. (h * mm + w) % m = u
  <2>1. h * mm = (h * p) * m /\ h * p \in Int
    <3>1. h * (p * m) = (h * p) * m BY <1>2
    <3> QED BY <1>2, <3>1
  <2>2. (h * p + q) * m = (h * p) * m + q * m /\ h * p + q \in Int BY <1>2
  <2>3. (h * mm + w) = (h * p + q) * m + u
    <3>1. (h * p) * m \in Int /\ q * m \in Int BY <1>2
    <3> QED BY <1>2, <2>1, <2>2, <3>1 DEF w
  <2> DEFINE z == h * p + q
  <2>4. z \in Int BY <2>2
  <2> HIDE DEF z
  <2>5. (z * m + u) % m = u BY <1>2, <2>4, Remainder
  <2> QED BY <2>3, <2>5 DEF z
<1>11. h * mm + (o % m) + q * m = h * mm + w
  <2>1. h * mm \in Int /\ q * m \in Int BY <1>2
  <2> QED BY <1>2, <2>1 DEF w, u
<1>12. v = u + k * m
  <2>1. k * m \in Int BY <1>2
  <2> QED BY <1>2, <2>1
<1>13. /\ v \div m \in 0 .. p - 1 /\ u \in 0 .. m - 1 /\ v \in 0 .. mm - 1
       /\ v = u + (v \div m) * m
  BY <1>2, <1>4, <1>12
<1> QED BY <1>6, <1>7, <1>9, <1>10, <1>11, <1>13, Zenon DEF InBlock, h, u, w, v

\* What the stages above level l leave: blocks of Span(st, l) values, each the
\* transform of the values of the input that are Ratio(st, l) apart.
Strided(st, x, l, b, v) ==
  [j \in 0 .. Span(st, l) - 1 |->
     CMul(x[b + j * Ratio(st, l)], Turned(st, (v * j) * Ratio(st, l)))]
Staged(st, x, l, f) ==
  /\ DOMAIN f = 0 .. st.nfft - 1
  /\ \A o \in 0 .. st.nfft - 1 :
        f[o] = CSum(Strided(st, x, l, Offsets(st, o)[l], o % Span(st, l)), Span(st, l))

LEMMA StridedTerms ==
  ASSUME NEW st, Planned(st), NEW x, Terms(x, st.nfft), NEW l \in 0 .. Len(st.factors),
         NEW b \in 0 .. Ratio(st, l) - 1, NEW v \in Int
  PROVE  /\ Terms(Strided(st, x, l, b, v), Span(st, l))
         /\ \A j \in 0 .. Span(st, l) - 1 :
               /\ b + j * Ratio(st, l) \in 0 .. st.nfft - 1
               /\ x[b + j * Ratio(st, l)] \in C
               /\ Turned(st, (v * j) * Ratio(st, l)) \in C
<1> DEFINE s == Span(st, l)  r == Ratio(st, l)  n == st.nfft
<1>1. s \in Nat \ {0} /\ r \in Nat \ {0} /\ s * r = n BY Spans
<1>2. ASSUME NEW j \in 0 .. s - 1 PROVE b + j * r \in 0 .. n - 1 /\ (v * j) * r \in Int
  <2> HIDE DEF s, r, n
  <2>1. j * r \in Nat /\ (s - 1 - j) * r \in Nat
    <3>1. j \in Nat /\ s - 1 - j \in Nat BY <1>1
    <3> QED BY <1>1, <3>1
  <2>2. (s - 1 - j) * r = s * r - r - j * r BY <1>1
  <2>3. b \in 0 .. r - 1 BY DEF r
  <2>4. v * j \in Int BY <1>1
  <2> QED BY <1>1, <2>1, <2>2, <2>3, <2>4
<1>3. ASSUME NEW j \in 0 .. s - 1
      PROVE  /\ b + j * r \in 0 .. n - 1 /\ x[b + j * r] \in C /\ Turned(st, (v * j) * r) \in C
             /\ Strided(st, x, l, b, v)[j] \in C
  <2> DEFINE i == b + j * r  w == (v * j) * r
  <2>1. i \in 0 .. n - 1 /\ w \in Int BY <1>2
  <2>2. Strided(st, x, l, b, v)[j] = CMul(x[i], Turned(st, w)) BY DEF Strided
  <2> HIDE DEF i, w
  <2>3. x[i] \in C BY <2>1 DEF Terms
  <2>4. Turned(st, w) \in C BY <2>1, TurnedLaws
  <2> HIDE DEF s, r, n
  <2> QED BY <2>1, <2>2, <2>3, <2>4, Closed, Zenon DEF i, w
<1> QED BY <1>3 DEF Terms

LEMMA StagedTerms ==
  ASSUME NEW st, Planned(st), NEW x, Terms(x, st.nfft), NEW l \in 0 .. Len(st.factors),
         NEW f, Staged(st, x, l, f)
  PROVE  Terms(f, st.nfft)
<1> SUFFICES ASSUME NEW o \in 0 .. st.nfft - 1 PROVE f[o] \in C BY DEF Terms
<1> DEFINE s == Span(st, l)  b == Offsets(st, o)[l]  v == o % s
<1>1. s \in Nat \ {0} /\ o \in Int BY Spans, Senses
<1>2. b \in 0 .. Ratio(st, l) - 1 BY <1>1, OffsetRange
<1>3. v \in Int BY <1>1
<1>4. f[o] = CSum(Strided(st, x, l, b, v), s) BY DEF Staged
<1> HIDE DEF b, v
<1>5. Terms(Strided(st, x, l, b, v), s) BY <1>2, <1>3, StridedTerms, Zenon
<1> HIDE DEF s
<1> QED BY <1>1, <1>4, <1>5, SumType

LEMMA StagedFirst ==
  ASSUME NEW st, Planned(st), NEW x, Terms(x, st.nfft), DOMAIN x = 0 .. st.nfft - 1
  PROVE  Staged(st, x, Len(st.factors), kf_shuffle(st, x))
<1> DEFINE l == Len(st.factors)  f == kf_shuffle(st, x)  n == st.nfft
<1>1. n \in Nat \ {0} /\ l \in Nat \ {0} /\ l \in 0 .. l /\ st.factors[l].m = 1
  BY Senses, SMTT(30) DEF Planned, Chain
<1>2. Span(st, l) = 1 BY <1>1 DEF Span
<1>3. ASSUME NEW o \in 0 .. n - 1
      PROVE  f[o] = CSum(Strided(st, x, l, Offsets(st, o)[l], o % Span(st, l)), Span(st, l))
  <2> DEFINE b == Offsets(st, o)[l]  g == Strided(st, x, l, b, o % 1)  r == Ratio(st, l)
  <2>1. o \in Int BY <1>1
  <2>2. b \in 0 .. r - 1 /\ Source(st, o) = b
    <3>1. b \in 0 .. r - 1 BY <1>1, <2>1, OffsetRange
    <3>2. Source(st, o) = b BY <2>1, OffsetsExist
    <3> QED BY <3>1, <3>2
  <2>3. f[o] = x[b] BY <2>2 DEF kf_shuffle
  <2>4. r \in Nat \ {0} BY <1>1, Spans
  <2>5. o % 1 = 0 /\ 0 \in 0 .. 1 - 1
    <3>1. o % 1 \in 0 .. 1 - 1
      <4>1. 1 \in Nat \ {0} OBVIOUS
      <4> QED BY <2>1, <4>1, Division
    <3> QED BY <3>1
  <2>6. g[0] = CMul(x[b + 0 * r], Turned(st, (0 * 0) * r))
    <3> HIDE DEF b
    <3> QED BY <1>2, <2>5 DEF Strided
  <2>7. b + 0 * r = b /\ (0 * 0) * r = 0
    <3> HIDE DEF r, b
    <3> QED BY <2>2, <2>4
  <2>8. x[b] \in C /\ Terms(g, 1)
    <3>0. l \in 0 .. Len(st.factors) BY <1>1
    <3> HIDE DEF b, l
    <3>1. o % 1 \in Int BY <2>5
    <3>2. Terms(g, Span(st, l)) BY <2>2, <3>0, <3>1, StridedTerms
    <3>3. b + 0 * r \in 0 .. n - 1
      <4>1. 0 \in 0 .. Span(st, l) - 1 BY <1>2
      <4> QED BY <2>2, <3>0, <3>1, <4>1, StridedTerms
    <3> QED BY <1>2, <2>7, <3>2, <3>3 DEF Terms
  <2>9. Turned(st, 0) = One BY TurnedLaws
  <2> HIDE DEF b, g, f, r, l
  <2>10. g[0] = x[b]
    <3>1. CMul(x[b], One) = x[b] BY <2>8, MulRing
    <3> QED BY <2>6, <2>7, <2>9, <3>1
  <2>11. CSum(g, 1) = g[0] BY <2>8, <2>10, SumOne
  <2> QED BY <1>2, <2>3, <2>10, <2>11 DEF b, g
<1>4. DOMAIN f = 0 .. n - 1 BY DEF kf_shuffle
<1> QED BY <1>3, <1>4 DEF Staged

LEMMA StagedLast ==
  ASSUME NEW st, Planned(st), NEW x, Terms(x, st.nfft), NEW f, Staged(st, x, 0, f),
         NEW o \in 0 .. st.nfft - 1
  PROVE  f[o] = Spectrum(x, st.nfft, -(Sense(st) * o))
<1> DEFINE n == st.nfft  s == Sense(st)  g == Strided(st, x, 0, Offsets(st, o)[0], o % n)
           h == [t \in 0 .. n - 1 |-> CMul(x[t], kf_cexp(-((-(s * o)) * t), n))]
<1>1. n \in Nat \ {0} /\ s \in Int /\ o \in Int BY Senses
<1>2. Span(st, 0) = n BY DEF Span
<1>3. Ratio(st, 0) = 1
  <2>1. n \div n = 1
    <3>1. 0 \in 0 .. n - 1 /\ 1 \in Int /\ 1 * n + 0 = n BY <1>1
    <3> HIDE DEF n
    <3>2. (1 * n + 0) \div n = 1 BY <1>1, <3>1, Remainder
    <3> QED BY <3>1, <3>2
  <2> QED BY <1>2, <2>1 DEF Ratio
<1>4. Offsets(st, o)[0] = 0 BY <1>1, OffsetsExist
<1>5. o % n = o
  <2>1. 0 * n + o = o BY <1>1
  <2>2. 0 \in Int OBVIOUS
  <2> HIDE DEF n
  <2>3. (0 * n + o) % n = o BY <1>1, <2>2, Remainder DEF n
  <2> QED BY <2>1, <2>3
<1>6. f[o] = CSum(g, n) BY <1>2 DEF Staged
<1>7. ASSUME NEW t \in 0 .. n - 1 PROVE g[t] = h[t]
  <2>1. g[t] = CMul(x[0 + t * 1], Turned(st, (o * t) * 1))
    <3> HIDE DEF n
    <3> QED BY <1>2, <1>3, <1>4, <1>5 DEF Strided, n
  <2>2. 0 + t * 1 = t /\ (o * t) * 1 = o * t BY <1>1
  <2>3. s * (o * t) = -((-(s * o)) * t)
    <3> HIDE DEF s
    <3>1. s * (o * t) = (s * o) * t /\ s * o \in Int BY <1>1
    <3> DEFINE w == s * o
    <3>2. w \in Int BY <3>1
    <3> HIDE DEF w
    <3>3. w * t = -((-w) * t) BY <1>1, <3>2
    <3> QED BY <3>1, <3>3 DEF w
  <2>4. Turned(st, o * t) = kf_cexp(-((-(s * o)) * t), n) BY <2>3 DEF Turned
  <2> QED BY <2>1, <2>2, <2>4
<1>8. g = [t \in 0 .. n - 1 |-> g[t]] BY <1>2 DEF Strided
<1>9. g = h
  <2>1. h = [t \in 0 .. n - 1 |-> h[t]] OBVIOUS
  <2> HIDE DEF g, h
  <2> QED BY <1>7, <1>8, <2>1
<1> QED BY <1>6, <1>9 DEF Spectrum

\* The terms of a block of p times m values, taken apart into those of p blocks.
Apart(st, x, l, b, v, u, k, q, j) ==
  LET p == st.factors[l].p
      r == Ratio(st, l - 1)
  IN  /\ b + q * r \in 0 .. Ratio(st, l) - 1
      /\ Strided(st, x, l - 1, b, v)[q + p * j]
           = CMul(Turned(st, (v * q) * r), Strided(st, x, l, b + q * r, u)[j])
      /\ Turned(st, (v * q) * r) \in C

LEMMA StridedApart ==
  ASSUME NEW st, Planned(st), NEW x, Terms(x, st.nfft), NEW l \in 1 .. Len(st.factors),
         NEW b \in 0 .. Ratio(st, l - 1) - 1, NEW v \in Int, NEW u \in Int, NEW k \in Int,
         v = u + k * Span(st, l),
         NEW q \in 0 .. st.factors[l].p - 1, NEW j \in 0 .. Span(st, l) - 1
  PROVE  Apart(st, x, l, b, v, u, k, q, j)
<1> DEFINE p == st.factors[l].p  r == Ratio(st, l - 1)  m == Span(st, l)  rr == Ratio(st, l)
           mm == Span(st, l - 1)  n == st.nfft  c == b + q * r
<1>1. /\ m \in Nat \ {0} /\ rr \in Nat \ {0} /\ m * rr = n /\ l - 1 \in 0 .. Len(st.factors)
      /\ p \in Nat \ {0} /\ p * m = mm /\ rr = p * r /\ l \in 0 .. Len(st.factors)
  <2>1. l \in 0 .. Len(st.factors) /\ l > 0 OBVIOUS
  <2> QED BY <2>1, Spans, Zenon
<1>2. mm \in Nat \ {0} /\ r \in Nat \ {0} /\ mm * r = n BY <1>1, Spans
<1>3. q \in 0 .. p - 1 /\ j \in 0 .. m - 1 /\ v = u + k * m /\ b \in 0 .. r - 1 OBVIOUS
<1> HIDE DEF p, m, mm, r, rr, n
<1>4. q + p * j \in 0 .. mm - 1
  <2>1. (m - 1 - j) * p \in Nat /\ p * j \in Nat
    <3>1. m - 1 - j \in Nat /\ j \in Nat BY <1>1, <1>3
    <3> QED BY <1>1, <3>1
  <2>2. (m - 1 - j) * p = p * m - p - p * j BY <1>1, <1>3
  <2> DEFINE d == (m - 1 - j) * p  y == p * j
  <2>3. d \in Nat /\ y \in Nat /\ d = mm - p - y BY <1>1, <2>1, <2>2
  <2>4. p \in Nat /\ mm \in Nat /\ q \in Nat /\ q <= p - 1 BY <1>1, <1>2, <1>3
  <2> HIDE DEF d, y
  <2>5. q + y \in 0 .. mm - 1 BY <2>3, <2>4
  <2> QED BY <2>5 DEF y
<1>5. c \in 0 .. rr - 1
  <2>1. (p - 1 - q) * r \in Nat /\ q * r \in Nat
    <3>1. p - 1 - q \in Nat /\ q \in Nat BY <1>1, <1>3, SMTT(30)
    <3> QED BY <1>2, <3>1
  <2>2. (p - 1 - q) * r = p * r - r - q * r BY <1>1, <1>2, <1>3
  <2> DEFINE d == (p - 1 - q) * r  y == q * r
  <2>3. d \in Nat /\ y \in Nat /\ d = rr - r - y BY <1>1, <2>1, <2>2
  <2>4. r \in Nat /\ rr \in Nat /\ b \in Nat /\ b <= r - 1 BY <1>1, <1>2, <1>3
  <2> HIDE DEF d, y, c
  <2>5. b + y \in 0 .. rr - 1 BY <2>3, <2>4
  <2> QED BY <2>5 DEF y, c
<1>6. b + (q + p * j) * r = c + j * rr
  <2>1. (q + p * j) * r = q * r + (p * j) * r BY <1>1, <1>2, <1>3
  <2>2. (p * j) * r = j * (p * r) BY <1>1, <1>2, <1>3
  <2> DEFINE d == (p * j) * r  y == q * r  e == j * rr
  <2>3. y \in Int /\ e \in Int /\ d = e /\ b \in Int BY <1>1, <1>2, <1>3, <2>2
  <2>4. (q + p * j) * r = y + d BY <2>1
  <2>5. c = b + y OBVIOUS
  <2> HIDE DEF d, y, e, c
  <2>6. b + (y + d) = c + e BY <2>3, <2>5
  <2> QED BY <2>4, <2>6 DEF e
<1> DEFINE w == (v * q) * r  z == (u * j) * rr  y == k * j
<1>7. w \in Int /\ z \in Int /\ y \in Int
  <2>1. v * q \in Int /\ u * j \in Int BY <1>1, <1>3
  <2> QED BY <1>1, <1>2, <1>3, <2>1
<1>8. (v * (q + p * j)) * r = (w + z) + y * n
  <2>1. v * (q + p * j) = v * q + (v * j) * p
    <3>1. v * (p * j) = (v * j) * p BY <1>1, <1>3
    <3> QED BY <1>1, <1>3, <3>1
  <2>2. (v * q + (v * j) * p) * r = (v * q) * r + ((v * j) * p) * r
    <3>1. v * q \in Int /\ (v * j) * p \in Int BY <1>1, <1>3, SMTT(30)
    <3> QED BY <1>2, <3>1
  <2>3. ((v * j) * p) * r = (v * j) * (p * r)
    <3>1. v * j \in Int BY <1>3
    <3> QED BY <1>1, <1>2, <3>1
  <2>4. v * j = u * j + y * m
    <3>1. (u + k * m) * j = u * j + (k * j) * m BY <1>1, <1>3
    <3> QED BY <1>3, <3>1
  <2>5. (u * j + y * m) * rr = (u * j) * rr + y * (m * rr)
    <3> DEFINE a == u * j  d == y * m
    <3>1. a \in Int /\ d \in Int /\ rr \in Int BY <1>1, <1>3, <1>7
    <3>2. (a + d) * rr = a * rr + d * rr
      <4> HIDE DEF a, d
      <4> QED BY <3>1
    <3>3. d * rr = y * (m * rr)
      <4> HIDE DEF y
      <4> QED BY <1>1, <1>7
    <3> QED BY <3>2, <3>3
  <2>6. (v * j) * (p * r) = z + y * n
    <3> HIDE DEF y
    <3> QED BY <1>1, <2>4, <2>5
  <2> DEFINE a == v * q  d == (v * j) * p  e == y * n
  <2>7. a * r \in Int /\ d * r = z + e /\ (a + d) * r = a * r + d * r /\ e \in Int
    <3>1. e \in Int BY <1>2, <1>7
    <3> QED BY <1>7, <2>2, <2>3, <2>6, <3>1
  <2>8. w = a * r /\ v * (q + p * j) = a + d BY <2>1
  <2> HIDE DEF a, d, e, w, z
  <2> QED BY <1>7, <2>7, <2>8 DEF e
<1> HIDE DEF w, z, y
<1>9. /\ Turned(st, w) \in C /\ Turned(st, z) \in C
      /\ Turned(st, w + z) = CMul(Turned(st, w), Turned(st, z))
  BY <1>7, TurnedLaws
<1>10. Turned(st, (w + z) + y * st.nfft) = Turned(st, w + z)
  <2> DEFINE i == w + z
  <2>1. i \in Int BY <1>7
  <2> HIDE DEF i
  <2>2. Turned(st, i + y * st.nfft) = Turned(st, i) BY <1>7, <2>1, TurnedLaws, Zenon
  <2> QED BY <2>2 DEF i
<1> DEFINE X == x[c + j * rr]
<1>11. X \in C
  <2> HIDE DEF c
  <2>1. x[c + j * Ratio(st, l)] \in C BY <1>1, <1>3, <1>5, StridedTerms, Zenon DEF m, rr
  <2> QED BY <2>1 DEF rr
<1>12. Strided(st, x, l, c, u)[j] = CMul(X, Turned(st, z)) BY <1>3 DEF Strided, z, m, rr
<1>13. Strided(st, x, l - 1, b, v)[q + p * j] = CMul(X, Turned(st, w + z))
  <2> DEFINE i == q + p * j
  <2>1. i \in 0 .. Span(st, l - 1) - 1 BY <1>4 DEF mm
  <2>2. b + i * r = c + j * rr /\ (v * i) * r = (w + z) + y * n BY <1>6, <1>8
  <2> HIDE DEF i, c, X
  <2>3. Strided(st, x, l - 1, b, v)[i] = CMul(x[b + i * r], Turned(st, (v * i) * r))
    BY <2>1 DEF Strided, r
  <2> QED BY <1>10, <2>2, <2>3 DEF i, X, n
<1> HIDE DEF X, c
<1>14. CMul(X, CMul(Turned(st, w), Turned(st, z))) = CMul(Turned(st, w), CMul(X, Turned(st, z)))
  <2>1. CMul(X, CMul(Turned(st, w), Turned(st, z))) = CMul(CMul(Turned(st, w), Turned(st, z)), X)
    BY <1>9, <1>11, MulRing, Closed
  <2>2. CMul(CMul(Turned(st, w), Turned(st, z)), X) = CMul(Turned(st, w), CMul(Turned(st, z), X))
    BY <1>9, <1>11, MulRing
  <2>3. CMul(Turned(st, z), X) = CMul(X, Turned(st, z)) BY <1>9, <1>11, MulRing
  <2> QED BY <2>1, <2>2, <2>3
<1> QED BY <1>5, <1>9, <1>12, <1>13, <1>14 DEF c, w, p, r, rr, mm, Apart

LEMMA StagedStep ==
  ASSUME NEW st, Planned(st), NEW x, Terms(x, st.nfft), NEW l \in 1 .. Len(st.factors),
         NEW f, Staged(st, x, l, f)
  PROVE  Staged(st, x, l - 1, Stage(st, l, f))
<1> DEFINE p == st.factors[l].p  r == Ratio(st, l - 1)  m == Span(st, l)  rr == Ratio(st, l)
           mm == Span(st, l - 1)  n == st.nfft  F == Stage(st, l, f)
<1>1. /\ m \in Nat \ {0} /\ rr \in Nat \ {0} /\ m * rr = n /\ l - 1 \in 0 .. Len(st.factors)
      /\ p \in Nat \ {0} /\ p * m = mm /\ rr = p * r /\ m = st.factors[l].m
      /\ l \in 0 .. Len(st.factors)
  <2>1. l \in 0 .. Len(st.factors) /\ l > 0 OBVIOUS
  <2> QED BY <2>1, Spans
<1>2. mm \in Nat \ {0} /\ r \in Nat \ {0} /\ mm * r = n /\ n \in Nat \ {0}
  BY <1>1, Spans, Senses
<1>3. DOMAIN f = 0 .. n - 1 /\ DOMAIN F = 0 .. n - 1 /\ Terms(f, n)
  <2>1. DOMAIN f = 0 .. n - 1 BY DEF Staged
  <2>2. DOMAIN F = 0 .. n - 1 BY <2>1 DEF Stage
  <2> QED BY <1>1, <2>1, <2>2, StagedTerms
<1>4. ASSUME NEW o \in 0 .. n - 1
      PROVE  F[o] = CSum(Strided(st, x, l - 1, Offsets(st, o)[l - 1], o % mm), mm)
  <2> DEFINE u == o % m  k == (o % mm) \div m  v == o % mm  b == Offsets(st, o)[l - 1]
             a == [q \in 0 .. p - 1 |-> f[(o \div mm) * mm + (o % m) + q * m]]
             g == Strided(st, x, l - 1, b, v)
  <2>0. o \in Int BY <1>2
  <2>1. b \in 0 .. r - 1 BY <1>1, <2>0, OffsetRange
  <2>2. /\ k \in 0 .. p - 1 /\ u \in 0 .. m - 1 /\ v \in 0 .. mm - 1 /\ v = u + k * m
        /\ \A q \in 0 .. p - 1 : InBlock(o, m, p, mm, n, q)
    <3> HIDE DEF p, m, mm, r, n
    <3>1. ASSUME NEW q \in 0 .. p - 1 PROVE InBlock(o, m, p, mm, n, q)
      BY <1>1, <1>2, Blockwise, Zenon
    <3>2. InBlock(o, m, p, mm, n, 0)
      <4>1. 0 \in 0 .. p - 1 BY <1>1
      <4> QED BY <3>1, <4>1
    <3>3. /\ k \in 0 .. p - 1 /\ u \in 0 .. m - 1 /\ v \in 0 .. mm - 1 /\ v = u + k * m
      BY <3>2 DEF InBlock
    <3> QED BY <3>1, <3>3
  <2>3. ASSUME NEW q \in 0 .. p - 1
        PROVE  a[q] \in C /\ a[q] = CSum(Strided(st, x, l, b + q * r, u), m)
    <3> DEFINE h == (o \div mm) * mm + (o % m) + q * m  c == Offsets(st, h)[l]
    <3>1. /\ h \in 0 .. n - 1 /\ h \div mm = o \div mm /\ h % mm = u + q * m
          /\ h % m = u /\ (h % mm) \div m = q
      BY <2>2 DEF InBlock
    <3>2. a[q] = f[h] OBVIOUS
    <3> HIDE DEF h
    <3>3. f[h] = CSum(Strided(st, x, l, c, h % m), m) BY <3>1 DEF Staged
    <3>4. h \in Int BY <1>2, <3>1
    <3>5. c = Offsets(st, h)[l - 1] + Digit(st, h, l) * r BY <3>4, OffsetsExist
    <3>6. Digit(st, h, l) = q BY <3>1 DEF Digit
    <3>7. Offsets(st, h)[l - 1] = b
      <4> HIDE DEF b
      <4> QED BY <1>1, <2>0, <3>1, <3>4, OffsetSame, Zenon DEF b
    <3>8. f[h] \in C BY <1>3, <3>1 DEF Terms
    <3> HIDE DEF c, a
    <3> QED BY <3>1, <3>2, <3>3, <3>5, <3>6, <3>7, <3>8
  <2>4. Column(st, a, r, m, p, u)
    <3>1. (p * m) * r = n BY <1>1, <1>2
    <3>2. Terms(a, p) BY <2>3 DEF Terms
    <3> HIDE DEF p, r, m, u, a, n
    <3> QED BY <1>1, <1>2, <2>2, <3>1, <3>2 DEF Column, n
  <2>5. F[o] = Butterfly(a, st, r, m, p, u)[k + 1]
    <3>1. st.nfft \div mm = r BY DEF Ratio
    <3>2. F[o] = Butterfly(a, st, st.nfft \div mm, m, p, u)[k + 1]
      BY <1>1, <1>3, Zenon DEF Stage
    <3> HIDE DEF a, mm, m, r, k, u, F
    <3> QED BY <3>1, <3>2
  <2>6. F[o] = Wanted(st, a, r, p, v)
    <3> HIDE DEF a, mm, m, r, k, u, v, F, p
    <3>1. Butterfly(a, st, r, m, p, u)[k + 1] = Wanted(st, a, r, p, u + k * m)
      BY <2>2, <2>4, ButterflyTrue
    <3> QED BY <2>2, <2>5, <3>1
  <2>7. Terms(g, mm) /\ v \in Int /\ u \in Int /\ k \in Int
    <3>1. v \in Int /\ u \in Int /\ k \in Int
      <4>1. m \in Int /\ mm \in Int /\ p \in Int BY <1>1
      <4>2. k \in 0 .. p - 1 /\ u \in 0 .. m - 1 /\ v \in 0 .. mm - 1 BY <2>2
      <4> HIDE DEF v, u, k, p, m, mm
      <4>3. v \in Int BY <4>1, <4>2
      <4>4. u \in Int BY <4>1, <4>2
      <4>5. k \in Int BY <4>1, <4>2
      <4> QED BY <4>3, <4>4, <4>5
    <3> HIDE DEF v, b
    <3> QED BY <1>1, <2>1, <3>1, StridedTerms, Zenon
  <2> DEFINE G == [q \in 0 .. p - 1 |-> CSum([j \in 0 .. m - 1 |-> g[q + p * j]], m)]
             W == [q \in 0 .. p - 1 |-> CMul(a[q], Turned(st, (v * q) * r))]
  <2>8. CSum(g, mm) = CSum(G, p)
    <3>1. Terms(g, p * m) /\ p \in Nat /\ m \in Nat BY <1>1, <2>7
    <3> HIDE DEF g, p, m, mm
    <3>2. CSum(g, p * m) = CSum(G, p) BY <3>1, SumInterleave, Zenon
    <3> QED BY <1>1, <3>2
  <2>9. ASSUME NEW q \in 0 .. p - 1 PROVE G[q] = W[q]
    <3> DEFINE s == Strided(st, x, l, b + q * r, u)  e == Turned(st, (v * q) * r)
               h == [j \in 0 .. m - 1 |-> g[q + p * j]]
    <3>1. ASSUME NEW j \in 0 .. m - 1 PROVE h[j] = CMul(e, s[j]) /\ e \in C /\
        b + q * r \in 0 .. rr - 1
      <4>1. h[j] = g[q + p * j] OBVIOUS
      <4>2. g[q + p * j] = CMul(e, s[j]) /\ e \in C /\ b + q * r \in 0 .. rr - 1
        <5> HIDE DEF b, v, u, k
        <5>1. Apart(st, x, l, b, v, u, k, q, j) BY <2>1, <2>2, <2>7, StridedApart
        <5> QED BY <5>1 DEF Apart
      <4> QED BY <4>1, <4>2
    <3>2. e \in C /\ b + q * r \in 0 .. rr - 1
      <4>1. 0 \in 0 .. m - 1 BY <1>1
      <4> QED BY <3>1, <4>1
    <3>3. Terms(s, m)
      <4> DEFINE c == b + q * r
      <4>1. c \in 0 .. Ratio(st, l) - 1 BY <3>2
      <4> HIDE DEF c, u
      <4>2. Terms(Strided(st, x, l, c, u), m) BY <1>1, <2>7, <4>1, StridedTerms, Zenon
      <4> QED BY <4>2 DEF c
    <3>4. G[q] = CSum(h, m) /\ W[q] = CMul(a[q], e) OBVIOUS
    <3>5. a[q] = CSum(s, m) /\ a[q] \in C BY <2>3, Zenon
    <3>6. \A j \in 0 .. m - 1 : h[j] = CMul(e, s[j]) BY <3>1
    <3> HIDE DEF s, e, h, m, G, W, a, p
    <3>7. CSum(h, m) = CMul(e, CSum(s, m)) BY <1>1, <3>2, <3>3, <3>6, SumMul, ZenonT(40)
    <3>8. CMul(e, a[q]) = CMul(a[q], e) BY <3>2, <3>5, MulRing
    <3> QED BY <3>4, <3>5, <3>7, <3>8
  <2>10. G = W
    <3>1. G = [q \in 0 .. p - 1 |-> G[q]] /\ W = [q \in 0 .. p - 1 |-> W[q]] OBVIOUS
    <3> HIDE DEF G, W
    <3> QED BY <2>9, <3>1, Zenon
  <2>11. Wanted(st, a, r, p, v) = CSum(W, p) BY DEF Wanted
  <2> HIDE DEF G, W, g, F, a, p, r, v, b, mm
  <2>12. F[o] = CSum(g, mm) BY <2>6, <2>8, <2>10, <2>11
  <2> QED BY <2>12 DEF g, b, v
<1> QED BY <1>3, <1>4 DEF Staged

LEMMA AllStages ==
  ASSUME NEW st, Planned(st), NEW x, Terms(x, st.nfft), DOMAIN x = 0 .. st.nfft - 1, NEW fout,
         fout[Len(st.factors)] = kf_shuffle(st, x),
         \A l \in 1 .. Len(st.factors) : fout[l - 1] = Stage(st, l, fout[l])
  PROVE  \A o \in 0 .. st.nfft - 1 : fout[0][o] = Spectrum(x, st.nfft, -(Sense(st) * o))
<1> DEFINE L == Len(st.factors)
           A == {j \in Nat : j <= L => Staged(st, x, L - j, fout[L - j])}
<1>1. L \in Nat \ {0} BY DEF Planned, Chain
<1>2. Staged(st, x, L, fout[L]) BY StagedFirst
<1> HIDE DEF L
<1>3. 0 \in A
  <2>1. L - 0 = L BY <1>1
  <2> QED BY <1>2, <2>1
<1>4. ASSUME NEW j \in Nat, j \in A PROVE j + 1 \in A
  <2> SUFFICES ASSUME j + 1 <= L PROVE Staged(st, x, L - (j + 1), fout[L - (j + 1)])
    OBVIOUS
  <2> DEFINE l == L - j
  <2>1. l \in 1 .. L /\ L - (j + 1) = l - 1 /\ j <= L BY <1>1
  <2>2. Staged(st, x, l, fout[l]) BY <1>4, <2>1
  <2>3. fout[l - 1] = Stage(st, l, fout[l]) BY <2>1 DEF L
  <2> HIDE DEF l
  <2>4. Staged(st, x, l - 1, Stage(st, l, fout[l])) BY <2>1, <2>2, StagedStep DEF L
  <2> QED BY <2>1, <2>3, <2>4
<1>5. \A j \in Nat : j \in A
  <2> HIDE DEF A
  <2> QED BY <1>3, <1>4, Induction
<1>6. Staged(st, x, 0, fout[0])
  <2>1. L \in A /\ L - L = 0 BY <1>1, <1>5
  <2> QED BY <1>1, <2>1
<1> QED BY <1>6, StagedLast, Zenon

\* kiss_fft on a plan of kiss_fft_alloc, of any length and direction: after the
\* shuffle and all of kf_work's stages, however many and of whatever radices,
\* Fout holds the discrete Fourier transform of the input, or with the inverse
\* plan the one with the other sign (kiss_fft.c:322-522).
THEOREM KissFft ==
  ASSUME NEW n \in Orders, NEW inverse \in BOOLEAN,
         NEW st, st = kiss_fft_alloc(n, inverse),
         NEW fin \in [0 .. n - 1 -> C], NEW fout,
         fout[Len(st.factors)] = kf_shuffle(st, fin),
         \A l \in 1 .. Len(st.factors) : fout[l - 1] = Stage(st, l, fout[l])
  PROVE  \A k \in 0 .. n - 1 : fout[0][k] = Spectrum(fin, n, IF inverse THEN -k ELSE k)
<1>1. Planned(st) /\ st.nfft = n /\ st.inverse = inverse BY PlanOf
<1>2. Terms(fin, st.nfft) /\ DOMAIN fin = 0 .. st.nfft - 1 BY <1>1 DEF Terms
<1>3. ASSUME NEW k \in 0 .. n - 1
      PROVE  fout[0][k] = Spectrum(fin, n, IF inverse THEN -k ELSE k)
  <2>1. fout[0][k] = Spectrum(fin, n, -(Sense(st) * k)) BY <1>1, <1>2, AllStages
  <2>2. k \in Int /\ -(1 * k) = -k /\ -(-1 * k) = k OBVIOUS
  <2>3. -(Sense(st) * k) = IF inverse THEN -k ELSE k BY <1>1, <2>2 DEF Sense
  <2> QED BY <2>1, <2>3
<1> QED BY <1>3

-----------------------------------------------------------------------------
\* A real signal, and its two halves.
Lengths == {n \in Orders : n % 2 = 0}
Values(n) == [1 .. n -> 0 .. P - 1]
Signal(x) == [t \in 0 .. Len(x) - 1 |-> Complex(x[t + 1], 0)]
Evens(x) == [j \in 0 .. (Len(x) \div 2) - 1 |-> Complex(x[2 * j + 1], 0)]
Odds(x) == [j \in 0 .. (Len(x) \div 2) - 1 |-> Complex(x[2 * j + 2], 0)]

LEMMA HalfLength ==
  ASSUME NEW n \in Lengths
  PROVE  /\ n \in Orders /\ n \div 2 \in Orders /\ n \div 2 \in Nat \ {0}
         /\ (n \div 2) * 2 = n /\ n \in Nat \ {0}
<1> DEFINE h == n \div 2
<1>1. n \in Orders /\ n \in Nat \ {0} /\ n % 2 = 0 BY DEF Lengths, Orders
<1>2. h \in Nat \ {0} /\ 2 * h = n BY <1>1
<1> HIDE DEF h
<1>3. h * 2 = n /\ 2 \in Nat \ {0} BY <1>2
<1>4. h \in Orders
  <2>1. h * 2 \in Orders /\ 0 \in Int BY <1>1, <1>3
  <2> QED BY <1>2, <1>3, <2>1, RootSub
<1> QED BY <1>1, <1>2, <1>3, <1>4 DEF h

LEMMA SignalTerms ==
  ASSUME NEW n \in Lengths, NEW x \in Values(n)
  PROVE  /\ Len(x) = n
         /\ Terms(Signal(x), n) /\ \A t \in 0 .. n - 1 : Conj(Signal(x)[t]) = Signal(x)[t]
         /\ Terms(Evens(x), n \div 2)
         /\ \A t \in 0 .. (n \div 2) - 1 : Conj(Evens(x)[t]) = Evens(x)[t]
         /\ Terms(Odds(x), n \div 2)
         /\ \A t \in 0 .. (n \div 2) - 1 : Conj(Odds(x)[t]) = Odds(x)[t]
         /\ Terms(Pairs(x), n \div 2) /\ DOMAIN Pairs(x) = 0 .. (n \div 2) - 1
         /\ \A j \in 0 .. (n \div 2) - 1 :
               /\ Evens(x)[j] = Signal(x)[2 * j] /\ Odds(x)[j] = Signal(x)[2 * j + 1]
               /\ Pairs(x)[j] = CAdd(Evens(x)[j], CMul(Img, Odds(x)[j]))
<1> DEFINE h == n \div 2
<1>1. n \in Nat \ {0} /\ h \in Nat \ {0} /\ h * 2 = n BY HalfLength
<1>2. Len(x) = n BY <1>1 DEF Values
<1> HIDE DEF h
<1>3. ASSUME NEW o \in 1 .. n PROVE x[o] \in Int BY PIsOdd DEF Values
<1>4. ASSUME NEW v \in Int PROVE Complex(v, 0) \in C /\ Conj(Complex(v, 0)) = Complex(v, 0)
  BY RealInC, RealConj DEF Scalar
<1>5. ASSUME NEW t \in 0 .. n - 1
      PROVE  Signal(x)[t] = Complex(x[t + 1], 0) /\ Signal(x)[t] \in C
             /\ Conj(Signal(x)[t]) = Signal(x)[t] /\ x[t + 1] \in Int
  <2>1. t + 1 \in 1 .. n BY <1>1
  <2>2. x[t + 1] \in Int BY <1>3, <2>1
  <2>3. Signal(x)[t] = Complex(x[t + 1], 0) BY <1>2 DEF Signal
  <2> QED BY <1>4, <2>2, <2>3
<1>6. ASSUME NEW j \in 0 .. h - 1
      PROVE  /\ Evens(x)[j] = Signal(x)[2 * j] /\ Odds(x)[j] = Signal(x)[2 * j + 1]
             /\ Evens(x)[j] \in C /\ Conj(Evens(x)[j]) = Evens(x)[j]
             /\ Odds(x)[j] \in C /\ Conj(Odds(x)[j]) = Odds(x)[j]
             /\ Pairs(x)[j] = CAdd(Evens(x)[j], CMul(Img, Odds(x)[j])) /\ Pairs(x)[j] \in C
  <2>1. 2 * j \in 0 .. n - 1 /\ 2 * j + 1 \in 0 .. n - 1 /\ (2 * j + 1) + 1 = 2 * j + 2 BY <1>1
  <2>2. Evens(x)[j] = Complex(x[2 * j + 1], 0) /\ Odds(x)[j] = Complex(x[2 * j + 2], 0)
        /\ Pairs(x)[j] = Complex(x[2 * j + 1], x[2 * j + 2])
    BY <1>2 DEF Evens, Odds, Pairs, h
  <2>3. Evens(x)[j] = Signal(x)[2 * j] /\ Odds(x)[j] = Signal(x)[2 * j + 1]
        /\ x[2 * j + 1] \in Int /\ x[2 * j + 2] \in Int
    BY <1>5, <2>1, <2>2
  <2> DEFINE a == x[2 * j + 1]  b == x[2 * j + 2]
  <2>4. a \in Int /\ b \in Int BY <2>3
  <2> HIDE DEF a, b
  <2>5. CMul(Img, Complex(b, 0)) = Complex(0, b)
    <3>1. 0 \in Int /\ 1 \in Int OBVIOUS
    <3>2. CMul(Img, Complex(b, 0)) = Complex(0 * b - 1 * 0, 0 * 0 + 1 * b)
      BY <2>4, <3>1, MulHom DEF Img
    <3>3. 0 * b - 1 * 0 = 0 /\ 0 * 0 + 1 * b = b BY <2>4
    <3> QED BY <3>2, <3>3
  <2>6. CAdd(Complex(a, 0), Complex(0, b)) = Complex(a, b)
    <3>1. 0 \in Int /\ a + 0 = a /\ 0 + b = b BY <2>4
    <3>2. CAdd(Complex(a, 0), Complex(0, b)) = Complex(a + 0, 0 + b) BY <2>4, <3>1, AddHom
    <3> QED BY <3>1, <3>2
  <2>7. Complex(a, b) \in C BY <2>4, InC
  <2>8. /\ Complex(a, 0) \in C /\ Conj(Complex(a, 0)) = Complex(a, 0)
        /\ Complex(b, 0) \in C /\ Conj(Complex(b, 0)) = Complex(b, 0)
    BY <1>4, <2>4
  <2> QED BY <2>2, <2>3, <2>5, <2>6, <2>7, <2>8 DEF a, b
<1>7. DOMAIN Pairs(x) = 0 .. h - 1 BY <1>2 DEF Pairs, h
<1> QED BY <1>2, <1>5, <1>6, <1>7, Zenon DEF Terms, h

LEMMA DftIsSpectrum ==
  ASSUME NEW n \in Lengths, NEW x \in Values(n), NEW k \in Int
  PROVE  Dft(x, k) = Spectrum(Signal(x), n, k) /\ Dft(x, k) \in C
<1>1. Len(x) = n /\ Terms(Signal(x), n) /\ n \in Orders BY SignalTerms, HalfLength
<1>2. Dft(x, k) = Spectrum(Signal(x), n, k)
  <2>1. Dft(x, k) = CSum([t \in 0 .. Len(x) - 1 |-> CMul(Complex(x[t + 1], 0), kf_cexp(-(k * t), Len(x)))], Len(x))
    BY DEF Dft
  <2>2. [t \in 0 .. Len(x) - 1 |-> CMul(Complex(x[t + 1], 0), kf_cexp(-(k * t), Len(x)))]
         = [t \in 0 .. Len(x) - 1 |-> CMul(Signal(x)[t], kf_cexp(-(k * t), Len(x)))]
    BY DEF Signal
  <2> QED BY <1>1, <2>1, <2>2, Zenon DEF Spectrum
<1> QED BY <1>1, <1>2, SpectrumTerms, Zenon

LEMMA SpectrumLinear ==
  ASSUME NEW n \in Orders, NEW x, NEW y, NEW z, Terms(x, n), Terms(y, n), NEW c \in C,
         \A t \in 0 .. n - 1 : z[t] = CAdd(x[t], CMul(c, y[t])), NEW k \in Int
  PROVE  Spectrum(z, n, k) = CAdd(Spectrum(x, n, k), CMul(c, Spectrum(y, n, k)))
<1> DEFINE e(t) == kf_cexp(-(k * t), n)
           f == [t \in 0 .. n - 1 |-> CMul(x[t], e(t))]
           g == [t \in 0 .. n - 1 |-> CMul(y[t], e(t))]
           gc == [t \in 0 .. n - 1 |-> CMul(c, g[t])]
           F == [t \in 0 .. n - 1 |-> CMul(z[t], e(t))]
<1>1. n \in Nat /\ Terms(f, n) /\ Terms(g, n) BY SpectrumTerms
<1>2. ASSUME NEW t \in 0 .. n - 1 PROVE F[t] = CAdd(f[t], gc[t]) /\ gc[t] \in C
  <2>1. x[t] \in C /\ y[t] \in C BY DEF Terms
  <2>2. e(t) \in C BY SpectrumTerms, Zenon
  <2>3. f[t] = CMul(x[t], e(t)) /\ gc[t] = CMul(c, CMul(y[t], e(t))) OBVIOUS
  <2>4. F[t] = CMul(CAdd(x[t], CMul(c, y[t])), e(t)) OBVIOUS
  <2> HIDE DEF e, f, gc, F
  <2>5. CMul(c, y[t]) \in C /\ CMul(y[t], e(t)) \in C BY <2>1, <2>2, Closed, Zenon
  <2>6. CMul(CAdd(x[t], CMul(c, y[t])), e(t)) = CMul(e(t), CAdd(x[t], CMul(c, y[t])))
    BY <2>1, <2>2, <2>5, Closed, MulRing, Zenon
  <2>7. CMul(e(t), CAdd(x[t], CMul(c, y[t])))
          = CAdd(CMul(e(t), x[t]), CMul(e(t), CMul(c, y[t])))
    BY <2>1, <2>2, <2>5, MulRing
  <2>8. CMul(e(t), x[t]) = CMul(x[t], e(t)) BY <2>1, <2>2, MulRing
  <2>9. CMul(e(t), CMul(c, y[t])) = CMul(CMul(c, y[t]), e(t)) BY <2>2, <2>5, MulRing
  <2>10. CMul(CMul(c, y[t]), e(t)) = CMul(c, CMul(y[t], e(t))) BY <2>1, <2>2, MulRing
  <2>11. gc[t] \in C BY <2>3, <2>5, Closed
  <2> QED BY <2>3, <2>4, <2>6, <2>7, <2>8, <2>9, <2>10, <2>11
<1>3. Terms(gc, n) BY <1>2 DEF Terms
<1>4. \A t \in 0 .. n - 1 : gc[t] = CMul(c, g[t]) OBVIOUS
<1> HIDE DEF f, g, gc, F, e
<1>5. CSum(F, n) = CAdd(CSum(f, n), CSum(gc, n)) BY <1>1, <1>2, <1>3, SumAdd
<1>6. CSum(gc, n) = CMul(c, CSum(g, n)) BY <1>1, <1>4, SumMul
<1> QED BY <1>5, <1>6 DEF Spectrum, F, f, g, e

LEMMA DftSplit ==
  ASSUME NEW n \in Lengths, NEW x \in Values(n), NEW k \in Int
  PROVE  /\ Dft(x, k) = CAdd(Spectrum(Evens(x), n \div 2, k),
                             CMul(kf_cexp(-k, n), Spectrum(Odds(x), n \div 2, k)))
         /\ Spectrum(Evens(x), n \div 2, k) \in C /\ Spectrum(Odds(x), n \div 2, k) \in C
         /\ kf_cexp(-k, n) \in C /\ -k \in Int
<1> DEFINE h == n \div 2  S == Signal(x)  e == kf_cexp(-k, n)
           f == [t \in 0 .. n - 1 |-> CMul(S[t], kf_cexp(-(k * t), n))]
           a == [j \in 0 .. h - 1 |-> CMul(Evens(x)[j], kf_cexp(-(k * j), h))]
           b == [j \in 0 .. h - 1 |-> CMul(Odds(x)[j], kf_cexp(-(k * j), h))]
           r(q) == [j \in 0 .. h - 1 |-> f[q + 2 * j]]
           G == [q \in 0 .. 2 - 1 |-> CSum(r(q), h)]
<1>1. n \in Nat \ {0} /\ h \in Nat \ {0} /\ h * 2 = n /\ 2 * h = n /\ n \in Orders /\
    h \in Orders
  BY HalfLength
<1>2. Terms(S, n) /\ Terms(Evens(x), h) /\ Terms(Odds(x), h)
      /\ \A j \in 0 .. h - 1 : Evens(x)[j] = S[2 * j] /\ Odds(x)[j] = S[2 * j + 1]
  BY SignalTerms
<1> HIDE DEF h, S
<1>3. -k \in Int /\ e \in C
  <2>1. -k \in Int OBVIOUS
  <2> DEFINE z == -k
  <2>2. z \in Int BY <2>1
  <2> HIDE DEF z
  <2>3. kf_cexp(z, n) \in C BY <1>1, <2>2, RootType
  <2> QED BY <2>1, <2>3 DEF z
<1>4. Terms(f, n) /\ Terms(a, h) /\ Terms(b, h)
  <2>1. Terms(f, n) BY <1>1, <1>2, SpectrumTerms, Zenon
  <2>2. Terms(a, h) BY <1>1, <1>2, SpectrumTerms, Zenon
  <2>3. Terms(b, h) BY <1>1, <1>2, SpectrumTerms, Zenon
  <2> QED BY <2>1, <2>2, <2>3
<1>5. ASSUME NEW j \in 0 .. h - 1
      PROVE  r(0)[j] = a[j] /\ r(1)[j] = CMul(e, b[j])
  <2> DEFINE w == -(k * j)
  <2>1. w \in Int /\ kf_cexp(w, h) \in C
    <3>1. w \in Int BY <1>1
    <3> HIDE DEF w
    <3> QED BY <1>1, <3>1, RootType
  <2>2. kf_cexp(w * 2, n) = kf_cexp(w, h) /\ w * 2 \in Int
    <3> HIDE DEF w
    <3>1. 2 \in Nat \ {0} /\ h * 2 \in Orders BY <1>1
    <3>2. kf_cexp(w * 2, h * 2) = kf_cexp(w, h) BY <1>1, <2>1, <3>1, RootSub
    <3> QED BY <1>1, <2>1, <3>2
  <2>3. 0 + 2 * j \in 0 .. n - 1 /\ 1 + 2 * j \in 0 .. n - 1 /\ 0 + 2 * j = 2 * j
        /\ 1 + 2 * j = 2 * j + 1
    BY <1>1
  <2>4. -(k * (2 * j)) = w * 2 /\ -(k * (2 * j + 1)) = -k + w * 2
    <3>1. k * (2 * j) = (k * j) * 2 /\ k * (2 * j + 1) = (k * j) * 2 + k BY <1>1
    <3>2. k * j \in Int BY <1>1
    <3> DEFINE y == k * j
    <3> HIDE DEF y
    <3>3. y \in Int BY <3>2 DEF y
    <3>4. -(y * 2) = (-y) * 2 /\ -(y * 2 + k) = -k + (-y) * 2 BY <3>3
    <3> QED BY <3>1, <3>4 DEF y
  <2>5. r(0)[j] = CMul(Evens(x)[j], kf_cexp(w * 2, n))
    <3>1. r(0)[j] = f[2 * j] BY <2>3
    <3>2. f[2 * j] = CMul(S[2 * j], kf_cexp(-(k * (2 * j)), n)) BY <2>3
    <3> HIDE DEF r, f, w
    <3> QED BY <1>2, <2>4, <3>1, <3>2
  <2>6. r(1)[j] = CMul(Odds(x)[j], kf_cexp(-k + w * 2, n))
    <3>1. r(1)[j] = f[2 * j + 1] BY <2>3
    <3>2. f[2 * j + 1] = CMul(S[2 * j + 1], kf_cexp(-(k * (2 * j + 1)), n)) BY <2>3
    <3> HIDE DEF r, f, w
    <3> QED BY <1>2, <2>4, <3>1, <3>2
  <2>7. kf_cexp(-k + w * 2, n) = CMul(e, kf_cexp(w, h))
    <3> DEFINE z == -k  y == w * 2
    <3>1. z \in Int /\ y \in Int BY <1>3, <2>2
    <3> HIDE DEF z, y
    <3>2. kf_cexp(z + y, n) = CMul(kf_cexp(z, n), kf_cexp(y, n)) BY <1>1, <3>1, RootAdd, Zenon
    <3> QED BY <2>2, <3>2 DEF z, y
  <2>8. a[j] = CMul(Evens(x)[j], kf_cexp(w, h)) /\ b[j] = CMul(Odds(x)[j], kf_cexp(w, h))
    OBVIOUS
  <2>9. Odds(x)[j] \in C BY <1>2 DEF Terms
  <2> HIDE DEF w, r, a, b, e, f
  <2>10. CMul(Odds(x)[j], CMul(e, kf_cexp(w, h))) = CMul(e, CMul(Odds(x)[j], kf_cexp(w, h)))
    <3> DEFINE o == Odds(x)[j]  c == kf_cexp(w, h)
    <3>1. o \in C /\ c \in C /\ e \in C BY <1>3, <2>1, <2>9
    <3> HIDE DEF o, c
    <3>2. CMul(o, CMul(e, c)) = CMul(CMul(o, e), c) BY <3>1, MulRing
    <3>3. CMul(o, e) = CMul(e, o) BY <3>1, MulRing
    <3>4. CMul(CMul(e, o), c) = CMul(e, CMul(o, c)) BY <3>1, MulRing
    <3> QED BY <3>2, <3>3, <3>4 DEF o, c
  <2> QED BY <2>2, <2>5, <2>6, <2>7, <2>8, <2>10
<1>6. CSum(f, n) = CSum(G, 2)
  <2>1. Terms(f, 2 * h) /\ 2 \in Nat /\ h \in Nat BY <1>1, <1>4
  <2> HIDE DEF f
  <2>2. CSum(f, 2 * h) = CSum(G, 2) BY <2>1, SumInterleave, Zenon
  <2> QED BY <1>1, <2>2, Zenon
<1>7. G[0] = CSum(r(0), h) /\ G[1] = CSum(r(1), h) OBVIOUS
<1>8. CSum(r(0), h) = CSum(a, h) /\ CSum(a, h) \in C
  <2>1. \A j \in 0 .. h - 1 : a[j] = r(0)[j] BY <1>5
  <2> HIDE DEF a, r
  <2> QED BY <1>1, <1>4, <2>1, SumSame, SumType
<1>9. CSum(r(1), h) = CMul(e, CSum(b, h)) /\ CSum(b, h) \in C
  <2>1. \A j \in 0 .. h - 1 : r(1)[j] = CMul(e, b[j]) BY <1>5
  <2> HIDE DEF b, r, e
  <2> QED BY <1>1, <1>3, <1>4, <2>1, SumMul, SumType, Zenon
<1> HIDE DEF f, a, b, r, G, e
<1>10. CSum(G, 2) = CAdd(G[0], G[1])
  <2>1. CMul(e, CSum(b, h)) \in C BY <1>3, <1>9, Closed
  <2>2. Terms(G, 2) BY <1>7, <1>8, <1>9, <2>1 DEF Terms
  <2> QED BY <2>2, SumOfFew
<1>11. Dft(x, k) = CSum(f, n) BY DftIsSpectrum DEF Spectrum, f, S
<1> QED BY <1>3, <1>6, <1>7, <1>8, <1>9, <1>10, <1>11 DEF Spectrum, a, b, h, e

-----------------------------------------------------------------------------
\* The twiddles of the packing.
LEMMA ImgLaws ==
  /\ Img \in C /\ Conj(Img) \in C /\ MinusOne \in C /\ Conj(Conj(Img)) = Img
  /\ CMul(Img, Conj(Img)) = One /\ CMul(Conj(Img), Conj(Img)) = MinusOne
  /\ CAdd(Img, Conj(Img)) = Zero /\ CSub(One, MinusOne) = Scalar(2)
  /\ CMul(Conj(Img), MinusOne) = Img /\ Conj(MinusOne) = MinusOne
<1>1. 0 \in Int /\ 1 \in Int /\ -1 \in Int OBVIOUS
<1>2. Img \in C /\ MinusOne \in C BY <1>1, InC DEF Img, MinusOne
<1>3. Conj(Img) \in C /\ Conj(Conj(Img)) = Img BY <1>2, Closed, ConjRing
<1>4. Conj(Img) = Complex(0, -1) BY <1>1, ConjHom DEF Img
<1>5. CMul(Img, Conj(Img)) = One
  <2>1. CMul(Complex(0, 1), Complex(0, -1)) = Complex(0 * 0 - 1 * (-1), 0 * (-1) + 1 * 0)
    BY <1>1, MulHom
  <2>2. 0 * 0 - 1 * (-1) = 1 /\ 0 * (-1) + 1 * 0 = 0 OBVIOUS
  <2> QED BY <1>4, <2>1, <2>2 DEF Img, One
<1>6. CMul(Conj(Img), Conj(Img)) = MinusOne
  <2>1. CMul(Complex(0, -1), Complex(0, -1)) = Complex(0 * 0 - (-1) * (-1), 0 * (-1) + (-1) * 0)
    BY <1>1, MulHom
  <2>2. 0 * 0 - (-1) * (-1) = -1 /\ 0 * (-1) + (-1) * 0 = 0 OBVIOUS
  <2> QED BY <1>4, <2>1, <2>2 DEF MinusOne
<1>7. CAdd(Img, Conj(Img)) = Zero
  <2>1. CAdd(Complex(0, 1), Complex(0, -1)) = Complex(0 + 0, 1 + (-1)) BY <1>1, AddHom
  <2>2. 0 + 0 = 0 /\ 1 + (-1) = 0 OBVIOUS
  <2> QED BY <1>4, <2>1, <2>2 DEF Img, Zero
<1>8. CSub(One, MinusOne) = Scalar(2)
  <2>1. CSub(Complex(1, 0), Complex(-1, 0)) = Complex(1 - (-1), 0 - 0) BY <1>1, SubHom
  <2>2. 1 - (-1) = 2 /\ 0 - 0 = 0 OBVIOUS
  <2> QED BY <2>1, <2>2 DEF One, MinusOne, Scalar
<1>9. CMul(Conj(Img), MinusOne) = Img
  <2>1. CMul(Complex(0, -1), Complex(-1, 0)) = Complex(0 * (-1) - (-1) * 0, 0 * 0 + (-1) * (-1))
    BY <1>1, MulHom
  <2>2. 0 * (-1) - (-1) * 0 = 0 /\ 0 * 0 + (-1) * (-1) = 1 OBVIOUS
  <2> QED BY <1>4, <2>1, <2>2 DEF Img, MinusOne
<1>10. Conj(MinusOne) = MinusOne BY <1>1, RealConj DEF Scalar, MinusOne
<1> QED BY <1>2, <1>3, <1>5, <1>6, <1>7, <1>8, <1>9, <1>10

Super(n, i) == kf_cexp(-((n \div 2) + 2 * i), 4 * (n \div 2))
SuperBack(n, i) == kf_cexp((n \div 2) + 2 * i, 4 * (n \div 2))

LEMMA SuperTurns ==
  ASSUME NEW n \in Lengths, NEW i \in Int
  PROVE  /\ SuperBack(n, i) = CMul(Img, kf_cexp(i, n))
         /\ Super(n, i) = CMul(Conj(Img), kf_cexp(-i, n))
         /\ Super(n, i) \in C /\ SuperBack(n, i) = Conj(Super(n, i))
         /\ CMul(Super(n, i), SuperBack(n, i)) = One
<1> DEFINE h == n \div 2  Q == (P + 1) \div 4  S == Share(n)  N == 4 * h
<1>1. n \in Orders /\ n \in Nat \ {0} /\ h \in Nat \ {0} /\ h * 2 = n BY HalfLength
<1>2. Q \in Nat /\ 4 * Q = P + 1 /\ P \in Nat BY QuarterOfTurn, PIsOdd
<1>3. S \in Nat \ {0} /\ S * n = P + 1 BY <1>1, ShareOf
<1> HIDE DEF h, Q, S
<1>4. N \in Nat \ {0} BY <1>1
<1>5. ASSUME NEW g \in {1, -1}
      PROVE  kf_cexp(g * (h + 2 * i), N) = Turn(g * (Q + S * i)) /\ g * (Q + S * i) \in Int
  <2> DEFINE k == g * (Q + S * i)
  <2>1. S * i \in Int /\ g \in Int BY <1>3
  <2>2. k \in Int BY <1>2, <2>1
  <2>3. (P + 1) * (g * (h + 2 * i)) = k * N
    <3>1. (P + 1) * h = Q * N
      <4>1. (4 * Q) * h = Q * (4 * h) BY <1>1, <1>2
      <4> QED BY <1>2, <4>1
    <3>2. (P + 1) * (2 * i) = (S * i) * N
      <4>1. (S * n) * (2 * i) = (S * i) * (2 * n) BY <1>1, <1>3
      <4>2. 2 * n = N BY <1>1
      <4> QED BY <1>3, <4>1, <4>2
    <3>3. (P + 1) * (h + 2 * i) = (Q + S * i) * N
      <4>1. (P + 1) * (h + 2 * i) = (P + 1) * h + (P + 1) * (2 * i) BY <1>1, <1>2
      <4>2. (Q + S * i) * N = Q * N + (S * i) * N
        <5> DEFINE a == S * i
        <5> HIDE DEF a, N
        <5>1. a \in Int BY <2>1 DEF a
        <5>2. (Q + a) * N = Q * N + a * N BY <1>2, <1>4, <5>1
        <5> QED BY <5>2 DEF a
      <4> QED BY <3>1, <3>2, <4>1, <4>2
    <3> DEFINE a == h + 2 * i  b == Q + S * i
    <3>4. a \in Int /\ b \in Int BY <1>1, <1>2, <2>1
    <3>5. (P + 1) * a = b * N BY <3>3
    <3> HIDE DEF a, b, N
    <3>6. (P + 1) * (g * a) = g * ((P + 1) * a) BY <1>2, <2>1, <3>4
    <3>7. g * (b * N) = (g * b) * N BY <1>4, <2>1, <3>4
    <3> QED BY <3>5, <3>6, <3>7 DEF a, b
  <2> DEFINE z == (P + 1) * (g * (h + 2 * i))
  <2>4. z \div N = k
    <3> HIDE DEF k, N
    <3>1. 0 \in 0 .. N - 1 BY <1>4
    <3>2. (k * N + 0) \div N = k BY <1>4, <2>2, <3>1, Remainder
    <3>3. k * N + 0 = k * N BY <1>4, <2>2
    <3> QED BY <2>3, <3>2, <3>3
  <2>5. kf_cexp(g * (h + 2 * i), N) = Turn(z \div N) BY DEF kf_cexp, Turn
  <2> HIDE DEF z, k
  <2> QED BY <2>2, <2>4, <2>5 DEF k
<1>6. Turn(Q) = Img
  <2>1. Q % (P + 1) = Q
    <3>1. Q \in 0 .. (P + 1) - 1 /\ 0 \in Int /\ P + 1 \in Nat \ {0} /\ 0 * (P + 1) + Q = Q
      BY <1>2
    <3> DEFINE w == P + 1
    <3> HIDE DEF w
    <3>2. (0 * w + Q) % w = Q BY <3>1, Remainder DEF w
    <3> QED BY <3>1, <3>2 DEF w
  <2>2. Power[Q] = Img BY CircleAssumption DEF CircleAssumption, Q, Img
  <2> QED BY <2>1, <2>2 DEF Turn
<1>7. kf_cexp(i, n) = Turn(S * i) /\ S * i \in Int /\ kf_cexp(i, n) \in C
      /\ kf_cexp(-i, n) = Conj(kf_cexp(i, n))
      /\ CMul(kf_cexp(i, n), Conj(kf_cexp(i, n))) = One
  <2>1. kf_cexp(i, n) = Turn(S * i) /\ S * i \in Int BY <1>1, RootTurn DEF S
  <2> QED BY <1>1, <2>1, RootType, RootBack, RootOnCircle
<1> DEFINE k == Q + S * i  e == kf_cexp(i, n)
<1>8. k \in Int /\ 1 * (h + 2 * i) = h + 2 * i /\ (-1) * (h + 2 * i) = -(h + 2 * i)
      /\ 1 * k = k /\ (-1) * k = -k
  BY <1>1, <1>2, <1>7
<1>9. kf_cexp(h + 2 * i, N) = Turn(k) /\ kf_cexp(-(h + 2 * i), N) = Turn(-k)
  <2>1. kf_cexp(1 * (h + 2 * i), N) = Turn(1 * k) BY <1>5
  <2>2. kf_cexp((-1) * (h + 2 * i), N) = Turn((-1) * k) BY <1>5
  <2> HIDE DEF k, N
  <2> QED BY <1>8, <2>1, <2>2
<1>10. Turn(k) = CMul(Img, e)
  <2> DEFINE y == S * i
  <2>1. y \in Int /\ Q \in Int BY <1>2, <1>7
  <2> HIDE DEF y
  <2>2. Turn(Q + y) = CMul(Turn(Q), Turn(y)) BY <2>1, TurnAdd
  <2> QED BY <1>6, <1>7, <2>2 DEF y
<1>11. Turn(-k) = Conj(Turn(k))
  <2> HIDE DEF k
  <2> QED BY <1>8, TurnBack
<1> HIDE DEF e, k
<1>12. e \in C /\ Img \in C /\ Conj(Img) \in C /\ Conj(e) \in C BY <1>7, ImgLaws, Closed DEF e
<1>13. Conj(CMul(Img, e)) = CMul(Conj(Img), Conj(e)) /\ CMul(Img, e) \in C
       /\ CMul(Conj(Img), Conj(e)) \in C /\ Conj(Conj(CMul(Img, e))) = CMul(Img, e)
  <2>1. CMul(Img, e) \in C /\ CMul(Conj(Img), Conj(e)) \in C BY <1>12, Closed, Zenon
  <2> QED BY <1>12, <2>1, ConjRing
<1>14. SuperBack(n, i) = CMul(Img, e) /\ Super(n, i) = CMul(Conj(Img), Conj(e))
  BY <1>9, <1>10, <1>11, <1>13 DEF Super, SuperBack, h
<1>15. CMul(Super(n, i), SuperBack(n, i)) = One
  <2>1. CMul(Turn(k), Conj(Turn(k))) = One BY <1>8, OnCircle
  <2>2. Turn(k) \in C /\ Conj(Turn(k)) \in C BY <1>10, <1>13, Closed
  <2>3. CMul(Conj(Turn(k)), Turn(k)) = One BY <2>1, <2>2, MulRing
  <2> QED BY <1>10, <1>13, <1>14, <2>3
<1> QED BY <1>7, <1>12, <1>13, <1>14, <1>15 DEF e

LEMMA SuperMirror ==
  ASSUME NEW n \in Lengths, NEW i \in Int
  PROVE  (n \div 2) - i \in Int /\ Super(n, (n \div 2) - i) = SuperBack(n, i)
<1> DEFINE h == n \div 2  j == h - i  e == kf_cexp(i, n)
<1>1. n \in Orders /\ n \in Nat \ {0} /\ h \in Nat \ {0} /\ h * 2 = n /\ 2 * h = n BY HalfLength
<1> HIDE DEF h
<1>2. j \in Int /\ -j = i + (-h) /\ -h \in Int BY <1>1
<1>3. kf_cexp(-h, n) = MinusOne BY <1>1, RootHalf
<1>4. kf_cexp(-j, n) = CMul(e, MinusOne)
  <2> DEFINE z == -h
  <2>1. z \in Int BY <1>2
  <2> HIDE DEF z
  <2>2. kf_cexp(i + z, n) = CMul(kf_cexp(i, n), kf_cexp(z, n)) BY <1>1, <2>1, RootAdd, Zenon
  <2> HIDE DEF j
  <2> QED BY <1>2, <1>3, <2>2 DEF z
<1>5. Super(n, j) = CMul(Conj(Img), kf_cexp(-j, n))
  <2> HIDE DEF j
  <2> QED BY <1>2, SuperTurns
<1>6. e \in C BY <1>1, RootType
<1> HIDE DEF e, j
<1>7. CMul(Conj(Img), CMul(e, MinusOne)) = CMul(Img, e)
  <2>1. CMul(e, MinusOne) = CMul(MinusOne, e) BY <1>6, ImgLaws, MulRing
  <2>2. CMul(Conj(Img), CMul(MinusOne, e)) = CMul(CMul(Conj(Img), MinusOne), e)
    BY <1>6, ImgLaws, MulRing
  <2> QED BY <2>1, <2>2, ImgLaws
<1>8. SuperBack(n, i) = CMul(Img, e) BY SuperTurns DEF e
<1> QED BY <1>2, <1>4, <1>5, <1>7, <1>8 DEF h, j

LEMMA Doubling == ASSUME NEW a \in C PROVE CAdd(a, a) = CMul(Scalar(2), a)
<1>1. 1 \in Int /\ 1 + 1 = 2 OBVIOUS
<1>2. CAdd(Scalar(1), Scalar(1)) = Scalar(2) /\ Scalar(1) \in C BY <1>1, RealAdd, RealInC
<1>3. Scalar(1) = One BY DEF Scalar, One
<1>4. CMul(a, CAdd(One, One)) = CAdd(CMul(a, One), CMul(a, One)) BY ZeroOne, MulRing
<1>5. CMul(a, One) = a BY MulRing, ZeroOne
<1>6. Scalar(2) \in C
  <2>1. 2 \in Int OBVIOUS
  <2> QED BY <2>1, RealInC
<1>7. CMul(a, Scalar(2)) = CMul(Scalar(2), a) BY <1>6, MulRing
<1> QED BY <1>2, <1>3, <1>4, <1>5, <1>7

LEMMA Opposite ==
  ASSUME NEW x \in C, NEW s \in C, NEW t \in C, CAdd(s, t) = Zero
  PROVE  CSub(x, s) = CAdd(x, t)
<1>1. CAdd(t, s) = Zero BY AddRing
<1>2. CAdd(CAdd(x, t), s) = CAdd(x, CAdd(t, s)) BY AddRing
<1>3. CAdd(x, Zero) = x BY AddRing
<1>4. CAdd(x, t) \in C BY Closed, Zenon
<1>5. CSub(CAdd(CAdd(x, t), s), s) = CAdd(x, t) BY <1>4, AddRing
<1> QED BY <1>1, <1>2, <1>3, <1>5

LEMMA SameStart ==
  ASSUME NEW a \in C, NEW u \in C, NEW v \in C
  PROVE  CSub(CAdd(a, u), CAdd(a, v)) = CSub(u, v)
<1> DEFINE d == CSub(u, v)  b == CAdd(a, v)
<1>1. d \in C /\ b \in C BY Closed
<1>2. CAdd(d, v) = u BY AddRing
<1>3. CAdd(d, b) = CAdd(a, u)
  <2> HIDE DEF d
  <2>1. CAdd(d, CAdd(a, v)) = CAdd(CAdd(d, a), v) BY <1>1, AddRing
  <2>2. CAdd(CAdd(d, a), v) = CAdd(CAdd(a, d), v) BY <1>1, AddRing
  <2>3. CAdd(CAdd(a, d), v) = CAdd(a, CAdd(d, v)) BY <1>1, AddRing
  <2> QED BY <1>2, <2>1, <2>2, <2>3
<1> HIDE DEF d, b
<1>4. CSub(CAdd(d, b), b) = d BY <1>1, AddRing
<1> QED BY <1>3, <1>4 DEF d, b

LEMMA Disentangled ==
  ASSUME NEW a \in C, NEW b \in C, NEW e \in C, NEW z, NEW y,
         z = CAdd(a, CMul(Img, b)), y = CAdd(a, CMul(Conj(Img), b))
  PROVE  CAdd(CAdd(z, y), CMul(CSub(z, y), CMul(Conj(Img), e))) = CMul(Scalar(2), CAdd(a, CMul(e, b)))
<1> DEFINE i == Img  j == Conj(Img)  u == CMul(i, b)  v == CMul(j, b)  two == Scalar(2)
<1>1. /\ i \in C /\ j \in C /\ MinusOne \in C /\ CMul(i, j) = One /\ CMul(j, j) = MinusOne
      /\ CAdd(i, j) = Zero /\ CSub(One, MinusOne) = two
  BY ImgLaws
<1>2. two \in C
  <2>1. 2 \in Int OBVIOUS
  <2> QED BY <2>1, RealInC
<1> HIDE DEF i, j, two
<1>3. u \in C /\ v \in C BY <1>1, Closed, Zenon
<1>4. CAdd(u, v) = Zero
  <2>1. u = CMul(b, i) /\ v = CMul(b, j) BY <1>1, MulRing
  <2>2. CMul(b, CAdd(i, j)) = CAdd(CMul(b, i), CMul(b, j)) BY <1>1, MulRing
  <2>3. CMul(b, Zero) = Zero BY MulRing
  <2> QED BY <1>1, <2>1, <2>2, <2>3
<1>5. CSub(u, v) = CMul(b, CSub(i, j))
  <2>1. u = CMul(b, i) /\ v = CMul(b, j) BY <1>1, MulRing
  <2> HIDE DEF u, v
  <2> QED BY <1>1, <2>1, MulRing
<1> HIDE DEF u, v
<1>6. CAdd(z, y) = CMul(two, a)
  <2>1. CAdd(CAdd(a, u), CAdd(a, v)) = CAdd(CAdd(a, a), CAdd(u, v)) BY <1>3, Regroup
  <2>2. CAdd(a, a) \in C BY Closed
  <2>3. CAdd(CAdd(a, a), Zero) = CAdd(a, a) BY <2>2, AddRing
  <2> QED BY <1>4, <2>1, <2>3, Doubling DEF u, v, i, j, two
<1>7. CSub(z, y) = CMul(b, CSub(i, j)) BY <1>3, <1>5, SameStart DEF u, v, i, j
<1>8. CMul(CSub(i, j), j) = two
  <2>1. CSub(i, j) \in C BY <1>1, Closed
  <2>2. CMul(CSub(i, j), j) = CMul(j, CSub(i, j)) BY <1>1, <2>1, MulRing
  <2>3. CMul(j, CSub(i, j)) = CSub(CMul(j, i), CMul(j, j)) BY <1>1, MulRing
  <2>4. CMul(j, i) = CMul(i, j) BY <1>1, MulRing
  <2> QED BY <1>1, <2>2, <2>3, <2>4
<1>9. CMul(CMul(b, CSub(i, j)), CMul(j, e)) = CMul(two, CMul(e, b))
  <2> DEFINE d == CSub(i, j)
  <2>1. d \in C BY <1>1, Closed
  <2>2. CMul(d, j) = two BY <1>8
  <2> HIDE DEF d
  <2>3. CMul(j, e) \in C /\ CMul(e, b) \in C BY <1>1, Closed, Zenon
  <2>4. CMul(CMul(b, d), CMul(j, e)) = CMul(b, CMul(d, CMul(j, e))) BY <2>1, <2>3, MulRing
  <2>5. CMul(d, CMul(j, e)) = CMul(CMul(d, j), e) BY <1>1, <2>1, MulRing
  <2>6. CMul(b, CMul(two, e)) = CMul(CMul(two, e), b)
    <3>1. CMul(two, e) \in C BY <1>2, Closed
    <3> QED BY <3>1, MulRing
  <2>7. CMul(CMul(two, e), b) = CMul(two, CMul(e, b)) BY <1>2, MulRing
  <2> QED BY <2>2, <2>4, <2>5, <2>6, <2>7 DEF d
<1>10. CMul(two, CAdd(a, CMul(e, b))) = CAdd(CMul(two, a), CMul(two, CMul(e, b)))
  <2>1. CMul(e, b) \in C BY Closed, Zenon
  <2> QED BY <1>2, <2>1, MulRing
<1> QED BY <1>6, <1>7, <1>9, <1>10 DEF i, j, two

\* The real transform out of the complex one of half its length.
Packed(x, n, k) == Spectrum(Pairs(x), n \div 2, k)

LEMMA PackedHalves ==
  ASSUME NEW n \in Lengths, NEW x \in Values(n), NEW k \in Int
  PROVE  LET a == Spectrum(Evens(x), n \div 2, k)
             b == Spectrum(Odds(x), n \div 2, k)
         IN  /\ a \in C /\ b \in C
             /\ Packed(x, n, k) = CAdd(a, CMul(Img, b)) /\ Packed(x, n, k) \in C
             /\ (n \div 2) - k \in Int /\ Packed(x, n, (n \div 2) - k) \in C
             /\ Conj(Packed(x, n, (n \div 2) - k)) = CAdd(a, CMul(Conj(Img), b))
<1> DEFINE h == n \div 2  e == Evens(x)  o == Odds(x)  z == Pairs(x)
           a(i) == Spectrum(e, h, i)  b(i) == Spectrum(o, h, i)
<1>1. h \in Orders /\ h \in Nat \ {0} BY HalfLength
<1>2. /\ Terms(e, h) /\ Terms(o, h) /\ Terms(z, h)
      /\ \A t \in 0 .. h - 1 : /\ Conj(e[t]) = e[t] /\ Conj(o[t]) = o[t]
                               /\ z[t] = CAdd(e[t], CMul(Img, o[t]))
  BY SignalTerms
<1> HIDE DEF h, e, o, z
<1>3. Img \in C /\ Conj(Img) \in C /\ Conj(Conj(Img)) = Img BY ImgLaws
<1>4. ASSUME NEW i \in Int
      PROVE  Spectrum(z, h, i) = CAdd(a(i), CMul(Img, b(i))) /\ Spectrum(z, h, i) \in C
             /\ a(i) \in C /\ b(i) \in C
  <2>1. Spectrum(z, h, i) = CAdd(a(i), CMul(Img, b(i))) BY <1>1, <1>2, <1>3, SpectrumLinear
  <2>2. a(i) \in C /\ b(i) \in C /\ Spectrum(z, h, i) \in C BY <1>1, <1>2, SpectrumTerms, Zenon
  <2> QED BY <2>1, <2>2
<1>5. h - k \in Int BY <1>1
<1>6. a(h - k) = Conj(a(k)) /\ b(h - k) = Conj(b(k)) BY <1>1, <1>2, SpectrumReal
<1>7. Spectrum(z, h, h - k) = CAdd(Conj(a(k)), CMul(Img, Conj(b(k)))) /\
    Spectrum(z, h, h - k) \in C
  BY <1>4, <1>5, <1>6
<1> DEFINE A == a(k)  B == b(k)
<1>8. A \in C /\ B \in C BY <1>4
<1> HIDE DEF a, b, A, B
<1>9. Conj(CAdd(Conj(A), CMul(Img, Conj(B)))) = CAdd(A, CMul(Conj(Img), B))
  <2>1. Conj(A) \in C /\ Conj(B) \in C BY <1>8, Closed, Zenon
  <2>2. CMul(Img, Conj(B)) \in C BY <1>3, <2>1, Closed
  <2>3. Conj(CAdd(Conj(A), CMul(Img, Conj(B)))) = CAdd(Conj(Conj(A)), Conj(CMul(Img, Conj(B))))
    BY <2>1, <2>2, ConjRing
  <2>4. Conj(CMul(Img, Conj(B))) = CMul(Conj(Img), Conj(Conj(B))) BY <1>3, <2>1, ConjRing
  <2>5. Conj(Conj(A)) = A /\ Conj(Conj(B)) = B BY <1>8, ConjRing
  <2> QED BY <2>3, <2>4, <2>5
<1> QED BY <1>4, <1>5, <1>7, <1>8, <1>9 DEF A, B, a, b, h, e, o, z, Packed

LEMMA Unpacking ==
  ASSUME NEW n \in Lengths, NEW x \in Values(n), NEW k \in Int
  PROVE  LET z == Packed(x, n, k)
             y == Conj(Packed(x, n, (n \div 2) - k))
         IN  CAdd(CAdd(z, y), CMul(CSub(z, y), Super(n, k))) = CMul(Scalar(2), Dft(x, k))
<1> DEFINE a == Spectrum(Evens(x), n \div 2, k)  b == Spectrum(Odds(x), n \div 2, k)
           e == kf_cexp(-k, n)
<1>1. a \in C /\ b \in C /\ e \in C /\ Dft(x, k) = CAdd(a, CMul(e, b)) BY DftSplit
<1>2. /\ Packed(x, n, k) = CAdd(a, CMul(Img, b))
      /\ Conj(Packed(x, n, (n \div 2) - k)) = CAdd(a, CMul(Conj(Img), b))
  BY PackedHalves
<1>3. Super(n, k) = CMul(Conj(Img), e) BY SuperTurns
<1> HIDE DEF a, b, e
<1> QED BY <1>1, <1>2, <1>3, Disentangled

LEMMA SelfConjugate ==
  ASSUME NEW a \in C, Conj(a) = a
  PROVE  a.r \in Int /\ a = Complex(a.r, 0)
<1>1. a.r \in Int /\ a.i \in 0 .. P - 1 /\ a = Complex(a.r, a.i) /\ P \in Nat \ {0}
  BY AsComplex, PIsOdd DEF C
<1> DEFINE x == a.r  y == a.i
<1>2. x \in Int /\ y \in 0 .. P - 1 /\ a = Complex(x, y) /\ y \in Int BY <1>1
<1>3. (-y) % P = y
  <2>1. a.i = (-a.i) % P BY DEF Conj, Complex
  <2> QED BY <2>1
<1> HIDE DEF x, y
<1>4. y = 0
  <2>1. -y \in Int BY <1>2
  <2>2. PICK k \in Int : -y = ((-y) % P) + k * P BY <2>1, ModRest
  <2>3. 2 * y = (-k) * P BY <1>1, <1>2, <1>3, <2>2
  <2>4. 2 * Half = P + 1 /\ Half \in Nat BY PIsOdd
  <2> DEFINE j == -k
  <2>5. j \in Int /\ 2 * y = j * P BY <2>3
  <2> HIDE DEF j
  <2>6. j >= 0 /\ j < 2
    <3>1. j < 0 => j * P < 0
      <4> SUFFICES ASSUME j < 0 PROVE j * P < 0 OBVIOUS
      <4>1. -j \in Nat \ {0} BY <2>5
      <4>2. (-j) * P \in Nat \ {0} BY <1>1, <4>1
      <4>3. (-j) * P = -(j * P) /\ j * P \in Int BY <1>1, <2>5
      <4> QED BY <4>2, <4>3
    <3>2. j >= 2 => j * P >= 2 * P
      <4> SUFFICES ASSUME j >= 2 PROVE j * P >= 2 * P OBVIOUS
      <4>1. (j - 2) * P >= 0
        <5>1. j - 2 \in Nat BY <2>5
        <5> QED BY <1>1, <5>1
      <4>2. (j - 2) * P = j * P - 2 * P /\ j * P \in Int BY <1>1, <2>5
      <4> QED BY <1>1, <4>1, <4>2
    <3> QED BY <1>1, <1>2, <2>5, <3>1, <3>2
  <2>7. j = 0 \/ j = 1 BY <2>5, <2>6
  <2>8. j # 1
    <3> SUFFICES ASSUME j = 1 PROVE FALSE OBVIOUS
    <3>1. 2 * y = P BY <1>1, <2>5
    <3> QED BY <1>1, <1>2, <2>4, <3>1
  <2>9. 0 * P = 0 BY <1>1
  <2> QED BY <1>2, <2>5, <2>7, <2>8, <2>9
<1> QED BY <1>2, <1>4 DEF x

LEMMA EndBins ==
  ASSUME NEW n \in Lengths, NEW x \in Values(n)
  PROVE  \E u \in Int : \E v \in Int :
            /\ Packed(x, n, 0) = Complex(u, v)
            /\ Dft(x, 0) = Complex(u + v, 0) /\ Dft(x, n \div 2) = Complex(u - v, 0)
<1> DEFINE h == n \div 2  e == Evens(x)  o == Odds(x)  k == 0
           a == Spectrum(e, h, k)  b == Spectrum(o, h, k)
<1>1. n \in Orders /\ h \in Orders /\ h \in Nat \ {0} /\ h * 2 = n /\ 2 * h = n BY HalfLength
<1>2. Terms(e, h) /\ Terms(o, h) /\ \A t \in 0 .. h - 1 : Conj(e[t]) = e[t] /\ Conj(o[t]) = o[t]
  BY SignalTerms
<1>3. k \in Int /\ k + 1 * h = h /\ h - k = h BY <1>1
<1>4. Packed(x, n, k) = CAdd(a, CMul(Img, b)) /\ a \in C /\ b \in C
  <2> HIDE DEF k
  <2> QED BY <1>3, PackedHalves
<1>5. /\ Dft(x, k) = CAdd(a, CMul(kf_cexp(-k, n), b))
      /\ Dft(x, h) = CAdd(Spectrum(e, h, h), CMul(kf_cexp(-h, n), Spectrum(o, h, h)))
  <2>1. Dft(x, k) = CAdd(a, CMul(kf_cexp(-k, n), b))
    <3> HIDE DEF k
    <3> QED BY <1>3, DftSplit
  <2>2. h \in Int BY <1>1
  <2>3. Dft(x, h) = CAdd(Spectrum(e, h, h), CMul(kf_cexp(-h, n), Spectrum(o, h, h)))
    <3> DEFINE i == h
    <3>1. i \in Int BY <2>2
    <3> HIDE DEF i
    <3>2. Dft(x, i) = CAdd(Spectrum(e, h, i), CMul(kf_cexp(-i, n), Spectrum(o, h, i)))
      BY <3>1, DftSplit
    <3> QED BY <3>2 DEF i
  <2> QED BY <2>1, <2>3
<1>6. kf_cexp(-k, n) = One
  <2>1. kf_cexp(k, n) = One BY <1>1, RootZero
  <2> HIDE DEF k
  <2>2. kf_cexp(-k, n) = Conj(kf_cexp(k, n)) BY <1>1, <1>3, RootBack
  <2> QED BY <2>1, <2>2, ConjOne
<1> HIDE DEF h, e, o
<1>7. Spectrum(e, h, h) = a /\ Spectrum(o, h, h) = b /\ Conj(a) = a /\ Conj(b) = b
  <2> HIDE DEF k
  <2>1. 1 \in Int OBVIOUS
  <2>2. Spectrum(e, h, k + 1 * h) = a /\ Spectrum(o, h, k + 1 * h) = b
    BY <1>1, <1>2, <1>3, <2>1, SpectrumRound
  <2>3. Spectrum(e, h, h - k) = Conj(a) /\ Spectrum(o, h, h - k) = Conj(b)
    BY <1>1, <1>2, <1>3, SpectrumReal
  <2> QED BY <1>3, <2>2, <2>3
<1>8. kf_cexp(-h, n) = MinusOne BY <1>1, RootHalf
<1> HIDE DEF a, b
<1> DEFINE u == a.r  v == b.r
<1>9. u \in Int /\ v \in Int /\ a = Complex(u, 0) /\ b = Complex(v, 0)
  BY <1>4, <1>7, SelfConjugate
<1> HIDE DEF u, v
<1>10. CAdd(a, CMul(Img, b)) = Complex(u, v)
  <2>1. 0 \in Int /\ 1 \in Int OBVIOUS
  <2>2. CMul(Img, b) = Complex(0 * v - 1 * 0, 0 * 0 + 1 * v) BY <1>9, <2>1, MulNamed DEF Img
  <2>3. 0 * v - 1 * 0 = 0 /\ 0 * 0 + 1 * v = v /\ u + 0 = u /\ 0 + v = v BY <1>9
  <2>4. CAdd(a, CMul(Img, b)) = Complex(u + 0, 0 + v) BY <1>9, <2>1, <2>2, <2>3, NamedAdd
  <2> QED BY <2>3, <2>4
<1>11. CAdd(a, CMul(One, b)) = Complex(u + v, 0)
  <2>1. CMul(One, b) = b BY <1>4, MulRing
  <2>2. 0 \in Int /\ 0 + 0 = 0 OBVIOUS
  <2>3. CAdd(a, b) = Complex(u + v, 0 + 0) BY <1>9, <2>2, NamedAdd
  <2> QED BY <2>1, <2>2, <2>3
<1>12. CAdd(a, CMul(MinusOne, b)) = Complex(u - v, 0)
  <2>1. CAdd(a, CMul(b, MinusOne)) = CSub(a, b) BY <1>4, Butterfly2
  <2>2. CMul(MinusOne, b) = CMul(b, MinusOne) BY <1>4, ImgLaws, MulRing
  <2>3. 0 \in Int /\ 0 - 0 = 0 OBVIOUS
  <2>4. CSub(a, b) = Complex(u - v, 0 - 0) BY <1>9, <2>3, NamedSub
  <2> QED BY <2>1, <2>2, <2>3, <2>4
<1> QED BY <1>4, <1>5, <1>6, <1>7, <1>8, <1>9, <1>10, <1>11, <1>12 DEF h

\* What a bin takes from the bin as far from the other end.
Merged(a, b, w) == CAdd(CAdd(a, Conj(b)), CMul(CSub(a, Conj(b)), w))

LEMMA MergedMirror ==
  ASSUME NEW a \in C, NEW b \in C, NEW w \in C
  PROVE  /\ Merged(a, b, w) \in C
         /\ Conj(CSub(CAdd(b, Conj(a)), CMul(CSub(b, Conj(a)), w))) = Merged(a, b, Conj(w))
<1> DEFINE c == Conj(a)  d == Conj(b)  v == Conj(w)
<1>1. c \in C /\ d \in C /\ v \in C /\ Conj(c) = a /\ Conj(d) = b BY Closed, ConjRing
<1> HIDE DEF c, d, v
<1>2. CAdd(b, c) \in C /\ CSub(b, c) \in C /\ CAdd(a, d) \in C /\ CSub(a, d) \in C /\
    CSub(d, a) \in C
  BY <1>1, Closed, Zenon
<1>3. CMul(CSub(b, c), w) \in C /\ CMul(CSub(a, d), w) \in C /\ CMul(CSub(a, d), v) \in C
      /\ CMul(CSub(d, a), v) \in C
  BY <1>1, <1>2, Closed, Zenon
<1>4. Merged(a, b, w) \in C BY <1>2, <1>3, Closed DEF Merged, d
<1>5. Conj(CSub(CAdd(b, c), CMul(CSub(b, c), w))) = CSub(Conj(CAdd(b, c)), Conj(CMul(CSub(b, c), w)))
  BY <1>2, <1>3, ConjRing
<1>6. Conj(CAdd(b, c)) = CAdd(a, d)
  <2>1. Conj(CAdd(b, c)) = CAdd(Conj(b), Conj(c)) BY <1>1, ConjRing
  <2>2. CAdd(d, a) = CAdd(a, d) BY <1>1, AddRing
  <2> QED BY <1>1, <2>1, <2>2 DEF d
<1>7. Conj(CMul(CSub(b, c), w)) = CMul(CSub(d, a), v)
  <2>1. Conj(CMul(CSub(b, c), w)) = CMul(Conj(CSub(b, c)), Conj(w)) BY <1>2, ConjRing
  <2>2. Conj(CSub(b, c)) = CSub(Conj(b), Conj(c)) BY <1>1, ConjRing
  <2> QED BY <1>1, <2>1, <2>2 DEF d, v
<1>8. CAdd(CMul(CSub(d, a), v), CMul(CSub(a, d), v)) = Zero
  <2> DEFINE s == CSub(d, a)  t == CSub(a, d)
  <2>1. CAdd(s, t) = Zero
    <3>1. CAdd(s, t) = CSub(a, a) BY <1>1, Telescope, AddRing
    <3> QED BY <3>1, AddRing
  <2>2. s \in C /\ t \in C BY <1>2
  <2> HIDE DEF s, t
  <2>3. CMul(v, CAdd(s, t)) = CAdd(CMul(v, s), CMul(v, t)) BY <1>1, <2>2, MulRing
  <2>4. CMul(v, s) = CMul(s, v) /\ CMul(v, t) = CMul(t, v) BY <1>1, <2>2, MulRing
  <2>5. CMul(v, Zero) = Zero BY <1>1, MulRing
  <2> QED BY <2>1, <2>3, <2>4, <2>5 DEF s, t
<1>9. CSub(CAdd(a, d), CMul(CSub(d, a), v)) = CAdd(CAdd(a, d), CMul(CSub(a, d), v))
  BY <1>2, <1>3, <1>8, Opposite
<1> QED BY <1>4, <1>5, <1>6, <1>7, <1>9 DEF Merged, c, d, v

-----------------------------------------------------------------------------
\* A packed spectrum that is a transform of a signal, by N.
Spectral(F, x, n) ==
  /\ F \in Values(n)
  /\ \A k \in 0 .. n \div 2 : Scaled(Unpacked(F, k), n) = Dft(x, k)

SameEnds(u, v, p, q) ==
  Complex(u + v, 0) = Complex(p + q, 0) /\ Complex(u - v, 0) = Complex(p - q, 0)

LEMMA EndSame ==
  ASSUME NEW u \in Int, NEW v \in Int, NEW p \in Int, NEW q \in Int, Complex(u, v)
        = Complex(p, q)
  PROVE  SameEnds(u, v, p, q)
<1>1. u % P = p % P /\ v % P = q % P BY DEF Complex
<1>2. PICK a \in Int : u = (u % P) + a * P BY ModRest
<1>3. PICK b \in Int : v = (v % P) + b * P BY ModRest
<1>4. PICK c \in Int : p = (p % P) + c * P BY ModRest
<1>5. PICK d \in Int : q = (q % P) + d * P BY ModRest
<1> DEFINE e == a - c  f == b - d
<1>6. e \in Int /\ f \in Int /\ P \in Int /\ u % P \in Int /\ v % P \in Int
  BY PIsOdd, ModRest
<1>7. e * P = a * P - c * P /\ f * P = b * P - d * P /\ a * P \in Int /\ b * P \in Int
      /\ c * P \in Int /\ d * P \in Int
  BY <1>6
<1> HIDE DEF e, f
<1>8. u = p + e * P /\ v = q + f * P BY <1>1, <1>2, <1>3, <1>4, <1>5, <1>6, <1>7
<1>9. (e + f) * P = e * P + f * P /\ (e - f) * P = e * P - f * P /\ e * P \in Int /\
    f * P \in Int
      /\ 0 = 0 + 0 * P
  BY <1>6
<1>10. u + v = (p + q) + (e + f) * P /\ u - v = (p - q) + (e - f) * P BY <1>8, <1>9
<1>11. u + v \in Int /\ u - v \in Int /\ p + q \in Int /\ p - q \in Int /\ e + f \in Int
       /\ e - f \in Int /\ 0 \in Int
  BY <1>6
<1> QED BY <1>9, <1>10, <1>11, Congruent DEF SameEnds

LEMMA InverseIs ==
  ASSUME NEW n \in Lengths
  PROVE  Inverse(n) \in 0 .. P - 1 /\ Inverse(n) \in Int /\ (Inverse(n) * n) % P = 1
<1>1. n \in Int /\ n % P # 0 BY OrderUnit DEF Lengths
<1>2. \E k \in 0 .. P - 1 : (k * n) % P = 1 BY <1>1, RealInverse
<1>3. Inverse(n) \in 0 .. P - 1 /\ (Inverse(n) * n) % P = 1 BY <1>2 DEF Inverse
<1> QED BY <1>3, PIsOdd

\* Half the inverse of the length takes back both of them.
LEMMA ScaleBack ==
  ASSUME NEW n \in Lengths, NEW d \in C
  PROVE  LET s == Inverse(n)
         IN  /\ Scaled(CMul(Scalar(2), d), Half * s) \in C /\ Half * s \in Int
             /\ Scaled(Scaled(CMul(Scalar(2), d), Half * s), n) = d
<1> DEFINE s == Inverse(n)  w == Half * s  v == 2 * w  u == n * v
<1>1. s \in Int /\ n \in Int /\ (s * n) % P = 1 BY InverseIs, HalfLength
<1>2. P \in Int /\ Half \in Int /\ 2 * Half = P + 1 /\ 2 \in Int BY PIsOdd
<1> HIDE DEF s
<1>3. w \in Int BY <1>1, <1>2
<1> HIDE DEF w
<1>4. v \in Int BY <1>3
<1>5. v = (P + 1) * s
  <2>1. 2 * (Half * s) = (2 * Half) * s BY <1>1, <1>2
  <2> QED BY <1>2, <2>1 DEF w
<1> HIDE DEF v
<1>6. u \in Int BY <1>1, <1>4
<1>7. Scalar(u) = One
  <2>1. s * n \in Int BY <1>1
  <2>2. PICK c \in Int : s * n = ((s * n) % P) + c * P BY <2>1, ModRest
  <2>3. u = 1 + (1 + c + c * P) * P
    <3>1. u = (P + 1) * (s * n) BY <1>1, <1>2, <1>5
    <3>2. s * n = 1 + c * P BY <1>1, <2>2
    <3>3. (P + 1) * (1 + c * P) = 1 + (1 + c + c * P) * P BY <1>2
    <3> HIDE DEF u
    <3> QED BY <3>1, <3>2, <3>3
  <2> DEFINE e == 1 + c + c * P
  <2>4. e \in Int /\ 1 \in Int /\ 0 \in Int /\ 0 = 0 + 0 * P BY <1>2
  <2>5. u = 1 + e * P BY <2>3
  <2> HIDE DEF e, u
  <2>6. Complex(u, 0) = Complex(1, 0) BY <1>6, <2>4, <2>5, Congruent
  <2> QED BY <2>6 DEF Scalar, One
<1>8. Scalar(2) \in C /\ Scalar(w) \in C /\ Scalar(n) \in C /\ Scalar(v) \in C
  BY <1>1, <1>2, <1>3, <1>4, RealInC
<1>9. CMul(Scalar(2), d) \in C BY <1>8, Closed, Zenon
<1>10. Scaled(CMul(Scalar(2), d), w) = CMul(Scalar(w), CMul(Scalar(2), d))
       /\ Scaled(CMul(Scalar(2), d), w) \in C
  BY <1>3, <1>9, RealScale
<1>11. CMul(Scalar(w), CMul(Scalar(2), d)) = CMul(Scalar(v), d)
  <2>1. CMul(Scalar(w), CMul(Scalar(2), d)) = CMul(CMul(Scalar(w), Scalar(2)), d)
    BY <1>8, MulRing
  <2>2. CMul(Scalar(w), Scalar(2)) = Scalar(w * 2) BY <1>2, <1>3, RealMul
  <2>3. w * 2 = v BY <1>3 DEF v
  <2> QED BY <2>1, <2>2, <2>3
<1>12. CMul(Scalar(v), d) \in C BY <1>8, Closed
<1>13. Scaled(CMul(Scalar(v), d), n) = CMul(Scalar(n), CMul(Scalar(v), d))
  BY <1>1, <1>12, RealScale
<1>14. CMul(Scalar(n), CMul(Scalar(v), d)) = d
  <2>1. CMul(Scalar(n), CMul(Scalar(v), d)) = CMul(CMul(Scalar(n), Scalar(v)), d)
    BY <1>8, MulRing
  <2>2. CMul(Scalar(n), Scalar(v)) = Scalar(u) BY <1>1, <1>4, RealMul
  <2>3. CMul(One, d) = d BY MulRing
  <2> QED BY <1>7, <2>1, <2>2, <2>3
<1> QED BY <1>3, <1>10, <1>11, <1>13, <1>14 DEF s, w

LEMMA UnpackedIs ==
  ASSUME NEW n \in Lengths, NEW F \in Values(n)
  PROVE  /\ n = Len(F)
         /\ Unpacked(F, 0) = Complex(F[1], 0) /\ Unpacked(F, n \div 2) = Complex(F[n], 0)
         /\ \A k \in 1 .. (n \div 2) - 1 : Unpacked(F, k) = Complex(F[2 * k], F[2 * k + 1])
         /\ \A o \in 1 .. n : F[o] \in Int
         /\ \A k \in 0 .. n \div 2 : Unpacked(F, k) \in C
<1> DEFINE h == n \div 2
<1>1. n \in Nat \ {0} /\ h \in Nat \ {0} /\ 2 * h = n /\ P \in Nat BY HalfLength, PIsOdd
<1> HIDE DEF h
<1>2. Len(F) = n /\ \A o \in 1 .. n : F[o] \in Int BY <1>1 DEF Values
<1>3. Unpacked(F, 0) = Complex(F[1], 0) BY DEF Unpacked
<1>4. Unpacked(F, h) = Complex(F[n], 0) BY <1>1, <1>2 DEF Unpacked
<1>5. ASSUME NEW k \in 1 .. h - 1
      PROVE  /\ Unpacked(F, k) = Complex(F[2 * k], F[2 * k + 1])
             /\ 2 * k \in 1 .. n /\ 2 * k + 1 \in 1 .. n
  <2>1. k # 0 /\ 2 * k # Len(F) BY <1>1, <1>2
  <2>2. (2 * k) \div 2 = k
    <3>1. k \in Int /\ 0 \in 0 .. 2 - 1 /\ 2 \in Nat \ {0} /\ k * 2 + 0 = 2 * k OBVIOUS
    <3>2. (k * 2 + 0) \div 2 = k BY <3>1, Remainder
    <3> QED BY <3>1, <3>2
  <2>3. Unpacked(F, k) = Bin(F, 2 * k) BY <2>1 DEF Unpacked
  <2>4. k * 2 = 2 * k OBVIOUS
  <2>5. Bin(F, 2 * k) = Complex(F[k * 2], F[k * 2 + 1]) BY <2>2 DEF Bin
  <2>6. 2 * k \in 1 .. n /\ 2 * k + 1 \in 1 .. n BY <1>1
  <2> QED BY <2>3, <2>4, <2>5, <2>6
<1>6. ASSUME NEW k \in 0 .. h PROVE Unpacked(F, k) \in C
  <2>1. 1 \in 1 .. n /\ n \in 1 .. n /\ 0 \in Int BY <1>1
  <2>2. CASE k = 0 BY <1>2, <1>3, <2>1, <2>2, InC
  <2>3. CASE k = h BY <1>2, <1>4, <2>1, <2>3, InC
  <2>4. CASE k \in 1 .. h - 1 BY <1>2, <1>5, <2>4, InC
  <2> QED BY <1>1, <2>2, <2>3, <2>4
<1> QED BY <1>2, <1>3, <1>4, <1>5, <1>6 DEF h

\* The forward transform's last steps.
LEMMA PostTrue ==
  ASSUME NEW n \in Lengths, NEW x \in Values(n), NEW st, st = kiss_fftr_alloc(n, FALSE), NEW t,
         \A k \in 0 .. (n \div 2) - 1 : t[k] = Packed(x, n, k)
  PROVE  Spectral(Post(st, t, Inverse(n)), x, n)
<1> DEFINE h == n \div 2  s == Inverse(n)  F == Post(st, t, s)
           f1(k) == CAdd(t[k], Conj(t[h - k]))
           f2(k) == CSub(t[k], Conj(t[h - k]))
           tw(k) == CMul(f2(k), st.super_twiddles[k])
           bin(k) == IF 2 * k < h THEN Scaled(CAdd(f1(k), tw(k)), Half * s)
                     ELSE Scaled(Conj(CSub(f1(h - k), tw(h - k))), Half * s)
           first == ((t[0].r + t[0].i) * s) % P
           last == ((t[0].r - t[0].i) * s) % P
<1>1. n \in Nat \ {0} /\ h \in Nat \ {0} /\ h * 2 = n /\ 2 * h = n BY HalfLength
<1>2. s \in Int /\ (s * n) % P = 1 BY InverseIs
<1>3. st.substate.nfft = h /\ \A i \in 0 .. h - 1 : st.super_twiddles[i] = Super(n, i)
  BY DEF kiss_fftr_alloc, kiss_fft_alloc, Super
<1>4. F = [o \in 1 .. n |-> IF o = 1 THEN first ELSE IF o = n THEN last
                            ELSE IF o % 2 = 0 THEN bin(o \div 2).r ELSE bin(o \div 2).i]
  <2>1. F = [o \in 1 .. 2 * h |-> IF o = 1 THEN first ELSE IF o = 2 * h THEN last
                                  ELSE IF o % 2 = 0 THEN bin(o \div 2).r ELSE bin(o \div 2).i]
    <3> HIDE DEF h, s
    <3> QED BY <1>3, Zenon DEF Post
  <2> HIDE DEF F, bin, first, last, h
  <2> QED BY <1>1, <2>1
<1> HIDE DEF h, s
<1>5. ASSUME NEW k \in 1 .. h - 1
      PROVE  /\ bin(k) = Scaled(CMul(Scalar(2), Dft(x, k)), Half * s)
             /\ bin(k) \in C /\ Scaled(bin(k), n) = Dft(x, k)
  <2> DEFINE j == h - k  a == t[k]  b == t[j]  w == Super(n, k)
  <2>1. k \in Int /\ j \in 1 .. h - 1 /\ j \in Int /\ h - j = k BY <1>1
  <2>2. k \in 0 .. h - 1 /\ j \in 0 .. h - 1 BY <1>1, <2>1
  <2>3. a = Packed(x, n, k) /\ b = Packed(x, n, j) BY <2>2 DEF h
  <2>4. a \in C /\ b \in C BY <2>1, <2>3, PackedHalves
  <2>5. Merged(a, b, w) = CMul(Scalar(2), Dft(x, k))
    <3>1. CAdd(CAdd(Packed(x, n, k), Conj(Packed(x, n, (n \div 2) - k))),
               CMul(CSub(Packed(x, n, k), Conj(Packed(x, n, (n \div 2) - k))), Super(n, k)))
            = CMul(Scalar(2), Dft(x, k))
      BY <2>1, Unpacking
    <3> QED BY <2>3, <3>1 DEF Merged, h
  <2>6. w \in C /\ SuperBack(n, k) = Conj(w) BY <2>1, SuperTurns
  <2>7. Super(n, j) = Conj(w)
    <3>1. Super(n, (n \div 2) - k) = SuperBack(n, k) BY <2>1, SuperMirror
    <3> QED BY <2>6, <3>1 DEF h
  <2>8. f1(k) = CAdd(a, Conj(b)) /\ tw(k) = CMul(CSub(a, Conj(b)), w)
    BY <1>3, <2>2, Zenon
  <2>9. f1(j) = CAdd(b, Conj(a)) /\ tw(j) = CMul(CSub(b, Conj(a)), Conj(w))
    <3>1. f1(j) = CAdd(b, Conj(t[h - j])) /\ f2(j) = CSub(b, Conj(t[h - j])) OBVIOUS
    <3>2. st.super_twiddles[j] = Conj(w) BY <1>3, <2>2, <2>7, Zenon
    <3>3. t[h - j] = a BY <2>1
    <3> HIDE DEF j, a, b, w, f1
    <3> QED BY <3>1, <3>2, <3>3, Zenon
  <2> HIDE DEF a, b, w
  <2>10. bin(k) = Scaled(Merged(a, b, w), Half * s)
    <3>1. CASE 2 * k < h BY <2>8, <3>1, Zenon DEF Merged
    <3>2. CASE ~(2 * k < h)
      <4>1. bin(k) = Scaled(Conj(CSub(f1(j), tw(j))), Half * s) BY <3>2
      <4>2. Conj(w) \in C /\ Conj(Conj(w)) = w BY <2>6, Closed, ConjRing
      <4>3. Conj(CSub(CAdd(b, Conj(a)), CMul(CSub(b, Conj(a)), Conj(w)))) = Merged(a, b, Conj(Conj(w)))
        BY <2>4, <4>2, MergedMirror
      <4> HIDE DEF f1, tw, bin, j
      <4> QED BY <2>9, <4>1, <4>2, <4>3
    <3> QED BY <3>1, <3>2, Zenon
  <2>11. Dft(x, k) \in C BY <2>1, DftIsSpectrum
  <2> HIDE DEF bin
  <2> QED BY <2>5, <2>10, <2>11, ScaleBack DEF s
<1> HIDE DEF bin, F
<1>6. t[0] = Packed(x, n, 0)
  <2>1. 0 \in 0 .. h - 1 BY <1>1
  <2> QED BY <2>1 DEF h
<1>7. PICK u \in Int, v \in Int :
         /\ t[0] = Complex(u, v)
         /\ Dft(x, 0) = Complex(u + v, 0) /\ Dft(x, h) = Complex(u - v, 0)
  BY <1>6, EndBins DEF h
<1> DEFINE p == t[0].r  q == t[0].i
<1>8. p \in Int /\ q \in Int /\ t[0] = Complex(p, q)
  <2>1. t[0] \in C BY <1>7, InC
  <2> QED BY <2>1, AsComplex
<1> HIDE DEF p, q
<1>9. Dft(x, 0) = Complex(p + q, 0) /\ Dft(x, h) = Complex(p - q, 0)
  <2>2. Complex(u, v) = Complex(p, q) BY <1>7, <1>8
  <2>3. SameEnds(u, v, p, q) BY <1>7, <1>8, <2>2, EndSame
  <2> QED BY <1>7, <2>3 DEF SameEnds
<1>10. ASSUME NEW z \in Int
       PROVE  /\ (z * s) % P \in 0 .. P - 1 /\ (z * s) % P \in Int
              /\ Scaled(Complex((z * s) % P, 0), n) = Complex(z, 0)
  <2> DEFINE y == z * s  r == y % P
  <2>1. y \in Int BY <1>2
  <2>2. r \in 0 .. P - 1 /\ P \in Nat \ {0}
    <3> HIDE DEF y
    <3> QED BY <2>1, ModRest, PIsOdd
  <2>3. PICK c \in Int : y = r + c * P
    <3> HIDE DEF y
    <3> QED BY <2>1, ModRest
  <2>4. PICK d \in Int : s * n = 1 + d * P
    <3>1. s * n \in Int BY <1>1, <1>2
    <3>2. PICK d \in Int : s * n = ((s * n) % P) + d * P BY <3>1, ModRest
    <3> QED BY <1>2, <3>2
  <2> HIDE DEF r
  <2>5. r \in Int BY <2>2
  <2>6. Scaled(Complex(r, 0), n) = Complex(r * n, 0 * n) /\ 0 * n = 0 /\ r * n \in Int
    <3>1. 0 \in Int /\ n \in Int /\ 0 * n = 0 /\ r * n \in Int BY <1>1, <2>5
    <3> QED BY <2>5, <3>1, ScaledHom
  <2> DEFINE e == z * d - c * n
  <2>7. r * n = z + e * P
    <3>1. (z * s) * n = z * (s * n) BY <1>1, <1>2
    <3>2. z * (1 + d * P) = z + (z * d) * P BY <2>2
    <3>3. (r + c * P) * n = r * n + (c * n) * P BY <1>1, <2>2, <2>5
    <3>4. (z * d - c * n) * P = (z * d) * P - (c * n) * P BY <1>1, <2>2
    <3>5. r * n + (c * n) * P = z + (z * d) * P BY <2>3, <2>4, <3>1, <3>2, <3>3
    <3> DEFINE A == (c * n) * P  B == (z * d) * P  D == r * n
    <3>6. A \in Int /\ B \in Int /\ D \in Int BY <1>1, <2>2, <2>5
    <3>7. D + A = z + B /\ e * P = B - A BY <3>4, <3>5
    <3> HIDE DEF A, B, D, e
    <3>8. D = z + e * P BY <3>6, <3>7
    <3> QED BY <3>8 DEF D
  <2>8. e \in Int BY <1>1
  <2> HIDE DEF e
  <2>9. Complex(r * n, 0) = Complex(z, 0)
    <3>1. 0 \in Int /\ 0 = 0 + 0 * P BY <2>2
    <3> DEFINE D == r * n
    <3>2. D \in Int /\ D = z + e * P BY <2>6, <2>7
    <3> HIDE DEF D
    <3>3. Complex(D, 0) = Complex(z, 0) BY <2>8, <3>1, <3>2, Congruent
    <3> QED BY <3>3 DEF D
  <2> QED BY <2>2, <2>5, <2>6, <2>9 DEF r
<1>11. /\ F[1] = first /\ F[n] = last /\ n # 1
       /\ \A k \in 1 .. h - 1 : F[2 * k] = bin(k).r /\ F[2 * k + 1] = bin(k).i
  <2>1. 1 \in 1 .. n /\ n \in 1 .. n /\ n # 1 BY <1>1
  <2>2. F[1] = first /\ F[n] = last BY <1>4, <2>1
  <2>3. ASSUME NEW k \in 1 .. h - 1 PROVE F[2 * k] = bin(k).r /\ F[2 * k + 1] = bin(k).i
    <3>1. /\ 2 * k \in 1 .. n /\ 2 * k + 1 \in 1 .. n /\ 2 * k # 1 /\ 2 * k # n
          /\ 2 * k + 1 # 1 /\ 2 * k + 1 # n
      BY <1>1
    <3>2. /\ (2 * k) % 2 = 0 /\ (2 * k) \div 2 = k
          /\ (2 * k + 1) % 2 = 1 /\ (2 * k + 1) \div 2 = k
      <4>1. k \in Int /\ 0 \in 0 .. 2 - 1 /\ 1 \in 0 .. 2 - 1 /\ 2 \in Nat \ {0}
            /\ k * 2 + 0 = 2 * k /\ k * 2 + 1 = 2 * k + 1
        OBVIOUS
      <4>2. (k * 2 + 0) % 2 = 0 /\ (k * 2 + 0) \div 2 = k BY <4>1, Remainder
      <4>3. (k * 2 + 1) % 2 = 1 /\ (k * 2 + 1) \div 2 = k BY <4>1, Remainder
      <4> QED BY <4>1, <4>2, <4>3
    <3> DEFINE d == 2 * k  o == 2 * k + 1
    <3>3. F[d] = bin(d \div 2).r /\ F[o] = bin(o \div 2).i
      <4>1. d \in 1 .. n /\ d # 1 /\ d # n /\ d % 2 = 0 BY <3>1, <3>2
      <4>2. o \in 1 .. n /\ o # 1 /\ o # n /\ o % 2 # 0 BY <3>1, <3>2
      <4> HIDE DEF first, last, d, o
      <4> QED BY <1>4, <4>1, <4>2
    <3>4. d \div 2 = k /\ o \div 2 = k BY <3>2
    <3> HIDE DEF bin
    <3> QED BY <3>3, <3>4
  <2> QED BY <2>1, <2>2, <2>3
<1>12. F \in Values(n)
  <2> SUFFICES ASSUME NEW o \in 1 .. n PROVE F[o] \in 0 .. P - 1
    BY <1>4 DEF Values
  <2>1. CASE o = 1
    <3>1. p + q \in Int BY <1>8
    <3> QED BY <1>10, <1>11, <2>1, <3>1 DEF p, q
  <2>2. CASE o = n
    <3>1. p - q \in Int BY <1>8
    <3> QED BY <1>10, <1>11, <2>2, <3>1 DEF p, q
  <2>3. CASE o # 1 /\ o # n
    <3> DEFINE k == o \div 2
    <3>1. o = k * 2 + (o % 2) /\ o % 2 \in 0 .. 1 /\ k \in Int BY Division
    <3>2. k \in 1 .. h - 1
      <4> HIDE DEF k
      <4> QED BY <1>1, <2>3, <3>1
    <3>3. bin(k) \in C BY <1>5, <3>2
    <3>4. F[o] = bin(k).r \/ F[o] = bin(k).i
      <4> HIDE DEF k
      <4> QED BY <1>11, <3>1, <3>2
    <3> QED BY <3>3, <3>4 DEF C
  <2> QED BY <2>1, <2>2, <2>3
<1>13. ASSUME NEW k \in 0 .. h PROVE Scaled(Unpacked(F, k), n) = Dft(x, k)
  <2>1. /\ Unpacked(F, 0) = Complex(F[1], 0) /\ Unpacked(F, h) = Complex(F[n], 0)
        /\ \A i \in 1 .. h - 1 : Unpacked(F, i) = Complex(F[2 * i], F[2 * i + 1])
    BY <1>12, UnpackedIs DEF h
  <2>2. CASE k = 0
    <3>1. p + q \in Int BY <1>8
    <3>2. F[1] = ((p + q) * s) % P BY <1>11 DEF p, q
    <3> QED BY <1>9, <1>10, <2>1, <2>2, <3>1, <3>2
  <2>3. CASE k = h
    <3>1. p - q \in Int BY <1>8
    <3>2. F[n] = ((p - q) * s) % P BY <1>11 DEF p, q
    <3> QED BY <1>9, <1>10, <2>1, <2>3, <3>1, <3>2
  <2>4. CASE k \in 1 .. h - 1
    <3>1. bin(k) \in C /\ Scaled(bin(k), n) = Dft(x, k) BY <1>5, <2>4
    <3>2. bin(k) = Complex(bin(k).r, bin(k).i) BY <3>1, AsComplex
    <3> QED BY <1>11, <2>1, <2>4, <3>1, <3>2
  <2> QED BY <1>1, <2>2, <2>3, <2>4
<1> QED BY <1>12, <1>13, Zenon DEF Spectral, F, h, s

-----------------------------------------------------------------------------
\* What the inverse transform makes of a packed spectrum first.
SumAndDiff(x, y) ==
  /\ CAdd(CAdd(x, y), CSub(x, y)) = CMul(Scalar(2), x)
  /\ CSub(CAdd(x, y), CSub(x, y)) = CMul(Scalar(2), y)

LEMMA SumDiff == ASSUME NEW x \in C, NEW y \in C PROVE SumAndDiff(x, y)
<1> DEFINE g == CSub(x, y)
<1>1. g \in C /\ CAdd(x, x) \in C /\ CAdd(y, y) \in C BY Closed
<1>2. CAdd(g, y) = x BY AddRing
<1> HIDE DEF g
<1>3. CAdd(y, g) = x BY <1>1, <1>2, AddRing
<1>4. CAdd(CAdd(x, y), g) = CAdd(x, CAdd(y, g)) BY <1>1, AddRing
<1>5. CAdd(x, y) = CAdd(CAdd(y, y), g)
  <2>1. CAdd(CAdd(y, y), g) = CAdd(y, CAdd(y, g)) BY <1>1, AddRing
  <2>2. CAdd(y, x) = CAdd(x, y) BY AddRing
  <2> QED BY <1>3, <2>1, <2>2
<1>6. CSub(CAdd(CAdd(y, y), g), g) = CAdd(y, y) BY <1>1, AddRing
<1>7. CAdd(x, x) = CMul(Scalar(2), x) /\ CAdd(y, y) = CMul(Scalar(2), y) BY Doubling
<1> QED BY <1>3, <1>4, <1>5, <1>6, <1>7 DEF SumAndDiff, g

\* Merging takes apart what merging the other way has put together.
LEMMA Unmerged ==
  ASSUME NEW a \in C, NEW b \in C, NEW w \in C, CMul(w, Conj(w)) = One
  PROVE  Merged(Merged(a, b, Conj(w)), Merged(b, a, w), w) = CMul(Scalar(2), CMul(Scalar(2), a))
<1> DEFINE v == Conj(w)  c == Conj(a)  d == Conj(b)  S == CAdd(a, d)  D == CSub(a, d)
           e == CMul(D, v)  A == Merged(a, b, v)  B == Merged(b, a, w)  two == Scalar(2)
<1>1. v \in C /\ c \in C /\ d \in C /\ Conj(c) = a /\ Conj(d) = b BY Closed, ConjRing
<1>2. S \in C /\ D \in C /\ CSub(d, a) \in C /\ CAdd(b, c) \in C /\ CSub(b, c) \in C
  BY <1>1, Closed
<1>3. e \in C /\ CMul(CSub(d, a), v) \in C /\ CMul(CSub(b, c), w) \in C BY <1>1, <1>2, Closed, Zenon
<1>4. two \in C
  <2>1. 2 \in Int OBVIOUS
  <2> QED BY <2>1, RealInC
<1>5. A = CAdd(S, e) BY DEF Merged
<1>6. B = CAdd(CAdd(b, c), CMul(CSub(b, c), w)) BY DEF Merged
<1>7. A \in C /\ B \in C BY <1>1, MergedMirror
<1>8. Conj(B) = CSub(S, e)
  <2>1. Conj(B) = CAdd(Conj(CAdd(b, c)), Conj(CMul(CSub(b, c), w)))
    BY <1>2, <1>3, <1>6, ConjRing
  <2>2. Conj(CAdd(b, c)) = S
    <3>1. Conj(CAdd(b, c)) = CAdd(d, a) BY <1>1, ConjRing
    <3>2. CAdd(d, a) = CAdd(a, d) BY <1>1, AddRing
    <3> QED BY <3>1, <3>2
  <2>3. Conj(CMul(CSub(b, c), w)) = CMul(CSub(d, a), v)
    <3>1. Conj(CMul(CSub(b, c), w)) = CMul(Conj(CSub(b, c)), v) BY <1>2, ConjRing
    <3>2. Conj(CSub(b, c)) = CSub(d, a) BY <1>1, ConjRing
    <3> QED BY <3>1, <3>2
  <2>4. CAdd(e, CMul(CSub(d, a), v)) = Zero
    <3> DEFINE s == CSub(d, a)
    <3>1. CAdd(D, s) = Zero
      <4>1. CAdd(s, D) = CSub(a, a) BY <1>1, Telescope, AddRing
      <4>2. CAdd(s, D) = CAdd(D, s) BY <1>2, AddRing
      <4> QED BY <4>1, <4>2, AddRing, Zenon
    <3>2. s \in C BY <1>2
    <3> HIDE DEF s, D
    <3>3. CMul(v, CAdd(D, s)) = CAdd(CMul(v, D), CMul(v, s)) BY <1>1, <1>2, <3>2, MulRing
    <3>4. CMul(v, D) = e /\ CMul(v, s) = CMul(s, v) BY <1>1, <1>2, <3>2, MulRing
    <3>5. CMul(v, Zero) = Zero BY <1>1, MulRing
    <3> QED BY <3>1, <3>3, <3>4, <3>5 DEF s
  <2>5. CSub(S, e) = CAdd(S, CMul(CSub(d, a), v)) BY <1>2, <1>3, <2>4, Opposite
  <2> QED BY <2>1, <2>2, <2>3, <2>5
<1> HIDE DEF A, B, S, D
<1>9. CAdd(A, Conj(B)) = CMul(two, S) /\ CSub(A, Conj(B)) = CMul(two, e)
  BY <1>2, <1>3, <1>5, <1>8, SumDiff DEF SumAndDiff
<1>10. CMul(CMul(two, e), w) = CMul(two, D)
  <2>1. CMul(CMul(two, e), w) = CMul(two, CMul(e, w)) BY <1>3, <1>4, MulRing
  <2>2. CMul(CMul(D, v), w) = CMul(D, CMul(v, w)) BY <1>1, <1>2, MulRing
  <2>3. CMul(v, w) = CMul(w, v) BY <1>1, MulRing
  <2>4. CMul(D, One) = D BY <1>2, MulRing
  <2> QED BY <2>1, <2>2, <2>3, <2>4
<1>11. CAdd(CMul(two, S), CMul(two, D)) = CMul(two, CAdd(S, D)) BY <1>2, <1>4, MulRing
<1>12. CAdd(S, D) = CMul(two, a) BY <1>1, SumDiff DEF SumAndDiff, S, D
<1>13. Merged(A, B, w) = CAdd(CAdd(A, Conj(B)), CMul(CSub(A, Conj(B)), w)) BY DEF Merged
<1> QED BY <1>9, <1>10, <1>11, <1>12, <1>13 DEF A, B

LEMMA MergedScaled ==
  ASSUME NEW a \in C, NEW b \in C, NEW w \in C, NEW s \in Int
  PROVE  Merged(CMul(Scalar(s), a), CMul(Scalar(s), b), w) = CMul(Scalar(s), Merged(a, b, w))
<1> DEFINE c == Scalar(s)  d == Conj(b)  S == CAdd(a, d)  D == CSub(a, d)  e == CMul(D, w)
<1>1. c \in C /\ d \in C /\ Conj(c) = c BY RealInC, RealConj, Closed
<1>2. S \in C /\ D \in C BY <1>1, Closed, Zenon
<1>3. e \in C BY <1>2, Closed
<1> HIDE DEF c
<1>4. Conj(CMul(c, b)) = CMul(c, d) BY <1>1, ConjRing
<1>5. CAdd(CMul(c, a), CMul(c, d)) = CMul(c, S) /\ CSub(CMul(c, a), CMul(c, d)) = CMul(c, D)
  BY <1>1, MulRing
<1> HIDE DEF S, D
<1>6. CMul(CMul(c, D), w) = CMul(c, e) BY <1>1, <1>2, MulRing
<1>7. CAdd(CMul(c, S), CMul(c, e)) = CMul(c, CAdd(S, e)) BY <1>1, <1>2, <1>3, MulRing
<1>8. Merged(CMul(c, a), CMul(c, b), w) = CMul(c, CAdd(S, e))
  BY <1>4, <1>5, <1>6, <1>7 DEF Merged
<1>9. Merged(a, b, w) = CAdd(S, e) BY DEF Merged, S, D
<1> QED BY <1>8, <1>9 DEF c

LEMMA Prepared ==
  ASSUME NEW n \in Lengths, NEW F \in Values(n), NEW st, st = kiss_fftr_alloc(n, TRUE)
  PROVE  LET h == n \div 2  G == Pre(st, F)
         IN  /\ DOMAIN G = 0 .. h - 1 /\ Terms(G, h)
             /\ G[0] = Complex(F[1] + F[n], F[1] - F[n])
             /\ \A k \in 1 .. h - 1 :
                   G[k] = Merged(Unpacked(F, k), Unpacked(F, h - k), SuperBack(n, k))
<1> DEFINE h == n \div 2  G == Pre(st, F)
           f(k) == Complex(F[2 * k], F[2 * k + 1])
           fek(k) == CAdd(f(k), Conj(f(h - k)))
           fok(k) == CMul(CSub(f(k), Conj(f(h - k))), st.super_twiddles[k])
           bin(k) == IF 2 * k < h THEN CAdd(fek(k), fok(k)) ELSE Conj(CSub(fek(h - k), fok(h - k)))
           end == Complex(F[1] + F[2 * h], F[1] - F[2 * h])
<1>1. n \in Nat \ {0} /\ h \in Nat \ {0} /\ h * 2 = n /\ 2 * h = n BY HalfLength
<1>2. st.substate.nfft = h /\ \A i \in 0 .. h - 1 : st.super_twiddles[i] = SuperBack(n, i)
  BY DEF kiss_fftr_alloc, kiss_fft_alloc, SuperBack
<1>3. G = [k \in 0 .. h - 1 |-> IF k = 0 THEN end ELSE bin(k)]
  <2>1. G = [k \in 0 .. h - 1 |->
               IF k = 0 THEN end
               ELSE IF 2 * k < h THEN CAdd(fek(k), fok(k))
               ELSE Conj(CSub(fek(h - k), fok(h - k)))]
    <3> HIDE DEF h
    <3> QED BY <1>2, Zenon DEF Pre
  <2> QED BY <2>1, Zenon
<1> HIDE DEF h, G
<1>4. ASSUME NEW k \in 1 .. h - 1
      PROVE  /\ bin(k) = Merged(Unpacked(F, k), Unpacked(F, h - k), SuperBack(n, k))
             /\ bin(k) \in C
  <2> DEFINE j == h - k  a == f(k)  b == f(j)  w == Super(n, k)
  <2>1. k \in Int /\ j \in 1 .. h - 1 /\ j \in Int /\ h - j = k BY <1>1
  <2>2. k \in 0 .. h - 1 /\ j \in 0 .. h - 1 /\ k \in 0 .. h /\ j \in 0 .. h BY <1>1, <2>1
  <2>3. a = Unpacked(F, k) /\ b = Unpacked(F, j)
    <3>1. \A i \in 1 .. h - 1 : Unpacked(F, i) = f(i) BY UnpackedIs DEF h
    <3> HIDE DEF f
    <3> QED BY <2>1, <3>1
  <2>4. a \in C /\ b \in C
    <3>1. \A i \in 0 .. h : Unpacked(F, i) \in C BY UnpackedIs DEF h
    <3> HIDE DEF a, b
    <3> QED BY <2>2, <2>3, <3>1
  <2>5. w \in C /\ SuperBack(n, k) = Conj(w) BY <2>1, SuperTurns
  <2>6. SuperBack(n, j) = w
    <3>1. Super(n, (n \div 2) - j) = SuperBack(n, j) BY <2>1, SuperMirror
    <3> QED BY <2>1, <3>1 DEF h
  <2>7. fek(k) = CAdd(a, Conj(b)) /\ fok(k) = CMul(CSub(a, Conj(b)), Conj(w))
    <3>1. st.super_twiddles[k] = Conj(w) BY <1>2, <2>2, <2>5, Zenon
    <3> HIDE DEF f
    <3> QED BY <3>1, Zenon
  <2>8. fek(j) = CAdd(b, Conj(a)) /\ fok(j) = CMul(CSub(b, Conj(a)), w)
    <3>1. st.super_twiddles[j] = w BY <1>2, <2>2, <2>6, Zenon
    <3>2. f(h - j) = a BY <2>1
    <3>3. fek(j) = CAdd(b, Conj(f(h - j)))
          /\ fok(j) = CMul(CSub(b, Conj(f(h - j))), st.super_twiddles[j])
      BY DEF b
    <3> HIDE DEF j, a, b, f, w, fek, fok
    <3> QED BY <3>1, <3>2, <3>3
  <2> HIDE DEF a, b, w, f
  <2>9. Conj(w) \in C BY <2>5, Closed
  <2>10. bin(k) = Merged(a, b, Conj(w))
    <3>1. CASE 2 * k < h BY <2>7, <3>1, Zenon DEF Merged
    <3>2. CASE ~(2 * k < h)
      <4>1. bin(k) = Conj(CSub(fek(j), fok(j))) BY <3>2
      <4>2. Conj(CSub(CAdd(b, Conj(a)), CMul(CSub(b, Conj(a)), w))) = Merged(a, b, Conj(w))
        BY <2>4, <2>5, MergedMirror
      <4> HIDE DEF fek, fok, bin, j
      <4> QED BY <2>8, <4>1, <4>2
    <3> QED BY <3>1, <3>2, Zenon
  <2>11. Merged(a, b, Conj(w)) \in C BY <2>4, <2>9, MergedMirror
  <2> HIDE DEF bin
  <2> QED BY <2>3, <2>5, <2>10, <2>11
<1> HIDE DEF bin
<1>5. end = Complex(F[1] + F[n], F[1] - F[n]) /\ end \in C
  <2>1. F[1] \in Int /\ F[n] \in Int
    <3>1. 1 \in 1 .. n /\ n \in 1 .. n BY <1>1
    <3> QED BY <3>1, UnpackedIs
  <2>2. F[1] + F[n] \in Int /\ F[1] - F[n] \in Int BY <2>1
  <2> QED BY <1>1, <2>2, InC
<1> HIDE DEF end
<1>6. DOMAIN G = 0 .. h - 1 BY <1>3
<1>7. G[0] = end
  <2>1. 0 \in 0 .. h - 1 BY <1>1
  <2> QED BY <1>3, <2>1
<1>8. \A k \in 1 .. h - 1 : G[k] = bin(k)
  <2>1. \A k \in 1 .. h - 1 : k \in 0 .. h - 1 /\ k # 0 BY <1>1
  <2> QED BY <1>3, <2>1
<1>9. Terms(G, h)
  <2> SUFFICES ASSUME NEW k \in 0 .. h - 1 PROVE G[k] \in C BY DEF Terms
  <2>1. CASE k = 0 BY <1>5, <1>7, <2>1
  <2>2. CASE k # 0
    <3>1. k \in 1 .. h - 1 BY <1>1, <2>2
    <3> QED BY <1>4, <1>8, <3>1
  <2> QED BY <2>1, <2>2
<1> QED BY <1>4, <1>5, <1>6, <1>7, <1>8, <1>9, Zenon DEF h, G

\* The inverse transform: what it gives has the spectrum it was given, by N.
LEMMA BackTrue ==
  ASSUME NEW n \in Lengths, NEW F \in Values(n), NEW st, st = kiss_fftr_alloc(n, TRUE),
         NEW y \in Values(n),
         \A j \in 0 .. (n \div 2) - 1 : Pairs(y)[j] = Spectrum(Pre(st, F), n \div 2, -(1 * j))
  PROVE  Spectral(F, y, n)
<1> DEFINE h == n \div 2  G == Pre(st, F)  Y == Pairs(y)
<1>1. n \in Nat \ {0} /\ h \in Nat \ {0} /\ h * 2 = n /\ 2 * h = n /\ h \in Orders
  BY HalfLength
<1>2. /\ Terms(G, h) /\ G[0] = Complex(F[1] + F[n], F[1] - F[n])
      /\ \A k \in 1 .. h - 1 : G[k] = Merged(Unpacked(F, k), Unpacked(F, h - k), SuperBack(n, k))
  BY Prepared, Zenon
<1>3. \A j \in 0 .. h - 1 : Y[j] = Spectrum(G, h, -1 * j)
  <2>1. \A j \in 0 .. h - 1 : Y[j] = Spectrum(G, h, -(1 * j)) BY Zenon
  <2>2. \A j \in 0 .. h - 1 : -(1 * j) = -1 * j BY <1>1
  <2> QED BY <2>1, <2>2, Zenon
<1>4. /\ Unpacked(F, 0) = Complex(F[1], 0) /\ Unpacked(F, h) = Complex(F[n], 0)
      /\ \A o \in 1 .. n : F[o] \in Int
      /\ \A k \in 0 .. h : Unpacked(F, k) \in C
  BY UnpackedIs
<1> HIDE DEF h, G, Y
<1>5. ASSUME NEW k \in 0 .. h - 1
      PROVE  Packed(y, n, k) = CMul(Scalar(h), G[k]) /\ G[k] \in C
  <2>1. -1 \in {1, -1} /\ k \in Int BY <1>1
  <2>2. Spectrum(Y, h, -(-1 * k)) = CMul(Scalar(h), G[k % h])
    <3> DEFINE g == -1
    <3>1. g \in {1, -1} /\ \A j \in 0 .. h - 1 : Y[j] = Spectrum(G, h, g * j) BY <1>3
    <3> HIDE DEF g
    <3>2. Spectrum(Y, h, -(g * k)) = CMul(Scalar(h), G[k % h])
      BY <1>1, <1>2, <2>1, <3>1, Inversion, ZenonT(40)
    <3> QED BY <3>2 DEF g
  <2>3. -(-1 * k) = k /\ k % h = k
    <3>1. 0 * h + k = k /\ 0 \in Int BY <1>1
    <3>2. (0 * h + k) % h = k BY <1>1, <3>1, Remainder
    <3> QED BY <2>1, <3>1, <3>2
  <2>4. G[k] \in C BY <1>2 DEF Terms
  <2> QED BY <2>2, <2>3, <2>4 DEF Packed, Y, h
<1>6. ASSUME NEW k \in 1 .. h - 1
      PROVE  Scaled(Unpacked(F, k), n) = Dft(y, k)
  <2> DEFINE j == h - k  a == Unpacked(F, k)  b == Unpacked(F, j)  w == Super(n, k)
             two == Scalar(2)  s == Scalar(h)
  <2>1. k \in Int /\ j \in 1 .. h - 1 /\ j \in Int /\ h - j = k /\ 2 \in Int /\ h \in Int
        /\ n \in Int
    BY <1>1
  <2>2. k \in 0 .. h - 1 /\ j \in 0 .. h - 1 /\ k \in 0 .. h /\ j \in 0 .. h BY <1>1, <2>1
  <2>3. a \in C /\ b \in C BY <1>4, <2>2
  <2>4. w \in C /\ SuperBack(n, k) = Conj(w) /\ CMul(w, Conj(w)) = One /\ Conj(w) \in C
    <3>1. w \in C /\ SuperBack(n, k) = Conj(w) /\ CMul(w, SuperBack(n, k)) = One
      BY <2>1, SuperTurns
    <3> QED BY <3>1, Closed, Zenon
  <2>5. SuperBack(n, j) = w
    <3>1. Super(n, (n \div 2) - j) = SuperBack(n, j) BY <2>1, SuperMirror
    <3> QED BY <2>1, <3>1 DEF h
  <2>6. G[k] = Merged(a, b, Conj(w)) /\ G[j] = Merged(b, a, w)
    <3>1. G[k] = Merged(a, b, SuperBack(n, k)) BY <1>2
    <3>2. G[j] = Merged(b, Unpacked(F, h - j), SuperBack(n, j)) BY <1>2, <2>1
    <3> QED BY <2>1, <2>4, <2>5, <3>1, <3>2
  <2>7. Packed(y, n, k) = CMul(s, G[k]) /\ Packed(y, n, j) = CMul(s, G[j])
        /\ G[k] \in C /\ G[j] \in C
    BY <1>5, <2>2
  <2>8. Merged(Packed(y, n, k), Packed(y, n, j), w) = CMul(two, Dft(y, k))
    <3>1. CAdd(CAdd(Packed(y, n, k), Conj(Packed(y, n, (n \div 2) - k))),
               CMul(CSub(Packed(y, n, k), Conj(Packed(y, n, (n \div 2) - k))), Super(n, k)))
            = CMul(Scalar(2), Dft(y, k))
      BY <2>1, Unpacking
    <3> QED BY <3>1 DEF Merged, h
  <2>9. Merged(CMul(s, G[k]), CMul(s, G[j]), w) = CMul(s, Merged(G[k], G[j], w))
    BY <2>1, <2>4, <2>7, MergedScaled
  <2>10. Merged(Merged(a, b, Conj(w)), Merged(b, a, w), w) = CMul(two, CMul(two, a))
    BY <2>3, <2>4, Unmerged
  <2>11. CMul(two, Dft(y, k)) = CMul(s, CMul(two, CMul(two, a)))
    BY <2>6, <2>7, <2>8, <2>9, <2>10
  <2>12. two \in C /\ s \in C /\ CMul(s, two) = Scalar(n)
    <3>1. two \in C /\ s \in C /\ CMul(s, two) = Scalar(h * 2) BY <2>1, RealInC, RealMul, Zenon
    <3> QED BY <1>1, <3>1
  <2> HIDE DEF two, s, a
  <2>13. CMul(two, a) \in C /\ CMul(s, CMul(two, a)) \in C BY <2>3, <2>12, Closed, Zenon
  <2>14. CMul(s, CMul(two, CMul(two, a))) = CMul(two, CMul(s, CMul(two, a)))
    <3> DEFINE c == CMul(two, a)
    <3>1. c \in C BY <2>13
    <3> HIDE DEF c
    <3>2. CMul(s, CMul(two, c)) = CMul(CMul(s, two), c) BY <2>12, <3>1, MulRing
    <3>3. CMul(two, CMul(s, c)) = CMul(CMul(two, s), c) BY <2>12, <3>1, MulRing
    <3>4. CMul(s, two) = CMul(two, s) BY <2>12, MulRing
    <3> QED BY <3>2, <3>3, <3>4 DEF c
  <2>15. Dft(y, k) = CMul(s, CMul(two, a))
    <3>1. 2 \in Int /\ 2 % P # 0
      <4>1. 2 \in 0 .. P - 1 BY PIsOdd
      <4>2. 2 % P = 2 BY <4>1, ModSame
      <4> QED BY <4>2
    <3>2. Dft(y, k) \in C BY <2>1, DftIsSpectrum
    <3> DEFINE d == Dft(y, k)  e == CMul(s, CMul(two, a))
    <3>3. d \in C /\ e \in C /\ CMul(Scalar(2), d) = CMul(Scalar(2), e)
      BY <2>11, <2>13, <2>14, <3>2 DEF two
    <3> HIDE DEF d, e
    <3>4. d = e BY <3>1, <3>3, RealCancel
    <3> QED BY <3>4 DEF d, e
  <2>16. CMul(s, CMul(two, a)) = CMul(Scalar(n), a) BY <2>3, <2>12, MulRing
  <2>17. Scaled(a, n) = CMul(Scalar(n), a) BY <2>1, <2>3, RealScale
  <2> QED BY <2>15, <2>16, <2>17 DEF a
<1>7. Scaled(Unpacked(F, 0), n) = Dft(y, 0) /\ Scaled(Unpacked(F, h), n) = Dft(y, h)
  <2> DEFINE a == F[1]  b == F[n]  p == h * (a + b)  q == h * (a - b)
  <2>1. a \in Int /\ b \in Int
    <3>1. 1 \in 1 .. n /\ n \in 1 .. n BY <1>1
    <3> QED BY <1>4, <3>1
  <2> HIDE DEF a, b
  <2>2. p \in Int /\ q \in Int BY <1>1, <2>1
  <2>3. p + q = a * n /\ p - q = b * n
    <3>1. h * (a + b) = h * a + h * b /\ h * (a - b) = h * a - h * b BY <1>1, <2>1
    <3>2. a * (2 * h) = 2 * (h * a) /\ b * (2 * h) = 2 * (h * b) BY <1>1, <2>1
    <3> DEFINE A == h * a  B == h * b
    <3>3. A \in Int /\ B \in Int BY <1>1, <2>1
    <3>4. p = A + B /\ q = A - B BY <3>1
    <3>5. a * n = 2 * A /\ b * n = 2 * B BY <1>1, <3>2
    <3> HIDE DEF A, B, p, q
    <3> QED BY <3>3, <3>4, <3>5
  <2>4. Packed(y, n, 0) = Complex(p, q)
    <3>1. 0 \in 0 .. h - 1 BY <1>1
    <3>2. Packed(y, n, 0) = CMul(Scalar(h), G[0]) /\ G[0] \in C BY <1>5, <3>1
    <3>3. CMul(Scalar(h), G[0]) = Scaled(G[0], h) BY <1>1, <3>2, RealScale
    <3>4. a + b \in Int /\ a - b \in Int /\ h \in Int BY <1>1, <2>1
    <3>5. G[0] = Complex(a + b, a - b) BY <1>2 DEF a, b
    <3>6. Scaled(Complex(a + b, a - b), h) = Complex((a + b) * h, (a - b) * h)
      <4> DEFINE u == a + b  v == a - b
      <4>1. u \in Int /\ v \in Int BY <3>4
      <4> HIDE DEF u, v
      <4>2. Scaled(Complex(u, v), h) = Complex(u * h, v * h) BY <3>4, <4>1, ScaledHom
      <4> QED BY <4>2 DEF u, v
    <3>7. (a + b) * h = p /\ (a - b) * h = q BY <3>4
    <3> QED BY <3>2, <3>3, <3>5, <3>6, <3>7
  <2> HIDE DEF p, q
  <2>5. PICK u \in Int, v \in Int :
           /\ Packed(y, n, 0) = Complex(u, v)
           /\ Dft(y, 0) = Complex(u + v, 0) /\ Dft(y, h) = Complex(u - v, 0)
    BY EndBins DEF h
  <2>6. Complex(u, v) = Complex(p, q) BY <2>4, <2>5
  <2>7. SameEnds(u, v, p, q) BY <2>2, <2>5, <2>6, EndSame
  <2>8. ASSUME NEW c \in Int PROVE Scaled(Complex(c, 0), n) = Complex(c * n, 0)
    <3>1. 0 \in Int /\ n \in Int /\ 0 * n = 0 BY <1>1
    <3> QED BY <3>1, ScaledHom
  <2> QED BY <1>4, <2>1, <2>3, <2>5, <2>7, <2>8 DEF SameEnds, a, b
<1>8. \A k \in 0 .. h : Scaled(Unpacked(F, k), n) = Dft(y, k)
  <2> SUFFICES ASSUME NEW k \in 0 .. h PROVE Scaled(Unpacked(F, k), n) = Dft(y, k) OBVIOUS
  <2>1. CASE k = 0 BY <1>7, <2>1
  <2>2. CASE k = h BY <1>7, <2>2
  <2>3. CASE k \in 1 .. h - 1 BY <1>6, <2>3
  <2> QED BY <1>1, <2>1, <2>2, <2>3
<1> QED BY <1>8 DEF Spectral, h

-----------------------------------------------------------------------------
\* Products of packed spectra are products of their bins.
InPacked(n, k) ==
  /\ 2 * k \in 1 .. n /\ 2 * k + 1 \in 1 .. n /\ 2 * k # 1 /\ 2 * k # n
  /\ 2 * k + 1 # 1 /\ 2 * k + 1 # n
  /\ (2 * k) % 2 = 0 /\ (2 * k) \div 2 = k /\ (2 * k + 1) % 2 = 1 /\ (2 * k + 1) \div 2 = k

LEMMA PackedPlaces ==
  ASSUME NEW n \in Lengths, NEW k \in 1 .. (n \div 2) - 1
  PROVE  InPacked(n, k)
<1> DEFINE h == n \div 2
<1>1. h \in Nat /\ n = h * 2 /\ k \in 1 .. h - 1 BY HalfLength
<1> HIDE DEF h
<1>2. /\ 2 * k \in 1 .. n /\ 2 * k + 1 \in 1 .. n /\ 2 * k # 1 /\ 2 * k # n
      /\ 2 * k + 1 # 1 /\ 2 * k + 1 # n
  BY <1>1
<1>3. k \in Int /\ 0 \in 0 .. 2 - 1 /\ 1 \in 0 .. 2 - 1 /\ 2 \in Nat \ {0}
      /\ k * 2 + 0 = 2 * k /\ k * 2 + 1 = 2 * k + 1
  BY <1>1
<1>4. (k * 2 + 0) % 2 = 0 /\ (k * 2 + 0) \div 2 = k BY <1>3, Remainder
<1>5. (k * 2 + 1) % 2 = 1 /\ (k * 2 + 1) \div 2 = k BY <1>3, Remainder
<1> QED BY <1>2, <1>3, <1>4, <1>5 DEF InPacked

LEMMA PlaceIsBin ==
  ASSUME NEW n \in Lengths, NEW o \in 1 .. n, o # 1, o # n
  PROVE  /\ o \div 2 \in 1 .. (n \div 2) - 1
         /\ o = 2 * (o \div 2) \/ o = 2 * (o \div 2) + 1
<1> DEFINE h == n \div 2  k == o \div 2
<1>1. h \in Nat /\ n = h * 2 /\ n \in Nat BY HalfLength
<1>2. o = k * 2 + (o % 2) /\ o % 2 \in 0 .. 1 /\ k \in Int BY <1>1, Division
<1> HIDE DEF h, k
<1>3. k \in 1 .. h - 1 BY <1>1, <1>2
<1>4. o = 2 * k \/ o = 2 * k + 1 BY <1>2
<1> QED BY <1>3, <1>4 DEF h, k

LEMMA RealProduct ==
  ASSUME NEW a \in Int, NEW b \in Int
  PROVE  /\ (a * b) % P \in 0 .. P - 1
         /\ Complex((a * b) % P, 0) = CMul(Complex(a, 0), Complex(b, 0))
<1> DEFINE y == a * b  r == y % P
<1>1. y \in Int OBVIOUS
<1>2. CMul(Complex(a, 0), Complex(b, 0)) = Complex(y, 0)
  <2>1. CMul(Scalar(a), Scalar(b)) = Scalar(a * b) BY RealMul
  <2> QED BY <2>1 DEF Scalar
<1> HIDE DEF y
<1>3. r \in 0 .. P - 1 BY <1>1, ModRest
<1>4. r % P = y % P BY <1>3, ModSame
<1>5. Complex(r, 0) = Complex(y, 0) BY <1>4 DEF Complex
<1> QED BY <1>2, <1>3, <1>5 DEF r, y

\* Z has the products of the ends of X and Y at its ends, and Mid between them.
PutTogether(Z, X, Y, Mid, n) ==
  /\ Z = [o \in 1 .. n |-> Z[o]]
  /\ Z[1] = (X[1] * Y[1]) % P /\ Z[n] = (X[n] * Y[n]) % P
  /\ \A o \in 1 .. n : o # 1 /\ o # n => Z[o] = Part(Mid[o \div 2], o)
  /\ \A k \in 1 .. (n \div 2) - 1 : Mid[k] \in C

BinsOf(Z, X, Y, Mid, n) ==
  /\ Z \in Values(n)
  /\ Unpacked(Z, 0) = CMul(Unpacked(X, 0), Unpacked(Y, 0))
  /\ Unpacked(Z, n \div 2) = CMul(Unpacked(X, n \div 2), Unpacked(Y, n \div 2))
  /\ \A k \in 1 .. (n \div 2) - 1 : Unpacked(Z, k) = Mid[k]

LEMMA Binwise ==
  ASSUME NEW n \in Lengths, NEW X \in Values(n), NEW Y \in Values(n), NEW Z, NEW Mid,
         PutTogether(Z, X, Y, Mid, n)
  PROVE  BinsOf(Z, X, Y, Mid, n)
<1>20. /\ Z = [o \in 1 .. n |-> Z[o]]
      /\ Z[1] = (X[1] * Y[1]) % P /\ Z[n] = (X[n] * Y[n]) % P
      /\ \A o \in 1 .. n : o # 1 /\ o # n => Z[o] = Part(Mid[o \div 2], o)
      /\ \A k \in 1 .. (n \div 2) - 1 : Mid[k] \in C
  BY DEF PutTogether
<1> DEFINE h == n \div 2
<1>1. n \in Nat \ {0} /\ h \in Nat \ {0} /\ 2 * h = n /\ 1 \in 1 .. n /\ n \in 1 .. n
  BY HalfLength
<1> HIDE DEF h
<1>2. /\ \A o \in 1 .. n : X[o] \in Int /\ Y[o] \in Int
      /\ Unpacked(X, 0) = Complex(X[1], 0) /\ Unpacked(X, h) = Complex(X[n], 0)
      /\ Unpacked(Y, 0) = Complex(Y[1], 0) /\ Unpacked(Y, h) = Complex(Y[n], 0)
  BY UnpackedIs DEF h
<1>3. ASSUME NEW k \in 1 .. h - 1
      PROVE  Z[2 * k] = Mid[k].r /\ Z[2 * k + 1] = Mid[k].i
  <2> DEFINE d == 2 * k  e == 2 * k + 1
  <2>1. /\ d \in 1 .. n /\ d # 1 /\ d # n /\ d % 2 = 0 /\ d \div 2 = k
        /\ e \in 1 .. n /\ e # 1 /\ e # n /\ e % 2 # 0 /\ e \div 2 = k
    BY PackedPlaces DEF InPacked, h
  <2> HIDE DEF d, e
  <2>2. Z[d] = Part(Mid[k], d) /\ Z[e] = Part(Mid[k], e) BY <1>20, <2>1
  <2>3. Part(Mid[k], d) = Mid[k].r /\ Part(Mid[k], e) = Mid[k].i BY <2>1 DEF Part
  <2> QED BY <2>2, <2>3 DEF d, e
<1>4. Z \in Values(n)
  <2> SUFFICES ASSUME NEW o \in 1 .. n PROVE Z[o] \in 0 .. P - 1
    BY <1>20 DEF Values
  <2>1. CASE o = 1
    <3>1. X[1] \in Int /\ Y[1] \in Int BY <1>1, <1>2
    <3> QED BY <1>20, <2>1, <3>1, RealProduct
  <2>2. CASE o = n
    <3>1. X[n] \in Int /\ Y[n] \in Int BY <1>1, <1>2
    <3> QED BY <1>20, <2>2, <3>1, RealProduct
  <2>3. CASE o # 1 /\ o # n
    <3> DEFINE k == o \div 2
    <3>1. k \in 1 .. h - 1 /\ (o = 2 * k \/ o = 2 * k + 1) BY <2>3, PlaceIsBin DEF h
    <3> HIDE DEF k
    <3>2. Mid[k] \in C BY <1>20, <3>1 DEF h
    <3>3. Z[o] = Mid[k].r \/ Z[o] = Mid[k].i BY <1>3, <3>1
    <3> QED BY <3>2, <3>3 DEF C
  <2> QED BY <2>1, <2>2, <2>3
<1>5. /\ Unpacked(Z, 0) = Complex(Z[1], 0) /\ Unpacked(Z, h) = Complex(Z[n], 0)
      /\ \A k \in 1 .. h - 1 : Unpacked(Z, k) = Complex(Z[2 * k], Z[2 * k + 1])
  BY <1>4, UnpackedIs DEF h
<1>6. Unpacked(Z, 0) = CMul(Unpacked(X, 0), Unpacked(Y, 0))
  <2>1. X[1] \in Int /\ Y[1] \in Int BY <1>1, <1>2
  <2>2. Complex((X[1] * Y[1]) % P, 0) = CMul(Complex(X[1], 0), Complex(Y[1], 0))
    BY <2>1, RealProduct, Zenon
  <2> QED BY <1>2, <1>5, <1>20, <2>2
<1>7. Unpacked(Z, h) = CMul(Unpacked(X, h), Unpacked(Y, h))
  <2>1. X[n] \in Int /\ Y[n] \in Int BY <1>1, <1>2
  <2>2. Complex((X[n] * Y[n]) % P, 0) = CMul(Complex(X[n], 0), Complex(Y[n], 0))
    BY <2>1, RealProduct, Zenon
  <2> QED BY <1>2, <1>5, <1>20, <2>2
<1>8. ASSUME NEW k \in 1 .. h - 1 PROVE Unpacked(Z, k) = Mid[k]
  <2>1. Mid[k] \in C
    <3>1. \A i \in 1 .. h - 1 : Mid[i] \in C BY DEF PutTogether, h
    <3> QED BY <3>1
  <2>2. Mid[k] = Complex(Mid[k].r, Mid[k].i) BY <2>1, AsComplex
  <2> QED BY <1>3, <1>5, <2>2
<1> QED BY <1>4, <1>6, <1>7, <1>8 DEF h, BinsOf

\* The bin of two places, whichever of them is asked for.
LEMMA BinOfPlace ==
  ASSUME NEW n \in Lengths, NEW X \in Values(n), NEW o \in 1 .. n, o # 1, o # n
  PROVE  Bin(X, o) = Unpacked(X, o \div 2)
<1> DEFINE k == o \div 2
<1>1. k \in 1 .. (n \div 2) - 1 /\ k \in Int BY PlaceIsBin, HalfLength
<1>2. \A i \in 1 .. (n \div 2) - 1 : Unpacked(X, i) = Complex(X[2 * i], X[2 * i + 1])
  BY UnpackedIs
<1>3. Bin(X, o) = Complex(X[k * 2], X[k * 2 + 1]) BY DEF Bin
<1> HIDE DEF k
<1>4. k * 2 = 2 * k BY <1>1
<1>5. Bin(X, o) = Unpacked(X, k) BY <1>1, <1>2, <1>3, <1>4
<1> QED BY <1>5 DEF k

BinsAre(Z, X, Y, n) ==
  Z \in Values(n) /\ \A k \in 0 .. n \div 2 : Unpacked(Z, k) = CMul(Unpacked(X, k), Unpacked(Y, k))
ConjBinsAre(Z, X, Y, n) ==
  Z \in Values(n)
  /\ \A k \in 0 .. n \div 2 : Unpacked(Z, k) = CMul(Conj(Unpacked(X, k)), Unpacked(Y, k))

LEMMA BinsMultiplied ==
  ASSUME NEW n \in Lengths, NEW X \in Values(n), NEW Y \in Values(n)
  PROVE  BinsAre(spectral_mul(X, Y), X, Y, n)
<1> DEFINE h == n \div 2  Z == spectral_mul(X, Y)
           Mid == [k \in 1 .. h - 1 |-> CMul(Unpacked(X, k), Unpacked(Y, k))]
<1>1. n \in Nat \ {0} /\ h \in Nat \ {0} /\ 2 * h = n /\ 1 \in 1 .. n /\ n \in 1 .. n
  BY HalfLength
<1>2. Len(X) = n BY UnpackedIs
<1>3. Z = [o \in 1 .. n |-> IF o = 1 \/ o = n THEN (X[o] * Y[o]) % P
                            ELSE Part(CMul(Bin(X, o), Bin(Y, o)), o)]
  BY <1>2 DEF spectral_mul, IsReal
<1> HIDE DEF Z, h
<1>4. Z = [o \in 1 .. n |-> Z[o]] BY <1>3
<1>5. Z[1] = (X[1] * Y[1]) % P /\ Z[n] = (X[n] * Y[n]) % P BY <1>1, <1>3
<1>6. ASSUME NEW k \in 1 .. h - 1
      PROVE  Mid[k] = CMul(Unpacked(X, k), Unpacked(Y, k)) /\ Mid[k] \in C
  <2>1. k \in 0 .. h BY <1>1
  <2>2. Unpacked(X, k) \in C /\ Unpacked(Y, k) \in C BY <2>1, UnpackedIs DEF h
  <2> QED BY <2>2, Closed
<1> HIDE DEF Mid
<1>7. ASSUME NEW o \in 1 .. n, o # 1 /\ o # n PROVE Z[o] = Part(Mid[o \div 2], o)
  <2> DEFINE k == o \div 2
  <2>1. k \in 1 .. h - 1 BY <1>7, PlaceIsBin DEF h
  <2>2. Bin(X, o) = Unpacked(X, k) /\ Bin(Y, o) = Unpacked(Y, k) BY <1>7, BinOfPlace
  <2> HIDE DEF k
  <2>3. Part(CMul(Bin(X, o), Bin(Y, o)), o) = Part(Mid[k], o) BY <1>6, <2>1, <2>2
  <2>4. Z[o] = Part(CMul(Bin(X, o), Bin(Y, o)), o) BY <1>3, <1>7
  <2> QED BY <2>3, <2>4 DEF k
<1>8. /\ Z \in Values(n)
      /\ Unpacked(Z, 0) = CMul(Unpacked(X, 0), Unpacked(Y, 0))
      /\ Unpacked(Z, h) = CMul(Unpacked(X, h), Unpacked(Y, h))
      /\ \A k \in 1 .. h - 1 : Unpacked(Z, k) = Mid[k]
  <2>1. PutTogether(Z, X, Y, Mid, n) BY <1>4, <1>5, <1>6, <1>7 DEF h, PutTogether
  <2>2. BinsOf(Z, X, Y, Mid, n) BY <2>1, Binwise
  <2> QED BY <2>2 DEF h, BinsOf
<1>9. ASSUME NEW k \in 0 .. h
      PROVE  Unpacked(Z, k) = CMul(Unpacked(X, k), Unpacked(Y, k))
  <2>1. CASE k = 0 BY <1>8, <2>1
  <2>2. CASE k = h BY <1>8, <2>2
  <2>3. CASE k \in 1 .. h - 1 BY <1>6, <1>8, <2>3
  <2> QED BY <1>1, <2>1, <2>2, <2>3
<1> QED BY <1>8, <1>9 DEF BinsAre, Z, h

LEMMA BinsCorrelated ==
  ASSUME NEW n \in Lengths, NEW X \in Values(n), NEW Y \in Values(n)
  PROVE  ConjBinsAre(weighted_spectral_mul_conj(X, Y), X, Y, n)
<1> DEFINE h == n \div 2  Z == weighted_spectral_mul_conj(X, Y)
           Mid == [k \in 1 .. h - 1 |-> CMul(Conj(Unpacked(X, k)), Unpacked(Y, k))]
<1>1. n \in Nat \ {0} /\ h \in Nat \ {0} /\ 2 * h = n /\ 1 \in 1 .. n /\ n \in 1 .. n
  BY HalfLength
<1>2. Len(X) = n BY UnpackedIs
<1>3. Z = [o \in 1 .. n |-> IF o = 1 \/ o = n THEN (X[o] * Y[o]) % P
                            ELSE Part(CMul(Conj(Bin(X, o)), Bin(Y, o)), o)]
  BY <1>2 DEF weighted_spectral_mul_conj, IsReal
<1> HIDE DEF Z, h
<1>4. Z = [o \in 1 .. n |-> Z[o]] BY <1>3
<1>5. Z[1] = (X[1] * Y[1]) % P /\ Z[n] = (X[n] * Y[n]) % P BY <1>1, <1>3
<1>6. ASSUME NEW k \in 1 .. h - 1
      PROVE  Mid[k] = CMul(Conj(Unpacked(X, k)), Unpacked(Y, k)) /\ Mid[k] \in C
  <2>1. k \in 0 .. h BY <1>1
  <2>2. Unpacked(X, k) \in C /\ Unpacked(Y, k) \in C BY <2>1, UnpackedIs DEF h
  <2>3. Conj(Unpacked(X, k)) \in C BY <2>2, Closed
  <2> QED BY <2>2, <2>3, Closed
<1> HIDE DEF Mid
<1>7. ASSUME NEW o \in 1 .. n, o # 1 /\ o # n PROVE Z[o] = Part(Mid[o \div 2], o)
  <2> DEFINE k == o \div 2
  <2>1. k \in 1 .. h - 1 BY <1>7, PlaceIsBin DEF h
  <2>2. Bin(X, o) = Unpacked(X, k) /\ Bin(Y, o) = Unpacked(Y, k) BY <1>7, BinOfPlace
  <2> HIDE DEF k
  <2>3. Part(CMul(Conj(Bin(X, o)), Bin(Y, o)), o) = Part(Mid[k], o) BY <1>6, <2>1, <2>2
  <2>4. Z[o] = Part(CMul(Conj(Bin(X, o)), Bin(Y, o)), o) BY <1>3, <1>7
  <2> QED BY <2>3, <2>4 DEF k
<1>8. /\ Z \in Values(n)
      /\ Unpacked(Z, 0) = CMul(Unpacked(X, 0), Unpacked(Y, 0))
      /\ Unpacked(Z, h) = CMul(Unpacked(X, h), Unpacked(Y, h))
      /\ \A k \in 1 .. h - 1 : Unpacked(Z, k) = Mid[k]
  <2>1. PutTogether(Z, X, Y, Mid, n) BY <1>4, <1>5, <1>6, <1>7 DEF h, PutTogether
  <2>2. BinsOf(Z, X, Y, Mid, n) BY <2>1, Binwise
  <2> QED BY <2>2 DEF h, BinsOf
<1>9. Conj(Unpacked(X, 0)) = Unpacked(X, 0) /\ Conj(Unpacked(X, h)) = Unpacked(X, h)
  <2>1. X[1] \in Int /\ X[n] \in Int /\ Unpacked(X, 0) = Scalar(X[1])
        /\ Unpacked(X, h) = Scalar(X[n])
    BY <1>1, UnpackedIs DEF Scalar, h
  <2> QED BY <2>1, RealConj
<1>10. ASSUME NEW k \in 0 .. h
       PROVE  Unpacked(Z, k) = CMul(Conj(Unpacked(X, k)), Unpacked(Y, k))
  <2>1. CASE k = 0 BY <1>8, <1>9, <2>1
  <2>2. CASE k = h BY <1>8, <1>9, <2>2
  <2>3. CASE k \in 1 .. h - 1 BY <1>6, <1>8, <2>3
  <2> QED BY <1>1, <2>1, <2>2, <2>3
<1> QED BY <1>8, <1>10 DEF ConjBinsAre, Z, h

-----------------------------------------------------------------------------
\* The bins of a product are, by N twice, the products of the bins of two signals.
Convolved(F, a, b, n) ==
  F \in Values(n)
  /\ \A k \in 0 .. n \div 2 :
        CMul(Scalar(n), Scaled(Unpacked(F, k), n)) = CMul(Dft(a, k), Dft(b, k))
Correlated(F, a, b, n) ==
  F \in Values(n)
  /\ \A k \in 0 .. n \div 2 :
        CMul(Scalar(n), Scaled(Unpacked(F, k), n)) = CMul(Conj(Dft(a, k)), Dft(b, k))

LEMMA TwiceScaled ==
  ASSUME NEW u \in C, NEW v \in C, NEW n \in Int
  PROVE  CMul(Scalar(n), Scaled(CMul(u, v), n)) = CMul(Scaled(u, n), Scaled(v, n))
<1> DEFINE c == Scalar(n)  w == CMul(u, v)
<1>1. c \in C /\ w \in C BY RealInC, Closed
<1>2. Scaled(w, n) = CMul(c, w) /\ Scaled(u, n) = CMul(c, u) /\ Scaled(v, n) = CMul(c, v)
  BY <1>1, RealScale
<1> HIDE DEF c
<1>3. CMul(c, w) = CMul(CMul(c, u), v) BY <1>1, MulRing
<1> DEFINE p == CMul(c, u)
<1>4. p \in C BY <1>1, Closed, Zenon
<1> HIDE DEF p
<1>5. CMul(c, CMul(p, v)) = CMul(CMul(c, p), v) BY <1>1, <1>4, MulRing
<1>6. CMul(c, p) = CMul(p, c) BY <1>1, <1>4, MulRing
<1>7. CMul(CMul(p, c), v) = CMul(p, CMul(c, v)) BY <1>1, <1>4, MulRing
<1> HIDE DEF w
<1>8. CMul(c, Scaled(w, n)) = CMul(Scaled(u, n), Scaled(v, n))
  BY <1>2, <1>3, <1>5, <1>6, <1>7 DEF p
<1> QED BY <1>8 DEF w, c

LEMMA ProductConvolved ==
  ASSUME NEW n \in Lengths, NEW X, NEW Y, NEW Z, NEW a, NEW b, BinsAre(Z, X, Y, n),
         Spectral(X, a, n), Spectral(Y, b, n)
  PROVE  Convolved(Z, a, b, n)
<1>1. n \in Int BY HalfLength
<1>2. X \in Values(n) /\ Y \in Values(n) /\ Z \in Values(n) BY DEF Spectral, BinsAre
<1>3. ASSUME NEW k \in 0 .. n \div 2
      PROVE  CMul(Scalar(n), Scaled(Unpacked(Z, k), n)) = CMul(Dft(a, k), Dft(b, k))
  <2>1. Unpacked(X, k) \in C /\ Unpacked(Y, k) \in C BY <1>2, UnpackedIs
  <2>2. Unpacked(Z, k) = CMul(Unpacked(X, k), Unpacked(Y, k)) BY DEF BinsAre
  <2>3. Scaled(Unpacked(X, k), n) = Dft(a, k) /\ Scaled(Unpacked(Y, k), n) = Dft(b, k)
    BY DEF Spectral
  <2> QED BY <1>1, <2>1, <2>2, <2>3, TwiceScaled
<1> QED BY <1>2, <1>3 DEF Convolved

LEMMA ProductCorrelated ==
  ASSUME NEW n \in Lengths, NEW X, NEW Y, NEW Z, NEW a, NEW b, ConjBinsAre(Z, X, Y, n),
         Spectral(X, a, n), Spectral(Y, b, n)
  PROVE  Correlated(Z, a, b, n)
<1>1. n \in Int BY HalfLength
<1>2. X \in Values(n) /\ Y \in Values(n) /\ Z \in Values(n) BY DEF Spectral, ConjBinsAre
<1>3. ASSUME NEW k \in 0 .. n \div 2
      PROVE  CMul(Scalar(n), Scaled(Unpacked(Z, k), n)) = CMul(Conj(Dft(a, k)), Dft(b, k))
  <2> DEFINE u == Unpacked(X, k)  v == Unpacked(Y, k)
  <2>1. u \in C /\ v \in C BY <1>2, UnpackedIs
  <2>2. Unpacked(Z, k) = CMul(Conj(u), v) BY DEF ConjBinsAre
  <2>3. Scaled(u, n) = Dft(a, k) /\ Scaled(v, n) = Dft(b, k)
    BY DEF Spectral
  <2> HIDE DEF u, v
  <2>4. Conj(u) \in C BY <2>1, Closed
  <2>5. Conj(Scaled(u, n)) = Scaled(Conj(u), n)
    <3>1. Scaled(u, n) = CMul(Scalar(n), u) /\ Scaled(Conj(u), n) = CMul(Scalar(n), Conj(u))
      BY <1>1, <2>1, <2>4, RealScale
    <3>2. Scalar(n) \in C /\ Conj(Scalar(n)) = Scalar(n) BY <1>1, RealInC, RealConj
    <3> QED BY <2>1, <3>1, <3>2, ConjRing
  <2> QED BY <1>1, <2>1, <2>2, <2>3, <2>4, <2>5, TwiceScaled
<1> QED BY <1>2, <1>3 DEF Correlated

\* The bins past the middle one mirror those before it.
Mirrored(f, n) ==
  /\ Terms(f, n)
  /\ \A j \in 1 .. n - 1 : f[n - j] = Conj(f[j])

LEMMA MirroredProduct ==
  ASSUME NEW n \in Lengths, NEW X, NEW A, NEW B, Mirrored(X, n), Mirrored(A, n), Mirrored(B, n),
         \A k \in 0 .. n \div 2 : CMul(Scalar(n), X[k]) = CMul(A[k], B[k])
  PROVE  \A k \in 0 .. n - 1 : CMul(Scalar(n), X[k]) = CMul(A[k], B[k])
<1> SUFFICES ASSUME NEW k \in 0 .. n - 1 PROVE CMul(Scalar(n), X[k]) = CMul(A[k], B[k])
  OBVIOUS
<1> DEFINE h == n \div 2  j == n - k
<1>1. n \in Nat \ {0} /\ h \in Nat \ {0} /\ 2 * h = n BY HalfLength
<1> HIDE DEF h
<1>2. CASE k \in 0 .. h BY <1>2 DEF h
<1>3. CASE k \notin 0 .. h
  <2>1. j \in 1 .. n - 1 /\ j \in 0 .. h /\ j \in 0 .. n - 1 /\ n - j = k BY <1>1, <1>3
  <2> HIDE DEF j
  <2>2. X[k] = Conj(X[j]) /\ A[k] = Conj(A[j]) /\ B[k] = Conj(B[j])
    <3>1. X[n - j] = Conj(X[j]) BY <2>1 DEF Mirrored
    <3>2. A[n - j] = Conj(A[j]) BY <2>1 DEF Mirrored
    <3>3. B[n - j] = Conj(B[j]) BY <2>1 DEF Mirrored
    <3> QED BY <2>1, <3>1, <3>2, <3>3
  <2>3. X[j] \in C /\ A[j] \in C /\ B[j] \in C BY <2>1 DEF Mirrored, Terms
  <2>4. CMul(Scalar(n), X[j]) = CMul(A[j], B[j]) BY <2>1 DEF h
  <2>5. Scalar(n) \in C /\ Conj(Scalar(n)) = Scalar(n)
    <3>1. n \in Int BY <1>1
    <3> QED BY <3>1, RealInC, RealConj
  <2>6. Conj(CMul(Scalar(n), X[j])) = CMul(Scalar(n), Conj(X[j])) BY <2>3, <2>5, ConjRing
  <2>7. Conj(CMul(A[j], B[j])) = CMul(Conj(A[j]), Conj(B[j])) BY <2>3, ConjRing
  <2> QED BY <2>2, <2>4, <2>6, <2>7
<1> QED BY <1>2, <1>3

Bins(x, n) == [k \in 0 .. n - 1 |-> Spectrum(Signal(x), n, k)]

LEMMA BinsMirrored ==
  ASSUME NEW n \in Lengths, NEW x \in Values(n)
  PROVE  /\ Mirrored(Bins(x, n), n)
         /\ \A k \in 0 .. n - 1 : /\ Bins(x, n)[k] = Spectrum(Signal(x), n, k)
                                  /\ Bins(x, n)[k] = Dft(x, k) /\ Bins(x, n)[k] \in C
<1>1. n \in Nat \ {0} /\ n \in Orders BY HalfLength
<1>2. Terms(Signal(x), n) /\ \A t \in 0 .. n - 1 : Conj(Signal(x)[t]) = Signal(x)[t]
  BY SignalTerms
<1>3. ASSUME NEW k \in 0 .. n - 1
      PROVE  /\ Bins(x, n)[k] = Spectrum(Signal(x), n, k)
             /\ Bins(x, n)[k] = Dft(x, k) /\ Bins(x, n)[k] \in C
  <2>1. k \in Int BY <1>1
  <2>2. Bins(x, n)[k] = Spectrum(Signal(x), n, k) BY DEF Bins
  <2> QED BY <2>1, <2>2, DftIsSpectrum
<1>4. ASSUME NEW j \in 1 .. n - 1 PROVE Bins(x, n)[n - j] = Conj(Bins(x, n)[j])
  <2>1. j \in Int /\ j \in 0 .. n - 1 /\ n - j \in 0 .. n - 1 BY <1>1
  <2>2. Spectrum(Signal(x), n, n - j) = Conj(Spectrum(Signal(x), n, j))
    BY <1>1, <1>2, <2>1, SpectrumReal
  <2>3. Bins(x, n)[j] = Spectrum(Signal(x), n, j) BY <1>3, <2>1
  <2>4. Bins(x, n)[n - j] = Spectrum(Signal(x), n, n - j)
    <3> DEFINE i == n - j
    <3>1. i \in 0 .. n - 1 BY <2>1
    <3> HIDE DEF i
    <3>2. Bins(x, n)[i] = Spectrum(Signal(x), n, i) BY <1>3, <3>1
    <3> QED BY <3>2 DEF i
  <2> QED BY <2>2, <2>3, <2>4
<1>5. Mirrored(Bins(x, n), n) BY <1>3, <1>4 DEF Mirrored, Terms
<1> QED BY <1>3, <1>5

\* A packed spectrum belongs to one signal only: nothing is lost in the packing,
\* with the imaginary parts of the first and the last bin left out
\* (fftwrap.c:336-352, kiss_fftr.c:173-297).
THEOREM SpectralUnique ==
  ASSUME NEW n \in Lengths, NEW x \in Values(n), NEW y \in Values(n), NEW F,
         Spectral(F, x, n), Spectral(F, y, n)
  PROVE  x = y
<1> DEFINE h == n \div 2
<1>1. n \in Nat \ {0} /\ h \in Nat \ {0} /\ 2 * h = n /\ n \in Orders BY HalfLength
<1>2. \A k \in 0 .. h : Dft(x, k) = Dft(y, k) BY DEF Spectral
<1> HIDE DEF h
<1>3. Mirrored(Bins(x, n), n) /\ Mirrored(Bins(y, n), n) BY BinsMirrored
<1>4. ASSUME NEW k \in 0 .. n - 1
      PROVE  Spectrum(Signal(x), n, k) = Spectrum(Signal(y), n, k)
  <2>1. /\ \A i \in 0 .. n - 1 : Bins(x, n)[i] = Spectrum(Signal(x), n, i) /\ Bins(x, n)[i] = Dft(x, i)
        /\ \A i \in 0 .. n - 1 : Bins(y, n)[i] = Spectrum(Signal(y), n, i) /\ Bins(y, n)[i] = Dft(y, i)
    BY BinsMirrored
  <2>2. CASE k \in 0 .. h BY <1>2, <2>1, <2>2
  <2>3. CASE k \notin 0 .. h
    <3> DEFINE j == n - k
    <3>1. j \in 1 .. n - 1 /\ j \in 0 .. h /\ j \in 0 .. n - 1 /\ n - j = k BY <1>1, <2>3
    <3> HIDE DEF j
    <3>2. Bins(x, n)[n - j] = Conj(Bins(x, n)[j]) BY <1>3, <3>1 DEF Mirrored
    <3>3. Bins(y, n)[n - j] = Conj(Bins(y, n)[j]) BY <1>3, <3>1 DEF Mirrored
    <3>4. Bins(x, n)[j] = Bins(y, n)[j] BY <1>2, <2>1, <3>1
    <3> QED BY <2>1, <3>1, <3>2, <3>3, <3>4
  <2> QED BY <2>2, <2>3
<1>5. Terms(Signal(x), n) /\ Terms(Signal(y), n) BY SignalTerms
<1>6. \A t \in 0 .. n - 1 : Signal(x)[t] = Signal(y)[t] BY <1>1, <1>4, <1>5, SpectrumUnique
<1>7. ASSUME NEW o \in 1 .. n PROVE x[o] = y[o]
  <2> DEFINE t == o - 1
  <2>1. t \in 0 .. n - 1 /\ t + 1 = o BY <1>1
  <2>2. Len(x) = n /\ Len(y) = n BY SignalTerms
  <2> HIDE DEF t
  <2>3. Signal(x)[t] = Complex(x[t + 1], 0) /\ Signal(y)[t] = Complex(y[t + 1], 0)
    BY <2>1, <2>2 DEF Signal
  <2>4. Complex(x[o], 0) = Complex(y[o], 0) BY <1>6, <2>1, <2>3
  <2>5. x[o] \in 0 .. P - 1 /\ y[o] \in 0 .. P - 1 BY DEF Values
  <2>6. x[o] % P = y[o] % P BY <2>4 DEF Complex
  <2> QED BY <2>5, <2>6, ModSame
<1>8. x \in [1 .. n -> 0 .. P - 1] /\ y \in [1 .. n -> 0 .. P - 1] BY DEF Values
<1>9. x = [o \in 1 .. n |-> x[o]] BY <1>8
<1>10. y = [o \in 1 .. n |-> y[o]] BY <1>8
<1>11. [o \in 1 .. n |-> x[o]] = [o \in 1 .. n |-> y[o]] BY <1>7
<1> QED BY <1>9, <1>10, <1>11

-----------------------------------------------------------------------------
\* Products of bins are sums over the time domain.
LEMMA RoundSignal ==
  ASSUME NEW n \in Lengths, NEW x \in Values(n), NEW u \in Int
  PROVE  /\ u % n \in 0 .. n - 1 /\ Signal(x)[u % n] \in C
         /\ Signal(x)[u % n] = Complex(x[(u % n) + 1], 0)
         /\ u \in 0 .. n - 1 => u % n = u
<1> DEFINE r == u % n
<1>1. n \in Nat \ {0} /\ Len(x) = n /\ Terms(Signal(x), n) BY HalfLength, SignalTerms
<1>2. r \in 0 .. n - 1 BY <1>1, Division, Zenon
<1>3. u \in 0 .. n - 1 => r = u
  <2> SUFFICES ASSUME u \in 0 .. n - 1 PROVE r = u OBVIOUS
  <2>1. 0 \in Int /\ 0 * n + u = u BY <1>1
  <2>2. (0 * n + u) % n = u BY <1>1, <2>1, Remainder
  <2> QED BY <2>1, <2>2
<1> HIDE DEF r
<1>4. Signal(x)[r] \in C /\ Signal(x)[r] = Complex(x[r + 1], 0)
  BY <1>1, <1>2 DEF Signal, Terms
<1> QED BY <1>2, <1>3, <1>4 DEF r

LEMMA RealTerm ==
  ASSUME NEW n \in Lengths, NEW x \in Values(n), NEW t \in 0 .. n - 1
  PROVE  CMul(Scalar(n), Signal(x)[t]) = Complex(x[t + 1] * n, 0)
<1>1. n \in Int /\ Len(x) = n BY HalfLength, SignalTerms
<1>2. x[t + 1] \in Int
  <2>1. t + 1 \in 1 .. n BY <1>1
  <2>2. x[t + 1] \in 0 .. P - 1 BY <2>1 DEF Values
  <2> QED BY <2>2, PIsOdd
<1>3. Signal(x)[t] = Scalar(x[t + 1]) BY <1>1 DEF Signal, Scalar
<1> DEFINE y == x[t + 1]
<1>4. y \in Int BY <1>2
<1> HIDE DEF y
<1>5. CMul(Scalar(n), Scalar(y)) = Scalar(n * y) BY <1>1, <1>4, RealMul
<1>6. n * y = y * n BY <1>1, <1>4
<1> QED BY <1>3, <1>5, <1>6 DEF Scalar, y

\* The sum for element t of a convolution, and of a correlation.
Lagged(a, b, n, t) == [s \in 0 .. n - 1 |-> CMul(Signal(a)[s], Signal(b)[(t - s) % n])]
Led(a, b, n, t) == [s \in 0 .. n - 1 |-> CMul(Signal(a)[s], Signal(b)[(s - t) % n])]

LEMMA ConvolvedSum ==
  ASSUME NEW n \in Lengths, NEW x \in Values(n), NEW a \in Values(n), NEW b \in Values(n),
         NEW F, Convolved(F, b, a, n), Spectral(F, x, n), NEW t \in 0 .. n - 1
  PROVE  Complex(x[t + 1] * n, 0) = CSum(Lagged(a, b, n, t), n)
<1> DEFINE X == Bins(x, n)  A == Bins(a, n)  B == Bins(b, n)
           c == [u \in Int |-> Signal(b)[u % n]]
<1>1. n \in Nat \ {0} /\ n \in Orders BY HalfLength
<1>2. /\ Mirrored(X, n) /\ Mirrored(A, n) /\ Mirrored(B, n)
      /\ \A k \in 0 .. n - 1 : X[k] = Spectrum(Signal(x), n, k) /\ X[k] = Dft(x, k)
      /\ \A k \in 0 .. n - 1 : A[k] = Spectrum(Signal(a), n, k) /\ A[k] = Dft(a, k) /\ A[k] \in C
      /\ \A k \in 0 .. n - 1 : B[k] = Spectrum(Signal(b), n, k) /\ B[k] = Dft(b, k) /\ B[k] \in C
  BY BinsMirrored
<1>3. Terms(Signal(x), n) /\ Terms(Signal(a), n) /\ Terms(Signal(b), n) BY SignalTerms
<1> HIDE DEF X, A, B
<1>4. ASSUME NEW k \in 0 .. n \div 2 PROVE CMul(Scalar(n), X[k]) = CMul(A[k], B[k])
  <2>1. k \in 0 .. n - 1 BY HalfLength
  <2>2. CMul(Scalar(n), Scaled(Unpacked(F, k), n)) = CMul(Dft(b, k), Dft(a, k)) BY DEF Convolved
  <2>3. Scaled(Unpacked(F, k), n) = Dft(x, k) BY DEF Spectral
  <2>4. CMul(B[k], A[k]) = CMul(A[k], B[k]) BY <1>2, <2>1, MulRing
  <2> QED BY <1>2, <2>1, <2>2, <2>3, <2>4
<1>5. \A k \in 0 .. n - 1 : CMul(Scalar(n), X[k]) = CMul(A[k], B[k])
  BY <1>2, <1>4, MirroredProduct
<1>6. ASSUME NEW u \in Int
      PROVE  c[u] \in C /\ Spectrum(B, n, -u) = CMul(Scalar(n), c[u])
  <2>1. c[u] = Signal(b)[u % n] /\ Signal(b)[u % n] \in C BY RoundSignal
  <2> DEFINE g == 1
  <2>2. g \in {1, -1} /\ g * u = u OBVIOUS
  <2>3. \A k \in 0 .. n - 1 : B[k] = Spectrum(Signal(b), n, g * k)
    <3>1. \A k \in 0 .. n - 1 : g * k = k BY <1>1
    <3> QED BY <1>2, <3>1
  <2> HIDE DEF g
  <2>4. Spectrum(B, n, -(g * u)) = CMul(Scalar(n), Signal(b)[u % n])
    BY <1>1, <1>3, <2>2, <2>3, Inversion, Zenon
  <2> QED BY <2>1, <2>2, <2>4
<1> HIDE DEF c
<1>7. Terms(B, n) BY <1>2 DEF Mirrored
<1>8. \A k \in 0 .. n - 1 : CMul(Scalar(n), Spectrum(Signal(x), n, k)) = CMul(Spectrum(Signal(a), n, k), B[k])
  BY <1>2, <1>5
<1>9. CMul(Scalar(n), Signal(x)[t]) = CSum([s \in 0 .. n - 1 |-> CMul(Signal(a)[s], c[t - s])], n)
  <2>1. Continued(c, B, n) BY <1>6 DEF Continued
  <2>2. Multiplied(Signal(x), Signal(a), B, n) BY <1>8 DEF Multiplied
  <2> DEFINE f == Signal(x)  g == Signal(a)
  <2>3. Terms(f, n) /\ Terms(g, n) /\ Multiplied(f, g, B, n) BY <1>3, <2>2
  <2> HIDE DEF f, g
  <2>4. SummedUp(f, g, c, n, t) BY <1>1, <1>7, <2>1, <2>3, Product
  <2> QED BY <2>4 DEF SummedUp, f, g
<1>10. [s \in 0 .. n - 1 |-> CMul(Signal(a)[s], c[t - s])] = Lagged(a, b, n, t)
  <2>1. \A s \in 0 .. n - 1 : c[t - s] = Signal(b)[(t - s) % n]
    <3>1. \A s \in 0 .. n - 1 : t - s \in Int BY <1>1
    <3> QED BY <3>1 DEF c
  <2> QED BY <2>1 DEF Lagged
<1> QED BY <1>9, <1>10, RealTerm, Zenon

LEMMA CorrelatedSum ==
  ASSUME NEW n \in Lengths, NEW x \in Values(n), NEW a \in Values(n), NEW b \in Values(n),
         NEW F, Correlated(F, b, a, n), Spectral(F, x, n), NEW t \in 0 .. n - 1
  PROVE  Complex(x[t + 1] * n, 0) = CSum(Led(a, b, n, t), n)
<1> DEFINE X == Bins(x, n)  A == Bins(a, n)  B == Bins(b, n)
           H == [k \in 0 .. n - 1 |-> Conj(B[k])]
           c == [u \in Int |-> Signal(b)[(-u) % n]]
<1>1. n \in Nat \ {0} /\ n \in Orders BY HalfLength
<1>2. /\ Mirrored(X, n) /\ Mirrored(A, n) /\ Mirrored(B, n)
      /\ \A k \in 0 .. n - 1 : X[k] = Spectrum(Signal(x), n, k) /\ X[k] = Dft(x, k)
      /\ \A k \in 0 .. n - 1 : A[k] = Spectrum(Signal(a), n, k) /\ A[k] = Dft(a, k) /\ A[k] \in C
      /\ \A k \in 0 .. n - 1 : B[k] = Spectrum(Signal(b), n, k) /\ B[k] = Dft(b, k) /\ B[k] \in C
  BY BinsMirrored
<1>3. /\ Terms(Signal(x), n) /\ Terms(Signal(a), n) /\ Terms(Signal(b), n)
      /\ \A i \in 0 .. n - 1 : Conj(Signal(b)[i]) = Signal(b)[i]
  BY SignalTerms
<1> HIDE DEF X, A, B
<1>4. \A k \in 0 .. n - 1 : H[k] = Conj(B[k]) /\ H[k] \in C BY <1>2, Closed
<1> HIDE DEF H
<1>5. Mirrored(H, n)
  <2>1. Terms(H, n) BY <1>4 DEF Terms
  <2>2. ASSUME NEW j \in 1 .. n - 1 PROVE H[n - j] = Conj(H[j])
    <3> DEFINE i == n - j
    <3>1. i \in 0 .. n - 1 /\ j \in 0 .. n - 1 BY <1>1
    <3>2. B[i] = Conj(B[j]) BY <1>2 DEF Mirrored
    <3> HIDE DEF i
    <3>3. H[i] = Conj(H[j]) BY <1>4, <3>1, <3>2
    <3> QED BY <3>3 DEF i
  <2> QED BY <2>1, <2>2 DEF Mirrored
<1>6. ASSUME NEW k \in 0 .. n \div 2 PROVE CMul(Scalar(n), X[k]) = CMul(A[k], H[k])
  <2>1. k \in 0 .. n - 1 BY HalfLength
  <2>2. CMul(Scalar(n), Scaled(Unpacked(F, k), n)) = CMul(Conj(Dft(b, k)), Dft(a, k))
    BY DEF Correlated
  <2>3. Scaled(Unpacked(F, k), n) = Dft(x, k) BY DEF Spectral
  <2>4. CMul(H[k], A[k]) = CMul(A[k], H[k]) BY <1>2, <1>4, <2>1, MulRing
  <2> QED BY <1>2, <1>4, <2>1, <2>2, <2>3, <2>4
<1>7. \A k \in 0 .. n - 1 : CMul(Scalar(n), X[k]) = CMul(A[k], H[k])
  BY <1>2, <1>5, <1>6, MirroredProduct
<1>8. \A k \in 0 .. n - 1 : H[k] = Spectrum(Signal(b), n, -1 * k)
  <2> SUFFICES ASSUME NEW k \in 0 .. n - 1 PROVE H[k] = Spectrum(Signal(b), n, -1 * k) OBVIOUS
  <2>1. k \in Int /\ -1 * k = -k BY <1>1
  <2>2. Spectrum(Signal(b), n, -k) = Conj(Spectrum(Signal(b), n, k))
    BY <1>1, <1>3, <2>1, SpectrumReal
  <2> QED BY <1>2, <1>4, <2>1, <2>2
<1>9. ASSUME NEW u \in Int
      PROVE  c[u] \in C /\ Spectrum(H, n, -u) = CMul(Scalar(n), c[u])
  <2> DEFINE g == -1  v == -u
  <2>1. v \in Int /\ g \in {1, -1} /\ g * v = u OBVIOUS
  <2>2. c[u] = Signal(b)[v % n] OBVIOUS
  <2>3. \A k \in 0 .. n - 1 : H[k] = Spectrum(Signal(b), n, g * k) BY <1>8
  <2> HIDE DEF g, v, c
  <2>4. Signal(b)[v % n] \in C BY <2>1, RoundSignal
  <2>5. Spectrum(H, n, -(g * v)) = CMul(Scalar(n), Signal(b)[v % n])
    BY <1>1, <1>3, <2>1, <2>3, Inversion, ZenonT(40)
  <2> QED BY <2>1, <2>2, <2>4, <2>5
<1> HIDE DEF c
<1>10. Terms(H, n) BY <1>5 DEF Mirrored
<1>11. \A k \in 0 .. n - 1 : CMul(Scalar(n), Spectrum(Signal(x), n, k)) = CMul(Spectrum(Signal(a), n, k), H[k])
  BY <1>2, <1>7
<1>12. CMul(Scalar(n), Signal(x)[t]) = CSum([s \in 0 .. n - 1 |-> CMul(Signal(a)[s], c[t - s])], n)
  <2>1. Continued(c, H, n) BY <1>9 DEF Continued
  <2>2. Multiplied(Signal(x), Signal(a), H, n) BY <1>11 DEF Multiplied
  <2> DEFINE f == Signal(x)  g == Signal(a)
  <2>3. Terms(f, n) /\ Terms(g, n) /\ Multiplied(f, g, H, n) BY <1>3, <2>2
  <2> HIDE DEF f, g
  <2>4. SummedUp(f, g, c, n, t) BY <1>1, <1>10, <2>1, <2>3, Product
  <2> QED BY <2>4 DEF SummedUp, f, g
<1>13. [s \in 0 .. n - 1 |-> CMul(Signal(a)[s], c[t - s])] = Led(a, b, n, t)
  <2>1. ASSUME NEW s \in 0 .. n - 1 PROVE c[t - s] = Signal(b)[(s - t) % n]
    <3> DEFINE u == t - s
    <3>1. u \in Int /\ -u = s - t BY <1>1
    <3> HIDE DEF u
    <3>2. c[u] = Signal(b)[(-u) % n] BY <3>1 DEF c
    <3> QED BY <3>1, <3>2 DEF u
  <2> QED BY <2>1 DEF Led
<1> QED BY <1>12, <1>13, RealTerm, Zenon

-----------------------------------------------------------------------------
\* The halves that are zero take no part in the sums.
LEMMA HalfValues ==
  ASSUME NEW n \in Lengths, NEW x \in Values(n)
  PROVE  /\ FirstHalf(x) \in Values(n)
         /\ \A o \in 1 .. n \div 2 : FirstHalf(x)[o] = x[o]
         /\ \A o \in (n \div 2) + 1 .. n : FirstHalf(x)[o] = 0
<1> DEFINE h == n \div 2
<1>1. n \in Nat \ {0} /\ h \in Nat \ {0} /\ h * 2 = n /\ 2 * h = n /\ Len(x) = n
  BY HalfLength, SignalTerms
<1> HIDE DEF h
<1>2. \A o \in 1 .. n : x[o] \in 0 .. P - 1 BY DEF Values
<1>3. 0 \in 0 .. P - 1 BY PIsOdd
<1>4. FirstHalf(x) = [o \in 1 .. n |-> IF 2 * o <= n THEN x[o] ELSE 0] BY <1>1 DEF FirstHalf
<1>5. FirstHalf(x) \in Values(n) BY <1>2, <1>3, <1>4 DEF Values
<1>6. \A o \in 1 .. h : o \in 1 .. n /\ 2 * o <= n BY <1>1
<1>7. \A o \in h + 1 .. n : o \in 1 .. n /\ ~(2 * o <= n) BY <1>1
<1>8. \A o \in 1 .. h : FirstHalf(x)[o] = x[o] BY <1>4, <1>6
<1>9. \A o \in h + 1 .. n : FirstHalf(x)[o] = 0 BY <1>4, <1>7
<1> QED BY <1>5, <1>8, <1>9 DEF h

\* Term s of the sums, with its place in either signal.
LEMMA TermOf ==
  ASSUME NEW n \in Lengths, NEW a \in Values(n), NEW b \in Values(n),
         NEW s \in 0 .. n - 1, NEW u \in Int
  PROVE  /\ CMul(Signal(a)[s], Signal(b)[u % n]) \in C
         /\ a[s + 1] = 0 => CMul(Signal(a)[s], Signal(b)[u % n]) = Zero
         /\ u \in 0 .. n - 1 =>
               CMul(Signal(a)[s], Signal(b)[u % n]) = Complex(a[s + 1] * b[u + 1], 0)
<1> DEFINE r == u % n
<1>1. n \in Nat /\ Len(a) = n /\ Len(b) = n BY HalfLength, SignalTerms
<1>2. r \in 0 .. n - 1 /\ Signal(b)[r] \in C /\ Signal(b)[r] = Complex(b[r + 1], 0)
      /\ (u \in 0 .. n - 1 => r = u)
  BY RoundSignal
<1> HIDE DEF r
<1>3. s + 1 \in 1 .. n /\ r + 1 \in 1 .. n BY <1>1, <1>2
<1>4. a[s + 1] \in Int /\ b[r + 1] \in Int
  <2>1. a[s + 1] \in 0 .. P - 1 /\ b[r + 1] \in 0 .. P - 1 BY <1>3 DEF Values
  <2> QED BY <2>1, PIsOdd
<1>5. Signal(a)[s] = Complex(a[s + 1], 0) BY <1>1 DEF Signal
<1>6. Signal(a)[s] \in C
  <2>1. 0 \in Int OBVIOUS
  <2> QED BY <1>4, <1>5, <2>1, InC
<1>7. CMul(Signal(a)[s], Signal(b)[r]) \in C BY <1>2, <1>6, Closed, Zenon
<1>8. a[s + 1] = 0 => CMul(Signal(a)[s], Signal(b)[r]) = Zero
  <2> SUFFICES ASSUME a[s + 1] = 0 PROVE CMul(Signal(a)[s], Signal(b)[r]) = Zero OBVIOUS
  <2>1. Signal(a)[s] = Zero BY <1>5 DEF Zero
  <2>2. CMul(Zero, Signal(b)[r]) = Zero BY <1>2, MulRing
  <2> QED BY <2>1, <2>2
<1>9. CMul(Signal(a)[s], Signal(b)[r]) = Complex(a[s + 1] * b[r + 1], 0)
  <2> DEFINE v == a[s + 1]  w == b[r + 1]
  <2>1. v \in Int /\ w \in Int BY <1>4
  <2>2. Signal(a)[s] = Scalar(v) /\ Signal(b)[r] = Scalar(w) BY <1>2, <1>5 DEF Scalar
  <2> HIDE DEF v, w
  <2>3. CMul(Scalar(v), Scalar(w)) = Scalar(v * w) BY <2>1, RealMul
  <2>4. CMul(Signal(a)[s], Signal(b)[r]) = Scalar(v * w) BY <2>2, <2>3
  <2> QED BY <2>4 DEF v, w, Scalar
<1>10. u \in 0 .. n - 1 => CMul(Signal(a)[s], Signal(b)[r]) = Complex(a[s + 1] * b[u + 1], 0)
  BY <1>2, <1>9
<1> QED BY <1>7, <1>8, <1>10 DEF r

LEMMA FilterSum ==
  ASSUME NEW n \in Lengths, NEW x \in Values(n), NEW w \in Values(n), NEW b \in Values(n),
         NEW F, Convolved(F, b, FirstHalf(w), n), Spectral(F, x, n),
         NEW o \in (n \div 2) + 1 .. n
  PROVE  Complex(x[o] * n, 0)
           = CSum([d \in 0 .. (n \div 2) - 1 |-> Complex(w[d + 1] * b[o - d], 0)], n \div 2)
<1> DEFINE h == n \div 2  t == o - 1  a == FirstHalf(w)  L == Lagged(a, b, n, t)
           g == [i \in 0 .. h - 1 |-> L[h + i]]
           T == [d \in 0 .. h - 1 |-> Complex(w[d + 1] * b[o - d], 0)]
<1>1. n \in Nat \ {0} /\ h \in Nat \ {0} /\ h + h = n /\ o \in h + 1 .. n BY HalfLength
<1>2. a \in Values(n) /\ \A i \in 1 .. h : a[i] = w[i] BY HalfValues
<1>3. \A i \in h + 1 .. n : a[i] = 0 BY HalfValues
<1> HIDE DEF h, a
<1>4. t \in 0 .. n - 1 /\ t + 1 = o /\ t \in Int BY <1>1
<1> HIDE DEF t
<1>5. Complex(x[t + 1] * n, 0) = CSum(L, n) BY <1>2, <1>4, ConvolvedSum DEF a
<1>6. ASSUME NEW s \in 0 .. n - 1
      PROVE  /\ L[s] \in C /\ (a[s + 1] = 0 => L[s] = Zero)
             /\ t - s \in 0 .. n - 1 => L[s] = Complex(a[s + 1] * b[(t - s) + 1], 0)
  <2>1. L[s] = CMul(Signal(a)[s], Signal(b)[(t - s) % n]) BY DEF Lagged
  <2> DEFINE u == t - s
  <2>2. u \in Int BY <1>1, <1>4
  <2> HIDE DEF u
  <2>3. /\ CMul(Signal(a)[s], Signal(b)[u % n]) \in C
        /\ a[s + 1] = 0 => CMul(Signal(a)[s], Signal(b)[u % n]) = Zero
        /\ u \in 0 .. n - 1 =>
              CMul(Signal(a)[s], Signal(b)[u % n]) = Complex(a[s + 1] * b[u + 1], 0)
    BY <1>2, <2>2, TermOf
  <2> QED BY <2>1, <2>3 DEF u
<1> HIDE DEF L
<1>7. Terms(L, n) BY <1>6 DEF Terms
<1>8. CSum(L, h + h) = CAdd(CSum(L, h), CSum(g, h))
  <2>1. h \in Nat /\ Terms(L, h + h) BY <1>1, <1>7
  <2>2. \A i \in 0 .. h - 1 : g[i] = L[h + i] OBVIOUS
  <2> HIDE DEF g
  <2> QED BY <2>1, <2>2, SumSplit
<1>9. CSum(g, h) = Zero
  <2>1. ASSUME NEW i \in 0 .. h - 1 PROVE g[i] = Zero
    <3> DEFINE s == h + i
    <3>1. s \in 0 .. n - 1 /\ s + 1 \in h + 1 .. n BY <1>1
    <3>2. g[i] = L[s] OBVIOUS
    <3> HIDE DEF s, g
    <3>3. a[s + 1] = 0 BY <1>3, <3>1 DEF h
    <3> QED BY <1>6, <3>1, <3>2, <3>3
  <2> HIDE DEF g
  <2> QED BY <1>1, <2>1, SumZeroes
<1>10. CSum(L, h) = CSum(T, h)
  <2>1. ASSUME NEW d \in 0 .. h - 1 PROVE L[d] = T[d] /\ L[d] \in C
    <3>1. d \in 0 .. n - 1 /\ d + 1 \in 1 .. h /\ t - d \in 0 .. n - 1 /\ (t - d) + 1 = o - d
      BY <1>1, <1>4
    <3>2. L[d] = Complex(a[d + 1] * b[(t - d) + 1], 0) /\ L[d] \in C BY <1>6, <3>1
    <3>3. a[d + 1] = w[d + 1] BY <1>2, <3>1 DEF h
    <3>4. L[d] = Complex(w[d + 1] * b[o - d], 0) BY <3>1, <3>2, <3>3
    <3> QED BY <3>2, <3>4
  <2>2. Terms(L, h) BY <2>1 DEF Terms
  <2> HIDE DEF T
  <2> QED BY <1>1, <2>1, <2>2, SumSame
<1>11. CAdd(CSum(L, h), Zero) = CSum(L, h)
  <2>1. Terms(L, h) /\ h \in Nat BY <1>1, <1>7 DEF Terms
  <2>2. CSum(L, h) \in C BY <2>1, SumType
  <2> QED BY <2>2, AddRing
<1>12. Complex(x[o] * n, 0) = CSum(T, h) BY <1>1, <1>4, <1>5, <1>8, <1>9, <1>10, <1>11, Zenon
<1> QED BY <1>12 DEF h

LEMMA GradientSum ==
  ASSUME NEW n \in Lengths, NEW x \in Values(n), NEW a \in Values(n), NEW b \in Values(n),
         \A o \in 1 .. n \div 2 : a[o] = 0,
         NEW F, Correlated(F, b, a, n), Spectral(F, x, n), NEW d \in 0 .. (n \div 2) - 1
  PROVE  Complex(x[d + 1] * n, 0)
           = CSum([o \in 0 .. (n \div 2) - 1 |->
                     Complex(a[(n \div 2) + 1 + o] * b[(n \div 2) + 1 + o - d], 0)], n \div 2)
<1> DEFINE h == n \div 2  L == Led(a, b, n, d)
           g == [i \in 0 .. h - 1 |-> L[h + i]]
           T == [o \in 0 .. h - 1 |-> Complex(a[h + 1 + o] * b[h + 1 + o - d], 0)]
<1>1. n \in Nat \ {0} /\ h \in Nat \ {0} /\ h + h = n /\ d \in 0 .. h - 1 BY HalfLength
<1>2. \A o \in 1 .. h : a[o] = 0 OBVIOUS
<1> HIDE DEF h
<1>3. d \in 0 .. n - 1 /\ d \in Int BY <1>1
<1>4. Complex(x[d + 1] * n, 0) = CSum(L, n) BY <1>3, CorrelatedSum
<1>5. ASSUME NEW s \in 0 .. n - 1
      PROVE  /\ L[s] \in C /\ (a[s + 1] = 0 => L[s] = Zero)
             /\ s - d \in 0 .. n - 1 => L[s] = Complex(a[s + 1] * b[(s - d) + 1], 0)
  <2>1. L[s] = CMul(Signal(a)[s], Signal(b)[(s - d) % n]) BY DEF Led
  <2> DEFINE u == s - d
  <2>2. u \in Int BY <1>1, <1>3
  <2> HIDE DEF u
  <2>3. /\ CMul(Signal(a)[s], Signal(b)[u % n]) \in C
        /\ a[s + 1] = 0 => CMul(Signal(a)[s], Signal(b)[u % n]) = Zero
        /\ u \in 0 .. n - 1 =>
              CMul(Signal(a)[s], Signal(b)[u % n]) = Complex(a[s + 1] * b[u + 1], 0)
    BY <2>2, TermOf
  <2> QED BY <2>1, <2>3 DEF u
<1> HIDE DEF L
<1>6. Terms(L, n) BY <1>5 DEF Terms
<1>7. CSum(L, h + h) = CAdd(CSum(L, h), CSum(g, h))
  <2>1. h \in Nat /\ Terms(L, h + h) BY <1>1, <1>6
  <2>2. \A i \in 0 .. h - 1 : g[i] = L[h + i] OBVIOUS
  <2> HIDE DEF g
  <2> QED BY <2>1, <2>2, SumSplit
<1>8. CSum(L, h) = Zero
  <2>1. ASSUME NEW i \in 0 .. h - 1 PROVE L[i] = Zero
    <3>1. i \in 0 .. n - 1 /\ i + 1 \in 1 .. h BY <1>1
    <3>2. a[i + 1] = 0 BY <1>2, <3>1
    <3> QED BY <1>5, <3>1, <3>2
  <2> QED BY <1>1, <2>1, SumZeroes
<1>9. \A i \in 0 .. h - 1 : g[i] = T[i] /\ g[i] \in C
  <2> SUFFICES ASSUME NEW i \in 0 .. h - 1 PROVE g[i] = T[i] /\ g[i] \in C OBVIOUS
  <2> DEFINE s == h + i
  <2>1. s \in 0 .. n - 1 /\ s - d \in 0 .. n - 1 /\ s + 1 = h + 1 + i
        /\ (s - d) + 1 = h + 1 + i - d
    BY <1>1, <1>3
  <2>2. g[i] = L[s] OBVIOUS
  <2>3. T[i] = Complex(a[h + 1 + i] * b[h + 1 + i - d], 0) OBVIOUS
  <2> HIDE DEF s, g, T
  <2>4. L[s] = Complex(a[s + 1] * b[(s - d) + 1], 0) /\ L[s] \in C BY <1>5, <2>1
  <2> QED BY <2>1, <2>2, <2>3, <2>4
<1> HIDE DEF g, T
<1>10. Terms(g, h) BY <1>9 DEF Terms
<1>11. CSum(g, h) = CSum(T, h) BY <1>1, <1>9, <1>10, SumSame
<1>12. CAdd(Zero, CSum(g, h)) = CSum(g, h)
  <2>1. h \in Nat BY <1>1
  <2>2. CSum(g, h) \in C BY <1>10, <2>1, SumType
  <2> QED BY <2>2, AddRing
<1>13. Complex(x[d + 1] * n, 0) = CSum(T, h) BY <1>1, <1>4, <1>7, <1>8, <1>11, <1>12
<1> QED BY <1>13 DEF h, T

-----------------------------------------------------------------------------
\* The calls of a job, and what is in the buffers between them.
Kinds == {"round", "filter", "gradient"}

LEMMA Places ==
  ASSUME NEW k \in Kinds
  PROVE  /\ k = "round" => Len(Program(k)) = 2
         /\ k = "filter" => Len(Program(k)) = 9
         /\ k = "gradient" => Len(Program(k)) = 6
         /\ \A c \in 1 .. Len(Program(k)) :
              /\ Program(k)[c] \in {"fft", "ifft", "constrain", "keep", "load", "accum", "conj"}
              /\ Program(k)[c] = "fft" <=>
                   \/ k = "round" /\ c = 1
                   \/ k = "filter" /\ c \in {1, 4, 7}
                   \/ k = "gradient" /\ c \in {1, 4}
              /\ Program(k)[c] = "ifft" <=>
                   \/ k = "round" /\ c = 2
                   \/ k = "filter" /\ c \in {2, 9}
                   \/ k = "gradient" /\ c = 6
              /\ Program(k)[c] = "constrain" <=> k = "filter" /\ c = 3
              /\ Program(k)[c] = "keep" <=> (k = "filter" /\ c = 5) \/ (k = "gradient" /\ c = 2)
              /\ Program(k)[c] = "load" <=> (k = "filter" /\ c = 6) \/ (k = "gradient" /\ c = 3)
              /\ Program(k)[c] = "accum" <=> k = "filter" /\ c = 8
              /\ Program(k)[c] = "conj" <=> k = "gradient" /\ c = 5
<1>1. CASE k = "round"
  <2>1. Program(k) = <<"fft", "ifft">> BY <1>1 DEF Program
  <2>2. Len(Program(k)) = 2 /\ 1 .. 2 = {1, 2} BY <2>1
  <2> QED BY <1>1, <2>1, <2>2
<1>2. CASE k = "filter"
  <2>1. Program(k) = <<"fft", "ifft", "constrain", "fft", "keep", "load", "fft", "accum", "ifft">>
    BY <1>2 DEF Program
  <2>2. Len(Program(k)) = 9 /\ 1 .. 9 = {1, 2, 3, 4, 5, 6, 7, 8, 9} BY <2>1
  <2>3. /\ Program(k)[1] = "fft" /\ Program(k)[2] = "ifft" /\ Program(k)[3] = "constrain"
        /\ Program(k)[4] = "fft" /\ Program(k)[5] = "keep" /\ Program(k)[6] = "load"
        /\ Program(k)[7] = "fft" /\ Program(k)[8] = "accum" /\ Program(k)[9] = "ifft"
    BY <2>1
  <2> QED BY <1>2, <2>2, <2>3
<1>3. CASE k = "gradient"
  <2>1. Program(k) = <<"fft", "keep", "load", "fft", "conj", "ifft">> BY <1>3 DEF Program
  <2>2. Len(Program(k)) = 6 /\ 1 .. 6 = {1, 2, 3, 4, 5, 6} BY <2>1
  <2>3. /\ Program(k)[1] = "fft" /\ Program(k)[2] = "keep" /\ Program(k)[3] = "load"
        /\ Program(k)[4] = "fft" /\ Program(k)[5] = "conj" /\ Program(k)[6] = "ifft"
    BY <2>1
  <2> QED BY <1>3, <2>2, <2>3
<1> QED BY <1>1, <1>2, <1>3 DEF Kinds

\* x is the time domain, F the packed spectrum and G the other one, before call c.
RoundHas(a, n, c, x, F) ==
  /\ c \in {1, 2, 3} => x = a
  /\ c \in {2, 3} => Spectral(F, x, n)
FilterHas(a, b, n, c, x, F, G) ==
  /\ c \in {1, 2, 3} => x = a
  /\ c \in {4, 5} => x = FirstHalf(a)
  /\ c \in {2, 3, 5, 8, 10} => Spectral(F, x, n)
  /\ c \in {6, 7, 8} => Spectral(G, FirstHalf(a), n)
  /\ c \in {7, 8} => x = b
  /\ c \in {9, 10} => Convolved(F, b, FirstHalf(a), n)
GradientHas(a, b, n, c, x, F, G) ==
  /\ c \in {1, 2} => x = a
  /\ c \in {2, 5, 7} => Spectral(F, x, n)
  /\ c \in {3, 4, 5} => Spectral(G, a, n)
  /\ c \in {4, 5} => x = b
  /\ c \in {6, 7} => Correlated(F, b, a, n)
Has(j, c, x, F, G) ==
  LET n == Len(j.first)
  IN  /\ c \in 1 .. Len(Program(j.kind)) + 1
      /\ x \in Values(n)
      /\ j.kind = "round" => RoundHas(j.first, n, c, x, F)
      /\ j.kind = "filter" => FilterHas(j.first, j.second, n, c, x, F, G)
      /\ j.kind = "gradient" => GradientHas(j.first, j.second, n, c, x, F, G)

LEMMA JobLength ==
  ASSUME NEW j \in Jobs
  PROVE  /\ Len(j.first) \in Lengths /\ j.kind \in Kinds
         /\ j.first \in Values(Len(j.first)) /\ j.second \in Values(Len(j.first))
         /\ j.kind = "gradient" => \A o \in 1 .. Len(j.first) \div 2 : j.first[o] = 0
<1> DEFINE n == Len(j.first)
<1>1. /\ j.kind \in {"round", "filter", "gradient"}
      /\ n \in Nat \ {0} /\ n % 2 = 0 /\ (P + 1) % n = 0
      /\ {j.first, j.second} \subseteq [1 .. n -> 0 .. P - 1]
      /\ j.kind = "gradient" => \A o \in 1 .. n \div 2 : j.first[o] = 0
  BY JobsAssumption, Zenon DEF JobsAssumption
<1> HIDE DEF n
<1>2. n \in Lengths BY <1>1 DEF Lengths, Orders
<1>3. j.first \in Values(n) /\ j.second \in Values(n) BY <1>1 DEF Values
<1> QED BY <1>1, <1>2, <1>3, Zenon DEF n, Kinds

-----------------------------------------------------------------------------
\* Each call leaves what the next one needs.
LEMMA AfterFft ==
  ASSUME NEW j \in Jobs, NEW c, NEW x, NEW F, NEW G, NEW Y, Has(j, c, x, F, G),
         c \in 1 .. Len(Program(j.kind)), Program(j.kind)[c] = "fft",
         Spectral(Y, x, Len(j.first))
  PROVE  Has(j, c + 1, x, Y, G)
<1>1. j.kind \in Kinds BY JobLength, Zenon
<1>2. x \in Values(Len(j.first)) BY DEF Has
<1>3. CASE j.kind = "round"
  <2>1. Len(Program(j.kind)) = 2 /\ c = 1 BY <1>1, <1>3, Places
  <2>2. RoundHas(j.first, Len(j.first), c, x, F) BY <1>3 DEF Has
  <2>3. RoundHas(j.first, Len(j.first), c + 1, x, Y) BY <2>1, <2>2 DEF RoundHas
  <2>4. c + 1 \in 1 .. Len(Program(j.kind)) + 1 BY <2>1
  <2> QED BY <1>2, <1>3, <2>3, <2>4 DEF Has
<1>4. CASE j.kind = "filter"
  <2>1. Len(Program(j.kind)) = 9 /\ c \in {1, 4, 7} BY <1>1, <1>4, Places
  <2>2. FilterHas(j.first, j.second, Len(j.first), c, x, F, G) BY <1>4 DEF Has
  <2>3. FilterHas(j.first, j.second, Len(j.first), c + 1, x, Y, G) BY <2>1, <2>2 DEF FilterHas
  <2>4. c + 1 \in 1 .. Len(Program(j.kind)) + 1 BY <2>1
  <2> QED BY <1>2, <1>4, <2>3, <2>4 DEF Has
<1>5. CASE j.kind = "gradient"
  <2>1. Len(Program(j.kind)) = 6 /\ c \in {1, 4} BY <1>1, <1>5, Places
  <2>2. GradientHas(j.first, j.second, Len(j.first), c, x, F, G) BY <1>5 DEF Has
  <2>3. GradientHas(j.first, j.second, Len(j.first), c + 1, x, Y, G)
    BY <2>1, <2>2 DEF GradientHas
  <2>4. c + 1 \in 1 .. Len(Program(j.kind)) + 1 BY <2>1
  <2> QED BY <1>2, <1>5, <2>3, <2>4 DEF Has
<1> QED BY <1>1, <1>3, <1>4, <1>5 DEF Kinds

LEMMA BeforeIfft ==
  ASSUME NEW j \in Jobs, NEW c, NEW x, NEW F, NEW G, Has(j, c, x, F, G),
         c \in 1 .. Len(Program(j.kind)), Program(j.kind)[c] = "ifft"
  PROVE  F \in Values(Len(j.first))
<1>1. j.kind \in Kinds BY JobLength, Zenon
<1>3. CASE j.kind = "round"
  <2>1. c = 2 BY <1>1, <1>3, Places
  <2>2. RoundHas(j.first, Len(j.first), c, x, F) BY <1>3 DEF Has
  <2> QED BY <2>1, <2>2 DEF RoundHas, Spectral
<1>4. CASE j.kind = "filter"
  <2>1. c \in {2, 9} BY <1>1, <1>4, Places
  <2>2. FilterHas(j.first, j.second, Len(j.first), c, x, F, G) BY <1>4 DEF Has
  <2>3. Spectral(F, x, Len(j.first)) \/ Convolved(F, j.second, FirstHalf(j.first), Len(j.first))
    BY <2>1, <2>2 DEF FilterHas
  <2> QED BY <2>3, Zenon DEF Spectral, Convolved
<1>5. CASE j.kind = "gradient"
  <2>1. c = 6 BY <1>1, <1>5, Places
  <2>2. GradientHas(j.first, j.second, Len(j.first), c, x, F, G) BY <1>5 DEF Has
  <2> QED BY <2>1, <2>2 DEF GradientHas, Correlated
<1> QED BY <1>1, <1>3, <1>4, <1>5 DEF Kinds

LEMMA AfterIfft ==
  ASSUME NEW j \in Jobs, NEW c, NEW x, NEW F, NEW G, Has(j, c, x, F, G),
         c \in 1 .. Len(Program(j.kind)), Program(j.kind)[c] = "ifft",
         NEW y \in Values(Len(j.first)), Spectral(F, y, Len(j.first))
  PROVE  Has(j, c + 1, y, F, G)
<1> DEFINE n == Len(j.first)
<1>1. j.kind \in Kinds /\ n \in Lengths BY JobLength, Zenon
<1>2. x \in Values(n) BY DEF Has
<1>3. CASE j.kind = "round"
  <2>1. Len(Program(j.kind)) = 2 /\ c = 2 BY <1>1, <1>3, Places
  <2>2. RoundHas(j.first, n, c, x, F) BY <1>3 DEF Has
  <2>3. x = j.first /\ Spectral(F, x, n) BY <2>1, <2>2 DEF RoundHas
  <2>4. y = x BY <1>1, <1>2, <2>3, SpectralUnique
  <2>5. RoundHas(j.first, n, c + 1, y, F) BY <2>1, <2>3, <2>4 DEF RoundHas
  <2>6. c + 1 \in 1 .. Len(Program(j.kind)) + 1 BY <2>1
  <2> QED BY <1>3, <2>5, <2>6 DEF Has
<1>4. CASE j.kind = "filter"
  <2>1. Len(Program(j.kind)) = 9 /\ c \in {2, 9} BY <1>1, <1>4, Places
  <2>2. FilterHas(j.first, j.second, n, c, x, F, G) BY <1>4 DEF Has
  <2>3. c = 2 => y = x
    <3> SUFFICES ASSUME c = 2 PROVE y = x OBVIOUS
    <3>1. Spectral(F, x, n) BY <2>2 DEF FilterHas
    <3> QED BY <1>1, <1>2, <3>1, SpectralUnique
  <2>4. FilterHas(j.first, j.second, n, c + 1, y, F, G) BY <2>1, <2>2, <2>3 DEF FilterHas
  <2>5. c + 1 \in 1 .. Len(Program(j.kind)) + 1 BY <2>1
  <2> QED BY <1>4, <2>4, <2>5 DEF Has
<1>5. CASE j.kind = "gradient"
  <2>1. Len(Program(j.kind)) = 6 /\ c = 6 BY <1>1, <1>5, Places
  <2>2. GradientHas(j.first, j.second, n, c, x, F, G) BY <1>5 DEF Has
  <2>3. GradientHas(j.first, j.second, n, c + 1, y, F, G) BY <2>1, <2>2 DEF GradientHas
  <2>4. c + 1 \in 1 .. Len(Program(j.kind)) + 1 BY <2>1
  <2> QED BY <1>5, <2>3, <2>4 DEF Has
<1> QED BY <1>1, <1>3, <1>4, <1>5 DEF Kinds

LEMMA AfterConstrain ==
  ASSUME NEW j \in Jobs, NEW c, NEW x, NEW F, NEW G, Has(j, c, x, F, G),
         c \in 1 .. Len(Program(j.kind)), Program(j.kind)[c] = "constrain"
  PROVE  Has(j, c + 1, FirstHalf(x), F, G)
<1> DEFINE n == Len(j.first)
<1>1. j.kind \in Kinds /\ n \in Lengths BY JobLength, Zenon
<1>2. FirstHalf(x) \in Values(n)
  <2>1. x \in Values(n) BY DEF Has
  <2> QED BY <1>1, <2>1, HalfValues
<1>3. j.kind = "filter" /\ c = 3 /\ Len(Program(j.kind)) = 9 BY <1>1, Places
<1>4. FilterHas(j.first, j.second, n, c, x, F, G) BY <1>3 DEF Has
<1>5. FilterHas(j.first, j.second, n, c + 1, FirstHalf(x), F, G) BY <1>3, <1>4 DEF FilterHas
<1>6. c + 1 \in 1 .. Len(Program(j.kind)) + 1 BY <1>3
<1> QED BY <1>2, <1>3, <1>5, <1>6 DEF Has

LEMMA AfterKeep ==
  ASSUME NEW j \in Jobs, NEW c, NEW x, NEW F, NEW G, Has(j, c, x, F, G),
         c \in 1 .. Len(Program(j.kind)), Program(j.kind)[c] = "keep"
  PROVE  Has(j, c + 1, x, F, F)
<1> DEFINE n == Len(j.first)
<1>1. j.kind \in Kinds /\ n \in Lengths /\ x \in Values(n) BY JobLength, Zenon DEF Has
<1>2. CASE j.kind = "filter" /\ c = 5
  <2>1. Len(Program(j.kind)) = 9 BY <1>1, <1>2, Places
  <2>2. FilterHas(j.first, j.second, n, c, x, F, G) BY <1>2 DEF Has
  <2>3. FilterHas(j.first, j.second, n, c + 1, x, F, F) BY <1>2, <2>2 DEF FilterHas
  <2>4. c + 1 \in 1 .. Len(Program(j.kind)) + 1 BY <1>2, <2>1
  <2> QED BY <1>1, <1>2, <2>3, <2>4 DEF Has
<1>3. CASE j.kind = "gradient" /\ c = 2
  <2>1. Len(Program(j.kind)) = 6 BY <1>1, <1>3, Places
  <2>2. GradientHas(j.first, j.second, n, c, x, F, G) BY <1>3 DEF Has
  <2>3. GradientHas(j.first, j.second, n, c + 1, x, F, F) BY <1>3, <2>2 DEF GradientHas
  <2>4. c + 1 \in 1 .. Len(Program(j.kind)) + 1 BY <1>3, <2>1
  <2> QED BY <1>1, <1>3, <2>3, <2>4 DEF Has
<1> QED BY <1>1, <1>2, <1>3, Places

LEMMA AfterLoad ==
  ASSUME NEW j \in Jobs, NEW c, NEW x, NEW F, NEW G, Has(j, c, x, F, G),
         c \in 1 .. Len(Program(j.kind)), Program(j.kind)[c] = "load"
  PROVE  Has(j, c + 1, j.second, F, G)
<1> DEFINE n == Len(j.first)
<1>1. j.kind \in Kinds /\ n \in Lengths /\ j.second \in Values(n) BY JobLength, Zenon
<1>2. CASE j.kind = "filter" /\ c = 6
  <2>1. Len(Program(j.kind)) = 9 BY <1>1, <1>2, Places
  <2>2. FilterHas(j.first, j.second, n, c, x, F, G) BY <1>2 DEF Has
  <2>3. FilterHas(j.first, j.second, n, c + 1, j.second, F, G) BY <1>2, <2>2 DEF FilterHas
  <2>4. c + 1 \in 1 .. Len(Program(j.kind)) + 1 BY <1>2, <2>1
  <2> QED BY <1>1, <1>2, <2>3, <2>4 DEF Has
<1>3. CASE j.kind = "gradient" /\ c = 3
  <2>1. Len(Program(j.kind)) = 6 BY <1>1, <1>3, Places
  <2>2. GradientHas(j.first, j.second, n, c, x, F, G) BY <1>3 DEF Has
  <2>3. GradientHas(j.first, j.second, n, c + 1, j.second, F, G) BY <1>3, <2>2 DEF GradientHas
  <2>4. c + 1 \in 1 .. Len(Program(j.kind)) + 1 BY <1>3, <2>1
  <2> QED BY <1>1, <1>3, <2>3, <2>4 DEF Has
<1> QED BY <1>1, <1>2, <1>3, Places

LEMMA AfterAccumulate ==
  ASSUME NEW j \in Jobs, NEW c, NEW x, NEW F, NEW G, Has(j, c, x, F, G),
         c \in 1 .. Len(Program(j.kind)), Program(j.kind)[c] = "accum"
  PROVE  Has(j, c + 1, x, spectral_mul(F, G), G)
<1> DEFINE n == Len(j.first)  Y == spectral_mul(F, G)
<1>1. j.kind \in Kinds /\ n \in Lengths /\ x \in Values(n) BY JobLength, Zenon DEF Has
<1>2. j.kind = "filter" /\ c = 8 /\ Len(Program(j.kind)) = 9 BY <1>1, Places
<1>3. FilterHas(j.first, j.second, n, c, x, F, G) BY <1>2 DEF Has
<1>4. Spectral(F, j.second, n) /\ Spectral(G, FirstHalf(j.first), n)
  BY <1>2, <1>3 DEF FilterHas
<1>5. F \in Values(n) /\ G \in Values(n) BY <1>4 DEF Spectral
<1>6. BinsAre(Y, F, G, n) BY <1>1, <1>5, BinsMultiplied
<1> HIDE DEF Y
<1>7. Convolved(Y, j.second, FirstHalf(j.first), n) BY <1>1, <1>4, <1>6, ProductConvolved
<1>8. FilterHas(j.first, j.second, n, c + 1, x, Y, G) BY <1>2, <1>7 DEF FilterHas
<1>9. c + 1 \in 1 .. Len(Program(j.kind)) + 1 BY <1>2
<1>10. Has(j, c + 1, x, Y, G) BY <1>1, <1>2, <1>8, <1>9 DEF Has
<1> QED BY <1>10 DEF Y

LEMMA AfterCorrelate ==
  ASSUME NEW j \in Jobs, NEW c, NEW x, NEW F, NEW G, Has(j, c, x, F, G),
         c \in 1 .. Len(Program(j.kind)), Program(j.kind)[c] = "conj"
  PROVE  Has(j, c + 1, x, weighted_spectral_mul_conj(F, G), G)
<1> DEFINE n == Len(j.first)  Y == weighted_spectral_mul_conj(F, G)
<1>1. j.kind \in Kinds /\ n \in Lengths /\ x \in Values(n) BY JobLength, Zenon DEF Has
<1>2. j.kind = "gradient" /\ c = 5 /\ Len(Program(j.kind)) = 6 BY <1>1, Places
<1>3. GradientHas(j.first, j.second, n, c, x, F, G) BY <1>2 DEF Has
<1>4. Spectral(F, j.second, n) /\ Spectral(G, j.first, n)
  BY <1>2, <1>3 DEF GradientHas
<1>5. F \in Values(n) /\ G \in Values(n) BY <1>4 DEF Spectral
<1>6. ConjBinsAre(Y, F, G, n) BY <1>1, <1>5, BinsCorrelated
<1> HIDE DEF Y
<1>7. Correlated(Y, j.second, j.first, n) BY <1>1, <1>4, <1>6, ProductCorrelated
<1>8. GradientHas(j.first, j.second, n, c + 1, x, Y, G) BY <1>2, <1>7 DEF GradientHas
<1>9. c + 1 \in 1 .. Len(Program(j.kind)) + 1 BY <1>2
<1>10. Has(j, c + 1, x, Y, G) BY <1>1, <1>2, <1>8, <1>9 DEF Has
<1> QED BY <1>10 DEF Y

-----------------------------------------------------------------------------
\* The buffers before the next call, and in the middle of one.
Entered == IF Op = "fft" THEN Pairs(time) ELSE Pre(Config, freq)
Halfway ==
  level # Idle =>
    /\ Op \in {"fft", "ifft"}
    /\ level \in 0 .. Len(Config.substate.factors)
    /\ Staged(Config.substate, Entered, level, buf)
FftInv ==
  /\ job \in Jobs
  /\ Has(job, pc, time, freq, kept)
  /\ table = None \/ table = spx_fft_init(Len(job.first))
  /\ Halfway
EngineInv == (job = NoJob /\ pc = 1) \/ FftInv

\* A call that is under way.
Under ==
  /\ pc \in 1 .. Len(Program(job.kind)) /\ Program(job.kind)[pc] = Op
  /\ table = spx_fft_init(Len(job.first))
  /\ Len(job.first) \in Lengths
  /\ time \in Values(Len(job.first)) /\ Len(time) = Len(job.first)

LEMMA Calling == ASSUME FftInv, Op # "none" PROVE Under
<1>1. Len(job.first) \in Lengths BY JobLength, Zenon DEF FftInv
<1>2. time \in Values(Len(job.first)) /\ pc \in 1 .. Len(Program(job.kind)) + 1
  BY DEF FftInv, Has
<1>3. ~(table = None \/ pc > Len(Program(job.kind))) BY DEF Op
<1>4. Op = Program(job.kind)[pc] BY <1>3 DEF Op
<1>5. table = spx_fft_init(Len(job.first)) BY <1>3 DEF FftInv
<1>6. pc \in 1 .. Len(Program(job.kind))
  <2>1. job.kind \in Kinds BY JobLength, Zenon DEF FftInv
  <2>2. Len(Program(job.kind)) \in Nat BY <2>1, Places DEF Kinds
  <2> QED BY <1>2, <1>3, <2>2
<1>7. Len(time) = Len(job.first) BY <1>1, <1>2, SignalTerms
<1> QED BY <1>1, <1>2, <1>4, <1>5, <1>6, <1>7 DEF Under

\* Its plan, and what it works on.
Transforming ==
  LET st == Config.substate  h == Len(job.first) \div 2
  IN  /\ Under /\ Planned(st) /\ st.nfft = h /\ h \in Nat \ {0}
      /\ Op = "fft" => Config = kiss_fftr_alloc(Len(job.first), FALSE) /\ Sense(st) = -1
      /\ Op = "ifft" => /\ Config = kiss_fftr_alloc(Len(job.first), TRUE) /\ Sense(st) = 1
                        /\ freq \in Values(Len(job.first))
      /\ Terms(Entered, st.nfft) /\ DOMAIN Entered = 0 .. st.nfft - 1

LEMMA Transforms == ASSUME FftInv, Op \in {"fft", "ifft"} PROVE Transforming
<1> DEFINE n == Len(job.first)  h == n \div 2  st == Config.substate
<1>1. Under
  <2>1. Op # "none" OBVIOUS
  <2> QED BY <2>1, Calling
<1>2. n \in Lengths /\ h \in Orders /\ h \in Nat \ {0} BY <1>1, HalfLength, Zenon DEF Under
<1>3. time \in Values(n) /\ table = spx_fft_init(n) BY <1>1 DEF Under
<1>4. job \in Jobs /\ Has(job, pc, time, freq, kept) BY DEF FftInv
<1> HIDE DEF n
<1>5. CASE Op = "fft"
  <2>1. Config = kiss_fftr_alloc(n, FALSE) BY <1>3, <1>5 DEF Config, spx_fft_init
  <2>2. st = kiss_fft_alloc(h, FALSE) BY <2>1 DEF kiss_fftr_alloc
  <2>3. Planned(st) /\ st.nfft = h /\ st.inverse = FALSE BY <1>2, <2>2, PlanOf, Zenon
  <2>4. Entered = Pairs(time) BY <1>5 DEF Entered
  <2>5. Terms(Entered, h) /\ DOMAIN Entered = 0 .. h - 1 BY <1>2, <1>3, <2>4, SignalTerms
  <2>6. Sense(st) = -1 BY <2>3 DEF Sense
  <2> HIDE DEF st, h
  <2> QED BY <1>1, <1>2, <1>5, <2>1, <2>3, <2>5, <2>6, Zenon DEF Transforming, n, st, h
<1>6. CASE Op = "ifft"
  <2>1. Config = kiss_fftr_alloc(n, TRUE) BY <1>3, <1>6 DEF Config, spx_fft_init
  <2>2. st = kiss_fft_alloc(h, TRUE) BY <2>1 DEF kiss_fftr_alloc
  <2>3. Planned(st) /\ st.nfft = h /\ st.inverse = TRUE BY <1>2, <2>2, PlanOf, Zenon
  <2>4. Entered = Pre(Config, freq) BY <1>6 DEF Entered
  <2>5. freq \in Values(n)
    <3>1. pc \in 1 .. Len(Program(job.kind)) /\ Program(job.kind)[pc] = "ifft"
      BY <1>1, <1>6 DEF Under
    <3> QED BY <1>4, <3>1, BeforeIfft DEF n
  <2>6. Terms(Entered, h) /\ DOMAIN Entered = 0 .. h - 1 BY <1>2, <2>1, <2>4, <2>5, Prepared, Zenon
  <2>7. Sense(st) = 1 BY <2>3 DEF Sense
  <2> HIDE DEF st, h
  <2> QED BY <1>1, <1>2, <1>6, <2>1, <2>3, <2>5, <2>6, <2>7, Zenon DEF Transforming, n, st, h
<1> QED BY <1>5, <1>6

\* Between calls nothing is half done.
LEMMA Between ==
  ASSUME FftInv, Op \notin {"fft", "ifft"}
  PROVE  level = Idle
BY DEF FftInv, Halfway

LEMMA FlattenedPairs ==
  ASSUME NEW n \in Lengths, NEW f, Terms(f, n \div 2), NEW y,
         y = [o \in 1 .. n |-> IF o % 2 = 1 THEN f[o \div 2].r ELSE f[o \div 2 - 1].i]
  PROVE  y \in Values(n) /\ \A k \in 0 .. (n \div 2) - 1 : Pairs(y)[k] = f[k]
<1> DEFINE h == n \div 2
<1>1. n \in Nat \ {0} /\ h \in Nat \ {0} /\ h * 2 = n BY HalfLength
<1>2. \A k \in 0 .. h - 1 : f[k] \in C BY DEF Terms
<1> HIDE DEF h
<1>3. ASSUME NEW k \in 0 .. h - 1
      PROVE  /\ 2 * k + 1 \in 1 .. n /\ (2 * k + 1) % 2 = 1 /\ (2 * k + 1) \div 2 = k
             /\ 2 * k + 2 \in 1 .. n /\ (2 * k + 2) % 2 = 0 /\ (2 * k + 2) \div 2 - 1 = k
  <2>1. k \in Int /\ k + 1 \in Int /\ 0 \in 0 .. 2 - 1 /\ 1 \in 0 .. 2 - 1 /\ 2 \in Nat \ {0}
        /\ k * 2 + 1 = 2 * k + 1 /\ (k + 1) * 2 + 0 = 2 * k + 2
    BY <1>1
  <2>2. (k * 2 + 1) % 2 = 1 /\ (k * 2 + 1) \div 2 = k BY <2>1, Remainder
  <2>3. ((k + 1) * 2 + 0) % 2 = 0 /\ ((k + 1) * 2 + 0) \div 2 = k + 1
    <3> DEFINE i == k + 1
    <3>1. i \in Int BY <2>1
    <3> HIDE DEF i
    <3>2. (i * 2 + 0) % 2 = 0 /\ (i * 2 + 0) \div 2 = i BY <2>1, <3>1, Remainder
    <3> QED BY <3>2 DEF i
  <2>4. 2 * k + 1 \in 1 .. n /\ 2 * k + 2 \in 1 .. n /\ (k + 1) - 1 = k BY <1>1
  <2> QED BY <2>1, <2>2, <2>3, <2>4
<1>4. ASSUME NEW o \in 1 .. n PROVE y[o] \in 0 .. P - 1
  <2> DEFINE k == o \div 2
  <2>0. o \in Int /\ 2 \in Nat \ {0} BY <1>1
  <2>8. o % 2 \in 0 .. 2 - 1 /\ k \in Int /\ o = k * 2 + (o % 2) BY <2>0, Division
  <2>1. o = k * 2 + (o % 2) /\ o % 2 \in 0 .. 1 /\ k \in Int BY <2>8
  <2>2. o % 2 = 1 => y[o] = f[k].r OBVIOUS
  <2>3. o % 2 # 1 => y[o] = f[k - 1].i OBVIOUS
  <2> HIDE DEF k
  <2>4. o % 2 = 1 => k \in 0 .. h - 1 BY <1>1, <2>1
  <2>5. o % 2 # 1 => k - 1 \in 0 .. h - 1 BY <1>1, <2>1
  <2>6. CASE o % 2 = 1
    <3>1. f[k] \in C BY <1>2, <2>4, <2>6
    <3> QED BY <2>2, <2>6, <3>1 DEF C
  <2>7. CASE o % 2 # 1
    <3>1. f[k - 1] \in C BY <1>2, <2>5, <2>7
    <3> QED BY <2>3, <2>7, <3>1 DEF C
  <2> QED BY <2>6, <2>7
<1>5. y \in Values(n) BY <1>4 DEF Values
<1>6. Len(y) = n BY <1>5, SignalTerms
<1>7. ASSUME NEW k \in 0 .. h - 1 PROVE Pairs(y)[k] = f[k]
  <2> DEFINE d == 2 * k + 1  e == 2 * k + 2
  <2>1. d \in 1 .. n /\ d % 2 = 1 /\ d \div 2 = k /\ e \in 1 .. n /\ e % 2 = 0 /\
      e \div 2 - 1 = k
    BY <1>3
  <2>2. Pairs(y)[k] = Complex(y[d], y[e]) BY <1>6, Zenon DEF Pairs, h
  <2> HIDE DEF d, e
  <2>3. y[d] = f[d \div 2].r BY <2>1
  <2>4. y[e] = f[e \div 2 - 1].i BY <2>1
  <2>5. f[k] = Complex(f[k].r, f[k].i) BY <1>2, AsComplex
  <2> QED BY <2>1, <2>2, <2>3, <2>4, <2>5
<1> QED BY <1>5, <1>7 DEF h

-----------------------------------------------------------------------------
\* The steps of the transforms.
LEMMA CreateStep == ASSUME FftInv, Create PROVE FftInv'
<1>1. Len(job.first) \in Lengths BY JobLength, Zenon DEF FftInv
<1>2. time \in Values(Len(job.first)) BY DEF FftInv, Has
<1>3. Len(time) = Len(job.first) BY <1>1, <1>2, SignalTerms
<1>4. table' = spx_fft_init(Len(job.first)) BY <1>3 DEF Create
<1>5. Op = "none" BY DEF Create, Op
<1>6. level = Idle BY <1>5, Between
<1>7. level' = Idle BY <1>6 DEF Create
<1>8. Halfway' BY <1>7 DEF Halfway
<1>9. UNCHANGED <<job, pc, time, freq, kept>> BY DEF Create
<1> QED BY <1>4, <1>8, <1>9 DEF FftInv

LEMMA SameCall ==
  ASSUME UNCHANGED <<job, pc, table, time, freq, kept>>
  PROVE  Op' = Op /\ Config' = Config /\ Entered' = Entered
<1>1. Op' = Op BY DEF Op
<1>2. Config' = Config BY <1>1 DEF Config
<1> QED BY <1>1, <1>2 DEF Entered

LEMMA StartStep ==
  ASSUME FftInv, Op \in {"fft", "ifft"}, buf' = kf_shuffle(Config.substate, Entered),
         level' = Len(Config.substate.factors), UNCHANGED <<job, pc, table, time, freq, kept>>
  PROVE  FftInv'
<1> DEFINE st == Config.substate
<1>1. /\ Planned(st) /\ Terms(Entered, st.nfft) /\ DOMAIN Entered = 0 .. st.nfft - 1
  BY Transforms, Zenon DEF Transforming
<1>2. Staged(st, Entered, Len(st.factors), kf_shuffle(st, Entered)) BY <1>1, StagedFirst
<1>3. Len(st.factors) \in 0 .. Len(st.factors) BY <1>1 DEF Planned, Chain
<1>4. Op' = Op /\ Config' = Config /\ Entered' = Entered BY SameCall
<1>5. Halfway' BY <1>2, <1>3, <1>4 DEF Halfway
<1> QED BY <1>5 DEF FftInv

LEMMA StartFftStep == ASSUME FftInv, StartFft PROVE FftInv'
<1>1. Op \in {"fft", "ifft"} /\ Entered = Pairs(time) BY DEF StartFft, Entered
<1> QED BY <1>1, StartStep DEF StartFft

LEMMA StartIfftStep == ASSUME FftInv, StartIfft PROVE FftInv'
<1>1. Op \in {"fft", "ifft"} /\ Entered = Pre(Config, freq) BY DEF StartIfft, Entered
<1> QED BY <1>1, StartStep DEF StartIfft

LEMMA WorkStep == ASSUME FftInv, KfWork PROVE FftInv'
<1> DEFINE st == Config.substate
<1>1. level # Idle /\ level > 0 BY DEF KfWork, Idle
<1>2. Op \in {"fft", "ifft"} /\ level \in 0 .. Len(st.factors)
      /\ Staged(st, Entered, level, buf)
  BY <1>1 DEF FftInv, Halfway
<1>3. Planned(st) /\ Terms(Entered, st.nfft) BY <1>2, Transforms, Zenon DEF Transforming
<1>4. Len(st.factors) \in Nat BY <1>3 DEF Planned, Chain
<1>5. level \in 1 .. Len(st.factors) /\ level - 1 \in 0 .. Len(st.factors) BY <1>1, <1>2, <1>4
<1>6. Staged(st, Entered, level - 1, Stage(st, level, buf)) BY <1>2, <1>3, <1>5, StagedStep
<1>7. UNCHANGED <<job, pc, table, time, freq, kept>> /\ buf' = Stage(st, level, buf)
      /\ level' = level - 1
  BY DEF KfWork
<1>8. Op' = Op /\ Config' = Config /\ Entered' = Entered BY <1>7, SameCall
<1>9. Halfway' BY <1>2, <1>5, <1>6, <1>7, <1>8 DEF Halfway
<1> QED BY <1>7, <1>9 DEF FftInv

LEMMA EndFftStep == ASSUME FftInv, EndFft PROVE FftInv'
<1> DEFINE n == Len(job.first)  h == n \div 2  st == Config.substate
           Y == Post(Config, buf, Inverse(table.N))
<1>1. Op = "fft" /\ level = 0 /\ level # Idle BY DEF EndFft, Idle
<1>2. /\ Planned(st) /\ st.nfft = h /\ h \in Nat \ {0} /\ Terms(Entered, st.nfft)
      /\ Config = kiss_fftr_alloc(n, FALSE) /\ Sense(st) = -1 /\ Under
  BY <1>1, Transforms, Zenon DEF Transforming
<1>3. n \in Lengths /\ time \in Values(n) /\ table = spx_fft_init(n)
      /\ pc \in 1 .. Len(Program(job.kind)) /\ Program(job.kind)[pc] = "fft"
  BY <1>1, <1>2 DEF Under
<1>4. Staged(st, Pairs(time), 0, buf) BY <1>1 DEF FftInv, Halfway, Entered
<1>5. Entered = Pairs(time) /\ table.N = n BY <1>1, <1>3 DEF Entered, spx_fft_init
<1> HIDE DEF n, st, h
<1>6. ASSUME NEW k \in 0 .. h - 1 PROVE buf[k] = Packed(time, n, k)
  <2>1. buf[k] = Spectrum(Pairs(time), h, -(Sense(st) * k))
    <3>1. k \in 0 .. st.nfft - 1 BY <1>2
    <3> QED BY <1>2, <1>4, <1>5, <3>1, StagedLast
  <2>2. -(Sense(st) * k) = k
    <3>1. -(-1 * k) = k BY <1>2
    <3> QED BY <1>2, <3>1
  <2> QED BY <2>1, <2>2 DEF Packed, h
<1>7. Spectral(Y, time, n)
  <2>1. Spectral(Post(Config, buf, Inverse(n)), time, n) BY <1>2, <1>3, <1>6, PostTrue, Zenon DEF h
  <2> QED BY <1>5, <2>1
<1> HIDE DEF Y
<1>8. Has(job, pc + 1, time, Y, kept) BY <1>3, <1>7, AfterFft DEF FftInv, n
<1>9. freq' = Y /\ level' = Idle /\ pc' = pc + 1 /\ UNCHANGED <<job, table, time, kept>>
  BY DEF EndFft, Y
<1>10. Halfway' BY <1>9 DEF Halfway
<1> QED BY <1>8, <1>9, <1>10 DEF FftInv

LEMMA EndIfftStep == ASSUME FftInv, EndIfft PROVE FftInv'
<1> DEFINE n == Len(job.first)  h == n \div 2  st == Config.substate  y == Flattened(buf)
<1>1. Op = "ifft" /\ level = 0 /\ level # Idle BY DEF EndIfft, Idle
<1>2. /\ Planned(st) /\ st.nfft = h /\ h \in Nat \ {0} /\ Terms(Entered, st.nfft)
      /\ Config = kiss_fftr_alloc(n, TRUE) /\ Sense(st) = 1 /\ freq \in Values(n) /\ Under
  BY <1>1, Transforms, Zenon DEF Transforming
<1>3. n \in Lengths /\ Len(time) = n
      /\ pc \in 1 .. Len(Program(job.kind)) /\ Program(job.kind)[pc] = "ifft"
  BY <1>1, <1>2 DEF Under
<1>4. Staged(st, Pre(Config, freq), 0, buf) /\ Entered = Pre(Config, freq)
  BY <1>1 DEF FftInv, Halfway, Entered
<1> HIDE DEF n, st, h, y
<1>5. Terms(buf, h)
  <2>1. 0 \in 0 .. Len(st.factors) BY <1>2 DEF Planned, Chain
  <2> QED BY <1>2, <1>4, <2>1, StagedTerms, Zenon
<1>6. y = [o \in 1 .. n |-> IF o % 2 = 1 THEN buf[o \div 2].r ELSE buf[o \div 2 - 1].i]
  BY <1>3 DEF Flattened, y
<1>7. y \in Values(n) /\ \A k \in 0 .. h - 1 : Pairs(y)[k] = buf[k]
  BY <1>3, <1>5, <1>6, FlattenedPairs DEF h
<1>8. ASSUME NEW k \in 0 .. h - 1 PROVE Pairs(y)[k] = Spectrum(Pre(Config, freq), h, -(1 * k))
  <2>1. k \in 0 .. st.nfft - 1 BY <1>2
  <2>2. buf[k] = Spectrum(Pre(Config, freq), st.nfft, -(Sense(st) * k))
    BY <1>2, <1>4, <2>1, StagedLast, Zenon
  <2> QED BY <1>2, <1>7, <2>2, Zenon
<1>9. Spectral(freq, y, n) BY <1>2, <1>3, <1>7, <1>8, BackTrue, Zenon DEF h
<1>10. Has(job, pc + 1, y, freq, kept) BY <1>3, <1>7, <1>9, AfterIfft, Zenon DEF FftInv, n
<1>11. time' = y /\ level' = Idle /\ pc' = pc + 1 /\ UNCHANGED <<job, table, freq, kept>>
  BY DEF EndIfft, y
<1>12. Halfway' BY <1>11 DEF Halfway
<1> QED BY <1>10, <1>11, <1>12 DEF FftInv

\* The steps between them.
LEMMA OneCall ==
  ASSUME FftInv, Op \notin {"none", "fft", "ifft"}, Step, Has(job, pc + 1, time', freq', kept')
  PROVE  FftInv'
<1>1. level = Idle BY Between
<1>2. level' = Idle /\ pc' = pc + 1 /\ UNCHANGED <<job, table>> BY <1>1 DEF Step
<1>3. Halfway' BY <1>2 DEF Halfway
<1> QED BY <1>2, <1>3 DEF FftInv

LEMMA CallStep ==
  ASSUME FftInv, Constrain \/ Keep \/ Load \/ Accumulate \/ Correlate
  PROVE  FftInv'
<1>1. Op \in {"constrain", "keep", "load", "accum", "conj"} /\ Step
  BY DEF Constrain, Keep, Load, Accumulate, Correlate
<1>2. Under
  <2>1. Op # "none" BY <1>1
  <2> QED BY <2>1, Calling
<1>3. job \in Jobs /\ Has(job, pc, time, freq, kept)
      /\ pc \in 1 .. Len(Program(job.kind)) /\ Program(job.kind)[pc] = Op
  BY <1>2 DEF FftInv, Under
<1>4. Has(job, pc + 1, time', freq', kept')
  <2>1. CASE Constrain
    <3>1. Op = "constrain" /\ time' = FirstHalf(time) /\ UNCHANGED <<freq, kept>>
      BY <2>1 DEF Constrain
    <3> QED BY <1>3, <3>1, AfterConstrain
  <2>2. CASE Keep
    <3>1. Op = "keep" /\ kept' = freq /\ UNCHANGED <<time, freq>> BY <2>2 DEF Keep
    <3> QED BY <1>3, <3>1, AfterKeep
  <2>3. CASE Load
    <3>1. Op = "load" /\ time' = job.second /\ UNCHANGED <<freq, kept>> BY <2>3 DEF Load
    <3> QED BY <1>3, <3>1, AfterLoad
  <2>4. CASE Accumulate
    <3>1. Op = "accum" /\ freq' = spectral_mul(freq, kept) /\ UNCHANGED <<time, kept>>
      BY <2>4 DEF Accumulate
    <3> QED BY <1>3, <3>1, AfterAccumulate
  <2>5. CASE Correlate
    <3>1. Op = "conj" /\ freq' = weighted_spectral_mul_conj(freq, kept) /\
        UNCHANGED <<time, kept>>
      BY <2>5 DEF Correlate
    <3> QED BY <1>3, <3>1, AfterCorrelate
  <2> QED BY <2>1, <2>2, <2>3, <2>4, <2>5
<1> QED BY <1>1, <1>4, OneCall

LEMMA FftStep == ASSUME FftInv, FftNext PROVE FftInv'
<1>1. CASE Create BY <1>1, CreateStep
<1>2. CASE StartFft BY <1>2, StartFftStep
<1>3. CASE StartIfft BY <1>3, StartIfftStep
<1>4. CASE KfWork BY <1>4, WorkStep
<1>5. CASE EndFft BY <1>5, EndFftStep
<1>6. CASE EndIfft BY <1>6, EndIfftStep
<1>7. CASE Constrain \/ Keep \/ Load \/ Accumulate \/ Correlate BY <1>7, CallStep
<1> QED BY <1>1, <1>2, <1>3, <1>4, <1>5, <1>6, <1>7 DEF FftNext

\* The beginning of a job.
LEMMA FftStart == ASSUME FftInit PROVE FftInv
<1>1. job \in Jobs /\ pc = 1 /\ time = job.first /\ table = None /\ level = Idle
  BY DEF FftInit
<1> DEFINE n == Len(job.first)
<1>2. job.kind \in Kinds /\ time \in Values(n) BY <1>1, JobLength, Zenon
<1>3. 1 \in 1 .. Len(Program(job.kind)) + 1
  <2>1. Len(Program(job.kind)) \in {2, 6, 9} BY <1>2, Places DEF Kinds
  <2> QED BY <2>1
<1>4. RoundHas(job.first, n, 1, time, freq) BY <1>1 DEF RoundHas
<1>5. FilterHas(job.first, job.second, n, 1, time, freq, kept) BY <1>1 DEF FilterHas
<1>6. GradientHas(job.first, job.second, n, 1, time, freq, kept) BY <1>1 DEF GradientHas
<1> HIDE DEF n
<1>7. Has(job, pc, time, freq, kept) BY <1>1, <1>2, <1>3, <1>4, <1>5, <1>6 DEF Has, n
<1>8. Halfway BY <1>1 DEF Halfway
<1> QED BY <1>1, <1>7, <1>8 DEF FftInv

LEMMA FftSame == ASSUME FftInv, UNCHANGED fft_vars PROVE FftInv'
<1>1. UNCHANGED <<job, pc, table, time, freq, kept, buf, level>> BY DEF fft_vars
<1>2. Op' = Op /\ Config' = Config /\ Entered' = Entered BY <1>1, SameCall
<1>3. Halfway' BY <1>1, <1>2 DEF FftInv, Halfway
<1> QED BY <1>1, <1>3 DEF FftInv

LEMMA EngineStep == ASSUME EngineInv, [EngineNext]_<<vars, fft_vars>> PROVE EngineInv'
<1>1. CASE UNCHANGED fft_vars
  <2>1. CASE job = NoJob /\ pc = 1 BY <1>1, <2>1 DEF EngineInv, fft_vars
  <2>2. CASE FftInv BY <1>1, <2>2, FftSame DEF EngineInv
  <2> QED BY <2>1, <2>2 DEF EngineInv
<1>2. CASE job # NoJob /\ FftNext BY <1>2, FftStep DEF EngineInv
<1> QED BY <1>1, <1>2 DEF EngineNext

\* EngineInv is inductive: between calls, the buffers hold what the next call of
\* the job needs; in the middle of one, buf is the transform of its input as far
\* as the stages have come.
THEOREM EngineInvariant == EngineSpec => []EngineInv
<1>1. EngineInit => EngineInv BY FftStart DEF EngineInit, EngineInv
<1>2. EngineInv /\ [EngineNext]_<<vars, fft_vars>> => EngineInv' BY EngineStep
<1> QED BY <1>1, <1>2, PTL DEF EngineSpec

\* What the properties say of the buffers when a call has returned.
LEMMA TransformTold == ASSUME EngineInv PROVE TransformTrue
<1> SUFFICES ASSUME pc > 1, level = Idle, Program(job.kind)[pc - 1] \in {"fft", "ifft"}
             PROVE  \A k \in 0 .. Len(time) \div 2 :
                       Scaled(Unpacked(freq, k), Len(time)) = Dft(time, k)
  BY DEF TransformTrue
<1> DEFINE n == Len(job.first)
<1>1. FftInv BY DEF EngineInv
<1>2. job.kind \in Kinds /\ n \in Lengths BY <1>1, JobLength, Zenon DEF FftInv
<1>3. Has(job, pc, time, freq, kept) BY <1>1 DEF FftInv
<1>4. time \in Values(n) /\ pc \in 1 .. Len(Program(job.kind)) + 1 BY <1>3 DEF Has
<1>5. Len(time) = n BY <1>2, <1>4, SignalTerms
<1> DEFINE c == pc - 1
<1>6. Len(Program(job.kind)) \in {2, 6, 9} BY <1>2, Places DEF Kinds
<1>7. c \in 1 .. Len(Program(job.kind)) /\ pc = c + 1 BY <1>4, <1>6
<1>8. Program(job.kind)[c] \in {"fft", "ifft"} OBVIOUS
<1> HIDE DEF n, c
<1>9. Spectral(freq, time, n)
  <2>1. CASE job.kind = "round"
    <3>1. c \in {1, 2} BY <1>2, <1>7, <1>8, <2>1, Places
    <3>2. RoundHas(job.first, n, pc, time, freq) BY <1>3, <2>1 DEF Has, n
    <3> QED BY <1>7, <3>1, <3>2 DEF RoundHas
  <2>2. CASE job.kind = "filter"
    <3>1. c \in {1, 2, 4, 7, 9} BY <1>2, <1>7, <1>8, <2>2, Places
    <3>2. FilterHas(job.first, job.second, n, pc, time, freq, kept) BY <1>3, <2>2 DEF Has, n
    <3>3. pc \in {2, 3, 5, 8, 10} BY <1>7, <3>1
    <3> QED BY <3>2, <3>3 DEF FilterHas
  <2>3. CASE job.kind = "gradient"
    <3>1. c \in {1, 4, 6} BY <1>2, <1>7, <1>8, <2>3, Places
    <3>2. GradientHas(job.first, job.second, n, pc, time, freq, kept) BY <1>3, <2>3 DEF Has, n
    <3>3. pc \in {2, 5, 7} BY <1>7, <3>1
    <3> QED BY <3>2, <3>3 DEF GradientHas
  <2> QED BY <1>2, <2>1, <2>2, <2>3 DEF Kinds
<1> QED BY <1>5, <1>9 DEF Spectral

\* A job that is done has made every call.
LEMMA AllCalled ==
  ASSUME EngineInv, job.kind \in Kinds, Done
  PROVE  /\ FftInv /\ job \in Jobs /\ Has(job, pc, time, freq, kept)
         /\ Len(time) = Len(job.first) /\ Len(time) \in Lengths
         /\ time \in Values(Len(time))
         /\ job.first \in Values(Len(time)) /\ job.second \in Values(Len(time))
         /\ pc = Len(Program(job.kind)) + 1
<1>1. job # NoJob
  <2>1. NoJob.kind = "none" /\ "none" \notin Kinds BY DEF NoJob, Kinds
  <2> QED BY <2>1
<1>2. FftInv BY <1>1 DEF EngineInv
<1>3. job \in Jobs /\ Has(job, pc, time, freq, kept) BY <1>2 DEF FftInv
<1>4. job.kind \in Kinds BY <1>3, JobLength
<1>5. time \in Values(Len(job.first)) /\ pc \in 1 .. Len(Program(job.kind)) + 1
  BY <1>3 DEF Has
<1>6. Len(job.first) \in Lengths BY <1>3, JobLength, Zenon
<1>7. Len(time) = Len(job.first) BY <1>5, <1>6, SignalTerms
<1>8. Len(Program(job.kind)) \in {2, 6, 9} BY <1>4, Places DEF Kinds
<1>9. pc > Len(Program(job.kind))
  <2> SUFFICES ASSUME ~(pc > Len(Program(job.kind))) PROVE FALSE OBVIOUS
  <2>1. pc \in 1 .. Len(Program(job.kind)) BY <1>5, <1>8
  <2>2. Op = Program(job.kind)[pc] BY DEF Done, Op
  <2>3. Op # "none"
    <3>1. Program(job.kind)[pc] \in {"fft", "ifft", "constrain", "keep", "load", "accum", "conj"}
      BY <1>4, <2>1, Places
    <3> QED BY <2>2, <3>1
  <2> QED BY <2>3 DEF Done
<1>10. pc = Len(Program(job.kind)) + 1 BY <1>5, <1>8, <1>9
<1>11. job.first \in Values(Len(job.first)) /\ job.second \in Values(Len(job.first))
  BY <1>3, JobLength, Zenon
<1> QED BY <1>2, <1>3, <1>5, <1>6, <1>7, <1>10, <1>11

\* What goes through a transform and back is as it was.
RoundTrips == (job.kind = "round" /\ Done) => time = job.first

LEMMA FilterTold == ASSUME EngineInv PROVE FilterConvolves
<1> DEFINE n == Len(time)  h == n \div 2
           term(o) == [d \in 0 .. h - 1 |-> Complex(job.first[d + 1] * job.second[o - d], 0)]
<1> SUFFICES ASSUME job.kind = "filter", Done
             PROVE  \A o \in h + 1 .. n : Complex(time[o] * n, 0) = CSum(term(o), h)
  BY DEF FilterConvolves
<1>1. /\ job \in Jobs /\ Has(job, pc, time, freq, kept) /\ n = Len(job.first)
      /\ n \in Lengths /\ time \in Values(n)
      /\ job.first \in Values(n) /\ job.second \in Values(n)
      /\ pc = Len(Program(job.kind)) + 1
  <2>1. job.kind \in Kinds BY DEF Kinds
  <2> QED BY <2>1, AllCalled
<1>2. pc = 10
  <2>1. job.kind = "filter" /\ job.kind \in Kinds BY DEF Kinds
  <2>2. Len(Program(job.kind)) = 9 BY <2>1, Places
  <2>3. pc = Len(Program(job.kind)) + 1 BY <1>1
  <2> HIDE DEF n, h
  <2> QED BY <2>2, <2>3
<1>3. FilterHas(job.first, job.second, n, pc, time, freq, kept) BY <1>1 DEF Has
<1>4. Convolved(freq, job.second, FirstHalf(job.first), n) /\ Spectral(freq, time, n)
  BY <1>2, <1>3 DEF FilterHas
<1> HIDE DEF n
<1>5. ASSUME NEW o \in h + 1 .. n PROVE Complex(time[o] * n, 0) = CSum(term(o), h)
  <2> DEFINE w == job.first  b == job.second
  <2>1. /\ n \in Lengths /\ time \in Values(n) /\ w \in Values(n) /\ b \in Values(n)
        /\ Convolved(freq, b, FirstHalf(w), n) /\ Spectral(freq, time, n)
    BY <1>1, <1>4
  <2>2. o \in (n \div 2) + 1 .. n OBVIOUS
  <2>3. term(o) = [d \in 0 .. (n \div 2) - 1 |-> Complex(w[d + 1] * b[o - d], 0)] OBVIOUS
  <2> HIDE DEF w, b, term
  <2>4. Complex(time[o] * n, 0)
          = CSum([d \in 0 .. (n \div 2) - 1 |-> Complex(w[d + 1] * b[o - d], 0)], n \div 2)
    BY <2>1, <2>2, FilterSum
  <2> QED BY <2>3, <2>4
<1> QED BY <1>5

LEMMA GradientTold == ASSUME EngineInv PROVE GradientCorrelates
<1> DEFINE n == Len(time)  h == n \div 2
           term(d) == [o \in 0 .. h - 1 |->
                         Complex(job.first[h + 1 + o] * job.second[h + 1 + o - d], 0)]
<1> SUFFICES ASSUME job.kind = "gradient", Done
             PROVE  \A d \in 0 .. h - 1 : Complex(time[d + 1] * n, 0) = CSum(term(d), h)
  BY DEF GradientCorrelates
<1>1. /\ job \in Jobs /\ Has(job, pc, time, freq, kept) /\ n = Len(job.first)
      /\ n \in Lengths /\ time \in Values(n)
      /\ job.first \in Values(n) /\ job.second \in Values(n)
      /\ pc = Len(Program(job.kind)) + 1
  <2>1. job.kind \in Kinds BY DEF Kinds
  <2> QED BY <2>1, AllCalled
<1>2. pc = 7
  <2>1. job.kind = "gradient" /\ job.kind \in Kinds BY DEF Kinds
  <2>2. Len(Program(job.kind)) = 6 BY <2>1, Places
  <2>3. pc = Len(Program(job.kind)) + 1 BY <1>1
  <2> HIDE DEF n, h
  <2> QED BY <2>2, <2>3
<1>3. GradientHas(job.first, job.second, n, pc, time, freq, kept) BY <1>1 DEF Has
<1>4. Correlated(freq, job.second, job.first, n) /\ Spectral(freq, time, n)
  BY <1>2, <1>3 DEF GradientHas
<1>5. \A o \in 1 .. n \div 2 : job.first[o] = 0 BY <1>1, JobLength, Zenon
<1> HIDE DEF n
<1>6. ASSUME NEW d \in 0 .. h - 1 PROVE Complex(time[d + 1] * n, 0) = CSum(term(d), h)
  <2> DEFINE a == job.first  b == job.second
  <2>1. /\ n \in Lengths /\ time \in Values(n) /\ a \in Values(n) /\ b \in Values(n)
        /\ Correlated(freq, b, a, n) /\ Spectral(freq, time, n)
        /\ \A o \in 1 .. n \div 2 : a[o] = 0
    BY <1>1, <1>4, <1>5, Zenon
  <2>2. d \in 0 .. (n \div 2) - 1 OBVIOUS
  <2>3. term(d) = [o \in 0 .. (n \div 2) - 1 |->
                     Complex(a[(n \div 2) + 1 + o] * b[(n \div 2) + 1 + o - d], 0)]
    OBVIOUS
  <2> HIDE DEF a, b, term
  <2>4. Complex(time[d + 1] * n, 0)
          = CSum([o \in 0 .. (n \div 2) - 1 |->
                    Complex(a[(n \div 2) + 1 + o] * b[(n \div 2) + 1 + o - d], 0)], n \div 2)
    BY <2>1, <2>2, GradientSum
  <2> QED BY <2>3, <2>4
<1> QED BY <1>6

LEMMA RoundTold == ASSUME EngineInv PROVE RoundTrips
<1> SUFFICES ASSUME job.kind = "round", Done PROVE time = job.first BY DEF RoundTrips
<1>1. Has(job, pc, time, freq, kept) /\ pc = Len(Program(job.kind)) + 1
  <2>1. job.kind \in Kinds BY DEF Kinds
  <2> QED BY <2>1, AllCalled
<1>2. pc = 3
  <2>1. job.kind = "round" /\ job.kind \in Kinds BY DEF Kinds
  <2>2. Len(Program(job.kind)) = 2 BY <2>1, Places
  <2>3. pc = Len(Program(job.kind)) + 1 BY <1>1
  <2> QED BY <2>2, <2>3
<1>3. RoundHas(job.first, Len(job.first), pc, time, freq) BY <1>1 DEF Has
<1> QED BY <1>2, <1>3 DEF RoundHas

\* Every spx_fft and spx_ifft agrees with the definition of the transform, for
\* every even length that has its part of a turn and every signal
\* (fftwrap.c:336-352).
THEOREM EngineTransforms == EngineSpec => []TransformTrue
<1>1. EngineInv => TransformTrue BY TransformTold
<1> QED BY <1>1, EngineInvariant, PTL

\* The echo is the linear convolution of the far end with the weights of a block
\* (mdf.c:309-326 and 826-865).
THEOREM EngineConvolves == EngineSpec => []FilterConvolves
<1>1. EngineInv => FilterConvolves BY FilterTold
<1> QED BY <1>1, EngineInvariant, PTL

\* spx_ifft gives back exactly what spx_fft was given: the scale by N is applied
\* once, in the forward direction (fftwrap.c:336-352).
THEOREM EngineRoundTrips == EngineSpec => []RoundTrips
<1>1. EngineInv => RoundTrips BY RoundTold
<1> QED BY <1>1, EngineInvariant, PTL

\* The gradient is the correlation of the error with the far end (mdf.c:331-345
\* and 808-820).
THEOREM EngineCorrelates == EngineSpec => []GradientCorrelates
<1>1. EngineInv => GradientCorrelates BY GradientTold
<1> QED BY <1>1, EngineInvariant, PTL
=============================================================================
