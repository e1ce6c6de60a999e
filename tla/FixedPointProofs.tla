--------------------------- MODULE FixedPointProofs ---------------------------
(***************************************************************************)
(* What coefMult.vhd and the sum of two complementary products give, for   *)
(* every full scale: the products of a signal never leave its bits, and    *)
(* neither does the sum, although its worst case is exactly full scale;    *)
(* and no sum of OutputMix wraps, for any weights and any setting of the   *)
(* mix: each signal is the exact sum, rounded down where bits are cut off. *)
(***************************************************************************)
EXTENDS OutputMix, TLAPS

(* Truncation towards minus infinity, as an inequality. *)
LEMMA Quotient ==
  ASSUME NEW n \in Int, NEW m \in Nat, m > 0
  PROVE  /\ n \div m \in Int
         /\ m * (n \div m) <= n
         /\ n < m * (n \div m) + m
  BY Z3

(* The inequality determines the quotient. *)
LEMMA QuotientUnique ==
  ASSUME NEW n \in Int, NEW m \in Nat, m > 0, NEW q \in Int,
         m * q <= n, n < m * q + m
  PROVE  n \div m = q
  BY Z3

(* A quotient is not above a bound of which the multiple is not below. *)
LEMMA QuotientAtMost ==
  ASSUME NEW n \in Int, NEW m \in Nat, m > 0, NEW q \in Int, n < m * q + m
  PROVE  n \div m <= q
  <1> DEFINE r == n \div m
  <1>1. r \in Int /\ m * r <= n
    BY Quotient
  <1> HIDE DEF r
  <1>2. SUFFICES ASSUME r >= q + 1 PROVE FALSE
    BY <1>1 DEF r
  <1>3. m * r >= m * (q + 1)
    BY <1>1, <1>2, Z3
  <1>4. m * (q + 1) = m * q + m
    BY Z3
  <1> QED
    BY <1>1, <1>3, <1>4, Z3

(* A quotient is not below a bound of which the multiple is not above. *)
LEMMA QuotientAtLeast ==
  ASSUME NEW n \in Int, NEW m \in Nat, m > 0, NEW q \in Int, m * q <= n
  PROVE  n \div m >= q
  <1> DEFINE r == n \div m
  <1>1. r \in Int /\ n < m * r + m
    BY Quotient
  <1> HIDE DEF r
  <1>2. SUFFICES ASSUME r <= q - 1 PROVE FALSE
    BY <1>1 DEF r
  <1>3. m * r <= m * (q - 1)
    BY <1>1, <1>2, Z3
  <1>4. m * (q - 1) = m * q - m
    BY Z3
  <1> QED
    BY <1>1, <1>3, <1>4, Z3

(* A product with a natural number keeps the order. *)
LEMMA ProductMonotonic ==
  ASSUME NEW a \in Int, NEW b \in Int, NEW k \in Nat, a <= b
  PROVE  a * k \in Int /\ b * k \in Int /\ a * k <= b * k
  BY Z3

-----------------------------------------------------------------------------
(* The division of numeric_std moves an even bound to its half. *)
LEMMA HalfBounds ==
  ASSUME NEW v \in Int
  PROVE  /\ Half(v) \in Int
         /\ v >= 0 => 2 * Half(v) <= v /\ Half(v) >= 0
         /\ v <= 0 => 2 * Half(v) >= v /\ Half(v) <= 0
  BY Z3 DEF Half

(* coefMult.vhd: of a product, only its low bits are lost. *)
LEMMA ProductFits ==
  ASSUME NEW h \in Nat, h > 0, NEW a \in Signed(h), NEW c \in Coef(h)
  PROVE  /\ coefMult(a, c, h) = (a * c) \div (2 * h)
         /\ coefMult(a, c, h) \in Signed(h)
  <1>1. a \in Int /\ c \in Nat /\ c < 2 * h /\ -h <= a /\ a <= h - 1
    BY DEF Signed, Coef
  <1>2. a * c \in Int /\ 2 * h \in Nat /\ 2 * h > 0
    BY <1>1, Z3
  <1>3. (-h) * c <= a * c /\ a * c <= (h - 1) * c
    BY <1>1, ProductMonotonic, Z3
  <1>4. (2 * h) * (-h) <= (-h) * c
    BY <1>1, Z3
  <1>5. (h - 1) * c <= (2 * h) * (h - 1)
    BY <1>1, Z3
  <1>6. (2 * h) * (-h) <= a * c /\ a * c < (2 * h) * (h - 1) + 2 * h
    <2>1. (2 * h) * (-h) \in Int /\ (-h) * c \in Int /\ (h - 1) * c \in Int
          /\ (2 * h) * (h - 1) \in Int
      BY <1>1, Z3
    <2> QED
      BY <1>2, <1>3, <1>4, <1>5, <2>1, Z3
  <1>7. (a * c) \div (2 * h) >= -h
    BY <1>2, <1>6, QuotientAtLeast, -h \in Int
  <1>8. (a * c) \div (2 * h) <= h - 1
    BY <1>2, <1>6, QuotientAtMost, h - 1 \in Int
  <1>9. (a * c) \div (2 * h) \in Signed(h)
    BY <1>2, <1>7, <1>8, Quotient DEF Signed
  <1> QED
    BY <1>9 DEF coefMult, Resize

(* The least of the products with a coefficient is that of -h: half of the *)
(* coefficient, rounded up.                                                *)
LEMMA LeastProduct ==
  ASSUME NEW h \in Nat, h > 0, NEW a \in Signed(h), NEW c \in Coef(h)
  PROVE  2 * coefMult(a, c, h) >= -c - (c % 2)
  <1>1. a \in Int /\ c \in Nat /\ -h <= a
    BY DEF Signed, Coef
  <1>2. PICK e \in Int : 2 * e = c + (c % 2) /\ c % 2 \in {0, 1}
    <2>1. /\ (c + 1) \div 2 \in Int
          /\ 2 * ((c + 1) \div 2) = c + (c % 2)
          /\ c % 2 \in {0, 1}
      BY <1>1, Z3
    <2> QED
      BY <2>1
  <1>3. (-h) * c <= a * c /\ a * c \in Int
    BY <1>1, ProductMonotonic, -h \in Int
  <1>4. (2 * h) * (-e) <= (-h) * c
    <2>1. (2 * h) * (-e) = (-h) * (2 * e)
      BY <1>2, Z3
    <2>2. (-h) * (2 * e) <= (-h) * c
      BY <1>1, <1>2, Z3
    <2> QED
      BY <2>1, <2>2
  <1>5. (2 * h) * (-e) <= a * c
    <2>1. (2 * h) * (-e) \in Int /\ (-h) * c \in Int
      BY <1>1, <1>2, Z3
    <2> QED BY <1>3, <1>4, <2>1, Z3
  <1>6. (a * c) \div (2 * h) >= -e
    BY <1>2, <1>3, <1>5, QuotientAtLeast, -e \in Int, 2 * h \in Nat, 2 * h > 0
  <1>7. (a * c) \div (2 * h) \in Int
    BY <1>3, Quotient, 2 * h \in Nat, 2 * h > 0
  <1>8. coefMult(a, c, h) = (a * c) \div (2 * h)
    BY ProductFits
  <1> DEFINE p == coefMult(a, c, h)
  <1>9. p \in Int /\ p >= -e
    BY <1>6, <1>7, <1>8
  <1> HIDE DEF p
  <1>10. 2 * p >= -c - (c % 2)
    BY <1>1, <1>2, <1>9, Z3
  <1> QED
    BY <1>10 DEF p

(* The greatest of the products with a coefficient, times the scale. *)
LEMMA GreatestProduct ==
  ASSUME NEW h \in Nat, h > 0, NEW a \in Signed(h), NEW c \in Coef(h)
  PROVE  (2 * h) * coefMult(a, c, h) <= (h - 1) * c
  <1>1. a \in Int /\ c \in Nat /\ a <= h - 1
    BY DEF Signed, Coef
  <1>2. a * c <= (h - 1) * c /\ a * c \in Int /\ (h - 1) * c \in Int
    BY <1>1, ProductMonotonic, h - 1 \in Int
  <1>3. (2 * h) * ((a * c) \div (2 * h)) <= a * c /\ (a * c) \div (2 * h) \in Int
    BY <1>2, Quotient, 2 * h \in Nat, 2 * h > 0
  <1>4. (2 * h) * ((a * c) \div (2 * h)) \in Int
    BY <1>3, Z3
  <1> QED
    BY <1>2, <1>3, <1>4, ProductFits

(* LPF.vhd:33 and reverbFPGA.vhd:374 - the sum of two signals weighted by  *)
(* a coefficient and its complement fits the bits of the signals.  The     *)
(* lower bound is attained: exactly one of the two coefficients is odd, so *)
(* the two truncations together lose half a unit at full scale, no more.   *)
THEOREM BlendFits ==
  ASSUME NEW h \in Nat, h > 0,
         NEW a \in Signed(h), NEW b \in Signed(h), NEW c \in Coef(h)
  PROVE  BlendSum(a, b, c, h) \in Signed(h)
  <1> DEFINE d == Complement(c, h)
             p == coefMult(a, d, h)
             q == coefMult(b, c, h)
  <1>1. c \in Nat /\ d \in Coef(h) /\ d \in Nat /\ c + d = 2 * h - 1
    BY DEF Coef, Complement
  <1>2. p \in Int /\ q \in Int
    BY <1>1, ProductFits DEF Signed
  <1>3. 2 * p >= -d - (d % 2) /\ 2 * q >= -c - (c % 2)
    BY <1>1, LeastProduct
  <1>4. (2 * h) * p <= (h - 1) * d /\ (2 * h) * q <= (h - 1) * c
    BY <1>1, GreatestProduct
  <1>5. BlendSum(a, b, c, h) = p + q
    BY DEF BlendSum
  <1> HIDE DEF d, p, q
  <1>6. (c % 2) + (d % 2) = 1
    BY <1>1, Z3
  <1>7. p + q >= -h
    <2>1. c % 2 \in Int /\ d % 2 \in Int
      BY <1>1, Z3
    <2> QED BY <1>1, <1>2, <1>3, <1>6, <2>1, Z3
  <1>8. p + q <= h - 1
    <2>1. SUFFICES ASSUME p + q >= h PROVE FALSE
      BY <1>2, Z3
    <2>2. (2 * h) * (p + q) = (2 * h) * p + (2 * h) * q
      BY <1>2, Z3
    <2>3. (h - 1) * d + (h - 1) * c = (h - 1) * (2 * h - 1)
      BY <1>1, Z3
    <2>4. (2 * h) * (p + q) <= (h - 1) * (2 * h - 1)
      BY <1>1, <1>2, <1>4, <2>2, <2>3, Z3
    <2>5. (2 * h) * h <= (2 * h) * (p + q)
      BY <1>2, <2>1, Z3
    <2>6. (h - 1) * (2 * h - 1) < (2 * h) * h
      BY Z3
    <2> QED
      BY <1>2, <2>4, <2>5, <2>6, Z3
  <1> QED
    BY <1>2, <1>5, <1>7, <1>8 DEF Signed

-----------------------------------------------------------------------------
(* Cutting the lowest bits of a sum of m samples gives a sample again.     *)
LEMMA MeanFits ==
  ASSUME NEW h \in Nat, h > 0, NEW m \in Nat, m > 0, NEW v \in Signed(m * h)
  PROVE  v \div m \in Signed(h)
  <1>1. v \in Int /\ m * h \in Nat /\ -(m * h) <= v /\ v <= m * h - 1
    BY Z3 DEF Signed
  <1>2. v \div m \in Int
    BY <1>1, Quotient
  <1>3. m * (-h) <= v
    BY <1>1, Z3
  <1>4. v \div m >= -h
    BY <1>1, <1>3, QuotientAtLeast
  <1>5. v < m * (h - 1) + m
    BY <1>1, Z3
  <1>6. v \div m <= h - 1
    BY <1>1, <1>5, QuotientAtMost
  <1> QED
    BY <1>2, <1>4, <1>6 DEF Signed

(* earlyReverb.vhd:50 and lateReverb.vhd:36 - the three extra bits are     *)
(* enough for eight operands at full scale, and without them the sum is a  *)
(* sample.                                                                 *)
THEOREM EightNeverWrap ==
  ASSUME NEW h \in Nat, h > 0, NEW f \in [Eight -> Signed(h)]
  PROVE  /\ EightAdder(f, h) = EightSum(f)
         /\ EightMean(f, h) \in Signed(h)
  <1>1. \A i \in Eight : f[i] \in Int /\ -h <= f[i] /\ f[i] <= h - 1
    BY DEF Signed
  <1>2. EightSum(f) \in Signed(8 * h)
    BY <1>1 DEF EightSum, Eight, Signed
  <1>3. EightAdder(f, h) = EightSum(f)
    BY <1>2 DEF EightAdder, Wrap
  <1> QED
    BY <1>2, <1>3, MeanFits DEF EightMean

(* earlyReverb.vhd:91-110 - whatever weights the echoes have, each product *)
(* is a sample, their sum keeps every bit, and the early reverb is one.    *)
THEOREM EarlyNeverWraps ==
  ASSUME NEW h \in Nat, h > 0,
         NEW delayedInputs \in [Eight -> Signed(h)],
         NEW weights \in [Eight -> Coef(h)]
  PROVE  LET products == inputAdder(delayedInputs, weights, h)
         IN  /\ products \in [Eight -> Signed(h)]
             /\ EightAdder(products, h) = EightSum(products)
             /\ dataOUT_earlyReverb(delayedInputs, weights, h) \in Signed(h)
  <1>1. inputAdder(delayedInputs, weights, h) \in [Eight -> Signed(h)]
    BY ProductFits DEF inputAdder
  <1> QED
    BY <1>1, EightNeverWrap DEF dataOUT_earlyReverb

(* reverbFPGA.vhd:349-378 - the one extra bit is enough for the early and  *)
(* the late reverb, and the mix, which has none, needs none: the output is *)
(* the exact sum of the weighted dry and wet samples, at full scale too.   *)
THEOREM OutputNeverWraps ==
  ASSUME NEW h \in Nat, h > 0, NEW dataIN \in Signed(h),
         NEW early \in Signed(h), NEW late \in Signed(h),
         NEW mixValue \in Coef(h)
  PROVE  /\ sum_EarlyLate(early, late, h) = early + late
         /\ Wet(early, late, h) \in Signed(h)
         /\ dataOUT(dataIN, early, late, mixValue, h)
              = BlendSum(dataIN, Wet(early, late, h), mixValue, h)
         /\ dataOUT(dataIN, early, late, mixValue, h) \in Signed(h)
  <1>1. early + late \in Signed(2 * h)
    BY DEF Signed
  <1>2. sum_EarlyLate(early, late, h) = early + late
    BY <1>1 DEF sum_EarlyLate, Wrap
  <1>3. Wet(early, late, h) \in Signed(h)
    BY <1>1, <1>2, MeanFits DEF Wet
  <1>4. BlendSum(dataIN, Wet(early, late, h), mixValue, h) \in Signed(h)
    BY <1>3, BlendFits
  <1>5. dataOUT(dataIN, early, late, mixValue, h)
          = BlendSum(dataIN, Wet(early, late, h), mixValue, h)
    BY <1>4 DEF dataOUT, Wrap
  <1> QED
    BY <1>2, <1>3, <1>4, <1>5

=============================================================================
