--------------------------- MODULE CombFilterProofs ---------------------------
(***************************************************************************)
(* The comb filter for every full scale, length, input and setting.  That  *)
(* the sum of the low-pass fits its bits rests on BlendFits alone, and     *)
(* that of the loop on the room that the samples leave to the decay.       *)
(***************************************************************************)
EXTENDS CombFilter, CombLines, FixedPointProofs

USE FullScaleAssumption, LoopAssumption, CellsAssumption

(* The full scale of the loop, and silence in it. *)
LEMMA LoopScale == H \in Nat /\ H > 0 /\ H = 2 * X /\ 0 \in Signed(H)
  BY DEF H, Signed

(* The cells and the clocks are counted from 0. *)
LEMMA Counted ==
  /\ 0 \in Place /\ 0 \in 0 .. MaxClocks
  /\ \A i \in Place : i # 0 => i - 1 \in Place
  BY DEF Place

(* What is wrapped is within the scale, whatever it was. *)
LEMMA WrapFits ==
  ASSUME NEW v \in Int
  PROVE  Wrap(v, H) \in Signed(H)
  BY LoopScale, Z3 DEF Wrap, Signed

(* LPF.vhd:33 - with its register and its input in range the filter fits. *)
LEMMA FilterInRange ==
  ASSUME TypeOK, NEW damping \in Damping
  PROVE  FilterSum(damping) \in Signed(H) /\ outLPFilter(damping) \in Signed(H)
  <1>1. FilterSum(damping) \in Signed(H)
    BY LoopScale, BlendFits DEF TypeOK, FilterSum
  <1> QED
    BY <1>1 DEF outLPFilter, Wrap

-----------------------------------------------------------------------------
(* Silence is in range. *)
LEMMA InitTypeOK == Init => TypeOK
  BY LoopScale, Counted DEF Init, TypeOK

(* Every step leaves every signal in the range of its declaration. *)
LEMMA NextTypeOK == TypeOK /\ [Next]_vars => TypeOK'
  <1> SUFFICES ASSUME TypeOK, [Next]_vars PROVE TypeOK'
    OBVIOUS
  <1>1. ASSUME NEW damping \in Damping, FilterClock(damping) PROVE TypeOK'
    BY <1>1, FilterInRange DEF FilterClock, TypeOK
  <1>2. CASE Renew
    BY <1>2 DEF Renew, TypeOK, Place
  <1>3. ASSUME NEW dataIN \in Input, NEW damping \in Damping,
               NEW decay \in Decay, Store(dataIN, damping, decay)
        PROVE  TypeOK'
    <2>1. outputAdder(dataIN, damping, decay) \in Signed(H)
      <3>1. coefMult(outLPFilter(damping), decay, H) \in Int
        BY LoopScale, FilterInRange, ProductFits DEF Signed
      <3>2. LoopSum(dataIN, damping, decay) \in Int
        BY <3>1 DEF LoopSum, Signed
      <3> QED
        BY <3>2, WrapFits DEF outputAdder
    <2> QED
      BY <1>3, <2>1, Counted DEF Store, TypeOK
  <1>4. ASSUME NEW moved \in SUBSET (1 .. Cells - 1), Reset(moved)
        PROVE  TypeOK'
    <2>1. \A i \in moved : i \in Place /\ i - 1 \in Place
      BY DEF Place
    <2> QED
      BY <1>4, <2>1, LoopScale, Counted DEF Reset, TypeOK
  <1>5. CASE UNCHANGED vars
    BY <1>5 DEF vars, TypeOK
  <1> QED
    BY <1>1, <1>2, <1>3, <1>4, <1>5 DEF Next

(* LFCF.vhd:27-35 and LPF.vhd:23-28 - every signal keeps to its bits. *)
THEOREM TypeCorrect == Spec => []TypeOK
  BY InitTypeOK, NextTypeOK, PTL DEF Spec

-----------------------------------------------------------------------------
(* LPF.vhd:33 - the sum of the low-pass filter has no extra bit and needs  *)
(* none, at full scale and for every history of the damping.               *)
THEOREM FilterNeverWraps == Spec => []FilterFits
  <1>1. TypeOK => FilterFits
    BY FilterInRange DEF FilterFits
  <1> QED
    BY <1>1, TypeCorrect, PTL

(* LFCF.vhd:25 - with the room that Headroom asks for, one extra bit is    *)
(* enough for the loop.                                                    *)
THEOREM LoopNeverWraps == Spec => []LoopFits
  <1>1. TypeOK => LoopFits
    <2> SUFFICES ASSUME TypeOK, Headroom,
                        NEW dataIN \in Input, NEW damping \in Damping,
                        NEW decay \in Decay
                 PROVE  LoopSum(dataIN, damping, decay) \in Signed(H)
      BY DEF LoopFits
    <2> DEFINE p == coefMult(outLPFilter(damping), decay, H)
    <2>1. dataIN \in Int /\ decay \in Nat /\ decay \in Coef(H)
      BY LoopScale DEF Signed, Coef
    <2>2. /\ 2 * dataIN + decay <= 2 * H - 2
          /\ 2 * dataIN - decay >= -(2 * H)
      BY <2>1, LoopScale DEF Headroom
    <2>3. p \in Int
      BY <2>1, LoopScale, FilterInRange, ProductFits DEF Signed
    <2>4. 2 * p >= -decay - (decay % 2)
      BY <2>1, LoopScale, FilterInRange, LeastProduct
    <2>5. (2 * H) * p <= (H - 1) * decay
      BY <2>1, LoopScale, FilterInRange, GreatestProduct
    <2>6. LoopSum(dataIN, damping, decay) = dataIN + p
      BY DEF LoopSum
    <2> HIDE DEF p
    <2>7. dataIN + p >= -H
      BY <2>1, <2>2, <2>3, <2>4, LoopScale, Z3
    <2>8. 2 * p <= decay
      <3>1. SUFFICES ASSUME 2 * p >= decay + 1 PROVE FALSE
        BY <2>1, <2>3, Z3
      <3>2. H * (2 * p) >= H * (decay + 1)
        BY <2>1, <2>3, <3>1, LoopScale, Z3
      <3>3. H * (2 * p) = (2 * H) * p
        BY <2>3, LoopScale, Z3
      <3>4. H * (decay + 1) > (H - 1) * decay
        BY <2>1, LoopScale, Z3
      <3> QED
        BY <2>1, <2>3, <2>5, <3>2, <3>3, <3>4, LoopScale, Z3
    <2>9. dataIN + p <= H - 1
      BY <2>1, <2>2, <2>3, <2>8, LoopScale, Z3
    <2> QED
      BY <2>1, <2>3, <2>6, <2>7, <2>9, LoopScale DEF Signed
  <1> QED
    BY <1>1, TypeCorrect, PTL

-----------------------------------------------------------------------------
(* What truncation leaves of a product, as an inequality. *)
LEMMA ProductBounds ==
  ASSUME NEW h \in Nat, h > 0, NEW a \in Signed(h), NEW c \in Coef(h)
  PROVE  /\ coefMult(a, c, h) \in Int
         /\ (2 * h) * coefMult(a, c, h) <= a * c
         /\ a * c < (2 * h) * coefMult(a, c, h) + 2 * h
  <1>1. a \in Int /\ c \in Nat
    BY DEF Signed, Coef
  <1>2. a * c \in Int /\ 2 * h \in Nat /\ 2 * h > 0
    BY <1>1, Z3
  <1> QED
    BY <1>2, Quotient, ProductFits

(* A product is bounded by that of the bounds. *)
LEMMA ProductWithin ==
  ASSUME NEW a \in Int, NEW b \in Nat, a \in -b .. b, NEW c \in Nat
  PROVE  a * c \in Int /\ b * c \in Nat /\ a * c <= b * c /\ -(b * c) <= a * c
  <1>1. a * c <= b * c /\ a * c \in Int
    BY ProductMonotonic
  <1>2. (-b) * c <= a * c
    BY ProductMonotonic, -b \in Int
  <1>3. (-b) * c = -(b * c) /\ b * c \in Nat
    BY Z3
  <1> QED
    BY <1>1, <1>2, <1>3

(* LPF.vhd:33 - a step of the filter keeps its register within e of a      *)
(* bound on its input as soon as the gain of its loop leaves e that much.  *)
LEMMA BlendWithin ==
  ASSUME NEW h \in Nat, h > 0,
         NEW a \in Signed(h), NEW v \in Signed(h), NEW c \in Coef(h),
         NEW b \in Nat, NEW e \in Nat,
         a \in -b .. b, v \in -(b + e) .. (b + e),
         2 * h <= e * (2 * h - c)
  PROVE  BlendSum(a, v, c, h) \in -(b + e) .. (b + e)
  <1> DEFINE d == Complement(c, h)
             p == coefMult(a, d, h)
             q == coefMult(v, c, h)
             m == 2 * h
  <1>1. /\ c \in Nat /\ d \in Coef(h) /\ d \in Nat /\ m \in Nat /\ m > 0
        /\ d = m - 1 - c /\ c < m /\ a \in Int /\ v \in Int
    BY DEF Coef, Complement, Signed
  <1>2. p \in Int /\ m * p <= a * d /\ a * d < m * p + m
    BY <1>1, ProductBounds
  <1>3. q \in Int /\ m * q <= v * c /\ v * c < m * q + m
    BY <1>1, ProductBounds
  <1>4. a * d \in Int /\ a * d <= b * d /\ -(b * d) <= a * d /\ b * d \in Nat
    BY <1>1, ProductWithin
  <1>5. /\ v * c \in Int /\ v * c <= (b + e) * c /\ -((b + e) * c) <= v * c
        /\ (b + e) * c \in Nat
    BY <1>1, ProductWithin, b + e \in Nat
  <1>6. BlendSum(a, v, c, h) = p + q
    BY DEF BlendSum
  <1>7. m <= e * (m - c)
    OBVIOUS
  <1> HIDE DEF d, p, q, m
  <1>8. m * p + m * q = m * (p + q) /\ m * p \in Int /\ m * q \in Int
    BY <1>1, <1>2, <1>3, Z3
  <1>9. b * d + (b + e) * c = m * b - b + e * c /\ m * b \in Nat /\ e * c \in Nat
    <2>1. b * d = b * m - b - b * c
      BY <1>1, Z3
    <2>2. (b + e) * c = b * c + e * c
      BY <1>1, Z3
    <2> QED
      BY <1>1, <2>1, <2>2, Z3
  <1>10. e * c + m <= m * e /\ m * e \in Nat
    <2>1. e * (m - c) = m * e - e * c
      BY <1>1, Z3
    <2> QED
      BY <1>1, <1>7, <1>9, <2>1, Z3
  <1>11. p + q <= b + e
    <2>1. m * (p + q) <= m * b + m * e
      BY <1>1, <1>2, <1>3, <1>4, <1>5, <1>8, <1>9, <1>10, Z3
    <2>2. SUFFICES ASSUME p + q >= b + e + 1 PROVE FALSE
      BY <1>2, <1>3, Z3
    <2>3. m * (p + q) >= m * (b + e + 1)
      BY <1>1, <1>2, <1>3, <2>2, Z3
    <2>4. m * (b + e + 1) = m * b + m * e + m
      BY <1>1, Z3
    <2> QED
      BY <1>1, <1>2, <1>3, <1>9, <1>10, <2>1, <2>3, <2>4, Z3
  <1>12. p + q >= -(b + e)
    <2>1. m * (p + q) + 2 * m > -(m * b) - e * c
      BY <1>1, <1>2, <1>3, <1>4, <1>5, <1>8, <1>9, Z3
    <2>2. SUFFICES ASSUME p + q <= -(b + e) - 1 PROVE FALSE
      BY <1>2, <1>3, Z3
    <2>3. m * (p + q) <= m * (-(b + e) - 1)
      BY <1>1, <1>2, <1>3, <2>2, Z3
    <2>4. m * (-(b + e) - 1) = -(m * b) - m * e - m
      BY <1>1, Z3
    <2> QED
      BY <1>1, <1>2, <1>3, <1>9, <1>10, <2>1, <2>3, <2>4, Z3
  <1> QED
    BY <1>2, <1>3, <1>6, <1>11, <1>12

(* coefMult.vhd - a weighted signal is bounded by the weighted bound. *)
LEMMA GainWithin ==
  ASSUME NEW h \in Nat, h > 0, NEW a \in Signed(h), NEW c \in Coef(h),
         NEW b \in Nat, a \in -b .. b
  PROVE  /\ (b * c) \div (2 * h) \in Int
         /\ coefMult(a, c, h)
              \in -((b * c) \div (2 * h)) - 1 .. (b * c) \div (2 * h)
  <1> DEFINE p == coefMult(a, c, h)
             m == 2 * h
             r == (b * c) \div m
  <1>1. c \in Nat /\ m \in Nat /\ m > 0 /\ a \in Int
    BY DEF Coef, Signed
  <1>2. p \in Int /\ m * p <= a * c /\ a * c < m * p + m
    BY ProductBounds
  <1>3. a * c \in Int /\ b * c \in Nat /\ a * c <= b * c /\ -(b * c) <= a * c
    BY <1>1, ProductWithin
  <1>4. r \in Int /\ m * r <= b * c /\ b * c < m * r + m
    BY <1>1, <1>3, Quotient
  <1> HIDE DEF p, m, r
  <1>5. m * p \in Int /\ m * r \in Int
    BY <1>1, <1>2, <1>4, Z3
  <1>6. p <= r
    <2>1. SUFFICES ASSUME p >= r + 1 PROVE FALSE
      BY <1>2, <1>4, Z3
    <2>2. m * p >= m * (r + 1) /\ m * (r + 1) = m * r + m
      BY <1>1, <1>2, <1>4, <2>1, Z3
    <2> QED
      BY <1>1, <1>2, <1>3, <1>4, <1>5, <2>2, Z3
  <1>7. p >= -r - 1
    <2>1. SUFFICES ASSUME p <= -r - 2 PROVE FALSE
      BY <1>2, <1>4, Z3
    <2>2. m * p <= m * (-r - 2) /\ m * (-r - 2) = -(m * r) - 2 * m
      BY <1>1, <1>2, <1>4, <2>1, Z3
    <2> QED
      BY <1>1, <1>2, <1>3, <1>4, <1>5, <2>2, Z3
  <1> QED
    BY <1>2, <1>4, <1>6, <1>7 DEF p, r, m

-----------------------------------------------------------------------------
(* The drift that Bounds allows for is one that BlendWithin asks for. *)
LEMMA DriftIsEnough ==
  ASSUME NEW c \in Coef(H)
  PROVE  Drift(c) \in Nat /\ 2 * H <= Drift(c) * (2 * H - c)
  <1> DEFINE k == 2 * H - c
             q == (2 * H) \div k
  <1>1. k \in Nat /\ k > 0 /\ 2 * H \in Int /\ c \in Nat
    BY LoopScale DEF Coef
  <1>2. q \in Int /\ 2 * H < k * q + k
    BY <1>1, Quotient
  <1>3. Drift(c) = 1 + q
    BY DEF Drift
  <1> HIDE DEF k, q
  <1>4. (1 + q) * k = k * q + k
    BY <1>1, <1>2, Z3
  <1>5. q >= 0
    <2>1. SUFFICES ASSUME q <= -1 PROVE FALSE
      BY <1>2, Z3
    <2>2. k * q <= -k
      BY <1>1, <1>2, <2>1, Z3
    <2> QED
      BY <1>1, <1>2, <2>2, LoopScale, Z3
  <1> QED
    BY <1>1, <1>2, <1>3, <1>4, <1>5, LoopScale, Z3 DEF k

(* The loop within a bound b: its samples within b, and the register of    *)
(* the filter, which a reset clears, within b and the drift of a damping   *)
(* that has been set.                                                      *)
Within(b) ==
  /\ \A i \in Place : line[i] \in -b .. b
  /\ secondDelayedOutputAdder \in -b .. b
  /\ \/ prevOutputAdder \in -b .. b
     \/ \E damping \in Damping :
          prevOutputAdder \in -(b + Drift(damping)) .. (b + Drift(damping))

(* LPF.vhd:33 - the filter of a loop within b is within b and some drift. *)
LEMMA FilterWithin ==
  ASSUME TypeOK, NEW b \in Bounds, Within(b), NEW damping \in Damping
  PROVE  \E other \in Damping :
           outLPFilter(damping) \in -(b + Drift(other)) .. (b + Drift(other))
  <1>1. b \in Nat
    BY LoopScale DEF Bounds
  <1>2. damping \in Coef(H) /\ damping \in Nat /\ 2 * H - damping \in Nat
    BY LoopScale DEF Coef
  <1>3. outLPFilter(damping) = BlendSum(secondDelayedOutputAdder, prevOutputAdder,
                                        damping, H)
    BY FilterInRange DEF outLPFilter, Wrap, FilterSum
  <1>4. ASSUME NEW other \in Damping, Drift(damping) <= Drift(other),
               prevOutputAdder \in -(b + Drift(other)) .. (b + Drift(other))
        PROVE  outLPFilter(damping)
                 \in -(b + Drift(other)) .. (b + Drift(other))
    <2>1. /\ Drift(other) \in Nat /\ Drift(damping) \in Nat
          /\ 2 * H <= Drift(damping) * (2 * H - damping)
      BY <1>2, DriftIsEnough
    <2>2. 2 * H <= Drift(other) * (2 * H - damping)
      <3>1. /\ Drift(damping) * (2 * H - damping)
                  <= Drift(other) * (2 * H - damping)
            /\ Drift(damping) * (2 * H - damping) \in Int
            /\ Drift(other) * (2 * H - damping) \in Int
        BY <1>2, <1>4, <2>1, ProductMonotonic
      <3> QED
        BY <2>1, <3>1, LoopScale, Z3
    <2>3. /\ secondDelayedOutputAdder \in Signed(H)
          /\ secondDelayedOutputAdder \in -b .. b
          /\ prevOutputAdder \in Signed(H)
      BY DEF TypeOK, Within
    <2>4. BlendSum(secondDelayedOutputAdder, prevOutputAdder, damping, H)
            \in -(b + Drift(other)) .. (b + Drift(other))
      <3>1. Drift(other) \in Nat /\ H \in Nat /\ H > 0
        BY <2>1, LoopScale
      <3> QED
        BY <1>1, <1>2, <1>4, <2>2, <2>3, <3>1, BlendWithin
    <2> QED
      BY <1>3, <2>4
  <1>5. CASE prevOutputAdder \in -b .. b
    <2>1. Drift(damping) \in Nat
      BY <1>2, DriftIsEnough
    <2>2. prevOutputAdder \in -(b + Drift(damping)) .. (b + Drift(damping))
      BY <1>1, <1>5, <2>1
    <2> QED
      BY <1>4, <2>1, <2>2
  <1>6. CASE \E other \in Damping :
               prevOutputAdder \in -(b + Drift(other)) .. (b + Drift(other))
    <2>1. PICK other \in Damping :
            prevOutputAdder \in -(b + Drift(other)) .. (b + Drift(other))
      BY <1>6
    <2>2. Drift(damping) \in Nat /\ Drift(other) \in Nat
      BY DriftIsEnough
    <2>3. CASE Drift(damping) <= Drift(other)
      BY <1>4, <2>1, <2>3
    <2>4. CASE Drift(other) <= Drift(damping)
      <3>1. prevOutputAdder \in -(b + Drift(damping)) .. (b + Drift(damping))
        BY <1>1, <2>1, <2>2, <2>4
      <3> QED
        BY <1>4, <2>2, <3>1
    <2> QED
      BY <2>2, <2>3, <2>4
  <1> QED
    BY <1>5, <1>6 DEF Within

(* LFCF.vhd:42 - what the line takes is within the bound again. *)
LEMMA StoreWithin ==
  ASSUME TypeOK, NEW b \in Bounds, Within(b), NEW dataIN \in Input,
         NEW damping \in Damping, NEW decay \in Decay
  PROVE  outputAdder(dataIN, damping, decay) \in -b .. b
  <1>1. b \in Nat /\ b < H
    BY LoopScale DEF Bounds
  <1>2. PICK other \in Damping :
          outLPFilter(damping) \in -(b + Drift(other)) .. (b + Drift(other))
    BY FilterWithin
  <1>3. Drift(other) \in Nat /\ b + Drift(other) \in Nat
    BY <1>1, DriftIsEnough
  <1> DEFINE p == coefMult(outLPFilter(damping), decay, H)
             r == ((b + Drift(other)) * decay) \div (2 * H)
  <1>4. r \in Int /\ p \in -r - 1 .. r
    BY <1>2, <1>3, LoopScale, FilterInRange, GainWithin
  <1>5. dataIN \in Int /\ dataIN + 1 + r <= b /\ 1 - dataIN + r <= b
    BY DEF Bounds, Signed
  <1>6. LoopSum(dataIN, damping, decay) = dataIN + p
    BY DEF LoopSum
  <1> HIDE DEF p, r
  <1>7. dataIN + p \in -b .. b /\ dataIN + p \in Signed(H)
    BY <1>1, <1>4, <1>5, LoopScale DEF Signed
  <1> QED
    BY <1>6, <1>7 DEF outputAdder, Wrap

(* Every step of the loop keeps the bounds. *)
LEMMA NextWithin ==
  ASSUME TypeOK, [Next]_vars, NEW b \in Bounds, Within(b)
  PROVE  Within(b)'
  <1>1. b \in Nat /\ 0 \in -b .. b
    BY LoopScale DEF Bounds
  <1>2. ASSUME NEW damping \in Damping, FilterClock(damping) PROVE Within(b)'
    BY <1>2, FilterWithin DEF FilterClock, Within
  <1>3. CASE Renew
    <2>1. Cells - 1 \in Place
      BY DEF Place
    <2> QED
      BY <1>3, <2>1 DEF Renew, Within
  <1>4. ASSUME NEW dataIN \in Input, NEW damping \in Damping,
               NEW decay \in Decay, Store(dataIN, damping, decay)
        PROVE  Within(b)'
    <2>1. outputAdder(dataIN, damping, decay) \in -b .. b
      BY StoreWithin
    <2>2. \A i \in Place : line'[i] \in -b .. b
      BY <1>4, <2>1, Counted DEF Store, Within
    <2> QED
      BY <1>4, <2>2 DEF Store, Within
  <1>5. ASSUME NEW moved \in SUBSET (1 .. Cells - 1), Reset(moved)
        PROVE  Within(b)'
    <2>1. \A i \in moved : i \in Place /\ i - 1 \in Place
      BY DEF Place
    <2> QED
      BY <1>1, <1>5, <2>1 DEF Reset, Within
  <1>6. CASE UNCHANGED vars
    BY <1>6 DEF vars, Within
  <1> QED
    BY <1>2, <1>3, <1>4, <1>5, <1>6 DEF Next

(* The bounds are reached from silence. *)
LEMMA InitWithin ==
  ASSUME Init, NEW b \in Bounds
  PROVE  Within(b)
  <1>1. 0 \in -b .. b
    BY LoopScale DEF Bounds
  <1> QED
    BY <1>1 DEF Init, Within

(* The bounds hold in every state of every behaviour. *)
IInv == TypeOK /\ \A b \in Bounds : Within(b)

(* IInv is inductive. *)
LEMMA LoopInvariant == Spec => []IInv
  <1>1. Init => IInv
    BY InitTypeOK, InitWithin DEF IInv
  <1>2. IInv /\ [Next]_vars => IInv'
    <2>1. Bounds' = Bounds
      BY DEF Bounds, Drift, H
    <2> QED
      BY <2>1, NextTypeOK, NextWithin DEF IInv
  <1> QED
    BY <1>1, <1>2, PTL DEF Spec

(* LFCF.vhd:39-75 - no history of samples, settings and resets makes the   *)
(* line louder than the gain of the loop and the drift of its filter do.   *)
THEOREM LineBounded == Spec => []LineIsBounded
  <1>1. IInv => LineIsBounded
    BY DEF IInv, LineIsBounded, Within
  <1> QED
    BY <1>1, LoopInvariant, PTL

(* LFCF.vhd:84 - a loop within 5/4 of the full scale of the samples gives  *)
(* an output that loses nothing when it is cut to their bits.              *)
THEOREM OutputIsIntact == Spec => []OutputFits
  <1>1. IInv => OutputFits
    <2> DEFINE b == (5 * X - 4) \div 4
               k == (4 * 2 * H) \div 5
               p == coefMult(secondDelayedOutputAdder, k, H)
               m == 2 * H
    <2> SUFFICES ASSUME IInv, b \in Bounds PROVE p \in Signed(X)
      BY DEF OutputFits, LLPFoutput
    <2>1. b \in Nat /\ 4 * b <= 5 * X - 4
      BY Z3
    <2>2. k \in Nat /\ k \in Coef(H) /\ 5 * k <= 4 * m /\ m = 4 * X
      BY LoopScale, Z3 DEF Coef
    <2>3. secondDelayedOutputAdder \in Signed(H)
          /\ secondDelayedOutputAdder \in -b .. b
      BY DEF IInv, TypeOK, Within
    <2> DEFINE s == secondDelayedOutputAdder
    <2>4. p \in Int /\ m * p <= s * k /\ s * k < m * p + m
      BY <2>2, <2>3, LoopScale, ProductBounds
    <2>5. /\ s * k \in Int /\ b * k \in Nat
          /\ s * k <= b * k /\ -(b * k) <= s * k
      BY <2>1, <2>2, <2>3, ProductWithin
    <2> HIDE DEF b, k, p, m, s
    <2>6. 20 * (b * k) <= (5 * X - 4) * (4 * m)
      <3>1. (4 * b) * (5 * k) <= (5 * X - 4) * (5 * k)
        BY <2>1, <2>2, ProductMonotonic, 4 * b \in Int, 5 * X - 4 \in Int, 5 * k \in Nat
      <3>2. (5 * k) * (5 * X - 4) <= (4 * m) * (5 * X - 4)
        BY <2>2, ProductMonotonic, LoopScale, 5 * k \in Int, 4 * m \in Int, 5 * X - 4 \in Nat
      <3> QED
        BY <2>1, <2>2, <3>1, <3>2, Z3
    <2>7. m * X \in Int /\ 5 * (b * k) <= 5 * (m * X) - 4 * m /\ m \in Nat /\ m > 0
      <3>1. (5 * X - 4) * (4 * m) = 20 * (m * X) - 16 * m
        BY <2>2, Z3
      <3> QED
        BY <2>2, <2>5, <2>6, <3>1, Z3
    <2>8. p <= X - 1
      <3>1. SUFFICES ASSUME p >= X PROVE FALSE
        BY <2>4, Z3
      <3>2. m * p >= m * X /\ m * p \in Int
        BY <2>4, <2>7, <3>1, Z3
      <3> QED
        BY <2>4, <2>5, <2>7, <3>2, Z3
    <2>9. p >= -X
      <3>1. SUFFICES ASSUME p <= -X - 1 PROVE FALSE
        BY <2>4, Z3
      <3>2. m * p <= m * (-X - 1) /\ m * (-X - 1) = -(m * X) - m /\ m * p \in Int
        BY <2>4, <2>7, <3>1, Z3
      <3> QED
        BY <2>4, <2>5, <2>7, <3>2, Z3
    <2> QED
      BY <2>4, <2>8, <2>9 DEF Signed
  <1> QED
    BY <1>1, LoopInvariant, PTL

-----------------------------------------------------------------------------
(* The two delay lines of LFCF.vhd as the queue that CombFilter is about.  *)

(* The lines do everything at the same clock, and what the second one is   *)
(* about to store is what has just left the first one.                     *)
LinesInv ==
  /\ phase2 = phase1 /\ len2 = len1
  /\ clocks \in Nat /\ (phase1 = "ready" <=> clocks = 0)
  /\ phase1 # "ready" => len1 = M
  /\ phase1 = "renewed" => firstDelayedOutputAdder = line1[M - 1]

(* Every line has its cells, and the queue those of both. *)
LEMMA LinesCells ==
  ASSUME LinesLength
  PROVE  /\ M \in Nat /\ M >= 4 /\ N_LFCF \div 2 = M + 1
         /\ delayLineOperator1!Addr = 0 .. M - 1
         /\ delayLineOperator2!Addr = 0 .. M - 1
         /\ Queue!Place = 0 .. 2 * M - 1
<1>1. N_LFCF \div 2 \in Nat /\ N_LFCF \div 2 >= 5
  BY DEF LinesLength
<1> DEFINE h == N_LFCF \div 2
<1>2. M = h - 1
  BY DEF M
<1>3. /\ delayLineOperator1!Addr = 0 .. (h - 1) - 1
      /\ delayLineOperator2!Addr = 0 .. (h - 1) - 1
      /\ Queue!Place = 0 .. 2 * M - 1
  BY DEF delayLineOperator1!Addr, delayLineOperator2!Addr, Queue!Place,
         delayLineOperator1!N, delayLineOperator2!N
<1> HIDE DEF h
<1>4. QED
  BY <1>1, <1>2, <1>3 DEF h

(* The sums of the queue are those of the lines. *)
LEMMA SameSums ==
  /\ Queue!H = H
  /\ \A damping : Queue!outLPFilter(damping) = outLPFilter(damping)
  /\ \A dataIN, damping, decay :
       Queue!outputAdder(dataIN, damping, decay)
         = outputAdder(dataIN, damping, decay)
<1>1. Queue!H = H
  BY DEF Queue!H, H
<1>2. \A v, h : Queue!Wrap(v, h) = Wrap(v, h)
  BY DEF Queue!Wrap, Wrap, Queue!Signed, Signed
<1>3. \A v, c, h : Queue!coefMult(v, c, h) = coefMult(v, c, h)
  BY DEF Queue!coefMult, coefMult, Queue!Resize, Resize, Queue!Signed, Signed
<1>4. \A damping : Queue!FilterSum(damping) = FilterSum(damping)
  BY <1>1, <1>3 DEF Queue!FilterSum, FilterSum, Queue!BlendSum, BlendSum,
                    Queue!Complement, Complement
<1>5. \A damping : Queue!outLPFilter(damping) = outLPFilter(damping)
  BY <1>1, <1>2, <1>4 DEF Queue!outLPFilter, outLPFilter
<1>6. QED
  BY <1>1, <1>2, <1>3, <1>5 DEF Queue!outputAdder, outputAdder, Queue!LoopSum, LoopSum

(* A new pair of lines is a new queue. *)
LEMMA InitIsAQueue ==
  ASSUME LinesLength
  PROVE  LinesInit => Queue!Init /\ LinesInv
<1> SUFFICES ASSUME LinesInit PROVE Queue!Init /\ LinesInv
  OBVIOUS
<1>1. /\ line1 = [a \in 0 .. M - 1 |-> 0] /\ line2 = line1
      /\ secondDelayedOutputAdder = 0 /\ prevOutputAdder = 0 /\ clocks = 0
      /\ phase1 = "ready" /\ phase2 = "ready" /\ len1 = 4 /\ len2 = 4
  BY DEF LinesInit, delayLineOperator1!Init, delayLineOperator2!Init
<1>2. BothLines = [i \in 0 .. 2 * M - 1 |-> 0]
  <2>1. \A i \in 0 .. 2 * M - 1 :
          (IF i < M THEN line1[i] ELSE line2[i - M]) = 0
    BY <1>1, LinesCells
  <2>2. QED
    BY <2>1 DEF BothLines
<1>3. Queue!Init
  BY <1>1, <1>2, LinesCells DEF Queue!Init
<1>4. LinesInv
  BY <1>1 DEF LinesInv
<1>5. QED
  BY <1>3, <1>4

(* The lines do not move at a clock of the tick. *)
LEMMA ClockOfQueue ==
  ASSUME LinesLength, LinesInv, NEW damping \in Damping, LinesClock(damping)
  PROVE  Queue!FilterClock(damping) /\ LinesInv'
<1>1. /\ clocks < MaxClocks /\ clocks' = clocks + 1
      /\ prevOutputAdder' = outLPFilter(damping)
      /\ phase1' = "taken" /\ phase2' = "taken" /\ phase1 # "renewed"
      /\ UNCHANGED <<line1, line2, firstDelayedOutputAdder, secondDelayedOutputAdder>>
      /\ len2' = len1' /\ len1' = M
  <2>1. CASE clocks = 0
    <3>1. delayLineOperator1!Take(N_LFCF \div 2) /\ delayLineOperator2!Take(N_LFCF \div 2)
      BY <2>1, LinesCells DEF LinesClock
    <3>2. N_LFCF \div 2 - 1 = M
      BY DEF M
    <3>3. QED
      BY <3>1, <3>2 DEF LinesClock, delayLineOperator1!Take, delayLineOperator2!Take
  <2>2. CASE clocks # 0
    BY <2>2 DEF LinesClock, LinesInv, lineVars1, lineVars2
  <2>3. QED
    BY <2>1, <2>2
<1>2. BothLines' = BothLines
  BY <1>1 DEF BothLines
<1>3. Queue!FilterClock(damping)
  BY <1>1, <1>2, SameSums DEF Queue!FilterClock
<1>4. LinesInv'
  BY <1>1 DEF LinesInv
<1>5. QED
  BY <1>3, <1>4

(* The output of the second line is the end of the queue. *)
LEMMA RenewOfQueue ==
  ASSUME LinesLength, LinesInv, LinesRenew
  PROVE  Queue!Renew /\ LinesInv'
<1>1. /\ phase1 = "taken" /\ phase1' = "renewed" /\ phase2' = "renewed"
      /\ firstDelayedOutputAdder' = line1[len1 - 1]
      /\ secondDelayedOutputAdder' = line2[len2 - 1]
      /\ UNCHANGED <<line1, line2, len1, len2, prevOutputAdder, clocks>>
  BY DEF LinesRenew, delayLineOperator1!Renew, delayLineOperator2!Renew
<1>2. len1 = M /\ len2 = M /\ clocks \in Nat /\ clocks # 0
  BY <1>1 DEF LinesInv
<1>3. BothLines' = BothLines
  BY <1>1 DEF BothLines
<1>4. BothLines[2 * M - 1] = line2[M - 1]
  <2>1. /\ 2 * M - 1 \in 0 .. 2 * M - 1 /\ ~ (2 * M - 1 < M)
        /\ (2 * M - 1) - M = M - 1
    BY LinesCells
  <2>2. QED
    BY <2>1 DEF BothLines
<1>5. Queue!Renew
  BY <1>1, <1>2, <1>3, <1>4 DEF Queue!Renew
<1>6. LinesInv'
  BY <1>1, <1>2 DEF LinesInv
<1>7. QED
  BY <1>5, <1>6

(* Both shifts together move the whole queue by one cell. *)
LEMMA StoreOfQueue ==
  ASSUME LinesLength, LinesInv, NEW dataIN \in Input, NEW damping \in Damping,
         NEW decay \in Decay, LinesStore(dataIN, damping, decay)
  PROVE  Queue!Store(dataIN, damping, decay) /\ LinesInv'
<1> DEFINE x == outputAdder(dataIN, damping, decay)
<1>1. /\ phase1 = "renewed" /\ phase1' = "ready" /\ phase2' = "ready"
      /\ line1' = [delayLineOperator1!ShiftedFrom(line1, len1, 1) EXCEPT ![0] = x]
      /\ line2' = [delayLineOperator2!ShiftedFrom(line2, len2, 1)
                     EXCEPT ![0] = firstDelayedOutputAdder]
      /\ clocks' = 0
      /\ UNCHANGED <<len1, len2, secondDelayedOutputAdder, prevOutputAdder>>
  BY DEF LinesStore, delayLineOperator1!Store, delayLineOperator2!Store
<1>2. len1 = M /\ len2 = M /\ firstDelayedOutputAdder = line1[M - 1]
  BY <1>1 DEF LinesInv
<1> HIDE DEF x
<1>3. \A i \in 0 .. M - 1 :
        /\ line1'[i] = IF i = 0 THEN x ELSE line1[i - 1]
        /\ line2'[i] = IF i = 0 THEN line1[M - 1] ELSE line2[i - 1]
  <2>1. /\ delayLineOperator1!ShiftedFrom(line1, len1, 1)
             = [i \in 0 .. M - 1 |-> IF 1 <= i /\ i < M THEN line1[i - 1] ELSE line1[i]]
        /\ delayLineOperator2!ShiftedFrom(line2, len2, 1)
             = [i \in 0 .. M - 1 |-> IF 1 <= i /\ i < M THEN line2[i - 1] ELSE line2[i]]
    BY <1>2, LinesCells
       DEF delayLineOperator1!ShiftedFrom, delayLineOperator2!ShiftedFrom
  <2>2. \A i \in 0 .. M - 1 : i < M /\ (i # 0 => 1 <= i)
    BY LinesCells
  <2>3. QED
    BY <1>1, <1>2, <2>1, <2>2
<1>4. BothLines' = [i \in 0 .. 2 * M - 1 |-> IF i = 0 THEN x ELSE BothLines[i - 1]]
  <2> SUFFICES ASSUME NEW i \in 0 .. 2 * M - 1
               PROVE  (IF i < M THEN line1'[i] ELSE line2'[i - M])
                        = IF i = 0 THEN x ELSE BothLines[i - 1]
    BY Zenon DEF BothLines
  <2>1. i \in Nat /\ M \in Nat /\ M >= 4
    BY LinesCells
  <2>2. i # 0 => BothLines[i - 1] = IF i - 1 < M THEN line1[i - 1] ELSE line2[i - 1 - M]
    BY <2>1 DEF BothLines
  <2>3. CASE i < M
    <3>1. i \in 0 .. M - 1 /\ i - 1 < M
      BY <2>1, <2>3
    <3>2. QED
      BY <1>3, <2>2, <2>3, <3>1
  <2>4. CASE i = M
    <3>1. i - M = 0 /\ i - 1 < M /\ i # 0 /\ i - 1 = M - 1 /\ 0 \in 0 .. M - 1 /\ ~ (i < M)
      BY <2>1, <2>4
    <3>2. line2'[i - M] = line1[M - 1]
      BY <1>3, <3>1
    <3>3. QED
      BY <2>2, <3>1, <3>2
  <2>5. CASE i > M
    <3>1. /\ i - M \in 0 .. M - 1 /\ i - M # 0 /\ i # 0 /\ ~ (i < M) /\ ~ (i - 1 < M)
          /\ i - M - 1 = i - 1 - M
      BY <2>1, <2>5
    <3>2. line2'[i - M] = line2[i - 1 - M]
      BY <1>3, <3>1
    <3>3. QED
      BY <2>2, <3>1, <3>2
  <2>6. QED
    BY <2>1, <2>3, <2>4, <2>5
<1>5. Queue!Store(dataIN, damping, decay)
  BY <1>1, <1>4, LinesCells, SameSums DEF Queue!Store, x
<1>6. LinesInv'
  BY <1>1, <1>2 DEF LinesInv
<1>7. QED
  BY <1>5, <1>6

(* A reset has moved the ends of both lines, or nothing. *)
LEMMA ResetOfQueue ==
  ASSUME LinesLength, LinesInv, NEW a \in 1 .. M, LinesReset(a)
  PROVE  (\E moved \in SUBSET (1 .. 2 * M - 1) : Queue!Reset(moved)) /\ LinesInv'
<1>1. /\ prevOutputAdder' = 0 /\ clocks' = 0
      /\ phase1' = "ready" /\ phase2' = "ready"
      /\ UNCHANGED <<len1, len2, firstDelayedOutputAdder, secondDelayedOutputAdder>>
  BY DEF LinesReset, delayLineOperator1!Abort, delayLineOperator2!Abort,
         lineVars1, lineVars2
<1>2. LinesInv'
  BY <1>1 DEF LinesInv
<1>3. ASSUME UNCHANGED <<line1, line2>>
      PROVE  Queue!Reset({})
  <2>1. BothLines' = BothLines
    BY <1>3 DEF BothLines
  <2>2. BothLines = [i \in 0 .. 2 * M - 1 |->
                       IF i \in {} THEN BothLines[i - 1] ELSE BothLines[i]]
    BY DEF BothLines
  <2>3. QED
    BY <1>1, <2>1, <2>2, LinesCells DEF Queue!Reset
<1>4. {} \in SUBSET (1 .. 2 * M - 1)
  OBVIOUS
<1>5. CASE phase1 = "ready"
  <2>1. UNCHANGED <<line1, line2>>
    BY <1>5 DEF LinesReset, delayLineOperator1!Abort, lineVars1, lineVars2
  <2>2. QED
    BY <1>2, <1>3, <1>4, <2>1
<1>6. CASE phase1 # "ready"
  <2>1. /\ len1 = M /\ len2 = M
        /\ phase1 = "renewed" \/ (phase1 = "taken" /\ a = M)
        /\ line1' = delayLineOperator1!ShiftedFrom(line1, M, a)
        /\ line2' = delayLineOperator2!ShiftedFrom(line2, M, a)
    BY <1>6 DEF LinesReset, LinesInv, delayLineOperator1!Abort, delayLineOperator2!Abort
  <2>2. \A i \in 0 .. M - 1 :
          /\ line1'[i] = IF a <= i THEN line1[i - 1] ELSE line1[i]
          /\ line2'[i] = IF a <= i THEN line2[i - 1] ELSE line2[i]
    <3>1. \A i \in 0 .. M - 1 : i < M
      BY LinesCells
    <3>2. QED
      BY <2>1, <3>1, LinesCells
         DEF delayLineOperator1!ShiftedFrom, delayLineOperator2!ShiftedFrom
  <2> DEFINE moved == IF a = M THEN {} ELSE (a .. M - 1) \union (M + a .. 2 * M - 1)
  <2>3. moved \in SUBSET (1 .. 2 * M - 1)
    BY LinesCells
  <2>4. phase1 = "renewed" \/ moved = {}
    BY <2>1
  <2>5. \A i \in 0 .. 2 * M - 1 :
          i \in moved <=> IF i < M THEN a <= i ELSE a <= i - M
    BY LinesCells
  <2> HIDE DEF moved
  <2>6. BothLines' = [i \in 0 .. 2 * M - 1 |->
                        IF i \in moved THEN BothLines[i - 1] ELSE BothLines[i]]
    <3> SUFFICES ASSUME NEW i \in 0 .. 2 * M - 1
                 PROVE  (IF i < M THEN line1'[i] ELSE line2'[i - M])
                          = IF i \in moved THEN BothLines[i - 1] ELSE BothLines[i]
      BY Zenon DEF BothLines
    <3>1. i \in Nat /\ M \in Nat /\ M >= 4 /\ a \in Nat /\ a >= 1
      BY LinesCells
    <3>2. BothLines[i] = IF i < M THEN line1[i] ELSE line2[i - M]
      BY DEF BothLines
    <3>3. i # 0 => BothLines[i - 1] = IF i - 1 < M THEN line1[i - 1] ELSE line2[i - 1 - M]
      BY <3>1 DEF BothLines
    <3>4. CASE i < M
      <4>1. /\ i \in 0 .. M - 1 /\ i - 1 < M
            /\ i \in moved <=> a <= i
            /\ a <= i => i # 0
        BY <2>5, <3>1, <3>4
      <4>2. line1'[i] = IF a <= i THEN line1[i - 1] ELSE line1[i]
        BY <2>2, <4>1
      <4>3. QED
        BY <3>2, <3>3, <3>4, <4>1, <4>2
    <3>5. CASE ~ (i < M)
      <4>1. /\ i - M \in 0 .. M - 1
            /\ i \in moved <=> a <= i - M
            /\ a <= i - M => i # 0 /\ ~ (i - 1 < M)
            /\ i - M - 1 = i - 1 - M
        BY <2>5, <3>1, <3>5
      <4>2. line2'[i - M] = IF a <= i - M THEN line2[i - 1 - M] ELSE line2[i - M]
        BY <2>2, <4>1
      <4>3. QED
        BY <3>2, <3>3, <3>5, <4>1, <4>2
    <3>6. QED
      BY <3>4, <3>5
  <2>7. Queue!Reset(moved)
    BY <1>1, <2>4, <2>6, LinesCells DEF Queue!Reset
  <2>8. QED
    BY <1>2, <2>3, <2>7
<1>7. QED
  BY <1>5, <1>6

(* Every step of the lines is one of the queue, and leaves them in step. *)
LEMMA StepIsAQueues ==
  ASSUME LinesLength, LinesInv, [LinesNext]_linesVars
  PROVE  [Queue!Next]_(Queue!vars) /\ LinesInv'
<1>1. CASE UNCHANGED linesVars
  <2>1. UNCHANGED <<line1, firstDelayedOutputAdder, phase1, len1, line2,
                    secondDelayedOutputAdder, phase2, len2, prevOutputAdder, clocks>>
    BY <1>1 DEF linesVars, lineVars1, lineVars2
  <2>2. BothLines' = BothLines
    BY <2>1 DEF BothLines
  <2>3. UNCHANGED Queue!vars
    BY <2>1, <2>2 DEF Queue!vars
  <2>4. LinesInv'
    BY <2>1 DEF LinesInv
  <2>5. QED
    BY <2>3, <2>4
<1>2. CASE \E damping \in Damping : LinesClock(damping)
  BY <1>2, ClockOfQueue DEF Queue!Next
<1>3. CASE LinesRenew
  BY <1>3, RenewOfQueue DEF Queue!Next
<1>4. CASE \E dataIN \in Input, damping \in Damping, decay \in Decay :
             LinesStore(dataIN, damping, decay)
  BY <1>4, StoreOfQueue DEF Queue!Next
<1>5. CASE \E a \in 1 .. M : LinesReset(a)
  BY <1>5, ResetOfQueue DEF Queue!Next
<1>6. QED
  BY <1>1, <1>2, <1>3, <1>4, <1>5 DEF LinesNext

(* LFCF.vhd:58-75 - the two delay lines of a comb filter, for every length *)
(* that LFCF.vhd can be given, are the queue that CombFilter is about.     *)
THEOREM LinesAreOneQueue ==
  ASSUME LinesLength
  PROVE  LinesSpec => TwoLinesAreOneQueue
<1>1. LinesInit => Queue!Init /\ LinesInv
  BY InitIsAQueue
<1>2. LinesInv /\ [LinesNext]_linesVars => [Queue!Next]_(Queue!vars) /\ LinesInv'
  BY StepIsAQueues
<1>3. QED
  BY <1>1, <1>2, PTL DEF LinesSpec, TwoLinesAreOneQueue, Queue!Spec

==============================================================================
