----------------------------- MODULE AllPassProofs -----------------------------
(***************************************************************************)
(* The all-pass filter for every full scale, length and input: its line    *)
(* stays within twice the loudest sample, which leaves room for every sum. *)
(* The bound is inductive: dataIN and its half less half of dataIN add as  *)
(* much as the loudest sample, and half of the output of the line as much  *)
(* again.                                                                  *)
(***************************************************************************)
EXTENDS AllPass, FixedPointProofs

USE FullScaleAssumption, DelayAssumption, InputAssumption

(* The samples are within b, and so is twice over what the line shows. *)
Loudness(b) == b \in 0 .. X /\ Input \subseteq -b .. b

(* The addresses of the line. *)
LEMMA LineAssumptions ==
  delayLineOperator!Addr = 0 .. Delay - 2 /\ Delay - 1 \in Nat
  BY DEF delayLineOperator!Addr, delayLineOperator!N

(* No sample is louder than the full scale. *)
LEMMA FullScaleIsLoudest == Loudness(X)
  BY Z3 DEF Loudness, Signed

(* APF.vhd:36-44 - with the output of the line within twice the loudest    *)
(* sample no sum leaves its bits, and what the line gets is within it      *)
(* again.                                                                  *)
LEMMA SumsFit ==
  ASSUME NEW b, Loudness(b), out \in -(2 * b) .. 2 * b, NEW dataIN \in Input
  PROVE  /\ SumInput(dataIN) \in Word
         /\ Sum2(dataIN) \in Word
         /\ Sum2(dataIN) \in -(3 * b) .. 3 * b
         /\ Sum1(dataIN) \in Word
         /\ outputAdder1(dataIN) \in -(2 * b) .. 2 * b
  <1>1. /\ b \in Nat /\ b <= X /\ X \in Nat /\ X >= 2
        /\ dataIN \in Int /\ -b <= dataIN /\ dataIN <= b
        /\ -X <= dataIN /\ dataIN <= X - 1
    BY DEF Signed, Loudness
  <1>2. out \in Int /\ -(2 * b) <= out /\ out <= 2 * b
    BY <1>1
  <1>3. SumInput(dataIN) \in Word
    BY <1>1, Z3 DEF SumInput, Half, Word, Signed
  <1>4. Sum2(dataIN) \in Word /\ Sum2(dataIN) \in -(3 * b) .. 3 * b
    BY <1>1, <1>2, Z3 DEF Sum2, Word, Signed
  <1>5. Sum1(dataIN) = dataIN + Half(dataIN) + Half(out - dataIN)
    BY <1>3, <1>4 DEF Sum1, outputAdder2, Wrap, Word, SumInput, Sum2
  <1>6. Sum1(dataIN) \in -(2 * b) .. 2 * b
    BY <1>1, <1>2, <1>5, Z3 DEF Half
  <1>7. Sum1(dataIN) \in Word
    BY <1>1, <1>6, Z3 DEF Word, Signed
  <1> QED
    BY <1>3, <1>4, <1>6, <1>7 DEF outputAdder1, Wrap, Word

-----------------------------------------------------------------------------
(* What the line holds and shows is within r. *)
Within(r) ==
  /\ line \in [delayLineOperator!Addr -> -r .. r]
  /\ out \in -r .. r

(* The lengths in use, and the bound on what the line holds. *)
IInv ==
  /\ phase \in {"ready", "taken", "renewed"}
  /\ len \in 4 .. Delay - 1
  /\ \A b : Loudness(b) => Within(2 * b)

(* A line and a register full of zeros are within any bound. *)
LEMMA InitIInv == Init => IInv
  <1> SUFFICES ASSUME Init PROVE IInv
    OBVIOUS
  <1>1. ASSUME NEW b, Loudness(b) PROVE 0 \in -(2 * b) .. 2 * b
    BY <1>1, Z3 DEF Loudness
  <1>2. phase \in {"ready", "taken", "renewed"} /\ len \in 4 .. Delay - 1
    BY DEF Init, delayLineOperator!Init
  <1> QED
    BY <1>1, <1>2 DEF Init, IInv, Within

(* A shifted line holds what the line held. *)
LEMMA ShiftIsWithin ==
  ASSUME NEW r, Within(r), NEW m \in Nat, NEW a \in Nat \ {0}
  PROVE  delayLineOperator!ShiftedFrom(line, m, a)
           \in [delayLineOperator!Addr -> -r .. r]
  BY LineAssumptions DEF Within, delayLineOperator!ShiftedFrom

(* Taking a tick, renewing the output and a reset move what is in the line. *)
LEMMA MoveIInv ==
  ASSUME IInv, \/ Take
               \/ Renew
               \/ \E a \in 1 .. len : Abort(a)
  PROVE  IInv'
  <1>1. CASE Take
    BY <1>1 DEF IInv, Within, Loudness, Take, delayLineOperator!Take,
                delayLineOperator!Addr, delayLineOperator!N
  <1>2. CASE Renew
    <2>1. len - 1 \in delayLineOperator!Addr
      BY LineAssumptions DEF IInv
    <2> QED
      BY <1>2, <2>1 DEF IInv, Within, Loudness, Renew, delayLineOperator!Renew,
                        delayLineOperator!Addr, delayLineOperator!N
  <1>3. CASE \E a \in 1 .. len : Abort(a)
    <2>1. PICK a \in 1 .. len : Abort(a)
      BY <1>3
    <2>2. ASSUME NEW b, Loudness(b) PROVE Within(2 * b)'
      <3>1. delayLineOperator!ShiftedFrom(line, len, a)
              \in [delayLineOperator!Addr -> -(2 * b) .. 2 * b]
        BY <2>2, ShiftIsWithin DEF IInv
      <3> QED
        BY <2>1, <2>2, <3>1
        DEF IInv, Within, Abort, delayLineOperator!Abort,
            delayLineOperator!Addr, delayLineOperator!N
    <2> QED
      BY <2>1, <2>2 DEF IInv, Loudness, Abort, delayLineOperator!Abort
  <1> QED
    BY <1>1, <1>2, <1>3

(* What the line stores is within the bound again. *)
LEMMA StoreIInv ==
  ASSUME IInv, NEW dataIN \in Input, Store(dataIN)
  PROVE  IInv'
  <1>1. ASSUME NEW b, Loudness(b) PROVE Within(2 * b)'
    <2>1. outputAdder1(dataIN) \in -(2 * b) .. 2 * b
      BY <1>1, SumsFit DEF IInv, Within
    <2>2. delayLineOperator!ShiftedFrom(line, len, 1)
            \in [delayLineOperator!Addr -> -(2 * b) .. 2 * b]
      BY <1>1, ShiftIsWithin DEF IInv
    <2> QED
      BY <1>1, <2>1, <2>2
      DEF IInv, Within, Store, delayLineOperator!Store,
          delayLineOperator!Addr, delayLineOperator!N
  <1> QED
    BY <1>1 DEF IInv, Loudness, Store, delayLineOperator!Store

(* Every step keeps the bound. *)
LEMMA NextIInv == IInv /\ [Next]_vars => IInv'
  <1> SUFFICES ASSUME IInv, [Next]_vars PROVE IInv'
    OBVIOUS
  <1>1. CASE Take \/ Renew \/ \E a \in 1 .. len : Abort(a)
    BY <1>1, MoveIInv
  <1>2. CASE \E dataIN \in Input : Store(dataIN)
    BY <1>2, StoreIInv
  <1>3. CASE UNCHANGED vars
    BY <1>3 DEF vars, IInv, Within, Loudness,
                delayLineOperator!Addr, delayLineOperator!N
  <1> QED
    BY <1>1, <1>2, <1>3 DEF Next

-----------------------------------------------------------------------------
(* APF.vhd:46-53 - the line never holds more than twice the loudest sample *)
(* that came in.                                                           *)
THEOREM LineBounded == Spec => []LineIsBounded
  <1>1. IInv => LineIsBounded
    BY DEF IInv, Within, Loudness, LineIsBounded
  <1> QED
    BY <1>1, InitIInv, NextIInv, PTL DEF Spec

(* APF.vhd:22 - two extra bits are enough for every sum of the loop. *)
THEOREM SumsNeverWrap == Spec => []LoopFits
  <1>1. IInv => LoopFits
    BY FullScaleIsLoudest, SumsFit DEF IInv, Within, LoopFits
  <1> QED
    BY <1>1, InitIInv, NextIInv, PTL DEF Spec

-----------------------------------------------------------------------------
(* The gain of 0.84 brings the sum of quiet samples back to full scale. *)
LEMMA OutputWithin ==
  ASSUME IInv, Quiet, NEW dataIN \in Input
  PROVE  reductionGain(dataIN) \in Signed(X)
  <1> DEFINE v == Sum2(dataIN)
             k == (21 * 8 * X) \div 25
             m == 8 * X
             p == coefMult(v, k, 4 * X)
             b == (25 * X - 1) \div 63
  <1>1. Loudness(b) /\ 63 * b < 25 * X /\ b \in Nat
    <2>1. b \in 0 .. X /\ 63 * b < 25 * X
      BY Z3
    <2>2. ASSUME NEW x \in Input PROVE x \in -b .. b
      <3>1. x \in Int /\ 63 * x < 25 * X /\ 63 * x > -(25 * X)
        BY DEF Signed, Quiet
      <3> QED
        BY <3>1, Z3
    <2> QED
      BY <2>1, <2>2 DEF Loudness
  <1>2. v \in Word /\ v \in -(3 * b) .. 3 * b
    BY <1>1, SumsFit DEF IInv, Within
  <1> HIDE DEF v, k, p, b
  <1>3. /\ v \in Int /\ v \in Signed(4 * X)
        /\ 63 * v < 75 * X /\ 63 * v > -(75 * X)
    BY <1>1, <1>2, Z3 DEF Word, Signed
  <1>4. k \in Nat /\ k \in Coef(4 * X) /\ 25 * k <= 21 * m
    BY Z3 DEF Coef, k
  <1>5. reductionGain(dataIN) = p
    BY <1>2 DEF reductionGain, outputAdder2, Wrap, Word, v, k, p
  <1>6. /\ p \in Int /\ m * p <= v * k /\ v * k < m * p + m
        /\ m \in Nat /\ m > 0
    <2>1. 4 * X \in Nat /\ 4 * X > 0 /\ 2 * (4 * X) = 8 * X
      OBVIOUS
    <2>2. coefMult(v, k, 4 * X) = (v * k) \div m
          /\ coefMult(v, k, 4 * X) \in Signed(4 * X)
      BY <1>3, <1>4, <2>1, ProductFits
    <2>3. v * k \in Int /\ m \in Nat /\ m > 0
      BY <1>3, <1>4, Z3
    <2> QED
      BY <2>2, <2>3, Quotient DEF p
  <1>7. v * k \in Int /\ m * X \in Int
    BY <1>3, <1>4, Z3
  <1>8. p <= X - 1
    <2>1. SUFFICES ASSUME p >= X PROVE FALSE
      BY <1>6, Z3
    <2>2. m * p >= m * X /\ m * p \in Int
      BY <1>6, <2>1, Z3
    <2>3. v > 0
      BY <1>3, <1>4, <1>6, <1>7, <2>2, Z3
    <2>4. v * (25 * k) <= v * (21 * m)
      BY <1>3, <1>4, <1>6, <2>3, Z3
    <2>5. (63 * v) * m < (75 * X) * m
      BY <1>3, <1>6, Z3
    <2> QED
      BY <1>3, <1>4, <1>6, <1>7, <2>2, <2>4, <2>5, Z3
  <1>9. p >= -X
    <2>1. SUFFICES ASSUME p <= -X - 1 PROVE FALSE
      BY <1>6, Z3
    <2>2. m * p <= m * (-X - 1) /\ m * (-X - 1) = -(m * X) - m /\ m * p \in Int
      BY <1>6, <2>1, Z3
    <2>3. v < 0
      BY <1>3, <1>4, <1>6, <1>7, <2>2, Z3
    <2>4. v * (25 * k) >= v * (21 * m)
      BY <1>3, <1>4, <1>6, <2>3, Z3
    <2>5. (63 * v) * m >= -((75 * X) * m)
      BY <1>3, <1>6, Z3
    <2> QED
      BY <1>3, <1>4, <1>6, <1>7, <2>2, <2>4, <2>5, Z3
  <1> QED
    BY <1>5, <1>6, <1>8, <1>9 DEF Signed

(* APF.vhd:55-60 - the output loses nothing when it is cut to the bits of  *)
(* a sample, as long as the samples stay within 25/63 of the full scale.   *)
THEOREM OutputIsIntact == Spec => []OutputFits
  <1>1. IInv => OutputFits
    BY OutputWithin DEF OutputFits
  <1> QED
    BY <1>1, InitIInv, NextIInv, PTL DEF Spec

================================================================================
