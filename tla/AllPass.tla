-------------------------------- MODULE AllPass --------------------------------
(***************************************************************************)
(* hardware/APF.vhd: a delay line whose input is fed back from its output, *)
(* in two bits more than the samples have.  The line is SampleDelay, with  *)
(* the delay it was built for; the sums are combinational, and the input   *)
(* dataIN that they see when the line stores is any sample.                *)
(***************************************************************************)
EXTENDS FixedPoint

CONSTANTS
  X,       \* the full scale of dataIN, 2^(dataSize-1)
  Delay,   \* generic N: the delay
  Input    \* the samples that come in

ASSUME FullScaleAssumption == X \in Nat /\ X >= 2 /\ X % 2 = 0

ASSUME DelayAssumption == Delay \in Nat /\ Delay >= 5

ASSUME InputAssumption == Input \subseteq Signed(X)

VARIABLES line, out, phase, len

vars == <<line, out, phase, len>>

(* nbrExtraBits = 2 *)
Word == Signed(4 * X)

delayLineOperator == INSTANCE SampleDelay
                       WITH Ns_max <- Delay, Value <- Word, CurrentNs <- {Delay}

-----------------------------------------------------------------------------
(* The exact value of every sum, and the signal that holds it. *)
SumInput(dataIN) == dataIN + Half(dataIN)

(* Mutant of Sum2: the input is added to the output of the line. *)
Sum2Added(dataIN) == out + dataIN

Sum2(dataIN) == out - dataIN

outputAdder2(dataIN) == Wrap(Sum2(dataIN), 4 * X)

(* Mutant of Sum1: the feedback is shifted the wrong way. *)
Sum1Doubled(dataIN) == Wrap(SumInput(dataIN), 4 * X) + 2 * outputAdder2(dataIN)

Sum1(dataIN) == Wrap(SumInput(dataIN), 4 * X) + Half(outputAdder2(dataIN))

outputAdder1(dataIN) == Wrap(Sum1(dataIN), 4 * X)

(* The gain of 0.84, in the bits of the sum. *)
reductionGain(dataIN) ==
  coefMult(outputAdder2(dataIN), (21 * 8 * X) \div 25, 4 * X)

(* The RAM blocks and registers of the FPGA power up with zeros. *)
Init ==
  /\ line = [i \in delayLineOperator!Addr |-> 0] /\ out = 0
  /\ delayLineOperator!Init

Take == delayLineOperator!Take(Delay)

Renew == delayLineOperator!Renew

Store(dataIN) == delayLineOperator!Store(outputAdder1(dataIN))

Abort(a) == delayLineOperator!Abort(a)

Next ==
  \/ Take
  \/ Renew
  \/ \E dataIN \in Input : Store(dataIN)
  \/ \E a \in 1 .. len : Abort(a)

Spec == Init /\ [][Next]_vars

-----------------------------------------------------------------------------
TypeOK == delayLineOperator!TypeOK

(* The line never holds more than twice the loudest sample that came in.   *)
LineIsBounded ==
  \A b \in 0 .. X :
    Input \subseteq -b .. b =>
      /\ line \in [delayLineOperator!Addr -> -(2 * b) .. 2 * b]
      /\ out \in -(2 * b) .. 2 * b

(* APF.vhd:22 - the two extra bits are enough: no sum of the loop wraps,   *)
(* whatever samples have come in.                                          *)
LoopFits ==
  \A dataIN \in Input :
    /\ SumInput(dataIN) \in Word
    /\ Sum2(dataIN) \in Word
    /\ Sum1(dataIN) \in Word

(* The samples stay within 25/63 of full scale: 1/0.84 of a third of it.   *)
Quiet ==
  \A dataIN \in Input : 63 * dataIN < 25 * X /\ 63 * dataIN > -(25 * X)

(* APF.vhd:55-60 - the output, cut to the bits of a sample, is intact as   *)
(* long as the samples are quiet.                                          *)
OutputFits ==
  Quiet => \A dataIN \in Input : reductionGain(dataIN) \in Signed(X)

===============================================================================
