------------------------------- MODULE CombLoop -------------------------------
(***************************************************************************)
(* The sums of hardware/LFCF.vhd and of the LPF.vhd in its feedback: the   *)
(* output of the delay is filtered, weighted by the decay and added to the *)
(* input, in one bit more than the samples have.                           *)
(***************************************************************************)
EXTENDS FixedPoint

CONSTANTS
  X,        \* the full scale of dataIN, 2^(dataSize-1)
  Input,    \* the samples that come in
  Damping,  \* the words of dampingValue
  Decay,    \* the words of decayValue
  MaxClocks \* the clocks that a tick can last

(* nbrExtraBits = 1 *)
H == 2 * X

ASSUME FullScaleAssumption == X \in Nat /\ X >= 2 /\ X % 2 = 0

ASSUME LoopAssumption ==
  /\ MaxClocks \in Nat \ {0}
  /\ Input \subseteq Signed(X)
  /\ Damping \subseteq Coef(H) /\ Decay \subseteq Coef(H)

VARIABLES
  secondDelayedOutputAdder,  \* the output register of the second line
  prevOutputAdder,           \* the register of the filter
  clocks                     \* the clocks of the tick so far

(* Mutant of FilterSum: the feedback of the filter is not damped. *)
FilterSumUndamped(damping) ==
  coefMult(secondDelayedOutputAdder, Complement(damping, H), H) +
  prevOutputAdder

(* The sum of LPF.vhd, exact, and the signal that holds it. *)
FilterSum(damping) ==
  BlendSum(secondDelayedOutputAdder, prevOutputAdder, damping, H)

outLPFilter(damping) == Wrap(FilterSum(damping), H)

(* Mutant of LoopSum: the gain of the loop has one bit too many. *)
LoopSumDoubled(dataIN, damping, decay) ==
  dataIN + 2 * coefMult(outLPFilter(damping), decay, H)

(* The sum of LFCF.vhd, exact, and the signal that holds it. *)
LoopSum(dataIN, damping, decay) ==
  dataIN + coefMult(outLPFilter(damping), decay, H)

outputAdder(dataIN, damping, decay) == Wrap(LoopSum(dataIN, damping, decay), H)

(* Mutant of LLPFoutput: the gain of 0.8 is left out. *)
LLPFoutputLoud == secondDelayedOutputAdder

(* The gain of 0.8, in the bits of the loop; dataOUT has one bit less. *)
LLPFoutput == coefMult(secondDelayedOutputAdder, (4 * 2 * H) \div 5, H)

==============================================================================
