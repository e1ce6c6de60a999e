------------------------------ MODULE OutputMix ------------------------------
(***************************************************************************)
(* The combinational sums between the filters and the output of a channel: *)
(* the weighted echoes of hardware/earlyReverb.vhd, the eight comb filters *)
(* of hardware/lateReverb.vhd, and the sum and mix of reverbFPGA.vhd.      *)
(* h is the full scale of a sample.                                        *)
(***************************************************************************)
EXTENDS FixedPoint

Eight == 1 .. 8

(* The adder of eight operands, exactly.                                   *)
EightSum(f) == f[1] + f[2] + f[3] + f[4] + f[5] + f[6] + f[7] + f[8]

(* outputAdder of both files: the same in three more bits, of which the    *)
(* three lowest are cut off.                                               *)
EightAdder(f, h) == Wrap(EightSum(f), 8 * h)

EightMean(f, h) == EightAdder(f, h) \div 8

(* delayedInputs to dataOUT_earlyReverb; the weights, coefs, are eight      *)
(* coefficients from 1 down to one half.                                   *)
inputAdder(delayedInputs, weights, h) ==
  [i \in Eight |-> coefMult(delayedInputs[i], weights[i], h)]

dataOUT_earlyReverb(delayedInputs, weights, h) ==
  EightMean(inputAdder(delayedInputs, weights, h), h)

(* The early and the late reverb in one more bit, of which the lowest is   *)
(* cut off, and the output.                                                *)
sum_EarlyLate(early, late, h) == Wrap(early + late, 2 * h)

Wet(early, late, h) == sum_EarlyLate(early, late, h) \div 2

dataOUT(dataIN, early, late, mixValue, h) ==
  Wrap(BlendSum(dataIN, Wet(early, late, h), mixValue, h), h)

==============================================================================
