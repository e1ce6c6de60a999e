------------------------------ MODULE CombFilter ------------------------------
(***************************************************************************)
(* hardware/LFCF.vhd: the loop around two delay lines in series, which are *)
(* one queue here.  CombLines implements it with the lines themselves.     *)
(*                                                                         *)
(* The register of the filter is enabled at every clock of the tick        *)
(* (reverbFPGA.vhd:333), the last of which is at most the one that renews  *)
(* the output of the lines.  The settings can change at every clock.       *)
(***************************************************************************)
EXTENDS CombLoop

CONSTANT Cells    \* the samples in the two lines

ASSUME CellsAssumption == Cells \in Nat \ {0}

VARIABLES
  line,      \* the samples in the lines, the newest first
  renewed    \* the output is that of this sample

vars == <<line, secondDelayedOutputAdder, prevOutputAdder, clocks, renewed>>

Place == 0 .. Cells - 1

TypeOK ==
  /\ line \in [Place -> Signed(H)]
  /\ secondDelayedOutputAdder \in Signed(H)
  /\ prevOutputAdder \in Signed(H)
  /\ clocks \in 0 .. MaxClocks
  /\ renewed \in BOOLEAN

-----------------------------------------------------------------------------
(* The RAM blocks and registers of the FPGA power up with zeros. *)
Init ==
  /\ line = [i \in Place |-> 0]
  /\ secondDelayedOutputAdder = 0
  /\ prevOutputAdder = 0
  /\ clocks = 0
  /\ renewed = FALSE

(* A clock of the tick. *)
FilterClock(damping) ==
  /\ ~renewed /\ clocks < MaxClocks
  /\ clocks' = clocks + 1
  /\ prevOutputAdder' = outLPFilter(damping)
  /\ UNCHANGED <<line, secondDelayedOutputAdder, renewed>>

Renew ==
  /\ ~renewed /\ clocks > 0
  /\ renewed' = TRUE
  /\ secondDelayedOutputAdder' = line[Cells - 1]
  /\ UNCHANGED <<line, prevOutputAdder, clocks>>

Store(dataIN, damping, decay) ==
  /\ renewed
  /\ renewed' = FALSE /\ clocks' = 0
  /\ line' = [i \in Place |-> IF i = 0 THEN outputAdder(dataIN, damping, decay)
                                       ELSE line[i - 1]]
  /\ UNCHANGED <<secondDelayedOutputAdder, prevOutputAdder>>

(* rst clears the register of the filter.  It stops the lines at work: the *)
(* cells moved, any set here, have taken their neighbour's sample.         *)
Reset(moved) ==
  /\ renewed \/ moved = {}
  /\ prevOutputAdder' = 0
  /\ renewed' = FALSE /\ clocks' = 0
  /\ line' = [i \in Place |-> IF i \in moved THEN line[i - 1] ELSE line[i]]
  /\ UNCHANGED secondDelayedOutputAdder

Next ==
  \/ \E damping \in Damping : FilterClock(damping)
  \/ Renew
  \/ \E dataIN \in Input, damping \in Damping, decay \in Decay :
       Store(dataIN, damping, decay)
  \/ \E moved \in SUBSET (1 .. Cells - 1) : Reset(moved)

Spec == Init /\ [][Next]_vars

-----------------------------------------------------------------------------
(* LPF.vhd:33 - its sum has no extra bit and needs none: whatever the      *)
(* settings do from clock to clock, the truncated products of a            *)
(* coefficient and its complement never add up to more than full scale.    *)
FilterFits == \A damping \in Damping : FilterSum(damping) \in Signed(H)

(* LFCF.vhd:25 - one extra bit is enough for the loop when every sample    *)
(* leaves room for the full scale of the loop, weighted by the decay: any  *)
(* sample up to a decay of one half, one below 1-decay of the scale of the *)
(* loop beyond it.                                                         *)
Headroom ==
  \A dataIN \in Input, decay \in Decay :
    /\ 2 * dataIN + decay <= 2 * H - 2
    /\ 2 * dataIN - decay >= -2 * H

LoopFits ==
  Headroom => \A dataIN \in Input, damping \in Damping, decay \in Decay :
                LoopSum(dataIN, damping, decay) \in Signed(H)

(* What the filter can be louder than its input: its two products lose a   *)
(* unit that is fed back with the weight of damping.                       *)
Drift(damping) == 1 + (2 * H) \div (2 * H - damping)

(* The bounds on which the loop does not grow: b is left to room for what  *)
(* comes back from a line within b.                                        *)
Bounds ==
  { b \in 1 .. H - 1 :
      \A dataIN \in Input, damping \in Damping, decay \in Decay :
        /\ b + Drift(damping) < H
        /\ dataIN + 1 + ((b + Drift(damping)) * decay) \div (2 * H) <= b
        /\ 1 - dataIN + ((b + Drift(damping)) * decay) \div (2 * H) <= b }

(* The gain of the loop is 1/(1-decay): no history of samples, settings    *)
(* and resets makes the line louder than that and the drift allow.         *)
LineIsBounded ==
  \A b \in Bounds : \A i \in Place : line[i] \in -b .. b

(* LFCF.vhd:84 - the output, cut by the extra bit, is intact as long as    *)
(* the gain of 0.8 brings the loop back to the full scale of the samples.  *)
OutputFits ==
  (5 * X - 4) \div 4 \in Bounds => LLPFoutput \in Signed(X)

=============================================================================
