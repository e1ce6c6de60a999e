------------------------------- MODULE CombLines -------------------------------
(***************************************************************************)
(* hardware/LFCF.vhd with its two delay lines: each is a SampleDelay of    *)
(* half the length that the filter was given, and they share the tick and  *)
(* the reset.  The second line stores what the first one gave at this      *)
(* tick.  What becomes of the two as one queue is CombFilter.              *)
(***************************************************************************)
EXTENDS CombLoop

CONSTANT N_LFCF    \* the length of the filter, the generic N of LFCF.vhd

(* delayLine.vhd:10 - a line gives delays from five samples on. *)
LinesLength == N_LFCF \in Nat /\ N_LFCF \div 2 >= 5

VARIABLES
  line1, firstDelayedOutputAdder, phase1, len1,   \* the first line
  line2, phase2, len2                             \* the second one

lineVars1 == <<line1, firstDelayedOutputAdder, phase1, len1>>
lineVars2 == <<line2, secondDelayedOutputAdder, phase2, len2>>

linesVars == <<lineVars1, lineVars2, prevOutputAdder, clocks>>

delayLineOperator1 == INSTANCE SampleDelay
  WITH Ns_max <- N_LFCF \div 2, CurrentNs <- {N_LFCF \div 2}, Value <- Signed(H),
       line <- line1, out <- firstDelayedOutputAdder,
       phase <- phase1, len <- len1

delayLineOperator2 == INSTANCE SampleDelay
  WITH Ns_max <- N_LFCF \div 2, CurrentNs <- {N_LFCF \div 2}, Value <- Signed(H),
       line <- line2, out <- secondDelayedOutputAdder,
       phase <- phase2, len <- len2

(* The cells of each line: one less than the delay that it gives. *)
M == N_LFCF \div 2 - 1

-----------------------------------------------------------------------------
(* Everything powers up with zeros. *)
LinesInit ==
  /\ line1 = [a \in 0 .. M - 1 |-> 0] /\ line2 = line1
  /\ firstDelayedOutputAdder = 0 /\ secondDelayedOutputAdder = 0
  /\ delayLineOperator1!Init /\ delayLineOperator2!Init
  /\ prevOutputAdder = 0 /\ clocks = 0

(* A clock of the tick, the first of which both lines take. *)
LinesClock(damping) ==
  /\ clocks < MaxClocks /\ clocks' = clocks + 1
  /\ prevOutputAdder' = outLPFilter(damping)
  /\ \/ /\ clocks = 0
        /\ delayLineOperator1!Take(N_LFCF \div 2)
        /\ delayLineOperator2!Take(N_LFCF \div 2)
     \/ /\ clocks > 0
        /\ phase1 = "taken" /\ phase2 = "taken"
        /\ UNCHANGED <<lineVars1, lineVars2>>

LinesRenew ==
  /\ delayLineOperator1!Renew
  /\ delayLineOperator2!Renew
  /\ UNCHANGED <<prevOutputAdder, clocks>>

LinesStore(dataIN, damping, decay) ==
  /\ delayLineOperator1!Store(outputAdder(dataIN, damping, decay))
  /\ delayLineOperator2!Store(firstDelayedOutputAdder)
  /\ clocks' = 0
  /\ UNCHANGED prevOutputAdder

(* rst finds both lines at the same cell of their shifts, or waiting.      *)
LinesReset(a) ==
  /\ prevOutputAdder' = 0 /\ clocks' = 0
  /\ \/ delayLineOperator1!Abort(a) /\ delayLineOperator2!Abort(a)
     \/ /\ phase1 = "ready" /\ phase2 = "ready"
        /\ UNCHANGED <<lineVars1, lineVars2>>

LinesNext ==
  \/ \E damping \in Damping : LinesClock(damping)
  \/ LinesRenew
  \/ \E dataIN \in Input, damping \in Damping, decay \in Decay :
       LinesStore(dataIN, damping, decay)
  \/ \E a \in 1 .. M : LinesReset(a)

LinesSpec == LinesInit /\ [][LinesNext]_linesVars

-----------------------------------------------------------------------------
(* The two lines as one, the cells of the second behind those of the first *)
BothLines ==
  [i \in 0 .. 2 * M - 1 |-> IF i < M THEN line1[i] ELSE line2[i - M]]

Queue == INSTANCE CombFilter
  WITH Cells <- 2 * M, line <- BothLines, renewed <- phase1 = "renewed"

(* LFCF.vhd:58-75 - the two lines of a filter are one queue of twice their *)
(* cells: two samples fewer than N_LFCF, three if that is odd.  No sample  *)
(* is lost or passed on twice between them, and a reset in the middle of   *)
(* both shifts does to them what it does to the queue.                     *)
TwoLinesAreOneQueue == Queue!Spec

=============================================================================
