--------------------------- MODULE DelayLineProofs ---------------------------
(***************************************************************************)
(* What is proved about DelayLine, for every Ns_max of at least 5, every   *)
(* set of samples and every set of delays that fit the line: its types,    *)
(* its pipeline, its timing, and that it implements SampleDelay.           *)
(***************************************************************************)
EXTENDS DelayLine, TLAPS

-----------------------------------------------------------------------------
(* An edge of clk50M is the RAM's step and exactly one of these steps.     *)
LEMMA EdgeCases ==
  ASSUME Next
  PROVE  /\ RamEdge
         /\ \/ Reset
            \/ Wait
            \/ \E currentN \in CurrentNs : Sample(currentN)
            \/ PullAddress
            \/ PullOutput
            \/ Shift
            \/ EndPipeline
            \/ \E dataIN \in Value : Push(dataIN)
BY DEF Next, Clock

(* The words of the RAM: one less than the delay, at least four. *)
LEMMA NFacts == N \in Nat /\ N >= 4 /\ N = Ns_max - 1
BY NsMaxAssumption DEF N

(* What the bounds of currentN and of the addresses amount to. *)
LEMMA CurrentNFacts ==
  ASSUME NEW currentN \in CurrentNs
  PROVE  currentN \in Nat /\ currentN - 1 \in 4 .. N
BY CurrentNsAssumption, NsMaxAssumption, NFacts

(* The RAM's step keeps its words samples. *)
LEMMA RamTyped ==
  ASSUME TypeOK, RamEdge
  PROVE  ram_block' \in [Addr -> Value] /\ rd_data' \in Value
BY DEF TypeOK, RamEdge

-----------------------------------------------------------------------------
(* The two facts that hold of every state: every register stays in the     *)
(* range its declaration gives it, and the pipeline is in order.  The      *)
(* ranges depend on the pipeline (an address is decremented because the    *)
(* pipeline knows it is not the last), so the two are proved together.     *)
IInv == TypeOK /\ PipelineInv

(* The registers power up in a state of the invariant. *)
LEMMA InitIInv == Init => IInv
BY NFacts DEF Init, IInv, TypeOK, PipelineInv, Addr, ShiftStates

(* One step for each branch of the process: the ranges are kept. *)
LEMMA StepTypeOK ==
  ASSUME IInv, [Next]_vars
  PROVE  TypeOK'
<1> USE NFacts DEF Addr, ShiftStates
<1>1. CASE UNCHANGED vars
  BY <1>1 DEF IInv, TypeOK, vars, fsmVars, ramVars
<1>2. CASE Next
  <2>1. TypeOK /\ PipelineInv /\ RamEdge
    BY <1>2, EdgeCases DEF IInv
  <2>2. ram_block' \in [Addr -> Value] /\ rd_data' \in Value
    BY <2>1, RamTyped
  <2>3. CASE Reset
    BY <2>1, <2>2, <2>3 DEF TypeOK, Reset
  <2>4. CASE Wait
    BY <2>1, <2>2, <2>4 DEF TypeOK, Wait
  <2>5. CASE \E currentN \in CurrentNs : Sample(currentN)
    <3>1. PICK currentN \in CurrentNs : Sample(currentN)
      BY <2>5
    <3>2. currentN \in Nat /\ currentN - 1 \in 4 .. N
      BY CurrentNFacts
    <3>3. QED
      BY <2>1, <2>2, <3>1, <3>2 DEF TypeOK, Sample
  <2>6. CASE PullAddress
    BY <2>1, <2>2, <2>6 DEF TypeOK, PipelineInv, PullAddress
  <2>7. CASE PullOutput
    BY <2>1, <2>2, <2>7 DEF TypeOK, PipelineInv, PullOutput
  <2>8. CASE Shift
    BY <2>1, <2>2, <2>8 DEF TypeOK, PipelineInv, Shift
  <2>9. CASE EndPipeline
    BY <2>1, <2>2, <2>9 DEF TypeOK, PipelineInv, EndPipeline
  <2>10. CASE \E dataIN \in Value : Push(dataIN)
    BY <2>1, <2>2, <2>10 DEF TypeOK, PipelineInv, Push
  <2>11. QED
    BY <1>2, EdgeCases, <2>3, <2>4, <2>5, <2>6, <2>7, <2>8, <2>9, <2>10
<1>3. QED
  BY <1>1, <1>2

(* One step for each branch of the process: the pipeline stays in order. *)
LEMMA StepPipelineInv ==
  ASSUME IInv, [Next]_vars
  PROVE  PipelineInv'
<1> USE NFacts DEF Addr, ShiftStates
<1>1. CASE UNCHANGED vars
  BY <1>1 DEF IInv, PipelineInv, vars, fsmVars, ramVars
<1>2. CASE Next
  <2>1. TypeOK /\ PipelineInv /\ RamEdge
    BY <1>2, EdgeCases DEF IInv
  <2>3. CASE Reset
    BY <2>3 DEF PipelineInv, Reset
  <2>4. CASE Wait
    BY <2>4 DEF PipelineInv, Wait
  <2>5. CASE \E currentN \in CurrentNs : Sample(currentN)
    BY <2>1, <2>5, CurrentNFacts DEF TypeOK, PipelineInv, Sample, RamEdge
  <2>6. CASE PullAddress
    BY <2>1, <2>6 DEF TypeOK, PipelineInv, PullAddress, RamEdge
  <2>7. CASE PullOutput
    BY <2>1, <2>7 DEF TypeOK, PipelineInv, PullOutput, RamEdge
  <2>8. CASE Shift
    BY <2>1, <2>8 DEF TypeOK, PipelineInv, Shift, RamEdge
  <2>9. CASE EndPipeline
    BY <2>1, <2>9 DEF TypeOK, PipelineInv, EndPipeline, RamEdge
  <2>10. CASE \E dataIN \in Value : Push(dataIN)
    BY <2>10 DEF PipelineInv, Push
  <2>11. QED
    BY <1>2, EdgeCases, <2>3, <2>4, <2>5, <2>6, <2>7, <2>8, <2>9, <2>10
<1>3. QED
  BY <1>1, <1>2

(* Ranges and order of the pipeline are inductive together. *)
LEMMA IInvariance == Spec => []IInv
<1>1. IInv /\ [Next]_vars => IInv'
  BY StepTypeOK, StepPipelineInv DEF IInv
<1>2. QED
  BY InitIInv, <1>1, PTL DEF Spec

(* Every signal and variable of delayLine.vhd and RAM.vhd stays in the     *)
(* range of its declaration, as long as currentN stays within Ns_max: no   *)
(* address underflows at the end of a shift or leaves the RAM.             *)
THEOREM TypeCorrect == Spec => []TypeOK
BY IInvariance, PTL DEF IInv

(* The read/write pipeline is in order in every state (PipelineInv). *)
THEOREM PipelineInOrder == Spec => []PipelineInv
BY IInvariance, PTL DEF IInv

(* The pipeline never needs the RAM to read the old word of an address     *)
(* that is being written.                                                  *)
THEOREM ReadsAvoidWrites == Spec => []NoReadDuringWrite
<1>1. IInv => NoReadDuringWrite
  BY NFacts DEF IInv, TypeOK, PipelineInv, NoReadDuringWrite, ShiftStates, Addr
<1>2. QED
  BY <1>1, IInvariance, PTL

(* No edge makes the line wait, loop or stop halfway: the edges left to    *)
(* idle go down by one at each, from currentN + 1 at the tick.             *)
THEOREM BusyTimeHolds == Spec => BusyTime
<1> USE NFacts DEF ShiftStates, Addr
<1> DEFINE Countdown ==
      IF shiftState = "idle"
        THEN EdgesToIdle' \in {0, currentN_valid' + 2}
        ELSE EdgesToIdle' \in {0, EdgesToIdle - 1}
<1>1. ASSUME IInv, Next PROVE Countdown
  <2>1. TypeOK /\ PipelineInv
    BY <1>1 DEF IInv
  <2>2. CASE Reset
    BY <2>1, <2>2 DEF TypeOK, Reset, EdgesToIdle
  <2>3. CASE Wait
    BY <2>1, <2>3 DEF TypeOK, Wait, EdgesToIdle
  <2>4. CASE \E currentN \in CurrentNs : Sample(currentN)
    <3>1. PICK currentN \in CurrentNs : Sample(currentN)
      BY <2>4
    <3>2. currentN_valid' \in Nat
      BY <3>1, CurrentNFacts DEF Sample
    <3>3. QED
      BY <3>1, <3>2 DEF Sample, EdgesToIdle
  <2>5. CASE PullAddress
    BY <2>1, <2>5 DEF TypeOK, PullAddress, EdgesToIdle
  <2>6. CASE PullOutput
    BY <2>1, <2>6 DEF TypeOK, PipelineInv, PullOutput, EdgesToIdle
  <2>7. CASE Shift
    BY <2>1, <2>7 DEF TypeOK, PipelineInv, Shift, EdgesToIdle
  <2>8. CASE EndPipeline
    BY <2>1, <2>8 DEF TypeOK, EndPipeline, EdgesToIdle
  <2>9. CASE \E dataIN \in Value : Push(dataIN)
    BY <2>1, <2>9 DEF TypeOK, Push, EdgesToIdle
  <2>10. QED
    BY <1>1, EdgeCases, <2>2, <2>3, <2>4, <2>5, <2>6, <2>7, <2>8, <2>9
<1>2. IInv /\ [Next]_vars => [Countdown]_vars
  BY <1>1
<1>3. QED
  BY <1>2, IInvariance, PTL DEF Spec, BusyTime

-----------------------------------------------------------------------------
(* DelayLine implements SampleDelay: every edge of clk50M is, on the line  *)
(* read back by LineBeforeShift, a step of SampleDelay or a stutter.  The  *)
(* cells that the pipeline has already copied up and those it has not are  *)
(* told apart by ShiftedFromAddr, so the one thing to show of every edge   *)
(* of the shift is that moving this border by one cell and landing one     *)
(* write leave LineBeforeShift as it was.                                  *)

(* After an edge the RAM is what Merged said before it. *)
LEMMA RamBecomesMerged ==
  ASSUME RamEdge
  PROVE  ram_block' = Merged
BY DEF RamEdge, Merged

(* One cell of Merged, by the write that is about to land. *)
LEMMA MergedCell ==
  ASSUME TypeOK, NEW a \in Addr
  PROVE  Merged[a] = IF we = 1 /\ a = wr_addr THEN wr_data ELSE ram_block[a]
BY DEF TypeOK, Merged

(* The same in the next state. *)
LEMMA NextMergedCell ==
  ASSUME TypeOK, TypeOK', RamEdge, NEW a \in Addr
  PROVE  Merged'[a] = IF we' = 1 /\ a = wr_addr' THEN wr_data' ELSE Merged[a]
BY RamBecomesMerged DEF TypeOK, Merged

(* A line that no write has reached yet is the RAM with its last write     *)
(* landed.                                                                 *)
LEMMA UnshiftedLine ==
  ASSUME TypeOK, shiftState \in {"idle", "pull"}
  PROVE  LineBeforeShift = Merged
<1>1. \A a \in Addr : LineBeforeShift[a] = Merged[a]
  BY NFacts DEF LineBeforeShift, ShiftedFromAddr, Addr
<1>2. Merged \in [Addr -> Value]
  BY DEF TypeOK, Merged
<1>3. QED
  BY <1>1, <1>2 DEF LineBeforeShift

(* The same in the next state. *)
LEMMA NextUnshiftedLine ==
  ASSUME TypeOK', shiftState' \in {"idle", "pull"}
  PROVE  LineBeforeShift' = Merged'
<1>1. \A a \in Addr : LineBeforeShift'[a] = Merged'[a]
  BY NFacts DEF LineBeforeShift, ShiftedFromAddr, Addr
<1>2. Merged' \in [Addr -> Value]
  BY DEF TypeOK, Merged
<1>3. QED
  BY <1>1, <1>2 DEF LineBeforeShift

-----------------------------------------------------------------------------
(* The edges that leave the line as it was. *)

(* No write is launched while the line is idle or pulls its output. *)
LEMMA QuietEdge ==
  ASSUME TypeOK, TypeOK', RamEdge, we' = 0,
         shiftState \in {"idle", "pull"}, shiftState' \in {"idle", "pull"}
  PROVE  LineBeforeShift' = LineBeforeShift
<1>1. Merged' = Merged
  BY RamBecomesMerged DEF Merged
<1>2. QED
  BY <1>1, UnshiftedLine, NextUnshiftedLine

(* The edge that renews dataOUT moves no cell, and what the lost last cell *)
(* held is what dataOUT shows.                                             *)
LEMMA PullOutputLine ==
  ASSUME TypeOK, PipelineInv, TypeOK', RamEdge, PullOutput
  PROVE  LineBeforeShift' = LineBeforeShift /\ dataOUT' = LineBeforeShift[currentN_valid - 1]
<1> USE NFacts DEF Addr
<1>1. we = 0 /\ we' = 0 /\ Merged = ram_block
  BY DEF PipelineInv, PullOutput, Merged
<1>2. ShiftedFromAddr' = currentN_valid /\ currentN_valid' = currentN_valid
  BY DEF TypeOK, PipelineInv, PullOutput, ShiftedFromAddr
<1>3. \A a \in Addr : LineBeforeShift'[a] = LineBeforeShift[a]
  <2> SUFFICES ASSUME NEW a \in Addr
               PROVE  LineBeforeShift'[a] = LineBeforeShift[a]
    OBVIOUS
  <2>1. LineBeforeShift[a] = Merged[a]
    BY UnshiftedLine DEF PullOutput
  <2>2. LineBeforeShift'[a] = Merged'[a]
    BY <1>2 DEF LineBeforeShift, TypeOK
  <2>3. QED
    BY <2>1, <2>2, <1>1, NextMergedCell
<1>4. dataOUT' = LineBeforeShift[currentN_valid - 1]
  BY <1>1, UnshiftedLine DEF PullOutput, PipelineInv, TypeOK
<1>5. QED
  BY <1>3, <1>4 DEF LineBeforeShift

(* What an edge of the shift does to the border b: it moves down by one,   *)
(* and the write launched there will carry the sample of the cell below.   *)
BorderMoves(b) ==
  /\ b \in 2 .. currentN_valid
  /\ ShiftedFromAddr = b /\ ShiftedFromAddr' = b - 1
  /\ currentN_valid' = currentN_valid /\ dataOUT' = dataOUT
  /\ we' = 1 /\ wr_addr' = b - 1 /\ wr_data' = ram_block[b - 2]
  /\ IF b = currentN_valid
       THEN we = 0 /\ dataOUT = ram_block[b - 1]
       ELSE we = 1 /\ wr_addr = b /\ wr_data = ram_block[b - 1]

(* An edge of shift lands at most the write that was launched before it,   *)
(* and the border of the shifted cells moves down with it.                 *)
LEMMA ShiftBorder ==
  ASSUME TypeOK, PipelineInv, Shift
  PROVE  BorderMoves(read_addr_pipeline + 4)
<1> USE NFacts DEF Addr
<1> DEFINE b == read_addr_pipeline + 4
<1>1. b \in 4 .. currentN_valid /\ b - 1 = read_addr_pipeline + 3 /\ b - 2 = read_addr_pipeline + 2
  BY DEF TypeOK, PipelineInv, Shift
<1>2. ShiftedFromAddr = b
  BY DEF ShiftedFromAddr, Shift
<1>3. ShiftedFromAddr' = b - 1
  BY DEF TypeOK, PipelineInv, Shift, ShiftedFromAddr
<1>4. /\ currentN_valid' = currentN_valid /\ dataOUT' = dataOUT
      /\ we' = 1 /\ wr_addr' = b - 1 /\ wr_data' = ram_block[b - 2]
  BY <1>1 DEF Shift, PipelineInv
<1>5. IF b = currentN_valid
        THEN we = 0 /\ dataOUT = ram_block[b - 1]
        ELSE we = 1 /\ wr_addr = b /\ wr_data = ram_block[b - 1]
  BY DEF TypeOK, PipelineInv, Shift
<1>6. QED
  BY <1>1, <1>2, <1>3, <1>4, <1>5 DEF BorderMoves

(* So do the edges that drain the pipeline. *)
LEMMA EndPipelineBorder ==
  ASSUME TypeOK, PipelineInv, EndPipeline
  PROVE  BorderMoves(3 - cnt)
<1> USE NFacts DEF Addr
<1> DEFINE b == 3 - cnt
<1>1. b \in 2 .. 3 /\ b < currentN_valid /\ b - 1 = 2 - cnt /\ b - 2 = 1 - cnt
  BY DEF TypeOK, PipelineInv, EndPipeline
<1>2. ShiftedFromAddr = b
  BY DEF ShiftedFromAddr, EndPipeline
<1>3. ShiftedFromAddr' = b - 1
  BY DEF TypeOK, PipelineInv, EndPipeline, ShiftedFromAddr
<1>4. /\ currentN_valid' = currentN_valid /\ dataOUT' = dataOUT
      /\ we' = 1 /\ wr_addr' = b - 1 /\ wr_data' = ram_block[b - 2]
  BY <1>1 DEF EndPipeline, PipelineInv
<1>5. we = 1 /\ wr_addr = b /\ wr_data = ram_block[b - 1]
  BY DEF TypeOK, PipelineInv, EndPipeline
<1>6. QED
  BY <1>1, <1>2, <1>3, <1>4, <1>5 DEF BorderMoves, TypeOK

(* The write lands on the cell below the border, and carries what that     *)
(* cell's neighbour goes on holding for LineBeforeShift.                   *)
LEMMA BorderEdge ==
  ASSUME TypeOK, TypeOK', RamEdge, NEW b, BorderMoves(b)
  PROVE  LineBeforeShift' = LineBeforeShift
<1> USE NFacts DEF Addr
<1>1. /\ b \in 2 .. currentN_valid /\ currentN_valid \in 4 .. N
      /\ ram_block \in [Addr -> Value]
  BY DEF BorderMoves, TypeOK
<1>2. \A a \in Addr :
        LineBeforeShift[a] = IF a < b \/ a >= currentN_valid THEN Merged[a]
                             ELSE IF a = currentN_valid - 1 THEN dataOUT
                             ELSE Merged[a + 1]
  BY DEF LineBeforeShift, BorderMoves
<1>3. \A a \in Addr :
        LineBeforeShift'[a] = IF a < b - 1 \/ a >= currentN_valid THEN Merged'[a]
                              ELSE IF a = currentN_valid - 1 THEN dataOUT
                              ELSE Merged'[a + 1]
  BY DEF LineBeforeShift, BorderMoves
<1>4. \A a \in Addr : Merged'[a] = IF a = b - 1 THEN ram_block[b - 2] ELSE Merged[a]
  BY NextMergedCell DEF BorderMoves
<1>5. \A a \in Addr : LineBeforeShift'[a] = LineBeforeShift[a]
  <2> SUFFICES ASSUME NEW a \in Addr
               PROVE  LineBeforeShift'[a] = LineBeforeShift[a]
    OBVIOUS
  <2>1. CASE a = b - 1
    <3>1. CASE b = currentN_valid
      <4>1. Merged[a] = dataOUT
        BY <1>1, <2>1, <3>1, MergedCell DEF BorderMoves
      <4>2. QED
        BY <1>1, <1>2, <1>3, <2>1, <3>1, <4>1
    <3>2. CASE b # currentN_valid
      <4>1. b \in Addr /\ Merged[b] = ram_block[b - 1] /\ Merged[b - 1] = ram_block[b - 1]
        BY <1>1, <3>2, MergedCell DEF BorderMoves
      <4>2. QED
        BY <1>1, <1>2, <1>3, <1>4, <2>1, <3>2, <4>1
    <3>3. QED
      BY <3>1, <3>2
  <2>2. CASE a # b - 1
    BY <1>1, <1>2, <1>3, <1>4, <2>2
  <2>3. QED
    BY <2>1, <2>2
<1>6. QED
  BY <1>5 DEF LineBeforeShift

-----------------------------------------------------------------------------
(* The edges that end a shift, whole or aborted: what they leave in the    *)
(* RAM is the line shifted from the border on.                             *)

(* From the border on the RAM holds the line shifted by one cell. *)
LEMMA ShiftedLine ==
  ASSUME TypeOK, PipelineInv, shiftState \in {"shift", "endPipeline", "push"}
  PROVE  /\ ShiftedFromAddr \in 1 .. currentN_valid
         /\ Abstract!ShiftedFrom(LineBeforeShift, currentN_valid, ShiftedFromAddr) = Merged
<1> USE NFacts DEF Addr
<1> DEFINE b == ShiftedFromAddr
<1>1. b \in 1 .. currentN_valid /\ currentN_valid \in 4 .. N
  <2>1. CASE shiftState = "shift"
    BY <2>1 DEF TypeOK, PipelineInv, ShiftedFromAddr
  <2>2. CASE shiftState = "endPipeline"
    BY <2>2 DEF TypeOK, PipelineInv, ShiftedFromAddr
  <2>3. CASE shiftState = "push"
    BY <2>3 DEF TypeOK, PipelineInv, ShiftedFromAddr
  <2>4. QED
    BY <2>1, <2>2, <2>3
<1>2. b < currentN_valid => we = 1 /\ wr_addr = b /\ wr_data = ram_block[b - 1]
  <2>1. CASE shiftState = "shift"
    BY <2>1 DEF TypeOK, PipelineInv, ShiftedFromAddr
  <2>2. CASE shiftState = "endPipeline"
    BY <2>2 DEF TypeOK, PipelineInv, ShiftedFromAddr
  <2>3. CASE shiftState = "push"
    BY <2>3 DEF TypeOK, PipelineInv, ShiftedFromAddr
  <2>4. QED
    BY <2>1, <2>2, <2>3
<1>3. b < currentN_valid => Merged[b] = Merged[b - 1]
  BY <1>1, <1>2, MergedCell
<1> HIDE DEF b
<1>4. \A a \in Addr :
        LineBeforeShift[a] = IF a < b \/ a >= currentN_valid THEN Merged[a]
                             ELSE IF a = currentN_valid - 1 THEN dataOUT
                             ELSE Merged[a + 1]
  BY DEF LineBeforeShift, b
<1> DEFINE S == [i \in Addr |-> IF b <= i /\ i < currentN_valid
                                  THEN LineBeforeShift[i - 1] ELSE LineBeforeShift[i]]
<1>5. \A i \in Addr : S[i] = Merged[i]
  <2> SUFFICES ASSUME NEW i \in Addr PROVE S[i] = Merged[i]
    OBVIOUS
  <2>1. CASE b <= i /\ i < currentN_valid
    <3>1. i - 1 \in Addr /\ S[i] = LineBeforeShift[i - 1]
      BY <1>1, <2>1
    <3>2. CASE i = b
      BY <1>1, <1>3, <1>4, <2>1, <3>1, <3>2
    <3>3. CASE i # b
      BY <1>1, <1>4, <2>1, <3>1, <3>3
    <3>4. QED
      BY <3>2, <3>3
  <2>2. CASE ~(b <= i /\ i < currentN_valid)
    BY <1>1, <1>4, <2>2
  <2>3. QED
    BY <2>1, <2>2
<1>6. S = Merged
  <2>1. Merged \in [Addr -> Value]
    BY DEF TypeOK, Merged
  <2>2. QED
    BY <1>5, <2>1
<1>7. Abstract!ShiftedFrom(LineBeforeShift, currentN_valid, b) = S
  BY DEF Abstract!ShiftedFrom, Abstract!Addr, Abstract!N, N
<1>8. QED
  BY <1>1, <1>6, <1>7 DEF b

(* The last write of the shift is the new sample, at the head. *)
LEMMA PushLine ==
  ASSUME TypeOK, PipelineInv, TypeOK', RamEdge, NEW dataIN \in Value, Push(dataIN)
  PROVE  LineBeforeShift' =
           [Abstract!ShiftedFrom(LineBeforeShift, currentN_valid, 1) EXCEPT ![0] = dataIN]
<1>1. ShiftedFromAddr = 1
  BY DEF ShiftedFromAddr, Push
<1>2. Abstract!ShiftedFrom(LineBeforeShift, currentN_valid, 1) = Merged
  BY <1>1, ShiftedLine DEF Push
<1>3. LineBeforeShift' = Merged'
  BY NextUnshiftedLine DEF Push
<1>4. Merged' = [Merged EXCEPT ![0] = dataIN]
  BY RamBecomesMerged DEF Push, PipelineInv, Merged
<1>5. QED
  BY <1>2, <1>3, <1>4

(* A reset lands the write under way, launches no other and forgets that   *)
(* the cells below the border have not moved.                              *)
LEMMA ResetLine ==
  ASSUME TypeOK, PipelineInv, TypeOK', RamEdge, Reset, shiftState # "idle"
  PROVE  \E a \in 1 .. currentN_valid :
           /\ shiftState = "pull" => a = currentN_valid
           /\ LineBeforeShift' = Abstract!ShiftedFrom(LineBeforeShift, currentN_valid, a)
<1> USE NFacts DEF Addr
<1>1. LineBeforeShift' = Merged
  <2>1. LineBeforeShift' = Merged'
    BY NextUnshiftedLine DEF Reset
  <2>2. Merged' = Merged
    BY RamBecomesMerged DEF Merged, Reset
  <2>3. QED
    BY <2>1, <2>2
<1>2. CASE shiftState = "pull"
  <2>1. LineBeforeShift = Merged /\ currentN_valid \in 4 .. N
    BY <1>2, UnshiftedLine DEF TypeOK
  <2>2. Merged \in [Addr -> Value]
    BY DEF TypeOK, Merged
  <2>3. Abstract!ShiftedFrom(Merged, currentN_valid, currentN_valid) = Merged
    BY <2>1, <2>2 DEF Abstract!ShiftedFrom, Abstract!Addr, Abstract!N, N
  <2>4. QED
    BY <1>1, <2>1, <2>3
<1>3. CASE shiftState # "pull"
  BY <1>1, <1>3, ShiftedLine DEF TypeOK, ShiftStates
<1>4. QED
  BY <1>2, <1>3

-----------------------------------------------------------------------------
(* The initial states of the code are initial states of SampleDelay. *)
LEMMA InitMapped == Init => Abstract!Init
<1> SUFFICES ASSUME Init PROVE Abstract!Init
  OBVIOUS
<1>1. TypeOK
  BY InitIInv DEF IInv
<1>2. LineBeforeShift \in [Addr -> Value]
  <2>1. LineBeforeShift = Merged
    BY <1>1, UnshiftedLine DEF Init
  <2>2. QED
    BY <1>1, <2>1 DEF TypeOK, Merged
<1>3. QED
  BY <1>2 DEF Init, Phase, Abstract!Init, Abstract!Addr, Abstract!N, Addr, N

(* Every edge of clk50M is a step of SampleDelay or leaves it alone. *)
LEMMA StepMapped ==
  ASSUME IInv, IInv', [Next]_vars
  PROVE  [Abstract!Next]_(Abstract!vars)
<1>1. CASE UNCHANGED vars
  BY <1>1 DEF vars, fsmVars, ramVars, Abstract!vars, LineBeforeShift,
     ShiftedFromAddr, Merged, Phase
<1>2. CASE Next
  <2>1. TypeOK /\ PipelineInv /\ TypeOK' /\ RamEdge
    BY <1>2, EdgeCases DEF IInv
  <2>2. CASE Reset
    <3>1. CASE shiftState = "idle"
      <4>1. LineBeforeShift' = LineBeforeShift
        BY <2>1, <2>2, <3>1, QuietEdge DEF Reset
      <4>2. QED
        BY <2>2, <3>1, <4>1 DEF Reset, Phase, Abstract!vars
    <3>2. CASE shiftState # "idle"
      <4>1. PICK a \in 1 .. currentN_valid :
              /\ shiftState = "pull" => a = currentN_valid
              /\ LineBeforeShift' = Abstract!ShiftedFrom(LineBeforeShift, currentN_valid, a)
        BY <2>1, <2>2, <3>2, ResetLine
      <4>2. Abstract!Abort(a)
        BY <2>2, <3>2, <4>1 DEF Reset, Phase, Abstract!Abort
      <4>3. QED
        BY <4>2 DEF Abstract!Next
    <3>3. QED
      BY <3>1, <3>2
  <2>3. CASE Wait
    <3>1. LineBeforeShift' = LineBeforeShift
      BY <2>1, <2>3, QuietEdge DEF Wait
    <3>2. QED
      BY <2>3, <3>1 DEF Wait, Phase, Abstract!vars
  <2>4. CASE \E currentN \in CurrentNs : Sample(currentN)
    <3>1. PICK currentN \in CurrentNs : Sample(currentN)
      BY <2>4
    <3>2. LineBeforeShift' = LineBeforeShift
      BY <2>1, <3>1, QuietEdge DEF Sample
    <3>3. Abstract!Take(currentN)
      BY <3>1, <3>2 DEF Sample, Phase, Abstract!Take
    <3>4. QED
      BY <3>3 DEF Abstract!Next
  <2>5. CASE PullAddress
    <3>1. we' = 0
      BY <2>1, <2>5 DEF PullAddress, PipelineInv
    <3>2. LineBeforeShift' = LineBeforeShift
      BY <2>1, <2>5, <3>1, QuietEdge DEF PullAddress
    <3>3. QED
      BY <2>5, <3>2 DEF PullAddress, Phase, Abstract!vars
  <2>6. CASE PullOutput
    <3>1. /\ LineBeforeShift' = LineBeforeShift
          /\ dataOUT' = LineBeforeShift[currentN_valid - 1]
      BY <2>1, <2>6, PullOutputLine
    <3>2. Abstract!Renew
      BY <2>6, <3>1 DEF PullOutput, Phase, Abstract!Renew
    <3>3. QED
      BY <3>2 DEF Abstract!Next
  <2>7. CASE Shift \/ EndPipeline
    <3>1. LineBeforeShift' = LineBeforeShift
      <4>1. CASE Shift
        BY <2>1, <4>1, ShiftBorder, BorderEdge
      <4>2. CASE EndPipeline
        BY <2>1, <4>2, EndPipelineBorder, BorderEdge
      <4>3. QED
        BY <2>7, <4>1, <4>2
    <3>2. QED
      BY <2>7, <3>1 DEF Shift, EndPipeline, Phase, Abstract!vars
  <2>8. CASE \E dataIN \in Value : Push(dataIN)
    <3>1. PICK dataIN \in Value : Push(dataIN)
      BY <2>8
    <3>2. Abstract!Store(dataIN)
      BY <2>1, <3>1, PushLine DEF Push, Phase, Abstract!Store
    <3>3. QED
      BY <3>2 DEF Abstract!Next
  <2>9. QED
    BY <1>2, EdgeCases, <2>2, <2>3, <2>4, <2>5, <2>6, <2>7, <2>8
<1>3. QED
  BY <1>1, <1>2

(* delayLine.vhd implements SampleDelay, for every length, every samples   *)
(* and every sequence of ticks, delays and resets: the pipeline over the   *)
(* RAM loses, duplicates and reorders nothing.                             *)
THEOREM Refinement == Spec => ImplementsSampleDelay
<1>1. Init => Abstract!Init
  BY InitMapped
<1>2. IInv /\ IInv' /\ [Next]_vars => [Abstract!Next]_(Abstract!vars)
  BY StepMapped
<1>3. QED
  BY <1>1, <1>2, IInvariance, PTL DEF Spec, ImplementsSampleDelay, Abstract!Spec

=============================================================================
