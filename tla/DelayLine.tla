------------------------------ MODULE DelayLine ------------------------------
(***************************************************************************)
(* hardware/delayLine.vhd with the RAM of hardware/RAM.vhd it holds, cycle *)
(* by cycle: every step is one rising edge of clk50M, at which the state   *)
(* machine and the RAM both move, each reading the registers of the other  *)
(* as they were before the edge.                                           *)
(*                                                                         *)
(* The line keeps its samples in a RAM of N = Ns_max - 1 words.  On every  *)
(* sample tick it renews dataOUT from cell currentN-2, copies every cell   *)
(* in use one address up through a pipeline of three cycles (address,      *)
(* read, write) and writes dataIN to cell 0.  The samples are opaque.      *)
(***************************************************************************)
EXTENDS Naturals

CONSTANTS
  Ns_max,      \* generic Ns_max
  Value,       \* the samples: what dataIN can carry
  CurrentNs    \* the delays that the port currentN can carry

(* generic Ns_max : integer range 5 to 1000; the upper end is not needed   *)
ASSUME NsMaxAssumption == Ns_max \in Nat /\ Ns_max >= 5

(* The delay never exceeds the length the line was built with.  The ports  *)
(* only say 5 to 1000: whoever drives currentN has to keep it below Ns_max *)
ASSUME CurrentNsAssumption == CurrentNs \subseteq 5 .. Ns_max

VARIABLES
  shiftState,          \* the state machine
  cnt,                 \* cycles spent in the state pull or endPipeline
  read_addr_pipeline,  \* the next address to feed to the pipeline
  currentN_valid,      \* cells in use, latched at the sample tick
  we, wr_addr, wr_data,\* the RAM's write port
  rd_addr, rd_data,    \* the RAM's read port
  ram_block,           \* the RAM
  dataOUT              \* the delayed sample

fsmVars == <<shiftState, cnt, read_addr_pipeline, currentN_valid>>
ramVars == <<ram_block, rd_data>>
vars == <<fsmVars, we, wr_addr, wr_data, rd_addr, ramVars, dataOUT>>

N == Ns_max - 1

Addr == 0 .. N - 1

ShiftStates == {"idle", "pull", "shift", "endPipeline", "push"}

(* The ranges that the declarations of delayLine.vhd and RAM.vhd give to   *)
(* every signal and variable: no step may take one out of its range.       *)
TypeOK ==
  /\ shiftState \in ShiftStates
  /\ cnt \in 0 .. 2
  /\ read_addr_pipeline \in 0 .. N - 4
  /\ currentN_valid \in 4 .. N
  /\ we \in {0, 1}
  /\ wr_addr \in Addr /\ wr_data \in Value
  /\ rd_addr \in Addr /\ rd_data \in Value
  /\ ram_block \in [Addr -> Value]
  /\ dataOUT \in Value

(* Power-up: the enumerated and integer registers start at the left end of *)
(* their type; the std_logic ones have no initial value.                   *)
Init ==
  /\ shiftState = "idle"
  /\ cnt = 0
  /\ read_addr_pipeline = 0
  /\ currentN_valid = 4
  /\ we \in {0, 1}
  /\ wr_addr = 0 /\ wr_data \in Value
  /\ rd_addr = 0 /\ rd_data \in Value
  /\ ram_block \in [Addr -> Value]
  /\ dataOUT \in Value

-----------------------------------------------------------------------------
(* The RAM's process at the edge: a synchronous write, and a synchronous   *)
(* read that returns the old word.                                         *)
RamEdge ==
  /\ ram_block' = IF we = 1 THEN [ram_block EXCEPT ![wr_addr] = wr_data]
                        ELSE ram_block
  /\ rd_data' = ram_block[rd_addr]

(* rst = '0' stops the writing and the state machine, and clears neither   *)
(* cnt nor the RAM.                                                        *)
Reset ==
  /\ we' = 0
  /\ shiftState' = "idle"
  /\ UNCHANGED <<cnt, read_addr_pipeline, currentN_valid, wr_addr, wr_data,
                 rd_addr, dataOUT>>

Wait ==
  /\ shiftState = "idle"
  /\ we' = 0
  /\ cnt' = 0
  /\ UNCHANGED <<shiftState, read_addr_pipeline, currentN_valid, wr_addr,
                 wr_data, rd_addr, dataOUT>>

(* Mutant of Sample: the one sample that the structure delays by itself is *)
(* counted twice.                                                          *)
SampleWholeDelay(currentN) ==
  /\ shiftState = "idle"
  /\ we' = 0
  /\ cnt' = 0
  /\ currentN_valid' = currentN
  /\ read_addr_pipeline' = currentN - 4
  /\ rd_addr' = currentN - 1
  /\ shiftState' = "pull"
  /\ UNCHANGED <<wr_addr, wr_data, dataOUT>>

(* The sample tick: the delay is read here and nowhere else. *)
Sample(currentN) ==
  /\ shiftState = "idle"
  /\ we' = 0
  /\ cnt' = 0
  /\ currentN_valid' = currentN - 1
  /\ read_addr_pipeline' = (currentN - 1) - 4
  /\ rd_addr' = (currentN - 1) - 1
  /\ shiftState' = "pull"
  /\ UNCHANGED <<wr_addr, wr_data, dataOUT>>

PullAddress ==
  /\ shiftState = "pull" /\ cnt = 0
  /\ rd_addr' = currentN_valid - 2
  /\ cnt' = cnt + 1
  /\ UNCHANGED <<shiftState, read_addr_pipeline, currentN_valid, we, wr_addr,
                 wr_data, dataOUT>>

(* Mutant of PullOutput: the pipeline is fed the same address twice. *)
PullOutputRepeats ==
  /\ shiftState = "pull" /\ cnt = 1
  /\ rd_addr' = currentN_valid - 2
  /\ dataOUT' = rd_data
  /\ cnt' = 0
  /\ shiftState' = "shift"
  /\ UNCHANGED <<read_addr_pipeline, currentN_valid, we, wr_addr, wr_data>>

PullOutput ==
  /\ shiftState = "pull" /\ cnt = 1
  /\ rd_addr' = currentN_valid - 3
  /\ dataOUT' = rd_data
  /\ cnt' = 0
  /\ shiftState' = "shift"
  /\ UNCHANGED <<read_addr_pipeline, currentN_valid, we, wr_addr, wr_data>>

(* Mutants of Shift: the write forgets the three cycles between an address *)
(* and its copy; the shift ends one address early.                         *)
ShiftForgetsLatency ==
  /\ shiftState = "shift"
  /\ rd_addr' = read_addr_pipeline
  /\ we' = 1
  /\ wr_addr' = read_addr_pipeline
  /\ wr_data' = rd_data
  /\ IF read_addr_pipeline > 0
       THEN /\ read_addr_pipeline' = read_addr_pipeline - 1
            /\ UNCHANGED shiftState
       ELSE /\ shiftState' = "endPipeline"
            /\ UNCHANGED read_addr_pipeline
  /\ UNCHANGED <<cnt, currentN_valid, dataOUT>>

ShiftStopsEarly ==
  /\ shiftState = "shift"
  /\ rd_addr' = read_addr_pipeline
  /\ we' = 1
  /\ wr_addr' = read_addr_pipeline + 3
  /\ wr_data' = rd_data
  /\ IF read_addr_pipeline > 1
       THEN /\ read_addr_pipeline' = read_addr_pipeline - 1
            /\ UNCHANGED shiftState
       ELSE /\ shiftState' = "endPipeline"
            /\ UNCHANGED read_addr_pipeline
  /\ UNCHANGED <<cnt, currentN_valid, dataOUT>>

Shift ==
  /\ shiftState = "shift"
  /\ rd_addr' = read_addr_pipeline
  /\ we' = 1
  /\ wr_addr' = read_addr_pipeline + 3
  /\ wr_data' = rd_data
  /\ IF read_addr_pipeline > 0
       THEN /\ read_addr_pipeline' = read_addr_pipeline - 1
            /\ UNCHANGED shiftState
       ELSE /\ shiftState' = "endPipeline"
            /\ UNCHANGED read_addr_pipeline
  /\ UNCHANGED <<cnt, currentN_valid, dataOUT>>

(* Mutant of EndPipeline: cnt does not advance. *)
EndPipelineStuck ==
  /\ shiftState = "endPipeline"
  /\ \/ cnt = 0 /\ wr_addr' = 2 /\ UNCHANGED <<cnt, shiftState>>
     \/ cnt = 1 /\ wr_addr' = 1 /\ cnt' = 0 /\ shiftState' = "push"
  /\ wr_data' = rd_data
  /\ UNCHANGED <<read_addr_pipeline, currentN_valid, we, rd_addr, dataOUT>>

EndPipeline ==
  /\ shiftState = "endPipeline"
  /\ \/ cnt = 0 /\ wr_addr' = 2 /\ cnt' = cnt + 1 /\ UNCHANGED shiftState
     \/ cnt = 1 /\ wr_addr' = 1 /\ cnt' = 0 /\ shiftState' = "push"
  /\ wr_data' = rd_data
  /\ UNCHANGED <<read_addr_pipeline, currentN_valid, we, rd_addr, dataOUT>>

(* dataIN is read here, currentN_valid + 2 edges after the sample tick. *)
Push(dataIN) ==
  /\ shiftState = "push"
  /\ wr_addr' = 0
  /\ wr_data' = dataIN
  /\ shiftState' = "idle"
  /\ UNCHANGED <<cnt, read_addr_pipeline, currentN_valid, we, rd_addr, dataOUT>>

(* One rising edge of clk50M, with the values the input ports have there.  *)
Clock(rst, data_sampled_valid, dataIN, currentN) ==
  /\ RamEdge
  /\ \/ rst = 0 /\ Reset
     \/ /\ rst = 1
        /\ \/ data_sampled_valid = 0 /\ Wait
           \/ data_sampled_valid = 1 /\ Sample(currentN)
           \/ PullAddress
           \/ PullOutput
           \/ Shift
           \/ EndPipeline
           \/ Push(dataIN)

Next ==
  \E rst, data_sampled_valid \in {0, 1}, dataIN \in Value,
     currentN \in CurrentNs : Clock(rst, data_sampled_valid, dataIN, currentN)

Spec == Init /\ [][Next]_vars

-----------------------------------------------------------------------------
(* The RAM as it will be once the write on its port has landed.            *)
Merged == IF we = 1 THEN [ram_block EXCEPT ![wr_addr] = wr_data] ELSE ram_block

(* The cells in use from this address on already hold, in Merged, the      *)
(* sample of the cell below; none does before the first write, and an idle *)
(* line counts as not shifted yet: its next shift has not begun.           *)
ShiftedFromAddr ==
  CASE shiftState = "shift"       -> read_addr_pipeline + 4
    [] shiftState = "endPipeline" -> 3 - cnt
    [] shiftState = "push"        -> 1
    [] OTHER                      -> N

(* The line as it was at the sample tick, read back from a RAM in the      *)
(* middle of its shift: the sample that the shift drops is in dataOUT.     *)
LineBeforeShift ==
  [a \in Addr |->
     IF a < ShiftedFromAddr \/ a >= currentN_valid THEN Merged[a]
     ELSE IF a = currentN_valid - 1 THEN dataOUT
     ELSE Merged[a + 1]]

(* The step of SampleDelay that comes next. *)
Phase == CASE shiftState = "idle" -> "ready"
           [] shiftState = "pull" -> "taken"
           [] OTHER               -> "renewed"

Abstract == INSTANCE SampleDelay WITH
  line  <- LineBeforeShift,
  out   <- dataOUT,
  phase <- Phase,
  len   <- currentN_valid

(* delayLine.vhd implements SampleDelay: whatever the moment of the ticks, *)
(* of the changes of currentN and of the resets, the RAM pipeline neither  *)
(* loses, duplicates nor reorders a sample, and dataOUT is the sample at   *)
(* the end of the line.                                                    *)
ImplementsSampleDelay == Abstract!Spec

(* What every register of the pipeline holds in every state: the address   *)
(* fed last, the word read last and the write that is about to land lie    *)
(* on consecutive cells, and the write carries the sample of the cell      *)
(* below.  It is inductive, and ImplementsSampleDelay and                  *)
(* NoReadDuringWrite rest on it.                                           *)
PipelineInv ==
  /\ shiftState = "pull" =>
       /\ we = 0
       /\ read_addr_pipeline = currentN_valid - 4
       /\ \/ cnt = 0 /\ rd_addr = currentN_valid - 1
          \/ /\ cnt = 1 /\ rd_addr = currentN_valid - 2
             /\ rd_data = ram_block[currentN_valid - 1]
  /\ shiftState = "shift" =>
       /\ cnt = 0
       /\ rd_addr = read_addr_pipeline + 1
       /\ rd_data = ram_block[read_addr_pipeline + 2]
       /\ \/ /\ read_addr_pipeline = currentN_valid - 4 /\ we = 0
             /\ dataOUT = ram_block[currentN_valid - 1]
          \/ /\ read_addr_pipeline < currentN_valid - 4 /\ we = 1
             /\ wr_addr = read_addr_pipeline + 4
  /\ shiftState = "endPipeline" =>
       /\ cnt \in {0, 1} /\ we = 1
       /\ wr_addr = 3 - cnt
       /\ rd_addr = 0
       /\ rd_data = ram_block[1 - cnt]
  /\ shiftState = "push" => cnt = 0 /\ we = 1 /\ wr_addr = 1 /\ rd_addr = 0
  /\ shiftState # "idle" /\ we = 1 => wr_data = ram_block[wr_addr - 1]

(* While the state machine works, no word is read at the edge that writes  *)
(* it: the pipeline does not lean on the old-data read-during-write of     *)
(* RAM.vhd, because the write stays three addresses above the read.        *)
NoReadDuringWrite == shiftState # "idle" /\ we = 1 => rd_addr # wr_addr

(* The edges from now until the line is idle, if no reset comes.           *)
EdgesToIdle ==
  CASE shiftState = "idle"        -> 0
    [] shiftState = "pull"        -> currentN_valid + 2 - cnt
    [] shiftState = "shift"       -> read_addr_pipeline + 4
    [] shiftState = "endPipeline" -> 3 - cnt
    [] OTHER                      -> 1  \* push

(* A tick keeps the line busy for currentN + 1 edges after its own, and    *)
(* every edge brings it one step nearer to idle: no delay makes the state  *)
(* machine wait, loop or stop halfway.                                     *)
BusyTime ==
  [][IF shiftState = "idle"
       THEN EdgesToIdle' \in {0, currentN_valid' + 2}
       ELSE EdgesToIdle' \in {0, EdgesToIdle - 1}]_vars

=============================================================================
