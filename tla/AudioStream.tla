----------------------------- MODULE AudioStream -----------------------------
(***************************************************************************)
(* The audio samples between the CODEC and the reverberation, clock by     *)
(* clock: the four FIFOs of the Qsys audio controller with their           *)
(* registered fill levels, and the loop that hardware/reverbFPGA.vhd       *)
(* closes around it (298-306): the valid of an ADC channel is the valid of *)
(* its DAC channel and the sample tick of the reverberation, and the ready *)
(* of the DAC channel is the ready of the ADC channel.                     *)
(*                                                                         *)
(* A word is the number of the frame it was sampled in.  The reverberation *)
(* appears by what the stream decides of it: when the registers of its     *)
(* filters are enabled, when a delay line takes a tick and when it reads   *)
(* its input.  A reset brings Init back, with LRCK anywhere in its period. *)
(***************************************************************************)
EXTENDS Naturals, Sequences

CONSTANTS
  Depth,        \* words of a FIFO (128)
  HalfPeriod,   \* whole clocks of CLOCK_50 in half a period of LRCK (520)
  EmptyLags,    \* clocks by which a scfifo may show its first word late
  Holds,        \* whether an empty scfifo may go on to show its last word
  LineBusy,     \* clocks a delay line is busy after a tick: currentN + 1
  Frames        \* the frames are numbered modulo this bound

ASSUME StreamAssumption ==
  /\ Depth \in Nat /\ Depth >= 4
  /\ EmptyLags \subseteq 0 .. 2 /\ Holds \subseteq BOOLEAN
  /\ HalfPeriod \in Nat /\ HalfPeriod >= 6
  /\ LineBusy \subseteq 6 .. 2 * HalfPeriod - 4
  /\ Frames \in Nat /\ Frames > Depth + 1

Channel == {"L", "R"}

Frame == 0 .. Frames - 1

(* The word that an empty scfifo shows when it does not hold its last one. *)
Unspecified == Frames

Word == Frame \cup {Unspecified}

VARIABLES
  empty_lag, holds,       \* the scfifo of this build
  left, clock,            \* LRCK is high (left channel), for so many clocks
  frame,                  \* the frame being sampled
  done_adc_channel_sync, done_dac_channel_sync,
  adc,                    \* the FIFOs of the deserializer
  last,                   \* the word that each of them showed last
  read_space,             \* their registered fill levels
  dac,                    \* the FIFOs of the serializer
  write_space,            \* their registered free space
  left_channel_was_read,
  playing,                \* the word of the left channel sent last
  busy,                   \* clocks until the delay line is idle again
  ticks,                  \* ticks the line took since the last ADC write
  steps                   \* times the filters' registers were enabled since

lrckVars == <<left, clock, frame>>
adcVars == <<adc, last, read_space, done_adc_channel_sync>>
dacVars == <<dac, write_space, done_dac_channel_sync, left_channel_was_read,
             playing>>
reverbVars == <<busy, ticks, steps>>
buildVars == <<empty_lag, holds>>
vars == <<buildVars, lrckVars, adcVars, dacVars, reverbVars>>

-----------------------------------------------------------------------------
(* A scfifo with its first word shown ahead: its words, and the clocks     *)
(* until the first one shows and the empty flag falls.                     *)
Used(f) == Len(f.words)
Empty(f) == f.words = <<>> \/ f.lag > 0
Full(f) == Used(f) = Depth

FifoEdge(f, write, word, read) ==
  LET kept == IF read THEN Tail(f.words) ELSE f.words
  IN  [words |-> IF write THEN Append(kept, word) ELSE kept,
       lag   |-> IF write /\ f.words = <<>> THEN empty_lag
                 ELSE IF f.lag > 0 THEN f.lag - 1 ELSE 0]

NewFifo == [words |-> <<>>, lag |-> 0]

-----------------------------------------------------------------------------
(* The edges of LRCK, as clock_edge reports them.                          *)
Rising == left /\ clock = 0
Falling == ~left /\ clock = 0

(* Mutant of valid: the level is compared with one word too many. *)
validLate(c) == read_space[c] > 1

(* An ADC channel offers a word; a DAC channel takes one: any level but 0. *)
valid(c) == read_space[c] > 0

(* Mutant of ready: the last free word is kept back. *)
readyLate(c) == write_space[c] > 1

ready(c) == write_space[c] > 0

(* Mutant of AdcWrite: the two channels do not wait for a whole frame. *)
AdcWriteUnsynced(c) ==
  /\ IF c = "L" THEN Falling ELSE Rising
  /\ ~Full(adc[c])

(* Mutant of AdcWrite: the synchronisation has the wrong polarity. *)
AdcWriteBeforeSync(c) ==
  /\ IF c = "L" THEN Falling ELSE Rising
  /\ ~Full(adc[c])
  /\ ~done_adc_channel_sync

(* The left channel is complete when LRCK falls, the right one when it rises *)
AdcWrite(c) ==
  /\ IF c = "L" THEN Falling ELSE Rising
  /\ ~Full(adc[c])
  /\ done_adc_channel_sync

AdcRead(c) == valid(c) /\ ready(c) /\ ~Empty(adc[c])

(* Mutant of DacWrite: ready is trusted, one clock after the FIFO got full *)
DacWriteUnchecked(c) == valid(c) /\ ready(c)

DacWrite(c) == valid(c) /\ ready(c) /\ ~Full(dac[c])

(* Mutant of DacReadLeft: any edge of LRCK reads the left channel. *)
DacReadLeftTwice ==
  /\ done_dac_channel_sync /\ (Rising \/ Falling)
  /\ ~Empty(dac["L"]) /\ ~Empty(dac["R"])

DacReadLeft ==
  done_dac_channel_sync /\ Rising /\ ~Empty(dac["L"]) /\ ~Empty(dac["R"])

(* Mutant of DacReadRight: it does not wait for a left channel. *)
DacReadRightAlone == done_dac_channel_sync /\ Falling

DacReadRight == done_dac_channel_sync /\ Falling /\ left_channel_was_read

DacRead(c) == IF c = "L" THEN DacReadLeft ELSE DacReadRight

(* The output of an ADC FIFO. *)
Shown(c) ==
  IF ~Empty(adc[c]) THEN Head(adc[c].words)
  ELSE IF holds THEN last[c] ELSE Unspecified

(* Mutant of dataOUT: in mono both channels get the right output. *)
dataOUTSwapped(c, stereo_n_mono) == Shown(IF stereo_n_mono THEN c ELSE "R")

(* The output of the mix for a DAC FIFO, by the frame of its dry part: in  *)
(* mono the right channel gets that of the left one, whatever the left     *)
(* FIFO shows at the clocks of the right one.                              *)
dataOUT(c, stereo_n_mono) == Shown(IF stereo_n_mono THEN c ELSE "L")

(* Mutant of LineTick: a busy line starts over. *)
LineTickAnytime(c) == valid(c)

(* A delay line of a channel, reduced to what BusyTime of DelayLine says   *)
(* of it; the input is read in the last of the busy clocks.                *)
LineTick(c) == valid(c) /\ busy[c] = 0

LineReadsInput(c) == busy[c] = 1

-----------------------------------------------------------------------------
Init ==
  /\ empty_lag \in EmptyLags /\ holds \in Holds
  /\ left \in BOOLEAN /\ clock \in 0 .. HalfPeriod
  /\ frame = 0
  /\ done_adc_channel_sync = FALSE /\ done_dac_channel_sync = FALSE
  /\ adc = [c \in Channel |-> NewFifo] /\ dac = [c \in Channel |-> NewFifo]
  /\ last = [c \in Channel |-> 0]
  /\ read_space = [c \in Channel |-> 0]
  /\ write_space = [c \in Channel |-> 0]
  /\ left_channel_was_read = FALSE
  /\ playing = 0
  /\ busy = [c \in Channel |-> 0]
  /\ ticks = [c \in Channel |-> 1]
  /\ steps = [c \in Channel |-> 1]

(* LRCK is not synchronous with CLOCK_50: the clocks in half its period    *)
(* are HalfPeriod or one more.                                             *)
LrckEdge ==
  /\ \/ clock < HalfPeriod /\ clock' = clock + 1 /\ UNCHANGED left
     \/ clock >= HalfPeriod - 1 /\ clock' = 0 /\ left' = ~left
  /\ frame' = IF Rising THEN (frame + 1) % Frames ELSE frame

(* altera_up_audio_in_deserializer *)
AdcEdge ==
  /\ adc' = [c \in Channel |-> FifoEdge(adc[c], AdcWrite(c), frame, AdcRead(c))]
  /\ last' = [c \in Channel |-> Shown(c)]
  /\ read_space' = [c \in Channel |-> Used(adc[c])]
  /\ done_adc_channel_sync' = (done_adc_channel_sync \/ Rising)

(* altera_up_audio_out_serializer, with the switch as it stands. *)
DacEdge ==
  /\ \E stereo_n_mono \in BOOLEAN :
       dac' = [c \in Channel |->
                FifoEdge(dac[c], DacWrite(c), dataOUT(c, stereo_n_mono), DacRead(c))]
  /\ write_space' = [c \in Channel |-> Depth - Used(dac[c])]
  /\ done_dac_channel_sync' = (done_dac_channel_sync \/ Falling)
  /\ left_channel_was_read' =
       (DacReadLeft \/ (left_channel_was_read /\ ~DacReadRight))
  /\ playing' = IF DacReadLeft THEN Head(dac["L"].words) ELSE playing

(* Up to three are counted, and more than three. *)
Count(n) == IF n < 4 THEN n + 1 ELSE 4

(* What valid drives in the reverberation.  The delay can change from one  *)
(* tick to the next.                                                       *)
ReverbEdge ==
  /\ \E n \in LineBusy :
       busy' = [c \in Channel |-> IF LineTick(c) THEN n
                                 ELSE IF busy[c] > 0 THEN busy[c] - 1 ELSE 0]
  /\ ticks' = [c \in Channel |-> IF AdcWrite(c) THEN 0
                                 ELSE IF LineTick(c) THEN Count(ticks[c])
                                 ELSE ticks[c]]
  /\ steps' = [c \in Channel |-> IF AdcWrite(c) THEN 0
                                 ELSE IF valid(c) THEN Count(steps[c])
                                 ELSE steps[c]]

(* One rising edge of CLOCK_50. *)
Next ==
  /\ LrckEdge
  /\ AdcEdge
  /\ DacEdge
  /\ ReverbEdge
  /\ UNCHANGED buildVars

Spec == Init /\ [][Next]_vars

(* The clock of the FPGA and that of the CODEC run. *)
FairSpec == Spec /\ WF_vars(Next)

-----------------------------------------------------------------------------
FifoOK(f) == f.words \in Seq(Word) /\ Used(f) <= Depth /\ f.lag \in 0 .. 2

(* No FIFO overflows, although their own overflow checking is off, and the *)
(* fill levels keep within their eight bits.                               *)
TypeOK ==
  /\ empty_lag \in EmptyLags /\ holds \in Holds
  /\ left \in BOOLEAN /\ clock \in 0 .. HalfPeriod /\ frame \in Frame
  /\ done_adc_channel_sync \in BOOLEAN /\ done_dac_channel_sync \in BOOLEAN
  /\ \A c \in Channel : FifoOK(adc[c]) /\ FifoOK(dac[c])
  /\ last \in [Channel -> Word]
  /\ read_space \in [Channel -> 0 .. Depth]
  /\ write_space \in [Channel -> 0 .. Depth]
  /\ left_channel_was_read \in BOOLEAN
  /\ playing \in Word
  /\ busy \in [Channel -> 0 .. 2 * HalfPeriod - 4]
  /\ ticks \in [Channel -> 0 .. 4] /\ steps \in [Channel -> 0 .. 4]

(* reverbFPGA.vhd:298-306 - the CODEC plays the frames in the order they   *)
(* were sampled in and misses none, although every frame is written to the *)
(* DAC FIFO several times, the full FIFO refuses any of these words, and   *)
(* ready still stands at the clock after it got full.  It takes a scfifo   *)
(* that holds its last word and shows the first one with its fill level.   *)
(* With empty_lag = 2 the first word written for a sample is stale, and    *)
(* the sample whose stale word takes the last place is lost.               *)
PlaysInOrder ==
  [][empty_lag <= 1 /\ holds => playing' \in {playing, (playing + 1) % Frames}]_vars

(* The ready that the DAC FIFO withholds for half a period once it is full *)
(* never lets a second sample pile up on the ADC side.                     *)
NoAdcBacklog == \A c \in Channel : Used(adc[c]) <= 1

(* The right channel, popped without a look at its empty flag half a       *)
(* period after the left one, always has a word.                           *)
RightNeverUnderflows == DacReadRight => ~Empty(dac["R"])

(* The two channels that the CODEC plays together were sampled together,   *)
(* from whatever moment the stream starts, however often the full FIFOs    *)
(* have refused a word and whenever the mono switch moves.  In mono it is  *)
(* up to the left FIFO, empty at the clocks of the right channel, to hold  *)
(* its word (reverbFPGA.vhd:377), and with empty_lag = 2 the right channel *)
(* can come a frame early, because only the left one gets a stale word.    *)
Aligned ==
  DacReadRight /\ ~Empty(dac["R"]) =>
    \/ \E early \in 0 .. 1 :
         /\ Head(dac["R"].words) = (playing + early) % Frames
         /\ early <= empty_lag \div 2
    \/ ~holds /\ Head(dac["R"].words) = Unspecified

(* No sample goes by a delay line unseen, the longest delay included.      *)
EverySampleTicked == \A c \in Channel : AdcWrite(c) => ticks[c] > 0

(* delayLine.vhd:65 - an idle line waits for the tick of the next sample:  *)
(* valid, which lasts for several clocks, has always gone before the line  *)
(* is idle again, the shortest delay included.                             *)
OneTickPerSample == \A c \in Channel : ticks[c] <= 1

(* delayLine.vhd:124 - a line reads its input at the end of its shift, and *)
(* no other sample has reached the FIFO since the tick: an empty FIFO that *)
(* holds its word still shows the sample that the line was ticked for.     *)
LineTakesItsSample ==
  \A c \in Channel : LineReadsInput(c) =>
    /\ ticks[c] = 1
    /\ holds => Shown(c) = last[c] /\ Used(adc[c]) = 0

(* LPF.vhd:52 - the register of the low-pass filter, enabled by valid,     *)
(* moves at most three times for a sample, also while the DAC FIFO is full *)
(* and its ready comes and goes.                                           *)
FewSteps == \A c \in Channel : steps[c] <= 3

(* reverbFPGA.vhd:299 - the loop of valid and ready never locks up: the    *)
(* CODEC takes a left word only when there is a right one, and a full FIFO *)
(* holds the ADC side back, yet all four FIFOs are popped again and again. *)
NeverStalls == \A c \in Channel : []<>AdcRead(c) /\ []<>DacRead(c)

(* reverbFPGA.vhd:298 - a frame is written to the DAC FIFO two or three    *)
(* times, and the CODEC plays it as often at first.  This ends: once the   *)
(* FIFO is full it takes one word of each frame, and the sound neither     *)
(* drags nor skips any more.                                               *)
EachFrameOnce ==
  <>[][empty_lag <= 1 /\ holds /\ DacReadLeft
         => playing' = (playing + 1) % Frames]_vars

-----------------------------------------------------------------------------
(* What the comments of the source say of the stream. *)

(* reverbFPGA.vhd:296-297 - what is written is sent at the next            *)
(* audio_IN_valid, one sample after the input.                             *)
OneSampleOffset ==
  DacReadLeft => \E late \in 0 .. 1 : (Head(dac["L"].words) + late) % Frames = frame

(* reverbFPGA.vhd:294 - the inputs are read while audio_IN_valid is 1.     *)
InputReadWhileValid == \A c \in Channel : LineReadsInput(c) => valid(c)

=============================================================================
