----------------------------- MODULE SerialAudio -----------------------------
(***************************************************************************)
(* AudioStream with the bits of its words: the shift registers of the      *)
(* deserializer and the serializer and the bit counter of the former, at   *)
(* the edges of the bit clock that the FPGA sees.                          *)
(*                                                                         *)
(* The CODEC is the master of both clocks and its words are left justified *)
(* (the word 0b01001001 that app.c:113 sends it).  It moves LRCK and the   *)
(* data after BCLK falls, and reads and lets read when BCLK rises.  Both   *)
(* clocks are sampled by CLOCK_50, each by registers of its own: a falling *)
(* edge of BCLK and the edge of LRCK that follows it are seen at the same  *)
(* clock or at two successive ones, in this order.                         *)
(***************************************************************************)
EXTENDS AudioStream

CONSTANTS
  DW,         \* highest bit of a word (23)
  Bits,       \* periods of BCLK in half a period of LRCK (32)
  BclkLeads   \* clocks by which BCLK is seen before LRCK

ASSUME SerialAssumption ==
  /\ DW \in Nat /\ Bits \in Nat /\ Bits >= DW + 1
  /\ HalfPeriod >= 8 * Bits
  /\ BclkLeads \subseteq {0, 1}

VARIABLES
  lead,                     \* how much earlier BCLK is seen this time
  bit_counter, counting,    \* altera_up_audio_bit_counter
  data_in_shift_reg,        \* altera_up_audio_in_deserializer
  data_out_shift_reg,       \* altera_up_audio_out_serializer
  serial_audio_out_data,
  sending,                  \* the bits to be sent since the last LRCK edge
  sent                      \* the bits that the CODEC read since

serialVars == <<lead, bit_counter, counting, data_in_shift_reg,
                data_out_shift_reg, serial_audio_out_data, sending, sent>>

-----------------------------------------------------------------------------
(* A bit of a word is its channel, its frame and its place; Low is a bit   *)
(* of no word.                                                             *)
Place == 1 .. DW + 1

Low == <<>>

Silence == [i \in Place |-> Low]

WordBits(c, word) == [i \in Place |-> <<c, word, i>>]

(* The clocks at which the edges of the i-th bit are due.                  *)
RisingAt(i) == ((2 * i - 1) * HalfPeriod) \div (2 * Bits)

FallingAt(i) == (i * HalfPeriod) \div Bits

BclkRising(i) == i \in 1 .. Bits /\ clock = RisingAt(i) - lead

BclkFalling ==
  \E i \in 0 .. Bits : clock = FallingAt(i) - lead /\ clock < HalfPeriod

LrckMoves == Rising \/ Falling

(* What the CODEC puts on ADCDAT for the i-th bit of the half period.      *)
ADCDAT(i) ==
  IF i \in Place THEN WordBits(IF left THEN "L" ELSE "R", frame)[i] ELSE Low

Shift(reg, bit) == [i \in Place |-> IF i = DW + 1 THEN bit ELSE reg[i + 1]]

-----------------------------------------------------------------------------
SerialInit ==
  /\ Init
  /\ lead \in BclkLeads
  /\ bit_counter = 0 /\ counting = FALSE
  /\ data_in_shift_reg = Silence /\ data_out_shift_reg = Silence
  /\ serial_audio_out_data = Low
  /\ sending = Silence /\ sent = Silence

CountDown ==
  /\ bit_counter' = IF BclkFalling /\ bit_counter # 0 THEN bit_counter - 1
                    ELSE bit_counter
  /\ counting' = (counting /\ ~(BclkFalling /\ bit_counter = 0))

(* Mutant of BitCounter: it is started for the left channel only. *)
BitCounterLeft ==
  IF Rising THEN bit_counter' = DW /\ counting' = TRUE ELSE CountDown

(* Only the edges of LRCK start the counter, also while it counts.         *)
BitCounter ==
  IF LrckMoves THEN bit_counter' = DW /\ counting' = TRUE ELSE CountDown

DataIn ==
  data_in_shift_reg' =
    IF counting /\ \E i \in 1 .. Bits : BclkRising(i)
    THEN Shift(data_in_shift_reg, ADCDAT(CHOOSE i \in 1 .. Bits : BclkRising(i)))
    ELSE data_in_shift_reg

(* What an edge of LRCK loads into the serializer: a word or silence.      *)
Loaded ==
  IF DacReadLeft THEN WordBits("L", Head(dac["L"].words))
  ELSE IF DacReadRight THEN WordBits("R", Head(dac["R"].words))
  ELSE Silence

(* Mutant of DataOut: a bit clock edge goes before the word. *)
DataOutShiftFirst ==
  /\ data_out_shift_reg' =
       IF BclkFalling THEN Shift(data_out_shift_reg, Low)
       ELSE IF LrckMoves /\ done_dac_channel_sync THEN Loaded
       ELSE data_out_shift_reg
  /\ serial_audio_out_data' = data_out_shift_reg[1]

DataOut ==
  /\ data_out_shift_reg' =
       IF LrckMoves /\ done_dac_channel_sync THEN Loaded
       ELSE IF BclkFalling THEN Shift(data_out_shift_reg, Low)
       ELSE data_out_shift_reg
  /\ serial_audio_out_data' = data_out_shift_reg[1]

(* The CODEC reads DACDAT when BCLK rises, one clock before this is seen.  *)
CodecReads ==
  /\ sending' = IF LrckMoves THEN Loaded ELSE sending
  /\ sent' = IF LrckMoves THEN Silence
             ELSE [i \in Place |-> IF clock + 1 = RisingAt(i) - lead
                                   THEN serial_audio_out_data ELSE sent[i]]
  /\ IF LrckMoves THEN lead' \in BclkLeads ELSE UNCHANGED lead

SerialNext ==
  /\ Next
  /\ BitCounter
  /\ DataIn
  /\ DataOut
  /\ CodecReads

SerialSpec ==
  SerialInit /\ [][SerialNext]_<<vars, serialVars>>

(* The clock of the FPGA and that of the CODEC run. *)
FairSerialSpec == SerialSpec /\ WF_<<vars, serialVars>>(SerialNext)

-----------------------------------------------------------------------------
(* altera_up_audio_in_deserializer.v:188 - what the FIFO of a channel is   *)
(* given is the whole word that the CODEC sampled for it, first bit first, *)
(* with no bit of the other channel and none of those that follow the      *)
(* word, however BCLK and LRCK are sampled.                                *)
WordReceived ==
  \A c \in Channel : AdcWrite(c) => data_in_shift_reg = WordBits(c, frame)

(* altera_up_audio_out_serializer.v:163-176 - the CODEC reads the whole    *)
(* word that was popped for it, and silence when there was none: the first *)
(* bit is there before BCLK rises and no shift comes before it.            *)
WordSent == LrckMoves => sent = sending

=============================================================================
