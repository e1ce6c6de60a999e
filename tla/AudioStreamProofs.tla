-------------------------- MODULE AudioStreamProofs --------------------------
(***************************************************************************)
(* Proofs about AudioStream and SerialAudio: for FIFOs of any depth from   *)
(* four words on, a half period of any length from six clocks on, and any  *)
(* delays that fit it, the FIFOs keep their bounds, the loop of valid and  *)
(* ready settles in time for the next sample, the delay lines take each    *)
(* sample once, and what the CODEC plays are the frames in their order     *)
(* with the channels together; and for words of any length that the bit    *)
(* clock has room for, what is received and sent are the bits of these     *)
(* words.                                                                  *)
(***************************************************************************)
EXTENDS SerialAudio, TLAPS

(* The frame after a frame, and the frame before it. *)
Succ(w) == IF w = Frames - 1 THEN 0 ELSE w + 1
Pred(w) == IF w = 0 THEN Frames - 1 ELSE w - 1

(* The frames are counted round a circle. *)
LEMMA NextFrame ==
  ASSUME NEW w \in Frame
  PROVE  /\ (w + 1) % Frames = Succ(w) /\ Succ(w) \in Frame
         /\ Pred(Succ(w)) = w
BY StreamAssumption DEF Frame, Succ, Pred

(* A condition as a number.                                                *)
Bit(p) == IF p THEN 1 ELSE 0

(* g is f, a clock later, by its length, its lag and its places. *)
Moved(f, g, write, word, read) ==
  /\ g.words \in Seq(Word)
  /\ Used(g) = Used(f) + Bit(write) - Bit(read)
  /\ g.lag = IF write /\ Used(f) = 0 THEN empty_lag
             ELSE IF f.lag > 0 THEN f.lag - 1 ELSE 0
  /\ g.lag \in 0 .. 2
  /\ g = [words |-> g.words, lag |-> g.lag]
  /\ \A i \in 1 .. Used(g) :
       g.words[i] = IF i + Bit(read) <= Used(f) THEN f.words[i + Bit(read)] ELSE word

(* What a clock does to a scfifo that is not popped when it is empty. *)
LEMMA FifoStep ==
  ASSUME NEW f, f.words \in Seq(Word), f.lag \in 0 .. 2, empty_lag \in 0 .. 2,
         NEW write \in BOOLEAN, NEW read \in BOOLEAN, NEW word \in Word,
         read => Used(f) > 0,
         NEW g, g = FifoEdge(f, write, word, read)
  PROVE  Moved(f, g, write, word, read)
<1> DEFINE kept == IF read THEN Tail(f.words) ELSE f.words
<1>1. f.words = <<>> <=> Used(f) = 0
  BY DEF Used
<1>2. /\ kept \in Seq(Word) /\ Len(kept) = Used(f) - Bit(read)
      /\ \A i \in 1 .. Len(kept) : kept[i] = f.words[i + Bit(read)]
  BY <1>1 DEF Used, Bit
<1>3. /\ g.words = IF write THEN Append(kept, word) ELSE kept
      /\ g.lag = IF write /\ Used(f) = 0 THEN empty_lag
                 ELSE IF f.lag > 0 THEN f.lag - 1 ELSE 0
      /\ g = [words |-> g.words, lag |-> g.lag]
  BY <1>1 DEF FifoEdge
<1>4. g.lag \in 0 .. 2
  BY <1>3
<1> HIDE DEF kept
<1>5. Bit(read) \in 0 .. 1 /\ Bit(read) <= Used(f) /\ Used(f) \in Nat
  BY DEF Bit, Used
<1>6. CASE write
  <2>1. g.words = Append(kept, word)
    BY <1>3, <1>6
  <2>2. /\ g.words \in Seq(Word) /\ Used(g) = Len(kept) + 1
        /\ \A i \in 1 .. Len(kept) + 1 :
             g.words[i] = IF i <= Len(kept) THEN kept[i] ELSE word
    BY <1>2, <2>1 DEF Used
  <2>3. Bit(write) = 1
    BY <1>6 DEF Bit
  <2>4. /\ Used(g) = Used(f) + Bit(write) - Bit(read)
        /\ \A i \in 1 .. Used(g) :
             g.words[i] = IF i + Bit(read) <= Used(f) THEN f.words[i + Bit(read)]
                          ELSE word
    BY <1>2, <1>5, <2>2, <2>3
  <2> QED
    BY <1>3, <1>4, <2>2, <2>4 DEF Moved
<1>7. CASE ~write
  <2>1. g.words = kept /\ Bit(write) = 0
    BY <1>3, <1>7 DEF Bit
  <2>2. /\ Used(g) = Used(f) + Bit(write) - Bit(read)
        /\ \A i \in 1 .. Used(g) :
             g.words[i] = IF i + Bit(read) <= Used(f) THEN f.words[i + Bit(read)]
                          ELSE word
    <3>1. Used(g) = Len(kept)
      BY <2>1 DEF Used
    <3> QED
      BY <1>2, <1>5, <2>1, <3>1
  <2> QED
    BY <1>2, <1>3, <1>4, <2>1, <2>2 DEF Moved
<1> QED
  BY <1>6, <1>7
-----------------------------------------------------------------------------
(* The clocks of a half period.  A sample is written to the ADC FIFO of    *)
(* its channel at the first clock of the half period that follows its last *)
(* bit, and everything it sets in motion is over by the sixth clock, which *)
(* every half period has.                                                  *)

(* The half period in which the last sample of a channel moves. *)
Active(c) == IF c = "L" THEN ~left ELSE left

(* A sample is written to its DAC FIFO as often as it is shown as valid. *)
Writes == IF empty_lag = 2 THEN 3 ELSE 2

(* A channel with no sample on its way, and one with a sample. *)
Quiet(c) ==
  /\ Used(adc[c]) = 0 /\ adc[c].lag = 0 /\ read_space[c] = 0
  /\ ticks[c] = 1 /\ steps[c] \in 1 .. 3

InFlight(c) ==
  /\ Active(c) /\ clock \in 1 .. Writes + 1
  /\ done_adc_channel_sync /\ done_dac_channel_sync
  /\ Used(adc[c]) = IF clock <= Writes THEN 1 ELSE 0
  /\ adc[c].lag = IF clock <= empty_lag THEN empty_lag + 1 - clock ELSE 0
  /\ read_space[c] = IF clock = 1 THEN 0 ELSE 1
  /\ ticks[c] = IF clock <= 2 THEN 0 ELSE 1
  /\ steps[c] = IF clock <= 2 THEN 0 ELSE clock - 2

(* Each channel is in one of these two stages.                             *)
SampleInv == \A c \in Channel : Quiet(c) \/ InFlight(c)

(* A delay line is idle again before the next sample can come, and busy as *)
(* long as valid lasts.                                                    *)
LineInv ==
  \A c \in Channel :
    /\ busy[c] <= IF Active(c) THEN IF clock <= 2 THEN 0 ELSE 2 * HalfPeriod - 1 - clock
                  ELSE IF clock < HalfPeriod THEN HalfPeriod - 1 - clock ELSE 0
    /\ InFlight(c) /\ clock >= 3 => busy[c] >= 9 - clock

(* The free space that ready goes by is never less than there is while a   *)
(* sample moves, and the ADC FIFO is popped at the first chance.           *)
SpaceInv ==
  \A c \in Channel : InFlight(c) =>
    /\ write_space[c] >= Depth - Used(dac[c])
    /\ clock <= 3 => write_space[c] >= 1

(* The first word of a DAC FIFO shows before the sample has gone by. *)
LagInv ==
  \A c \in Channel :
    dac[c].lag <= IF Active(c) /\ clock \in 3 .. 4 THEN 5 - clock ELSE 0

(* How often the sample of this half period has been written so far. *)
Gained ==
  IF clock <= 2 THEN 0 ELSE IF clock - 2 <= Writes THEN clock - 2 ELSE Writes

(* A level stops at the depth of the FIFO.                                 *)
Capped(m) == IF m <= Depth THEN m ELSE Depth

(* A left word is out and its right one is still to come. *)
pending == Bit(left_channel_was_read)

(* Nothing has been written to the DAC FIFOs yet. *)
Fresh ==
  /\ ~left_channel_was_read /\ Used(dac["L"]) = 0 /\ Used(dac["R"]) = 0
  /\ Quiet("R")
  /\ \/ Quiet("L") /\ (done_adc_channel_sync => (left <=> clock > 0))
     \/ InFlight("L") /\ clock <= 2

(* Every half period brings its sample. *)
OnTime ==
  /\ done_adc_channel_sync /\ done_dac_channel_sync
  /\ \A c \in Channel : Active(c) /\ clock \in 1 .. Writes + 1 => InFlight(c)

(* The left channel has got its first words, the right one not yet. *)
LeftOnly ==
  /\ OnTime
  /\ ~left_channel_was_read /\ Used(dac["R"]) = 0
  /\ IF left THEN clock <= 2 /\ Used(dac["L"]) = Writes
     ELSE clock >= 3 /\ Used(dac["L"]) = Gained

(* Both channels have words, and the levels follow each other through the  *)
(* frame: before the left sample is written, after it, and as the right    *)
(* one catches up.                                                         *)
BeforeLeft ==
  /\ ~left /\ clock = 0
  /\ Used(dac["R"]) = Used(dac["L"]) + pending
  /\ Used(dac["R"]) >= 2 /\ Used(dac["L"]) <= Depth - 1

LeftLeads ==
  /\ ~left_channel_was_read /\ Used(dac["R"]) <= Depth - 1
  /\ \/ ~left /\ clock > 0 /\ Used(dac["L"]) = Capped(Used(dac["R"]) + Gained)
     \/ left /\ clock = 0 /\ Used(dac["L"]) = Capped(Used(dac["R"]) + Writes)

RightCatchesUp ==
  /\ left /\ clock > 0
  /\ Used(dac["L"]) + pending = Capped(Used(dac["R"]) + (Writes - Gained))
  /\ clock <= 2 => left_channel_was_read /\ Used(dac["R"]) <= Depth - 1
  /\ clock >= 3 /\ left_channel_was_read => Used(dac["R"]) >= 2
  /\ ~left_channel_was_read => Used(dac["L"]) = Writes /\ Used(dac["R"]) = Gained

Both == OnTime /\ Used(dac["R"]) >= 1 /\ (BeforeLeft \/ LeftLeads \/ RightCatchesUp)

(* When only the ADC side is synchronised, this is still the half period   *)
(* in which it was.                                                        *)
SyncInv == done_adc_channel_sync /\ ~done_dac_channel_sync => (left <=> clock > 0)

(* The first invariant: stages, levels and registers.                      *)
IInv ==
  /\ TypeOK
  /\ SampleInv /\ LineInv /\ SpaceInv /\ LagInv /\ SyncInv
  /\ Fresh \/ LeftOnly \/ Both

-----------------------------------------------------------------------------
(* LRCK stays at its level for another clock, or has been there for the    *)
(* five clocks that a sample takes and changes.                            *)
LEMMA LrckSteps ==
  ASSUME TypeOK, LrckEdge
  PROVE  /\ \/ /\ clock < HalfPeriod /\ clock' = clock + 1 /\ left' = left
               /\ \A c \in Channel : Active(c)' = Active(c)
            \/ /\ clock >= HalfPeriod - 1 /\ clock' = 0 /\ left' = ~left
               /\ \A c \in Channel : Active(c)' = ~Active(c)
         /\ clock \in 0 .. HalfPeriod /\ clock' \in 0 .. HalfPeriod
         /\ left' \in BOOLEAN /\ HalfPeriod >= 6
<1>1. \/ clock < HalfPeriod /\ clock' = clock + 1 /\ left' = left
      \/ clock >= HalfPeriod - 1 /\ clock' = 0 /\ left' = ~left
  BY DEF LrckEdge
<1>2. clock \in 0 .. HalfPeriod /\ left \in BOOLEAN /\ HalfPeriod >= 6
      /\ HalfPeriod \in Nat
  BY StreamAssumption DEF TypeOK
<1>3. left' \in BOOLEAN
  BY <1>1, <1>2
<1>4. CASE clock < HalfPeriod /\ clock' = clock + 1 /\ left' = left
  BY <1>2, <1>4 DEF Active
<1>5. CASE clock >= HalfPeriod - 1 /\ clock' = 0 /\ left' = ~left
  <2>1. \A c \in Channel : Active(c)' = ~Active(c)
    BY <1>2, <1>5 DEF Active
  <2> QED
    BY <1>2, <1>3, <1>5, <2>1
<1> QED
  BY <1>1, <1>4, <1>5

(* The bounds that the proofs count with. *)
LEMMA Bounds ==
  ASSUME TypeOK
  PROVE  /\ empty_lag \in 0 .. 2 /\ Writes \in 2 .. 3 /\ empty_lag <= Writes - 1
         /\ (Writes = 3 <=> empty_lag = 2)
         /\ Depth \in Nat /\ Depth >= 4 /\ HalfPeriod \in Nat /\ HalfPeriod >= 6
         /\ clock \in 0 .. HalfPeriod /\ pending \in 0 .. 1
         /\ pending = 1 <=> left_channel_was_read
<1>1. empty_lag \in 0 .. 2
  BY StreamAssumption DEF TypeOK
<1>2. Writes \in 2 .. 3 /\ empty_lag <= Writes - 1 /\ (Writes = 3 <=> empty_lag = 2)
  BY <1>1 DEF Writes
<1> QED
  BY <1>1, <1>2, StreamAssumption DEF TypeOK, pending, Bit

(* valid shows that a sample is on its way, and a sample is only written   *)
(* when none is.                                                           *)
LEMMA WhatValidTells ==
  ASSUME IInv, NEW c \in Channel
  PROVE  /\ valid(c) <=> InFlight(c) /\ clock >= 2
         /\ InFlight(c) => Active(c) /\ clock \in 1 .. Writes + 1
         /\ AdcWrite(c) => Quiet(c) /\ Active(c) /\ clock = 0 /\ done_adc_channel_sync
         /\ Active(c) /\ clock = 0 /\ done_adc_channel_sync => AdcWrite(c)
         /\ AdcRead(c) => InFlight(c) /\ clock = Writes
         /\ InFlight(c) /\ clock = Writes => AdcRead(c)
         /\ adc[c].words \in Seq(Word) /\ adc[c].lag \in 0 .. 2
<1>1. /\ adc[c].words \in Seq(Word) /\ Used(adc[c]) \in 0 .. Depth
      /\ adc[c].lag \in 0 .. 2 /\ read_space[c] \in 0 .. Depth
      /\ write_space[c] \in 0 .. Depth /\ Used(dac[c]) \in 0 .. Depth
  BY DEF IInv, TypeOK, FifoOK, Used
<1>2. Quiet(c) \/ InFlight(c)
  BY DEF IInv, SampleInv
<1>3. valid(c) <=> InFlight(c) /\ clock >= 2
  <2>1. CASE Quiet(c)
    <3>1. ~valid(c)
      BY <2>1 DEF Quiet, valid
    <3>2. InFlight(c) => clock < 2
      BY <2>1, Bounds DEF IInv, Quiet, InFlight
    <3> QED
      BY <3>1, <3>2, Bounds DEF IInv
  <2>2. CASE InFlight(c)
    BY <2>2, Bounds DEF IInv, InFlight, valid
  <2> QED
    BY <1>2, <2>1, <2>2
<1>4. InFlight(c) => Active(c) /\ clock \in 1 .. Writes + 1
  BY DEF InFlight
<1>5. AdcWrite(c) => Active(c) /\ clock = 0 /\ done_adc_channel_sync
  BY DEF AdcWrite, Falling, Rising, Active, Channel
<1>6. clock = 0 => Quiet(c)
  BY <1>2, <1>4
<1>7. Active(c) /\ clock = 0 /\ done_adc_channel_sync => AdcWrite(c)
  BY <1>1, <1>6, Bounds DEF IInv, AdcWrite, Falling, Rising, Active, Channel, Full, Quiet
<1>8. Empty(adc[c]) <=> Used(adc[c]) = 0 \/ adc[c].lag > 0
  BY <1>1 DEF Empty, Used
<1>9. AdcRead(c) => InFlight(c) /\ clock = Writes
  BY <1>3, <1>8, Bounds DEF IInv, AdcRead, InFlight
<1>10. InFlight(c) /\ clock = Writes => AdcRead(c)
  BY <1>1, <1>3, <1>8, Bounds DEF IInv, AdcRead, InFlight, SpaceInv, ready
<1> QED
  BY <1>1, <1>3, <1>4, <1>5, <1>6, <1>7, <1>9, <1>10

(* What the output of an ADC FIFO can be. *)
LEMMA ShownIsWord ==
  ASSUME TypeOK, NEW c \in Channel
  PROVE  Shown(c) \in Word
<1>1. last[c] \in Word /\ adc[c].words \in Seq(Word) /\ Unspecified \in Word
  BY DEF TypeOK, FifoOK, Word
<1>2. ~Empty(adc[c]) => Head(adc[c].words) \in Word
  BY <1>1 DEF Empty
<1> QED
  BY <1>1, <1>2 DEF Shown

(* One clock of the ADC FIFO of a channel. *)
LEMMA AdcFifoMoves ==
  ASSUME IInv, Next, NEW c \in Channel
  PROVE  /\ FifoOK(adc[c])' /\ Used(adc[c])' <= 1
         /\ Used(adc[c])' = Used(adc[c]) + Bit(AdcWrite(c)) - Bit(AdcRead(c))
         /\ adc'[c].lag = IF AdcWrite(c) THEN empty_lag
                          ELSE IF adc[c].lag > 0 THEN adc[c].lag - 1 ELSE 0
         /\ adc'[c] = [words |-> adc'[c].words, lag |-> adc'[c].lag]
         /\ \A i \in 1 .. Used(adc[c])' :
              adc'[c].words[i] = IF i + Bit(AdcRead(c)) <= Used(adc[c])
                                   THEN adc[c].words[i + Bit(AdcRead(c))] ELSE frame
         /\ read_space'[c] = Used(adc[c]) /\ last'[c] = Shown(c)
<1>1. /\ adc'[c] = FifoEdge(adc[c], AdcWrite(c), frame, AdcRead(c))
      /\ read_space'[c] = Used(adc[c]) /\ last'[c] = Shown(c)
  BY DEF Next, AdcEdge
<1>2. AdcWrite(c) \in BOOLEAN /\ AdcRead(c) \in BOOLEAN /\ frame \in Word
  BY DEF IInv, TypeOK, AdcWrite, AdcRead, Word
<1>3. /\ adc[c].words \in Seq(Word) /\ adc[c].lag \in 0 .. 2
      /\ AdcRead(c) => InFlight(c) /\ clock = Writes
      /\ AdcWrite(c) => Quiet(c) /\ clock = 0
  BY WhatValidTells
<1>4. empty_lag \in 0 .. 2 /\ Writes >= 2 /\ Depth >= 4
  BY Bounds DEF IInv
<1>5. Used(adc[c]) \in 0 .. 1
  BY <1>4, Bounds DEF IInv, SampleInv, Quiet, InFlight
<1>6. AdcRead(c) => Used(adc[c]) = 1
  BY <1>3, <1>4 DEF InFlight
<1>7. AdcWrite(c) => Used(adc[c]) = 0
  BY <1>3 DEF Quiet
<1>8. /\ adc'[c].words \in Seq(Word) /\ adc'[c].lag \in 0 .. 2
      /\ Used(adc'[c]) = Used(adc[c]) + Bit(AdcWrite(c)) - Bit(AdcRead(c))
      /\ adc'[c].lag = IF AdcWrite(c) /\ Used(adc[c]) = 0 THEN empty_lag
                       ELSE IF adc[c].lag > 0 THEN adc[c].lag - 1 ELSE 0
      /\ adc'[c] = [words |-> adc'[c].words, lag |-> adc'[c].lag]
      /\ \A i \in 1 .. Used(adc'[c]) :
           adc'[c].words[i] = IF i + Bit(AdcRead(c)) <= Used(adc[c])
                                THEN adc[c].words[i + Bit(AdcRead(c))] ELSE frame
  <2>1. adc[c].words \in Seq(Word) /\ adc[c].lag \in 0 .. 2 /\ empty_lag \in 0 .. 2
    BY <1>3, <1>4
  <2>2. AdcRead(c) => Used(adc[c]) > 0
    BY <1>6
  <2>3. adc'[c] = FifoEdge(adc[c], AdcWrite(c), frame, AdcRead(c))
    BY <1>1
  <2>4. Moved(adc[c], adc'[c], AdcWrite(c), frame, AdcRead(c))
    BY <1>2, <2>1, <2>2, <2>3, FifoStep
  <2> QED
    BY <2>4 DEF Moved
<1>9. Used(adc[c])' = Used(adc'[c])
  BY DEF Used
<1>10. Used(adc'[c]) \in 0 .. 1
  BY <1>2, <1>5, <1>6, <1>7, <1>8 DEF Bit
<1>11. FifoOK(adc[c])'
  <2>1. Used(adc'[c]) <= Depth
    BY <1>4, <1>10, Bounds DEF IInv
  <2> QED
    BY <1>8, <2>1 DEF FifoOK, Word, Frame
<1> QED
  BY <1>1, <1>7, <1>8, <1>9, <1>10, <1>11

(* A sample goes through its stages clock by clock.  A half period lasts   *)
(* longer than the stages, so that LRCK cannot change among them.          *)
LEMMA SampleMoves ==
  ASSUME IInv, Next, NEW c \in Channel
  PROVE  /\ AdcWrite(c) => InFlight(c)' /\ clock' = 1
         /\ InFlight(c) /\ clock <= Writes => InFlight(c)'
         /\ InFlight(c) /\ clock = Writes + 1 => Quiet(c)'
         /\ Quiet(c) /\ ~AdcWrite(c) => Quiet(c)'
         /\ ticks'[c] \in 0 .. 4 /\ steps'[c] \in 0 .. 4
<1>1. /\ Used(adc[c])' = Used(adc[c]) + Bit(AdcWrite(c)) - Bit(AdcRead(c))
      /\ adc'[c].lag = IF AdcWrite(c) THEN empty_lag
                       ELSE IF adc[c].lag > 0 THEN adc[c].lag - 1 ELSE 0
      /\ read_space'[c] = Used(adc[c])
  BY AdcFifoMoves
<1>2. /\ ticks'[c] = IF AdcWrite(c) THEN 0
                     ELSE IF LineTick(c) THEN Count(ticks[c]) ELSE ticks[c]
      /\ steps'[c] = IF AdcWrite(c) THEN 0
                     ELSE IF valid(c) THEN Count(steps[c]) ELSE steps[c]
  BY DEF Next, ReverbEdge
<1>3. /\ \/ clock < HalfPeriod /\ clock' = clock + 1 /\ Active(c)' = Active(c)
         \/ clock >= HalfPeriod - 1 /\ clock' = 0
      /\ clock \in 0 .. HalfPeriod /\ HalfPeriod >= 6 /\ HalfPeriod \in Nat
  <2>1. TypeOK /\ LrckEdge
    BY DEF IInv, Next
  <2> QED
    BY <2>1, LrckSteps, Bounds
<1>4. empty_lag' = empty_lag /\ Writes' = Writes
  BY DEF Next, buildVars, Writes
<1>5. /\ empty_lag \in 0 .. 2 /\ Writes \in 2 .. 3 /\ empty_lag <= Writes - 1
  BY Bounds DEF IInv
<1>6. /\ valid(c) <=> InFlight(c) /\ clock >= 2
      /\ InFlight(c) => Active(c) /\ clock \in 1 .. Writes + 1
      /\ AdcWrite(c) => Quiet(c) /\ Active(c) /\ clock = 0 /\ done_adc_channel_sync
      /\ AdcRead(c) => InFlight(c) /\ clock = Writes
      /\ InFlight(c) /\ clock = Writes => AdcRead(c)
  BY WhatValidTells
<1>7. /\ done_adc_channel_sync' = (done_adc_channel_sync \/ Rising)
      /\ done_dac_channel_sync' = (done_dac_channel_sync \/ Falling)
  BY DEF Next, AdcEdge, DacEdge
<1>8. busy[c] \in Nat /\ ticks[c] \in 0 .. 4 /\ steps[c] \in 0 .. 4
  BY DEF IInv, TypeOK
<1>9. /\ InFlight(c) => busy[c] <= IF clock <= 2 THEN 0 ELSE 2 * HalfPeriod - 1 - clock
      /\ InFlight(c) /\ clock >= 3 => busy[c] >= 9 - clock
  BY <1>6 DEF IInv, LineInv
<1>10. LineTick(c) <=> InFlight(c) /\ clock = 2
  BY <1>3, <1>5, <1>6, <1>8, <1>9 DEF LineTick
<1>11. AdcWrite(c) => InFlight(c)' /\ clock' = 1
  <2>1. SUFFICES ASSUME AdcWrite(c)  PROVE InFlight(c)' /\ clock' = 1
    OBVIOUS
  <2>2. clock' = 1 /\ Active(c)'
    <3>1. clock = 0 /\ Active(c)
      BY <1>6, <2>1
    <3>2. clock < HalfPeriod - 1
      BY <1>3, <3>1
    <3>3. clock' = clock + 1 /\ Active(c)' = Active(c)
      BY <1>3, <3>2
    <3> QED
      BY <3>1, <3>3
  <2>3. Used(adc[c])' = 1 /\ adc'[c].lag = empty_lag /\ read_space'[c] = 0
    BY <1>1, <1>5, <1>6, <2>1 DEF Quiet, Bit
  <2>4. done_adc_channel_sync' /\ done_dac_channel_sync'
    <3>1. done_adc_channel_sync /\ clock = 0 /\ (Falling \/ left)
      BY <1>6, <2>1 DEF AdcWrite, Rising
    <3>2. Falling \/ done_dac_channel_sync
      BY <3>1 DEF IInv, SyncInv
    <3> QED
      BY <1>7, <3>1, <3>2
  <2>5. clock' \in 1 .. Writes' + 1
    BY <1>4, <1>5, <2>2
  <2>6. /\ Used(adc[c])' = IF clock' <= Writes' THEN 1 ELSE 0
        /\ adc'[c].lag = IF clock' <= empty_lag' THEN empty_lag' + 1 - clock' ELSE 0
        /\ read_space'[c] = IF clock' = 1 THEN 0 ELSE 1
        /\ ticks'[c] = IF clock' <= 2 THEN 0 ELSE 1
        /\ steps'[c] = IF clock' <= 2 THEN 0 ELSE clock' - 2
    BY <1>2, <1>4, <1>5, <2>1, <2>2, <2>3
  <2> QED
    BY <2>2, <2>4, <2>5, <2>6 DEF InFlight
<1>12. InFlight(c) /\ clock <= Writes => InFlight(c)'
  <2>1. SUFFICES ASSUME InFlight(c), clock <= Writes  PROVE InFlight(c)'
    OBVIOUS
  <2>2. /\ clock' = clock + 1 /\ clock \in 1 .. 3 /\ clock' \in 1 .. Writes + 1
        /\ Active(c)' /\ ~AdcWrite(c)
    <3>1. clock \in 1 .. 3
      BY <1>5, <1>6, <2>1
    <3>2. clock < HalfPeriod - 1 /\ clock # 0 /\ clock + 1 \in 1 .. Writes + 1
      BY <1>3, <1>5, <2>1, <3>1
    <3>3. clock' = clock + 1 /\ Active(c)' = Active(c)
      BY <1>3, <3>2
    <3> QED
      BY <1>6, <2>1, <3>1, <3>2, <3>3
  <2>3. Used(adc[c])' = IF clock' <= Writes THEN 1 ELSE 0
    BY <1>1, <1>5, <1>6, <2>1, <2>2 DEF InFlight, Bit
  <2>4. adc'[c].lag = IF clock' <= empty_lag THEN empty_lag + 1 - clock' ELSE 0
    BY <1>1, <1>5, <2>1, <2>2 DEF InFlight
  <2>5. read_space'[c] = 1
    BY <1>1, <2>1 DEF InFlight
  <2>6. /\ ticks'[c] = IF clock' <= 2 THEN 0 ELSE 1
        /\ steps'[c] = IF clock' <= 2 THEN 0 ELSE clock' - 2
    BY <1>2, <1>6, <1>10, <2>1, <2>2 DEF InFlight, Count
  <2>7. done_adc_channel_sync' /\ done_dac_channel_sync'
    BY <1>7, <2>1 DEF InFlight
  <2>8. read_space'[c] = IF clock' = 1 THEN 0 ELSE 1
    BY <2>2, <2>5
  <2> QED
    BY <1>4, <2>2, <2>3, <2>4, <2>6, <2>7, <2>8 DEF InFlight
<1>13. InFlight(c) /\ clock = Writes + 1 => Quiet(c)'
  <2>1. SUFFICES ASSUME InFlight(c), clock = Writes + 1  PROVE Quiet(c)'
    OBVIOUS
  <2>2. ~AdcWrite(c) /\ ~AdcRead(c) /\ ~LineTick(c) /\ valid(c)
    BY <1>5, <1>6, <1>10, <2>1
  <2>3. Used(adc[c])' = 0 /\ adc'[c].lag = 0 /\ read_space'[c] = 0
    BY <1>1, <1>5, <2>1, <2>2 DEF InFlight, Bit
  <2>4. ticks'[c] = 1 /\ steps'[c] \in 1 .. 3
    BY <1>2, <1>5, <2>1, <2>2 DEF InFlight, Count
  <2> QED
    BY <2>3, <2>4 DEF Quiet
<1>14. Quiet(c) /\ ~AdcWrite(c) => Quiet(c)'
  <2>1. SUFFICES ASSUME Quiet(c), ~AdcWrite(c)  PROVE Quiet(c)'
    OBVIOUS
  <2>2. ~valid(c) /\ ~AdcRead(c) /\ ~LineTick(c)
    BY <2>1 DEF Quiet, valid, AdcRead, LineTick
  <2> QED
    BY <1>1, <1>2, <2>1, <2>2 DEF Quiet, Bit
<1>15. ticks'[c] \in 0 .. 4 /\ steps'[c] \in 0 .. 4
  BY <1>2, <1>8 DEF Count
<1> QED
  BY <1>11, <1>12, <1>13, <1>14, <1>15

(* The DAC FIFO of a channel takes a word at each clock of its valid until *)
(* it is full; a left word goes out when LRCK rises if there is a right    *)
(* one, and that one goes out when LRCK falls.                             *)
LEMMA WhatDacDoes ==
  ASSUME IInv, NEW c \in Channel
  PROVE  /\ DacWrite(c) <=> InFlight(c) /\ clock >= 2 /\ Used(dac[c]) < Depth
         /\ DacReadLeft <=> /\ left /\ clock = 0 /\ done_dac_channel_sync
                            /\ Used(dac["L"]) > 0 /\ Used(dac["R"]) > 0
         /\ DacReadRight <=> ~left /\ clock = 0 /\ left_channel_was_read
         /\ DacReadRight => Used(dac["R"]) >= 2
         /\ clock = 0 => (Empty(dac[c]) <=> Used(dac[c]) = 0)
         /\ DacRead(c) => Used(dac[c]) > 0 /\ clock = 0
         /\ dac[c].words \in Seq(Word) /\ Used(dac[c]) \in 0 .. Depth
         /\ dac[c].lag \in 0 .. 2
<1>1. /\ \A d \in Channel : /\ dac[d].words \in Seq(Word) /\ Used(dac[d]) \in 0 .. Depth
                            /\ dac[d].lag \in 0 .. 2
      /\ write_space[c] \in 0 .. Depth /\ clock \in 0 .. HalfPeriod /\ Depth \in Nat
      /\ left_channel_was_read \in BOOLEAN
  BY StreamAssumption DEF IInv, TypeOK, FifoOK, Used
<1>2. valid(c) <=> InFlight(c) /\ clock >= 2
  BY WhatValidTells
<1>3. DacWrite(c) <=> InFlight(c) /\ clock >= 2 /\ Used(dac[c]) < Depth
  <2>1. Full(dac[c]) <=> Used(dac[c]) >= Depth
    BY <1>1 DEF Full
  <2>2. InFlight(c) /\ Used(dac[c]) < Depth => ready(c)
    BY <1>1 DEF IInv, SpaceInv, ready
  <2> QED
    BY <1>1, <1>2, <2>1, <2>2 DEF DacWrite
<1>4. \A d \in Channel : clock = 0 => (Empty(dac[d]) <=> Used(dac[d]) = 0)
  <2>1. SUFFICES ASSUME NEW d \in Channel, clock = 0
                 PROVE  Empty(dac[d]) <=> Used(dac[d]) = 0
    OBVIOUS
  <2>2. dac[d].lag = 0
    BY <1>1, <2>1 DEF IInv, LagInv
  <2> QED
    BY <1>1, <2>1, <2>2 DEF Empty, Used
<1>5. "L" \in Channel /\ "R" \in Channel
  BY DEF Channel
<1>6. DacReadLeft <=> /\ left /\ clock = 0 /\ done_dac_channel_sync
                      /\ Used(dac["L"]) > 0 /\ Used(dac["R"]) > 0
  BY <1>1, <1>4, <1>5 DEF DacReadLeft, Rising
<1>7. ~left /\ clock = 0 /\ left_channel_was_read =>
        done_dac_channel_sync /\ Used(dac["R"]) >= 2
  BY DEF IInv, Fresh, LeftOnly, Both, OnTime, BeforeLeft, LeftLeads, RightCatchesUp
<1>8. DacReadRight <=> ~left /\ clock = 0 /\ left_channel_was_read
  BY <1>7 DEF DacReadRight, Falling
<1>9. DacRead(c) => Used(dac[c]) > 0 /\ clock = 0
  BY <1>1, <1>5, <1>6, <1>7, <1>8 DEF DacRead, Channel
<1> QED
  BY <1>1, <1>3, <1>4, <1>6, <1>7, <1>8, <1>9

(* One clock of the DAC FIFOs, with the mono switch one way or the other.  *)
LEMMA DacFifosMove ==
  ASSUME IInv, Next
  PROVE  \E stereo_n_mono \in BOOLEAN : \A c \in Channel :
           /\ Moved(dac[c], dac'[c], DacWrite(c), dataOUT(c, stereo_n_mono), DacRead(c))
           /\ Used(dac'[c]) \in 0 .. Depth
<1>1. PICK s \in BOOLEAN : \A c \in Channel :
        dac'[c] = FifoEdge(dac[c], DacWrite(c), dataOUT(c, s), DacRead(c))
  BY DEF Next, DacEdge
<1>2. \A c \in Channel :
        /\ Moved(dac[c], dac'[c], DacWrite(c), dataOUT(c, s), DacRead(c))
        /\ Used(dac'[c]) \in 0 .. Depth
  <2>1. SUFFICES ASSUME NEW c \in Channel
                 PROVE  /\ Moved(dac[c], dac'[c], DacWrite(c), dataOUT(c, s), DacRead(c))
                        /\ Used(dac'[c]) \in 0 .. Depth
    OBVIOUS
  <2>2. dac'[c] = FifoEdge(dac[c], DacWrite(c), dataOUT(c, s), DacRead(c))
    BY <1>1
  <2>3. DacWrite(c) \in BOOLEAN /\ DacRead(c) \in BOOLEAN
    BY DEF DacWrite, DacRead, DacReadLeft, DacReadRight
  <2>4. dataOUT(c, s) \in Word
    BY ShownIsWord DEF IInv, dataOUT, Channel
  <2>5. /\ DacWrite(c) <=> InFlight(c) /\ clock >= 2 /\ Used(dac[c]) < Depth
        /\ DacRead(c) => Used(dac[c]) > 0 /\ clock = 0
        /\ dac[c].words \in Seq(Word) /\ Used(dac[c]) \in 0 .. Depth
        /\ dac[c].lag \in 0 .. 2
    BY WhatDacDoes
  <2>6. empty_lag \in 0 .. 2
    BY Bounds DEF IInv
  <2>7. DacRead(c) => Used(dac[c]) > 0
    BY <2>5
  <2>8. Moved(dac[c], dac'[c], DacWrite(c), dataOUT(c, s), DacRead(c))
    BY <2>2, <2>3, <2>4, <2>5, <2>6, <2>7, FifoStep
  <2>9. Used(dac'[c]) = Used(dac[c]) + Bit(DacWrite(c)) - Bit(DacRead(c))
    BY <2>8 DEF Moved
  <2>10. Used(dac'[c]) \in 0 .. Depth
    BY <2>3, <2>5, <2>9, StreamAssumption DEF Bit
  <2> QED
    BY <2>8, <2>10
<1> QED
  BY <1>2

(* What the next clock leaves of the levels, the syncs and the stages.     *)
LEMMA LevelFacts ==
  ASSUME IInv, Next
  PROVE  /\ \A c \in Channel :
              Used(dac[c])' = Used(dac[c])
                              + Bit(InFlight(c) /\ clock >= 2 /\ Used(dac[c]) < Depth)
                              - Bit(DacRead(c))
         /\ left_channel_was_read' =
              (DacReadLeft \/ (left_channel_was_read /\ ~DacReadRight))
         /\ done_adc_channel_sync' = (done_adc_channel_sync \/ Rising)
         /\ done_dac_channel_sync' = (done_dac_channel_sync \/ Falling)
         /\ \/ clock < HalfPeriod /\ clock' = clock + 1 /\ left' = left
            \/ clock >= HalfPeriod - 1 /\ clock' = 0 /\ left' = ~left
         /\ empty_lag' = empty_lag /\ holds' = holds /\ Writes' = Writes
         /\ clock \in 0 .. HalfPeriod /\ HalfPeriod >= 6 /\ HalfPeriod \in Nat
         /\ Writes \in 2 .. 3 /\ Depth \in Nat /\ Depth >= 4
         /\ Used(dac["L"]) \in 0 .. Depth /\ Used(dac["R"]) \in 0 .. Depth
         /\ left \in BOOLEAN /\ left' \in BOOLEAN /\ left_channel_was_read \in BOOLEAN
         /\ left_channel_was_read' \in BOOLEAN
<1>1. PICK s \in BOOLEAN : \A c \in Channel :
        Moved(dac[c], dac'[c], DacWrite(c), dataOUT(c, s), DacRead(c))
  BY DacFifosMove
<1>2. \A c \in Channel :
         Used(dac[c])' = Used(dac[c])
                         + Bit(InFlight(c) /\ clock >= 2 /\ Used(dac[c]) < Depth)
                         - Bit(DacRead(c))
  <2>1. SUFFICES ASSUME NEW c \in Channel
                 PROVE  Used(dac'[c]) = Used(dac[c])
                         + Bit(InFlight(c) /\ clock >= 2 /\ Used(dac[c]) < Depth)
                         - Bit(DacRead(c))
    BY DEF Used
  <2>2. Used(dac'[c]) = Used(dac[c]) + Bit(DacWrite(c)) - Bit(DacRead(c))
    BY <1>1 DEF Moved
  <2>3. Bit(DacWrite(c)) = Bit(InFlight(c) /\ clock >= 2 /\ Used(dac[c]) < Depth)
    BY WhatDacDoes DEF Bit
  <2> QED
    BY <2>2, <2>3
<1>3. /\ left_channel_was_read' =
           (DacReadLeft \/ (left_channel_was_read /\ ~DacReadRight))
      /\ done_adc_channel_sync' = (done_adc_channel_sync \/ Rising)
      /\ done_dac_channel_sync' = (done_dac_channel_sync \/ Falling)
      /\ empty_lag' = empty_lag /\ holds' = holds /\ Writes' = Writes
  BY DEF Next, AdcEdge, DacEdge, buildVars, Writes
<1>4. TypeOK /\ LrckEdge
  BY DEF IInv, Next
<1>5. Used(dac["L"]) \in 0 .. Depth /\ Used(dac["R"]) \in 0 .. Depth
  BY WhatDacDoes DEF Channel
<1>6. left \in BOOLEAN /\ left_channel_was_read \in BOOLEAN
  BY <1>4 DEF TypeOK
<1>7. left_channel_was_read' \in BOOLEAN
  BY <1>3
<1>8. /\ \/ clock < HalfPeriod /\ clock' = clock + 1 /\ left' = left
         \/ clock >= HalfPeriod - 1 /\ clock' = 0 /\ left' = ~left
      /\ left' \in BOOLEAN
  BY <1>4, LrckSteps
<1>9. /\ clock \in 0 .. HalfPeriod /\ HalfPeriod >= 6 /\ HalfPeriod \in Nat
      /\ Writes \in 2 .. 3 /\ Depth \in Nat /\ Depth >= 4
  BY <1>4, Bounds
<1> QED
  BY <1>2, <1>3, <1>5, <1>6, <1>7, <1>8, <1>9

(* Once both sides are synchronised no half period is without its sample.  *)
LEMMA OnTimeStays ==
  ASSUME IInv, Next, done_adc_channel_sync, done_dac_channel_sync \/ Falling,
         \A c \in Channel : Active(c) /\ clock \in 1 .. Writes + 1 => InFlight(c)
  PROVE  OnTime'
<1>1. done_adc_channel_sync' /\ done_dac_channel_sync'
  BY LevelFacts
<1>2. ASSUME NEW c \in Channel, Active(c)', clock' \in 1 .. Writes' + 1
      PROVE  InFlight(c)'
  <2>1. clock' = clock + 1 /\ left' = left /\ clock \in 0 .. Writes
    BY <1>2, LevelFacts
  <2>2. Active(c)
    BY <1>2, <2>1 DEF Active
  <2>3. CASE clock = 0
    BY <2>2, <2>3, WhatValidTells, SampleMoves
  <2>4. CASE clock # 0
    <3>1. clock \in 1 .. Writes + 1 /\ clock <= Writes
      BY <2>1, <2>4, LevelFacts
    <3>2. InFlight(c)
      BY <2>2, <3>1
    <3> QED
      BY <3>1, <3>2, SampleMoves
  <2> QED
    BY <2>3, <2>4
<1> QED
  BY <1>1, <1>2 DEF OnTime

(* With every sample on time its stages are those of the clock. *)
LEMMA OnTimeMeans ==
  ASSUME IInv, OnTime, NEW c \in Channel
  PROVE  InFlight(c) <=> Active(c) /\ clock >= 1 /\ clock <= Writes + 1
<1>1. InFlight(c) => Active(c) /\ clock \in 1 .. Writes + 1
  BY WhatValidTells
<1>2. Active(c) /\ clock \in 1 .. Writes + 1 => InFlight(c)
  BY DEF OnTime
<1>3. clock \in 1 .. Writes + 1 <=> clock >= 1 /\ clock <= Writes + 1
  BY Bounds DEF IInv
<1> QED
  BY <1>1, <1>2, <1>3

(* The stream starts: nothing is written until the first left sample, at   *)
(* the first falling edge after both sides are synchronised.               *)
LEMMA FreshMoves ==
  ASSUME IInv, Next, Fresh
  PROVE  Fresh' \/ LeftOnly'
<1>1. ~DacReadLeft /\ ~DacReadRight /\ ~DacRead("L") /\ ~DacRead("R")
  <2>1. ~DacReadLeft /\ ~DacReadRight
    BY WhatDacDoes DEF Fresh, Channel
  <2> QED
    BY <2>1 DEF DacRead
<1>2. ~left_channel_was_read'
  BY <1>1, LevelFacts DEF Fresh
<1>3. "L" \in Channel /\ "R" \in Channel
  BY DEF Channel
<1>4. /\ Used(dac["L"])' = Bit(InFlight("L") /\ clock >= 2)
      /\ Used(dac["R"])' = Bit(InFlight("R") /\ clock >= 2)
  BY <1>1, <1>3, LevelFacts DEF Fresh, Bit
<1>5. Quiet("R") /\ ~InFlight("R")
  BY Bounds DEF IInv, Fresh, Quiet, InFlight
<1>6. ~AdcWrite("R")
  <2>1. AdcWrite("R") => left /\ clock = 0 /\ done_adc_channel_sync
    BY WhatValidTells DEF Active, Channel
  <2>2. left /\ clock = 0 /\ done_adc_channel_sync => Quiet("L") /\ (left <=> clock > 0)
    BY WhatValidTells, <1>3 DEF Fresh
  <2> QED
    BY <2>1, <2>2
<1>7. Quiet("R")'
  BY <1>3, <1>5, <1>6, SampleMoves
<1>8. CASE InFlight("L") /\ clock <= 2
  <2>1. ~left /\ clock \in 1 .. 2 /\ clock' = clock + 1 /\ left' = left
    BY <1>3, <1>8, WhatValidTells, LevelFacts DEF Active
  <2>2. InFlight("L")'
    BY <1>3, <1>8, SampleMoves, LevelFacts
  <2>3. CASE clock = 1
    BY <1>2, <1>4, <1>5, <1>7, <2>1, <2>2, <2>3 DEF Fresh, Bit
  <2>4. CASE clock = 2
    <3>1. Used(dac["L"])' = 1 /\ Used(dac["R"])' = 0
      BY <1>4, <1>5, <1>8, <2>4 DEF Bit
    <3>2. ~left' /\ clock' = 3 /\ Gained' = 1
      BY <2>1, <2>4, LevelFacts DEF Gained
    <3>3. done_adc_channel_sync /\ done_dac_channel_sync
      BY <1>8 DEF InFlight
    <3>4. \A c \in Channel : Active(c) => c = "L"
      BY <2>1 DEF Active, Channel
    <3>5. OnTime'
      BY <1>8, <3>3, <3>4, OnTimeStays
    <3> QED
      BY <1>2, <3>1, <3>2, <3>5 DEF LeftOnly
  <2> QED
    BY <2>1, <2>3, <2>4
<1>9. CASE Quiet("L") /\ (done_adc_channel_sync => (left <=> clock > 0))
  <2>1. ~InFlight("L") \/ clock <= 1
    BY <1>9, Bounds DEF IInv, Quiet, InFlight
  <2>2. Used(dac["L"])' = 0 /\ Used(dac["R"])' = 0
    BY <1>4, <1>5, <2>1, LevelFacts DEF Bit
  <2>3. CASE AdcWrite("L")
    BY <1>2, <1>3, <1>7, <2>2, <2>3, SampleMoves DEF Fresh
  <2>4. CASE ~AdcWrite("L")
    <3>1. Quiet("L")'
      BY <1>3, <1>9, <2>4, SampleMoves
    <3>2. ~(~left /\ clock = 0 /\ done_adc_channel_sync)
      BY <1>3, <2>4, WhatValidTells DEF Active
    <3>3. done_adc_channel_sync' => (left' <=> clock' > 0)
      <4>1. CASE clock' = clock + 1 /\ left' = left
        <5>1. clock' > 0
          BY <4>1, LevelFacts
        <5>2. done_adc_channel_sync => left
          <6>1. clock = 0 \/ clock > 0
            BY LevelFacts
          <6> QED
            BY <1>9, <3>2, <6>1
        <5>3. done_adc_channel_sync' => left
          BY <5>2, LevelFacts DEF Rising
        <5> QED
          BY <4>1, <5>1, <5>3
      <4>2. CASE clock >= HalfPeriod - 1 /\ clock' = 0 /\ left' = ~left
        <5>1. clock > 0 /\ ~(clock' > 0)
          BY <4>2, LevelFacts
        <5>2. done_adc_channel_sync' => left
          BY <1>9, <5>1, LevelFacts DEF Rising
        <5> QED
          BY <4>2, <5>1, <5>2
      <4> QED
        BY <4>1, <4>2, LevelFacts
    <3> QED
      BY <1>2, <1>7, <2>2, <3>1, <3>3 DEF Fresh
  <2> QED
    BY <2>3, <2>4
<1> QED
  BY <1>8, <1>9 DEF Fresh

(* The first left sample, and the first right one after it. *)
LEMMA LeftOnlyMoves ==
  ASSUME IInv, Next, LeftOnly
  PROVE  LeftOnly' \/ Both'
<1>1. ~DacReadLeft /\ ~DacReadRight /\ ~DacRead("L") /\ ~DacRead("R")
  <2>1. ~DacReadLeft /\ ~DacReadRight
    BY WhatDacDoes DEF LeftOnly, Channel
  <2> QED
    BY <2>1 DEF DacRead
<1>2. ~left_channel_was_read'
  BY <1>1, LevelFacts DEF LeftOnly
<1>3. "L" \in Channel /\ "R" \in Channel
  BY DEF Channel
<1>4. OnTime'
  BY OnTimeStays DEF LeftOnly, OnTime
<1>5. /\ InFlight("L") <=> ~left /\ clock >= 1 /\ clock <= Writes + 1
      /\ InFlight("R") <=> left /\ clock >= 1 /\ clock <= Writes + 1
  BY <1>3, OnTimeMeans DEF LeftOnly, Active
<1>6. /\ Used(dac["L"])' = Used(dac["L"])
                           + Bit(InFlight("L") /\ clock >= 2 /\ Used(dac["L"]) < Depth)
      /\ Used(dac["R"])' = Bit(InFlight("R") /\ clock >= 2)
  BY <1>1, <1>3, LevelFacts DEF LeftOnly, Bit
<1>7. CASE ~left
  <2>1. clock >= 3 /\ Used(dac["L"]) = Gained /\ Used(dac["R"])' = 0
    BY <1>5, <1>6, <1>7 DEF LeftOnly, Bit
  <2>2. Used(dac["L"])' = IF clock <= Writes + 1 THEN Gained + 1 ELSE Gained
    BY <1>5, <1>6, <1>7, <2>1, LevelFacts DEF Bit, Gained
  <2>3. Used(dac["L"])' = IF clock - 1 <= Writes THEN clock - 1 ELSE Writes
    BY <2>1, <2>2, LevelFacts DEF Gained
  <2>4. CASE clock' = clock + 1 /\ ~left'
    <3>1. clock' >= 3 /\ Used(dac["L"])' = Gained'
      BY <2>1, <2>3, <2>4, LevelFacts DEF Gained
    <3> QED
      BY <1>2, <1>4, <2>1, <2>4, <3>1 DEF LeftOnly
  <2>5. CASE clock >= HalfPeriod - 1 /\ clock' = 0 /\ left'
    <3>1. clock' <= 2 /\ Used(dac["L"])' = Writes'
      BY <2>3, <2>5, LevelFacts
    <3> QED
      BY <1>2, <1>4, <2>1, <2>5, <3>1 DEF LeftOnly
  <2> QED
    BY <1>7, <2>4, <2>5, LevelFacts
<1>8. CASE left
  <2>1. clock \in 0 .. 2 /\ Used(dac["L"]) = Writes
    BY <1>8, LevelFacts DEF LeftOnly
  <2>2. clock' = clock + 1 /\ left'
    <3>1. clock < HalfPeriod - 1
      BY <2>1, LevelFacts
    <3>2. clock' = clock + 1 /\ left' = left
      BY <3>1, LevelFacts
    <3> QED
      BY <1>8, <3>2
  <2>3. Used(dac["L"])' = Writes'
    BY <1>5, <1>6, <1>8, <2>1, LevelFacts DEF Bit
  <2>4. CASE clock < 2
    <3>1. Used(dac["R"])' = 0 /\ clock' <= 2
      BY <1>6, <2>1, <2>2, <2>4 DEF Bit
    <3> QED
      BY <1>2, <1>4, <2>2, <2>3, <3>1 DEF LeftOnly
  <2>5. CASE clock = 2
    <3>1. Used(dac["R"])' = 1 /\ clock' = 3 /\ Gained' = 1 /\ pending' = 0
      BY <1>2, <1>5, <1>6, <1>8, <2>2, <2>5, LevelFacts DEF Bit, Gained, pending
    <3>2. Used(dac["L"])' = Writes /\ Writes' = Writes
          /\ Writes \in 2 .. 3 /\ Depth \in Nat /\ Depth >= 4
      BY <2>3, LevelFacts
    <3>3. Capped(1 + (Writes - 1)) = Writes
      BY <3>2 DEF Capped
    <3>4. Used(dac["L"])' + pending'
             = Capped(Used(dac["R"])' + (Writes' - Gained'))
      BY <3>1, <3>2, <3>3
    <3>5. RightCatchesUp'
      <4>1. clock' > 0 /\ clock' >= 3 /\ ~(clock' <= 2)
        BY <3>1
      <4>2. Used(dac["L"])' = Writes' /\ Used(dac["R"])' = Gained'
        BY <3>1, <3>2
      <4> QED
        BY <1>2, <2>2, <3>4, <4>1, <4>2 DEF RightCatchesUp, Capped
    <3> QED
      BY <1>4, <3>1, <3>5 DEF Both
  <2> QED
    BY <2>1, <2>4, <2>5
<1> QED
  BY <1>7, <1>8, LevelFacts

(* How often the sample will have been written a clock later. *)
After == IF clock <= 1 THEN 0 ELSE IF clock - 1 <= Writes THEN clock - 1 ELSE Writes

(* Gained counts the writes of the half period clock by clock: After is    *)
(* what it will be, unless LRCK changes, when all of them have been made.  *)
LEMMA AfterIsNext ==
  ASSUME IInv, Next
  PROVE  /\ clock' = clock + 1 => Gained' = After
         /\ clock >= HalfPeriod - 1 => After = Writes /\ Gained = Writes
         /\ Gained \in 0 .. Writes /\ After \in 0 .. Writes
         /\ After = IF clock >= 2 /\ clock <= Writes + 1 THEN Gained + 1 ELSE Gained
<1>1. /\ clock \in 0 .. HalfPeriod /\ HalfPeriod >= 6 /\ HalfPeriod \in Nat
      /\ Writes \in 2 .. 3 /\ Writes' = Writes
  BY LevelFacts
<1>2. clock' = clock + 1 => Gained' = After
  BY <1>1 DEF After, Gained
<1>3. clock >= HalfPeriod - 1 => After = Writes /\ Gained = Writes
  BY <1>1 DEF After, Gained
<1>4. Gained \in 0 .. Writes /\ After \in 0 .. Writes
  BY <1>1 DEF After, Gained
<1>5. After = IF clock >= 2 /\ clock <= Writes + 1 THEN Gained + 1 ELSE Gained
  BY <1>1 DEF After, Gained
<1> QED
  BY <1>2, <1>3, <1>4, <1>5

(* A FIFO that is topped up to its depth. *)
LEMMA CappedFacts ==
  ASSUME NEW m \in Nat
  PROVE  /\ Capped(m) \in 0 .. Depth /\ Capped(m) <= m
         /\ m <= Depth => Capped(m) = m
         /\ m >= Depth => Capped(m) = Depth
BY StreamAssumption DEF Capped

(* Writing while there is room comes to the same as capping the sum. *)
LEMMA TopUp ==
  ASSUME NEW low \in Nat, NEW more \in Nat, NEW high, high = Capped(low + more)
  PROVE  high + Bit(high < Depth) = Capped(low + (more + 1))
BY CappedFacts, StreamAssumption DEF Capped, Bit

(* A level that catches up with a capped one gets there just as well with  *)
(* one write made and one fewer to go.                                     *)
LEMMA CatchUp ==
  ASSUME NEW low \in 0 .. Depth, NEW more \in Nat, more > 0
  PROVE  Capped((low + Bit(low < Depth)) + (more - 1)) = Capped(low + more)
BY StreamAssumption DEF Capped, Bit

(* The words that a frame leaves in the FIFOs, half period by half period. *)
LEMMA BothMoves ==
  ASSUME IInv, Next, Both
  PROVE  Both'
<1>1. OnTime'
  BY OnTimeStays DEF Both, OnTime
<1>2. "L" \in Channel /\ "R" \in Channel
  BY DEF Channel
<1>3. /\ InFlight("L") <=> ~left /\ clock >= 1 /\ clock <= Writes + 1
      /\ InFlight("R") <=> left /\ clock >= 1 /\ clock <= Writes + 1
  BY <1>2, OnTimeMeans DEF Both, Active
<1>4. /\ Used(dac["L"])' = Used(dac["L"])
           + Bit(~left /\ clock >= 2 /\ clock <= Writes + 1 /\ Used(dac["L"]) < Depth)
           - Bit(DacReadLeft)
      /\ Used(dac["R"])' = Used(dac["R"])
           + Bit(left /\ clock >= 2 /\ clock <= Writes + 1 /\ Used(dac["R"]) < Depth)
           - Bit(DacReadRight)
  <2>1. /\ Used(dac["L"])' = Used(dac["L"])
             + Bit(InFlight("L") /\ clock >= 2 /\ Used(dac["L"]) < Depth)
             - Bit(DacRead("L"))
        /\ Used(dac["R"])' = Used(dac["R"])
             + Bit(InFlight("R") /\ clock >= 2 /\ Used(dac["R"]) < Depth)
             - Bit(DacRead("R"))
    BY <1>2, LevelFacts
  <2>2. DacRead("L") = DacReadLeft /\ DacRead("R") = DacReadRight
    BY DEF DacRead
  <2>3. /\ Bit(InFlight("L") /\ clock >= 2 /\ Used(dac["L"]) < Depth)
            = Bit(~left /\ clock >= 2 /\ clock <= Writes + 1 /\ Used(dac["L"]) < Depth)
        /\ Bit(InFlight("R") /\ clock >= 2 /\ Used(dac["R"]) < Depth)
            = Bit(left /\ clock >= 2 /\ clock <= Writes + 1 /\ Used(dac["R"]) < Depth)
    BY <1>3, LevelFacts DEF Bit
  <2> QED
    BY <2>1, <2>2, <2>3
<1>5. /\ DacReadLeft <=> left /\ clock = 0 /\ Used(dac["L"]) > 0
      /\ DacReadRight <=> ~left /\ clock = 0 /\ left_channel_was_read
  BY <1>2, WhatDacDoes, LevelFacts DEF Both, OnTime
<1>6. Used(dac["R"]) >= 1 /\ Used(dac["R"]) \in 0 .. Depth /\ Used(dac["L"]) \in 0 .. Depth
      /\ Writes \in 2 .. 3 /\ Depth \in Nat /\ Depth >= 4 /\ Writes' = Writes
      /\ clock \in 0 .. HalfPeriod /\ HalfPeriod >= 6 /\ HalfPeriod \in Nat
  BY LevelFacts DEF Both
<1>7. CASE BeforeLeft
  <2>1. ~left /\ clock = 0
    BY <1>7 DEF BeforeLeft
  <2>2. clock' = 1 /\ ~left'
    <3>1. clock < HalfPeriod - 1
      BY <1>6, <2>1
    <3>2. clock' = clock + 1 /\ left' = left
      BY <3>1, LevelFacts
    <3> QED
      BY <2>1, <3>2
  <2>3. ~left_channel_was_read'
    BY <1>5, <2>1, LevelFacts
  <2>4. Used(dac["L"])' = Used(dac["L"])
    BY <1>4, <1>5, <1>6, <2>1 DEF Bit
  <2>5. Used(dac["R"])' = Used(dac["R"]) - pending
    BY <1>4, <1>5, <1>6, <2>1 DEF Bit, pending
  <2>6. Used(dac["R"])' = Used(dac["L"]) /\ Used(dac["R"])' >= 1
        /\ Used(dac["L"]) <= Depth - 1
    BY <1>6, <1>7, <2>5 DEF BeforeLeft, pending, Bit
  <2>7. Gained' = 0
    BY <2>2 DEF Gained
  <2>8. Used(dac["L"])' = Capped(Used(dac["R"])' + Gained')
    BY <1>6, <2>4, <2>6, <2>7 DEF Capped
  <2>9. LeftLeads'
    <3>1. clock' > 0 /\ Used(dac["R"])' <= Depth - 1
      BY <2>2, <2>6
    <3> QED
      BY <2>2, <2>3, <2>8, <3>1 DEF LeftLeads, Capped
  <2> QED
    BY <1>1, <2>6, <2>9 DEF Both
<1>8. CASE LeftLeads /\ ~left
  <2>1. /\ ~left_channel_was_read /\ Used(dac["R"]) <= Depth - 1 /\ clock > 0
        /\ Used(dac["L"]) = Capped(Used(dac["R"]) + Gained)
    BY <1>8 DEF LeftLeads
  <2>2. ~DacReadLeft /\ ~DacReadRight /\ ~left_channel_was_read'
    BY <1>5, <1>8, <2>1, LevelFacts
  <2>3. Used(dac["R"])' = Used(dac["R"])
    BY <1>4, <1>6, <1>8, <2>2 DEF Bit
  <2>4. Used(dac["L"])' = Capped(Used(dac["R"]) + After)
    <3>1. CASE clock >= 2 /\ clock <= Writes + 1
      <4>1. Used(dac["L"])' = Used(dac["L"]) + Bit(Used(dac["L"]) < Depth)
        BY <1>4, <1>6, <1>8, <2>2, <3>1 DEF Bit
      <4>2. Gained \in Nat /\ After = Gained + 1 /\ Used(dac["R"]) \in Nat
        BY <1>6, <3>1, AfterIsNext
      <4> QED
        BY <2>1, <4>1, <4>2, TopUp
    <3>2. CASE ~(clock >= 2 /\ clock <= Writes + 1)
      <4>1. Used(dac["L"])' = Used(dac["L"])
        BY <1>4, <1>6, <1>8, <2>2, <3>2 DEF Bit
      <4>2. After = Gained
        BY <3>2, AfterIsNext
      <4> QED
        BY <2>1, <4>1, <4>2
    <3> QED
      BY <3>1, <3>2
  <2>5. CASE clock' = clock + 1 /\ ~left'
    <3>1. clock' > 0 /\ Gained' = After
      BY <1>6, <2>5, AfterIsNext
    <3>2. Used(dac["L"])' = Capped(Used(dac["R"])' + Gained')
      BY <2>3, <2>4, <3>1
    <3>3. LeftLeads'
      BY <2>1, <2>2, <2>3, <2>5, <3>1, <3>2 DEF LeftLeads, Capped
    <3> QED
      BY <1>1, <1>6, <2>3, <3>3 DEF Both
  <2>6. CASE clock >= HalfPeriod - 1 /\ clock' = 0 /\ left'
    <3>1. After = Writes
      BY <2>6, AfterIsNext
    <3>2. Used(dac["L"])' = Capped(Used(dac["R"])' + Writes')
      BY <1>6, <2>3, <2>4, <3>1
    <3>3. LeftLeads'
      BY <2>1, <2>2, <2>3, <2>6, <3>2 DEF LeftLeads, Capped
    <3> QED
      BY <1>1, <1>6, <2>3, <3>3 DEF Both
  <2> QED
    BY <1>8, <2>5, <2>6, LevelFacts
<1>9. CASE LeftLeads /\ left
  <2>1. /\ ~left_channel_was_read /\ Used(dac["R"]) <= Depth - 1 /\ clock = 0
        /\ Used(dac["L"]) = Capped(Used(dac["R"]) + Writes)
    BY <1>9 DEF LeftLeads
  <2>2. Used(dac["L"]) > 0
    BY <1>6, <2>1 DEF Capped
  <2>3. DacReadLeft /\ ~DacReadRight
    BY <1>5, <1>9, <2>1, <2>2
  <2>4. left_channel_was_read'
    BY <2>3, LevelFacts
  <2>5. Used(dac["L"])' = Used(dac["L"]) - 1 /\ Used(dac["R"])' = Used(dac["R"])
    BY <1>4, <1>6, <2>1, <2>3 DEF Bit
  <2>6. clock' = 1 /\ left'
    <3>1. clock < HalfPeriod - 1
      BY <1>6, <2>1
    <3>2. clock' = clock + 1 /\ left' = left
      BY <3>1, LevelFacts
    <3> QED
      BY <1>9, <2>1, <3>2
  <2>7. Gained' = 0 /\ pending' = 1
    BY <2>4, <2>6 DEF Gained, pending, Bit
  <2>8. Used(dac["L"])' + pending' = Capped(Used(dac["R"])' + (Writes' - Gained'))
    BY <1>6, <2>1, <2>5, <2>7
  <2>9. RightCatchesUp'
    <3>1. clock' > 0 /\ ~(clock' >= 3) /\ Used(dac["R"])' <= Depth - 1
      BY <2>1, <2>5, <2>6
    <3> QED
      BY <2>4, <2>6, <2>8, <3>1 DEF RightCatchesUp, Capped
  <2> QED
    BY <1>1, <1>6, <2>5, <2>9 DEF Both
<1>10. CASE RightCatchesUp
  <2>1. /\ left /\ clock > 0
        /\ Used(dac["L"]) + pending = Capped(Used(dac["R"]) + (Writes - Gained))
        /\ clock <= 2 => left_channel_was_read /\ Used(dac["R"]) <= Depth - 1
        /\ clock >= 3 /\ left_channel_was_read => Used(dac["R"]) >= 2
        /\ ~left_channel_was_read =>
             Used(dac["L"]) = Writes /\ Used(dac["R"]) = Gained
    BY <1>10 DEF RightCatchesUp
  <2>2. ~DacReadLeft /\ ~DacReadRight
    BY <1>5, <2>1
  <2>3. /\ left_channel_was_read' <=> left_channel_was_read
        /\ pending' = pending /\ pending \in 0 .. 1
    BY <2>2, LevelFacts DEF pending, Bit
  <2>4. Used(dac["L"])' = Used(dac["L"])
    BY <1>4, <1>6, <2>1, <2>2 DEF Bit
  <2>5. Used(dac["R"])' = IF clock >= 2 /\ clock <= Writes + 1
                            THEN Used(dac["R"]) + Bit(Used(dac["R"]) < Depth)
                            ELSE Used(dac["R"])
    BY <1>4, <1>6, <2>1, <2>2 DEF Bit
  <2>6. Gained \in 0 .. Writes /\ After \in 0 .. Writes
        /\ After = IF clock >= 2 /\ clock <= Writes + 1 THEN Gained + 1 ELSE Gained
    BY AfterIsNext
  <2>7. Used(dac["R"])' \in Used(dac["R"]) .. Depth
    BY <1>6, <2>5 DEF Bit
  <2>8. Used(dac["L"])' + pending' = Capped(Used(dac["R"])' + (Writes - After))
    <3>1. CASE clock >= 2 /\ clock <= Writes + 1
      <4>1. /\ Used(dac["R"])' = Used(dac["R"]) + Bit(Used(dac["R"]) < Depth)
            /\ Writes - After = (Writes - Gained) - 1 /\ Writes - Gained > 0
            /\ Writes - Gained \in Nat
        BY <1>6, <2>5, <2>6, <3>1
      <4> QED
        BY <1>6, <2>1, <2>3, <2>4, <4>1, CatchUp
    <3>2. CASE ~(clock >= 2 /\ clock <= Writes + 1)
      BY <2>1, <2>3, <2>4, <2>5, <2>6, <3>2
    <3> QED
      BY <3>1, <3>2
  <2>9. ~left_channel_was_read' => Used(dac["L"])' = Writes /\ Used(dac["R"])' = After
    BY <1>6, <2>1, <2>3, <2>4, <2>5, <2>6 DEF Bit
  <2>10. left_channel_was_read' /\ clock >= 2 => Used(dac["R"])' >= 2
    <3>1. CASE clock = 2
      <4>1. Used(dac["R"])' = Used(dac["R"]) + 1
        BY <1>6, <2>1, <2>5, <3>1 DEF Bit
      <4> QED
        BY <1>6, <4>1
    <3>2. CASE clock # 2
      BY <1>6, <2>1, <2>3, <2>7, <3>2
    <3> QED
      BY <3>1, <3>2
  <2>11. CASE clock' = clock + 1 /\ left'
    <3>1. Gained' = After /\ clock' > 0
      BY <1>6, <2>11, AfterIsNext
    <3>2. Used(dac["L"])' + pending' = Capped(Used(dac["R"])' + (Writes' - Gained'))
      BY <1>6, <2>8, <3>1
    <3>3. clock' <= 2 => left_channel_was_read' /\ Used(dac["R"])' <= Depth - 1
      BY <1>6, <2>1, <2>3, <2>5, <2>11
    <3>4. clock' >= 3 /\ left_channel_was_read' => Used(dac["R"])' >= 2
      BY <1>6, <2>10, <2>11
    <3>5. ~left_channel_was_read' =>
            Used(dac["L"])' = Writes' /\ Used(dac["R"])' = Gained'
      BY <1>6, <2>9, <3>1
    <3>6. RightCatchesUp'
      BY <2>11, <3>1, <3>2, <3>3, <3>4, <3>5 DEF RightCatchesUp, Capped
    <3> QED
      BY <1>1, <1>6, <2>7, <3>6 DEF Both
  <2>12. CASE clock >= HalfPeriod - 1 /\ clock' = 0 /\ ~left'
    <3>1. After = Writes
      BY <2>12, AfterIsNext
    <3>2. Used(dac["R"])' = Used(dac["L"])' + pending'
      <4>1. Used(dac["L"])' + pending' = Capped(Used(dac["R"])' + 0)
        BY <1>6, <2>8, <3>1
      <4> QED
        BY <1>6, <2>7, <4>1 DEF Capped
    <3>3. Used(dac["R"])' >= 2
      BY <1>6, <2>9, <2>10, <2>12, <3>1
    <3>4. Used(dac["L"])' <= Depth - 1
      <4>1. CASE left_channel_was_read'
        <5>1. pending' = 1
          BY <4>1 DEF pending, Bit
        <5> QED
          BY <1>6, <2>4, <2>7, <3>2, <5>1
      <4>2. CASE ~left_channel_was_read'
        BY <1>6, <2>9, <4>2
      <4> QED
        BY <4>1, <4>2
    <3>5. BeforeLeft'
      BY <2>12, <3>2, <3>3, <3>4 DEF BeforeLeft
    <3> QED
      BY <1>1, <1>6, <2>7, <3>5 DEF Both
  <2> QED
    BY <2>1, <2>11, <2>12, LevelFacts
<1> QED
  BY <1>7, <1>8, <1>9, <1>10 DEF Both

(* Early in a half period the clock goes on; and LRCK changes its level.   *)
LEMMA SameHalf ==
  ASSUME IInv, Next, clock < HalfPeriod - 1
  PROVE  clock' = clock + 1 /\ left' = left /\ \A c \in Channel : Active(c)' <=> Active(c)
<1>1. clock' = clock + 1 /\ left' = left
  BY LevelFacts
<1> QED
  BY <1>1 DEF Active

(* When LRCK changes the channels change their parts.                      *)
LEMMA OtherHalf ==
  ASSUME IInv, Next, clock' = 0
  PROVE  left' = ~left /\ clock >= HalfPeriod - 1
         /\ \A c \in Channel : Active(c)' <=> ~Active(c)
<1>1. left' = ~left /\ clock >= HalfPeriod - 1
  BY LevelFacts
<1> QED
  BY <1>1 DEF Active, Channel

(* Each part of the invariant, clock by clock. *)
LEMMA SampleInvStays ==
  ASSUME IInv, Next
  PROVE  SampleInv'
<1>1. SUFFICES ASSUME NEW c \in Channel  PROVE Quiet(c)' \/ InFlight(c)'
  BY DEF SampleInv
<1>2. InFlight(c) => clock <= Writes \/ clock = Writes + 1
  BY WhatValidTells, LevelFacts
<1>3. Quiet(c) \/ InFlight(c)
  BY DEF IInv, SampleInv
<1> QED
  BY <1>2, <1>3, SampleMoves

(* The rise of LRCK synchronises the ADC side, and the fall that follows   *)
(* it the DAC side.                                                        *)
LEMMA SyncInvStays ==
  ASSUME IInv, Next
  PROVE  SyncInv'
<1>1. SUFFICES ASSUME done_adc_channel_sync', ~done_dac_channel_sync'
               PROVE  left' <=> clock' > 0
  BY DEF SyncInv
<1>2. ~done_dac_channel_sync /\ ~Falling
  BY <1>1, LevelFacts
<1>3. left
  <2>1. CASE Rising
    BY <2>1 DEF Rising
  <2>2. CASE ~Rising
    <3>1. left <=> clock > 0
      BY <1>1, <1>2, <2>2, LevelFacts DEF IInv, SyncInv
    <3>2. clock = 0 \/ clock > 0
      BY LevelFacts
    <3> QED
      BY <1>2, <3>1, <3>2 DEF Falling
  <2> QED
    BY <2>1, <2>2
<1>4. CASE clock' = clock + 1 /\ left' = left
  <2>1. clock' > 0
    BY <1>4, LevelFacts
  <2> QED
    BY <1>3, <1>4, <2>1
<1>5. CASE clock' = 0 /\ left' = ~left
  <2>1. ~(clock' > 0)
    BY <1>5
  <2> QED
    BY <1>3, <1>5, <2>1
<1> QED
  BY <1>4, <1>5, LevelFacts

(* A DAC FIFO has room when a sample comes, whichever its last words were. *)
LEMMA RoomForASample ==
  ASSUME IInv, NEW c \in Channel, Active(c), clock <= 2
  PROVE  Used(dac[c]) <= Depth - 1
<1>1. /\ Used(dac["L"]) \in 0 .. Depth /\ Used(dac["R"]) \in 0 .. Depth
      /\ Depth \in Nat /\ Depth >= 4 /\ clock \in 0 .. HalfPeriod
      /\ Writes \in 2 .. 3 /\ HalfPeriod \in Nat
  BY WhatDacDoes, Bounds DEF IInv, Channel
<1>2. CASE Fresh
  BY <1>1, <1>2 DEF Fresh, Channel
<1>3. CASE LeftOnly
  BY <1>1, <1>3 DEF LeftOnly, Active, Channel
<1>4. CASE Both /\ c = "L"
  <2>1. ~left /\ ~RightCatchesUp
    BY <1>4 DEF Active, RightCatchesUp
  <2>2. CASE BeforeLeft
    BY <1>4, <2>2 DEF BeforeLeft
  <2>3. CASE LeftLeads
    <3>1. Used(dac["L"]) = Capped(Used(dac["R"]) + Gained) /\ Used(dac["R"]) <= Depth - 1
      BY <2>1, <2>3 DEF LeftLeads
    <3>2. Gained = 0
      BY DEF Gained
    <3> QED
      BY <1>1, <1>4, <3>1, <3>2 DEF Capped
  <2> QED
    BY <1>4, <2>1, <2>2, <2>3 DEF Both
<1>5. CASE Both /\ c = "R"
  BY <1>1, <1>5 DEF Both, Active, BeforeLeft, LeftLeads, RightCatchesUp
<1> QED
  BY <1>2, <1>3, <1>4, <1>5 DEF IInv, Channel

(* The first word of a sample is written at its third clock, so that only  *)
(* there an empty DAC FIFO can get a word.                                 *)
LEMMA FirstWordAtThree ==
  ASSUME IInv, NEW c \in Channel, DacWrite(c), Used(dac[c]) = 0
  PROVE  InFlight(c) /\ clock = 2
<1>1. InFlight(c) /\ clock >= 2 /\ Active(c) /\ clock <= Writes + 1
  BY WhatDacDoes, WhatValidTells, Bounds DEF IInv
<1>2. Writes \in 2 .. 3 /\ clock \in 0 .. HalfPeriod /\ HalfPeriod \in Nat
      /\ Depth \in Nat /\ Depth >= 4
  BY Bounds DEF IInv
<1>3. Used(dac["L"]) \in 0 .. Depth /\ Used(dac["R"]) \in 0 .. Depth
  BY WhatDacDoes DEF Channel
<1>4. CASE Fresh
  <2>1. ~Quiet(c)
    BY <1>1, <1>2 DEF Quiet, InFlight
  <2> QED
    BY <1>1, <1>2, <1>4, <2>1 DEF Fresh, Channel
<1>5. CASE LeftOnly
  <2>1. clock >= 3 => Gained >= 1
    BY <1>2 DEF Gained
  <2>2. CASE c = "L"
    <3>1. ~left /\ clock >= 3 /\ Used(dac["L"]) = Gained
      BY <1>1, <1>5, <2>2 DEF Active, LeftOnly
    <3> QED
      BY <1>3, <2>1, <2>2, <3>1
  <2>3. CASE c = "R"
    <3>1. left /\ clock <= 2
      BY <1>1, <1>5, <2>3 DEF Active, LeftOnly
    <3> QED
      BY <1>1, <1>2, <3>1
  <2> QED
    BY <2>2, <2>3 DEF Channel
<1>6. CASE Both
  <2>1. Used(dac["R"]) >= 1
    BY <1>6 DEF Both
  <2>2. CASE c = "L"
    <3>1. ~left /\ clock > 0 /\ LeftLeads
      BY <1>1, <1>2, <1>6, <2>2 DEF Active, Both, BeforeLeft, RightCatchesUp
    <3>2. Used(dac["L"]) = Capped(Used(dac["R"]) + Gained) /\ Gained \in Nat
      BY <1>2, <3>1 DEF LeftLeads, Gained
    <3> QED
      BY <1>2, <1>3, <2>1, <2>2, <3>2 DEF Capped
  <2>3. CASE c = "R"
    BY <1>3, <2>1, <2>3
  <2> QED
    BY <2>2, <2>3 DEF Channel
<1> QED
  BY <1>4, <1>5, <1>6 DEF IInv

(* A first word is written at the clock of two and shows two clocks later  *)
(* at the latest.                                                          *)
LEMMA LagInvStays ==
  ASSUME IInv, Next
  PROVE  LagInv'
<1>1. PICK s \in BOOLEAN : \A c \in Channel :
        Moved(dac[c], dac'[c], DacWrite(c), dataOUT(c, s), DacRead(c))
  BY DacFifosMove
<1>2. SUFFICES ASSUME NEW c \in Channel
               PROVE  dac'[c].lag <= IF Active(c)' /\ clock' \in 3 .. 4 THEN 5 - clock' ELSE 0
  BY DEF LagInv
<1>3. dac'[c].lag = IF DacWrite(c) /\ Used(dac[c]) = 0 THEN empty_lag
                    ELSE IF dac[c].lag > 0 THEN dac[c].lag - 1 ELSE 0
  BY <1>1 DEF Moved
<1>4. /\ clock \in 0 .. HalfPeriod /\ HalfPeriod >= 6 /\ HalfPeriod \in Nat
      /\ empty_lag \in 0 .. 2 /\ dac[c].lag \in 0 .. 2
  BY WhatDacDoes, Bounds DEF IInv
<1>5. clock < HalfPeriod - 1 => clock' = clock + 1 /\ (Active(c)' <=> Active(c))
  BY SameHalf
<1>6. CASE DacWrite(c) /\ Used(dac[c]) = 0
  <2>1. Active(c) /\ clock = 2
    BY <1>6, FirstWordAtThree, WhatValidTells
  <2>2. Active(c)' /\ clock' = 3
    <3>1. clock < HalfPeriod - 1
      BY <1>4, <2>1
    <3> QED
      BY <1>5, <2>1, <3>1
  <2> QED
    BY <1>3, <1>4, <1>6, <2>2
<1>7. CASE ~(DacWrite(c) /\ Used(dac[c]) = 0)
  <2>1. dac[c].lag <= IF Active(c) /\ clock \in 3 .. 4 THEN 5 - clock ELSE 0
    BY DEF IInv, LagInv
  <2>2. CASE Active(c) /\ clock \in 3 .. 4
    <3>1. clock' = clock + 1 /\ Active(c)'
      <4>1. clock < HalfPeriod - 1
        BY <1>4, <2>2
      <4> QED
        BY <1>5, <2>2, <4>1
    <3>2. dac'[c].lag <= 4 - clock
      BY <1>3, <1>4, <1>7, <2>1, <2>2
    <3> QED
      BY <2>2, <3>1, <3>2
  <2>3. CASE ~(Active(c) /\ clock \in 3 .. 4)
    <3>1. dac'[c].lag = 0
      BY <1>3, <1>4, <1>7, <2>1, <2>3
    <3> QED
      BY <3>1
  <2> QED
    BY <2>2, <2>3
<1> QED
  BY <1>6, <1>7

(* The registered free space is one clock old, and while a sample moves    *)
(* the level of its channel does not fall.                                 *)
LEMMA SpaceInvStays ==
  ASSUME IInv, Next
  PROVE  SpaceInv'
<1>1. SUFFICES ASSUME NEW c \in Channel, InFlight(c)'
               PROVE  /\ write_space'[c] >= Depth - Used(dac[c])'
                      /\ clock' <= 3 => write_space'[c] >= 1
  BY DEF SpaceInv
<1>2. write_space'[c] = Depth - Used(dac[c])
  BY DEF Next, DacEdge
<1>3. Active(c)' /\ clock' >= 1
  BY <1>1, LevelFacts DEF InFlight
<1>4. clock' = clock + 1 /\ left' = left
  BY <1>3, LevelFacts
<1>5. Active(c)
  BY <1>3, <1>4 DEF Active
<1>6. ~DacRead(c)
  BY <1>5, WhatDacDoes DEF DacRead, Active, Channel
<1>7. Used(dac[c]) \in 0 .. Depth /\ Depth \in Nat
  BY WhatDacDoes, LevelFacts
<1>8. Used(dac[c])' >= Used(dac[c]) /\ Used(dac[c])' \in Nat
  BY <1>6, <1>7, LevelFacts DEF Bit
<1>9. clock' <= 3 => Used(dac[c]) <= Depth - 1
  <2>1. clock' <= 3 => clock <= 2
    BY <1>4, LevelFacts
  <2> QED
    BY <1>5, <2>1, RoomForASample
<1> QED
  BY <1>2, <1>7, <1>8, <1>9

(* A line counts down from what it was ticked for, and only a sample that  *)
(* is shown as valid ticks it.                                             *)
LEMMA LineInvStays ==
  ASSUME IInv, Next
  PROVE  LineInv' /\ \A c \in Channel : busy'[c] \in 0 .. 2 * HalfPeriod - 4
<1>1. PICK n \in LineBusy : \A c \in Channel :
        busy'[c] = IF LineTick(c) THEN n ELSE IF busy[c] > 0 THEN busy[c] - 1 ELSE 0
  BY DEF Next, ReverbEdge
<1>2. n \in 6 .. 2 * HalfPeriod - 4
  BY <1>1, StreamAssumption
<1>3. SUFFICES ASSUME NEW c \in Channel
               PROVE /\ busy'[c] \in 0 .. 2 * HalfPeriod - 4
                     /\ busy'[c] <= IF Active(c)'
                                     THEN IF clock' <= 2 THEN 0 ELSE 2 * HalfPeriod - 1 - clock'
                                     ELSE IF clock' < HalfPeriod
                                            THEN HalfPeriod - 1 - clock' ELSE 0
                     /\ InFlight(c)' /\ clock' >= 3 => busy'[c] >= 9 - clock'
  BY DEF LineInv
<1>4. /\ clock \in 0 .. HalfPeriod /\ HalfPeriod >= 6 /\ HalfPeriod \in Nat
      /\ Writes \in 2 .. 3 /\ Writes' = Writes
  BY LevelFacts
<1>5. busy[c] \in 0 .. 2 * HalfPeriod - 4
  BY DEF IInv, TypeOK
<1>6. /\ busy[c] <= IF Active(c) THEN IF clock <= 2 THEN 0 ELSE 2 * HalfPeriod - 1 - clock
                    ELSE IF clock < HalfPeriod THEN HalfPeriod - 1 - clock ELSE 0
      /\ InFlight(c) /\ clock >= 3 => busy[c] >= 9 - clock
  BY DEF IInv, LineInv
<1>7. /\ valid(c) <=> InFlight(c) /\ clock >= 2
      /\ InFlight(c) => Active(c) /\ clock \in 1 .. Writes + 1
  BY WhatValidTells
<1>8. LineTick(c) <=> InFlight(c) /\ clock = 2
  BY <1>4, <1>5, <1>6, <1>7 DEF LineTick
<1>9. busy'[c] = IF LineTick(c) THEN n ELSE IF busy[c] > 0 THEN busy[c] - 1 ELSE 0
  BY <1>1
<1>10. CASE clock' = clock + 1 /\ Active(c)' = Active(c) /\ clock < HalfPeriod
  <2>1. CASE LineTick(c)
    <3>1. Active(c)' /\ clock' = 3 /\ busy'[c] = n
      BY <1>7, <1>8, <1>9, <1>10, <2>1
    <3> QED
      BY <1>2, <1>4, <3>1
  <2>2. CASE ~LineTick(c)
    <3>1. busy'[c] = IF busy[c] > 0 THEN busy[c] - 1 ELSE 0
      BY <1>9, <2>2
    <3>2. busy'[c] \in 0 .. 2 * HalfPeriod - 4
      BY <1>4, <1>5, <3>1
    <3>3. busy'[c] <= IF Active(c)
                       THEN IF clock' <= 2 THEN 0 ELSE 2 * HalfPeriod - 1 - clock'
                       ELSE IF clock' < HalfPeriod THEN HalfPeriod - 1 - clock' ELSE 0
      BY <1>4, <1>5, <1>6, <1>10, <3>1
    <3>4. ASSUME InFlight(c)', clock' >= 3  PROVE busy'[c] >= 9 - clock'
      <4>1. ~Quiet(c)'
        BY <1>4, <3>4 DEF Quiet, InFlight
      <4>2. ~AdcWrite(c)
        BY <1>10, <3>4, WhatValidTells
      <4>3. InFlight(c)
        BY <4>1, <4>2, SampleMoves DEF IInv, SampleInv
      <4>4. clock >= 3
        BY <1>4, <1>8, <1>10, <2>2, <3>4, <4>3
      <4> QED
        BY <1>4, <1>5, <1>6, <1>7, <1>10, <3>1, <4>3, <4>4
    <3> QED
      BY <1>10, <3>2, <3>3, <3>4
  <2> QED
    BY <2>1, <2>2
<1>11. CASE clock' = 0 /\ clock >= HalfPeriod - 1
  <2>1. ~LineTick(c)
    BY <1>4, <1>8, <1>11
  <2>2. busy'[c] = IF busy[c] > 0 THEN busy[c] - 1 ELSE 0
    BY <1>9, <2>1
  <2>3. busy'[c] \in 0 .. 2 * HalfPeriod - 4
    BY <1>4, <1>5, <2>2
  <2>4. CASE Active(c)
    <3>1. ~Active(c)'
      BY <1>11, <2>4, OtherHalf
    <3>2. busy'[c] <= HalfPeriod - 1
      BY <1>4, <1>5, <1>6, <1>11, <2>2, <2>4
    <3> QED
      BY <1>4, <1>11, <2>3, <3>1, <3>2
  <2>5. CASE ~Active(c)
    <3>1. busy'[c] = 0
      BY <1>4, <1>5, <1>6, <1>11, <2>2, <2>5
    <3> QED
      BY <1>4, <1>11, <2>3, <3>1
  <2> QED
    BY <2>4, <2>5
<1> QED
  BY <1>10, <1>11, LrckSteps DEF IInv, Next

(* Every register keeps its range; the levels do because a write needs     *)
(* room and a read a word.                                                 *)
LEMMA TypeOKStays ==
  ASSUME IInv, Next
  PROVE  TypeOK'
<1>1. TypeOK
  BY DEF IInv
<1>2. /\ empty_lag' \in EmptyLags /\ holds' \in Holds
      /\ left' \in BOOLEAN /\ clock' \in 0 .. HalfPeriod
  <2>1. empty_lag' = empty_lag /\ holds' = holds /\ left' \in BOOLEAN
        /\ clock' \in 0 .. HalfPeriod
    BY LevelFacts
  <2> QED
    BY <1>1, <2>1 DEF TypeOK
<1>3. frame' \in Frame
  <2>1. frame \in Frame
    BY <1>1 DEF TypeOK
  <2> QED
    BY <2>1, NextFrame DEF Next, LrckEdge
<1>4. done_adc_channel_sync' \in BOOLEAN /\ done_dac_channel_sync' \in BOOLEAN
      /\ left_channel_was_read' \in BOOLEAN
  BY LevelFacts
<1>5. \A c \in Channel : FifoOK(adc[c])' /\ FifoOK(dac[c])'
  <2>1. \A c \in Channel : FifoOK(adc[c])'
    BY AdcFifoMoves
  <2>2. ASSUME NEW c \in Channel  PROVE FifoOK(dac[c])'
    <3>1. \E w \in Word : Moved(dac[c], dac'[c], DacWrite(c), w, DacRead(c))
      BY <1>1, <2>2, DacFifosMove, ShownIsWord DEF dataOUT, Channel
    <3>2. Used(dac'[c]) \in 0 .. Depth
      BY <2>2, DacFifosMove
    <3>3. dac'[c].words \in Seq(Word) /\ dac'[c].lag \in 0 .. 2
      BY <3>1 DEF Moved
    <3> QED
      BY <3>2, <3>3, StreamAssumption DEF FifoOK, Word, Frame
  <2> QED
    BY <2>1, <2>2
<1>6. last' \in [Channel -> Word]
  BY <1>1, ShownIsWord DEF Next, AdcEdge, Word, Frame
<1>7. read_space' \in [Channel -> 0 .. Depth]
  BY <1>1 DEF Next, AdcEdge, TypeOK, FifoOK, Used
<1>8. write_space' \in [Channel -> 0 .. Depth]
  <2>1. \A c \in Channel : Depth - Used(dac[c]) \in 0 .. Depth
    BY WhatDacDoes, StreamAssumption
  <2> QED
    BY <2>1 DEF Next, DacEdge
<1>9. playing' \in Word
  <2>1. DacReadLeft => Head(dac["L"].words) \in Word
    BY WhatDacDoes DEF Channel, Used
  <2>2. playing \in Word
    BY <1>1 DEF TypeOK
  <2> QED
    BY <2>1, <2>2 DEF Next, DacEdge, Word, Frame
<1>10. busy' \in [Channel -> 0 .. 2 * HalfPeriod - 4]
  <2>1. \A c \in Channel : busy'[c] \in 0 .. 2 * HalfPeriod - 4
    BY LineInvStays
  <2> QED
    BY <2>1 DEF Next, ReverbEdge
<1>11. ticks' \in [Channel -> 0 .. 4] /\ steps' \in [Channel -> 0 .. 4]
  <2>1. \A c \in Channel : ticks'[c] \in 0 .. 4 /\ steps'[c] \in 0 .. 4
    BY SampleMoves
  <2> QED
    BY <2>1 DEF Next, ReverbEdge
<1> QED
  BY <1>2, <1>3, <1>4, <1>5, <1>6, <1>7, <1>8, <1>9, <1>10, <1>11 DEF TypeOK

(* After a reset all is empty, whatever LRCK is at.                        *)
LEMMA InitIInv ==
  ASSUME Init
  PROVE  IInv
<1>1. /\ \A c \in Channel : /\ adc[c].words = <<>> /\ adc[c].lag = 0
                            /\ dac[c].words = <<>> /\ dac[c].lag = 0
                            /\ read_space[c] = 0 /\ write_space[c] = 0
                            /\ ticks[c] = 1 /\ steps[c] = 1 /\ busy[c] = 0
      /\ ~left_channel_was_read /\ ~done_adc_channel_sync /\ clock \in 0 .. HalfPeriod
      /\ empty_lag \in 0 .. 2 /\ HalfPeriod \in Nat /\ HalfPeriod >= 6
  BY StreamAssumption DEF Init, NewFifo
<1>2. \A c \in Channel : Used(adc[c]) = 0 /\ Used(dac[c]) = 0
  BY <1>1 DEF Used
<1>3. \A c \in Channel : Quiet(c) /\ ~InFlight(c)
  BY <1>1, <1>2 DEF Quiet, InFlight
<1>4. SampleInv /\ SpaceInv /\ SyncInv
  BY <1>1, <1>3 DEF SampleInv, SpaceInv, SyncInv
<1>5. LineInv /\ LagInv
  BY <1>1, <1>3 DEF LineInv, LagInv
<1>6. Fresh
  BY <1>1, <1>2, <1>3 DEF Fresh, Channel
<1>7. TypeOK
  <2>1. <<>> \in Seq(Word)
    OBVIOUS
  <2>2. \A c \in Channel : FifoOK(adc[c]) /\ FifoOK(dac[c])
    <3>1. ASSUME NEW f, f.words = <<>>, f.lag = 0, Used(f) = 0  PROVE FifoOK(f)
      <4>1. f.words \in Seq(Word)
        BY <2>1, <3>1
      <4> QED
        BY <3>1, <4>1, StreamAssumption DEF FifoOK
    <3> QED
      BY <1>1, <1>2, <3>1
  <2>3. 0 \in Frame /\ 0 \in Word
    BY StreamAssumption DEF Frame, Word
  <2>4. /\ frame \in Frame /\ playing \in Word /\ last \in [Channel -> Word]
        /\ read_space \in [Channel -> 0 .. Depth]
        /\ write_space \in [Channel -> 0 .. Depth]
    BY <2>3, StreamAssumption DEF Init
  <2>5. /\ busy \in [Channel -> 0 .. 2 * HalfPeriod - 4]
        /\ ticks \in [Channel -> 0 .. 4] /\ steps \in [Channel -> 0 .. 4]
    BY StreamAssumption DEF Init
  <2>6. /\ done_adc_channel_sync \in BOOLEAN /\ done_dac_channel_sync \in BOOLEAN
        /\ left_channel_was_read \in BOOLEAN
    BY DEF Init
  <2>7. /\ empty_lag \in EmptyLags /\ holds \in Holds
        /\ left \in BOOLEAN /\ clock \in 0 .. HalfPeriod
    BY DEF Init
  <2> QED
    BY <2>2, <2>4, <2>5, <2>6, <2>7 DEF TypeOK
<1> QED
  BY <1>4, <1>5, <1>6, <1>7 DEF IInv

(* The parts of the invariant together.                                    *)
LEMMA StepIInv ==
  ASSUME IInv, [Next]_vars
  PROVE  IInv'
<1>1. CASE Next
  <2>1. (Fresh \/ LeftOnly \/ Both)'
    BY <1>1, FreshMoves, LeftOnlyMoves, BothMoves DEF IInv
  <2> QED
    BY <1>1, <2>1, TypeOKStays, SampleInvStays, LineInvStays, SpaceInvStays,
       LagInvStays, SyncInvStays DEF IInv
<1>2. CASE UNCHANGED vars
  <2> USE <1>2 DEF vars, buildVars, lrckVars, adcVars, dacVars, reverbVars
  <2>1. TypeOK'
    BY DEF IInv, TypeOK, FifoOK, Used
  <2>2. /\ Writes' = Writes /\ Gained' = Gained /\ pending' = pending
        /\ \A c \in Channel : /\ Active(c)' = Active(c)
                              /\ Used(adc[c])' = Used(adc[c])
                              /\ Used(dac[c])' = Used(dac[c])
    BY DEF Writes, Gained, pending, Bit, Active, Used
  <2>3. \A c \in Channel : Quiet(c)' = Quiet(c) /\ InFlight(c)' = InFlight(c)
    BY <2>2 DEF Quiet, InFlight
  <2>4. SampleInv' /\ LagInv' /\ SyncInv'
    BY <2>2, <2>3 DEF IInv, SampleInv, LagInv, SyncInv
  <2>5. LineInv'
    BY <2>2, <2>3 DEF IInv, LineInv
  <2>6. SpaceInv'
    BY <2>2, <2>3 DEF IInv, SpaceInv
  <2>7. Fresh' = Fresh
    BY <2>2, <2>3 DEF Fresh, Channel
  <2>8. OnTime' = OnTime
    BY <2>2, <2>3 DEF OnTime
  <2>9. LeftOnly' = LeftOnly
    BY <2>2, <2>8 DEF LeftOnly, Channel
  <2>10. BeforeLeft' = BeforeLeft
    BY <2>2 DEF BeforeLeft, Channel
  <2>11. LeftLeads' = LeftLeads
    BY <2>2 DEF LeftLeads, Capped, Channel
  <2>12. RightCatchesUp' = RightCatchesUp
    BY <2>2 DEF RightCatchesUp, Capped, Channel
  <2>13. Both' = Both
    BY <2>2, <2>8, <2>10, <2>11, <2>12 DEF Both, Channel
  <2> QED
    BY <2>1, <2>4, <2>5, <2>6, <2>7, <2>9, <2>13 DEF IInv
<1> QED
  BY <1>1, <1>2

(* The levels and stages of every state of the stream.                     *)
LEMMA IInvariance == Spec => []IInv
  BY InitIInv, StepIInv, PTL DEF Spec

(* The FIFOs never overflow and every register keeps its range, whatever   *)
(* their depth from four words on.                                         *)
THEOREM TypeCorrect == Spec => []TypeOK
BY IInvariance, PTL DEF IInv

(* A sample has left the ADC FIFO before the next one is written to it.    *)
THEOREM NoBacklog == Spec => []NoAdcBacklog
<1>1. IInv => NoAdcBacklog
  BY Bounds DEF IInv, SampleInv, Quiet, InFlight, NoAdcBacklog
<1> QED
  BY <1>1, IInvariance, PTL

(* A right word follows every left word half a period later. *)
THEOREM RightFollows == Spec => []RightNeverUnderflows
<1>1. ASSUME IInv  PROVE RightNeverUnderflows
  <2>1. "R" \in Channel
    BY DEF Channel
  <2>2. DacReadRight => clock = 0 /\ Used(dac["R"]) >= 2
    BY <1>1, <2>1, WhatDacDoes
  <2>3. clock = 0 => (Empty(dac["R"]) <=> Used(dac["R"]) = 0)
    BY <1>1, <2>1, WhatDacDoes
  <2> QED
    BY <2>2, <2>3 DEF RightNeverUnderflows
<1> QED
  BY <1>1, IInvariance, PTL

(* The delay lines see every sample: a line is idle when the sample comes, *)
(* however long the delay that HalfPeriod admits.                          *)
THEOREM NoSampleMissed == Spec => []EverySampleTicked
<1>1. ASSUME IInv  PROVE EverySampleTicked
  BY <1>1, WhatValidTells DEF EverySampleTicked, Quiet
<1> QED
  BY <1>1, IInvariance, PTL

(* The delay lines see every sample once: a line is busy for longer than   *)
(* the sample is valid, however short the delay.                           *)
THEOREM NoSampleTwice == Spec => []OneTickPerSample
<1>1. ASSUME IInv  PROVE OneTickPerSample
  BY <1>1, Bounds DEF IInv, SampleInv, Quiet, InFlight, OneTickPerSample
<1> QED
  BY <1>1, IInvariance, PTL

(* The registers of the filters move two or three times for a sample,      *)
(* whether the DAC FIFO is full or not.                                    *)
THEOREM StepsBounded == Spec => []FewSteps
<1>1. ASSUME IInv, NEW c \in Channel  PROVE steps[c] <= 3
  <2>1. CASE Quiet(c)
    BY <2>1 DEF Quiet
  <2>2. CASE InFlight(c)
    BY <1>1, <2>2, Bounds DEF IInv, InFlight
  <2> QED
    BY <1>1, <2>1, <2>2 DEF IInv, SampleInv
<1>2. IInv => FewSteps
  BY <1>1 DEF FewSteps
<1> QED
  BY <1>2, IInvariance, PTL

(* The sample that a line reads at the end of its shift is the one it was  *)
(* ticked for.                                                             *)
THEOREM LineReadsItsSample == Spec => []LineTakesItsSample
<1>1. ASSUME IInv, NEW c \in Channel, LineReadsInput(c)
      PROVE  ticks[c] = 1 /\ (holds => Shown(c) = last[c] /\ Used(adc[c]) = 0)
  <2>1. busy[c] = 1
    BY <1>1 DEF LineReadsInput
  <2>2. ~InFlight(c)
    <3>1. SUFFICES ASSUME InFlight(c)  PROVE FALSE
      OBVIOUS
    <3>2. Active(c) /\ clock \in 1 .. 4
      BY <1>1, <3>1, WhatValidTells, Bounds DEF IInv
    <3>3. busy[c] <= IF clock <= 2 THEN 0 ELSE 2 * HalfPeriod - 1 - clock
      BY <1>1, <3>2 DEF IInv, LineInv
    <3>4. clock >= 3 => busy[c] >= 9 - clock
      BY <1>1, <3>1 DEF IInv, LineInv
    <3> QED
      BY <2>1, <3>2, <3>3, <3>4
  <2>3. Quiet(c)
    BY <1>1, <2>2 DEF IInv, SampleInv
  <2>4. adc[c].words = <<>>
    BY <1>1, <2>3, WhatValidTells DEF Quiet, Used
  <2> QED
    BY <2>3, <2>4 DEF Quiet, Shown, Empty
<1>2. IInv => LineTakesItsSample
  BY <1>1 DEF LineTakesItsSample
<1> QED
  BY <1>2, IInvariance, PTL

-----------------------------------------------------------------------------
(* The words.  Every frame is written to its DAC FIFO as so many pieces:   *)
(* the frame itself, before it the last frame while the ADC FIFO still     *)
(* shows as empty, and after it what an empty FIFO goes on to show.  The   *)
(* n-th piece of a right frame always comes to stand beside the n-th piece *)
(* of the left one, because the full FIFOs refuse the same pieces.         *)

(* The frame that was written last to the ADC FIFO of a channel. *)
Newest(c) ==
  IF ~done_adc_channel_sync THEN 0
  ELSE IF c = "L" /\ (left <=> clock = 0) THEN frame ELSE Pred(frame)

(* The word that an ADC FIFO shows before its newest frame, the one it     *)
(* shows after it, and the j-th of the words that the newest frame leaves  *)
(* in the DAC FIFO, counted from 0.                                        *)
Old(c) == IF holds THEN Pred(Newest(c)) ELSE Unspecified
Held(c) == IF holds THEN Newest(c) ELSE Unspecified

Piece(c, j) ==
  IF j < empty_lag THEN Old(c) ELSE IF j < Writes THEN Newest(c) ELSE Held(c)

(* Two words that may go out together, as Aligned has it. *)
Match(l, r) ==
  \/ \E early \in 0 .. 1 : r = (l + early) % Frames /\ early <= empty_lag \div 2
  \/ ~holds /\ r = Unspecified

(* The left channel, the word that plays included. *)
LeftAt(i) == IF i = 0 THEN playing ELSE dac["L"].words[i]

(* The count of the frames starts with the synchronisation.                *)
FrameInv == ~done_adc_channel_sync => frame = 0

(* What an ADC FIFO holds and has shown. *)
HeldInv ==
  \A c \in Channel :
    /\ InFlight(c) /\ clock <= Writes => adc[c].words[1] = Newest(c)
    /\ holds => last[c] = IF InFlight(c) /\ clock <= empty_lag + 1
                            THEN Pred(Newest(c)) ELSE Newest(c)

(* The right words stand beside their left words. *)
MatchInv ==
  \A i \in 1 .. Used(dac["R"]) :
    Match(LeftAt(i - pending), dac["R"].words[i])

(* The left words that are still to get their right words. *)
TailInv ==
  \A i \in 1 .. Used(dac["L"]) :
    i + pending > Used(dac["R"]) =>
      dac["L"].words[i] = Piece("L", i + pending - Used(dac["R"])
                                     + (IF left THEN Gained ELSE 0))

(* The left channel tells the frames in their order, up to the newest. *)
ChainInv ==
  empty_lag <= 1 /\ holds =>
    /\ \A i \in 0 .. Used(dac["L"]) : LeftAt(i) \in Frame
    /\ \A i \in 1 .. Used(dac["L"]) : LeftAt(i) \in {LeftAt(i - 1), Succ(LeftAt(i - 1))}
    /\ LeftAt(Used(dac["L"])) = IF InFlight("L") /\ clock <= 2
                                  THEN Pred(Newest("L")) ELSE Newest("L")

(* The second invariant.                                                   *)
WordsInv == FrameInv /\ HeldInv /\ MatchInv /\ TailInv /\ ChainInv

(* The levels as the words need them. *)
LEMMA LevelShape ==
  ASSUME IInv
  PROVE  /\ Used(dac["R"]) <= Used(dac["L"]) + pending
         /\ Used(dac["L"]) + pending <= Depth
         /\ pending = 1 => Used(dac["R"]) >= 1
         /\ ~left /\ clock = 0 => Used(dac["R"]) = Used(dac["L"]) + pending
         /\ ~left /\ clock > 0 => pending = 0
         /\ left /\ clock = 0 => pending = 0
         /\ InFlight("L") /\ clock >= 2 /\ Used(dac["L"]) < Depth =>
              Used(dac["L"]) = Used(dac["R"]) + (clock - 2)
         /\ InFlight("R") /\ clock >= 2 => Gained = clock - 2
         /\ InFlight("R") /\ clock >= 2 /\ Used(dac["R"]) < Depth =>
              Used(dac["R"]) + 1 <= Used(dac["L"]) + pending
         /\ Used(dac["L"]) > 0 => OnTime
         /\ Used(dac["L"]) \in 0 .. Depth /\ Used(dac["R"]) \in 0 .. Depth
         /\ pending \in 0 .. 1
<1>1. /\ Used(dac["L"]) \in 0 .. Depth /\ Used(dac["R"]) \in 0 .. Depth
      /\ Depth \in Nat /\ Depth >= 4 /\ clock \in 0 .. HalfPeriod /\ HalfPeriod \in Nat
      /\ Writes \in 2 .. 3 /\ pending \in 0 .. 1
      /\ (pending = 1 <=> left_channel_was_read)
  BY WhatDacDoes, Bounds DEF IInv, Channel
<1>2. /\ InFlight("L") => ~left /\ clock >= 1 /\ clock <= Writes + 1
      /\ InFlight("R") => left /\ clock >= 1 /\ clock <= Writes + 1
  BY <1>1, WhatValidTells DEF Active, Channel
<1>3. Gained \in 0 .. Writes
  BY <1>1 DEF Gained
<1>4. clock >= 2 /\ clock <= Writes + 1 => Gained = clock - 2
  BY <1>1 DEF Gained
<1>5. CASE Fresh
  <2>1. InFlight("L") /\ clock >= 2 => clock = 2
    BY <1>1, <1>5 DEF Fresh, Quiet, InFlight
  <2>2. ~InFlight("R")
    BY <1>1, <1>5 DEF Fresh, Quiet, InFlight
  <2> QED
    BY <1>1, <1>2, <1>4, <1>5, <2>1, <2>2 DEF Fresh
<1>6. CASE LeftOnly
  BY <1>1, <1>2, <1>3, <1>4, <1>6 DEF LeftOnly
<1>7. CASE Both /\ BeforeLeft
  BY <1>1, <1>2, <1>4, <1>7 DEF Both, BeforeLeft
<1>8. CASE Both /\ LeftLeads
  <2>1. pending = 0
    BY <1>1, <1>8 DEF LeftLeads
  <2>2. CASE ~left
    <3>1. clock > 0 /\ Used(dac["L"]) = Capped(Used(dac["R"]) + Gained)
      BY <1>8, <2>2 DEF LeftLeads
    <3>2. Used(dac["L"]) >= Used(dac["R"])
      BY <1>1, <1>3, <3>1 DEF Capped
    <3>3. Used(dac["L"]) < Depth => Used(dac["L"]) = Used(dac["R"]) + Gained
      BY <1>1, <1>3, <3>1 DEF Capped
    <3> QED
      BY <1>1, <1>2, <1>4, <1>8, <2>1, <2>2, <3>1, <3>2, <3>3 DEF Both
  <2>3. CASE left
    <3>1. Used(dac["L"]) = Capped(Used(dac["R"]) + Writes)
      BY <1>8, <2>3 DEF LeftLeads
    <3>2. /\ Used(dac["L"]) >= Used(dac["R"])
          /\ Used(dac["R"]) < Depth => Used(dac["L"]) >= Used(dac["R"]) + 1
      BY <1>1, <3>1 DEF Capped
    <3> QED
      BY <1>1, <1>2, <1>4, <1>8, <2>1, <2>3, <3>2 DEF Both
  <2> QED
    BY <2>2, <2>3
<1>9. CASE Both /\ RightCatchesUp
  <2>1. Used(dac["L"]) + pending = Capped(Used(dac["R"]) + (Writes - Gained))
        /\ Used(dac["R"]) >= 1 /\ left /\ clock > 0
    BY <1>9 DEF Both, RightCatchesUp
  <2>2. /\ Used(dac["L"]) + pending >= Used(dac["R"])
        /\ Used(dac["L"]) + pending <= Depth
        /\ Used(dac["R"]) < Depth /\ Gained < Writes =>
             Used(dac["L"]) + pending >= Used(dac["R"]) + 1
    BY <1>1, <1>3, <2>1 DEF Capped
  <2> QED
    BY <1>1, <1>2, <1>4, <1>9, <2>1, <2>2 DEF Both
<1> QED
  BY <1>5, <1>6, <1>7, <1>8, <1>9 DEF IInv, Both

(* The newest frame of a channel changes when a frame is written for it,   *)
(* and then to the next one.                                               *)
LEMMA NewestMoves ==
  ASSUME IInv, FrameInv, Next, NEW c \in Channel
  PROVE  /\ Newest(c)' = IF AdcWrite(c) THEN frame ELSE Newest(c)
         /\ AdcWrite(c) => Newest(c) = Pred(frame)
         /\ Newest(c) \in Frame /\ frame \in Frame
         /\ FrameInv'
<1>1. frame \in Frame /\ left \in BOOLEAN /\ done_adc_channel_sync \in BOOLEAN
  BY DEF IInv, TypeOK
<1>2. frame' = IF Rising THEN Succ(frame) ELSE frame
  BY <1>1, NextFrame DEF Next, LrckEdge
<1>3. /\ \/ clock < HalfPeriod /\ clock' = clock + 1 /\ left' = left
         \/ clock >= HalfPeriod - 1 /\ clock' = 0 /\ left' = ~left
      /\ done_adc_channel_sync' = (done_adc_channel_sync \/ Rising)
      /\ clock \in 0 .. HalfPeriod /\ HalfPeriod >= 6 /\ HalfPeriod \in Nat
  BY LevelFacts
<1>4. /\ AdcWrite(c) <=> Active(c) /\ clock = 0 /\ done_adc_channel_sync
  BY WhatValidTells
<1>5. Pred(frame) \in Frame /\ 0 \in Frame /\ Pred(Succ(frame)) = frame
      /\ Succ(0) \in Frame /\ Pred(Succ(0)) = 0
  <2>1. 0 \in Frame /\ Pred(frame) \in Frame
    BY <1>1, StreamAssumption DEF Frame, Pred
  <2> QED
    BY <1>1, <2>1, NextFrame
<1>6. Newest(c) \in Frame
  BY <1>1, <1>5 DEF Newest
<1>7. FrameInv'
  BY <1>2, <1>3 DEF FrameInv
<1>8. AdcWrite(c) => Newest(c) = Pred(frame)
  BY <1>1, <1>4 DEF Newest, Active, Channel
<1>9. CASE Rising
  <2>1. left /\ clock = 0 /\ frame' = Succ(frame) /\ done_adc_channel_sync'
    BY <1>2, <1>3, <1>9 DEF Rising
  <2>2. left' /\ clock' = 1
    <3>1. clock < HalfPeriod - 1
      BY <1>3, <2>1
    <3>2. clock' = clock + 1 /\ left' = left
      BY <1>3, <3>1
    <3> QED
      BY <2>1, <3>2
  <2>3. Newest(c)' = frame
    <3>1. Newest(c)' = Pred(frame')
      BY <2>1, <2>2 DEF Newest
    <3> QED
      BY <1>5, <2>1, <3>1
  <2>4. ~AdcWrite(c) => Newest(c) = frame
    BY <1>1, <1>4, <2>1 DEF Newest, Active, Channel, FrameInv
  <2> QED
    BY <1>1, <1>6, <1>7, <1>8, <2>3, <2>4
<1>10. CASE ~Rising
  <2>1. frame' = frame /\ done_adc_channel_sync' = done_adc_channel_sync
    BY <1>1, <1>2, <1>3, <1>10
  <2>2. CASE ~done_adc_channel_sync
    BY <1>1, <1>4, <1>6, <1>7, <1>8, <2>1, <2>2 DEF Newest
  <2>3. CASE done_adc_channel_sync /\ c = "R"
    <3>1. ~AdcWrite(c)
      BY <1>4, <1>10, <2>3 DEF Active, Rising
    <3>2. Newest(c)' = Newest(c)
      BY <2>1, <2>3 DEF Newest
    <3> QED
      BY <1>1, <1>6, <1>7, <1>8, <3>1, <3>2
  <2>4. CASE done_adc_channel_sync /\ c = "L"
    <3>1. AdcWrite(c) <=> ~left /\ clock = 0
      BY <1>4, <2>4 DEF Active
    <3>2. Newest(c) = IF left <=> clock = 0 THEN frame ELSE Pred(frame)
      BY <2>4 DEF Newest
    <3>3. Newest(c)' = IF left' <=> clock' = 0 THEN frame ELSE Pred(frame)
      BY <2>1, <2>4 DEF Newest
    <3>4. CASE AdcWrite(c)
      <4>1. clock < HalfPeriod - 1
        BY <1>3, <3>1, <3>4
      <4>2. clock' = clock + 1 /\ left' = left
        BY <1>3, <4>1
      <4>3. clock' # 0 /\ ~left'
        BY <1>3, <3>1, <3>4, <4>2
      <4> QED
        BY <1>1, <1>6, <1>7, <1>8, <3>3, <3>4, <4>3
    <3>5. CASE ~AdcWrite(c)
      <4>1. clock # 0
        BY <1>10, <3>1, <3>5 DEF Rising
      <4>2. (left' <=> clock' = 0) <=> (left <=> clock = 0)
        <5>1. CASE clock' = clock + 1 /\ left' = left
          <6>1. clock' # 0
            BY <1>3, <5>1
          <6> QED
            BY <4>1, <5>1, <6>1
        <5>2. CASE clock' = 0 /\ left' = ~left
          BY <4>1, <5>2
        <5> QED
          BY <1>3, <5>1, <5>2
      <4>3. Newest(c)' = Newest(c)
        BY <3>2, <3>3, <4>2
      <4> QED
        BY <1>1, <1>6, <1>7, <1>8, <3>5, <4>3
    <3> QED
      BY <3>4, <3>5
  <2> QED
    BY <2>2, <2>3, <2>4 DEF Channel
<1> QED
  BY <1>9, <1>10

(* The two stages of a channel exclude each other.                         *)
LEMMA QuietOrNot ==
  ASSUME IInv, NEW c \in Channel
  PROVE  Quiet(c) <=> ~InFlight(c)
<1>1. Quiet(c) \/ InFlight(c)
  BY DEF IInv, SampleInv
<1>2. ~(Quiet(c) /\ InFlight(c))
  BY Bounds DEF IInv, Quiet, InFlight
<1> QED
  BY <1>1, <1>2

(* What the ADC FIFO of a channel shows. *)
LEMMA ShownIs ==
  ASSUME IInv, HeldInv, NEW c \in Channel
  PROVE  /\ Quiet(c) => Shown(c) = Held(c)
         /\ InFlight(c) => Shown(c) = IF clock <= empty_lag THEN Old(c)
                                      ELSE IF clock <= Writes THEN Newest(c) ELSE Held(c)
         /\ InFlight(c) /\ clock >= 2 => Shown(c) = Piece(c, clock - 1)
<1>1. /\ empty_lag \in 0 .. 2 /\ Writes \in 2 .. 3 /\ empty_lag <= Writes - 1
      /\ clock \in 0 .. HalfPeriod /\ HalfPeriod \in Nat
      /\ adc[c].words \in Seq(Word)
  BY Bounds, WhatValidTells DEF IInv
<1>2. /\ InFlight(c) /\ clock <= Writes => adc[c].words[1] = Newest(c)
      /\ holds => last[c] = IF InFlight(c) /\ clock <= empty_lag + 1
                              THEN Pred(Newest(c)) ELSE Newest(c)
  BY DEF HeldInv
<1>3. Empty(adc[c]) <=> Used(adc[c]) = 0 \/ adc[c].lag > 0
  BY <1>1 DEF Empty, Used
<1>4. Used(adc[c]) = 1 => Head(adc[c].words) = adc[c].words[1]
  BY <1>1 DEF Used
<1>5. ASSUME Quiet(c)  PROVE Shown(c) = Held(c)
  <2>1. ~InFlight(c) /\ Empty(adc[c])
    BY <1>3, <1>5, QuietOrNot DEF Quiet
  <2> QED
    BY <1>2, <2>1 DEF Shown, Held
<1>6. ASSUME InFlight(c)
      PROVE  Shown(c) = IF clock <= empty_lag THEN Old(c)
                        ELSE IF clock <= Writes THEN Newest(c) ELSE Held(c)
  <2>1. CASE clock <= empty_lag
    <3>1. Empty(adc[c])
      BY <1>1, <1>3, <1>6, <2>1 DEF InFlight
    <3>2. clock <= empty_lag + 1
      BY <1>1, <2>1
    <3> QED
      BY <1>2, <1>6, <2>1, <3>1, <3>2 DEF Shown, Old
  <2>2. CASE clock > empty_lag /\ clock <= Writes
    <3>1. ~Empty(adc[c]) /\ Used(adc[c]) = 1
      BY <1>1, <1>3, <1>6, <2>2 DEF InFlight
    <3>2. ~(clock <= empty_lag)
      BY <1>1, <2>2
    <3> QED
      BY <1>2, <1>4, <1>6, <2>2, <3>1, <3>2 DEF Shown
  <2>3. CASE clock > Writes
    <3>1. Empty(adc[c])
      BY <1>1, <1>3, <1>6, <2>3 DEF InFlight
    <3>2. ~(clock <= empty_lag + 1) /\ ~(clock <= empty_lag) /\ ~(clock <= Writes)
      BY <1>1, <2>3
    <3> QED
      BY <1>2, <3>1, <3>2 DEF Shown, Held
  <2> QED
    BY <1>1, <2>1, <2>2, <2>3
<1>7. /\ clock - 1 < empty_lag <=> clock <= empty_lag
      /\ clock - 1 < Writes <=> clock <= Writes
  BY <1>1
<1>8. InFlight(c) => Shown(c) = Piece(c, clock - 1)
  BY <1>6, <1>7 DEF Piece
<1> QED
  BY <1>5, <1>6, <1>8

(* An ADC FIFO shows the newest frame from when its first word shows on.   *)
LEMMA HeldInvStays ==
  ASSUME IInv, FrameInv, HeldInv, Next
  PROVE  HeldInv'
<1>1. SUFFICES ASSUME NEW c \in Channel
               PROVE  /\ InFlight(c)' /\ clock' <= Writes' => adc'[c].words[1] = Newest(c)'
                      /\ holds' => last'[c] = IF InFlight(c)' /\ clock' <= empty_lag' + 1
                                                THEN Pred(Newest(c)') ELSE Newest(c)'
  BY DEF HeldInv, Pred
<1>2. /\ empty_lag \in 0 .. 2 /\ Writes \in 2 .. 3 /\ empty_lag <= Writes - 1
      /\ clock \in 0 .. HalfPeriod /\ HalfPeriod \in Nat /\ HalfPeriod >= 6
      /\ empty_lag' = empty_lag /\ Writes' = Writes /\ holds' = holds
  BY Bounds, LevelFacts DEF IInv
<1>3. /\ Used(adc[c])' = Used(adc[c]) + Bit(AdcWrite(c)) - Bit(AdcRead(c))
      /\ \A i \in 1 .. Used(adc[c])' :
           adc'[c].words[i] = IF i + Bit(AdcRead(c)) <= Used(adc[c])
                                THEN adc[c].words[i + Bit(AdcRead(c))] ELSE frame
      /\ last'[c] = Shown(c)
  BY AdcFifoMoves
<1>4. /\ Newest(c)' = IF AdcWrite(c) THEN frame ELSE Newest(c)
      /\ AdcWrite(c) => Newest(c) = Pred(frame)
  BY NewestMoves
<1>5. /\ AdcWrite(c) => Quiet(c) /\ clock = 0
      /\ InFlight(c) => clock \in 1 .. Writes + 1
      /\ AdcRead(c) => InFlight(c) /\ clock = Writes
  BY WhatValidTells
<1>6. /\ AdcWrite(c) => InFlight(c)' /\ clock' = 1
      /\ InFlight(c) /\ clock <= Writes => InFlight(c)'
      /\ InFlight(c) /\ clock = Writes + 1 => Quiet(c)'
      /\ Quiet(c) /\ ~AdcWrite(c) => Quiet(c)'
  BY SampleMoves
<1>7. Quiet(c)' => ~InFlight(c)'
  <2>1. IInv'
    BY StepIInv
  <2> QED
    BY <1>2, <2>1 DEF Quiet, InFlight
<1>8. CASE AdcWrite(c)
  <2>1. InFlight(c)' /\ clock' = 1 /\ Quiet(c) /\ ~InFlight(c) /\ ~AdcRead(c)
    BY <1>5, <1>6, <1>8, QuietOrNot
  <2>2. Used(adc[c]) = 0 /\ Used(adc[c])' = 1
    BY <1>3, <1>8, <2>1 DEF Quiet, Bit
  <2>3. adc'[c].words[1] = frame
    BY <1>3, <2>1, <2>2 DEF Bit
  <2>4. holds => last'[c] = Pred(frame)
    BY <1>3, <1>4, <1>8, <2>1, ShownIs DEF Held
  <2>5. clock' <= empty_lag' + 1
    BY <1>2, <2>1
  <2> QED
    BY <1>2, <1>4, <1>8, <2>1, <2>3, <2>4, <2>5
<1>9. CASE InFlight(c) /\ clock <= Writes
  <2>1. InFlight(c)' /\ ~AdcWrite(c) /\ clock \in 1 .. 3 /\ clock' = clock + 1
    <3>1. InFlight(c)' /\ ~AdcWrite(c) /\ clock \in 1 .. 3
      BY <1>2, <1>5, <1>6, <1>9
    <3>2. clock < HalfPeriod - 1
      BY <1>2, <3>1
    <3> QED
      BY <3>1, <3>2, SameHalf
  <2>2. clock' <= Writes => adc'[c].words[1] = Newest(c)
    <3>1. SUFFICES ASSUME clock' <= Writes  PROVE adc'[c].words[1] = Newest(c)
      OBVIOUS
    <3>2. ~AdcRead(c) /\ Used(adc[c]) = 1 /\ adc[c].words[1] = Newest(c)
      BY <1>2, <1>5, <1>9, <2>1, <3>1 DEF HeldInv, InFlight
    <3>3. Used(adc[c])' = 1
      BY <1>3, <2>1, <3>2 DEF Bit
    <3> QED
      BY <1>3, <3>2, <3>3 DEF Bit
  <2>3. holds => last'[c] = IF clock <= empty_lag THEN Pred(Newest(c)) ELSE Newest(c)
    BY <1>3, <1>9, ShownIs DEF Old
  <2>4. clock' <= empty_lag' + 1 <=> clock <= empty_lag
    BY <1>2, <2>1
  <2> QED
    BY <1>2, <1>4, <2>1, <2>2, <2>3, <2>4
<1>10. CASE InFlight(c) /\ clock = Writes + 1
  <2>1. ~InFlight(c)' /\ ~AdcWrite(c)
    BY <1>2, <1>5, <1>6, <1>7, <1>10
  <2>2. holds => last'[c] = Newest(c)
    <3>1. ~(clock <= empty_lag) /\ ~(clock <= Writes)
      BY <1>2, <1>10
    <3> QED
      BY <1>3, <1>10, <3>1, ShownIs DEF Held
  <2> QED
    BY <1>2, <1>4, <2>1, <2>2
<1>11. CASE Quiet(c) /\ ~AdcWrite(c)
  <2>1. ~InFlight(c)'
    BY <1>6, <1>7, <1>11
  <2>2. holds => last'[c] = Newest(c)
    BY <1>3, <1>11, ShownIs DEF Held
  <2> QED
    BY <1>2, <1>4, <1>11, <2>1, <2>2
<1>12. InFlight(c) => clock <= Writes \/ clock = Writes + 1
  BY <1>2, <1>5
<1> QED
  BY <1>8, <1>9, <1>10, <1>11, <1>12, QuietOrNot

(* The n-th pieces of a frame match, the right one from its own FIFO or,   *)
(* in mono, from the left one.                                             *)
LEMMA PiecesMatch ==
  ASSUME IInv, Newest("L") \in Frame, Newest("R") = Newest("L"), NEW j \in 1 .. Writes,
         NEW r, r = Piece("R", j) \/ r = Held("L")
  PROVE  Match(Piece("L", j), r)
<1>1. empty_lag \in 0 .. 2 /\ Writes \in 2 .. 3 /\ (Writes = 3 <=> empty_lag = 2)
  BY Bounds DEF IInv
<1>2. /\ Piece("R", j) = Piece("L", j)
      /\ Piece("L", j) = IF j < empty_lag THEN Old("L")
                         ELSE IF j < Writes THEN Newest("L") ELSE Held("L")
  BY DEF Piece, Old, Held
<1>3. \A w \in Frame : (w + 0) % Frames = w
  BY StreamAssumption DEF Frame
<1>4. empty_lag \div 2 = IF empty_lag = 2 THEN 1 ELSE 0
  BY <1>1
<1>5. CASE ~holds
  <2>1. Held("L") = Unspecified /\ Old("L") = Unspecified
    BY <1>5 DEF Held, Old
  <2>2. r = Unspecified \/ (r = Newest("L") /\ Piece("L", j) = Newest("L"))
    BY <1>2, <2>1
  <2>3. CASE r = Unspecified
    BY <1>5, <2>3 DEF Match
  <2>4. CASE r = Newest("L") /\ Piece("L", j) = Newest("L")
    <3>1. r = (Piece("L", j) + 0) % Frames
      BY <1>3, <2>4
    <3> QED
      BY <1>1, <1>4, <3>1 DEF Match
  <2> QED
    BY <2>2, <2>3, <2>4
<1>6. CASE holds
  <2>1. Held("L") = Newest("L") /\ Old("L") = Pred(Newest("L"))
    BY <1>6 DEF Held, Old
  <2>2. Pred(Newest("L")) \in Frame /\ (Pred(Newest("L")) + 1) % Frames = Newest("L")
    <3>1. Pred(Newest("L")) \in Frame /\ Succ(Pred(Newest("L"))) = Newest("L")
      BY StreamAssumption DEF Pred, Succ, Frame
    <3> QED
      BY <3>1, NextFrame
  <2>3. \/ r = Piece("L", j) /\ Piece("L", j) \in Frame
        \/ empty_lag = 2 /\ Piece("L", j) = Pred(Newest("L")) /\ r = Newest("L")
    BY <1>1, <1>2, <2>1, <2>2
  <2>4. CASE r = Piece("L", j) /\ Piece("L", j) \in Frame
    <3>1. r = (Piece("L", j) + 0) % Frames
      BY <1>3, <2>4
    <3> QED
      BY <1>1, <1>4, <3>1 DEF Match
  <2>5. CASE empty_lag = 2 /\ Piece("L", j) = Pred(Newest("L")) /\ r = Newest("L")
    <3>1. r = (Piece("L", j) + 1) % Frames /\ 1 <= empty_lag \div 2
      BY <1>4, <2>2, <2>5
    <3> QED
      BY <3>1 DEF Match
  <2> QED
    BY <2>3, <2>4, <2>5
<1> QED
  BY <1>5, <1>6

(* The left channel, a clock later. *)
LeftNext(i) == IF i = 0 THEN playing' ELSE dac'["L"].words[i]

(* The words of both channels, a clock later, place by place. *)
LEMMA WordsMove ==
  ASSUME IInv, Next
  PROVE  /\ \A i \in 0 .. Used(dac["L"])' :
              LeftNext(i) = IF i + Bit(DacReadLeft) <= Used(dac["L"])
                             THEN LeftAt(i + Bit(DacReadLeft)) ELSE Shown("L")
         /\ \E word \in {Shown("R"), Shown("L")} :
              \A i \in 1 .. Used(dac["R"])' :
                dac'["R"].words[i] = IF i + Bit(DacReadRight) <= Used(dac["R"])
                                       THEN dac["R"].words[i + Bit(DacReadRight)] ELSE word
         /\ pending' = pending + Bit(DacReadLeft) - Bit(DacReadRight)
         /\ Used(dac["L"])' = Used(dac["L"])
              + Bit(InFlight("L") /\ clock >= 2 /\ Used(dac["L"]) < Depth)
              - Bit(DacReadLeft)
         /\ Used(dac["R"])' = Used(dac["R"])
              + Bit(InFlight("R") /\ clock >= 2 /\ Used(dac["R"]) < Depth)
              - Bit(DacReadRight)
         /\ DacReadLeft => left /\ clock = 0 /\ Used(dac["L"]) > 0
         /\ DacReadRight => ~left /\ clock = 0 /\ pending = 1
<1>1. PICK s \in BOOLEAN : \A c \in Channel :
        Moved(dac[c], dac'[c], DacWrite(c), dataOUT(c, s), DacRead(c))
  BY DacFifosMove
<1>2. "L" \in Channel /\ "R" \in Channel
  BY DEF Channel
<1>3. DacRead("L") = DacReadLeft /\ DacRead("R") = DacReadRight
  BY DEF DacRead
<1>4. /\ Used(dac["L"])' = Used(dac["L"])
           + Bit(InFlight("L") /\ clock >= 2 /\ Used(dac["L"]) < Depth)
           - Bit(DacReadLeft)
      /\ Used(dac["R"])' = Used(dac["R"])
           + Bit(InFlight("R") /\ clock >= 2 /\ Used(dac["R"]) < Depth)
           - Bit(DacReadRight)
  BY <1>2, <1>3, LevelFacts
<1>5. /\ DacReadLeft => left /\ clock = 0 /\ Used(dac["L"]) > 0
      /\ DacReadRight => ~left /\ clock = 0 /\ left_channel_was_read
  BY <1>2, WhatDacDoes
<1>6. pending = 1 <=> left_channel_was_read
  BY Bounds DEF IInv
<1>7. pending' = pending + Bit(DacReadLeft) - Bit(DacReadRight)
  <2>1. left_channel_was_read' =
          (DacReadLeft \/ (left_channel_was_read /\ ~DacReadRight))
    BY LevelFacts
  <2>2. left /\ clock = 0 => ~left_channel_was_read
    BY <1>6, LevelShape
  <2>3. pending' = IF left_channel_was_read' THEN 1 ELSE 0
    BY DEF pending, Bit
  <2>4. pending = IF left_channel_was_read THEN 1 ELSE 0
    BY DEF pending, Bit
  <2>5. CASE DacReadLeft
    <3>1. ~left_channel_was_read /\ left_channel_was_read' /\ ~DacReadRight
      BY <1>5, <2>1, <2>2, <2>5
    <3>2. pending' = 1 /\ pending = 0 /\ Bit(DacReadLeft) = 1 /\ Bit(DacReadRight) = 0
      BY <2>3, <2>4, <2>5, <3>1 DEF Bit
    <3> QED
      BY <3>2
  <2>6. CASE ~DacReadLeft /\ DacReadRight
    <3>1. left_channel_was_read /\ ~left_channel_was_read'
      BY <1>5, <2>1, <2>6
    <3>2. pending' = 0 /\ pending = 1 /\ Bit(DacReadLeft) = 0 /\ Bit(DacReadRight) = 1
      BY <2>3, <2>4, <2>6, <3>1 DEF Bit
    <3> QED
      BY <3>2
  <2>7. CASE ~DacReadLeft /\ ~DacReadRight
    <3>1. left_channel_was_read' <=> left_channel_was_read
      BY <2>1, <2>7
    <3>2. pending' = pending /\ pending \in 0 .. 1
          /\ Bit(DacReadLeft) = 0 /\ Bit(DacReadRight) = 0
      BY <2>3, <2>4, <2>7, <3>1 DEF Bit
    <3> QED
      BY <3>2
  <2> QED
    BY <2>5, <2>6, <2>7
<1>8. ASSUME NEW i \in 0 .. Used(dac["L"])'
      PROVE  LeftNext(i) = IF i + Bit(DacReadLeft) <= Used(dac["L"])
                            THEN LeftAt(i + Bit(DacReadLeft)) ELSE Shown("L")
  <2>1. playing' = IF DacReadLeft THEN Head(dac["L"].words) ELSE playing
    BY DEF Next, DacEdge
  <2>2. dac["L"].words \in Seq(Word) /\ Used(dac["L"]) \in Nat
    BY <1>2, WhatDacDoes DEF Used
  <2>3. \A k \in 1 .. Used(dac'["L"]) :
          dac'["L"].words[k] = IF k + Bit(DacReadLeft) <= Used(dac["L"])
                                 THEN dac["L"].words[k + Bit(DacReadLeft)] ELSE Shown("L")
    BY <1>1, <1>2, <1>3 DEF Moved, dataOUT
  <2>4. CASE i = 0
    <3>1. CASE DacReadLeft
      <4>1. Head(dac["L"].words) = dac["L"].words[1]
        BY <1>5, <2>2, <3>1 DEF Used
      <4> QED
        BY <1>5, <2>1, <2>2, <2>4, <3>1, <4>1 DEF LeftAt, LeftNext, Bit
    <3>2. CASE ~DacReadLeft
      BY <2>1, <2>2, <2>4, <3>2 DEF LeftAt, LeftNext, Bit
    <3> QED
      BY <3>1, <3>2
  <2>5. CASE i # 0
    <3>1. i \in 1 .. Used(dac'["L"])
      BY <1>8, <2>5 DEF Used
    <3>2. LeftNext(i) = dac'["L"].words[i] /\ i + Bit(DacReadLeft) # 0
      BY <1>8, <2>5 DEF LeftAt, LeftNext, Bit
    <3> QED
      BY <2>3, <3>1, <3>2 DEF LeftAt, LeftNext
  <2> QED
    BY <2>4, <2>5
<1>9. \E word \in {Shown("R"), Shown("L")} :
        \A i \in 1 .. Used(dac["R"])' :
          dac'["R"].words[i] = IF i + Bit(DacReadRight) <= Used(dac["R"])
                                 THEN dac["R"].words[i + Bit(DacReadRight)] ELSE word
  <2>1. dataOUT("R", s) \in {Shown("R"), Shown("L")}
    BY DEF dataOUT
  <2>2. Used(dac["R"])' = Used(dac'["R"])
    BY DEF Used
  <2> QED
    BY <1>1, <1>2, <1>3, <2>1, <2>2 DEF Moved
<1> QED
  BY <1>4, <1>5, <1>6, <1>7, <1>8, <1>9

(* When LRCK has just fallen no left word waits for its right word. *)
Even == ~left /\ clock = 0 => Used(dac["R"]) = Used(dac["L"]) + pending

(* The same after a step.                                                  *)
LEMMA EvenAtFall == IInv' => Even'
<1>1. IInv => Even
  BY LevelShape DEF Even
<1> QED
  BY <1>1, PTL

(* A piece that is written to the left FIFO takes the next place in the    *)
(* tail, and one that is written to the right FIFO takes one off it.       *)
LEMMA TailInvStays ==
  ASSUME IInv, FrameInv, HeldInv, TailInv, Next
  PROVE  TailInv'
<1> DEFINE nL == Used(dac["L"])
           nR == Used(dac["R"])
           wL == Bit(InFlight("L") /\ clock >= 2 /\ Used(dac["L"]) < Depth)
           wR == Bit(InFlight("R") /\ clock >= 2 /\ Used(dac["R"]) < Depth)
           rL == Bit(DacReadLeft)
           rR == Bit(DacReadRight)
<1>1. /\ \A i \in 0 .. nL' :
           LeftNext(i) = IF i + rL <= nL THEN LeftAt(i + rL) ELSE Shown("L")
      /\ pending' = pending + rL - rR
      /\ nL' = nL + wL - rL /\ nR' = nR + wR - rR
      /\ DacReadLeft => left /\ clock = 0
      /\ DacReadRight => ~left /\ clock = 0
  BY WordsMove
<1>2. /\ wL \in 0 .. 1 /\ wR \in 0 .. 1 /\ rL \in 0 .. 1 /\ rR \in 0 .. 1
      /\ wL = 1 <=> InFlight("L") /\ clock >= 2 /\ nL < Depth
      /\ wR = 1 <=> InFlight("R") /\ clock >= 2 /\ nR < Depth
      /\ rL = 1 <=> DacReadLeft
      /\ rR = 1 <=> DacReadRight
  BY DEF Bit
<1>3. /\ nL + pending <= Depth
      /\ ~left /\ clock = 0 => nR = nL + pending
      /\ ~left /\ clock > 0 => pending = 0
      /\ left /\ clock = 0 => pending = 0
      /\ InFlight("L") /\ clock >= 2 /\ nL < Depth => nL = nR + (clock - 2)
      /\ nL > 0 => OnTime
      /\ nL \in 0 .. Depth /\ nR \in 0 .. Depth /\ pending \in 0 .. 1
  BY LevelShape
<1>4. /\ \/ clock' = clock + 1 /\ left' = left
         \/ clock >= HalfPeriod - 1 /\ clock' = 0 /\ left' = ~left
      /\ clock \in 0 .. HalfPeriod /\ HalfPeriod \in Nat /\ HalfPeriod >= 6
      /\ Writes \in 2 .. 3 /\ Depth \in Nat /\ left \in BOOLEAN
  BY LevelFacts
<1>5. /\ InFlight("L") => ~left /\ clock >= 1 /\ clock <= Writes + 1
      /\ InFlight("R") => left /\ clock >= 1 /\ clock <= Writes + 1
      /\ AdcWrite("L") => ~left /\ clock = 0
  BY <1>4, WhatValidTells DEF Active, Channel
<1>6. ~left' /\ clock' = 0 => nR' = nL' + pending'
  <2>1. IInv'
    BY StepIInv
  <2> QED
    BY <2>1, EvenAtFall DEF Even
<1>7. \A i \in 1 .. nL' : dac'["L"].words[i] = LeftNext(i)
  BY <1>1, <1>2, <1>3 DEF LeftAt, LeftNext
<1>8. \A i \in 1 .. nL : LeftAt(i) = dac["L"].words[i]
  BY <1>3 DEF LeftAt
<1>9. \A i \in 1 .. nL : i + pending > nR =>
        dac["L"].words[i] = Piece("L", i + pending - nR + (IF left THEN Gained ELSE 0))
  BY DEF TailInv
<1> DEFINE off == IF left' THEN Gained' ELSE 0
<1>10. SUFFICES ASSUME NEW i \in 1 .. nL', i + pending' > nR', ~AdcWrite("L")
                PROVE  LeftNext(i) = Piece("L", i + pending' - nR' + off)
  <2>1. ~AdcWrite("L") => \A j : Piece("L", j)' = Piece("L", j)
    <3>1. ~AdcWrite("L") => Newest("L")' = Newest("L")
      BY NewestMoves DEF Channel
    <3>2. empty_lag' = empty_lag /\ holds' = holds /\ Writes' = Writes
      BY LevelFacts
    <3>3. Pred(Newest("L"))' = IF Newest("L")' = 0 THEN Frames - 1 ELSE Newest("L")' - 1
      BY DEF Pred
    <3>4. Pred(Newest("L")) = IF Newest("L") = 0 THEN Frames - 1 ELSE Newest("L") - 1
      BY DEF Pred
    <3>5. ~AdcWrite("L") => Old("L")' = Old("L") /\ Held("L")' = Held("L")
      BY <3>1, <3>2, <3>3, <3>4 DEF Old, Held
    <3> QED
      BY <3>1, <3>2, <3>5 DEF Piece
  <2>2. AdcWrite("L") => \A i \in 1 .. nL' : ~(i + pending' > nR')
    BY <1>1, <1>2, <1>3, <1>4, <1>5
  <2> QED
    BY <1>7, <1>10, <2>1, <2>2 DEF TailInv
<1> HIDE DEF nL, nR, wL, wR, rL, rR, off
<1>11. CASE ~left /\ clock = 0
  BY <1>1, <1>2, <1>3, <1>4, <1>5, <1>10, <1>11
<1>12. CASE ~left /\ clock > 0
  <2>1. rL = 0 /\ rR = 0 /\ wR = 0 /\ pending = 0 /\ pending' = 0 /\ nR' = nR
    BY <1>1, <1>2, <1>3, <1>4, <1>5, <1>12
  <2>2. off = 0
    <3>1. left' => clock' = 0
      BY <1>4, <1>12
    <3> QED
      BY <3>1 DEF off, Gained
  <2>3. CASE i <= nL
    BY <1>1, <1>3, <1>8, <1>9, <1>10, <1>12, <2>1, <2>2, <2>3
  <2>4. CASE i > nL
    <3>1. wL = 1 /\ i = nL + 1
      BY <1>1, <1>2, <1>3, <1>10, <2>1, <2>4
    <3>2. InFlight("L") /\ clock >= 2 /\ nL = nR + (clock - 2)
      BY <1>2, <1>3, <3>1
    <3>3. LeftNext(i) = Shown("L")
      BY <1>1, <1>3, <1>10, <2>1, <3>1
    <3>4. Shown("L") = Piece("L", clock - 1)
      BY <3>2, ShownIs DEF Channel
    <3>5. i + pending' - nR' + off = clock - 1
      BY <1>3, <1>4, <2>1, <2>2, <3>1, <3>2
    <3> QED
      BY <3>3, <3>4, <3>5
  <2> QED
    BY <1>3, <1>10, <2>3, <2>4
<1>13. CASE left /\ clock = 0
  <2>1. clock < HalfPeriod - 1
    BY <1>4, <1>13
  <2>2. clock' = 1 /\ Gained = 0
    <3>1. clock' = clock + 1
      BY <2>1, SameHalf
    <3> QED
      BY <1>13, <3>1 DEF Gained
  <2>3. off = 0
    BY <2>2 DEF off, Gained
  <2>4. /\ wL = 0 /\ wR = 0 /\ rR = 0 /\ pending = 0 /\ pending' = rL
        /\ nL' = nL - rL /\ nR' = nR
    BY <1>1, <1>2, <1>3, <1>4, <1>5, <1>13
  <2>5. i + rL \in 1 .. nL /\ i + rL + pending > nR
    BY <1>2, <1>3, <1>10, <2>4
  <2>6. LeftNext(i) = LeftAt(i + rL) /\ LeftAt(i + rL) = dac["L"].words[i + rL]
    BY <1>1, <1>8, <1>10, <2>5
  <2>7. dac["L"].words[i + rL]
          = Piece("L", (i + rL) + pending - nR + (IF left THEN Gained ELSE 0))
    BY <1>9, <2>5
  <2>8. (i + rL) + pending - nR + (IF left THEN Gained ELSE 0)
          = i + pending' - nR' + off
    BY <1>2, <1>3, <1>10, <1>13, <2>2, <2>3, <2>4
  <2> QED
    BY <2>6, <2>7, <2>8
<1>14. CASE left /\ clock > 0
  <2>1. rL = 0 /\ rR = 0 /\ wL = 0 /\ pending' = pending /\ nL' = nL /\ nR' = nR + wR
    BY <1>1, <1>2, <1>3, <1>4, <1>5, <1>14
  <2>2. left' /\ clock' = clock + 1
    <3>1. ~(~left' /\ clock' = 0)
      BY <1>1, <1>2, <1>3, <1>6, <1>10, <2>1
    <3> QED
      BY <1>4, <1>14, <3>1
  <2>3. off = After
    BY <1>4, <2>2, AfterIsNext DEF off
  <2>4. Gained \in 0 .. Writes
        /\ After = IF clock >= 2 /\ clock <= Writes + 1 THEN Gained + 1 ELSE Gained
    BY AfterIsNext
  <2>5. After = Gained + wR
    <3>1. CASE clock >= 2 /\ clock <= Writes + 1
      <4>1. InFlight("R")
        <5>1. OnTime
          BY <1>3, <1>10, <2>1
        <5> QED
          BY <1>4, <1>14, <3>1, <5>1, OnTimeMeans DEF Active, Channel
      <4>2. nR < Depth
        BY <1>2, <1>3, <1>4, <1>10, <2>1
      <4> QED
        BY <1>2, <2>4, <3>1, <4>1, <4>2
    <3>2. CASE ~(clock >= 2 /\ clock <= Writes + 1)
      BY <1>2, <1>5, <2>4, <3>2
    <3> QED
      BY <3>1, <3>2
  <2>6. i \in 1 .. nL /\ i + pending > nR /\ LeftNext(i) = dac["L"].words[i]
    <3>1. i \in 1 .. nL /\ i + pending > nR
      BY <1>2, <1>3, <1>10, <2>1
    <3>2. LeftNext(i) = LeftAt(i)
      BY <1>1, <1>3, <1>10, <2>1, <3>1
    <3> QED
      BY <1>8, <3>1, <3>2
  <2>7. dac["L"].words[i] = Piece("L", i + pending - nR + (IF left THEN Gained ELSE 0))
    BY <1>9, <2>6
  <2>8. i + pending - nR + (IF left THEN Gained ELSE 0) = i + pending' - nR' + off
    BY <1>2, <1>3, <1>4, <1>14, <2>1, <2>3, <2>4, <2>5
  <2> QED
    BY <2>6, <2>7, <2>8
<1> QED
  BY <1>4, <1>11, <1>12, <1>13, <1>14

(* A piece that is written to the right FIFO comes to stand beside its     *)
(* like, and the words that are read go out in pairs.                      *)
LEMMA MatchInvStays ==
  ASSUME IInv, FrameInv, HeldInv, TailInv, MatchInv, Next
  PROVE  MatchInv'
<1> DEFINE nL == Used(dac["L"])
           nR == Used(dac["R"])
           wL == Bit(InFlight("L") /\ clock >= 2 /\ Used(dac["L"]) < Depth)
           wR == Bit(InFlight("R") /\ clock >= 2 /\ Used(dac["R"]) < Depth)
           rL == Bit(DacReadLeft)
           rR == Bit(DacReadRight)
<1>1. /\ \A i \in 0 .. nL' :
           LeftNext(i) = IF i + rL <= nL THEN LeftAt(i + rL) ELSE Shown("L")
      /\ pending' = pending + rL - rR
      /\ nL' = nL + wL - rL /\ nR' = nR + wR - rR
      /\ DacReadLeft => left /\ clock = 0
      /\ DacReadRight => ~left /\ clock = 0 /\ pending = 1
  BY WordsMove
<1>2. PICK word \in {Shown("R"), Shown("L")} :
        \A i \in 1 .. nR' :
          dac'["R"].words[i] = IF i + rR <= nR THEN dac["R"].words[i + rR] ELSE word
  BY WordsMove
<1>3. /\ wL \in 0 .. 1 /\ wR \in 0 .. 1 /\ rL \in 0 .. 1 /\ rR \in 0 .. 1
      /\ wL = 1 <=> InFlight("L") /\ clock >= 2 /\ nL < Depth
      /\ wR = 1 <=> InFlight("R") /\ clock >= 2 /\ nR < Depth
      /\ rL = 1 <=> DacReadLeft
      /\ rR = 1 <=> DacReadRight
  BY DEF Bit
<1>4. /\ nR <= nL + pending
      /\ pending = 1 => nR >= 1
      /\ left /\ clock = 0 => pending = 0
      /\ InFlight("R") /\ clock >= 2 => Gained = clock - 2
      /\ InFlight("R") /\ clock >= 2 /\ nR < Depth => nR + 1 <= nL + pending
      /\ nL \in 0 .. Depth /\ nR \in 0 .. Depth /\ pending \in 0 .. 1
  BY LevelShape
<1>5. /\ clock \in 0 .. HalfPeriod /\ HalfPeriod \in Nat
      /\ Writes \in 2 .. 3 /\ Depth \in Nat
      /\ empty_lag' = empty_lag /\ holds' = holds
  BY LevelFacts
<1>6. /\ InFlight("L") => ~left
      /\ InFlight("R") => left /\ clock >= 1 /\ clock <= Writes + 1
  BY <1>5, WhatValidTells DEF Active, Channel
<1>7. pending' \in 0 .. 1
  BY <1>1, <1>3, <1>4
<1> HIDE DEF nL, nR, wL, wR, rL, rR
<1>8. SUFFICES ASSUME NEW i \in 1 .. nR'
               PROVE  Match(LeftNext(i - pending'), dac'["R"].words[i])
  <2>1. \A l, r : Match(l, r)' <=> Match(l, r)
    BY <1>5 DEF Match
  <2>2. Used(dac["R"])' = nR'
    BY DEF nR
  <2> QED
    BY <1>5, <1>8, <2>1, <2>2 DEF MatchInv, Match, LeftAt, LeftNext
<1> DEFINE k == i - pending'
<1>9. CASE i + rR <= nR
  <2>1. k + rL = (i + rR) - pending
    BY <1>1, <1>3, <1>4
  <2>2. k \in 0 .. nL' /\ k + rL <= nL
    BY <1>1, <1>3, <1>4, <1>7, <1>8, <1>9, <2>1
  <2>3. LeftNext(k) = LeftAt((i + rR) - pending)
    BY <1>1, <2>1, <2>2
  <2>4. dac'["R"].words[i] = dac["R"].words[i + rR]
    BY <1>2, <1>8, <1>9
  <2>5. i + rR \in 1 .. nR
    BY <1>1, <1>3, <1>4, <1>8, <1>9
  <2>6. Match(LeftAt((i + rR) - pending), dac["R"].words[i + rR])
    BY <2>5 DEF MatchInv, nR
  <2> QED
    BY <2>3, <2>4, <2>6
<1>10. CASE i + rR > nR
  <2>1. wR = 1
    BY <1>1, <1>3, <1>4, <1>8, <1>10
  <2>2. InFlight("R") /\ clock >= 2 /\ nR < Depth /\ left
    BY <1>3, <1>6, <2>1
  <2>3. rL = 0 /\ rR = 0 /\ wL = 0 /\ nL' = nL /\ pending' = pending /\ i = nR + 1
    BY <1>1, <1>3, <1>4, <1>5, <1>6, <1>8, <1>10, <2>1, <2>2
  <2>4. k \in 1 .. nL /\ k + pending = nR + 1
    BY <1>4, <2>2, <2>3
  <2>5. LeftNext(k) = dac["L"].words[k]
    <3>1. k \in 0 .. nL' /\ k + rL <= nL /\ k + rL = k /\ k # 0
      BY <1>4, <2>3, <2>4
    <3> QED
      BY <1>1, <3>1 DEF LeftAt
  <2>6. dac["L"].words[k] = Piece("L", clock - 1)
    <3>1. dac["L"].words[k]
            = Piece("L", k + pending - nR + (IF left THEN Gained ELSE 0))
      BY <1>4, <2>4 DEF TailInv, nL, nR
    <3>2. k + pending - nR + (IF left THEN Gained ELSE 0) = clock - 1
      BY <1>4, <1>5, <2>2, <2>4
    <3> QED
      BY <3>1, <3>2
  <2>7. dac'["R"].words[i] = word
    <3>1. ~(i + rR <= nR)
      BY <1>3, <1>4, <1>8, <1>10, <2>3
    <3> QED
      BY <1>2, <1>8, <3>1
  <2>8. word = Piece("R", clock - 1) \/ word = Held("L")
    <3>1. Shown("R") = Piece("R", clock - 1)
      BY <2>2, ShownIs DEF Channel
    <3>2. Quiet("L")
      BY <1>6, <2>2, QuietOrNot DEF Channel
    <3>3. Shown("L") = Held("L")
      BY <3>2, ShownIs DEF Channel
    <3> QED
      BY <1>2, <3>1, <3>3
  <2>9. Newest("L") \in Frame /\ Newest("R") = Newest("L")
    <3>1. Newest("L") \in Frame
      BY NewestMoves DEF Channel
    <3>2. Newest("R") = Newest("L")
      BY <1>5, <2>2 DEF Newest
    <3> QED
      BY <3>1, <3>2
  <2>10. clock - 1 \in 1 .. Writes
    BY <1>5, <1>6, <2>2
  <2>11. Match(Piece("L", clock - 1), word)
    BY <2>8, <2>9, <2>10, PiecesMatch
  <2> QED
    BY <2>5, <2>6, <2>7, <2>11
<1>11. i + rR <= nR \/ i + rR > nR
  BY <1>1, <1>3, <1>4, <1>8
<1> QED
  BY <1>9, <1>10, <1>11

(* The left FIFO is extended by the frame it ends with or by the next one. *)
LEMMA ChainInvStays ==
  ASSUME IInv, FrameInv, HeldInv, ChainInv, Next
  PROVE  ChainInv'
<1> DEFINE nL == Used(dac["L"])
           wL == Bit(InFlight("L") /\ clock >= 2 /\ Used(dac["L"]) < Depth)
           rL == Bit(DacReadLeft)
<1>1. /\ \A i \in 0 .. nL' :
           LeftNext(i) = IF i + rL <= nL THEN LeftAt(i + rL) ELSE Shown("L")
      /\ nL' = nL + wL - rL
      /\ DacReadLeft => left /\ clock = 0 /\ nL > 0
  BY WordsMove
<1>2. /\ wL \in 0 .. 1 /\ rL \in 0 .. 1
      /\ wL = 1 <=> InFlight("L") /\ clock >= 2 /\ nL < Depth
      /\ rL = 1 <=> DacReadLeft
  BY DEF Bit
<1>3. nL \in 0 .. Depth /\ Depth \in Nat
  BY LevelShape, StreamAssumption
<1>4. /\ \/ clock' = clock + 1 /\ left' = left
         \/ clock >= HalfPeriod - 1 /\ clock' = 0 /\ left' = ~left
      /\ clock \in 0 .. HalfPeriod /\ HalfPeriod \in Nat /\ HalfPeriod >= 6
      /\ Writes \in 2 .. 3
      /\ empty_lag' = empty_lag /\ holds' = holds
  BY LevelFacts
<1>5. /\ InFlight("L") => ~left /\ clock \in 1 .. Writes + 1
      /\ AdcWrite("L") => Quiet("L") /\ clock = 0
  BY WhatValidTells DEF Active, Channel
<1>6. /\ Newest("L")' = IF AdcWrite("L") THEN frame ELSE Newest("L")
      /\ AdcWrite("L") => Newest("L") = Pred(frame)
      /\ Newest("L") \in Frame
  BY NewestMoves DEF Channel
<1>7. /\ AdcWrite("L") => InFlight("L")' /\ clock' = 1
      /\ InFlight("L") /\ clock <= Writes => InFlight("L")'
      /\ Quiet("L") /\ ~AdcWrite("L") => Quiet("L")'
  BY SampleMoves DEF Channel
<1>8. InFlight("L")' => Active("L")' /\ clock' >= 1 /\ ~Quiet("L")'
  <2>1. IInv'
    BY StepIInv
  <2> QED
    BY <1>4, <2>1, LevelFacts DEF InFlight, Quiet
<1> HIDE DEF nL, wL, rL
<1>9. SUFFICES ASSUME empty_lag <= 1, holds
      PROVE  /\ \A i \in 0 .. nL' : LeftNext(i) \in Frame
             /\ \A i \in 1 .. nL' : LeftNext(i) \in {LeftNext(i - 1), Succ(LeftNext(i - 1))}
             /\ LeftNext(nL') = IF InFlight("L")' /\ clock' <= 2
                                 THEN Pred(Newest("L")') ELSE Newest("L")'
  BY <1>4 DEF ChainInv, Succ, Pred, nL, LeftAt, LeftNext
<1>10. /\ \A i \in 0 .. nL : LeftAt(i) \in Frame
       /\ \A i \in 1 .. nL : LeftAt(i) \in {LeftAt(i - 1), Succ(LeftAt(i - 1))}
       /\ LeftAt(nL) = IF InFlight("L") /\ clock <= 2
                         THEN Pred(Newest("L")) ELSE Newest("L")
  BY <1>9 DEF ChainInv, nL
<1>11. Succ(Pred(Newest("L"))) = Newest("L")
  BY <1>6, StreamAssumption DEF Succ, Pred, Frame
<1>12. CASE wL = 1
  <2>1. InFlight("L") /\ clock >= 2 /\ rL = 0 /\ nL' = nL + 1
    BY <1>1, <1>2, <1>3, <1>5, <1>12
  <2>2. Shown("L") = Newest("L")
    <3>1. empty_lag \in 0 .. 2
      BY Bounds DEF IInv
    <3>2. ~(clock <= empty_lag)
      BY <1>4, <1>9, <2>1, <3>1
    <3> QED
      BY <1>9, <2>1, <3>2, ShownIs DEF Held, Channel
  <2>3. /\ \A i \in 0 .. nL : LeftNext(i) = LeftAt(i)
        /\ LeftNext(nL + 1) = Newest("L")
    BY <1>1, <1>3, <2>1, <2>2
  <2>4. ~(InFlight("L")' /\ clock' <= 2) /\ ~AdcWrite("L")
    BY <1>4, <1>5, <1>8, <2>1
  <2>5. Newest("L") \in {LeftNext(nL), Succ(LeftNext(nL))}
    BY <1>3, <1>10, <1>11, <2>3 DEF Succ
  <2>6. \A i \in 0 .. nL + 1 : LeftNext(i) \in Frame
    BY <1>3, <1>6, <1>10, <2>3
  <2>7. \A i \in 1 .. nL + 1 : LeftNext(i) \in {LeftNext(i - 1), Succ(LeftNext(i - 1))}
    <3>1. ASSUME NEW i \in 1 .. nL
          PROVE  LeftNext(i) \in {LeftNext(i - 1), Succ(LeftNext(i - 1))}
      <4>1. i \in 0 .. nL /\ i - 1 \in 0 .. nL
        BY <1>3, <3>1
      <4>2. LeftNext(i) = LeftAt(i) /\ LeftNext(i - 1) = LeftAt(i - 1)
        BY <2>3, <4>1
      <4> QED
        BY <1>10, <3>1, <4>2 DEF Succ
    <3>2. (nL + 1) - 1 = nL
      BY <1>3
    <3>3. LeftNext(nL + 1) \in {LeftNext((nL + 1) - 1), Succ(LeftNext((nL + 1) - 1))}
      BY <2>3, <2>5, <3>2
    <3>4. \A i \in 1 .. nL + 1 : i \in 1 .. nL \/ i = nL + 1
      BY <1>3
    <3> QED
      BY <3>1, <3>3, <3>4
  <2> QED
    BY <1>6, <2>1, <2>3, <2>4, <2>6, <2>7
<1>13. CASE wL = 0
  <2>1. nL' = nL - rL /\ nL' \in 0 .. nL
    BY <1>1, <1>2, <1>3, <1>13
  <2>2. \A i \in 0 .. nL' : LeftNext(i) = LeftAt(i + rL) /\ i + rL \in 0 .. nL
    BY <1>1, <1>2, <1>3, <2>1
  <2>3. \A i \in 0 .. nL' : LeftNext(i) \in Frame
    BY <1>10, <2>2
  <2>4. \A i \in 1 .. nL' : LeftNext(i) \in {LeftNext(i - 1), Succ(LeftNext(i - 1))}
    <3>1. SUFFICES ASSUME NEW i \in 1 .. nL'
                   PROVE  LeftNext(i) \in {LeftNext(i - 1), Succ(LeftNext(i - 1))}
      OBVIOUS
    <3>2. i \in 0 .. nL' /\ i - 1 \in 0 .. nL' /\ i + rL \in 1 .. nL
          /\ (i - 1) + rL = (i + rL) - 1
      BY <1>2, <1>3, <2>1, <3>1
    <3>3. LeftNext(i) = LeftAt(i + rL) /\ LeftNext(i - 1) = LeftAt((i + rL) - 1)
      BY <2>2, <3>2
    <3> QED
      BY <1>10, <3>2, <3>3 DEF Succ
  <2>5. LeftNext(nL') = LeftAt(nL)
    <3>1. nL' \in 0 .. nL' /\ nL' + rL = nL
      BY <1>2, <1>3, <2>1
    <3> QED
      BY <2>2, <3>1
  <2>6. LeftAt(nL) = IF InFlight("L")' /\ clock' <= 2
                       THEN Pred(Newest("L")') ELSE Newest("L")'
    <3>1. CASE AdcWrite("L")
      <4>1. ~InFlight("L") /\ InFlight("L")' /\ clock' <= 2
        BY <1>5, <1>7, <3>1
      <4> QED
        BY <1>6, <1>10, <3>1, <4>1
    <3>2. CASE Quiet("L") /\ ~AdcWrite("L")
      <4>1. ~InFlight("L") /\ ~InFlight("L")'
        BY <1>7, <1>8, <3>2, QuietOrNot DEF Channel
      <4> QED
        BY <1>6, <1>10, <3>2, <4>1
    <3>3. CASE InFlight("L") /\ clock = 1
      <4>1. ~AdcWrite("L") /\ InFlight("L")' /\ clock <= 2
        BY <1>4, <1>5, <1>7, <3>3
      <4>2. clock' <= 2
        BY <1>4, <3>3
      <4> QED
        BY <1>6, <1>10, <3>3, <4>1, <4>2
    <3>4. CASE InFlight("L") /\ clock = 2
      <4>1. Active("L")
        BY <1>5, <3>4 DEF Active
      <4>2. clock <= 2
        BY <3>4
      <4>3. Used(dac["L"]) <= Depth - 1
        BY <4>1, <4>2, RoomForASample DEF Channel
      <4> QED
        BY <1>2, <1>3, <1>13, <3>4, <4>3 DEF nL
    <3>5. CASE InFlight("L") /\ clock >= 3
      <4>1. ~AdcWrite("L") /\ ~(clock <= 2) /\ ~(InFlight("L")' /\ clock' <= 2)
        BY <1>4, <1>5, <1>8, <3>5
      <4> QED
        BY <1>6, <1>10, <4>1
    <3>6. InFlight("L") => clock = 1 \/ clock = 2 \/ clock >= 3
      BY <1>4, <1>5
    <3> QED
      BY <3>1, <3>2, <3>3, <3>4, <3>5, <3>6, QuietOrNot DEF Channel
  <2> QED
    BY <2>3, <2>4, <2>5, <2>6
<1> QED
  BY <1>2, <1>12, <1>13

(* After a reset there are no words.                                       *)
LEMMA InitWordsInv ==
  ASSUME Init
  PROVE  WordsInv
<1>1. /\ \A c \in Channel : Used(dac[c]) = 0 /\ last[c] = 0
      /\ frame = 0 /\ ~done_adc_channel_sync /\ playing = 0
      /\ \A c \in Channel : ~InFlight(c)
  BY DEF Init, NewFifo, Used, InFlight
<1>2. \A c \in Channel : Newest(c) = 0
  BY <1>1 DEF Newest
<1>3. "L" \in Channel /\ "R" \in Channel /\ 0 \in Frame
  BY StreamAssumption DEF Channel, Frame
<1>4. HeldInv
  BY <1>1, <1>2 DEF HeldInv
<1>5. LeftAt(0) = 0
  BY <1>1 DEF LeftAt
<1>6. ChainInv
  BY <1>1, <1>2, <1>3, <1>5 DEF ChainInv
<1> QED
  BY <1>1, <1>3, <1>4, <1>6 DEF WordsInv, FrameInv, MatchInv, TailInv

(* The parts of the second invariant together.                             *)
LEMMA StepWordsInv ==
  ASSUME IInv, WordsInv, [Next]_vars
  PROVE  WordsInv'
<1>1. CASE Next
  <2>1. FrameInv'
    BY <1>1, NewestMoves DEF WordsInv, Channel
  <2> QED
    BY <1>1, <2>1, HeldInvStays, TailInvStays, MatchInvStays, ChainInvStays DEF WordsInv
<1>2. CASE UNCHANGED vars
  <2>1. UNCHANGED <<empty_lag, holds, left, clock, frame, done_adc_channel_sync,
                    done_dac_channel_sync, adc, last, read_space, dac,
                    left_channel_was_read, playing, ticks, steps>>
    BY <1>2 DEF vars, buildVars, lrckVars, adcVars, dacVars, reverbVars
  <2>2. /\ FrameInv' = FrameInv
        /\ HeldInv' = HeldInv
    BY <2>1 DEF FrameInv, HeldInv, InFlight, Active, Writes, Newest, Pred, Used
  <2>3. MatchInv' = MatchInv
    BY <2>1 DEF MatchInv, Match, LeftAt, pending, Bit, Used
  <2>4. TailInv' = TailInv
    BY <2>1 DEF TailInv, Piece, Old, Held, Newest, Pred, Writes, Gained, pending, Bit, Used
  <2>5. ChainInv' = ChainInv
    BY <2>1 DEF ChainInv, LeftAt, Succ, Pred, Newest, InFlight, Active, Writes, Used
  <2> QED
    BY <2>2, <2>3, <2>4, <2>5 DEF WordsInv
<1> QED
  BY <1>1, <1>2

(* The words of every state of the stream.                                 *)
LEMMA WordsInvariance == Spec => []WordsInv
<1>1. Init => WordsInv
  BY InitWordsInv
<1>2. IInv /\ WordsInv /\ [Next]_vars => WordsInv'
  BY StepWordsInv
<1> QED
  BY <1>1, <1>2, IInvariance, PTL DEF Spec

(* The channels never slip: the right word that goes out was sampled with  *)
(* the left word before it, or a frame after it when empty_lag = 2.  The   *)
(* full FIFOs, the switch and the start of the stream cannot part them.    *)
THEOREM ChannelsAligned == Spec => []Aligned
<1>1. IInv /\ WordsInv => Aligned
  <2>1. SUFFICES ASSUME IInv, WordsInv, DacReadRight
                 PROVE  \/ \E early \in 0 .. 1 :
                             /\ Head(dac["R"].words) = (playing + early) % Frames
                             /\ early <= empty_lag \div 2
                        \/ ~holds /\ Head(dac["R"].words) = Unspecified
    BY DEF Aligned
  <2>2. pending = 1 /\ Used(dac["R"]) >= 2 /\ dac["R"].words \in Seq(Word)
        /\ Used(dac["R"]) \in Nat
    BY <2>1, WhatDacDoes, Bounds DEF IInv, Channel, Used
  <2>3. Head(dac["R"].words) = dac["R"].words[1]
    BY <2>2 DEF Used
  <2>4. Match(LeftAt(1 - pending), dac["R"].words[1])
    BY <2>1, <2>2 DEF WordsInv, MatchInv
  <2>5. LeftAt(1 - pending) = playing
    BY <2>2 DEF LeftAt
  <2> QED
    BY <2>3, <2>4, <2>5 DEF Match
<1> QED
  BY <1>1, IInvariance, WordsInvariance, PTL

(* The CODEC plays the frames in their order and leaves none out, with a   *)
(* scfifo that holds its last word and does not show the first one late.   *)
THEOREM FramesInOrder == Spec => PlaysInOrder
<1>1. IInv /\ WordsInv /\ [Next]_vars =>
        [empty_lag <= 1 /\ holds => playing' \in {playing, (playing + 1) % Frames}]_vars
  <2>1. SUFFICES ASSUME IInv, WordsInv, Next, empty_lag <= 1, holds
                 PROVE  playing' \in {playing, (playing + 1) % Frames}
    OBVIOUS
  <2>2. playing' = IF DacReadLeft THEN Head(dac["L"].words) ELSE playing
    BY <2>1 DEF Next, DacEdge
  <2>3. CASE DacReadLeft
    <3>1. Used(dac["L"]) > 0 /\ dac["L"].words \in Seq(Word) /\ Used(dac["L"]) \in Nat
      BY <2>1, <2>3, WhatDacDoes DEF Channel, Used
    <3>2. Head(dac["L"].words) = LeftAt(1) /\ LeftAt(0) = playing
      BY <3>1 DEF LeftAt, Used
    <3>3. 1 \in 1 .. Used(dac["L"]) /\ 0 \in 0 .. Used(dac["L"])
      BY <3>1
    <3>4. LeftAt(1) \in {LeftAt(1 - 1), Succ(LeftAt(1 - 1))} /\ LeftAt(0) \in Frame
      BY <2>1, <3>3 DEF WordsInv, ChainInv
    <3>5. Succ(playing) = (playing + 1) % Frames
      BY <3>2, <3>4, NextFrame
    <3> QED
      BY <2>2, <2>3, <3>2, <3>4, <3>5
  <2>4. CASE ~DacReadLeft
    BY <2>2, <2>4
  <2> QED
    BY <2>3, <2>4
<1> QED
  BY <1>1, IInvariance, WordsInvariance, PTL DEF Spec, PlaysInOrder

-----------------------------------------------------------------------------
(* The bits.  A half period is divided by the edges of the bit clock, at   *)
(* least four clocks apart; what the registers hold is a function of how   *)
(* many of them have been seen since LRCK changed.                         *)

(* Truncation towards minus infinity, as an inequality.                    *)
LEMMA Quotient ==
  ASSUME NEW n \in Nat, NEW m \in Nat, m > 0
  PROVE  n \div m \in Nat /\ m * (n \div m) <= n /\ n < m * (n \div m) + m
BY Z3

(* A quotient is not below a bound of which the multiple is not above.     *)
LEMMA QuotientAtLeast ==
  ASSUME NEW n \in Nat, NEW m \in Nat, m > 0, NEW q \in Nat, m * q <= n
  PROVE  q <= n \div m
<1> DEFINE r == n \div m
<1>1. r \in Nat /\ n < m * r + m
  BY Quotient
<1> HIDE DEF r
<1>2. SUFFICES ASSUME r <= q - 1  PROVE FALSE
  BY <1>1 DEF r
<1>3. m * r <= m * (q - 1)
  BY <1>1, <1>2, Z3
<1>4. m * (q - 1) = m * q - m
  BY Z3
<1> QED
  BY <1>1, <1>3, <1>4, Z3

(* The edges of the bit clock that frame a bit.                            *)
LEMMA EdgesOfABit ==
  ASSUME NEW i \in 1 .. Bits
  PROVE  /\ FallingAt(i - 1) \in Nat /\ RisingAt(i) \in Nat /\ FallingAt(i) \in Nat
         /\ FallingAt(i - 1) + 4 <= RisingAt(i)
         /\ RisingAt(i) + 4 <= FallingAt(i)
<1> DEFINE H == HalfPeriod
           f == ((i - 1) * H) \div Bits
           r == ((2 * i - 1) * H) \div (2 * Bits)
           g == (i * H) \div Bits
<1>1. /\ H \in Nat /\ Bits \in Nat /\ Bits > 0 /\ 8 * Bits <= H
      /\ i \in Nat /\ i - 1 \in Nat /\ 2 * i - 1 \in Nat
  BY StreamAssumption, SerialAssumption
<1>2. FallingAt(i - 1) = f /\ RisingAt(i) = r /\ FallingAt(i) = g
  BY DEF FallingAt, RisingAt
<1> HIDE DEF H
<1>3. (i - 1) * H \in Nat /\ (2 * i - 1) * H \in Nat /\ i * H \in Nat
  BY <1>1, Z3
<1>4. f \in Nat /\ Bits * f <= (i - 1) * H
  BY <1>1, <1>3, Quotient
<1>5. r \in Nat /\ (2 * Bits) * r <= (2 * i - 1) * H
  BY <1>1, <1>3, Quotient, 2 * Bits \in Nat, 2 * Bits > 0
<1>6. g \in Nat
  BY <1>1, <1>3, Quotient
<1>7. f + 4 <= r
  <2> HIDE DEF f
  <2>1. (2 * Bits) * (f + 4) = 2 * (Bits * f) + 8 * Bits
    BY <1>1, <1>4, Z3
  <2>2. 2 * ((i - 1) * H) + H = (2 * i - 1) * H
    BY <1>1, Z3
  <2>3. (2 * Bits) * (f + 4) <= (2 * i - 1) * H
    BY <1>1, <1>3, <1>4, <2>1, <2>2, Z3
  <2> QED
    BY <1>1, <1>3, <1>4, <2>3, QuotientAtLeast, 2 * Bits \in Nat, 2 * Bits > 0, f + 4 \in Nat
<1>8. r + 4 <= g
  <2> HIDE DEF r
  <2>1. 2 * (Bits * (r + 4)) = (2 * Bits) * r + 8 * Bits /\ Bits * (r + 4) \in Nat
    BY <1>1, <1>5, Z3
  <2>2. (2 * i - 1) * H + H = 2 * (i * H)
    BY <1>1, Z3
  <2>3. 2 * (Bits * (r + 4)) <= 2 * (i * H)
    BY <1>1, <1>3, <1>5, <2>1, <2>2, Z3
  <2>4. Bits * (r + 4) <= i * H
    BY <1>3, <2>1, <2>3, Z3
  <2> QED
    BY <1>1, <1>3, <1>5, <2>4, QuotientAtLeast, r + 4 \in Nat
<1> QED
  BY <1>2, <1>4, <1>5, <1>6, <1>7, <1>8

(* The falling edges in their order.                                       *)
LEMMA FallingInOrder ==
  ASSUME NEW i \in 0 .. Bits, NEW j \in 0 .. Bits, i <= j
  PROVE  /\ FallingAt(i) \in Nat /\ FallingAt(j) \in Nat
         /\ FallingAt(i) + 8 * (j - i) <= FallingAt(j)
<1> DEFINE H == HalfPeriod
           f == (i * H) \div Bits
           k == j - i
<1>1. /\ H \in Nat /\ Bits \in Nat /\ Bits > 0 /\ 8 * Bits <= H
      /\ i \in Nat /\ j \in Nat /\ k \in Nat
  BY StreamAssumption, SerialAssumption
<1>2. FallingAt(i) = f /\ FallingAt(j) = (j * H) \div Bits
  BY DEF FallingAt
<1> HIDE DEF H
<1>3. i * H \in Nat /\ j * H \in Nat /\ k * H \in Nat /\ k * Bits \in Nat
  BY <1>1, Z3
<1>4. f \in Nat /\ Bits * f <= i * H
  BY <1>1, <1>3, Quotient
<1>5. i * H + k * H = j * H
  BY <1>1, Z3
<1> HIDE DEF f, k
<1>6. Bits * (f + 8 * k) = Bits * f + k * (8 * Bits)
  BY <1>1, <1>4, Z3
<1>7. k * (8 * Bits) <= k * H
  BY <1>1, Z3
<1>8. Bits * (f + 8 * k) <= j * H
  <2>1. Bits * f \in Nat /\ k * (8 * Bits) \in Nat
    BY <1>1, <1>4, Z3
  <2> QED
    BY <1>3, <1>4, <1>5, <1>6, <1>7, <2>1, Z3
<1>9. f + 8 * k <= (j * H) \div Bits
  BY <1>1, <1>3, <1>4, <1>8, QuotientAtLeast, f + 8 * k \in Nat
<1>10. (j * H) \div Bits \in Nat
  BY <1>1, <1>3, Quotient
<1> QED
  BY <1>2, <1>4, <1>9, <1>10 DEF k

(* They fill the half period.                                              *)
LEMMA FirstAndLast == FallingAt(0) = 0 /\ FallingAt(Bits) = HalfPeriod
<1>1. HalfPeriod \in Nat /\ Bits \in Nat /\ Bits > 0
  BY StreamAssumption, SerialAssumption
<1>2. 0 * HalfPeriod = 0 /\ 0 \div Bits = 0
  BY <1>1, Z3
<1>3. (Bits * HalfPeriod) \div Bits = HalfPeriod
  BY <1>1, Z3
<1> QED
  BY <1>2, <1>3 DEF FallingAt

(* So many falling edges have been seen, and so many rising ones, of which *)
(* those after the word do not count.                                      *)
FallsSeen(n) == FallingAt(n) - lead < clock /\ clock <= FallingAt(n + 1) - lead

RisesSeen(n) ==
  /\ n = 0 \/ RisingAt(n) - lead < clock
  /\ n = DW + 1 \/ clock <= RisingAt(n + 1) - lead

(* A register with a bit in every place.                                   *)
Register(reg) == reg = [i \in Place |-> reg[i]]

(* The clocks, and what the CODEC has of every bit.                        *)
ClockInv ==
  /\ left \in BOOLEAN /\ clock \in 0 .. HalfPeriod /\ lead \in {0, 1}
  /\ Register(data_in_shift_reg) /\ Register(data_out_shift_reg)
  /\ Register(sending) /\ Register(sent)

(* The counter runs from an edge of LRCK to the end of the word, and every *)
(* bit of the word that has been shifted in is in its place.               *)
ReceiveInv ==
  done_adc_channel_sync =>
    /\ clock > 0 =>
         /\ counting <=> clock <= FallingAt(DW + 1) - lead
         /\ \A n \in 0 .. DW : FallsSeen(n) => bit_counter = DW - n
         /\ \A n \in 0 .. DW + 1 : RisesSeen(n) =>
              \A j \in 1 .. n :
                data_in_shift_reg[DW + 1 - n + j] = <<IF left THEN "L" ELSE "R", frame, j>>
    /\ clock = 0 =>
         data_in_shift_reg = WordBits(IF left THEN "R" ELSE "L", frame)

(* The word to be sent is shifted out by as many bits as falling edges     *)
(* have been seen, its next bit is on the pin from the second clock after  *)
(* the edge, and the CODEC has read the bits of the rising edges.          *)
SendInv ==
  /\ ~done_dac_channel_sync => data_out_shift_reg = Silence
  /\ clock > 0 =>
       \A n \in 0 .. DW : FallsSeen(n) =>
         /\ \A i \in Place : i + n <= DW + 1 => data_out_shift_reg[i] = sending[i + n]
         /\ clock >= 2 /\ FallingAt(n) - lead + 1 < clock
              => serial_audio_out_data = sending[n + 1]
  /\ clock > 0 => \A i \in Place : RisingAt(i) - lead <= clock => sent[i] = sending[i]
  /\ clock = 0 => sent = sending

SerialInv == ClockInv /\ ReceiveInv /\ SendInv

-----------------------------------------------------------------------------
(* All that the proofs need of the edges of the bit clock.                 *)
LEMMA Edges ==
  /\ DW \in Nat /\ Bits \in Nat /\ DW + 1 <= Bits
  /\ HalfPeriod \in Nat /\ HalfPeriod >= 8
  /\ FallingAt(0) = 0
  /\ \A i \in 0 .. Bits : FallingAt(i) \in Nat /\ FallingAt(i) <= HalfPeriod
  /\ \A i \in 1 .. Bits : /\ RisingAt(i) \in Nat
                          /\ FallingAt(i - 1) + 4 <= RisingAt(i)
                          /\ RisingAt(i) + 4 <= FallingAt(i)
  /\ \A i, j \in 0 .. Bits : i < j => FallingAt(i) + 8 <= FallingAt(j)
  /\ \A i, j \in 1 .. Bits : i < j => RisingAt(i) + 8 <= RisingAt(j)
<1>1. /\ DW \in Nat /\ Bits \in Nat /\ DW + 1 <= Bits
      /\ HalfPeriod \in Nat /\ HalfPeriod >= 8
  BY StreamAssumption, SerialAssumption
<1>2. \A i \in 1 .. Bits : /\ RisingAt(i) \in Nat
                           /\ FallingAt(i - 1) + 4 <= RisingAt(i)
                           /\ RisingAt(i) + 4 <= FallingAt(i)
  BY EdgesOfABit
<1>3. \A i, j \in 0 .. Bits : i < j => FallingAt(i) + 8 <= FallingAt(j)
  <2>1. SUFFICES ASSUME NEW i \in 0 .. Bits, NEW j \in 0 .. Bits, i < j
                 PROVE  FallingAt(i) + 8 <= FallingAt(j)
    OBVIOUS
  <2>2. FallingAt(i) \in Nat /\ FallingAt(j) \in Nat /\ FallingAt(i) + 8 * (j - i) <= FallingAt(j)
    BY <2>1, FallingInOrder
  <2> QED
    BY <1>1, <2>1, <2>2
<1>4. \A i \in 0 .. Bits : FallingAt(i) \in Nat /\ FallingAt(i) <= HalfPeriod
  <2>1. SUFFICES ASSUME NEW i \in 0 .. Bits
                 PROVE  FallingAt(i) \in Nat /\ FallingAt(i) <= HalfPeriod
    OBVIOUS
  <2>2. i <= Bits /\ Bits \in 0 .. Bits
    BY <1>1
  <2>3. FallingAt(i) \in Nat /\ FallingAt(i) + 8 * (Bits - i) <= FallingAt(Bits)
    BY <2>2, FallingInOrder
  <2> QED
    BY <1>1, <2>2, <2>3, FirstAndLast
<1>5. \A i, j \in 1 .. Bits : i < j => RisingAt(i) + 8 <= RisingAt(j)
  <2>1. SUFFICES ASSUME NEW i \in 1 .. Bits, NEW j \in 1 .. Bits, i < j
                 PROVE  RisingAt(i) + 8 <= RisingAt(j)
    OBVIOUS
  <2>2. i \in 0 .. Bits /\ j - 1 \in 0 .. Bits /\ i <= j - 1
    BY <1>1, <2>1
  <2>3. /\ FallingAt(i) \in Nat /\ FallingAt(j - 1) \in Nat
        /\ FallingAt(i) <= FallingAt(j - 1)
    <3>1. CASE i = j - 1
      BY <1>4, <2>2, <3>1
    <3>2. CASE i < j - 1
      <4>1. FallingAt(i) + 8 <= FallingAt(j - 1)
        BY <1>3, <2>2, <3>2
      <4> QED
        BY <1>4, <2>2, <4>1
    <3> QED
      BY <2>2, <3>1, <3>2
  <2> QED
    BY <1>2, <2>3
<1> QED
  BY <1>1, <1>2, <1>3, <1>4, <1>5, FirstAndLast

(* A step starts a half period, goes on in one, or ends one.               *)
LEMMA HalfPeriodMoves ==
  ASSUME ClockInv, SerialNext
  PROVE  \/ /\ clock = 0 /\ LrckMoves /\ clock' = 1 /\ left' = left /\ lead' \in {0, 1}
            /\ frame' = IF left THEN (frame + 1) % Frames ELSE frame
         \/ /\ clock > 0 /\ ~LrckMoves /\ clock < HalfPeriod /\ clock' = clock + 1
            /\ left' = left /\ lead' = lead /\ frame' = frame
         \/ /\ clock > 0 /\ ~LrckMoves /\ clock >= HalfPeriod - 1 /\ clock' = 0
            /\ left' = ~left /\ lead' = lead /\ frame' = frame
<1>1. /\ \/ clock < HalfPeriod /\ clock' = clock + 1 /\ left' = left
         \/ clock >= HalfPeriod - 1 /\ clock' = 0 /\ left' = ~left
      /\ frame' = IF Rising THEN (frame + 1) % Frames ELSE frame
  BY DEF SerialNext, Next, LrckEdge
<1>2. IF LrckMoves THEN lead' \in BclkLeads ELSE lead' = lead
  BY DEF SerialNext, CodecReads
<1>3. LrckMoves <=> clock = 0
  BY DEF LrckMoves, Rising, Falling, ClockInv
<1>4. Rising <=> left /\ clock = 0
  BY DEF Rising
<1>5. clock \in 0 .. HalfPeriod /\ HalfPeriod \in Nat /\ HalfPeriod >= 8 /\ left \in BOOLEAN
      /\ BclkLeads \subseteq {0, 1}
  BY Edges, SerialAssumption DEF ClockInv
<1>6. CASE clock = 0
  <2>1. clock < HalfPeriod /\ ~(clock >= HalfPeriod - 1) /\ LrckMoves /\ clock + 1 = 1
    BY <1>3, <1>5, <1>6
  <2>2. clock' = 1 /\ left' = left
    BY <1>1, <2>1
  <2>3. lead' \in {0, 1}
    BY <1>2, <1>5, <2>1
  <2>4. frame' = IF left THEN (frame + 1) % Frames ELSE frame
    BY <1>1, <1>4, <1>6
  <2> QED
    BY <1>6, <2>1, <2>2, <2>3, <2>4
<1>7. CASE clock > 0
  <2>1. ~(clock = 0)
    BY <1>5, <1>7
  <2>2. ~LrckMoves /\ ~Rising
    BY <1>3, <1>4, <2>1
  <2>3. lead' = lead /\ frame' = frame
    BY <1>1, <1>2, <2>2
  <2> QED
    BY <1>1, <1>7, <2>2, <2>3
<1> QED
  BY <1>5, <1>6, <1>7

(* A bit of a word is shifted in, and a falling edge counted, as they come.*)
LEMMA EdgesSeen ==
  ASSUME ClockInv
  PROVE  /\ \A i \in 1 .. Bits : BclkRising(i) =>
              (CHOOSE k \in 1 .. Bits : BclkRising(k)) = i
         /\ \A n \in 0 .. DW : FallsSeen(n) /\ clock < HalfPeriod /\ clock > 0 =>
              (BclkFalling <=> clock = FallingAt(n + 1) - lead)
<1>1. lead \in {0, 1} /\ clock \in 0 .. HalfPeriod
  BY DEF ClockInv
<1>2. ASSUME NEW i \in 1 .. Bits, BclkRising(i)
      PROVE  (CHOOSE k \in 1 .. Bits : BclkRising(k)) = i
  <2>1. \A k \in 1 .. Bits : BclkRising(k) => k = i
    <3>1. SUFFICES ASSUME NEW k \in 1 .. Bits, BclkRising(k), k # i  PROVE FALSE
      OBVIOUS
    <3>2. RisingAt(k) = RisingAt(i) /\ RisingAt(i) \in Nat
      BY <1>1, <1>2, <3>1, Edges DEF BclkRising
    <3>3. k < i \/ i < k
      BY <3>1, Edges
    <3> QED
      BY <3>2, <3>3, Edges
  <2> QED
    BY <1>2, <2>1
<1>3. ASSUME NEW n \in 0 .. DW, FallsSeen(n), clock < HalfPeriod, clock > 0
      PROVE  BclkFalling <=> clock = FallingAt(n + 1) - lead
  <2>1. n \in 0 .. Bits /\ n + 1 \in 0 .. Bits
    BY Edges
  <2>2. ASSUME NEW i \in 0 .. Bits, clock = FallingAt(i) - lead  PROVE i = n + 1
    <3>1. FallingAt(n) \in Nat /\ FallingAt(i) \in Nat /\ FallingAt(n + 1) \in Nat
      BY <2>1, Edges
    <3>2. FallingAt(n) < FallingAt(i) /\ FallingAt(i) <= FallingAt(n + 1)
      BY <1>1, <1>3, <2>2, <3>1 DEF FallsSeen
    <3>3. ~(i < n) /\ i # n /\ ~(n + 1 < i)
      BY <2>1, <3>1, <3>2, Edges
    <3> QED
      BY <2>1, <3>3, Edges
  <2> QED
    BY <1>3, <2>1, <2>2 DEF BclkFalling
<1> QED
  BY <1>2, <1>3

(* The registers keep a bit in every place.                                *)
LEMMA ClockInvStays ==
  ASSUME ClockInv, SerialNext
  PROVE  ClockInv'
<1>1. left' \in BOOLEAN /\ clock' \in 0 .. HalfPeriod /\ lead' \in {0, 1}
  <2>1. left \in BOOLEAN /\ clock \in 0 .. HalfPeriod /\ lead \in {0, 1}
        /\ HalfPeriod \in Nat /\ HalfPeriod >= 8
    BY Edges DEF ClockInv
  <2>2. left' \in BOOLEAN
    BY <2>1, HalfPeriodMoves, Zenon
  <2>3. lead' \in {0, 1}
    BY <2>1, HalfPeriodMoves, Zenon
  <2>4. clock' = 1 \/ (clock < HalfPeriod /\ clock' = clock + 1) \/ clock' = 0
    BY HalfPeriodMoves, Zenon
  <2>5. clock' \in 0 .. HalfPeriod
    BY <2>1, <2>4
  <2> QED
    BY <2>2, <2>3, <2>5
<1>2. Register(data_in_shift_reg)'
  BY DEF SerialNext, DataIn, Shift, ClockInv, Register
<1>3. Register(Loaded) /\ Register(Silence)
  BY DEF Loaded, WordBits, Silence, Register
<1>4. Register(data_out_shift_reg)'
  BY <1>3 DEF SerialNext, DataOut, Shift, ClockInv, Register
<1>5. Register(sending)' /\ Register(sent)'
  BY <1>3 DEF SerialNext, CodecReads, ClockInv, Register
<1> QED
  BY <1>1, <1>2, <1>4, <1>5 DEF ClockInv

(* A word is received bit by bit in its half period.                       *)
LEMMA ReceiveInvStays ==
  ASSUME ClockInv, ReceiveInv, SerialNext
  PROVE  ReceiveInv'
<1> DEFINE ch == IF left THEN "L" ELSE "R"
<1>1. /\ DW \in Nat /\ Bits \in Nat /\ DW + 1 <= Bits
      /\ HalfPeriod \in Nat /\ HalfPeriod >= 8
      /\ left \in BOOLEAN /\ clock \in 0 .. HalfPeriod /\ lead \in {0, 1}
      /\ DW + 1 \in 1 .. Bits
  BY Edges DEF ClockInv
<1>2. SUFFICES ASSUME done_adc_channel_sync'
               PROVE  /\ clock' > 0 =>
                           /\ counting' <=> clock' <= FallingAt(DW + 1) - lead'
                           /\ \A n \in 0 .. DW : FallsSeen(n)' => bit_counter' = DW - n
                           /\ \A n \in 0 .. DW + 1 : RisesSeen(n)' =>
                                \A j \in 1 .. n : data_in_shift_reg'[DW + 1 - n + j]
                                  = <<IF left' THEN "L" ELSE "R", frame', j>>
                      /\ clock' = 0 =>
                           data_in_shift_reg' = WordBits(IF left' THEN "R" ELSE "L", frame')
  BY DEF ReceiveInv
<1>3. CASE clock = 0 /\ LrckMoves /\ clock' = 1 /\ lead' \in {0, 1}
  <2>1. bit_counter' = DW /\ counting' = TRUE
    BY <1>3 DEF SerialNext, BitCounter
  <2>2. FallingAt(DW + 1) - lead' >= 1
    <3>1. FallingAt(DW + 1) \in Nat /\ FallingAt(0) + 8 <= FallingAt(DW + 1)
      BY <1>1, Edges
    <3> QED
      BY <1>3, <3>1, Edges
  <2>3. ASSUME NEW n \in 0 .. DW, FallsSeen(n)'  PROVE n = 0
    <3>1. SUFFICES ASSUME n # 0  PROVE FALSE
      OBVIOUS
    <3>2. FallingAt(n) \in Nat /\ FallingAt(0) + 8 <= FallingAt(n)
      BY <1>1, <3>1, Edges
    <3>3. FallingAt(n) - lead' < 1
      BY <1>3, <2>3 DEF FallsSeen
    <3> QED
      BY <1>3, <3>2, <3>3, Edges
  <2>4. ASSUME NEW n \in 0 .. DW + 1, RisesSeen(n)'  PROVE n = 0
    <3>1. SUFFICES ASSUME n # 0  PROVE FALSE
      OBVIOUS
    <3>2. RisingAt(n) \in Nat /\ FallingAt(n - 1) \in Nat /\ FallingAt(n - 1) + 4 <= RisingAt(n)
      BY <1>1, <3>1, Edges
    <3>3. RisingAt(n) - lead' < 1
      BY <1>3, <2>4, <3>1 DEF RisesSeen
    <3> QED
      BY <1>3, <3>2, <3>3
  <2> QED
    BY <1>1, <1>3, <2>1, <2>2, <2>3, <2>4
<1>4. ASSUME clock > 0, clock < HalfPeriod, clock' = clock + 1, ~LrckMoves,
             left' = left, lead' = lead, frame' = frame
      PROVE  /\ counting' <=> clock' <= FallingAt(DW + 1) - lead'
             /\ \A n \in 0 .. DW : FallsSeen(n)' => bit_counter' = DW - n
             /\ \A n \in 0 .. DW + 1 : RisesSeen(n)' =>
                  \A j \in 1 .. n : data_in_shift_reg'[DW + 1 - n + j] = <<ch, frame, j>>
  <2>1. done_adc_channel_sync
    <3>1. ~Rising
      BY <1>4 DEF LrckMoves
    <3> QED
      BY <1>2, <3>1 DEF SerialNext, Next, AdcEdge
  <2>2. /\ counting <=> clock <= FallingAt(DW + 1) - lead
        /\ \A n \in 0 .. DW : FallsSeen(n) => bit_counter = DW - n
        /\ \A n \in 0 .. DW + 1 : RisesSeen(n) =>
             \A j \in 1 .. n : data_in_shift_reg[DW + 1 - n + j] = <<ch, frame, j>>
    BY <1>4, <2>1 DEF ReceiveInv
  <2>3. /\ bit_counter' = IF BclkFalling /\ bit_counter # 0 THEN bit_counter - 1
                          ELSE bit_counter
        /\ counting' = (counting /\ ~(BclkFalling /\ bit_counter = 0))
    BY <1>4 DEF SerialNext, BitCounter, CountDown
  <2>4. \A n \in 0 .. DW : FallsSeen(n) =>
          (BclkFalling <=> clock = FallingAt(n + 1) - lead)
    BY <1>4, EdgesSeen
  <2>5. \A n \in 0 .. DW : /\ FallingAt(n) \in Nat /\ FallingAt(n + 1) \in Nat
                           /\ FallingAt(n) + 8 <= FallingAt(n + 1)
    BY <1>1, Edges
  <2>6. ASSUME NEW n \in 0 .. DW, FallsSeen(n)'  PROVE bit_counter' = DW - n
    <3>1. FallingAt(n) - lead <= clock /\ clock < FallingAt(n + 1) - lead
      BY <1>1, <1>4, <2>5, <2>6 DEF FallsSeen
    <3>2. CASE FallingAt(n) - lead < clock
      <4>1. FallsSeen(n)
        BY <1>1, <2>5, <3>1, <3>2 DEF FallsSeen
      <4>2. ~BclkFalling
        BY <1>1, <2>4, <2>5, <3>1, <4>1
      <4> QED
        BY <2>2, <2>3, <4>1, <4>2
    <3>3. CASE FallingAt(n) - lead = clock
      <4>1. n # 0
        BY <1>1, <1>4, <3>3, Edges
      <4>2. n - 1 \in 0 .. DW /\ (n - 1) + 1 = n
        BY <1>1, <4>1
      <4>3. FallsSeen(n - 1)
        <5>1. FallingAt(n - 1) \in Nat /\ FallingAt(n) \in Nat
              /\ FallingAt(n - 1) + 8 <= FallingAt(n)
          BY <2>5, <4>2
        <5> QED
          BY <1>1, <3>3, <4>2, <5>1 DEF FallsSeen
      <4>4. BclkFalling /\ bit_counter = DW - (n - 1)
        BY <2>2, <2>4, <3>3, <4>2, <4>3
      <4>5. DW - (n - 1) # 0 /\ DW - (n - 1) - 1 = DW - n
        BY <1>1, <4>2
      <4> QED
        BY <2>3, <4>4, <4>5
    <3> QED
      BY <1>1, <2>5, <3>1, <3>2, <3>3
  <2>7. counting' <=> clock' <= FallingAt(DW + 1) - lead'
    <3>1. DW \in 0 .. DW /\ FallingAt(DW + 1) \in Nat /\ FallingAt(DW) \in Nat
          /\ FallingAt(DW) + 8 <= FallingAt(DW + 1)
      BY <1>1, <2>5
    <3>2. CASE clock > FallingAt(DW + 1) - lead
      <4>1. ~(clock <= FallingAt(DW + 1) - lead) /\ ~(clock' <= FallingAt(DW + 1) - lead')
        BY <1>1, <1>4, <3>1, <3>2
      <4>2. ~counting'
        BY <2>2, <2>3, <4>1, Zenon
      <4> QED
        BY <4>1, <4>2, Zenon
    <3>3. CASE clock = FallingAt(DW + 1) - lead
      <4>1. FallsSeen(DW)
        BY <1>1, <3>1, <3>3 DEF FallsSeen
      <4>2. BclkFalling /\ bit_counter = DW - DW /\ DW - DW = 0
        BY <1>1, <2>2, <2>4, <3>1, <3>3, <4>1
      <4>3. ~counting'
        BY <2>3, <4>2, Zenon
      <4>4. ~(clock' <= FallingAt(DW + 1) - lead')
        BY <1>1, <1>4, <3>1, <3>3
      <4> QED
        BY <4>3, <4>4, Zenon
    <3>4. CASE clock < FallingAt(DW + 1) - lead
      <4>1. counting
        BY <1>1, <2>2, <3>1, <3>4
      <4>2. ~(BclkFalling /\ bit_counter = 0)
        <5>1. SUFFICES ASSUME BclkFalling, bit_counter = 0  PROVE FALSE
          OBVIOUS
        <5>2. PICK i \in 0 .. Bits : clock = FallingAt(i) - lead
          BY <5>1 DEF BclkFalling
        <5>3. FallingAt(i) \in Nat /\ FallingAt(i) < FallingAt(DW + 1)
          BY <1>1, <3>1, <3>4, <5>2, Edges
        <5>4. i < DW + 1 /\ i # 0
          <6>1. i # DW + 1 /\ ~(DW + 1 < i)
            BY <1>1, <3>1, <5>3, Edges
          <6>2. i # 0
            BY <1>1, <1>4, <5>2, Edges
          <6> QED
            BY <1>1, <6>1, <6>2
        <5>5. i - 1 \in 0 .. DW /\ (i - 1) + 1 = i
          BY <1>1, <5>4
        <5>6. FallsSeen(i - 1)
          <6>1. FallingAt(i - 1) \in Nat /\ FallingAt(i - 1) + 8 <= FallingAt(i)
            BY <2>5, <5>5
          <6> QED
            BY <1>1, <5>2, <5>3, <5>5, <6>1 DEF FallsSeen
        <5>7. bit_counter = DW - (i - 1)
          BY <2>2, <5>5, <5>6
        <5> QED
          BY <1>1, <5>1, <5>4, <5>7
      <4>3. clock' <= FallingAt(DW + 1) - lead'
        BY <1>1, <1>4, <3>1, <3>4
      <4> QED
        BY <2>3, <4>1, <4>2, <4>3, Zenon
    <3> QED
      BY <1>1, <3>1, <3>2, <3>3, <3>4
  <2>8. ASSUME NEW n \in 0 .. DW + 1, RisesSeen(n)', NEW j \in 1 .. n
        PROVE  data_in_shift_reg'[DW + 1 - n + j] = <<ch, frame, j>>
    <3>1. /\ n \in 1 .. Bits /\ RisingAt(n) \in Nat /\ FallingAt(n - 1) \in Nat
          /\ FallingAt(n) \in Nat /\ FallingAt(n - 1) + 4 <= RisingAt(n)
          /\ RisingAt(n) + 4 <= FallingAt(n)
      BY <1>1, <2>8, Edges
    <3>2. /\ RisingAt(n) - lead <= clock
          /\ n # DW + 1 => clock < RisingAt(n + 1) - lead /\ RisingAt(n + 1) \in Nat
      <4>1. n # DW + 1 => n + 1 \in 1 .. Bits
        BY <1>1, <3>1
      <4>2. n # DW + 1 => RisingAt(n + 1) \in Nat
        BY <4>1, Edges
      <4> QED
        BY <1>1, <1>4, <2>8, <3>1, <4>2 DEF RisesSeen
    <3>3. DW + 1 - n + j \in Place /\ j \in Place
      BY <1>1, <3>1 DEF Place
    <3>4. CASE RisingAt(n) - lead < clock
      <4>1. RisesSeen(n)
        BY <1>1, <3>1, <3>2, <3>4 DEF RisesSeen
      <4>2. ~(counting /\ \E i \in 1 .. Bits : BclkRising(i))
        <5>1. SUFFICES ASSUME counting, NEW i \in 1 .. Bits, BclkRising(i)  PROVE FALSE
          OBVIOUS
        <5>2. clock = RisingAt(i) - lead /\ RisingAt(i) \in Nat
          BY <5>1, Edges DEF BclkRising
        <5>3. n < i
          <6>1. n # i /\ ~(i < n)
            BY <1>1, <3>1, <3>4, <5>2, Edges
          <6> QED
            BY <3>1, <6>1
        <5>4. n = DW + 1
          <6>1. SUFFICES ASSUME n # DW + 1  PROVE FALSE
            OBVIOUS
          <6>2. i # n + 1 /\ ~(n + 1 < i)
            BY <1>1, <3>1, <3>2, <5>2, <5>3, <6>1, Edges
          <6> QED
            BY <3>1, <5>3, <6>2
        <5>5. RisingAt(i) <= FallingAt(DW + 1)
          BY <1>1, <2>2, <3>1, <5>1, <5>2, <5>4
        <5>6. FallingAt(i - 1) + 4 <= RisingAt(i) /\ FallingAt(i - 1) \in Nat
              /\ (DW + 1 < i - 1 => FallingAt(DW + 1) + 8 <= FallingAt(i - 1))
              /\ (DW + 1 = i - 1 => FallingAt(DW + 1) = FallingAt(i - 1))
              /\ FallingAt(DW + 1) \in Nat
          BY <1>1, Edges
        <5> QED
          BY <1>1, <5>2, <5>3, <5>4, <5>5, <5>6
      <4>3. data_in_shift_reg' = data_in_shift_reg
        BY <4>2 DEF SerialNext, DataIn
      <4> QED
        BY <2>2, <4>1, <4>3
    <3>5. CASE RisingAt(n) - lead = clock
      <4>1. BclkRising(n) /\ (CHOOSE k \in 1 .. Bits : BclkRising(k)) = n
        BY <3>1, <3>5, EdgesSeen DEF BclkRising
      <4>2. counting
        <5>1. n = DW + 1 \/ FallingAt(n) + 8 <= FallingAt(DW + 1)
          BY <1>1, <3>1, Edges
        <5>2. FallingAt(DW + 1) \in Nat /\ RisingAt(n) <= FallingAt(DW + 1)
          BY <1>1, <3>1, <5>1, Edges
        <5> QED
          BY <1>1, <2>2, <3>1, <3>5, <5>2
      <4>3. data_in_shift_reg' = Shift(data_in_shift_reg, ADCDAT(n))
        BY <3>1, <4>1, <4>2 DEF SerialNext, DataIn
      <4>4. ADCDAT(n) = <<ch, frame, n>>
        BY <1>1, <3>1 DEF ADCDAT, WordBits, Place
      <4>5. CASE j = n
        <5>1. DW + 1 - n + j = DW + 1
          BY <1>1, <3>1, <4>5
        <5> QED
          BY <3>3, <4>3, <4>4, <4>5, <5>1 DEF Shift
      <4>6. CASE j # n
        <5>1. /\ n - 1 \in 0 .. DW + 1 /\ j \in 1 .. n - 1
              /\ DW + 1 - n + j # DW + 1
              /\ (DW + 1 - n + j) + 1 = DW + 1 - (n - 1) + j
          BY <1>1, <3>1, <4>6
        <5>2. RisesSeen(n - 1)
          <6>1. n - 1 = 0 \/ (RisingAt(n - 1) \in Nat /\ RisingAt(n - 1) + 8 <= RisingAt(n))
            BY <1>1, <3>1, Edges
          <6> QED
            BY <1>1, <3>1, <3>5, <6>1 DEF RisesSeen
        <5>3. data_in_shift_reg[DW + 1 - (n - 1) + j] = <<ch, frame, j>>
          BY <2>2, <5>1, <5>2
        <5> QED
          BY <3>3, <4>3, <5>1, <5>3 DEF Shift
      <4> QED
        BY <4>5, <4>6
    <3> QED
      BY <1>1, <3>1, <3>2, <3>4, <3>5
  <2> QED
    BY <2>6, <2>7, <2>8
<1>5. ASSUME clock > 0, clock >= HalfPeriod - 1, clock' = 0, ~LrckMoves,
             left' = ~left, frame' = frame
      PROVE  data_in_shift_reg' = WordBits(IF left' THEN "R" ELSE "L", frame')
  <2>1. done_adc_channel_sync
    <3>1. ~Rising
      BY <1>5 DEF LrckMoves
    <3> QED
      BY <1>2, <3>1 DEF SerialNext, Next, AdcEdge
  <2>2. ASSUME NEW i \in 1 .. Bits  PROVE RisingAt(i) \in Nat /\ RisingAt(i) - lead < clock
    <3>1. RisingAt(i) \in Nat /\ RisingAt(i) + 4 <= FallingAt(i)
          /\ FallingAt(i) \in Nat /\ FallingAt(i) <= HalfPeriod
      BY <1>1, Edges
    <3> QED
      BY <1>1, <1>5, <3>1
  <2>3. ~\E i \in 1 .. Bits : BclkRising(i)
    BY <1>1, <2>2 DEF BclkRising
  <2>4. data_in_shift_reg' = data_in_shift_reg
    BY <2>3 DEF SerialNext, DataIn
  <2>5. RisesSeen(DW + 1)
    BY <1>1, <2>2 DEF RisesSeen
  <2>6. \A j \in 1 .. DW + 1 :
          data_in_shift_reg[DW + 1 - (DW + 1) + j] = <<ch, frame, j>>
    BY <1>1, <1>5, <2>1, <2>5 DEF ReceiveInv
  <2>7. \A j \in Place : data_in_shift_reg[j] = <<ch, frame, j>>
    BY <1>1, <2>6 DEF Place
  <2>8. data_in_shift_reg = [j \in Place |-> data_in_shift_reg[j]]
    BY DEF ClockInv, Register
  <2>9. data_in_shift_reg = WordBits(ch, frame)
    BY <2>7, <2>8 DEF WordBits
  <2>10. (IF left' THEN "R" ELSE "L") = ch
    BY <1>1, <1>5
  <2> QED
    BY <1>5, <2>4, <2>9, <2>10
<1>6. CASE /\ clock > 0 /\ ~LrckMoves /\ clock < HalfPeriod /\ clock' = clock + 1
           /\ left' = left /\ lead' = lead /\ frame' = frame
  <2>1. clock' # 0
    BY <1>1, <1>6
  <2>2. (IF left' THEN "L" ELSE "R") = ch
    BY <1>6
  <2> QED
    BY <1>4, <1>6, <2>1, <2>2, Zenon
<1>7. CASE /\ clock > 0 /\ ~LrckMoves /\ clock >= HalfPeriod - 1 /\ clock' = 0
           /\ left' = ~left /\ lead' = lead /\ frame' = frame
  <2>1. ~(clock' > 0)
    BY <1>7
  <2> QED
    BY <1>5, <1>7, <2>1, Zenon
<1> QED
  BY <1>3, <1>6, <1>7, HalfPeriodMoves, Zenon

(* A word is sent bit by bit in its half period.                           *)
LEMMA SendInvStays ==
  ASSUME ClockInv, SendInv, SerialNext
  PROVE  SendInv'
<1>1. /\ DW \in Nat /\ Bits \in Nat /\ DW + 1 <= Bits
      /\ HalfPeriod \in Nat /\ HalfPeriod >= 8
      /\ clock \in 0 .. HalfPeriod /\ lead \in {0, 1}
  BY Edges DEF ClockInv
<1>2. \A n \in 0 .. DW : /\ FallingAt(n) \in Nat /\ FallingAt(n + 1) \in Nat
                         /\ FallingAt(n) + 8 <= FallingAt(n + 1)
  BY <1>1, Edges
<1>3. \A i \in Place : /\ i \in 1 .. Bits /\ i - 1 \in 0 .. DW /\ (i - 1) + 1 = i
                       /\ RisingAt(i) \in Nat /\ FallingAt(i - 1) \in Nat
                       /\ FallingAt(i - 1) + 4 <= RisingAt(i)
                       /\ RisingAt(i) + 4 <= FallingAt(i)
                       /\ FallingAt(i) \in Nat /\ FallingAt(i) <= HalfPeriod
  BY <1>1, Edges DEF Place
<1>4. /\ data_out_shift_reg' =
           IF LrckMoves /\ done_dac_channel_sync THEN Loaded
           ELSE IF BclkFalling THEN Shift(data_out_shift_reg, Low)
           ELSE data_out_shift_reg
      /\ serial_audio_out_data' = data_out_shift_reg[1]
      /\ sending' = IF LrckMoves THEN Loaded ELSE sending
      /\ sent' = IF LrckMoves THEN Silence
                 ELSE [i \in Place |-> IF clock + 1 = RisingAt(i) - lead
                                       THEN serial_audio_out_data ELSE sent[i]]
  BY DEF SerialNext, DataOut, CodecReads
<1>5. ~done_dac_channel_sync' => data_out_shift_reg' = Silence
  <2>1. SUFFICES ASSUME ~done_dac_channel_sync'  PROVE data_out_shift_reg' = Silence
    OBVIOUS
  <2>2. ~done_dac_channel_sync
    BY <2>1 DEF SerialNext, Next, DacEdge
  <2>3. data_out_shift_reg = Silence
    BY <2>2 DEF SendInv
  <2>4. Shift(Silence, Low) = Silence
    BY <1>1 DEF Shift, Silence, Place
  <2> QED
    BY <1>4, <2>2, <2>3, <2>4
<1>6. CASE clock = 0 /\ LrckMoves /\ clock' = 1 /\ lead' \in {0, 1}
  <2>1. data_out_shift_reg' = sending'
    <3>1. CASE done_dac_channel_sync
      BY <1>4, <1>6, <3>1
    <3>2. CASE ~done_dac_channel_sync
      <4>1. data_out_shift_reg = Silence /\ Loaded = Silence
        BY <3>2 DEF SendInv, Loaded, DacReadLeft, DacReadRight
      <4>2. Shift(Silence, Low) = Silence
        BY <1>1 DEF Shift, Silence, Place
      <4> QED
        BY <1>4, <1>6, <3>2, <4>1, <4>2
    <3> QED
      BY <3>1, <3>2
  <2>2. ASSUME NEW n \in 0 .. DW, FallsSeen(n)'  PROVE n = 0
    <3>1. SUFFICES ASSUME n # 0  PROVE FALSE
      OBVIOUS
    <3>2. FallingAt(n) \in Nat /\ FallingAt(0) + 8 <= FallingAt(n)
      BY <1>1, <3>1, Edges
    <3>3. FallingAt(n) - lead' < 1
      BY <1>6, <2>2 DEF FallsSeen
    <3> QED
      BY <1>6, <3>2, <3>3, Edges
  <2>3. \A i \in Place : i + 0 = i
    BY <1>1 DEF Place
  <2>4. \A i \in Place : ~(RisingAt(i) - lead' <= 1)
    BY <1>3, <1>6
  <2>5. ~(clock' >= 2) /\ clock' # 0
    BY <1>6
  <2>6. ASSUME NEW n \in 0 .. DW, FallsSeen(n)'
        PROVE  /\ \A i \in Place : i + n <= DW + 1 => data_out_shift_reg'[i] = sending'[i + n]
               /\ ~(clock' >= 2)
    BY <2>1, <2>2, <2>3, <2>5, <2>6
  <2> QED
    BY <1>5, <1>6, <2>4, <2>5, <2>6 DEF SendInv
<1>7. CASE /\ clock > 0 /\ ~LrckMoves /\ clock < HalfPeriod /\ clock' = clock + 1
           /\ lead' = lead
  <2>1. ASSUME NEW n \in 0 .. DW, FallsSeen(n)', NEW i \in Place, i + n <= DW + 1
        PROVE  data_out_shift_reg'[i] = sending'[i + n]
    <3>1. FallingAt(n) - lead <= clock /\ clock < FallingAt(n + 1) - lead
      BY <1>1, <1>2, <1>7, <2>1 DEF FallsSeen
    <3>2. CASE FallingAt(n) - lead < clock
      <4>1. FallsSeen(n)
        BY <1>1, <1>2, <3>1, <3>2 DEF FallsSeen
      <4>2. ~BclkFalling
        BY <1>1, <1>2, <1>7, <3>1, <4>1, EdgesSeen
      <4>3. data_out_shift_reg[i] = sending[i + n]
        BY <1>7, <2>1, <4>1 DEF SendInv
      <4> QED
        BY <1>4, <1>7, <4>2, <4>3
    <3>3. CASE FallingAt(n) - lead = clock
      <4>1. n # 0
        BY <1>1, <1>7, <3>3, Edges
      <4>2. n - 1 \in 0 .. DW /\ (n - 1) + 1 = n
        BY <1>1, <4>1
      <4>3. FallsSeen(n - 1)
        <5>1. FallingAt(n - 1) \in Nat /\ FallingAt(n) \in Nat
              /\ FallingAt(n - 1) + 8 <= FallingAt(n)
          BY <1>2, <4>2
        <5> QED
          BY <1>1, <3>3, <4>2, <5>1 DEF FallsSeen
      <4>4. BclkFalling
        BY <1>7, <3>3, <4>2, <4>3, EdgesSeen
      <4>5. /\ i # DW + 1 /\ i + 1 \in Place /\ (i + 1) + (n - 1) = i + n
            /\ (i + 1) + (n - 1) <= DW + 1
        BY <1>1, <2>1, <4>2 DEF Place
      <4>6. data_out_shift_reg[i + 1] = sending[(i + 1) + (n - 1)]
        BY <1>7, <4>2, <4>3, <4>5 DEF SendInv
      <4> QED
        BY <1>4, <1>7, <4>4, <4>5, <4>6 DEF Shift
    <3> QED
      BY <1>1, <1>2, <3>1, <3>2, <3>3
  <2>2. ASSUME NEW n \in 0 .. DW, FallsSeen(n)', FallingAt(n) - lead' + 1 < clock'
        PROVE  serial_audio_out_data' = sending'[n + 1]
    <3>1. FallsSeen(n)
      BY <1>1, <1>2, <1>7, <2>2 DEF FallsSeen
    <3>2. 1 \in Place /\ 1 + n <= DW + 1 /\ 1 + n = n + 1
      BY <1>1 DEF Place
    <3>3. data_out_shift_reg[1] = sending[1 + n]
      BY <1>7, <3>1, <3>2 DEF SendInv
    <3> QED
      BY <1>4, <1>7, <3>2, <3>3
  <2>3. ASSUME NEW i \in Place, RisingAt(i) - lead' <= clock'
        PROVE  sent'[i] = sending'[i]
    <3>1. CASE clock + 1 = RisingAt(i) - lead
      <4>1. FallsSeen(i - 1) /\ clock >= 2 /\ FallingAt(i - 1) - lead + 1 < clock
        BY <1>1, <1>3, <3>1 DEF FallsSeen
      <4>2. serial_audio_out_data = sending[(i - 1) + 1]
        BY <1>3, <1>7, <4>1 DEF SendInv
      <4> QED
        BY <1>3, <1>4, <1>7, <3>1, <4>2
    <3>2. CASE clock + 1 # RisingAt(i) - lead
      <4>1. RisingAt(i) - lead <= clock
        BY <1>1, <1>3, <1>7, <2>3, <3>2
      <4>2. sent[i] = sending[i]
        BY <1>7, <4>1 DEF SendInv
      <4> QED
        BY <1>4, <1>7, <3>2, <4>2
    <3> QED
      BY <3>1, <3>2
  <2>4. clock' # 0
    BY <1>1, <1>7
  <2> QED
    BY <1>5, <2>1, <2>2, <2>3, <2>4 DEF SendInv
<1>8. CASE clock > 0 /\ ~LrckMoves /\ clock >= HalfPeriod - 1 /\ clock' = 0
  <2>1. ASSUME NEW i \in Place
        PROVE  RisingAt(i) - lead <= clock /\ clock + 1 # RisingAt(i) - lead
    <3>1. /\ RisingAt(i) \in Nat /\ FallingAt(i) \in Nat
          /\ RisingAt(i) + 4 <= FallingAt(i) /\ FallingAt(i) <= HalfPeriod
      BY <1>3
    <3> QED
      BY <1>1, <1>8, <3>1
  <2>2. \A i \in Place : sent[i] = sending[i]
    BY <1>8, <2>1 DEF SendInv
  <2>3. sending = [i \in Place |-> sending[i]]
    BY DEF ClockInv, Register
  <2>4. sent' = sending'
    BY <1>4, <1>8, <2>1, <2>2, <2>3
  <2>5. ~(clock' > 0)
    BY <1>8
  <2> QED
    BY <1>5, <2>4, <2>5 DEF SendInv
<1> QED
  BY <1>6, <1>7, <1>8, HalfPeriodMoves, Zenon

(* After a reset nothing has been received, and all is silence.            *)
LEMMA InitSerialInv ==
  ASSUME SerialInit
  PROVE  SerialInv
<1>1. /\ left \in BOOLEAN /\ clock \in 0 .. HalfPeriod /\ lead \in BclkLeads
      /\ ~done_adc_channel_sync /\ ~done_dac_channel_sync
      /\ data_in_shift_reg = Silence /\ data_out_shift_reg = Silence
      /\ serial_audio_out_data = Low /\ sending = Silence /\ sent = Silence
  BY DEF SerialInit, Init
<1>2. ClockInv
  BY <1>1, SerialAssumption DEF ClockInv, Register, Silence
<1>3. ReceiveInv
  BY <1>1 DEF ReceiveInv
<1>4. SendInv
  <2>1. \A i \in Place : Silence[i] = Low
    BY DEF Silence
  <2>2. \A n \in 0 .. DW : n + 1 \in Place
    BY Edges DEF Place
  <2>3. \A n \in 0 .. DW : \A i \in Place : i + n <= DW + 1 => i + n \in Place
    BY Edges DEF Place
  <2> QED
    BY <1>1, <2>1, <2>2, <2>3 DEF SendInv
<1> QED
  BY <1>2, <1>3, <1>4 DEF SerialInv

(* The three parts together.                                               *)
LEMMA StepSerialInv ==
  ASSUME SerialInv, [SerialNext]_<<vars, serialVars>>
  PROVE  SerialInv'
<1>1. CASE SerialNext
  BY <1>1, ClockInvStays, ReceiveInvStays, SendInvStays DEF SerialInv
<1>2. CASE UNCHANGED <<vars, serialVars>>
  <2>1. UNCHANGED <<left, clock, frame, lead, done_adc_channel_sync,
                    done_dac_channel_sync, bit_counter, counting, data_in_shift_reg,
                    data_out_shift_reg, serial_audio_out_data, sending, sent>>
    BY <1>2 DEF vars, lrckVars, adcVars, dacVars, serialVars
  <2>2. ClockInv'
    BY <2>1 DEF SerialInv, ClockInv, Register
  <2>3. ReceiveInv'
    BY <2>1 DEF SerialInv, ReceiveInv, FallsSeen, RisesSeen, WordBits
  <2>4. SendInv'
    BY <2>1 DEF SerialInv, SendInv, FallsSeen
  <2> QED
    BY <2>2, <2>3, <2>4 DEF SerialInv
<1> QED
  BY <1>1, <1>2

(* The bits of every state.                                                *)
LEMMA SerialInvariance == SerialSpec => []SerialInv
BY InitSerialInv, StepSerialInv, PTL DEF SerialSpec

(* altera_up_audio_in_deserializer.v:188 - the word written to an ADC FIFO *)
(* is the whole word of its channel and frame, for every word length that  *)
(* the bit clock has room for, and however BCLK and LRCK are sampled.      *)
THEOREM WordsReceived == SerialSpec => []WordReceived
<1>1. SerialInv => WordReceived
  <2>1. SUFFICES ASSUME SerialInv, NEW c \in Channel, AdcWrite(c)
                 PROVE  data_in_shift_reg = WordBits(c, frame)
    BY DEF WordReceived
  <2>2. /\ clock = 0 /\ done_adc_channel_sync
        /\ c = IF left THEN "R" ELSE "L"
    BY <2>1 DEF AdcWrite, Rising, Falling, Channel
  <2> QED
    BY <2>1, <2>2 DEF SerialInv, ReceiveInv
<1> QED
  BY <1>1, SerialInvariance, PTL

(* altera_up_audio_out_serializer.v:163-176 - what the CODEC reads between *)
(* two edges of LRCK is the whole word that was popped for it, or silence. *)
THEOREM WordsSent == SerialSpec => []WordSent
<1>1. SerialInv => WordSent
  BY DEF SerialInv, SendInv, WordSent, LrckMoves, Rising, Falling
<1> QED
  BY <1>1, SerialInvariance, PTL

(* The bits do not disturb the stream: what is proved of AudioStream holds *)
(* of the words whose bits are modelled, too.                              *)
THEOREM SerialIsStream == SerialSpec => Spec
<1>1. SerialInit => Init
  BY DEF SerialInit
<1>2. [SerialNext]_<<vars, serialVars>> => [Next]_vars
  BY DEF SerialNext
<1> QED
  BY <1>1, <1>2, PTL DEF SerialSpec, Spec

=============================================================================
