# A TLA+ model of reverbFPGA

reverbFPGA is a stereo reverberation for a DE1-SoC board. The audio CODEC of the
board sends 48 000 frames a second to the FPGA, VHDL modules delay, filter and mix
them, and a small C program on the processor of the chip (the HPS) turns switches
and keys into the settings of the reverberation. This directory models the parts
of it that keep state, checks them with TLC and proves the central ones with TLAPS.

## The system

| Component | Source | State it keeps | Operations | Here |
|---|---|---|---|---|
| Delay line | `hardware/delayLine.vhd`, `RAM.vhd` | state machine, pipeline registers, RAM, output register | one sample tick = pull, shift, end of pipeline, push; reset | `DelayLine`, `SampleDelay`, `DelayTap` |
| Audio stream | Qsys audio controller (`reverbFPGA_Qsys/synthesis/submodules`), `hardware/reverbFPGA.vhd` 293-307 | four FIFOs, registered fill levels, synchronisation flags, shift registers, bit counter | write and read of each FIFO, shift of each bit, at every clock | `AudioStream`, `SerialAudio` |
| Settings | `software/app/src/app.c`, `inc/app.h`, the PIO registers | `currentParamValue`, PIO words, displays | read switches, read keys, `initParamValue`, `updateParamValue`, reset, restart | `ParamControl` |
| Early reverb | `hardware/earlyReverb.vhd` | 12 + 7 delay lines | multi-tap weighted sum | `EarlyReverb`, `OutputMix` |
| Late reverb | `lateReverb.vhd`, `LFCF.vhd`, `APF.vhd`, `LPF.vhd`, `coefMult.vhd` | delay lines, filter registers | eight comb filters in parallel, four all-pass filters in series | each filter: `CombFilter`, `CombLines`, `AllPass`, `FixedPoint`; their sum: `OutputMix` |
| Mix and mono switch | `reverbFPGA.vhd` 349-378 | none | sums and products | `OutputMix`, `AudioStream` |
| CODEC initialisation | `app.c` 20-27, 73-143, `alt_i2c.c` | TX FIFO of the I2C controller, registers of the CODEC, LED | ten I2C writes, each may be aborted; restart | `CodecInit` |
| Displays | `segDecod.vhd` | none | code to segments | `ParamControl` |

`interface_AVST_proc.vhd` is used nowhere. `reverbFPGA_Qsys` outside the audio
controller and the PIO registers, `software/app/*/hwlib`, `software/spl_bsp` and
`hps_isw_handoff` are generated or vendored and not modelled.

**How they interact.** The CODEC writes each channel of a frame to an ADC FIFO. The
FIFO's `valid` is at once the sample tick of every delay line and filter of that
channel and the write enable of the DAC FIFO; the `ready` of the DAC FIFO is the read
enable of the ADC FIFO. Delay lines form chains: the output register of one is the
input of the next, read near the end of its shift. The HPS reaches the FPGA only
through PIO registers, of which `preDelayValue` is the port `currentN` of the twelve
lines of the first echo. The pin `rst` resets the FPGA side, PIO registers included; the
program is restarted independently of it.

**What is hard.** There are no threads to speak of, but everything is concurrent: a
pipeline that overwrites the memory it reads, fill levels one clock old, a CODEC clock
that drifts against the clock of the FPGA, settings that change in the middle of a
shift, resets of either side alone. There is no test bench in the repository; the
documentation is the comments.

**What makes each component correct.**

- Delay line: the RAM pipeline behaves as one atomic shift, no sample lost, doubled or
  reordered, whatever the ticks, delay changes and resets; addresses in range; always idle
  again `currentN + 1` edges after the tick's own; output = input of so many samples ago.
- Early reverb: however many lines an echo goes through, it comes out at its exact distance.
- Audio stream: no FIFO overflows or underflows, the loop around them never locks up, words are whole to the bit,
  left and right stay together, every sample ticks every line once, frames are played in order and in the end once
  each, and (documented) the output is one sample late.
- Settings: values and words in range, a delay that the lines can take, registers that agree
  with the program, displays that can be read and tell the truth.
- Filters: the sums of the fixed-point loops do not wrap in the extra bits they have, the loops
  do not grow beyond their gain, and cutting the output to a sample loses nothing; the sums behind them do not wrap either.
- CODEC initialisation: settings reach the CODEC only while it is silent, the output has power only on a
  complete configuration, and (documented) an error shows on the LED.

## The modules

| Module | What it is |
|---|---|
| `SampleDelay` | abstract specification of a delay line: `line`, `out`, `phase`, `len`; actions `Take`, `Renew`, `Store`, `Abort` |
| `DelayLine` | `delayLine.vhd` and `RAM.vhd`, one step per rising edge of `clk50M` |
| `MCDelayLine`, `DelayLine.cfg` | its instance for TLC |
| `DelayLineProofs` | type correctness, pipeline, RAM ports and timing of `DelayLine`, and that it implements `SampleDelay`, proved |
| `DelayTap` | `SampleDelay` with a history of what was stored, to say what delay is heard |
| `EarlyReverb`, `MCEarlyReverb`, `EarlyReverb.cfg` | the chain of delay lines of `earlyReverb.vhd`, with `DelayTap` as its first line; each line behind it is a `SampleDelay` (`Line(j)`) |
| `EarlyReverbProofs` | all properties of `DelayTap` and of the chain, proved, and that every line of the chain implements `SampleDelay` |
| `AudioStream` | the FIFOs and the loop around them, one step per clock |
| `AudioStreamProofs` | all its safety properties and those of `SerialAudio`, proved |
| `SerialAudio`, `MCAudioStream`, `AudioStream*.cfg` | `AudioStream` with the bits of its words, and the instance of both |
| `ParamControl`, `MCParamControl`, `ParamControl*.cfg` | program, user, resets and PIO registers, one step per access |
| `ParamControlProofs` | its properties that hold, proved |
| `FixedPoint`, `FixedPointProofs` | `coefMult.vhd` and the operations of `numeric_std` on words of any full scale, and what is proved of them and of `OutputMix` |
| `AllPass`, `MCAllPass`, `AllPass.cfg`, `AllPassProofs` | `APF.vhd`: the sums around an instance of `SampleDelay` |
| `CombLoop` | the sums of `LFCF.vhd` and of the `LPF.vhd` in its loop |
| `CombFilter`, `MCCombFilter`, `CombFilter.cfg` | the loop around its delay, taken as one queue |
| `CombLines`, `MCCombLines`, `CombLines.cfg` | the loop around its two delay lines, two instances of `SampleDelay` |
| `CombFilterProofs` | the properties of `CombFilter`, and that `CombLines` implements it, proved |
| `OutputMix` | the sums between the filters and the output |
| `CodecInit`, `CodecInit*.cfg` | `initAudioCODEC_I2C` against the I2C bus and restarts (closed, so it is its own instance) |
| `CodecInitProofs` | its safety properties, proved |

### DelayLine

The variables are the signals and process variables of `delayLine.vhd` under their own
names, and `ram_block`, `rd_data` of `RAM.vhd`. `Clock(rst, data_sampled_valid, dataIN,
currentN)` is one rising edge: `RamEdge` (a synchronous write, a read of the old word)
together with the one branch of the `case` that the state selects: `Wait` and `Sample`
for `idle`, `PullAddress` and `PullOutput` for `pull`, `Shift`, `EndPipeline`, `Push`, or
`Reset`. All input ports take any value at every edge. `dataSize` is abstracted: a sample is
an element of `Value`. `rd_data` and `ram_block` have no reset and start with anything.

`CurrentNs \subseteq 5 .. Ns_max` is the obligation of whoever drives the port: the VHDL
range of `currentN` is 5 to 1000 for every line, whatever its length. `ParamControl` checks it for
the first echo (`PreDelayFits`, holds) and the near echoes (`NearEchoFits`, does not).

The refinement mapping reads the line back from a RAM in the middle of a shift. `Merged` is
the RAM with the write on its port landed; the cells from `ShiftedFromAddr` on have
been copied already, so `LineBeforeShift` takes their old sample from one cell above and that of
the last one from `dataOUT`. The shift then happens, for `SampleDelay`, in the one edge `Push`,
and a reset amid the shift is `Abort(a)`: the cells from `a` on have moved, the others have not.

### DelayTap

`past[i]` is the i-th newest sample stored, `pastLen[i]` the cells in use when it was. `ExactDelay` says that
when the newest `len` samples all went into a line of at least `len` cells, the output becomes the
sample stored `len = currentN - 1` samples ago: at once after a delay was shortened,
`len` samples after it was lengthened (before that, old cells are heard again).
An aborted shift sets `pastLen` of what it moved to 0: nothing is promised of it.

### EarlyReverb

Line 1 of the chain is `DelayTap`; the lines behind it are `chain[j]`, with their output registers and their cells in use. One action is one
phase of all of them: `EarlyTake`, `EarlyRenew`, `EarlyStore`. As the VHDL connects them, line `j` stores the output that line `j-1` gave at this tick.
`EarlyReset(k, dataIN)` is a reset after `k` writes of the shift: a line of `m` cells is done when `k >= m` and stops amid its shift when not (`Written`).
A single sample is 1, the rest are 0: the chain only moves samples. `age` counts the ticks since that one, `steady` the samples
since the last change of the delay or reset. The near-echo lines have a length of their own (`built`) and a delay that
follows from that of the first echo (`asked`); `Line(j)` is `SampleDelay` with both, and
`EveryLineIsADelayLine` what the common actions have to be for each line; delays that exceed the length are the defect `NearEchoFits` and excluded by `EarlyAssumption`.

### AudioStream

One step is one clock of `CLOCK_50`; a word is the number of the frame it was sampled
in, modulo `Frames`. The variables are the registers of the deserializer and
serializer per channel. `FifoEdge` is the vendor's `scfifo` with its output shown ahead: the
generated code only instantiates it, so the clocks by which its first word may lag
(`EmptyLags`, 0 to 2) and whether its output goes on to show the last word when it is empty (`Holds`, `Unspecified` if it does not)
are choices of the build. The design depends on both: the mono switch shows the right channel what the left FIFO, by then empty, still holds, and a
delay line reads its input when the FIFO is empty again. Properties that need the held word, or a lag of at most 1, say so in
their premise. LRCK has a half period of `HalfPeriod` or one more clock, from any
phase. The mono switch can move at every clock. The delay lines appear as counters `busy` of the length `BusyTime` gives them. A word
in the DAC FIFO is known by the frame of its dry part; the two or three words written for one frame differ in their wet part, because the filters move
between them, and once the FIFO is full only one of them gets in.

### SerialAudio

`AudioStream` composed with the shift registers, the bit counter and the CODEC, which is the master of both clocks. A bit is a
triple of channel, frame and place. BCLK is not a variable: its edges are due at fixed clocks of the half period (`RisingAt`, `FallingAt`).
The FPGA samples BCLK and LRCK by separate registers, so that the falling edge of BCLK that goes with an edge of LRCK is seen at the same clock
or one before it (`lead`): the CODEC moves LRCK after BCLK falls. One clock after it, which that order excludes, the serializer would
shift out the first bit of every word before it is read.

### OutputMix

`EightAdder` is the sum of eight signals in three extra bits, the `outputAdder` of `earlyReverb.vhd:50` behind the weights and of `lateReverb.vhd` behind the comb filters;
`sum_EarlyLate` and `dataOUT` are those of `reverbFPGA.vhd`. Nothing here keeps state, so there is nothing for TLC to run: the module exists to be proved about.

### ParamControl

One step is one access of the program to the FPGA. The user is not a process: `ReadType`
and `ReadUpdate` read any value of the switches and keys. `Reset` is the pin, `Restart` the processor. A
value is an integer number of 1024ths (PREDELAY) or 20ths of full scale, in which the limits of
`app.h` are exact (1e-9 counts as 0, both make the word 0), and `Incr` how far a key moves it in one pass;
the program's 3e-6 is much smaller than one of these units. `Word` is the scaling, the rounding of the
factor to single precision (`Float`) and the cut to the width of the PIO register. The six display registers are written one
after the other, each in a step of its own; `Code` is what the program writes, `segDecod` the table of `segDecod.vhd`.

### FixedPoint

A signed signal of `w` bits is a number of `Signed(h)`, `h = 2^(w-1)` its full scale; the modules are parameterised by
the full scale instead of the width, which need not be a power of two. `Wrap` is the addition of `numeric_std`,
`Resize` its cut to fewer bits (which keeps the sign bit), `Half` its division, which truncates towards zero, and
`coefMult` the product without its low bits, which truncates downwards.

### AllPass

The delay line is an instance of `SampleDelay`, which `DelayLine` is proved to implement, with samples two bits wider.
`SumInput`, `Sum1` and `Sum2` are the exact sums, the names of the VHDL the signals that hold them. `Store` takes any
sample, because the sums are combinational and the line reads them at the end of its shift. A reset aborts the shift and
leaves line and output as they are: `APF.vhd` has no other register.

### CombFilter and CombLines

`CombLoop` has the sums of the loop; what they are fed from is a variable of the modules that extend it.
In `CombFilter`, `FilterClock` is one clock with `valid`: the register of `LPF.vhd` moves. `Renew` and `Store` are those of the two delay lines, taken as
one queue. `Reset(moved)` clears the register and stops the queue where it is; what has moved by then is any set of cells, which is
more than two lines that stop at the same cell can do and costs the bounds on loudness nothing. The settings are read anew at every step. `MaxClocks` is three in the program, by `FewSteps` of
`AudioStream`.

`CombLines` has the two lines themselves, each with the state of a `SampleDelay` of `N / 2` samples: at the first clock of the tick both take it (`LinesClock`), both renew their output at
the same clock, and at the end of the shift the first stores the sum and the second what the first has just given. A reset finds
both at the same cell. `Queue` is `CombFilter` with the cells of the second line behind those of the first.

`Bounds` are the loudness levels `b` from which the loop does not grow: input, plus `b` weighted by the
decay, plus `Drift`, what the truncation of the filter's two products adds up to through its own feedback. The drift is
`1 + 1/(1-damping)` units: two or three at moderate damping, but as much as the full scale for a damping next to one.

### CodecInit

`alt_i2c_master_transmit` puts a word of two bytes into the TX FIFO of the controller and returns. `Acknowledge` and
`Abort` are the bus: after a missing acknowledge the controller flushes the FIFO and drops what is written to it
until it is reset (`alt_i2c.h:283-290`), which only `alt_i2c_init` does, at the next start of the program. A byte pair cut off by an abort or by the reset of the
controller may have reached the CODEC or not (`HeadMayLand`). `Restart` can come at every step, up to `MaxRestarts`; neither controller nor CODEC notices it.
`alt_i2c_init` then finds the controller enabled and disables it before the reset. That this ends within its 8192 polls (`ALT_I2C_MAX_T_POLL_COUNT`) is an
assumption: a word takes about half a millisecond on the bus. The exit `ALT_E_TMO` (`alt_i2c.c:402-410`) is not modelled; after it the controller would not be reset.

## The runs

| Run | States | What it shows |
|---|---|---|
| `delay_line` | 7 684 | five properties below, `Ns_max` = 7 |
| `delay_tap` | 518 037 | five properties, two lines and a near-echo line |
| `all_pass` | 40 897 | three properties, a line of 4 cells, full scale 8 |
| `comb_filter` | 2 845 139 | four properties, two cells, full scale 32 |
| `audio_stream` | 321 174 | thirteen properties, two of them liveness; FIFOs of 4 words, half period 25 |
| `param_control` | 7 918 628 | six properties |
| `codec_init` | 2 286 | four properties, one of them liveness, two restarts |
| `audio_offset`, `audio_input` | | two comments of the source that the code does not live up to |
| `param_near_echo`, `param_more`, `codec_led` | | three defects |

**Bounds.** A line of 7 is the shortest in which `shift` runs once, twice and three times
(delays 5, 6, 7) and a cell stays unused; two samples suffice because every property compares two cells, and
the RAM starts with every content. The early reverb has two lines for the first echo and one
for the second, so an echo passes from a line to its like and to a shorter one. Of the delays 5 and 11 the first makes the near-echo line the longer of the two kinds, the second the shorter,
so a reset can stop either of them with the other done; two disturbances allow a delay that grows and shrinks again, a reset amid that, and two resets in a row.
FIFOs of 4 words fill within the run, and `Frames` = Depth + 2 numbers tell all the words in
flight apart. A half period of 25 clocks with 3 bits leaves 8 clocks a bit, the code about 16; words of 2 bits are followed by one bit of no word, as 24 are by 8. `LineBusy`
holds the shortest, a middle and the longest delay the period admits (the code's 1001 clocks of 1041
lie below it). `MCIncr` moves a value over its range in a few passes, by steps that do not divide it. Both resets may come at every step.
The filters run to their fixpoints: the words are so few that TLC reaches every state of the loop, not only some samples of it. Their inputs are the two loudest samples
for which all the properties have something to say; louder input, other settings and real word lengths are the business of the proofs.
The comb filter's 16 of 32 with a decay of 17/32 brings the loop beyond the full scale of the samples, where the output gain matters. Two restarts
of `CodecInit` let a complete, a cut off and an aborted initialisation follow each other in any order. Its cfg switches the deadlock check off: after the initialisation this
part of the program is over, and the loop of `ParamControl` follows.

**delay_line.** `TypeOK` is the ranges of the VHDL declarations; `PipelineInv` the three stages of the
pipeline; `NoReadDuringWrite` that no word is read at the edge that writes it; `BusyTime`
that each edge counts down; `ImplementsSampleDelay` the refinement.

**all_pass.** `LineIsBounded`: the line holds at most twice the loudest sample that ever comes in. `LoopFits`: none of the three sums
leaves its 26 bits. `OutputFits`: cutting the output to 24 bits is harmless for samples within 25/63 of full scale; it is not for louder ones.

**comb_filter.** `FilterFits`: the sum of `LPF.vhd`, which has no extra bit, needs none. `LoopFits`: the one extra bit of `LFCF.vhd` is enough under `Headroom`
(every sample up to a decay of one half). `LineIsBounded`: no history of samples, settings and resets makes the line louder than `Bounds` allow. `OutputFits`:
then the output is cut without loss. Under `Headroom` the loop of this instance stays near 37 (`H` = 64), so the run does not come to the corner where both the sample of the
line and the register of the filter are at full scale: for `FilterFits` that corner is covered by its theorem only.


**codec_init.** `SettingsWrittenQuietly` and `OutputOnlyConfigured` hold because an abort drops all the words after it; `EventuallyPlaying` is the liveness property below.

**delay_tap.** `CellsInv` and `ExactDelay` say of one line what is heard of it, `EchoesOnTime` of the chain: when as many samples as an echo
is late went by undisturbed, it is the sample of exactly that long ago, whatever the delay was before and wherever a reset stopped each line.
`EveryLineIsADelayLine`: a line behind the first one never does what a `SampleDelay` of its length could not, so what is known of a delay line is known of each of the nineteen.

**audio_stream.** `TypeOK` bounds the FIFOs and `NoAdcBacklog` says that no second word waits on the ADC side. `PlaysInOrder`: the CODEC plays every frame, in
order. With a lag of 2 this does not hold, because the first of the writes of a sample carries the word before and can take the last free place.
`EachFrameOnce`: frames are played two or three times at first, and in the end, with the FIFO full, once each.
`RightNeverUnderflows` and `Aligned` keep the channels together, in stereo and mono; with a lag of 2 the right one may be a frame early.
`EverySampleTicked` and
`OneTickPerSample` say that delay lines take each sample exactly once although `valid` is a level and lasts for two or three clocks, `LineTakesItsSample` that at the end
of the shift the FIFO still shows that sample,
`FewSteps` that `valid` never lasts for more than three clocks, a full DAC FIFO included. `NeverStalls`: the CODEC waits for both DAC FIFOs, the ADC side for room in them,
and none of the four waits for ever. `WordReceived` and `WordSent`: what enters a FIFO are the bits of one channel of one frame in their places, and what the CODEC reads are those of the word popped for it.

**param_control.** `PreDelayFits`: the register holds 5 to 1000 whatever happens. `RefreshedInAPass`: mix, decay and damping agree with
the program after every undisturbed pass. `PreDelayFollows`: so does the pre-delay until the first reset or
restart, because the PIO register powers up with the word of the program's first value.
`DisplaysTell`: once a pass has written the displays, their segments name the parameter selected and its value.
`ShownDelayIsTrue`: the milliseconds that the segments show are those of the lines, to one.

**What the code does otherwise than its comments say.** `OneSampleOffset`: the DAC FIFO gets two or three words
per sample and is drained of one, so the delay to the output grows to the depth of the FIFO. The run fixes a lag of 0 and a held word (`EmptyLags`, `Holds`), so that
nothing but these writes is to blame: frames 1 and 2 are written twice, frame 3 takes the last of the four places, and at that moment the CODEC is about to be sent its frame 1 once more.
`InputReadWhileValid`: a line reads its input at the end of its shift.
`NearEchoFits`: pre-delays of 984 to 999 make the near-echo delay 241 to 244 samples in lines built for 240. `MoreIsMore`: at damping 1.0 the word wraps to 0.
`LedOnError`: the status that `CHECK_ERROR` looks at is that of queueing a word, so a word that the CODEC does not acknowledge leaves the LED off.

Four more were met on the way and have no run. `LPF.vhd:45` calls its register a shift of one sample, and it moves at every
clock of `valid`, two or three times a sample. `app.h:58` calls `initParamValue` the initialisation of the settings, and it leaves the
pre-delay out: after a reset or restart that register disagrees with the program until the user selects it.
`earlyReverb.vhd:18` gives the total delay as the value times the number of lines; it is `12 * (currentN - 1)` samples, as `ExactDelay` says of each line and `EchoesOnTime` of the chain.
`lateReverb.vhd:30` lists the lengths of the comb filters, of which `LFCF.vhd` gives each of its two lines half: the loop has two samples less than its length, the odd ones three (`LinesAreOneQueue`).

**Fairness.** `codec_init` assumes weak fairness of `Program` (it waits for nothing but room in a FIFO that has it) and of `Bus` (the controller sends or aborts what it holds).
Neither outcome of a transmission is assumed to happen. `EventuallyPlaying` then says that, restarts being finitely many, the output is on and configured for good or the last initialisation was aborted. `audio_stream` assumes weak fairness of its one step, the clock: `CLOCK_50` and the clocks of the CODEC run. `NeverStalls` and `EachFrameOnce` need no more, because
everything else in the FPGA is decided by that step. All other runs check safety properties and assume
no fairness. That a shift ends is stated as the countdown `BusyTime`, which needs none: the clock either runs or it does not.

## The proofs

Of the delay line, from `NsMaxAssumption` (`Ns_max` at least 5) and `CurrentNsAssumption` (delays fit the line), for any
`Value`:

- `TypeOK` is not inductive: that `read_addr_pipeline - 1`, `currentN_valid - 3` and the write addresses stay in range
  depends on where in the shift the line is. `IInv == TypeOK /\ PipelineInv` is. `PipelineInv` says of each state where `rd_addr`, `rd_data` and the write port are
  relative to the next address, and that the write carries the sample of the cell below. From it follow
  `TypeCorrect`, `PipelineInOrder`, `ReadsAvoidWrites` and, step by step, `BusyTimeHolds`.
- `Refinement`: under `IInv`, each edge of the shift moves the border `ShiftedFromAddr` down by one and lands one
  write (`BorderMoves`, shown for `Shift` and `EndPipeline`); `BorderEdge` shows that such an edge leaves
  `LineBeforeShift` unchanged, `ShiftedLine` that what is in the RAM is the line shifted from the border
  on, which gives `Push` (`Store`) and `Reset` (`Abort`).
- `CellsInOrder`, `DelayIsExact`: `TapTypeOK /\ CellsInv` is inductive; the interesting step is `StoreCells`, where the
  cell and its place in the history move together.

Of the chain, for every number of lines and echoes, every ratio and every set of delays that the lines are built for (`EarlyAssumption`):
`EchoesOnTime` speaks of outputs at one phase, so `ChainInv` says of every cell of every line how far it is behind the input (`Distance`) and that it holds the sample of that long ago, once so many
samples went through undisturbed (`CellsOnTime`), and of every output the same (`OutputsOnTime`). In `StoreChain` a sample moves to the next cell or, from an output,
to the first cell of the next line, and gets a tick older either way. `LengthsInv` ties the cells in use to the delay of the tick. That no sample in the chain is older than the bound of `age` and `steady` can tell needs
`LongestDelayFacts`: the longest delay exists, because the lines are built with a length. The induction along the chain is in the formula, which speaks of all lines at once, so no induction over data is needed.
`ChainBeginsWithATap` carries the theorems about `DelayTap` over to the chain.
Of the lines behind the first, `BehindInv` says that what they hold and give are samples and that they use no more cells than they were built with; with it, a step of the chain is one of `Line(j)` for every `j`:
a reset after `k` writes is a `Store` for a line of at most `k` cells, an `Abort` for a longer one (`ResetOfLine`). `EveryLineIsOne` states it of all lines, `LineIsADelayLine` of one, as the refinement `EarlySpec => Line(j)!Spec`.

Of the filters, for every even full scale, length, input and setting:

- `FixedPointProofs`: `BlendFits`, that two signals weighted by a coefficient and its complement fit their own bits. The coefficients add up to one unit less than
  one, so the sum stays a unit inside full scale, and that unit pays for the two truncations: the worst case is exactly the lowest number. It is the sum of `LPF.vhd` and the dry/wet mix of `reverbFPGA.vhd`.
  Of the sums of `OutputMix`, `MeanFits` bounds the sum of eight numbers and its division, from which `EightNeverWrap` and, with the bound of a product by a coefficient, `EarlyNeverWraps`. The early and the late reverb add
  up in one extra bit, their mean is a sample again, and `BlendFits` makes the mix with the dry sample exact: `OutputNeverWraps`.
- `AllPassProofs`: `LoopFits` is not inductive. `IInv` is: for every `b` that bounds the input, line and output stay within `2b`. A new cell is
  `x + x/2 + (out - x)/2`, that is `x + out/2` but for truncation, which is towards zero (`SumsFit`). `SumsNeverWrap` takes the full scale for `b`, `OutputIsIntact` the largest `b` below 25/63 of it.
- `CombFilterProofs`: `TypeOK` is inductive thanks to `BlendFits`, and gives `FilterNeverWraps` and `LoopNeverWraps`. For `LineBounded` the invariant is, for each `b` of `Bounds`, that line and output of the line are within `b` and the register of the
  filter within `b` and its drift, which no change of settings or reset can disturb; `OutputIsIntact` follows.
  `LinesAreOneQueue`, for every length of which half is a delay that a line can give (`LinesLength`): the two lines lose or double no sample between them and are together `2 * (N / 2 - 1)` samples long, so that the theorems about `CombFilter`, which hold for every number of cells, speak of the lines of the filter.
  `LinesInv` says that the two lines are always at the same place of the tick, and that after the renewal the output of the first line is its last cell, which the shift drops from it
  and puts at the head of the second (`StoreOfQueue`). In `ResetOfQueue` the set of cells moved is the end of either line.

Of the CODEC initialisation, for every number of restarts (`CodecInitProofs`): no single property is inductive. What is on its way to the CODEC is always a
section of the ten words in their order (`Section`), the registers of the CODEC have got as far as the words before that section say (`Stage`), and what the
program queues next goes on where the section ends, unless the controller drops it. An abort empties the section, a restart
begins a new one, and a word that is cut off may land or not: each of these keeps some `k` for which `IInv` holds. It gives `TypeCorrect`, `QuietSettings` and `ConfiguredOutput`.

Of the settings, for every step `Incr` by which a pass moves a value (`ParamControlProofs`): `IInv` says, of each place of the loop, which registers a pass without
reset or restart has written by then (`After`, `RegistersAgree`) and which displays (`AfterDisplay`, `DisplaysAgree`), and that the pre-delay register is between 5 and 999. Displays
are read one digit at a time; that the patterns of segments tell the digits apart, and letters from digits, is a matter of the table. `ShownDelay` needs the arithmetic of the
truncated word and of the rounded milliseconds. One correction of the model came from here: `Code` had a `CASE` of two
branches that both applied when no parameter is selected, whose value TLA+ leaves open and TLC takes from the first; it is now an `IF`, as in the program.

Of the audio stream, for every `Depth` of at least four words, every `HalfPeriod` of at least six clocks, every delay that fits it and every build of the `scfifo` (`AudioStreamProofs`), in three layers:

- `IInv`: everything that a sample sets in motion is over six clocks after the edge of LRCK that brought it, so each channel is either `Quiet` or `InFlight`, and in flight its registers are
  functions of `clock` (`SampleInv`). The registered free space is one clock old, which can only make it too large after a write; `SpaceInv` bounds it from the side
  that matters. The levels of the DAC FIFOs are what makes the proof: from an arbitrary phase of LRCK they go through `Fresh` and `LeftOnly` to `Both`, in which they follow each other through the frame:
  equal but for the word that waits (`BeforeLeft`), the left one ahead by what its sample wrote (`LeftLeads`), the right one catching up by the same
  (`RightCatchesUp`), both cut off at `Depth`. This gives `TypeCorrect`, `NoBacklog`, `RightFollows`, `NoSampleMissed`, `NoSampleTwice`, `StepsBounded` and `LineReadsItsSample`.
- `WordsInv`: a frame is written to its DAC FIFO as two or three pieces (the word shown before it, itself, the word held after it), of which a full FIFO refuses
  some. `MatchInv`: every right word stands beside its left word; `TailInv`: the left words without a partner yet are
  just the pieces that the right channel is still to write, with the same ones refused, because the levels are the same; `HeldInv` says what the ADC FIFOs show meanwhile, the mono switch included. `ChainInv`: the left
  FIFO, the word that plays included, ends with the newest frame and each of its words is the frame before it or the next. This gives `ChannelsAligned` and `FramesInOrder`.

- `SerialInv`, of the bits: BCLK is no variable, so the registers of the deserializer and serializer are stated as functions of the edges of BCLK that were seen since the edge of LRCK
  (`FallsSeen`, `RisesSeen`). `EdgesOfABit` gets from `HalfPeriod >= 8 * Bits` that a rising and a falling edge are at least four clocks apart, so that none is lost and neither of the two
  clocks by which the sampled edges may differ (`lead`) brings them out of order. It gives `WordsReceived` and `WordsSent` for every word length and every such ratio of the clocks.
  `SerialIsStream` shows that every behaviour of `SerialAudio` is one of `AudioStream`, whose theorems therefore hold of it.

The proof needs `Depth >= 4`, which `StreamAssumption` now states (the FIFOs have 128 words): with 2 or 3 words TLC finds `FewSteps`, `OneTickPerSample` and `Aligned`
violated, because the FIFO is full before the first sample has been written.
Both invariants were first checked by TLC, as invariants of the reachable states for 4 and 5 words and half periods of 6 and 7 clocks, `IInv` also from arbitrary states that satisfy it; `SerialInv`, and `ChainInv` of the early reverb, on the instances of their runs,
the latter also for three lines and three echoes.

Only model-checked: the three liveness properties `EventuallyPlaying`, `NeverStalls` and `EachFrameOnce`, which are out of the prover's reach. Every other property of a passing run is a theorem.
That `CombLines` implements `CombFilter` is a theorem without a run of its own; `tlc -config CombLines.cfg MCCombLines` checks it for length 11, the shortest odd one of which half is a delay that a line can give,
in 264 182 states: its samples take few values, so that every content of the eight cells is reached that the loop can produce.
No module has a recursive definition.

**Not modelled:** the four all-pass filters of the late reverb as a series. Its lengths (hundreds of samples) and the state of four coupled loops are beyond TLC; what
is proved of one all-pass filter holds for any input, so for each of the four, but no bound on the loudness of the last follows.
The moment between the reading of the switches and of the keys (`app.c:54`) is in the model, but no property forbids what it allows, because nothing in the repository says which parameter such a key is meant for.
The interconnect between processor and FPGA, `interface_AVST_proc.vhd`, and all generated and vendored code (register headers and drivers of the processor, U-Boot, the calibration of its memory) are left out: they make up
all but a few hundred lines of the repository and contain nothing of this program's own logic.

## Plan

Done: `SampleDelay`, `DelayLine`, its proofs and refinement; `DelayTap`, `EarlyReverb` and their proofs; `AudioStream`, `SerialAudio` and their proofs; `ParamControl` and its proofs; `FixedPoint`, `AllPass`, `CombFilter`, `CombLines`, `OutputMix` and their proofs; `CodecInit` and its proofs.

Next, in this order:

1. A liveness run for `ParamControl`: a setting that is no longer touched reaches its register.
2. The series of all-pass filters, with a bound on its loudness that does not grow by a factor of two with each.
