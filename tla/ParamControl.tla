----------------------------- MODULE ParamControl -----------------------------
(***************************************************************************)
(* The settings of the reverberation: the endless loop of                  *)
(* software/app/src/app.c on the HPS, the switches and keys it reads, and  *)
(* the PIO registers through which its values reach the FPGA.              *)
(*                                                                         *)
(* Three parties share those registers: the user moves a switch or a key   *)
(* between any two accesses of the loop (so each access reads any value),  *)
(* the pin rst resets the FPGA side and leaves the program running, and a  *)
(* restart of the HPS starts the program over and leaves the FPGA side     *)
(* alone.                                                                  *)
(*                                                                         *)
(* A value is a fraction of full scale, pos / Scale(p): floats are rounded *)
(* only where the program comes to depend on it, in Float.                 *)
(***************************************************************************)
EXTENDS Integers, Sequences

CONSTANT Incr   \* how far one pass moves a value whose key is held

Param == {"MIX", "PREDELAY", "DECAY", "DAMPING"}

ASSUME IncrAssumption == Incr \in [Param -> Nat \ {0}]

VARIABLES
  pc,                \* the next access of the loop
  paramType, updateType,
  currentParamValue, \* the values, as pos
  pio,               \* the words in the PIO registers
  hex,               \* the words in the registers of the displays
  cleanPass,         \* no reset and no restart in this pass of the loop
  cleanRun           \* none since power-up

progVars == <<pc, paramType, updateType, currentParamValue>>
fpgaVars == <<pio, hex>>
cleanVars == <<cleanPass, cleanRun>>
vars == <<progVars, fpgaVars, cleanVars>>

-----------------------------------------------------------------------------
(* The values: 1000./1024 and 6./1024 of PREDELAY are exact in 1024ths,    *)
(* the limits of the others in 20ths.                                      *)
Scale(p) == IF p = "PREDELAY" THEN 1024 ELSE 20

(* Mutant of paramValueMIN: the shortest delay leaves the delay line fewer *)
(* cells than its pipeline.                                                *)
paramValueMINTooLow(p) ==
  CASE p = "PREDELAY" -> 5
    [] p = "DECAY" -> 5
    [] OTHER -> 0

paramValueMIN(p) ==
  CASE p = "PREDELAY" -> 6
    [] p = "DECAY" -> 5
    [] OTHER -> 0

paramValueMAX(p) ==
  CASE p = "PREDELAY" -> 1000
    [] p = "DECAY" -> 19
    [] OTHER -> 20

(* Mutant of CLAMP: no upper limit. *)
CLAMPLow(val, a, b) == IF val < a THEN a ELSE val

CLAMP(val, a, b) ==
  LET low == IF val < b THEN val ELSE b IN IF low > a THEN low ELSE a

(* The widths of the PIO registers, and what a reset puts there. *)
DATA_WIDTH(p) ==
  CASE p = "MIX" -> 24 [] p = "PREDELAY" -> 10 [] OTHER -> 25

RESET_VALUE(p) == IF p = "PREDELAY" THEN 5 ELSE 0

(* An integer of at most 25 bits as a float: 24 bits, ties to even.        *)
Float(n) ==
  IF n < 2^24 \/ n % 2 = 0 THEN n
  ELSE IF (n \div 2) % 2 = 0 THEN n - 1 ELSE n + 1

(* The word of a value: scaled by the greatest word as a float, truncated  *)
(* to an integer, and cut to the width of the register by the PIO.         *)
Word(p, pos) ==
  ((pos * Float(2^DATA_WIDTH(p) - 1)) \div Scale(p)) % 2^DATA_WIDTH(p)

(* Mutant of valueToDisplay: another sampling frequency. *)
valueToDisplay44100(p, pos) ==
  (IF p = "PREDELAY" THEN (1000 * 12 * pos) \div 44100
                     ELSE (100 * pos) \div Scale(p)) % 256

(* The number on the displays: milliseconds of the twelve lines for        *)
(* PREDELAY, per cent for the others; a uint8_t.                           *)
valueToDisplay(p, pos) ==
  (IF p = "PREDELAY" THEN (1000 * 12 * pos) \div 48000
                     ELSE (100 * pos) \div Scale(p)) % 256

(* The displays in the order in which they are written.                    *)
Displays == <<"HEX5", "HEX4", "HEX3", "HEX2", "HEX1", "HEX0">>

Display == {Displays[i] : i \in 1 .. 6}

(* The letters MI, PR, DE and DA as the program codes them: 10 for A.      *)
stringToDisplay(p) ==
  CASE p = "MIX" -> <<22, 18>> [] p = "PREDELAY" -> <<25, 27>>
    [] p = "DECAY" -> <<13, 14>> [] p = "DAMPING" -> <<13, 10>>

(* Mutant of ten: the hundreds are not taken off. *)
tenWhole(v) == v \div 10

hundred(v) == v \div 100

ten(v) == (v - 100 * hundred(v)) \div 10

unit(v) == (v - 100 * hundred(v) - 10 * ten(v)) % 256

Dash == 63

(* What the program writes to display d.                                   *)
Code(p, v, d) ==
  IF p = "NONE_PARAM" THEN Dash
  ELSE CASE d = "HEX5" -> stringToDisplay(p)[1]
         [] d = "HEX4" -> stringToDisplay(p)[2]
         [] d = "HEX3" -> 62
         [] d = "HEX2" -> hundred(v)
         [] d = "HEX1" -> ten(v)
         [] d = "HEX0" -> unit(v)

(* segDecod.vhd: the segments of a word, 0 for a lit one.                  *)
Off == \b1111111

Segments ==
  <<\b1000000, \b1111001, \b0100100, \b0110000, \b0011001, \b0010010,
    \b0000010, \b1111000, \b0000000, \b0010000,
    \b0001000, \b0000011, \b0100111, \b0100001, \b0000110, \b0001110,
    Off, \b0001011, \b1111001, \b1110001, Off, Off, \b1001000, \b0101011,
    \b0100011, \b0001100, \b0011000, \b0101111, \b0010010, Off, \b1000001,
    Off, Off, \b0001001, Off, Off>>

segDecod(valueIN) ==
  IF valueIN = Dash THEN \b0111111
  ELSE IF valueIN < 36 THEN Segments[valueIN + 1] ELSE Off

(* The switches select one parameter or none. *)
SelectedParam(s) ==
  CASE s = 1 -> "DAMPING" [] s = 2 -> "DECAY" [] s = 4 -> "PREDELAY"
    [] s = 8 -> "MIX" [] OTHER -> "NONE_PARAM"

SelectedUpdate(k) == CASE k = 2 -> 1 [] k = 1 -> -1 [] OTHER -> 0

-----------------------------------------------------------------------------
Init ==
  /\ pc = "readType" /\ paramType = "NONE_PARAM" /\ updateType = 0
  /\ currentParamValue = [p \in Param |-> paramValueMIN(p)]
  /\ pio = [p \in Param |-> RESET_VALUE(p)]
  /\ hex = [d \in Display |-> Dash]
  /\ cleanPass = TRUE /\ cleanRun = TRUE

ReadType(switches) ==
  /\ pc = "readType" /\ pc' = "readUpdate"
  /\ paramType' = SelectedParam(switches)
  /\ cleanPass' = TRUE
  /\ UNCHANGED <<updateType, currentParamValue, fpgaVars, cleanRun>>

ReadUpdate(keys) ==
  /\ pc = "readUpdate" /\ pc' = "MIX"
  /\ updateType' = SelectedUpdate(keys)
  /\ UNCHANGED <<paramType, currentParamValue, fpgaVars, cleanVars>>

(* Mutant of InitParam: one of the three writes is missing. *)
InitParamSkips ==
  /\ \/ pc = "MIX" /\ pc' = "DECAY"
     \/ pc = "DECAY" /\ pc' = "update"
     \/ pc = "DAMPING" /\ pc' = "update"
  /\ pio' = [pio EXCEPT ![pc] = Word(pc, currentParamValue[pc])]
  /\ UNCHANGED <<paramType, updateType, currentParamValue, hex, cleanVars>>

(* initParamValue, in every pass: one write to each of three registers.    *)
InitParam ==
  /\ \/ pc = "MIX" /\ pc' = "DECAY"
     \/ pc = "DECAY" /\ pc' = "DAMPING"
     \/ pc = "DAMPING" /\ pc' = "update"
  /\ pio' = [pio EXCEPT ![pc] = Word(pc, currentParamValue[pc])]
  /\ UNCHANGED <<paramType, updateType, currentParamValue, hex, cleanVars>>

(* Mutant of Update: the new value is kept and not written. *)
UpdateUnwritten ==
  /\ pc = "update" /\ pc' = "HEX5"
  /\ IF paramType \in Param
       THEN currentParamValue' =
              [currentParamValue EXCEPT ![paramType] =
                 CLAMP(@ + updateType * Incr[paramType],
                       paramValueMIN(paramType), paramValueMAX(paramType))]
       ELSE UNCHANGED currentParamValue
  /\ UNCHANGED <<pio, paramType, updateType, hex, cleanVars>>

(* updateParamValue up to its write. *)
Update ==
  /\ pc = "update" /\ pc' = "HEX5"
  /\ IF paramType \in Param
       THEN LET p == paramType
                value == CLAMP(currentParamValue[p] + updateType * Incr[p],
                               paramValueMIN(p), paramValueMAX(p))
            IN  /\ currentParamValue' = [currentParamValue EXCEPT ![p] = value]
                /\ pio' = [pio EXCEPT ![p] = Word(p, value)]
       ELSE UNCHANGED <<currentParamValue, pio>>
  /\ UNCHANGED <<paramType, updateType, hex, cleanVars>>

(* The rest of updateParamValue: one write to each of the six displays.    *)
ShowParam ==
  /\ \E i \in 1 .. 6 :
       /\ pc = Displays[i]
       /\ pc' = IF i = 6 THEN "readType" ELSE Displays[i + 1]
  /\ hex' = [hex EXCEPT ![pc] =
               Code(paramType,
                    IF paramType \in Param
                      THEN valueToDisplay(paramType, currentParamValue[paramType])
                      ELSE 0,
                    pc) % 64]
  /\ UNCHANGED <<paramType, updateType, currentParamValue, pio, cleanVars>>

Program ==
  \/ \E switches \in 0 .. 15 : ReadType(switches)
  \/ \E keys \in 0 .. 3 : ReadUpdate(keys)
  \/ InitParam
  \/ Update
  \/ ShowParam

(* The pin rst. *)
Reset ==
  /\ pio' = [p \in Param |-> RESET_VALUE(p)]
  /\ hex' = [d \in Display |-> Dash]
  /\ cleanPass' = FALSE /\ cleanRun' = FALSE
  /\ UNCHANGED progVars

(* The HPS starts the program over. *)
Restart ==
  /\ pc' = "readType" /\ paramType' = "NONE_PARAM" /\ updateType' = 0
  /\ currentParamValue' = [p \in Param |-> paramValueMIN(p)]
  /\ cleanPass' = FALSE /\ cleanRun' = FALSE
  /\ UNCHANGED fpgaVars

Next == Program \/ Reset \/ Restart

Spec == Init /\ [][Next]_vars

-----------------------------------------------------------------------------
TypeOK ==
  /\ pc \in Display \cup {"readType", "readUpdate", "MIX", "DECAY", "DAMPING", "update"}
  /\ paramType \in Param \cup {"NONE_PARAM"} /\ updateType \in -1 .. 1
  /\ \A p \in Param : /\ currentParamValue[p] \in paramValueMIN(p) .. paramValueMAX(p)
                      /\ pio[p] \in 0 .. 2^DATA_WIDTH(p) - 1
  /\ hex \in [Display -> 0 .. 63]
  /\ cleanPass \in BOOLEAN /\ cleanRun \in BOOLEAN

InSync(p) == pio[p] = Word(p, currentParamValue[p])

(* Whatever the program, the user and the two resets do, the delay lines   *)
(* of the first echo see a delay that fits them: at least the five samples *)
(* that the pipeline needs (delayLine.vhd:9-10), at most their Ns_max.     *)
PreDelayFits == pio["PREDELAY"] \in 5 .. 1000

(* At the end of a pass that nothing disturbed, three of the settings are  *)
(* those of the program, whatever resets and restarts came before, and so  *)
(* is the pre-delay if it was selected.                                    *)
RefreshedInAPass ==
  pc = "HEX5" /\ cleanPass =>
    \A p \in Param : p # "PREDELAY" \/ p = paramType => InSync(p)

(* PREDELAY is written only while it is selected.  Until the first reset   *)
(* or restart its register follows the program all the same, because the   *)
(* register powers up with the word of the value the program starts from.  *)
PreDelayFollows ==
  cleanRun => InSync("PREDELAY")

(* What the user sees on a display, the digits that look like it, and the  *)
(* parameters whose letters look like those on the two left displays.      *)
segOUT(d) == segDecod(hex[d])

ReadDigits(d) == {n \in 0 .. 9 : segDecod(n) = segOUT(d)}

ReadParams ==
  {p \in Param : /\ segDecod(stringToDisplay(p)[1]) = segOUT("HEX5")
                 /\ segDecod(stringToDisplay(p)[2]) = segOUT("HEX4")}

ReadNumbers ==
  {100 * h + 10 * t + u :
     h \in ReadDigits("HEX2"), t \in ReadDigits("HEX1"), u \in ReadDigits("HEX0")}

(* app.c:186-205, segDecod.vhd - at the end of a pass that nothing         *)
(* disturbed, the displays, written one by one and each after a reset on   *)
(* its own, can be read in one way only: the letters name the parameter    *)
(* that the keys moved, although some look like a digit or are dark, and   *)
(* the digits, none of them beyond 9, the number computed for it.          *)
DisplaysTell ==
  pc = "readType" /\ cleanPass =>
    IF paramType \in Param
      THEN /\ ReadParams = {paramType}
           /\ ReadNumbers =
                {valueToDisplay(paramType, currentParamValue[paramType])}
      ELSE ReadParams = {} /\ ReadNumbers = {}

(* The pre-delay on the displays is, to a millisecond, the one that the    *)
(* twelve lines of earlyReverb.vhd give, each one sample shorter than its  *)
(* currentN: four samples of a line are a millisecond.                     *)
ShownDelayIsTrue ==
  pc = "readType" /\ cleanPass /\ ReadParams = {"PREDELAY"} =>
    \A ms \in ReadNumbers : pio["PREDELAY"] - 1 - 4 * ms \in -4 .. 4

-----------------------------------------------------------------------------
(* What the source says of the settings. *)

(* app.h:39 - a setting can be raised up to its maximum, and the word the  *)
(* FPGA gets grows with it: what the key for more does never lowers it.    *)
MoreIsMore ==
  [][Update /\ paramType \in Param /\ updateType = 1 /\ InSync(paramType)
       => pio'[paramType] >= pio[paramType]]_vars

(* RAM.vhd:20-21 - an address stays within the RAM.  The lines of the near *)
(* echoes are built for 1000*12/50 samples and are asked for               *)
(* preDelay*12/50 + 5 (earlyReverb.vhd:82 and 87).                         *)
NearEchoFits == (pio["PREDELAY"] * 12) \div 50 + 5 <= (1000 * 12) \div 50

===============================================================================
