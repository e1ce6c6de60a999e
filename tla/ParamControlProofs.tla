-------------------------- MODULE ParamControlProofs --------------------------
(***************************************************************************)
(* The settings and displays are right whatever the user, the pin rst and  *)
(* restarts of the program do between any two accesses of the loop, and    *)
(* however far a pass moves a value.                                       *)
(***************************************************************************)
EXTENDS ParamControl, TLAPS

(* What the passes of the loop keep, besides the ranges: the places of the *)
(* loop at which the register of a parameter agrees with the program, and  *)
(* at which the displays have been written.                                *)
After(p) ==
  CASE p = "MIX"      -> Display \cup {"DECAY", "DAMPING", "update"}
    [] p = "DECAY"    -> Display \cup {"DAMPING", "update"}
    [] p = "DAMPING"  -> Display \cup {"update"}
    [] p = "PREDELAY" -> {}

AfterDisplay(d) ==
  CASE d = "HEX5" -> {"HEX4", "HEX3", "HEX2", "HEX1", "HEX0", "readType"}
    [] d = "HEX4" -> {"HEX3", "HEX2", "HEX1", "HEX0", "readType"}
    [] d = "HEX3" -> {"HEX2", "HEX1", "HEX0", "readType"}
    [] d = "HEX2" -> {"HEX1", "HEX0", "readType"}
    [] d = "HEX1" -> {"HEX0", "readType"}
    [] d = "HEX0" -> {"readType"}

(* The number that the program shows, 0 when no parameter is selected.     *)
Number ==
  IF paramType \in Param
    THEN valueToDisplay(paramType, currentParamValue[paramType])
    ELSE 0

(* Each register agrees with the program from where a clean pass wrote it. *)
RegistersAgree ==
  cleanPass =>
    \A p \in Param :
      pc \in After(p) \/ (p = paramType /\ pc \in Display \cup {"readType"})
        => InSync(p)

(* So does each display with what the program shows.                       *)
DisplaysAgree ==
  cleanPass =>
    \A d \in Display : pc \in AfterDisplay(d) => hex[d] = Code(paramType, Number, d) % 64

(* The inductive invariant.                                                *)
IInv ==
  /\ TypeOK
  /\ currentParamValue \in [Param -> Int] /\ pio \in [Param -> Int]
  /\ pio["PREDELAY"] \in 5 .. 999
  /\ RegistersAgree
  /\ DisplaysAgree
  /\ PreDelayFollows

-----------------------------------------------------------------------------
(* The values, their words and the numbers shown for them.                 *)

(* Each parameter has some range to move in.                               *)
LEMMA Limits ==
  ASSUME NEW p \in Param
  PROVE  /\ paramValueMIN(p) \in Nat /\ paramValueMAX(p) \in Nat
         /\ paramValueMIN(p) < paramValueMAX(p)
BY DEF Param, paramValueMIN, paramValueMAX

(* A clamped value is within its limits however far the keys moved it.     *)
LEMMA Clamped ==
  ASSUME NEW val \in Int, NEW a \in Int, NEW b \in Int, a <= b
  PROVE  CLAMP(val, a, b) \in a .. b
BY DEF CLAMP

(* A word fits the register of its parameter.                              *)
LEMMA WordFits ==
  ASSUME NEW p \in Param, NEW pos \in Int
  PROVE  Word(p, pos) \in 0 .. 2^DATA_WIDTH(p) - 1
<1>1. CASE p = "MIX"
  BY <1>1 DEF Word, DATA_WIDTH, Scale, Float
<1>2. CASE p = "PREDELAY"
  BY <1>2 DEF Word, DATA_WIDTH, Scale, Float
<1>3. CASE p \in {"DECAY", "DAMPING"}
  BY <1>3 DEF Word, DATA_WIDTH, Scale, Float
<1> QED
  BY <1>1, <1>2, <1>3 DEF Param

(* The word of a pre-delay is one less than its 1024ths: 5 to 999 samples. *)
LEMMA PreDelayWord ==
  ASSUME NEW pos \in 6 .. 1000
  PROVE  Word("PREDELAY", pos) = pos - 1
BY DEF Word, DATA_WIDTH, Scale, Float

(* The registers of a reset fit, and the pre-delay is the one the program  *)
(* starts from.                                                            *)
LEMMA ResetFits ==
  /\ \A p \in Param : RESET_VALUE(p) \in 0 .. 2^DATA_WIDTH(p) - 1
  /\ RESET_VALUE("PREDELAY") = 5
  /\ Word("PREDELAY", paramValueMIN("PREDELAY")) = 5
<1>1. Word("PREDELAY", paramValueMIN("PREDELAY")) = 5
  BY PreDelayWord DEF paramValueMIN
<1> QED
  BY <1>1 DEF RESET_VALUE, DATA_WIDTH, Param

(* The number of a value has three digits at most and fits a uint8_t.      *)
LEMMA NumberShown ==
  ASSUME NEW p \in Param, NEW pos \in paramValueMIN(p) .. paramValueMAX(p)
  PROVE  /\ valueToDisplay(p, pos) \in 0 .. 255
         /\ p = "PREDELAY" => valueToDisplay(p, pos) = pos \div 4
<1>1. CASE p = "PREDELAY"
  BY <1>1 DEF valueToDisplay, paramValueMIN, paramValueMAX
<1>2. CASE p # "PREDELAY"
  BY <1>2 DEF valueToDisplay, paramValueMIN, paramValueMAX, Param, Scale
<1> QED
  BY <1>1, <1>2

-----------------------------------------------------------------------------
(* The six displays in their order. *)
LEMMA DisplayFacts ==
  /\ Display = {"HEX5", "HEX4", "HEX3", "HEX2", "HEX1", "HEX0"}
  /\ Displays[1] = "HEX5" /\ Displays[2] = "HEX4" /\ Displays[3] = "HEX3"
  /\ Displays[4] = "HEX2" /\ Displays[5] = "HEX1" /\ Displays[6] = "HEX0"
<1>1. /\ Displays[1] = "HEX5" /\ Displays[2] = "HEX4" /\ Displays[3] = "HEX3"
      /\ Displays[4] = "HEX2" /\ Displays[5] = "HEX1" /\ Displays[6] = "HEX0"
  BY DEF Displays
<1>2. 1 .. 6 = {1, 2, 3, 4, 5, 6}
  OBVIOUS
<1> QED
  BY <1>1, <1>2 DEF Display

(* What ShowParam does at each display. *)
LEMMA ShowParamFacts ==
  ASSUME ShowParam
  PROVE  /\ pc \in Display
         /\ hex' = [hex EXCEPT ![pc] = Code(paramType, Number, pc) % 64]
         /\ UNCHANGED <<paramType, updateType, currentParamValue, pio, cleanVars>>
         /\ pc' \in AfterDisplay(pc) /\ pc' \in Display \cup {"readType"}
         /\ \A d \in Display : d # pc /\ pc' \in AfterDisplay(d) => pc \in AfterDisplay(d)
<1>1. PICK i \in 1 .. 6 :
        pc = Displays[i] /\ pc' = IF i = 6 THEN "readType" ELSE Displays[i + 1]
  BY DEF ShowParam
<1>2. i \in {1, 2, 3, 4, 5, 6}
  OBVIOUS
<1>3. \/ pc = "HEX5" /\ pc' = "HEX4"
      \/ pc = "HEX4" /\ pc' = "HEX3"
      \/ pc = "HEX3" /\ pc' = "HEX2"
      \/ pc = "HEX2" /\ pc' = "HEX1"
      \/ pc = "HEX1" /\ pc' = "HEX0"
      \/ pc = "HEX0" /\ pc' = "readType"
  BY <1>1, <1>2, DisplayFacts
<1>4. /\ hex' = [hex EXCEPT ![pc] = Code(paramType, Number, pc) % 64]
      /\ UNCHANGED <<paramType, updateType, currentParamValue, pio, cleanVars>>
  BY DEF ShowParam, Number
<1> QED
  BY <1>3, <1>4, DisplayFacts DEF AfterDisplay

(* A code is the number of a character, of six bits once it is stored.     *)
LEMMA CodeFits ==
  ASSUME TypeOK, NEW d \in Display
  PROVE  Code(paramType, Number, d) % 64 \in 0 .. 63
<1>1. Number \in 0 .. 255
  BY NumberShown DEF TypeOK, Number
<1>2. \A p \in Param : stringToDisplay(p)[1] \in 0 .. 63 /\ stringToDisplay(p)[2] \in 0 .. 63
  BY DEF Param, stringToDisplay
<1>3. Code(paramType, Number, d) \in Int
  BY <1>1, <1>2, DisplayFacts DEF TypeOK, Code, Dash, hundred, ten, unit
<1> QED
  BY <1>3

-----------------------------------------------------------------------------
(* At power-up the registers hold the words of a reset and the displays    *)
(* dashes, which is what the program would show without a parameter.       *)
LEMMA InitIInv == Init => IInv
<1> SUFFICES ASSUME Init PROVE IInv
  OBVIOUS
<1>1. TypeOK
  <2>1. \A p \in Param : currentParamValue[p] \in paramValueMIN(p) .. paramValueMAX(p)
    BY Limits DEF Init
  <2>2. hex \in [Display -> 0 .. 63]
    BY DEF Init, Dash
  <2> QED
    BY <2>1, <2>2, ResetFits DEF Init, TypeOK
<1>2. currentParamValue \in [Param -> Int] /\ pio \in [Param -> Int]
  BY Limits DEF Init, RESET_VALUE
<1>3. RegistersAgree
  BY DisplayFacts DEF Init, RegistersAgree, After, Param
<1>4. DisplaysAgree
  BY DEF Init, DisplaysAgree, Code, Dash
<1>5. pio["PREDELAY"] \in 5 .. 999 /\ PreDelayFollows
  BY ResetFits DEF Init, PreDelayFollows, InSync, Param
<1> QED
  BY <1>1, <1>2, <1>3, <1>4, <1>5 DEF IInv

(* The new value and word of Update. *)
LEMMA UpdateFacts ==
  ASSUME IInv, Update, paramType \in Param
  PROVE  \E value \in paramValueMIN(paramType) .. paramValueMAX(paramType) :
           /\ currentParamValue' = [currentParamValue EXCEPT ![paramType] = value]
           /\ pio' = [pio EXCEPT ![paramType] = Word(paramType, value)]
<1> DEFINE p == paramType
           value == CLAMP(currentParamValue[p] + updateType * Incr[p],
                          paramValueMIN(p), paramValueMAX(p))
<1>1. currentParamValue[p] + updateType * Incr[p] \in Int
  <2>1. currentParamValue[p] \in Int /\ updateType \in {-1, 0, 1} /\ Incr[p] \in Int
    BY IncrAssumption DEF IInv, TypeOK
  <2> QED
    BY <2>1
<1>2. value \in paramValueMIN(p) .. paramValueMAX(p)
  BY <1>1, Limits, Clamped
<1>3. /\ currentParamValue' = [currentParamValue EXCEPT ![p] = value]
      /\ pio' = [pio EXCEPT ![p] = Word(p, value)]
  BY DEF Update
<1> QED
  BY <1>2, <1>3

(* What a step does to the values and the registers: they change together, *)
(* the register alone in InitParam and Reset, the value alone in Restart.  *)
LEMMA StepTypeOK ==
  ASSUME IInv, Next
  PROVE  /\ TypeOK'
         /\ currentParamValue' \in [Param -> Int] /\ pio' \in [Param -> Int]
         /\ pio'["PREDELAY"] \in 5 .. 999
<1> USE DisplayFacts DEF Param
<1>1. /\ TypeOK /\ pio["PREDELAY"] \in 5 .. 999
      /\ currentParamValue \in [Param -> Int] /\ pio \in [Param -> Int]
  BY DEF IInv
<1>2. ASSUME NEW switches \in 0 .. 15, ReadType(switches)
      PROVE  TypeOK' /\ UNCHANGED <<currentParamValue, pio>>
  BY <1>1, <1>2 DEF TypeOK, ReadType, SelectedParam, fpgaVars
<1>3. ASSUME NEW keys \in 0 .. 3, ReadUpdate(keys)
      PROVE  TypeOK' /\ UNCHANGED <<currentParamValue, pio>>
  BY <1>1, <1>3 DEF TypeOK, ReadUpdate, SelectedUpdate, fpgaVars, cleanVars
<1>4. CASE InitParam
  <2>1. /\ pc \in {"MIX", "DECAY", "DAMPING"} /\ pc' \in {"DECAY", "DAMPING", "update"}
        /\ pio' = [pio EXCEPT ![pc] = Word(pc, currentParamValue[pc])]
        /\ UNCHANGED <<paramType, updateType, currentParamValue, hex, cleanVars>>
    BY <1>4 DEF InitParam
  <2>2. Word(pc, currentParamValue[pc]) \in 0 .. 2^DATA_WIDTH(pc) - 1
    BY <1>1, <2>1, WordFits
  <2>3. Word(pc, currentParamValue[pc]) \in Int
    BY <2>1, <2>2 DEF DATA_WIDTH
  <2>4. pio' \in [Param -> Int] /\ pio'["PREDELAY"] \in 5 .. 999
    BY <1>1, <2>1, <2>3
  <2>5. \A p \in Param : pio'[p] \in 0 .. 2^DATA_WIDTH(p) - 1
    BY <1>1, <2>1, <2>2 DEF TypeOK
  <2>6. /\ pc' \in Display \cup {"readType", "readUpdate", "MIX", "DECAY", "DAMPING", "update"}
        /\ currentParamValue' \in [Param -> Int]
        /\ UNCHANGED <<paramType, updateType, currentParamValue, hex, cleanPass, cleanRun>>
    BY <1>1, <2>1 DEF cleanVars
  <2>7. TypeOK'
    BY <1>1, <2>5, <2>6, Zenon DEF TypeOK
  <2> QED
    BY <2>4, <2>6, <2>7
<1>5. CASE Update
  <2>1. CASE paramType \in Param
    <3>1. PICK value \in paramValueMIN(paramType) .. paramValueMAX(paramType) :
            /\ currentParamValue' = [currentParamValue EXCEPT ![paramType] = value]
            /\ pio' = [pio EXCEPT ![paramType] = Word(paramType, value)]
      BY <1>5, <2>1, UpdateFacts
    <3>2. value \in Int /\ Word(paramType, value) \in 0 .. 2^DATA_WIDTH(paramType) - 1
      BY <2>1, Limits, WordFits
    <3>3. Word(paramType, value) \in Int
      BY <2>1, <3>2 DEF DATA_WIDTH
    <3>4. paramType = "PREDELAY" => Word(paramType, value) \in 5 .. 999
      BY PreDelayWord DEF paramValueMIN, paramValueMAX
    <3>5. /\ currentParamValue' \in [Param -> Int] /\ pio' \in [Param -> Int]
          /\ pio'["PREDELAY"] \in 5 .. 999
      BY <1>1, <2>1, <3>1, <3>2, <3>3, <3>4
    <3>6. \A p \in Param :
            /\ currentParamValue'[p] \in paramValueMIN(p) .. paramValueMAX(p)
            /\ pio'[p] \in 0 .. 2^DATA_WIDTH(p) - 1
      BY <1>1, <2>1, <3>1, <3>2 DEF TypeOK
    <3>7. /\ pc' \in Display
          /\ UNCHANGED <<paramType, updateType, hex, cleanPass, cleanRun>>
      BY <1>5 DEF Update, cleanVars
    <3> QED
      BY <1>1, <3>5, <3>6, <3>7 DEF TypeOK
  <2>2. CASE paramType \notin Param
    BY <1>1, <1>5, <2>2 DEF TypeOK, Update, cleanVars
  <2> QED
    BY <2>1, <2>2
<1>6. CASE ShowParam
  <2>1. /\ pc \in Display /\ pc' \in Display \cup {"readType"}
        /\ hex' = [hex EXCEPT ![pc] = Code(paramType, Number, pc) % 64]
        /\ UNCHANGED <<paramType, updateType, currentParamValue, pio, cleanPass, cleanRun>>
    BY <1>6, ShowParamFacts DEF cleanVars
  <2>2. hex' \in [Display -> 0 .. 63]
    BY <1>1, <2>1, CodeFits DEF TypeOK
  <2> QED
    BY <1>1, <2>1, <2>2 DEF TypeOK
<1>7. CASE Reset
  <2>1. \A p \in Param : RESET_VALUE(p) \in Int
    BY DEF RESET_VALUE
  <2>2. /\ hex' \in [Display -> 0 .. 63]
        /\ cleanPass' \in BOOLEAN /\ cleanRun' \in BOOLEAN
    <3>1. Dash \in 0 .. 63
      BY DEF Dash
    <3>2. hex' = [d \in Display |-> Dash] /\ ~cleanPass' /\ ~cleanRun'
      BY <1>7 DEF Reset
    <3>3. cleanPass' \in BOOLEAN /\ cleanRun' \in BOOLEAN
      BY <1>7 DEF Reset
    <3> QED
      BY <3>1, <3>2, <3>3
  <2>3. /\ pio' = [p \in Param |-> RESET_VALUE(p)]
        /\ UNCHANGED <<pc, paramType, updateType, currentParamValue>>
    BY <1>7 DEF Reset, progVars
  <2> QED
    BY <1>1, <2>1, <2>2, <2>3, ResetFits DEF TypeOK
<1>8. CASE Restart
  <2>1. /\ pc' = "readType" /\ paramType' = "NONE_PARAM" /\ updateType' = 0
        /\ cleanPass' \in BOOLEAN /\ cleanRun' \in BOOLEAN /\ UNCHANGED <<pio, hex>>
    BY <1>8 DEF Restart, fpgaVars
  <2>2. /\ currentParamValue' \in [Param -> Int]
        /\ \A p \in Param :
             currentParamValue'[p] \in paramValueMIN(p) .. paramValueMAX(p)
    BY <1>8, Limits DEF Restart
  <2> QED
    BY <1>1, <2>1, <2>2 DEF TypeOK
<1>9. CASE \/ \E switches \in 0 .. 15 : ReadType(switches)
           \/ \E keys \in 0 .. 3 : ReadUpdate(keys)
  BY <1>1, <1>2, <1>3, <1>9
<1> QED
  BY <1>4, <1>5, <1>6, <1>7, <1>8, <1>9 DEF Next, Program

(* A register that was written with the value of the program stays so: a   *)
(* value moves only together with its register.                            *)
LEMMA StepRegisters ==
  ASSUME IInv, Next
  PROVE  RegistersAgree'
<1> USE DisplayFacts DEF Param, InSync
<1>1. /\ TypeOK /\ RegistersAgree
      /\ currentParamValue \in [Param -> Int] /\ pio \in [Param -> Int]
  BY DEF IInv
<1>2. ASSUME NEW switches \in 0 .. 15, ReadType(switches) PROVE RegistersAgree'
  BY <1>2 DEF RegistersAgree, ReadType, After
<1>3. ASSUME NEW keys \in 0 .. 3, ReadUpdate(keys) PROVE RegistersAgree'
  BY <1>3 DEF RegistersAgree, ReadUpdate, After
<1>4. CASE InitParam
  BY <1>1, <1>4 DEF RegistersAgree, InitParam, After, cleanVars
<1>5. CASE Update
  <2>1. CASE paramType \in Param
    <3>1. PICK value \in paramValueMIN(paramType) .. paramValueMAX(paramType) :
            /\ currentParamValue' = [currentParamValue EXCEPT ![paramType] = value]
            /\ pio' = [pio EXCEPT ![paramType] = Word(paramType, value)]
      BY <1>5, <2>1, UpdateFacts
    <3> QED
      BY <1>1, <1>5, <2>1, <3>1 DEF RegistersAgree, Update, After, cleanVars
  <2>2. CASE paramType \notin Param
    BY <1>1, <1>5, <2>2 DEF RegistersAgree, Update, After, cleanVars
  <2> QED
    BY <2>1, <2>2
<1>6. CASE ShowParam
  BY <1>1, <1>6, ShowParamFacts DEF RegistersAgree, After, cleanVars
<1>7. CASE Reset \/ Restart
  BY <1>7 DEF RegistersAgree, Reset, Restart
<1> QED
  BY <1>2, <1>3, <1>4, <1>5, <1>6, <1>7 DEF Next, Program

(* The number on the displays changes only before they are written.        *)
LEMMA StepDisplays ==
  ASSUME IInv, Next
  PROVE  DisplaysAgree'
<1> USE DisplayFacts
<1>1. TypeOK /\ DisplaysAgree
  BY DEF IInv
<1>2. CASE \/ \E switches \in 0 .. 15 : ReadType(switches)
           \/ \E keys \in 0 .. 3 : ReadUpdate(keys)
           \/ InitParam
           \/ Update
  <2>1. pc' \in {"readUpdate", "MIX", "DECAY", "DAMPING", "update", "HEX5"}
    BY <1>2 DEF ReadType, ReadUpdate, InitParam, Update
  <2> QED
    BY <2>1 DEF DisplaysAgree, AfterDisplay
<1>3. CASE ShowParam
  <2>1. UNCHANGED <<cleanPass, paramType>> /\ Number' = Number
    BY <1>3, ShowParamFacts DEF Number, cleanVars
  <2>2. ASSUME cleanPass', NEW d \in Display, pc' \in AfterDisplay(d)
        PROVE  hex'[d] = Code(paramType, Number, d) % 64
    <3>1. hex' = [hex EXCEPT ![pc] = Code(paramType, Number, pc) % 64]
      BY <1>3, ShowParamFacts
    <3>2. d # pc => pc \in AfterDisplay(d)
      BY <1>3, <2>2, ShowParamFacts
    <3> QED
      BY <1>1, <2>1, <2>2, <3>1, <3>2 DEF DisplaysAgree, TypeOK
  <2>3. \A d \in Display : Code(paramType, Number, d)' = Code(paramType, Number, d)
    BY <2>1 DEF Code
  <2> QED
    BY <2>1, <2>2, <2>3 DEF DisplaysAgree
<1>4. CASE Reset \/ Restart
  BY <1>4 DEF DisplaysAgree, Reset, Restart
<1> QED
  BY <1>2, <1>3, <1>4 DEF Next, Program

(* Until the first disturbance the pre-delay has its word.                 *)
LEMMA StepFollows ==
  ASSUME IInv, Next
  PROVE  PreDelayFollows'
<1> USE DEF Param, InSync
<1>1. /\ TypeOK /\ PreDelayFollows
      /\ currentParamValue \in [Param -> Int] /\ pio \in [Param -> Int]
  BY DEF IInv
<1>2. CASE \/ \E switches \in 0 .. 15 : ReadType(switches)
           \/ \E keys \in 0 .. 3 : ReadUpdate(keys)
           \/ ShowParam
  BY <1>1, <1>2
    DEF PreDelayFollows, ReadType, ReadUpdate, ShowParam, fpgaVars, cleanVars
<1>3. CASE InitParam
  BY <1>1, <1>3 DEF PreDelayFollows, InitParam, cleanVars
<1>4. CASE Update
  <2>1. CASE paramType \in Param
    <3>1. PICK value \in paramValueMIN(paramType) .. paramValueMAX(paramType) :
            /\ currentParamValue' = [currentParamValue EXCEPT ![paramType] = value]
            /\ pio' = [pio EXCEPT ![paramType] = Word(paramType, value)]
      BY <1>4, <2>1, UpdateFacts
    <3> QED
      BY <1>1, <1>4, <2>1, <3>1 DEF PreDelayFollows, Update, cleanVars
  <2>2. CASE paramType \notin Param
    BY <1>1, <1>4, <2>2 DEF PreDelayFollows, Update, cleanVars
  <2> QED
    BY <2>1, <2>2
<1>5. CASE Reset \/ Restart
  BY <1>5 DEF PreDelayFollows, Reset, Restart
<1> QED
  BY <1>2, <1>3, <1>4, <1>5 DEF Next, Program

(* IInv is inductive. *)
LEMMA StepIInv == IInv /\ [Next]_vars => IInv'
<1>1. ASSUME IInv, Next PROVE IInv'
  <2>1. /\ TypeOK'
        /\ currentParamValue' \in [Param -> Int] /\ pio' \in [Param -> Int]
        /\ pio'["PREDELAY"] \in 5 .. 999
    BY <1>1, StepTypeOK
  <2>2. RegistersAgree' /\ DisplaysAgree' /\ PreDelayFollows'
    BY <1>1, StepRegisters, StepDisplays, StepFollows
  <2> QED
    BY <2>1, <2>2 DEF IInv
<1>2. ASSUME IInv, UNCHANGED vars PROVE IInv'
  <2> USE <1>2 DEF vars, progVars, fpgaVars, cleanVars
  <2>1. TypeOK'
    <3>1. /\ TypeOK
          /\ UNCHANGED <<pc, paramType, updateType, currentParamValue, pio, hex>>
          /\ UNCHANGED <<cleanPass, cleanRun>>
      BY DEF IInv
    <3>2. /\ pc' = pc /\ paramType' = paramType /\ updateType' = updateType
          /\ currentParamValue' = currentParamValue /\ pio' = pio /\ hex' = hex
          /\ cleanPass' = cleanPass /\ cleanRun' = cleanRun
      BY <3>1
    <3> QED
      BY <3>1, <3>2, Zenon DEF TypeOK
  <2>2. RegistersAgree'
    BY DEF IInv, RegistersAgree, InSync
  <2>3. Number' = Number
    BY DEF Number
  <2>4. DisplaysAgree'
    BY <2>3 DEF IInv, DisplaysAgree, Code
  <2>5. PreDelayFollows'
    BY DEF IInv, PreDelayFollows, InSync
  <2> QED
    BY <2>1, <2>2, <2>4, <2>5 DEF IInv
<1> QED
  BY <1>1, <1>2

(* IInv holds of every state of the program. *)
LEMMA IInvariance == Spec => []IInv
BY InitIInv, StepIInv, PTL DEF Spec

-----------------------------------------------------------------------------
(* What can be read off the displays. *)

(* No two digits look alike. *)
LEMMA DigitsDiffer ==
  ASSUME NEW m \in 0 .. 9, NEW n \in 0 .. 9, segDecod(m) = segDecod(n)
  PROVE  m = n
<1>1. /\ segDecod(0) = \b1000000 /\ segDecod(1) = \b1111001
      /\ segDecod(2) = \b0100100 /\ segDecod(3) = \b0110000
      /\ segDecod(4) = \b0011001 /\ segDecod(5) = \b0010010
      /\ segDecod(6) = \b0000010 /\ segDecod(7) = \b1111000
      /\ segDecod(8) = \b0000000 /\ segDecod(9) = \b0010000
  BY DEF segDecod, Segments, Dash
<1> QED
  BY <1>1

(* Neither is one a dash. *)
LEMMA DashIsNoDigit ==
  ASSUME NEW n \in 0 .. 9
  PROVE  segDecod(n) # segDecod(Dash)
<1>1. n + 1 \in 1 .. 10 /\ segDecod(n) = Segments[n + 1]
  BY DEF segDecod, Dash
<1> QED
  BY <1>1 DEF segDecod, Segments, Dash

(* The letters of the parameters, two by two. *)
LEMMA LettersDiffer ==
  /\ \A p, q \in Param :
       /\ segDecod(stringToDisplay(p)[1]) = segDecod(stringToDisplay(q)[1])
       /\ segDecod(stringToDisplay(p)[2]) = segDecod(stringToDisplay(q)[2])
       => p = q
  /\ \A p \in Param : segDecod(stringToDisplay(p)[1]) # segDecod(Dash)
<1>1. /\ segDecod(22) = \b1001000 /\ segDecod(18) = \b1111001
      /\ segDecod(25) = \b0001100 /\ segDecod(27) = \b0101111
      /\ segDecod(13) = \b0100001 /\ segDecod(14) = \b0000110
      /\ segDecod(10) = \b0001000 /\ segDecod(Dash) = \b0111111
  BY DEF segDecod, Segments, Dash
<1>2. /\ stringToDisplay("MIX")[1] = 22 /\ stringToDisplay("MIX")[2] = 18
      /\ stringToDisplay("PREDELAY")[1] = 25 /\ stringToDisplay("PREDELAY")[2] = 27
      /\ stringToDisplay("DECAY")[1] = 13 /\ stringToDisplay("DECAY")[2] = 14
      /\ stringToDisplay("DAMPING")[1] = 13 /\ stringToDisplay("DAMPING")[2] = 10
  BY DEF stringToDisplay
<1> QED
  BY <1>1, <1>2 DEF Param

(* The digits of a number of at most three. *)
LEMMA Digits ==
  ASSUME NEW v \in 0 .. 255
  PROVE  /\ hundred(v) \in 0 .. 9 /\ ten(v) \in 0 .. 9 /\ unit(v) \in 0 .. 9
         /\ v = 100 * hundred(v) + 10 * ten(v) + unit(v)
BY DEF hundred, ten, unit

(* When the last display is written they show the parameter and the number *)
(* of the program, or six dashes.                                          *)
LEMMA DisplaysShow ==
  ASSUME IInv, pc = "readType", cleanPass
  PROVE  IF paramType \in Param
           THEN /\ hex["HEX5"] = stringToDisplay(paramType)[1]
                /\ hex["HEX4"] = stringToDisplay(paramType)[2]
                /\ hex["HEX2"] = hundred(Number)
                /\ hex["HEX1"] = ten(Number)
                /\ hex["HEX0"] = unit(Number)
           ELSE \A d \in Display : hex[d] = Dash
<1>1. \A d \in Display : hex[d] = Code(paramType, Number, d) % 64
  BY DisplayFacts DEF IInv, DisplaysAgree, AfterDisplay
<1>2. CASE paramType \in Param
  <2>1. Number \in 0 .. 255
    BY <1>2, NumberShown DEF IInv, TypeOK, Number
  <2>2. hundred(Number) \in 0 .. 9 /\ ten(Number) \in 0 .. 9 /\ unit(Number) \in 0 .. 9
    BY <2>1, Digits
  <2>3. stringToDisplay(paramType)[1] \in 0 .. 63 /\ stringToDisplay(paramType)[2] \in 0 .. 63
    BY <1>2 DEF Param, stringToDisplay
  <2>4. \A n \in 0 .. 63 : n % 64 = n
    OBVIOUS
  <2>5. paramType # "NONE_PARAM"
    BY <1>2 DEF Param
  <2> QED
    BY <1>1, <1>2, <2>2, <2>3, <2>4, <2>5, DisplayFacts DEF Code
<1>3. CASE paramType \notin Param
  BY <1>1, <1>3 DEF IInv, TypeOK, Code, Dash
<1> QED
  BY <1>2, <1>3

(* They can then be read in one way only. *)
LEMMA DisplaysRead ==
  ASSUME IInv, pc = "readType", cleanPass
  PROVE  IF paramType \in Param
           THEN ReadParams = {paramType} /\ ReadNumbers = {Number}
           ELSE ReadParams = {} /\ ReadNumbers = {}
<1>1. CASE paramType \in Param
  <2>1. /\ hex["HEX5"] = stringToDisplay(paramType)[1]
        /\ hex["HEX4"] = stringToDisplay(paramType)[2]
        /\ hex["HEX2"] = hundred(Number)
        /\ hex["HEX1"] = ten(Number)
        /\ hex["HEX0"] = unit(Number)
    BY <1>1, DisplaysShow
  <2>2. ReadParams = {paramType}
    BY <1>1, <2>1, LettersDiffer DEF ReadParams, segOUT
  <2>3. /\ hundred(Number) \in 0 .. 9 /\ ten(Number) \in 0 .. 9 /\ unit(Number) \in 0 .. 9
        /\ Number = 100 * hundred(Number) + 10 * ten(Number) + unit(Number)
    <3>1. Number \in 0 .. 255
      BY <1>1, NumberShown DEF IInv, TypeOK, Number
    <3> QED
      BY <3>1, Digits
  <2>4. /\ ReadDigits("HEX2") = {hundred(Number)}
        /\ ReadDigits("HEX1") = {ten(Number)}
        /\ ReadDigits("HEX0") = {unit(Number)}
    BY <2>1, <2>3, DigitsDiffer DEF ReadDigits, segOUT
  <2>5. ReadNumbers = {Number}
    BY <2>3, <2>4 DEF ReadNumbers
  <2> QED
    BY <1>1, <2>2, <2>5
<1>2. CASE paramType \notin Param
  <2>1. \A d \in Display : hex[d] = Dash
    BY <1>2, DisplaysShow
  <2>2. ReadParams = {}
    BY <2>1, DisplayFacts, LettersDiffer DEF ReadParams, segOUT
  <2>3. ReadDigits("HEX2") = {}
    BY <2>1, DisplayFacts, DashIsNoDigit DEF ReadDigits, segOUT
  <2>4. ReadNumbers = {}
    BY <2>3 DEF ReadNumbers
  <2> QED
    BY <1>2, <2>2, <2>4
<1> QED
  BY <1>1, <1>2

-----------------------------------------------------------------------------
(* Values, words and codes are in range for every step of the keys. *)
THEOREM TypeCorrect == Spec => []TypeOK
BY IInvariance, PTL DEF IInv

(* delayLine.vhd:9-10 - the delay lines of the first echo never see a      *)
(* delay that is too short for their pipeline or too long for their RAM.   *)
THEOREM PreDelayInRange == Spec => []PreDelayFits
<1>1. IInv => PreDelayFits
  BY DEF IInv, PreDelayFits
<1> QED
  BY <1>1, IInvariance, PTL

(* app.c:145-163 - after every undisturbed pass the settings agree with    *)
(* the program, whatever resets and restarts came before.                  *)
THEOREM PassRefreshes == Spec => []RefreshedInAPass
<1>1. IInv => RefreshedInAPass
  BY DisplayFacts DEF IInv, RegistersAgree, RefreshedInAPass, After, Param
<1> QED
  BY <1>1, IInvariance, PTL

(* app.c:167-180 - until the first disturbance so does the pre-delay,      *)
(* although initParamValue leaves it out.                                  *)
THEOREM PreDelayAgrees == Spec => []PreDelayFollows
BY IInvariance, PTL DEF IInv

(* app.c:186-205, segDecod.vhd - after every undisturbed pass the displays *)
(* name one parameter and one number, those of the program.                *)
THEOREM DisplaysAreRead == Spec => []DisplaysTell
<1>1. IInv => DisplaysTell
  BY DisplaysRead DEF DisplaysTell, Number
<1> QED
  BY <1>1, IInvariance, PTL

(* The milliseconds shown are those of the delay lines, to one.            *)
THEOREM ShownDelay == Spec => []ShownDelayIsTrue
<1>1. IInv => ShownDelayIsTrue
  <2> SUFFICES ASSUME IInv, pc = "readType", cleanPass, ReadParams = {"PREDELAY"},
                      NEW ms \in ReadNumbers
               PROVE  pio["PREDELAY"] - 1 - 4 * ms \in -4 .. 4
    BY DEF ShownDelayIsTrue
  <2>1. paramType = "PREDELAY" /\ ms = Number
    BY DisplaysRead
  <2> DEFINE pos == currentParamValue["PREDELAY"]
  <2>2. pos \in 6 .. 1000
    BY DEF IInv, TypeOK, Param, paramValueMIN, paramValueMAX
  <2>3. pio["PREDELAY"] = pos - 1
    <3>1. pio["PREDELAY"] = Word("PREDELAY", pos)
      BY <2>1 DEF IInv, RegistersAgree, InSync, Param
    <3> HIDE DEF pos
    <3> QED
      BY <2>2, <3>1, PreDelayWord
  <2>4. ms = pos \div 4
    BY <2>1, NumberShown DEF IInv, TypeOK, Number, Param
  <2>5. \A n \in 6 .. 1000 : (n - 1) - 4 * (n \div 4) \in -4 .. 4
    OBVIOUS
  <2> HIDE DEF pos
  <2> QED
    BY <2>2, <2>3, <2>4, <2>5
<1> QED
  BY <1>1, IInvariance, PTL

===============================================================================
