---------------------------- MODULE CodecInitProofs ----------------------------
(***************************************************************************)
(* The initialisation of the CODEC is safe for every number of restarts.   *)
(* The argument: what is on its way to the CODEC is always a section of    *)
(* the ten words, in their order, and the registers of the CODEC have got  *)
(* as far as the words before that section say.                            *)
(***************************************************************************)
EXTENDS CodecInit, TLAPS

(* The CODEC has the words up to the k-th, or is at a word of an earlier   *)
(* initialisation if k = 1.                                                *)
Stage(k) ==
  /\ k \in 2 .. 10 => ~LineOutput
  /\ k \in 3 .. 9 => codec["ACTIVE_CONTROL"] = 0
  /\ k \in 10 .. 11 => codec["ACTIVE_CONTROL"] = 1
  /\ \A i \in 1 .. 6 : i + 2 < k =>
       codec[SettingWrites[i].register] = SettingWrites[i].word
  /\ OutputOnlyConfigured

(* The FIFO holds a section of the words, which begins with the k-th.      *)
Section(k) ==
  /\ k + Len(fifo) <= 11
  /\ \A i \in 1 .. Len(fifo) : fifo[i] = Writes[k + i - 1]

(* What the program queues next goes on where the section ends, unless the *)
(* controller drops it.                                                    *)
IInv ==
  /\ TypeOK
  /\ aborted => fifo = <<>>
  /\ \E k \in 1 .. 11 :
       /\ Stage(k)
       /\ Section(k)
       /\ pc = "transmit" /\ ~aborted => k + Len(fifo) = next

-----------------------------------------------------------------------------
(* The six settings, one by one.                                           *)
LEMMA SettingFacts ==
  /\ Len(SettingWrites) = 6
  /\ \A i \in 1 .. 6 : /\ SettingWrites[i].register \in Settings
                       /\ SettingWrites[i].word \in Nat
  /\ \A i, j \in 1 .. 6 :
       SettingWrites[i].register = SettingWrites[j].register => i = j
BY DEF SettingWrites, Write, Settings

(* The ten words, one by one.                                              *)
LEMMA WritesFacts ==
  /\ Len(Writes) = 10 /\ Call = 1 .. 10
  /\ Writes[1] = Write("POWER_DOWN_CONTROL", 114)
  /\ Writes[2] = Write("ACTIVE_CONTROL", 0)
  /\ \A i \in 3 .. 8 : Writes[i] = SettingWrites[i - 2]
  /\ Writes[9] = Write("ACTIVE_CONTROL", 1)
  /\ Writes[10] = Write("POWER_DOWN_CONTROL", 98)
BY DEF Call, Writes, SettingWrites, Write

(* The words are for registers of the CODEC, and only the third to the     *)
(* eighth are settings.                                                    *)
LEMMA WritesType ==
  \A i \in Call : /\ Writes[i].register \in Register
                  /\ Writes[i].word \in Nat
                  /\ Writes[i].register \in Settings => i \in 3 .. 8
<1> SUFFICES ASSUME NEW i \in Call
             PROVE  /\ Writes[i].register \in Register
                    /\ Writes[i].word \in Nat
                    /\ Writes[i].register \in Settings => i \in 3 .. 8
  OBVIOUS
<1>1. CASE i \in 3 .. 8
  BY <1>1, WritesFacts, SettingFacts DEF Register
<1>2. CASE i \in {1, 2, 9, 10}
  BY <1>2, WritesFacts DEF Write, Register, Settings
<1> QED
  BY <1>1, <1>2, WritesFacts

(* An empty FIFO is a section of the words from anywhere on.               *)
LEMMA EmptyFifo == /\ <<>> \in Seq({Writes[i] : i \in Call})
                   /\ Len(<<>>) = 0
OBVIOUS

(* The next word brings the CODEC to the next stage.                       *)
LEMMA StageMoves ==
  ASSUME TypeOK, NEW k \in 1 .. 10, Stage(k),
         codec' = [codec EXCEPT ![Writes[k].register] = Writes[k].word]
  PROVE  Stage(k + 1)'
<1> USE DEF Register, Settings
<1>1. /\ codec \in [Register -> Nat]
      /\ \A r \in Register :
           codec'[r] = IF r = Writes[k].register THEN Writes[k].word ELSE codec[r]
  BY WritesFacts, WritesType DEF TypeOK
<1>2. CASE k = 1
  <2>1. ~LineOutput'
    BY <1>1, <1>2, WritesFacts DEF LineOutput, Write
  <2> QED
    BY <1>2, <2>1 DEF Stage, OutputOnlyConfigured
<1>3. CASE k \in {2, 9}
  <2>1. ~LineOutput'
    BY <1>1, <1>3, WritesFacts DEF LineOutput, Stage, Write
  <2>2. codec'["ACTIVE_CONTROL"] = IF k = 2 THEN 0 ELSE 1
    BY <1>1, <1>3, WritesFacts DEF Write
  <2>3. \A i \in 1 .. 6 : i + 2 < k + 1 =>
          codec'[SettingWrites[i].register] = SettingWrites[i].word
    BY <1>1, <1>3, SettingFacts, WritesFacts DEF Stage, Write
  <2> QED
    BY <1>3, <2>1, <2>2, <2>3 DEF Stage, OutputOnlyConfigured
<1>4. CASE k \in 3 .. 8
  <2>1. Writes[k] = SettingWrites[k - 2] /\ k - 2 \in 1 .. 6
    BY <1>4, WritesFacts
  <2>2. ~LineOutput'
    BY <1>1, <1>4, <2>1, SettingFacts DEF LineOutput, Stage
  <2>3. codec'["ACTIVE_CONTROL"] = 0
    BY <1>1, <1>4, <2>1, SettingFacts DEF Stage
  <2>4. \A i \in 1 .. 6 : i + 2 < k + 1 =>
          codec'[SettingWrites[i].register] = SettingWrites[i].word
    BY <1>1, <1>4, <2>1, SettingFacts DEF Stage
  <2> QED
    BY <1>4, <2>2, <2>3, <2>4 DEF Stage, OutputOnlyConfigured
<1>5. CASE k = 10
  <2>1. \A i \in 1 .. 6 :
          codec'[SettingWrites[i].register] = SettingWrites[i].word
    BY <1>1, <1>5, SettingFacts, WritesFacts DEF Stage, Write
  <2>2. codec'["ACTIVE_CONTROL"] = 1
    BY <1>1, <1>5, WritesFacts DEF Stage, Write
  <2> QED
    BY <1>5, <2>1, <2>2, SettingFacts DEF Stage, OutputOnlyConfigured, Configured
<1> QED
  BY <1>2, <1>3, <1>4, <1>5

(* At every stage another initialisation may begin.                        *)
LEMMA StageIsStart ==
  ASSUME NEW k \in 1 .. 11, Stage(k)
  PROVE  Stage(1)
BY DEF Stage

(* A CODEC that nothing reaches stays at its stage.                        *)
LEMMA StageStays ==
  ASSUME NEW k \in 1 .. 11, Stage(k), UNCHANGED codec
  PROVE  Stage(k)'
BY DEF Stage, LineOutput, OutputOnlyConfigured, Configured

(* The first word of a section.                                            *)
LEMMA SectionHead ==
  ASSUME TypeOK, NEW k \in 1 .. 11, Section(k), fifo # <<>>
  PROVE  k \in 1 .. 10 /\ Head(fifo) = Writes[k]
BY WritesFacts DEF TypeOK, Section

(* A word that may have landed leaves the CODEC at a stage.                *)
LEMMA LandedOrNot ==
  ASSUME TypeOK, NEW k \in 1 .. 11, Stage(k), Section(k), HeadMayLand
  PROVE  Stage(1)' /\ codec' \in [Register -> Nat]
<1>1. CASE UNCHANGED codec
  BY <1>1, StageIsStart, StageStays DEF TypeOK
<1>2. CASE fifo # <<>> /\ codec' = [codec EXCEPT ![Head(fifo).register] = Head(fifo).word]
  <2>1. k \in 1 .. 10 /\ Head(fifo) = Writes[k]
    BY <1>2, SectionHead
  <2>2. Stage(k + 1)'
    BY <1>2, <2>1, StageMoves
  <2>3. Stage(1)'
    BY <2>1, <2>2 DEF Stage
  <2> QED
    BY <1>2, <2>1, <2>3, WritesFacts, WritesType DEF TypeOK
<1> QED
  BY <1>1, <1>2 DEF HeadMayLand

(* A new system has sent nothing.                                          *)
LEMMA InitIInv == Init => IInv
<1> SUFFICES ASSUME Init PROVE IInv
  OBVIOUS
<1>1. TypeOK
  <2>1. codec \in [Register -> Nat] /\ restarts \in 0 .. MaxRestarts
    BY RestartsAssumption DEF Init
  <2>2. led \in BOOLEAN /\ aborted \in BOOLEAN
    BY DEF Init
  <2> QED
    BY <2>1, <2>2, WritesFacts, EmptyFifo DEF Init, TypeOK
<1>2. ~LineOutput
  BY DEF Init, LineOutput, Register
<1>3. Stage(1)
  BY <1>2, SettingFacts DEF Stage, OutputOnlyConfigured
<1>4. Section(1) /\ Len(fifo) = 0 /\ pc = "gpio" /\ ~aborted
  BY EmptyFifo DEF Init, Section
<1> QED
  BY <1>1, <1>3, <1>4 DEF IInv

(* The queue of a call grows behind, that of the bus shrinks in front.     *)
LEMMA StepIInv == IInv /\ [Next]_vars => IInv'
<1> SUFFICES ASSUME IInv, [Next]_vars PROVE IInv'
  OBVIOUS
<1>1. TypeOK /\ (aborted => fifo = <<>>)
  BY DEF IInv
<1>2. PICK k \in 1 .. 11 : /\ Stage(k)
                           /\ Section(k)
                           /\ pc = "transmit" /\ ~aborted => k + Len(fifo) = next
  BY DEF IInv
<1>3. CASE GpioInit \/ Restart
  <2>1. /\ UNCHANGED <<next, fifo, aborted, codec>> /\ pc' \in {"gpio", "init"}
        /\ led' \in BOOLEAN
    BY <1>1, <1>3 DEF TypeOK, GpioInit, Restart
  <2>2. restarts' \in 0 .. MaxRestarts
    BY <1>1, <1>3, RestartsAssumption DEF TypeOK, GpioInit, Restart
  <2>3. TypeOK'
    BY <1>1, <2>1, <2>2 DEF TypeOK
  <2>4. Stage(k)' /\ Section(k)'
    BY <1>2, <2>1, StageStays DEF Section
  <2> QED
    BY <1>1, <2>1, <2>3, <2>4 DEF IInv
<1>4. CASE I2cInit
  <2>1. Stage(1)' /\ codec' \in [Register -> Nat]
    BY <1>1, <1>2, <1>4, LandedOrNot DEF I2cInit
  <2>2. /\ pc' = "transmit" /\ fifo' = <<>> /\ next' = 1 /\ ~aborted'
        /\ aborted' \in BOOLEAN /\ UNCHANGED <<led, restarts>>
    BY <1>4 DEF I2cInit
  <2>3. TypeOK'
    BY <1>1, <2>1, <2>2, WritesFacts, EmptyFifo DEF TypeOK
  <2>4. Section(1)'
    BY <2>2, EmptyFifo DEF Section
  <2> QED
    BY <2>1, <2>2, <2>3, <2>4, EmptyFifo DEF IInv
<1>5. CASE Transmit
  <2>1. UNCHANGED <<aborted, codec, restarts>> /\ led' \in BOOLEAN
    BY <1>1, <1>5, Zenon DEF Transmit, CHECK_ERROR, TypeOK
  <2>2. pc' \in {"gpio", "init", "transmit", "loop"} /\ next' \in Call
    BY <1>1, <1>5, WritesFacts DEF Transmit, TypeOK
  <2>3. CASE aborted
    <3>1. fifo' = <<>>
      BY <1>5, <2>3 DEF Transmit
    <3>2. TypeOK'
      BY <1>1, <2>1, <2>2, <3>1, WritesFacts, EmptyFifo DEF TypeOK
    <3>3. Stage(k)' /\ Section(k)'
      BY <1>2, <2>1, <3>1, StageStays DEF Section
    <3> QED
      BY <2>1, <2>3, <3>1, <3>2, <3>3 DEF IInv
  <2>4. CASE ~aborted
    <3>1. fifo' = Append(fifo, Writes[next]) /\ k + Len(fifo) = next /\ next \in 1 .. 10
      BY <1>1, <1>2, <1>5, <2>4, WritesFacts DEF Transmit, TypeOK
    <3>2. /\ Len(fifo') = Len(fifo) + 1 /\ fifo' \in Seq({Writes[i] : i \in Call})
          /\ \A i \in 1 .. Len(fifo') :
               fifo'[i] = IF i <= Len(fifo) THEN fifo[i] ELSE Writes[next]
      BY <1>1, <3>1, WritesFacts DEF TypeOK
    <3>3. Section(k)'
      BY <1>1, <1>2, <3>1, <3>2 DEF Section, TypeOK
    <3>4. TypeOK'
      <4>1. Len(fifo') <= Len(Writes)
        BY <1>2, <3>1, <3>2, WritesFacts DEF Section
      <4> QED
        BY <1>1, <2>1, <2>2, <3>2, <4>1 DEF TypeOK
    <3>5. pc' = "transmit" => k + Len(fifo') = next'
      <4>1. pc' = "transmit" => next' = next + 1
        BY <1>5 DEF Transmit
      <4>2. k \in Nat /\ Len(fifo) \in Nat
        BY <1>1, <1>2 DEF TypeOK
      <4> QED
        BY <3>1, <3>2, <4>1, <4>2
    <3>6. Stage(k)'
      BY <1>2, <2>1, StageStays
    <3> QED
      BY <2>1, <2>4, <3>3, <3>4, <3>5, <3>6 DEF IInv
  <2> QED
    BY <2>3, <2>4
<1>6. CASE Acknowledge
  <2>1. k \in 1 .. 10 /\ Head(fifo) = Writes[k] /\ fifo # <<>>
    BY <1>1, <1>2, <1>6, SectionHead DEF Acknowledge
  <2>2. Stage(k + 1)'
    BY <1>1, <1>2, <1>6, <2>1, StageMoves DEF Acknowledge
  <2>3. /\ Len(fifo') = Len(fifo) - 1 /\ fifo' \in Seq({Writes[i] : i \in Call})
        /\ \A i \in 1 .. Len(fifo') : fifo'[i] = fifo[i + 1]
    BY <1>1, <1>6, <2>1 DEF TypeOK, Acknowledge
  <2>4. Section(k + 1)'
    <3>1. Len(fifo) \in Nat /\ Len(fifo') = Len(fifo) - 1 /\ Len(fifo') \in Nat
      BY <1>1, <2>3 DEF TypeOK
    <3>2. (k + 1) + Len(fifo') <= 11
      BY <1>2, <2>1, <3>1 DEF Section
    <3>3. ASSUME NEW i \in 1 .. Len(fifo')
          PROVE  fifo'[i] = Writes[(k + 1) + i - 1]
      <4>1. i + 1 \in 1 .. Len(fifo) /\ k + (i + 1) - 1 = (k + 1) + i - 1
        BY <2>1, <3>1
      <4>2. fifo[i + 1] = Writes[k + (i + 1) - 1]
        BY <1>2, <4>1 DEF Section
      <4> QED
        BY <2>3, <4>1, <4>2
    <3> QED
      BY <3>2, <3>3 DEF Section
  <2>5. UNCHANGED <<pc, next, aborted, led, restarts>> /\ ~aborted /\ ~aborted'
    BY <1>1, <1>6, <2>1 DEF Acknowledge
  <2>6. TypeOK'
    <3>1. codec' \in [Register -> Nat]
      BY <1>1, <1>6, <2>1, WritesFacts, WritesType DEF TypeOK, Acknowledge
    <3> QED
      BY <1>1, <2>3, <2>5, <3>1 DEF TypeOK
  <2>7. pc' = "transmit" => (k + 1) + Len(fifo') = next'
    BY <1>1, <1>2, <2>1, <2>3, <2>5 DEF TypeOK
  <2>8. k + 1 \in 1 .. 11
    BY <2>1
  <2> QED
    BY <2>2, <2>4, <2>5, <2>6, <2>7, <2>8 DEF IInv
<1>7. CASE Abort
  <2>1. Stage(1)' /\ codec' \in [Register -> Nat]
    BY <1>1, <1>2, <1>7, LandedOrNot DEF Abort
  <2>2. TypeOK' /\ fifo' = <<>> /\ aborted'
    BY <1>1, <1>7, <2>1, WritesFacts DEF TypeOK, Abort
  <2>3. Section(1)'
    BY <2>2 DEF Section
  <2> QED
    BY <2>1, <2>2, <2>3 DEF IInv
<1>8. CASE UNCHANGED vars
  <2>1. Stage(k)' /\ Section(k)' /\ TypeOK'
    BY <1>1, <1>2, <1>8, StageStays DEF vars, Section, TypeOK
  <2> QED
    BY <1>1, <1>2, <1>8, <2>1 DEF vars, IInv
<1> QED
  BY <1>3, <1>4, <1>5, <1>6, <1>7, <1>8 DEF Next, Program, Bus

(* IInv holds of every state of the initialisation.                        *)
LEMMA IInvariance == Spec => []IInv
BY InitIInv, StepIInv, PTL DEF Spec

-----------------------------------------------------------------------------
(* The twenty bytes of one initialisation are all that is ever in the TX   *)
(* FIFO, so that no call waits for room in it.                             *)
THEOREM TypeCorrect == Spec => []TypeOK
BY IInvariance, PTL DEF IInv

(* app.c:96-127 - a setting that can reach the CODEC finds it without line *)
(* output and inactive, whatever was aborted and wherever the program was  *)
(* restarted.                                                              *)
THEOREM QuietSettings == Spec => []SettingsWrittenQuietly
<1>1. IInv => SettingsWrittenQuietly
  <2> SUFFICES ASSUME IInv, fifo # <<>>, Head(fifo).register \in Settings
               PROVE  ~LineOutput /\ codec["ACTIVE_CONTROL"] = 0
    BY DEF SettingsWrittenQuietly
  <2>1. PICK k \in 1 .. 11 : Stage(k) /\ Section(k)
    BY DEF IInv
  <2>2. k \in 1 .. 10 /\ Head(fifo) = Writes[k]
    BY <2>1, SectionHead DEF IInv
  <2>3. k \in 3 .. 8
    BY <2>2, WritesFacts, WritesType
  <2> QED
    BY <2>1, <2>3 DEF Stage
<1> QED
  BY <1>1, IInvariance, PTL

(* app.c:136-141 - the line output has power only while every setting is   *)
(* there and the CODEC is active.                                          *)
THEOREM ConfiguredOutput == Spec => []OutputOnlyConfigured
<1>1. IInv => OutputOnlyConfigured
  BY DEF IInv, Stage
<1> QED
  BY <1>1, IInvariance, PTL

===============================================================================
