------------------------------- MODULE CodecInit -------------------------------
(***************************************************************************)
(* initAudioCODEC_I2C of software/app/src/app.c: ten words for the         *)
(* registers of the audio CODEC, sent over I2C.  alt_i2c_master_transmit   *)
(* only puts the two bytes of a word into the TX FIFO of the controller,   *)
(* which sends them later.  When the CODEC does not acknowledge, the       *)
(* controller flushes the FIFO and drops what is written to it until it is *)
(* reset (alt_i2c.h:283), which alt_i2c_init does.                         *)
(*                                                                         *)
(* A step is a call of the program or a word on the bus.  The program can  *)
(* be restarted at every moment; neither controller nor CODEC notices.     *)
(* Calls that only check their arguments, which are constants here, do     *)
(* succeed.  It is assumed that disabling the controller, with which       *)
(* alt_i2c_init begins at a restart, succeeds too: its 8192 polls of a     *)
(* register outlast the word on the bus (about half a millisecond), and    *)
(* the exit with ALT_E_TMO (alt_i2c.c:402-410), which would leave the      *)
(* controller without its reset, is not taken.                             *)
(***************************************************************************)
EXTENDS Naturals, Sequences

CONSTANT MaxRestarts   \* bound of the restarts in a behaviour

ASSUME RestartsAssumption == MaxRestarts \in Nat

ALT_I2C_TX_FIFO_NUM_ENTRIES == 64

(* The registers that are written while the CODEC is inactive. *)
Settings ==
  { "ANALOG_AUDIO_PATH_CONTROL", "LEFT_LINE_IN", "RIGHT_LINE_IN",
    "DIGITAL_AUDIO_INTERFACE_FORMAT", "DIGITAL_AUDIO_PATH_CONTROL",
    "SAMPLING_CONTROL" }

Register == Settings \cup {"POWER_DOWN_CONTROL", "ACTIVE_CONTROL"}

Write(register, word) == [register |-> register, word |-> word]

(* The settings, by the order of the calls. *)
SettingWrites ==
  << Write("ANALOG_AUDIO_PATH_CONTROL", 18),
     Write("LEFT_LINE_IN", 19),
     Write("RIGHT_LINE_IN", 19),
     Write("DIGITAL_AUDIO_INTERFACE_FORMAT", 73),
     Write("DIGITAL_AUDIO_PATH_CONTROL", 1),
     Write("SAMPLING_CONTROL", 2) >>

(* Mutant of Writes: active before the settings are there. *)
WritesActiveFirst ==
  << Write("POWER_DOWN_CONTROL", 114), Write("ACTIVE_CONTROL", 1) >>
  \o SettingWrites \o << Write("POWER_DOWN_CONTROL", 98) >>

(* Mutant of Writes: the line output stays without power. *)
WritesWithoutOutput ==
  << Write("POWER_DOWN_CONTROL", 114), Write("ACTIVE_CONTROL", 0) >>
  \o SettingWrites \o << Write("ACTIVE_CONTROL", 1) >>

(* Mutant of Writes: all modules get power at once, the line output too. *)
WritesOutputFirst ==
  << Write("POWER_DOWN_CONTROL", 98), Write("ACTIVE_CONTROL", 0) >>
  \o SettingWrites \o << Write("ACTIVE_CONTROL", 1) >>

(* All the words: no line output, inactive, settings, active, line output. *)
Writes ==
  << Write("POWER_DOWN_CONTROL", 114), Write("ACTIVE_CONTROL", 0) >>
  \o SettingWrites
  \o << Write("ACTIVE_CONTROL", 1), Write("POWER_DOWN_CONTROL", 98) >>

Call == 1 .. Len(Writes)

ASSUME WritesFit == 2 * Len(Writes) <= ALT_I2C_TX_FIFO_NUM_ENTRIES

VARIABLES
  pc,         \* the call to come: "gpio", "init", a transmission, or "loop"
  next,       \* the transmission to come
  fifo,       \* the words that wait in the TX FIFO
  aborted,    \* the controller has seen no acknowledge and holds the FIFO
  led,        \* the user LED
  codec,      \* the registers of the CODEC
  restarts    \* how often the program has been restarted

vars == <<pc, next, fifo, aborted, led, codec, restarts>>

TypeOK ==
  /\ pc \in {"gpio", "init", "transmit", "loop"}
  /\ next \in Call
  /\ fifo \in Seq({Writes[i] : i \in Call}) /\ Len(fifo) <= Len(Writes)
  /\ aborted \in BOOLEAN
  /\ led \in BOOLEAN
  /\ codec \in [Register -> Nat]
  /\ restarts \in 0 .. MaxRestarts

(* Bit 4 of POWER_DOWN_CONTROL takes the power from the line output. *)
LineOutput == (codec["POWER_DOWN_CONTROL"] \div 16) % 2 = 0

Configured ==
  /\ \A i \in 1 .. Len(SettingWrites) :
       codec[SettingWrites[i].register] = SettingWrites[i].word
  /\ codec["ACTIVE_CONTROL"] = 1

-----------------------------------------------------------------------------
(* At power up the CODEC is inactive and without power; the contents of    *)
(* the settings are written 0, which is none of the words sent.            *)
Init ==
  /\ pc = "gpio" /\ next = 1
  /\ fifo = <<>> /\ aborted = FALSE
  /\ led = FALSE
  /\ codec = [r \in Register |-> IF r = "POWER_DOWN_CONTROL" THEN 159 ELSE 0]
  /\ restarts = 0

(* The word at the head of the FIFO may have reached the CODEC or not. *)
HeadMayLand ==
  \/ UNCHANGED codec
  \/ /\ fifo # <<>>
     /\ codec' = [codec EXCEPT ![Head(fifo).register] = Head(fifo).word]

(* alt_gpio_init resets the ports, and the LED with them. *)
GpioInit ==
  /\ pc = "gpio"
  /\ pc' = "init"
  /\ led' = FALSE
  /\ UNCHANGED <<next, fifo, aborted, codec, restarts>>

(* Mutant of I2cInit: the controller is not reset. *)
I2cInitWithoutReset ==
  /\ pc = "init"
  /\ pc' = "transmit" /\ next' = 1
  /\ UNCHANGED <<fifo, aborted, led, codec, restarts>>

(* alt_i2c_init disables the controller in the middle of what it sends,    *)
(* within its poll budget, and resets it; enabling it and setting its      *)
(* target, with an empty FIFO, change nothing.                             *)
I2cInit ==
  /\ pc = "init"
  /\ pc' = "transmit" /\ next' = 1
  /\ fifo' = <<>> /\ aborted' = FALSE
  /\ HeadMayLand
  /\ UNCHANGED <<led, restarts>>

(* What the call returns: it waits for room in the FIFO and no longer. *)
TransmitStatus ==
  IF 2 * Len(fifo) + 2 <= ALT_I2C_TX_FIFO_NUM_ENTRIES THEN "ALT_E_SUCCESS"
                                                      ELSE "ALT_E_TMO"

CHECK_ERROR(status) == led' = (led \/ status # "ALT_E_SUCCESS")

Transmit ==
  /\ pc = "transmit"
  /\ CHECK_ERROR(TransmitStatus)
  /\ fifo' = IF aborted THEN <<>> ELSE Append(fifo, Writes[next])
  /\ IF next < Len(Writes) THEN next' = next + 1 /\ pc' = "transmit"
                           ELSE next' = next /\ pc' = "loop"
  /\ UNCHANGED <<aborted, codec, restarts>>

(* The CODEC takes the next word. *)
Acknowledge ==
  /\ fifo # <<>>
  /\ codec' = [codec EXCEPT ![Head(fifo).register] = Head(fifo).word]
  /\ fifo' = Tail(fifo)
  /\ UNCHANGED <<pc, next, aborted, led, restarts>>

(* A byte of the next word is not acknowledged, or the bus is lost. *)
Abort ==
  /\ fifo # <<>>
  /\ aborted' = TRUE
  /\ fifo' = <<>>
  /\ HeadMayLand
  /\ UNCHANGED <<pc, next, led, restarts>>

Restart ==
  /\ restarts < MaxRestarts
  /\ restarts' = restarts + 1
  /\ pc' = "gpio"
  /\ UNCHANGED <<next, fifo, aborted, led, codec>>

Program == GpioInit \/ I2cInit \/ Transmit

Bus == Acknowledge \/ Abort

Next == Program \/ Bus \/ Restart

Spec == Init /\ [][Next]_vars

(* The program runs on, and the controller sends what it has. *)
FairSpec == Spec /\ WF_vars(Program) /\ WF_vars(Bus)

-----------------------------------------------------------------------------
(* app.c:96-127 - the line output is without power and the CODEC inactive  *)
(* whenever a setting is on its way to it, whatever was aborted before and *)
(* wherever the program was restarted.                                     *)
SettingsWrittenQuietly ==
  fifo # <<>> /\ Head(fifo).register \in Settings
    => ~LineOutput /\ codec["ACTIVE_CONTROL"] = 0

(* app.c:136-141 - the line output has power only while every setting is   *)
(* there and the CODEC is active, in every initialisation, complete or     *)
(* aborted, first or repeated.                                             *)
OutputOnlyConfigured == LineOutput => Configured

(* app.c:27 - in the end the CODEC plays with all its settings, unless the *)
(* last initialisation was aborted on the bus.                             *)
EventuallyPlaying == <>[](aborted \/ (LineOutput /\ Configured))

(* app.c:13 - "turn on USER LED on error".                                 *)
LedOnError == pc = "loop" /\ aborted => led

===============================================================================
