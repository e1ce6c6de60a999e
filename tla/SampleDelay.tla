----------------------------- MODULE SampleDelay -----------------------------
(***************************************************************************)
(* What a delay line of hardware/delayLine.vhd promises, without its RAM,  *)
(* its read/write pipeline or its clock: a line of samples whose head is   *)
(* the newest one, an output register, and three steps per audio sample.   *)
(* The delay is latched when the sample tick is accepted, the output is    *)
(* renewed from the end of the line, and the line then shifts by one cell  *)
(* and takes the new sample.  A reset in between leaves a line of which    *)
(* only an end part has shifted.  DelayLine implements this module.        *)
(***************************************************************************)
EXTENDS Naturals

CONSTANTS
  Ns_max,      \* the generic of the line: the longest delay it can give
  Value,       \* the samples
  CurrentNs    \* the delays that the port currentN can carry

ASSUME NsMaxAssumption == Ns_max \in Nat /\ Ns_max >= 5

ASSUME CurrentNsAssumption == CurrentNs \subseteq 5 .. Ns_max

VARIABLES
  line,    \* the samples in the line, line[0] the newest
  out,     \* the output register
  phase,   \* "ready" for a sample tick, tick "taken", output "renewed"
  len      \* the cells in use for the tick in progress

vars == <<line, out, phase, len>>

(* The structure of the line delays by one sample of its own, so it stores *)
(* one cell less than the delay it gives.                                  *)
N == Ns_max - 1

Addr == 0 .. N - 1

TypeOK ==
  /\ line \in [Addr -> Value]
  /\ out \in Value
  /\ phase \in {"ready", "taken", "renewed"}
  /\ len \in 4 .. N

(* Mutant of ShiftedFrom: the last cell in use is not renewed. *)
ShiftedFromShort(l, m, a) ==
  [i \in Addr |-> IF a <= i /\ i < m - 1 THEN l[i - 1] ELSE l[i]]

(* The line l, of m cells in use, once its cells from address a on have    *)
(* received their neighbour's sample.                                      *)
ShiftedFrom(l, m, a) ==
  [i \in Addr |-> IF a <= i /\ i < m THEN l[i - 1] ELSE l[i]]

Init ==
  /\ line \in [Addr -> Value]
  /\ out \in Value
  /\ phase = "ready"
  /\ len = 4

-----------------------------------------------------------------------------
(* Mutant of Take: the structure's own sample of delay is counted twice. *)
TakeTooShort(currentN) ==
  /\ phase = "ready"
  /\ phase' = "taken"
  /\ len' = currentN - 2
  /\ UNCHANGED <<line, out>>

(* A tick is accepted while the line is ready; the delay is read here only *)
Take(currentN) ==
  /\ phase = "ready"
  /\ phase' = "taken"
  /\ len' = currentN - 1
  /\ UNCHANGED <<line, out>>

(* Mutant of Renew: the output leaves the line one cell early. *)
RenewEarly ==
  /\ phase = "taken"
  /\ phase' = "renewed"
  /\ out' = line[len - 2]
  /\ UNCHANGED <<line, len>>

(* The output register takes the sample in the last cell in use. *)
Renew ==
  /\ phase = "taken"
  /\ phase' = "renewed"
  /\ out' = line[len - 1]
  /\ UNCHANGED <<line, len>>

(* The line shifts by one cell, drops its last sample and takes dataIN. *)
Store(dataIN) ==
  /\ phase = "renewed"
  /\ phase' = "ready"
  /\ line' = [ShiftedFrom(line, len, 1) EXCEPT ![0] = dataIN]
  /\ UNCHANGED <<out, len>>

(* A reset that finds the line at work: the cells from a on have shifted,  *)
(* none (a = len) when the output was not yet renewed.                     *)
Abort(a) ==
  /\ \/ phase = "taken" /\ a = len
     \/ phase = "renewed"
  /\ phase' = "ready"
  /\ line' = ShiftedFrom(line, len, a)
  /\ UNCHANGED <<out, len>>

Next ==
  \/ \E currentN \in CurrentNs : Take(currentN)
  \/ Renew
  \/ \E dataIN \in Value : Store(dataIN)
  \/ \E a \in 1 .. len : Abort(a)

Spec == Init /\ [][Next]_vars

=============================================================================
