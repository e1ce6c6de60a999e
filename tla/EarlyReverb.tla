----------------------------- MODULE EarlyReverb -----------------------------
(***************************************************************************)
(* The delay lines of hardware/earlyReverb.vhd as one tapped chain: Lines  *)
(* equal lines give the first echo, one shorter line more each echo after  *)
(* it.  Each line is a SampleDelay; the first one is DelayTap itself, the  *)
(* lines behind it are indexed by their place.  All take the same tick:    *)
(* their outputs move at the same clock, and a line stores what its        *)
(* neighbour gave at this tick, some clocks later, when its own shift is   *)
(* over.  A reset finds each line as far as its length has let it get.     *)
(*                                                                         *)
(* A sample is 0 or 1, and a single 1 is ever sent: the chain only moves   *)
(* samples, so that where this one comes out says where all of them do.    *)
(***************************************************************************)
EXTENDS DelayTap

CONSTANTS
  Lines,             \* nbrDelayLines_initEcho (12)
  Cells,             \* nbrCells, the echoes (8)
  Ratio,             \* ratio_initEcho_earlyEchoes (50)
  MaxDisturbances    \* bound on the resets and the changes of the delay

VARIABLES
  chain,           \* what the lines behind the first one hold
  outs, lens,      \* their output registers and their cells in use
  delay,           \* currentN of the last tick
  disturbances,    \* resets and changes of the delay so far
  age,             \* ticks since the 1 was sent, 0 before
  steady           \* samples stored since the last disturbance

earlyVars == <<tapVars, chain, outs, lens, delay, disturbances, age, steady>>

Behind == 2 .. Lines + Cells - 1

(* The delay that a line can give, and the one that is asked of it.        *)
built(j) == IF j <= Lines THEN Ns_max ELSE (Ns_max * Lines) \div Ratio

asked(j, currentN) ==
  IF j <= Lines THEN currentN ELSE (currentN * Lines) \div Ratio + 5

(* Longer delays are the finding NearEchoFits of ParamControl.             *)
ASSUME EarlyAssumption ==
  /\ Value = {0, 1}
  /\ Lines \in Nat \ {0} /\ Cells \in Nat \ {0} /\ Ratio \in Nat \ {0}
  /\ MaxDisturbances \in Nat
  /\ \A j \in Behind, n \in CurrentNs : asked(j, n) <= built(j)

(* The samples between the input and an echo at a constant delay.          *)
EchoDelay(i, currentN) ==
  Lines * (currentN - 1) + (i - 1) * (asked(Lines + 1, currentN) - 1)

LongestDelay ==
  CHOOSE d \in {EchoDelay(Cells, n) : n \in CurrentNs} :
    \A n \in CurrentNs : EchoDelay(Cells, n) <= d

(* The writes in the shift of the longest line.                            *)
LongestShift == CHOOSE m \in {built(1), built(Lines + Cells - 1)} :
                  m >= built(1) /\ m >= built(Lines + Cells - 1)

(* The output of line j, and delayedInputs(i), which the i-th weight gets. *)
interDelayed(j) == IF j = 1 THEN out ELSE outs[j]

delayedInputs(i) == interDelayed(Lines + i - 1)

-----------------------------------------------------------------------------
EarlyInit ==
  /\ line = [a \in Addr |-> 0] /\ out = 0 /\ past = line
  /\ TapInit
  /\ chain = [j \in Behind |-> [a \in 0 .. built(j) - 2 |-> 0]]
  /\ outs = [j \in Behind |-> 0] /\ lens = [j \in Behind |-> 4]
  /\ delay \in CurrentNs /\ disturbances = 0
  /\ age = 0 /\ steady = 0

Disturb ==
  /\ disturbances < MaxDisturbances /\ disturbances' = disturbances + 1
  /\ steady' = 0

EarlyTake(currentN) ==
  /\ TapTake(currentN)
  /\ lens' = [j \in Behind |-> asked(j, currentN) - 1]
  /\ delay' = currentN
  /\ IF currentN = delay THEN UNCHANGED <<disturbances, steady>> ELSE Disturb
  /\ UNCHANGED <<chain, outs, age>>

EarlyRenew ==
  /\ TapRenew
  /\ outs' = [j \in Behind |-> chain[j][lens[j] - 1]]
  /\ UNCHANGED <<chain, lens, delay, disturbances, age, steady>>

(* Mutant of Written: the shift begins one cell behind those in use. *)
WrittenPast(l, m, k, dataIN) ==
  [a \in DOMAIN l |->
     IF a = 0 THEN IF k >= m THEN dataIN ELSE l[0]
     ELSE IF m - k <= a /\ a <= m THEN l[a - 1] ELSE l[a]]

(* Line l of m cells after k writes of its shift, the last of which stores *)
(* dataIN.                                                                 *)
Written(l, m, k, dataIN) ==
  [a \in DOMAIN l |->
     IF a = 0 THEN IF k >= m THEN dataIN ELSE l[0]
     ELSE IF m - k <= a /\ a < m THEN l[a - 1] ELSE l[a]]

(* Mutant of Moved: the index of the neighbour is off by one. *)
MovedOwn(j, k) == Written(chain[j], lens[j], k, outs[j])

(* A line stores the output of its neighbour.                              *)
Moved(j, k) == Written(chain[j], lens[j], k, interDelayed(j - 1))

(* How old the 1 is after a tick that stores dataIN.                       *)
Older(dataIN) ==
  IF dataIN = 1 THEN 1
  ELSE IF age \in 1 .. LongestDelay THEN age + 1 ELSE age

(* The shift of every line comes to its end.                               *)
EarlyStore(dataIN) ==
  /\ dataIN = 1 => age = 0
  /\ TapStore(dataIN)
  /\ chain' = [j \in Behind |-> Moved(j, lens[j])]
  /\ age' = Older(dataIN)
  /\ steady' = IF steady < LongestDelay THEN steady + 1 ELSE steady
  /\ UNCHANGED <<outs, lens, delay, disturbances>>

(* A reset after k writes: short lines are done, long ones stop amid their *)
(* shift.                                                                  *)
EarlyReset(k, dataIN) ==
  /\ dataIN = 1 => age = 0 /\ k >= len
  /\ IF k < len THEN TapAbort(len - k) ELSE TapStore(dataIN)
  /\ chain' = [j \in Behind |-> Moved(j, k)]
  /\ age' = Older(dataIN)
  /\ Disturb
  /\ UNCHANGED <<outs, lens, delay>>

EarlyNext ==
  \/ \E currentN \in CurrentNs : EarlyTake(currentN)
  \/ EarlyRenew
  \/ \E dataIN \in Value : EarlyStore(dataIN)
  \/ \E k \in 0 .. LongestShift, dataIN \in Value : EarlyReset(k, dataIN)

EarlySpec == EarlyInit /\ [][EarlyNext]_earlyVars

-----------------------------------------------------------------------------
(* earlyReverb.vhd:58-96 - echo i is the input of exactly EchoDelay(i)     *)
(* samples ago, however many lines it went through, as soon as so many     *)
(* samples went through the chain since the delay last changed or a reset  *)
(* stopped each line at another cell: the lines, which share one tick and  *)
(* read each other's outputs during their shifts, lose no sample between   *)
(* them and pass none on twice.                                            *)
EchoesOnTime ==
  \A i \in 1 .. Cells :
    phase = "renewed" /\ steady >= EchoDelay(i, delay) =>
      (delayedInputs(i) = 1 <=> age = EchoDelay(i, delay))

(* A line behind the first one by itself: built for the length of its      *)
(* place in the chain and asked for the delays that follow from the first  *)
(* echo's.                                                                 *)
Line(j) == INSTANCE SampleDelay
  WITH Ns_max <- built(j), CurrentNs <- {asked(j, n) : n \in CurrentNs},
       line <- chain[j], out <- outs[j], len <- lens[j]

(* earlyReverb.vhd:68-89 - each of the lines that share a tick is a delay  *)
(* line that knows nothing of the others: no delay or reset makes it do    *)
(* what a single delayLine.vhd could not.                                  *)
EveryLineIsADelayLine ==
  /\ \A j \in Behind : Line(j)!Init
  /\ [][\A j \in Behind : [Line(j)!Next]_(Line(j)!vars)]_earlyVars

=============================================================================
