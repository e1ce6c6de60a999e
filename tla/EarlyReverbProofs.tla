-------------------------- MODULE EarlyReverbProofs --------------------------
(***************************************************************************)
(* What a delay line gives its users is proved for every length, every set *)
(* of samples and every set of delays that fit the line; and what a chain  *)
(* of them gives, for every number of lines and echoes.                    *)
(***************************************************************************)
EXTENDS EarlyReverb, WellFoundedInduction, TLAPS

(* The samples are in the line in the order they were stored, in the cells *)
(* that the history of delays and resets has left in order.                *)
IInv == TapTypeOK /\ CellsInv

(* N, the cells of the line, is a number that the pipeline can work with. *)
LEMMA NFacts == N \in Nat /\ N >= 4
BY NsMaxAssumption DEF N

(* The number of cells in use fits the line whatever the delay asked for. *)
LEMMA CurrentNFacts ==
  ASSUME NEW currentN \in CurrentNs
  PROVE  currentN - 1 \in 4 .. N
BY CurrentNsAssumption, NsMaxAssumption DEF N

(* The line and the history of a new system are typed and claim nothing.   *)
LEMMA InitIInv == TapInit => IInv
BY NFacts DEF TapInit, Init, IInv, TapTypeOK, TypeOK, CellsInv, Addr

(* Every step keeps the line, its registers and the history typed.         *)
LEMMA StepTypeOK ==
  ASSUME TapTypeOK, [TapNext]_tapVars
  PROVE  TapTypeOK'
<1> USE NFacts DEF Addr
<1>1. CASE UNCHANGED tapVars
  BY <1>1 DEF TapTypeOK, TypeOK, tapVars, vars
<1>2. CASE \E currentN \in CurrentNs : TapTake(currentN)
  BY <1>2, CurrentNFacts DEF TapTypeOK, TypeOK, TapTake, Take
<1>3. CASE TapRenew
  BY <1>3 DEF TapTypeOK, TypeOK, TapRenew, Renew
<1>4. CASE \E dataIN \in Value : TapStore(dataIN)
  BY <1>4 DEF TapTypeOK, TypeOK, TapStore, Store, ShiftedFrom
<1>5. CASE \E a \in 1 .. len : TapAbort(a)
  BY <1>5 DEF TapTypeOK, TypeOK, TapAbort, Abort, ShiftedFrom
<1>6. QED
  BY <1>1, <1>2, <1>3, <1>4, <1>5 DEF TapNext

(* A whole shift moves every sample that counts together with its place in *)
(* the history.                                                            *)
LEMMA StoreCells ==
  ASSUME IInv, NEW dataIN \in Value, TapStore(dataIN)
  PROVE  CellsInv'
<1> USE NFacts DEF Addr
<1> SUFFICES ASSUME NEW c \in Addr,
                    \A i \in 0 .. c : pastLen'[i] > 0,
                    \A i \in 0 .. c - 1 : pastLen'[i] > c
             PROVE  line'[c] = past'[c]
  BY DEF CellsInv
<1>1. TapTypeOK /\ CellsInv
  BY DEF IInv
<1>2. CASE c = 0
  BY <1>1, <1>2 DEF TapTypeOK, TypeOK, TapStore, Store, ShiftedFrom
<1>3. CASE c # 0
  <2>1. c - 1 \in Addr /\ 0 \in 0 .. c - 1
    BY <1>3
  <2>2. pastLen'[0] = len /\ len > c
    <3>1. pastLen'[0] = len
      BY DEF TapStore
    <3>2. QED
      BY <2>1, <3>1
  <2>3. line'[c] = line[c - 1]
    BY <1>1, <1>3, <2>1, <2>2 DEF TapTypeOK, TypeOK, TapStore, Store, ShiftedFrom
  <2>4. past'[c] = past[c - 1]
    BY <1>3 DEF TapStore
  <2>5. \A i \in 0 .. c - 1 : i + 1 \in 1 .. c /\ pastLen'[i + 1] = pastLen[i]
    BY <2>1 DEF TapStore
  <2>6. \A i \in 0 .. c - 1 : pastLen[i] > 0
    BY <2>5
  <2>7. \A i \in 0 .. (c - 1) - 1 : pastLen[i] > c - 1
    <3> SUFFICES ASSUME NEW i \in 0 .. (c - 1) - 1 PROVE pastLen[i] > c - 1
      OBVIOUS
    <3>1. i \in Addr /\ i + 1 \in 0 .. c - 1 /\ pastLen'[i + 1] = pastLen[i]
      BY <2>1, <2>5
    <3>2. pastLen[i] \in Nat
      BY <1>1, <3>1 DEF TapTypeOK
    <3>3. QED
      BY <3>1, <3>2
  <2>8. line[c - 1] = past[c - 1]
    BY <1>1, <2>1, <2>6, <2>7 DEF CellsInv
  <2>9. QED
    BY <2>3, <2>4, <2>8
<1>4. QED
  BY <1>2, <1>3

(* A reset leaves the cells below the border of the aborted shift alone,   *)
(* and the history claims nothing of the others.                           *)
LEMMA AbortCells ==
  ASSUME IInv, NEW a \in 1 .. len, TapAbort(a)
  PROVE  CellsInv'
<1> USE NFacts DEF Addr
<1> SUFFICES ASSUME NEW c \in Addr,
                    \A i \in 0 .. c : pastLen'[i] > 0,
                    \A i \in 0 .. c - 1 : pastLen'[i] > c
             PROVE  line'[c] = past'[c]
  BY DEF CellsInv
<1>1. TapTypeOK /\ CellsInv /\ a \in Nat
  BY DEF IInv, TapTypeOK, TypeOK
<1>2. c < a
  BY <1>1 DEF TapAbort
<1>3. line'[c] = line[c] /\ past'[c] = past[c]
  BY <1>1, <1>2 DEF TapAbort, Abort, ShiftedFrom
<1>4. \A i \in 0 .. c : pastLen'[i] = pastLen[i]
  BY <1>1, <1>2 DEF TapAbort
<1>5. QED
  BY <1>1, <1>3, <1>4 DEF CellsInv

(* IInv is inductive. *)
LEMMA StepIInv ==
  ASSUME IInv, [TapNext]_tapVars
  PROVE  IInv'
<1>1. TapTypeOK'
  BY StepTypeOK DEF IInv
<1>2. CellsInv'
  <2>1. CASE UNCHANGED tapVars
    BY <2>1 DEF IInv, CellsInv, tapVars, vars
  <2>2. CASE \E currentN \in CurrentNs : TapTake(currentN)
    BY <2>2 DEF IInv, CellsInv, TapTake, Take
  <2>3. CASE TapRenew
    BY <2>3 DEF IInv, CellsInv, TapRenew, Renew
  <2>4. CASE \E dataIN \in Value : TapStore(dataIN)
    BY <2>4, StoreCells
  <2>5. CASE \E a \in 1 .. len : TapAbort(a)
    BY <2>5, AbortCells
  <2>6. QED
    BY <2>1, <2>2, <2>3, <2>4, <2>5 DEF TapNext
<1>3. QED
  BY <1>1, <1>2 DEF IInv

(* IInv holds of every state of a line. *)
LEMMA IInvariance == TapSpec => []IInv
BY InitIInv, StepIInv, PTL DEF TapSpec

(* The line, its history and the lengths it had stay in their ranges.      *)
THEOREM TapTypeCorrect == TapSpec => []TapTypeOK
BY IInvariance, PTL DEF IInv

(* A cell holds the sample stored as long ago as its address says, once    *)
(* every later sample went into a line that reaches at least to that cell: *)
(* the shift of delayLine.vhd keeps the samples in order whatever the      *)
(* changes of currentN and the resets.                                     *)
THEOREM CellsInOrder == TapSpec => []CellsInv
BY IInvariance, PTL DEF IInv

(* dataOUT is the input of currentN - 1 samples ago at every tick for      *)
(* which the newest samples all went into a line that long.                *)
THEOREM DelayIsExact == TapSpec => ExactDelay
<1> DEFINE Exact == phase = "taken" /\ phase' = "renewed" /\ Settled(len)
                      => out' = past[len - 1]
<1>1. ASSUME IInv, TapNext PROVE Exact
  <2> USE NFacts DEF Addr
  <2> SUFFICES ASSUME phase = "taken", phase' = "renewed", Settled(len)
               PROVE  out' = past[len - 1]
    OBVIOUS
  <2>1. TapTypeOK /\ CellsInv /\ len \in 4 .. N
    BY <1>1 DEF IInv, TapTypeOK, TypeOK
  <2>2. out' = line[len - 1]
    BY <1>1 DEF TapNext, TapTake, Take, TapRenew, Renew, TapStore, Store, TapAbort, Abort
  <2>3. line[len - 1] = past[len - 1]
    <3>1. \A i \in 0 .. len - 1 : pastLen[i] \in Nat /\ pastLen[i] >= len
      BY <2>1 DEF Settled, TapTypeOK
    <3>2. QED
      BY <2>1, <3>1 DEF CellsInv
  <2>4. QED
    BY <2>2, <2>3
<1>2. IInv /\ [TapNext]_tapVars => [Exact]_tapVars
  BY <1>1
<1>3. QED
  BY <1>2, IInvariance, PTL DEF TapSpec, ExactDelay

-----------------------------------------------------------------------------
(* The chain of lines.  From here on the line is the first of a chain.     *)

(* The samples between the input and the output of line j, none for j = 0. *)
Distance(j, currentN) ==
  IF j <= Lines THEN j * (currentN - 1)
  ELSE Lines * (currentN - 1) + (j - Lines) * (asked(Lines + 1, currentN) - 1)

Last == Lines + Cells - 1

(* The samples of line j. *)
Held(j) == IF j = 1 THEN line ELSE chain[j]

(* The lines at work use as many cells as the delay of the tick asks for.  *)
LengthsInv ==
  /\ delay \in CurrentNs
  /\ age \in 0 .. LongestDelay + 1
  /\ steady \in 0 .. LongestDelay
  /\ \A j \in Behind : DOMAIN chain[j] = 0 .. built(j) - 2
  /\ phase # "ready" =>
       len = delay - 1 /\ \A j \in Behind : lens[j] = asked(j, delay) - 1

(* A cell that as many samples reached undisturbed as it is behind the     *)
(* input holds the sample of that long ago.                                *)
CellsOnTime ==
  \A j \in 1 .. Last : \A a \in 0 .. asked(j, delay) - 2 :
    steady >= Distance(j - 1, delay) + a + 1 =>
      (Held(j)[a] = 1 <=> age = Distance(j - 1, delay) + a + 1)

(* So does the output of a line, once it is renewed.                       *)
OutputsOnTime ==
  phase = "renewed" =>
    \A j \in 1 .. Last : steady >= Distance(j, delay) =>
      (interDelayed(j) = 1 <=> age = Distance(j, delay))

(* What the tick in progress finds on its way through the chain.           *)
ChainInv == TapTypeOK /\ LengthsInv /\ CellsOnTime /\ OutputsOnTime

(* A set of numbers with a bound has a largest one: the distance to the    *)
(* bound cannot get smaller without end.                                   *)
LEMMA Largest ==
  ASSUME NEW S \in SUBSET Nat, S # {}, NEW b \in Nat, \A s \in S : s <= b
  PROVE  \E d \in S : \A s \in S : s <= d
<1> DEFINE T == {b - s : s \in S}
<1>1. \A s \in S : b - s \in Nat /\ b - s \in T
  OBVIOUS
<1> HIDE DEF T
<1>2. T \subseteq Nat /\ T # {}
  BY <1>1 DEF T
<1>3. PICK x \in T : \A y \in T : ~ (<<y, x>> \in OpToRel(<, Nat))
  BY <1>2, WFMin, NatLessThanWellFounded, Zenon
<1>4. \A y \in T : ~ (y < x)
  BY <1>2, <1>3 DEF OpToRel
<1>5. PICK d \in S : x = b - d
  BY DEF T
<1>6. \A s \in S : s <= d
  BY <1>1, <1>4, <1>5
<1>7. QED
  BY <1>6

(* Products grow with their factors. *)
LEMMA Products ==
  ASSUME NEW a \in Nat, NEW b \in Nat, NEW c \in Nat, a <= b
  PROVE  a * c \in Nat /\ a * c <= b * c
OBVIOUS

(* One line more adds its own delay. *)
LEMMA OneMore ==
  ASSUME NEW a \in Nat \ {0}, NEW c \in Nat
  PROVE  a * c = (a - 1) * c + c
OBVIOUS

(* The delays asked for are numbers that the pipeline can work with.       *)
LEMMA AskedFacts ==
  ASSUME NEW n \in CurrentNs, NEW j \in Nat
  PROVE  /\ n \in 5 .. Ns_max
         /\ asked(j, n) \in Nat /\ asked(j, n) >= 5
<1>1. n \in 5 .. Ns_max
  BY CurrentNsAssumption
<1>2. n * Lines \in Nat
  BY <1>1, EarlyAssumption, NsMaxAssumption
<1>3. \A m \in Nat : m \div Ratio \in Nat
  BY EarlyAssumption
<1>4. QED
  BY <1>1, <1>2, <1>3, NsMaxAssumption DEF asked

(* Each line adds its delay to the distance from the input.                *)
LEMMA DistanceStep ==
  ASSUME NEW n \in CurrentNs, NEW j \in 1 .. Last
  PROVE  /\ Distance(j - 1, n) \in Nat
         /\ Distance(j, n) = Distance(j - 1, n) + (asked(j, n) - 1)
<1> DEFINE c == n - 1
           e == asked(Lines + 1, n) - 1
<1>1. Lines \in Nat /\ Lines >= 1 /\ Last \in Nat /\ j \in Nat /\ j >= 1
  BY EarlyAssumption DEF Last
<1>2. c \in Nat /\ e \in Nat
  BY <1>1, AskedFacts, NsMaxAssumption
<1>3. CASE j <= Lines
  <2>1. Distance(j, n) = j * c /\ Distance(j - 1, n) = (j - 1) * c /\ asked(j, n) - 1 = c
    BY <1>1, <1>3 DEF Distance, asked
  <2> HIDE DEF c
  <2>2. j * c = (j - 1) * c + c /\ (j - 1) * c \in Nat
    BY <1>1, <1>2, OneMore, Products
  <2>3. QED
    BY <2>1, <2>2
<1>4. CASE j > Lines
  <2>1. Distance(j, n) = Lines * c + (j - Lines) * e /\ asked(j, n) - 1 = e
    BY <1>1, <1>4 DEF Distance, asked
  <2>2. Lines * c \in Nat
    BY <1>1, <1>2, Products
  <2>3. Distance(j - 1, n) = Lines * c + ((j - Lines) - 1) * e
    <3>1. CASE j = Lines + 1
      <4>1. Distance(j - 1, n) = Lines * c
        BY <1>1, <3>1 DEF Distance
      <4> HIDE DEF c, e
      <4>2. QED
        BY <1>1, <1>2, <2>2, <3>1, <4>1
    <3>2. CASE j # Lines + 1
      BY <1>1, <1>4, <3>2 DEF Distance
    <3>3. QED
      BY <3>1, <3>2
  <2> HIDE DEF c, e
  <2>4. (j - Lines) * e = ((j - Lines) - 1) * e + e /\ ((j - Lines) - 1) * e \in Nat
    <3>1. j - Lines \in Nat \ {0} /\ (j - Lines) - 1 \in Nat
      BY <1>1, <1>4
    <3>2. QED
      BY <1>2, <3>1, OneMore, Products
  <2>5. QED
    BY <1>2, <2>1, <2>2, <2>3, <2>4
<1>5. QED
  BY <1>1, <1>3, <1>4

(* The echoes leave the lines from number Lines on.                        *)
LEMMA EchoDistance ==
  ASSUME NEW n \in CurrentNs, NEW i \in 1 .. Cells
  PROVE  /\ Lines + i - 1 \in 1 .. Last
         /\ EchoDelay(i, n) = Distance(Lines + i - 1, n)
         /\ EchoDelay(i, n) \in Nat
<1> DEFINE c == n - 1
           e == asked(Lines + 1, n) - 1
<1>1. Lines \in Nat /\ Lines >= 1 /\ Cells \in Nat /\ i \in Nat /\ i >= 1
  BY EarlyAssumption
<1>2. c \in Nat /\ e \in Nat
  BY <1>1, AskedFacts, NsMaxAssumption
<1>3. EchoDelay(i, n) = Lines * c + (i - 1) * e
  BY DEF EchoDelay
<1>4. Distance(Lines + i - 1, n) = IF i = 1 THEN Lines * c ELSE Lines * c + (i - 1) * e
  <2>1. CASE i = 1
    BY <1>1, <2>1 DEF Distance
  <2>2. CASE i # 1
    <3>1. ~ (Lines + i - 1 <= Lines) /\ (Lines + i - 1) - Lines = i - 1
      BY <1>1, <2>2
    <3>2. QED
      BY <2>2, <3>1 DEF Distance
  <2>3. QED
    BY <2>1, <2>2
<1> HIDE DEF c, e
<1>5. Lines * c \in Nat /\ (i - 1) * e \in Nat /\ (i = 1 => (i - 1) * e = 0)
  BY <1>1, <1>2, Products
<1>6. QED
  BY <1>1, <1>3, <1>4, <1>5 DEF Last

(* The distance grows along the chain.                                     *)
LEMMA DistanceGrows ==
  ASSUME NEW n \in CurrentNs, NEW j \in 1 .. Last
  PROVE  Distance(j, n) <= EchoDelay(Cells, n)
<1> DEFINE c == n - 1
           e == asked(Lines + 1, n) - 1
<1>1. Lines \in Nat /\ Lines >= 1 /\ Cells \in Nat /\ Cells >= 1 /\ j \in Nat /\ j <= Lines + Cells - 1
  BY EarlyAssumption DEF Last
<1>2. c \in Nat /\ e \in Nat
  BY <1>1, AskedFacts, NsMaxAssumption
<1>3. EchoDelay(Cells, n) = Lines * c + (Cells - 1) * e
  BY DEF EchoDelay
<1>4. Distance(j, n) = IF j <= Lines THEN j * c ELSE Lines * c + (j - Lines) * e
  BY DEF Distance
<1> HIDE DEF c, e
<1>5. Lines * c \in Nat /\ (Cells - 1) * e \in Nat
  BY <1>1, <1>2, Products
<1>6. CASE j <= Lines
  <2>1. j * c \in Nat /\ j * c <= Lines * c
    BY <1>1, <1>2, <1>6, Products
  <2>2. QED
    BY <1>3, <1>4, <1>5, <1>6, <2>1
<1>7. CASE j > Lines
  <2>1. j - Lines \in Nat /\ Cells - 1 \in Nat /\ j - Lines <= Cells - 1
    BY <1>1, <1>7
  <2>2. (j - Lines) * e \in Nat /\ (j - Lines) * e <= (Cells - 1) * e
    BY <1>2, <2>1, Products
  <2>3. QED
    BY <1>1, <1>3, <1>4, <1>5, <1>7, <2>2
<1>8. QED
  BY <1>1, <1>6, <1>7

(* There is a longest delay, because the lines are built with a length.    *)
LEMMA LongestDelayFacts ==
  ASSUME NEW n \in CurrentNs
  PROVE  LongestDelay \in Nat /\ EchoDelay(Cells, n) <= LongestDelay
<1> DEFINE S == {EchoDelay(Cells, m) : m \in CurrentNs}
           c == Ns_max
           e == built(Lines + 1)
           b == Lines * c + (Cells - 1) * e
<1>1. Lines \in Nat /\ Lines >= 1 /\ Cells \in Nat /\ Cells >= 1 /\ Cells - 1 \in Nat /\ c \in Nat
  BY EarlyAssumption, NsMaxAssumption
<1>2. Cells \in 1 .. Cells
  BY <1>1
<1>3. e \in Nat
  <2>1. Ns_max * Lines \in Nat
    BY <1>1
  <2>2. \A m \in Nat : m \div Ratio \in Nat
    BY EarlyAssumption
  <2>3. QED
    BY <1>1, <2>1, <2>2 DEF built
<1>4. b \in Nat
  <2> HIDE DEF c, e
  <2>1. Lines * c \in Nat /\ (Cells - 1) * e \in Nat
    BY <1>1, <1>3, Products
  <2>2. QED
    BY <2>1
<1>5. ASSUME NEW m \in CurrentNs PROVE EchoDelay(Cells, m) \in Nat /\ EchoDelay(Cells, m) <= b
  <2> DEFINE cm == m - 1
             em == asked(Lines + 1, m) - 1
  <2>1. EchoDelay(Cells, m) \in Nat
    BY <1>2, EchoDistance
  <2>2. cm \in Nat /\ em \in Nat /\ cm <= c
    BY <1>1, AskedFacts, NsMaxAssumption
  <2>3. EchoDelay(Cells, m) = Lines * cm + (Cells - 1) * em
    BY DEF EchoDelay
  <2>4. Cells # 1 => em <= e
    <3>1. Cells # 1 => Lines + 1 \in Behind
      BY <1>1 DEF Behind
    <3>2. Cells # 1 => asked(Lines + 1, m) <= built(Lines + 1)
      BY <3>1, EarlyAssumption
    <3>3. QED
      BY <1>1, <1>3, <3>2, AskedFacts
  <2> HIDE DEF c, e, cm, em
  <2>5. Lines * cm \in Nat /\ Lines * cm <= Lines * c
    BY <1>1, <2>2, Products
  <2>6. (Cells - 1) * em \in Nat /\ (Cells - 1) * em <= (Cells - 1) * e
    <3>1. CASE Cells = 1
      BY <1>1, <1>3, <2>2, <3>1
    <3>2. CASE Cells # 1
      <4>1. em * (Cells - 1) \in Nat /\ em * (Cells - 1) <= e * (Cells - 1)
        BY <1>1, <1>3, <2>2, <2>4, <3>2, Products
      <4>2. QED
        BY <1>1, <1>3, <2>2, <4>1
    <3>3. QED
      BY <3>1, <3>2
  <2>7. QED
    BY <1>1, <1>3, <2>1, <2>3, <2>5, <2>6
<1>6. S \in SUBSET Nat /\ S # {} /\ \A s \in S : s <= b
  BY <1>5
<1> HIDE DEF b
<1>7. \E d \in S : \A s \in S : s <= d
  BY <1>4, <1>6, Largest
<1>8. \E d \in S : \A m \in CurrentNs : EchoDelay(Cells, m) <= d
  BY <1>7
<1>9. LongestDelay \in S /\ \A m \in CurrentNs : EchoDelay(Cells, m) <= LongestDelay
  BY <1>8 DEF LongestDelay
<1>10. QED
  BY <1>6, <1>9

(* The first line of a chain is a line with its history.                   *)
LEMMA InitIsTap == EarlyInit => TapInit
BY NFacts, EarlyAssumption DEF EarlyInit, TapInit, Init

(* So is every step of the chain one of its first line.                    *)
LEMMA StepIsTap ==
  ASSUME TapTypeOK, [EarlyNext]_earlyVars
  PROVE  [TapNext]_tapVars
<1>1. CASE UNCHANGED earlyVars
  BY <1>1 DEF earlyVars
<1>2. CASE \E currentN \in CurrentNs : EarlyTake(currentN)
  BY <1>2 DEF EarlyTake, TapNext
<1>3. CASE EarlyRenew
  BY <1>3 DEF EarlyRenew, TapNext
<1>4. CASE \E dataIN \in Value : EarlyStore(dataIN)
  BY <1>4 DEF EarlyStore, TapNext
<1>5. CASE \E k \in 0 .. LongestShift, dataIN \in Value : EarlyReset(k, dataIN)
  <2>1. PICK k \in 0 .. LongestShift, dataIN \in Value : EarlyReset(k, dataIN)
    BY <1>5
  <2>2. CASE k < len
    <3>1. len - k \in 1 .. len
      BY <2>1, <2>2, NFacts DEF TapTypeOK, TypeOK
    <3>2. QED
      BY <2>1, <2>2, <3>1 DEF EarlyReset, TapNext
  <2>3. CASE ~ (k < len)
    BY <2>1, <2>3 DEF EarlyReset, TapNext
  <2>4. QED
    BY <2>2, <2>3
<1>6. QED
  BY <1>1, <1>2, <1>3, <1>4, <1>5 DEF EarlyNext

(* The cells up to the length of a line, the first line's too, which the   *)
(* tick asks of it.                                                        *)
LEMMA CellsFit ==
  ASSUME TapTypeOK, LengthsInv, NEW j \in 1 .. Last, NEW a \in 0 .. asked(j, delay) - 2
  PROVE  /\ delay \in CurrentNs /\ j \in Nat /\ a \in Nat
         /\ j = 1 => a \in Addr /\ asked(j, delay) = delay
         /\ j # 1 => j \in Behind /\ a \in DOMAIN chain[j]
<1>1. Lines \in Nat /\ Lines >= 1 /\ j \in Nat /\ delay \in CurrentNs
  BY EarlyAssumption DEF LengthsInv
<1>2. asked(j, delay) \in Nat /\ delay \in 5 .. Ns_max
  BY <1>1, AskedFacts
<1>3. CASE j = 1
  BY <1>1, <1>2, <1>3, NsMaxAssumption DEF asked, Addr, N
<1>4. CASE j # 1
  <2>1. j \in Behind
    BY <1>1, <1>4 DEF Behind, Last
  <2>2. asked(j, delay) <= built(j) /\ DOMAIN chain[j] = 0 .. built(j) - 2
    BY <1>1, <2>1, EarlyAssumption DEF LengthsInv
  <2>3. built(j) \in Int
    <3>1. Ns_max * Lines \in Nat
      BY <1>1, NsMaxAssumption
    <3>2. \A m \in Nat : m \div Ratio \in Nat
      BY EarlyAssumption
    <3>3. QED
      BY <1>1, <3>1, <3>2, NsMaxAssumption DEF built
  <2>4. QED
    BY <1>1, <1>2, <1>4, <2>1, <2>2, <2>3
<1>5. QED
  BY <1>3, <1>4

(* How far a cell is behind the input: never farther than the last echo.   *)
LEMMA CellDistance ==
  ASSUME NEW n \in CurrentNs, NEW j \in 1 .. Last, NEW a \in 0 .. asked(j, n) - 2
  PROVE  /\ LongestDelay \in Nat /\ a \in Nat
         /\ Distance(j - 1, n) \in Nat /\ Distance(j, n) \in Nat
         /\ Distance(j - 1, n) + a + 1 <= Distance(j, n)
         /\ Distance(j, n) <= LongestDelay
         /\ j = 1 => Distance(j - 1, n) = 0
         /\ j # 1 => Distance(j - 1, n) >= 4
<1>1. j \in Nat /\ Lines \in Nat /\ Lines >= 1
  BY EarlyAssumption
<1>2. asked(j, n) \in Nat /\ asked(j, n) >= 5 /\ n \in 5 .. Ns_max
  BY <1>1, AskedFacts
<1>3. /\ Distance(j - 1, n) \in Nat
      /\ Distance(j, n) = Distance(j - 1, n) + (asked(j, n) - 1)
  BY DistanceStep
<1>4. Distance(j, n) <= EchoDelay(Cells, n)
  BY DistanceGrows
<1>5. LongestDelay \in Nat /\ EchoDelay(Cells, n) <= LongestDelay
  BY LongestDelayFacts
<1>6. EchoDelay(Cells, n) \in Nat
  BY EchoDistance, EarlyAssumption
<1>7. CASE j = 1
  <2>1. Distance(0, n) = 0
    BY <1>1, <1>2, NsMaxAssumption DEF Distance
  <2>2. QED
    BY <1>2, <1>3, <1>4, <1>5, <1>6, <1>7, <2>1
<1>8. CASE j # 1
  <2>1. j - 1 \in 1 .. Last
    BY <1>1, <1>8, EarlyAssumption DEF Last
  <2>2. /\ Distance((j - 1) - 1, n) \in Nat
        /\ Distance(j - 1, n) = Distance((j - 1) - 1, n) + (asked(j - 1, n) - 1)
    BY <2>1, DistanceStep
  <2>3. asked(j - 1, n) \in Nat /\ asked(j - 1, n) >= 5
    BY <2>1, AskedFacts
  <2>4. Distance(j - 1, n) >= 4
    BY <2>2, <2>3
  <2>5. QED
    BY <1>2, <1>3, <1>4, <1>5, <1>6, <1>8, <2>4
<1>9. QED
  BY <1>7, <1>8

(* The last cell in use of a line and the output that it becomes.          *)
LEMMA LastCell ==
  ASSUME NEW n \in CurrentNs, NEW j \in 1 .. Last
  PROVE  /\ asked(j, n) - 2 \in 0 .. asked(j, n) - 2
         /\ Distance(j, n) = Distance(j - 1, n) + (asked(j, n) - 2) + 1
<1>1. asked(j, n) \in Nat /\ asked(j, n) >= 5
  BY AskedFacts
<1>2. /\ Distance(j - 1, n) \in Nat
      /\ Distance(j, n) = Distance(j - 1, n) + (asked(j, n) - 1)
  BY DistanceStep
<1>3. QED
  BY <1>1, <1>2

(* A tick leaves the samples alone; a new delay claims nothing of them.    *)
LEMMA TakeChain ==
  ASSUME ChainInv, NEW currentN \in CurrentNs, EarlyTake(currentN)
  PROVE  LengthsInv' /\ CellsOnTime' /\ OutputsOnTime'
<1>1. TapTypeOK /\ LengthsInv /\ CellsOnTime
  BY DEF ChainInv
<1>2. /\ len' = currentN - 1 /\ phase' = "taken" /\ UNCHANGED line
      /\ lens' = [j \in Behind |-> asked(j, currentN) - 1]
      /\ delay' = currentN
      /\ UNCHANGED <<chain, outs, age>>
      /\ IF currentN = delay THEN UNCHANGED steady ELSE steady' = 0
  BY DEF EarlyTake, TapTake, Take, Disturb
<1>3. LengthsInv'
  <2>1. LongestDelay \in Nat
    BY LongestDelayFacts
  <2>2. QED
    BY <1>1, <1>2, <2>1 DEF LengthsInv
<1>4. CellsOnTime'
  <2> SUFFICES ASSUME NEW j \in 1 .. Last, NEW a \in 0 .. asked(j, currentN) - 2,
                      steady' >= Distance(j - 1, currentN) + a + 1
               PROVE  Held(j)'[a] = 1 <=> age' = Distance(j - 1, currentN) + a + 1
    BY <1>2, Zenon DEF CellsOnTime
  <2>1. Distance(j - 1, currentN) \in Nat /\ a \in Nat
    BY CellDistance
  <2>2. currentN = delay /\ steady' = steady
    BY <1>2, <2>1
  <2>3. Held(j)' = Held(j)
    BY <1>2 DEF Held
  <2>4. QED
    BY <1>1, <1>2, <2>2, <2>3 DEF CellsOnTime
<1>5. OutputsOnTime'
  BY <1>2 DEF OutputsOnTime
<1>6. QED
  BY <1>3, <1>4, <1>5

(* The outputs take the last cells in use.                                 *)
LEMMA RenewChain ==
  ASSUME ChainInv, EarlyRenew
  PROVE  LengthsInv' /\ CellsOnTime' /\ OutputsOnTime'
<1>1. TapTypeOK /\ LengthsInv /\ CellsOnTime /\ delay \in CurrentNs
  BY DEF ChainInv, LengthsInv
<1>2. /\ phase = "taken" /\ phase' = "renewed"
      /\ out' = line[len - 1]
      /\ outs' = [j \in Behind |-> chain[j][lens[j] - 1]]
      /\ UNCHANGED <<line, len, chain, lens, delay, age, steady>>
  BY DEF EarlyRenew, TapRenew, Renew
<1>3. LengthsInv'
  BY <1>1, <1>2 DEF LengthsInv
<1>4. CellsOnTime'
  BY <1>1, <1>2 DEF CellsOnTime, Held
<1>5. OutputsOnTime'
  <2> SUFFICES ASSUME NEW j \in 1 .. Last, steady >= Distance(j, delay)
               PROVE  interDelayed(j)' = 1 <=> age = Distance(j, delay)
    BY <1>2, Zenon DEF OutputsOnTime
  <2> DEFINE a == asked(j, delay) - 2
  <2>1. a \in 0 .. asked(j, delay) - 2 /\ Distance(j, delay) = Distance(j - 1, delay) + a + 1
    BY <1>1, LastCell
  <2>2. interDelayed(j)' = Held(j)[a]
    <3>1. asked(j, delay) \in Nat /\ delay \in Nat
      BY <1>1, AskedFacts, NsMaxAssumption
    <3>2. CASE j = 1
      <4>1. asked(j, delay) = delay /\ len = delay - 1
        BY <1>1, <1>2, <2>1, <3>2, CellsFit DEF LengthsInv
      <4>2. QED
        BY <1>2, <3>1, <3>2, <4>1 DEF interDelayed, Held
    <3>3. CASE j # 1
      <4>1. j \in Behind
        BY <1>1, <2>1, <3>3, CellsFit
      <4>2. lens[j] = asked(j, delay) - 1
        BY <1>1, <1>2, <4>1 DEF LengthsInv
      <4>3. QED
        BY <1>2, <3>1, <3>3, <4>1, <4>2 DEF interDelayed, Held
    <3>4. QED
      BY <3>2, <3>3
  <2> HIDE DEF a
  <2>3. QED
    BY <1>1, <2>1, <2>2 DEF CellsOnTime
<1>6. QED
  BY <1>3, <1>4, <1>5

(* The 1 gets older by one at every tick while an echo of it can still     *)
(* come.                                                                   *)
LEMMA OlderFacts ==
  ASSUME LengthsInv, NEW dataIN \in Value, dataIN = 1 => age = 0
  PROVE  /\ Older(dataIN) \in 0 .. LongestDelay + 1
         /\ Older(dataIN) = 1 <=> dataIN = 1
         /\ \A d \in 1 .. LongestDelay : d < LongestDelay =>
              (Older(dataIN) = d + 1 <=> age = d)
<1>1. delay \in CurrentNs /\ age \in 0 .. LongestDelay + 1
  BY DEF LengthsInv
<1>2. 1 \in 1 .. Last
  BY EarlyAssumption DEF Last
<1>3. asked(1, delay) \in Nat /\ asked(1, delay) >= 5
  BY <1>1, AskedFacts
<1>4. LongestDelay \in Nat /\ LongestDelay >= 1
  <2>1. 0 \in 0 .. asked(1, delay) - 2
    BY <1>3
  <2>2. /\ LongestDelay \in Nat /\ Distance(1 - 1, delay) \in Nat /\ Distance(1, delay) \in Nat
        /\ Distance(1 - 1, delay) + 0 + 1 <= Distance(1, delay)
        /\ Distance(1, delay) <= LongestDelay
    BY <1>1, <1>2, <2>1, CellDistance
  <2>3. QED
    BY <2>2
<1>5. QED
  BY <1>1, <1>4 DEF Older

(* A whole shift: every sample moves by one cell, or to the next line, and *)
(* gets older by one tick.                                                 *)
LEMMA StoreChain ==
  ASSUME ChainInv, NEW dataIN \in Value, EarlyStore(dataIN)
  PROVE  LengthsInv' /\ CellsOnTime' /\ OutputsOnTime'
<1>1. /\ TapTypeOK /\ LengthsInv /\ CellsOnTime /\ OutputsOnTime
      /\ delay \in CurrentNs /\ steady \in 0 .. LongestDelay /\ age \in 0 .. LongestDelay + 1
  BY DEF ChainInv, LengthsInv
<1>2. /\ dataIN = 1 => age = 0
      /\ phase = "renewed" /\ phase' = "ready"
      /\ line' = [ShiftedFrom(line, len, 1) EXCEPT ![0] = dataIN]
      /\ chain' = [j \in Behind |-> Moved(j, lens[j])]
      /\ age' = Older(dataIN)
      /\ steady' = IF steady < LongestDelay THEN steady + 1 ELSE steady
      /\ UNCHANGED <<out, len, outs, lens, delay>>
  BY DEF EarlyStore, TapStore, Store
<1>3. LongestDelay \in Nat
  BY <1>1, LongestDelayFacts
<1>4. /\ len = delay - 1
      /\ \A j \in Behind : lens[j] = asked(j, delay) - 1
  BY <1>1, <1>2 DEF LengthsInv
<1>5. /\ age' \in 0 .. LongestDelay + 1
      /\ age' = 1 <=> dataIN = 1
      /\ \A d \in 1 .. LongestDelay : d < LongestDelay => (age' = d + 1 <=> age = d)
  BY <1>1, <1>2, OlderFacts
<1>6. LengthsInv'
  <2>1. \A j \in Behind : DOMAIN chain'[j] = DOMAIN chain[j]
    BY <1>2 DEF Moved, Written
  <2>2. steady' \in 0 .. LongestDelay
    BY <1>1, <1>2, <1>3
  <2>3. QED
    BY <1>1, <1>2, <1>5, <2>1, <2>2 DEF LengthsInv
<1>7. CellsOnTime'
  <2> SUFFICES ASSUME NEW j \in 1 .. Last, NEW a \in 0 .. asked(j, delay) - 2,
                      steady' >= Distance(j - 1, delay) + a + 1
               PROVE  Held(j)'[a] = 1 <=> age' = Distance(j - 1, delay) + a + 1
    BY <1>2, Zenon DEF CellsOnTime
  <2> DEFINE d == Distance(j - 1, delay) + a
  <2>1. /\ j \in Nat /\ a \in Nat
        /\ j = 1 => a \in Addr /\ asked(j, delay) = delay
        /\ j # 1 => j \in Behind /\ a \in DOMAIN chain[j]
    BY <1>1, CellsFit
  <2>2. /\ Distance(j - 1, delay) \in Nat
        /\ j = 1 => Distance(j - 1, delay) = 0
        /\ j # 1 => Distance(j - 1, delay) >= 4
        /\ d \in Nat /\ d < LongestDelay
    <3>1. /\ a \in Nat /\ Distance(j - 1, delay) \in Nat /\ Distance(j, delay) \in Nat
          /\ Distance(j - 1, delay) + a + 1 <= Distance(j, delay)
          /\ Distance(j, delay) <= LongestDelay
          /\ j = 1 => Distance(j - 1, delay) = 0
          /\ j # 1 => Distance(j - 1, delay) >= 4
      BY <1>1, CellDistance
    <3>2. QED
      BY <1>3, <3>1
  <2>3. steady >= d
    BY <1>1, <1>2, <1>3, <2>2
  <2>4. asked(j, delay) \in Nat /\ delay \in 5 .. Ns_max
    BY <1>1, <2>1, AskedFacts
  <2>5. CASE j = 1 /\ a = 0
    <3>1. Held(j)'[a] = dataIN
      BY <1>1, <1>2, <2>1, <2>5 DEF Held, ShiftedFrom, TapTypeOK, TypeOK
    <3>2. Distance(j - 1, delay) + a + 1 = 1
      BY <2>2, <2>5
    <3>3. QED
      BY <1>5, <3>1, <3>2
  <2>6. CASE j # 1 /\ a = 0
    <3>1. Held(j)'[a] = interDelayed(j - 1)
      <4>1. lens[j] >= lens[j] /\ lens[j] = asked(j, delay) - 1
        BY <1>4, <2>1, <2>4, <2>6
      <4>2. QED
        BY <1>2, <2>1, <2>6, <4>1 DEF Held, Moved, Written
    <3>2. j - 1 \in 1 .. Last
      BY <2>1, <2>6, EarlyAssumption DEF Last
    <3>3. d = Distance(j - 1, delay) /\ d \in 1 .. LongestDelay
      BY <1>3, <2>2, <2>6
    <3>4. interDelayed(j - 1) = 1 <=> age = d
      BY <1>1, <1>2, <2>3, <3>2, <3>3 DEF OutputsOnTime
    <3>5. QED
      BY <1>5, <2>2, <3>1, <3>3, <3>4
  <2>7. CASE a # 0
    <3>1. Held(j)'[a] = Held(j)[a - 1]
      <4>1. CASE j = 1
        <5>1. 1 <= a /\ a < len
          BY <1>4, <2>1, <2>4, <2>7, <4>1
        <5>2. QED
          BY <1>2, <2>1, <2>7, <4>1, <5>1 DEF Held, ShiftedFrom
      <4>2. CASE j # 1
        <5>1. /\ j \in Behind /\ a \in DOMAIN chain[j]
              /\ lens[j] - lens[j] <= a /\ a < lens[j]
          BY <1>4, <2>1, <2>4, <2>7, <4>2
        <5>2. QED
          BY <1>2, <2>7, <4>2, <5>1 DEF Held, Moved, Written
      <4>3. QED
        BY <4>1, <4>2
    <3>2. a - 1 \in 0 .. asked(j, delay) - 2
      BY <2>1, <2>4, <2>7
    <3>3. Distance(j - 1, delay) + (a - 1) + 1 = d /\ d \in 1 .. LongestDelay
      BY <1>3, <2>1, <2>2, <2>7
    <3>4. Held(j)[a - 1] = 1 <=> age = d
      BY <1>1, <2>3, <3>2, <3>3 DEF CellsOnTime
    <3>5. QED
      BY <1>5, <2>2, <3>1, <3>3, <3>4
  <2>8. QED
    BY <2>5, <2>6, <2>7
<1>8. OutputsOnTime'
  BY <1>2 DEF OutputsOnTime
<1>9. QED
  BY <1>6, <1>7, <1>8

(* A reset stops each line where it is; nothing is claimed of the samples  *)
(* until enough of them have gone through undisturbed.                     *)
LEMMA ResetChain ==
  ASSUME ChainInv, NEW k \in 0 .. LongestShift, NEW dataIN \in Value, EarlyReset(k, dataIN)
  PROVE  LengthsInv' /\ CellsOnTime' /\ OutputsOnTime'
<1>1. LengthsInv /\ delay \in CurrentNs
  BY DEF ChainInv, LengthsInv
<1>2. /\ dataIN = 1 => age = 0
      /\ phase' = "ready"
      /\ chain' = [j \in Behind |-> Moved(j, k)]
      /\ age' = Older(dataIN) /\ steady' = 0
      /\ UNCHANGED <<outs, lens, delay>>
  BY DEF EarlyReset, TapStore, Store, TapAbort, Abort, Disturb
<1>3. LongestDelay \in Nat
  BY <1>1, LongestDelayFacts
<1>4. LengthsInv'
  <2>1. \A j \in Behind : DOMAIN chain'[j] = DOMAIN chain[j]
    BY <1>2 DEF Moved, Written
  <2>2. age' \in 0 .. LongestDelay + 1
    BY <1>1, <1>2, OlderFacts
  <2>3. QED
    BY <1>1, <1>2, <1>3, <2>1, <2>2 DEF LengthsInv
<1>5. CellsOnTime'
  <2> SUFFICES ASSUME NEW j \in 1 .. Last, NEW a \in 0 .. asked(j, delay) - 2,
                      0 >= Distance(j - 1, delay) + a + 1
               PROVE  FALSE
    BY <1>2, Zenon DEF CellsOnTime
  <2>1. Distance(j - 1, delay) \in Nat /\ a \in Nat
    BY <1>1, CellDistance
  <2>2. QED
    BY <2>1
<1>6. OutputsOnTime'
  BY <1>2 DEF OutputsOnTime
<1>7. QED
  BY <1>4, <1>5, <1>6

(* In a new chain no sample has gone anywhere. *)
LEMMA InitChainInv == EarlyInit => ChainInv
<1> SUFFICES ASSUME EarlyInit PROVE ChainInv
  OBVIOUS
<1>1. TapTypeOK
  BY InitIsTap, InitIInv DEF IInv
<1>2. LongestDelay \in Nat /\ delay \in CurrentNs
  BY LongestDelayFacts DEF EarlyInit
<1>3. LengthsInv
  BY <1>2 DEF LengthsInv, EarlyInit, TapInit, Init
<1>4. CellsOnTime
  <2> SUFFICES ASSUME NEW j \in 1 .. Last, NEW a \in 0 .. asked(j, delay) - 2,
                      steady >= Distance(j - 1, delay) + a + 1
               PROVE  FALSE
    BY DEF CellsOnTime
  <2>1. Distance(j - 1, delay) \in Nat /\ a \in Nat
    BY <1>2, CellDistance
  <2>2. QED
    BY <2>1 DEF EarlyInit
<1>5. OutputsOnTime
  BY DEF OutputsOnTime, EarlyInit, TapInit, Init
<1>6. QED
  BY <1>1, <1>3, <1>4, <1>5 DEF ChainInv

(* ChainInv is inductive. *)
LEMMA StepChainInv ==
  ASSUME ChainInv, [EarlyNext]_earlyVars
  PROVE  ChainInv'
<1>1. TapTypeOK'
  BY StepIsTap, StepTypeOK DEF ChainInv
<1>2. LengthsInv' /\ CellsOnTime' /\ OutputsOnTime'
  <2>1. CASE UNCHANGED earlyVars
    <3>1. UNCHANGED <<line, out, phase, len, chain, outs, lens, delay, age, steady>>
      BY <2>1 DEF earlyVars, tapVars, vars
    <3>2. QED
      BY <3>1 DEF ChainInv, LengthsInv, CellsOnTime, OutputsOnTime, Held, interDelayed
  <2>2. CASE \E currentN \in CurrentNs : EarlyTake(currentN)
    BY <2>2, TakeChain
  <2>3. CASE EarlyRenew
    BY <2>3, RenewChain
  <2>4. CASE \E dataIN \in Value : EarlyStore(dataIN)
    BY <2>4, StoreChain
  <2>5. CASE \E k \in 0 .. LongestShift, dataIN \in Value : EarlyReset(k, dataIN)
    BY <2>5, ResetChain
  <2>6. QED
    BY <2>1, <2>2, <2>3, <2>4, <2>5 DEF EarlyNext
<1>3. QED
  BY <1>1, <1>2 DEF ChainInv

(* ChainInv holds of every state of a chain. *)
LEMMA ChainInvariance == EarlySpec => []ChainInv
BY InitChainInv, StepChainInv, PTL DEF EarlySpec

(* The first line of the chain of earlyReverb.vhd does what a line by      *)
(* itself does: CellsInOrder and DelayIsExact are theorems of it too.      *)
THEOREM ChainBeginsWithATap == EarlySpec => TapSpec
<1>1. ChainInv /\ [EarlyNext]_earlyVars => [TapNext]_tapVars
  BY StepIsTap DEF ChainInv
<1>2. QED
  BY <1>1, InitIsTap, ChainInvariance, PTL DEF EarlySpec, TapSpec

(* Every echo is the input of exactly EchoDelay(i) samples ago, for every  *)
(* number of lines and echoes, every length and every history of delays    *)
(* and resets, as soon as so many samples went through undisturbed.        *)
THEOREM EchoesAreOnTime == EarlySpec => []EchoesOnTime
<1>1. ASSUME ChainInv PROVE EchoesOnTime
  <2> SUFFICES ASSUME NEW i \in 1 .. Cells, phase = "renewed",
                      steady >= EchoDelay(i, delay)
               PROVE  delayedInputs(i) = 1 <=> age = EchoDelay(i, delay)
    BY DEF EchoesOnTime
  <2>1. delay \in CurrentNs
    BY <1>1 DEF ChainInv, LengthsInv
  <2>2. Lines + i - 1 \in 1 .. Last /\ EchoDelay(i, delay) = Distance(Lines + i - 1, delay)
    BY <2>1, EchoDistance
  <2>3. QED
    BY <1>1, <2>2 DEF ChainInv, OutputsOnTime, delayedInputs
<1>2. QED
  BY <1>1, ChainInvariance, PTL

-----------------------------------------------------------------------------
(* The lines behind the first one. *)

(* What they hold and give are samples, and the cells in use are those of  *)
(* their own.                                                              *)
BehindInv ==
  \A j \in Behind :
    /\ chain[j] \in [0 .. built(j) - 2 -> Value]
    /\ outs[j] \in Value
    /\ lens[j] \in 4 .. built(j) - 1

(* A line behind the first one can be built, and be asked for any delay.   *)
LEMMA BehindFacts ==
  ASSUME NEW j \in Behind, NEW n \in CurrentNs
  PROVE  /\ j \in Nat /\ j # 1
         /\ built(j) \in Nat /\ built(j) >= 5
         /\ asked(j, n) \in 5 .. built(j)
<1>1. j \in Nat /\ j >= 2 /\ Lines \in Nat
  BY EarlyAssumption DEF Behind
<1>2. built(j) \in Nat
  <2>1. Ns_max * Lines \in Nat
    BY <1>1, NsMaxAssumption
  <2>2. \A m \in Nat : m \div Ratio \in Nat
    BY EarlyAssumption
  <2>3. QED
    BY <1>1, <2>1, <2>2, NsMaxAssumption DEF built
<1>3. asked(j, n) \in Nat /\ asked(j, n) >= 5
  BY <1>1, AskedFacts
<1>4. asked(j, n) <= built(j)
  BY EarlyAssumption
<1>5. QED
  BY <1>1, <1>2, <1>3, <1>4

(* What a line takes from its neighbour is a sample.  *)
LEMMA NeighbourIsASample ==
  ASSUME TapTypeOK, BehindInv, NEW j \in Behind
  PROVE  interDelayed(j - 1) \in Value
<1>1. Lines \in Nat /\ Lines >= 1 /\ Cells \in Nat
  BY EarlyAssumption
<1>2. j - 1 # 1 => j - 1 \in Behind
  BY <1>1 DEF Behind
<1>3. QED
  BY <1>2 DEF interDelayed, BehindInv, TapTypeOK, TypeOK

(* A tick is a tick of each line, for the delay asked of it.               *)
LEMMA TakeOfLine ==
  ASSUME BehindInv, NEW currentN \in CurrentNs, EarlyTake(currentN), NEW j \in Behind
  PROVE  Line(j)!Take(asked(j, currentN))
BY DEF EarlyTake, TapTake, Take, Line!Take

(* So is the renewal of the outputs.                                       *)
LEMMA RenewOfLine ==
  ASSUME BehindInv, EarlyRenew, NEW j \in Behind
  PROVE  Line(j)!Renew
BY DEF EarlyRenew, TapRenew, Renew, Line!Renew

(* What k writes of a shift leave in a line, cell by cell.                 *)
LEMMA MovedFacts ==
  ASSUME ChainInv, BehindInv, NEW j \in Behind, NEW k \in Nat
  PROVE  /\ Moved(j, k) \in [0 .. built(j) - 2 -> Value]
         /\ k >= lens[j] =>
              Moved(j, k) = [a \in 0 .. built(j) - 2 |->
                               IF a = 0 THEN interDelayed(j - 1)
                               ELSE IF a < lens[j] THEN chain[j][a - 1] ELSE chain[j][a]]
         /\ k < lens[j] =>
              Moved(j, k) = [a \in 0 .. built(j) - 2 |->
                               IF lens[j] - k <= a /\ a < lens[j]
                               THEN chain[j][a - 1] ELSE chain[j][a]]
<1> DEFINE D == 0 .. built(j) - 2
           l == chain[j]
           m == lens[j]
<1>1. l \in [D -> Value] /\ m \in Nat /\ DOMAIN l = D /\ built(j) \in Nat
  <2>1. delay \in CurrentNs
    BY DEF ChainInv, LengthsInv
  <2>2. built(j) \in Nat
    BY <2>1, BehindFacts
  <2>3. QED
    BY <2>2 DEF BehindInv
<1>2. interDelayed(j - 1) \in Value
  BY NeighbourIsASample DEF ChainInv
<1>3. Moved(j, k) = [a \in D |-> IF a = 0 THEN IF k >= m THEN interDelayed(j - 1) ELSE l[0]
                                 ELSE IF m - k <= a /\ a < m THEN l[a - 1] ELSE l[a]]
  BY <1>1 DEF Moved, Written
<1> HIDE DEF l, m
<1>4. \A a \in D : a # 0 => a \in Nat /\ a - 1 \in D
  BY <1>1
<1>5. \A a \in D : l[a] \in Value /\ (a # 0 => l[a - 1] \in Value)
  BY <1>1, <1>4
<1>6. Moved(j, k) \in [D -> Value]
  BY <1>2, <1>3, <1>5
<1>7. ASSUME k >= m
      PROVE  Moved(j, k) = [a \in D |-> IF a = 0 THEN interDelayed(j - 1)
                                        ELSE IF a < m THEN l[a - 1] ELSE l[a]]
  <2>1. \A a \in D : a # 0 => m - k <= a
    BY <1>1, <1>4, <1>7
  <2>2. QED
    BY <1>3, <1>7, <2>1
<1>8. ASSUME k < m
      PROVE  Moved(j, k) = [a \in D |-> IF m - k <= a /\ a < m THEN l[a - 1] ELSE l[a]]
  <2>1. ~ (k >= m) /\ ~ (m - k <= 0)
    BY <1>1, <1>8
  <2>2. QED
    BY <1>3, <2>1
<1>9. QED
  BY <1>6, <1>7, <1>8 DEF l, m

(* The cells of a line are those it was built with. *)
LEMMA CellsOfLine ==
  ASSUME delay \in CurrentNs, NEW j \in Behind
  PROVE  Line(j)!N = built(j) - 1 /\ Line(j)!Addr = 0 .. built(j) - 2
<1>1. built(j) \in Nat
  BY BehindFacts
<1>2. QED
  BY <1>1 DEF Line!Addr, Line!N

(* A shift that came to its end stores the output of the neighbour.        *)
LEMMA StoreOfLine ==
  ASSUME ChainInv, BehindInv, NEW j \in Behind, NEW k \in Nat, k >= lens[j],
         phase = "renewed", phase' = "ready", chain'[j] = Moved(j, k),
         outs'[j] = outs[j], lens'[j] = lens[j]
  PROVE  \E dataIN \in Value : Line(j)!Store(dataIN)
<1> DEFINE D == 0 .. built(j) - 2
           x == interDelayed(j - 1)
           S == Line(j)!ShiftedFrom(chain[j], lens[j], 1)
<1>1. TapTypeOK /\ delay \in CurrentNs
  BY DEF ChainInv, LengthsInv
<1>2. x \in Value /\ Line(j)!Addr = D
  BY <1>1, NeighbourIsASample, CellsOfLine
<1>3. chain'[j] = [a \in D |-> IF a = 0 THEN x
                               ELSE IF a < lens[j] THEN chain[j][a - 1] ELSE chain[j][a]]
  BY <1>1, MovedFacts
<1>4. S = [a \in D |-> IF 1 <= a /\ a < lens[j] THEN chain[j][a - 1] ELSE chain[j][a]]
  BY <1>2 DEF Line!ShiftedFrom
<1>5. chain'[j] = [S EXCEPT ![0] = x]
  <2>1. \A a \in D : a # 0 => 1 <= a
    OBVIOUS
  <2>2. \A a \in D : chain'[j][a] = [S EXCEPT ![0] = x][a]
    BY <1>3, <1>4, <2>1
  <2>3. QED
    BY <1>3, <1>4, <2>2
<1>6. Line(j)!Store(x)
  BY <1>5 DEF Line!Store
<1>7. QED
  BY <1>2, <1>6

(* A reset finds the line amid its shift, or waiting for it.               *)
LEMMA AbortOfLine ==
  ASSUME ChainInv, BehindInv, NEW j \in Behind, NEW k \in Nat, k < lens[j],
         phase = "renewed" \/ (phase = "taken" /\ k = 0), phase' = "ready",
         chain'[j] = Moved(j, k), outs'[j] = outs[j], lens'[j] = lens[j]
  PROVE  \E a \in 1 .. lens[j] : Line(j)!Abort(a)
<1> DEFINE D == 0 .. built(j) - 2
           a == lens[j] - k
<1>1. TapTypeOK /\ delay \in CurrentNs /\ lens[j] \in Nat
  BY DEF ChainInv, LengthsInv, BehindInv
<1>2. a \in 1 .. lens[j] /\ (k = 0 => a = lens[j])
  BY <1>1
<1>3. Line(j)!Addr = D
  BY <1>1, CellsOfLine
<1>4. chain'[j] = [i \in D |-> IF a <= i /\ i < lens[j] THEN chain[j][i - 1] ELSE chain[j][i]]
  BY <1>1, MovedFacts
<1> HIDE DEF a
<1>5. chain'[j] = Line(j)!ShiftedFrom(chain[j], lens[j], a)
  BY <1>3, <1>4 DEF Line!ShiftedFrom
<1>6. Line(j)!Abort(a)
  BY <1>2, <1>5 DEF Line!Abort
<1>7. QED
  BY <1>2, <1>6

(* The longest shift is that of one of two lines. *)
LEMMA LongestShiftIsANumber ==
  ASSUME delay \in CurrentNs
  PROVE  LongestShift \in Nat
<1> DEFINE first == built(1)
           last == built(Lines + Cells - 1)
<1>1. first \in Nat /\ last \in Nat
  <2>1. Ns_max * Lines \in Nat /\ Ns_max \in Nat
    BY EarlyAssumption, NsMaxAssumption
  <2>2. \A m \in Nat : m \div Ratio \in Nat
    BY EarlyAssumption
  <2>3. QED
    BY <2>1, <2>2 DEF built
<1> HIDE DEF first, last
<1>2. \E m \in {first, last} : m >= first /\ m >= last
  BY <1>1
<1>3. LongestShift \in {first, last}
  <2>1. LongestShift = CHOOSE m \in {first, last} : m >= first /\ m >= last
    BY DEF LongestShift, first, last
  <2>2. QED
    BY <1>2, <2>1
<1>4. QED
  BY <1>1, <1>3

(* A reset is one for each line: the short ones may be done already.       *)
LEMMA ResetOfLine ==
  ASSUME ChainInv, BehindInv, NEW k \in 0 .. LongestShift, NEW dataIN \in Value,
         EarlyReset(k, dataIN), NEW j \in Behind
  PROVE  \/ \E x \in Value : Line(j)!Store(x)
         \/ \E a \in 1 .. lens[j] : Line(j)!Abort(a)
<1>1. k \in Nat /\ len \in Nat /\ len >= 4 /\ lens[j] \in Nat /\ lens[j] >= 4
  <2>1. delay \in CurrentNs /\ len \in 4 .. N /\ lens[j] \in 4 .. built(j) - 1
    BY DEF ChainInv, LengthsInv, TapTypeOK, TypeOK, BehindInv
  <2>2. LongestShift \in Nat /\ N \in Nat /\ built(j) \in Nat
    BY <2>1, LongestShiftIsANumber, NFacts, BehindFacts
  <2>3. QED
    BY <2>1, <2>2
<1>2. /\ phase' = "ready" /\ chain'[j] = Moved(j, k)
      /\ outs'[j] = outs[j] /\ lens'[j] = lens[j]
  BY DEF EarlyReset, TapAbort, Abort, TapStore, Store
<1>3. phase = "renewed" \/ (phase = "taken" /\ k = 0)
  <2>1. CASE k < len
    <3>1. phase = "renewed" \/ (phase = "taken" /\ len - k = len)
      BY <2>1 DEF EarlyReset, TapAbort, Abort
    <3>2. QED
      BY <1>1, <3>1
  <2>2. CASE ~ (k < len)
    BY <2>2 DEF EarlyReset, TapStore, Store
  <2>3. QED
    BY <2>1, <2>2
<1>4. CASE k < lens[j]
  BY <1>1, <1>2, <1>3, <1>4, AbortOfLine
<1>5. CASE k >= lens[j]
  <2>1. phase = "renewed"
    BY <1>1, <1>3, <1>5
  <2>2. QED
    BY <1>1, <1>2, <1>5, <2>1, StoreOfLine
<1>6. QED
  BY <1>1, <1>4, <1>5

(* Every step of the chain is one of each of its lines.                    *)
LEMMA StepIsALines ==
  ASSUME ChainInv, BehindInv, [EarlyNext]_earlyVars, NEW j \in Behind
  PROVE  [Line(j)!Next]_(Line(j)!vars)
<1>1. CASE UNCHANGED earlyVars
  BY <1>1 DEF earlyVars, tapVars, vars, Line!vars
<1>2. CASE \E currentN \in CurrentNs : EarlyTake(currentN)
  BY <1>2, TakeOfLine DEF Line!Next
<1>3. CASE EarlyRenew
  BY <1>3, RenewOfLine DEF Line!Next
<1>4. CASE \E dataIN \in Value : EarlyStore(dataIN)
  <2>1. PICK dataIN \in Value : EarlyStore(dataIN)
    BY <1>4
  <2>2. /\ phase = "renewed" /\ phase' = "ready" /\ chain'[j] = Moved(j, lens[j])
        /\ outs'[j] = outs[j] /\ lens'[j] = lens[j]
    BY <2>1 DEF EarlyStore, TapStore, Store
  <2>3. lens[j] \in Nat /\ lens[j] >= lens[j]
    BY DEF BehindInv
  <2>4. \E x \in Value : Line(j)!Store(x)
    BY <2>2, <2>3, StoreOfLine
  <2>5. QED
    BY <2>4 DEF Line!Next
<1>5. CASE \E k \in 0 .. LongestShift, dataIN \in Value : EarlyReset(k, dataIN)
  BY <1>5, ResetOfLine DEF Line!Next
<1>6. QED
  BY <1>1, <1>2, <1>3, <1>4, <1>5 DEF EarlyNext

(* What the lines hold remains samples. *)
LEMMA InitBehindInv == EarlyInit => BehindInv
<1> SUFFICES ASSUME EarlyInit, NEW j \in Behind
             PROVE  /\ chain[j] \in [0 .. built(j) - 2 -> Value]
                    /\ outs[j] \in Value
                    /\ lens[j] \in 4 .. built(j) - 1
  BY DEF BehindInv
<1>1. built(j) \in Nat /\ built(j) >= 5
  BY BehindFacts DEF EarlyInit
<1>2. 0 \in Value
  BY EarlyAssumption
<1>3. QED
  BY <1>1, <1>2 DEF EarlyInit

(* A new chain is made of new lines. *)
LEMMA InitIsALines ==
  ASSUME EarlyInit, NEW j \in Behind
  PROVE  Line(j)!Init
<1>1. BehindInv /\ Line(j)!Addr = 0 .. built(j) - 2
  BY InitBehindInv, CellsOfLine DEF EarlyInit
<1>2. QED
  BY <1>1 DEF BehindInv, Line!Init, EarlyInit, TapInit, Init

(* BehindInv is inductive, beside ChainInv. *)
LEMMA StepBehindInv ==
  ASSUME ChainInv, BehindInv, [EarlyNext]_earlyVars
  PROVE  BehindInv'
<1> SUFFICES ASSUME NEW j \in Behind
             PROVE  /\ chain'[j] \in [0 .. built(j) - 2 -> Value]
                    /\ outs'[j] \in Value
                    /\ lens'[j] \in 4 .. built(j) - 1
  BY Zenon DEF BehindInv
<1>1. /\ chain[j] \in [0 .. built(j) - 2 -> Value]
      /\ outs[j] \in Value
      /\ lens[j] \in 4 .. built(j) - 1
  BY DEF BehindInv
<1>2. built(j) \in Nat /\ delay \in CurrentNs
  BY BehindFacts DEF ChainInv, LengthsInv
<1>3. ASSUME NEW k \in Nat, chain'[j] = Moved(j, k), UNCHANGED <<outs, lens>>
      PROVE  /\ chain'[j] \in [0 .. built(j) - 2 -> Value]
             /\ outs'[j] \in Value /\ lens'[j] \in 4 .. built(j) - 1
  BY <1>1, <1>3, MovedFacts
<1>4. CASE UNCHANGED earlyVars
  BY <1>1, <1>4 DEF earlyVars
<1>5. CASE \E currentN \in CurrentNs : EarlyTake(currentN)
  <2>1. PICK currentN \in CurrentNs : EarlyTake(currentN)
    BY <1>5
  <2>2. lens'[j] = asked(j, currentN) - 1 /\ UNCHANGED <<chain, outs>>
    BY <2>1 DEF EarlyTake
  <2>3. asked(j, currentN) \in 5 .. built(j)
    BY BehindFacts
  <2>4. lens'[j] \in 4 .. built(j) - 1
    BY <1>2, <2>2, <2>3
  <2>5. QED
    BY <1>1, <2>2, <2>4
<1>6. CASE EarlyRenew
  <2>1. outs'[j] = chain[j][lens[j] - 1] /\ UNCHANGED <<chain, lens>>
    BY <1>6 DEF EarlyRenew
  <2>2. lens[j] - 1 \in 0 .. built(j) - 2
    BY <1>1, <1>2
  <2>3. QED
    BY <1>1, <2>1, <2>2
<1>7. CASE \E dataIN \in Value : EarlyStore(dataIN)
  <2>1. chain'[j] = Moved(j, lens[j]) /\ UNCHANGED <<outs, lens>>
    BY <1>7 DEF EarlyStore
  <2>2. lens[j] \in Nat
    BY <1>1, <1>2
  <2>3. QED
    BY <1>3, <2>1, <2>2
<1>8. CASE \E k \in 0 .. LongestShift, dataIN \in Value : EarlyReset(k, dataIN)
  <2>1. PICK k \in 0 .. LongestShift, dataIN \in Value : EarlyReset(k, dataIN)
    BY <1>8
  <2>2. chain'[j] = Moved(j, k) /\ UNCHANGED <<outs, lens>>
    BY <2>1 DEF EarlyReset
  <2>3. LongestShift \in Nat
    BY <1>2, LongestShiftIsANumber
  <2>4. k \in Nat
    BY <2>3
  <2>5. QED
    BY <1>3, <2>2, <2>4
<1>9. QED
  BY <1>4, <1>5, <1>6, <1>7, <1>8 DEF EarlyNext

(* Both hold of every state of a chain. *)
LEMMA BehindInvariance == EarlySpec => [](ChainInv /\ BehindInv)
<1>1. EarlyInit => ChainInv /\ BehindInv
  BY InitChainInv, InitBehindInv
<1>2. ChainInv /\ BehindInv /\ [EarlyNext]_earlyVars => (ChainInv /\ BehindInv)'
  BY StepChainInv, StepBehindInv
<1>3. QED
  BY <1>1, <1>2, PTL DEF EarlySpec

(* Each of the lines behind the first one is a delay line by itself, for   *)
(* every number of lines and echoes, every length and every history: what  *)
(* it shares with the others, the tick, the reset and their outputs, never *)
(* makes it do what a single delayLine.vhd could not.                      *)
THEOREM EveryLineIsOne == EarlySpec => EveryLineIsADelayLine
<1> DEFINE Steps == \A j \in Behind : [Line(j)!Next]_(Line(j)!vars)
<1>1. EarlyInit => \A j \in Behind : Line(j)!Init
  BY InitIsALines
<1>2. ChainInv /\ BehindInv /\ [EarlyNext]_earlyVars => [Steps]_earlyVars
  BY StepIsALines
<1> HIDE DEF Steps
<1>3. EarlySpec => (\A j \in Behind : Line(j)!Init) /\ [][Steps]_earlyVars
  BY <1>1, <1>2, BehindInvariance, PTL DEF EarlySpec
<1>4. QED
  BY <1>3 DEF EveryLineIsADelayLine, Steps

(* The same of one line, as an implementation of SampleDelay: whatever is  *)
(* proved of SampleDelay holds of it.                                      *)
THEOREM LineIsADelayLine ==
  ASSUME NEW j \in Behind
  PROVE  EarlySpec => Line(j)!Spec
<1>1. EarlyInit => Line(j)!Init
  BY InitIsALines
<1>2. ChainInv /\ BehindInv /\ [EarlyNext]_earlyVars => [Line(j)!Next]_(Line(j)!vars)
  BY StepIsALines
<1>3. QED
  BY <1>1, <1>2, BehindInvariance, PTL DEF EarlySpec, Line!Spec

==============================================================================
