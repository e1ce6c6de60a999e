------------------------------- MODULE DelayTap -------------------------------
(***************************************************************************)
(* SampleDelay with the memory of what it was given: past[i] is the i-th   *)
(* newest sample stored (past[0] the newest) and pastLen[i] the cells in   *)
(* use when it was.  With it, the one promise of a delay line that its     *)
(* users hear can be stated: the output is the input of so many samples    *)
(* ago, and a change of the delay or a reset disturbs it no longer than it *)
(* has to.                                                                 *)
(***************************************************************************)
EXTENDS SampleDelay

VARIABLES past, pastLen

tapVars == <<vars, past, pastLen>>

(* No sample stored yet is 0 cells deep. *)
TapInit ==
  /\ Init
  /\ past \in [Addr -> Value]
  /\ pastLen = [i \in Addr |-> 0]

TapTake(currentN) == Take(currentN) /\ UNCHANGED <<past, pastLen>>

TapRenew == Renew /\ UNCHANGED <<past, pastLen>>

TapStore(dataIN) ==
  /\ Store(dataIN)
  /\ past' = [i \in Addr |-> IF i = 0 THEN dataIN ELSE past[i - 1]]
  /\ pastLen' = [i \in Addr |-> IF i = 0 THEN len ELSE pastLen[i - 1]]

(* What the aborted shift has moved no longer counts as stored in order. *)
TapAbort(a) ==
  /\ Abort(a)
  /\ pastLen' = [i \in Addr |-> IF i < a THEN pastLen[i] ELSE 0]
  /\ UNCHANGED past

TapNext ==
  \/ \E currentN \in CurrentNs : TapTake(currentN)
  \/ TapRenew
  \/ \E dataIN \in Value : TapStore(dataIN)
  \/ \E a \in 1 .. len : TapAbort(a)

TapSpec == TapInit /\ [][TapNext]_tapVars

-----------------------------------------------------------------------------
(* The newest m samples all went into a line of at least m cells. *)
Settled(m) == \A i \in 0 .. m - 1 : pastLen[i] >= m

TapTypeOK ==
  /\ TypeOK
  /\ past \in [Addr -> Value]
  /\ pastLen \in [Addr -> 0 .. N]

(* A cell still holds the sample stored that long ago, when each sample    *)
(* stored since went into a line that reaches at least to that cell.       *)
CellsInv ==
  \A c \in Addr :
    (\A i \in 0 .. c : pastLen[i] > 0) /\ (\A i \in 0 .. c - 1 : pastLen[i] > c)
      => line[c] = past[c]

(* Whenever the output is renewed, it becomes the sample stored len        *)
(* samples ago if the newest len samples went into lines that long: len    *)
(* samples after the delay has grown, and at once after it has shrunk.     *)
ExactDelay ==
  [][phase = "taken" /\ phase' = "renewed" /\ Settled(len)
       => out' = past[len - 1]]_tapVars

===============================================================================
