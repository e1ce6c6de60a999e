----------------------------- MODULE MCDelayLine -----------------------------
(***************************************************************************)
(* Instance of DelayLine for TLC.  Two samples are enough: every property  *)
(* compares the words of two cells, and the RAM starts with every possible *)
(* content.                                                                *)
(***************************************************************************)
EXTENDS DelayLine, TLC

CONSTANTS s1, s2

MCValue == {s1, s2}
MCCurrentNs == 5 .. Ns_max
SampleSymmetry == Permutations(MCValue)

=============================================================================
