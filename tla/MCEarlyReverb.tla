---------------------------- MODULE MCEarlyReverb ----------------------------
(***************************************************************************)
(* Instance of EarlyReverb for TLC: two lines for the first echo and one   *)
(* for the second, delays of five and eleven samples.                      *)
(***************************************************************************)
EXTENDS EarlyReverb

MCValue == {0, 1}
MCCurrentNs == {5, 11}

=============================================================================
