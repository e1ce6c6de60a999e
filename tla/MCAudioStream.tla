---------------------------- MODULE MCAudioStream ----------------------------
(***************************************************************************)
(* Instance of AudioStream for TLC.  The FIFOs are short so that they fill *)
(* after a few frames, and the half period is the shortest one in which    *)
(* the loop settles; the delays lie at both ends of what it admits.        *)
(***************************************************************************)
EXTENDS SerialAudio

MCEmptyLags == 0 .. 2
MCHolds == BOOLEAN
MCBclkLeads == {0, 1}
MCLineBusy == {6, HalfPeriod, 2 * HalfPeriod - 4}

=============================================================================
