------------------------------ MODULE MCCombLines ------------------------------
(***************************************************************************)
(* Instance of CombLines for TLC: the shortest lines, an odd length, and   *)
(* samples and settings that let few different values into the loop.       *)
(***************************************************************************)
EXTENDS CombLines

MCInput == {-1, 0}
MCDamping == {0, 2}
MCDecay == {0, 1}

==============================================================================
