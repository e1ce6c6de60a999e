----------------------------- MODULE MCCombFilter -----------------------------
(***************************************************************************)
(* Instance of CombFilter for TLC: quiet samples, no damping and that of   *)
(* one half, and a decay just beyond one half.                             *)
(***************************************************************************)
EXTENDS CombFilter

MCQuiet == {-16, 16}
MCDecay == {17 * (H \div 16)}
MCDamping == {0, H - 1}

==============================================================================
