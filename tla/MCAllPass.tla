------------------------------ MODULE MCAllPass ------------------------------
(***************************************************************************)
(* Instance of AllPass for TLC: the shortest line, and the loudest samples *)
(* within 25/63 of the full scale.                                         *)
(***************************************************************************)
EXTENDS AllPass

MCQuiet == {-((25 * X) \div 63), (25 * X) \div 63}

==============================================================================
