---------------------------- MODULE MCParamControl ----------------------------
(***************************************************************************)
(* Instance of ParamControl for TLC: the steps of a key are long, so that  *)
(* every value reaches both its limits after a few passes, in several      *)
(* ways because the limits are not multiples of the step.                  *)
(***************************************************************************)
EXTENDS ParamControl

MCIncr == [p \in Param |-> IF p = "PREDELAY" THEN 331 ELSE 10]

===============================================================================
