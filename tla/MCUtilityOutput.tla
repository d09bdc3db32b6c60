--------------------------- MODULE MCUtilityOutput ---------------------------
(***************************************************************************)
(* UtilityOutput.tla for TLC.                                              *)
(***************************************************************************)
EXTENDS UtilityOutput
===============================================================================
