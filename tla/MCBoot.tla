-------------------------------- MODULE MCBoot --------------------------------
(***************************************************************************)
(* Boot.tla for TLC.                                                       *)
(***************************************************************************)
EXTENDS Boot, TLC

Symmetry == Permutations(ThingName)
===============================================================================
