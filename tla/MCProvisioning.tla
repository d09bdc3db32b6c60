---------------------------- MODULE MCProvisioning ----------------------------
(***************************************************************************)
(* Instances of Provisioning.tla for TLC.                                  *)
(***************************************************************************)
EXTENDS Provisioning, TLC

\* Keys are interchangeable.
Symmetry == Permutations(Key)
===============================================================================
