--------------------------- MODULE MCNetworkTasks ---------------------------
(***************************************************************************)
(* Instances of NetworkTasks.tla for TLC.                                  *)
(***************************************************************************)
EXTENDS NetworkTasks
=============================================================================
