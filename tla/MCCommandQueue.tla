--------------------------- MODULE MCCommandQueue ---------------------------
(***************************************************************************)
(* CommandQueue for TLC.  Three tasks are one more than the firmware has,  *)
(* so that a queue with two places can be full.                            *)
(***************************************************************************)
EXTENDS CommandQueue

=============================================================================
