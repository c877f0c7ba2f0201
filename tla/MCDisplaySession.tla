-------------------------- MODULE MCDisplaySession --------------------------
(***************************************************************************)
(* DisplaySession for TLC.                                                 *)
(***************************************************************************)
EXTENDS DisplaySession

BothModes == {"automatic", "wireless"}
AllCables == {"up", "down", "flaky"}
SevenNonces == 1..7
Faults == [m \in BothModes |-> IF m = "wireless" THEN 2 ELSE 1]
=============================================================================
