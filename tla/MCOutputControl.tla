--------------------------- MODULE MCOutputControl ---------------------------
(***************************************************************************)
(* OutputControl for TLC: two outputs, of which Automatic prefers the one  *)
(* with the higher address.  The number of handlers has no bound; all the  *)
(* state is finite.                                                        *)
(***************************************************************************)
EXTENDS OutputControl
=============================================================================
