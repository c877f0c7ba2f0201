-------------------------- MODULE MCExtractorLogic --------------------------
(***************************************************************************)
(* A small instance of ExtractorLogic: a clock of eight seconds,           *)
(* after-runs of up to three, one tool, and the levels, flows and limits   *)
(* that make every clamp act.                                              *)
(***************************************************************************)
EXTENDS ExtractorLogic
=============================================================================
