--------------------------- MODULE MCInputRouting ---------------------------
(***************************************************************************)
(* InputRouting for TLC, with two wirings.  SeparateRules write to modules *)
(* whose inputs control nothing; SharedRules write to a module with a      *)
(* routed input, as a button with a lamp on the same Fan/IO module does.   *)
(***************************************************************************)
EXTENDS InputRouting

CONSTANTS Button, Lamp, Aux

SeparateRules ==
  <<[source |-> Aux, target |-> Lamp], [source |-> Aux, target |-> Extractor]>>

SharedRules == <<[source |-> Aux, target |-> Lamp]>>
=============================================================================
