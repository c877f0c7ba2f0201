---------------------------- MODULE MCBusRequest ----------------------------
(***************************************************************************)
(* BusRequest for TLC: a module on the wire and a wireless display.        *)
(***************************************************************************)
EXTENDS BusRequest

CONSTANTS w1, d1
=============================================================================
