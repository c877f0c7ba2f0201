------------------------- MODULE ExtractionPromise -------------------------
(***************************************************************************)
(* What the extraction logic of the master promises its user, without the  *)
(* millisecond clock, the dirty flags or the power set point: extraction   *)
(* runs while a tool, an input or the Continuous switch requests it, goes  *)
(* on for exactly the after-run time that is configured when a tool or     *)
(* input was the last to request it, and then stops.  ExtractorLogic       *)
(* implements this.                                                        *)
(***************************************************************************)
EXTENDS Naturals

CONSTANT Delays    \* the after-run times that can be configured, in seconds

VARIABLES
  work,            \* a tool or an input requests extraction
  switch,          \* Continuous requests it
  delay,           \* the after-run time that is configured
  running,         \* the fan is wanted on
  left             \* seconds of after-run that are left

vars == <<work, switch, delay, running, left>>

Requested == work \/ switch

Init == /\ work = FALSE /\ switch = FALSE
        /\ delay = 0
        /\ running = FALSE /\ left = 0

\* Some source requests extraction: it runs at once, an after-run in progress is
\* forgotten.
Request ==
  /\ Requested'
  /\ running' = TRUE
  /\ left' = 0
  /\ UNCHANGED delay

\* The last source falls silent: extraction goes on for the after-run time if a tool
\* or an input was requesting it till then, or else stops at once.
Release ==
  /\ Requested /\ ~Requested'
  /\ left' = IF work THEN delay ELSE 0
  /\ running' = (left' > 0)
  /\ UNCHANGED delay

\* The after-run time is set; an after-run in progress keeps its own.
Configure ==
  /\ delay' \in Delays
  /\ UNCHANGED <<work, switch, running, left>>

\* A second of the after-run passes.
Elapse ==
  /\ left > 0
  /\ left' = left - 1
  /\ UNCHANGED <<work, switch, delay, running>>

\* The after-run is over.
Stop ==
  /\ ~Requested
  /\ running
  /\ left = 0
  /\ running' = FALSE
  /\ UNCHANGED <<work, switch, delay, left>>

Next == Request \/ Release \/ Configure \/ Elapse \/ Stop

Safety == Init /\ [][Next]_vars

Spec == Safety /\ WF_vars(Elapse) /\ WF_vars(Stop)

=============================================================================
