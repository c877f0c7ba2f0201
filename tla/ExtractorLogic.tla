--------------------------- MODULE ExtractorLogic ---------------------------
(***************************************************************************)
(* ExtractorLogic.cpp: the part of the master that decides whether the fan *)
(* should run and how strongly.  Its inputs are the Work and Stand masks   *)
(* of the JBC stations, the Continuous switch, the routed external input   *)
(* and the extraction settings; its outputs are desired_output_enabled,    *)
(* desired_power and the two dirty flags that make the scheduler write     *)
(* them to the output module.                                              *)
(*                                                                         *)
(* One tick of the model's clock is one second.  The clock wraps, as       *)
(* millis() does, and deadlines are compared by the sign of the wrapped    *)
(* difference.  updateFromFastPoll and updateAutomationContinuous have no  *)
(* caller in the firmware and are left out, with the automation_continuous *)
(* flag only they could set; so are the station details that are only      *)
(* passed on to the displays.                                              *)
(***************************************************************************)
EXTENDS Integers

CONSTANTS
  Half,            \* half the range of the clock: the sign bit of a difference
  MaxDelay,        \* the longest after-run
  MaxLag,          \* the longest the main loop takes between two ticks
  Masks,           \* values of the Work and Stand masks, 0 for "no tool"
  Levels,          \* values of suction_level: 0 high, 1 medium, 2 low, 3 user
  Flows,           \* values of select_flow, in tenths of a percent
  Delays,          \* values of delay_work_sec
  AfterrunPowers,  \* values given to setAfterrunPowerProfile
  PowerLimits      \* values given to setOutputPowerBounds

ASSUME ClockAssumption ==
  /\ Half \in Nat /\ MaxDelay \in Nat /\ MaxLag \in Nat
  /\ MaxDelay < Half
  /\ MaxLag < Half

ASSUME InputAssumption ==
  /\ Masks \subseteq Nat /\ 0 \in Masks
  /\ Levels \subseteq Nat /\ 0 \in Levels
  /\ Flows \subseteq Nat /\ 0 \in Flows
  /\ Delays \subseteq 0 .. MaxDelay /\ 0 \in Delays
  /\ AfterrunPowers \subseteq Nat
  /\ PowerLimits \subseteq 0 .. 1000

VARIABLES
  now,                     \* millis()
  work_mask, stand_mask,   \* work_mask_, stand_mask_
  continuous,              \* continuous_
  external_input,          \* external_input_active_
  jbc_state,               \* the fields of jbc_state_ the decisions read
  desired_output_enabled,  \* desired_output_enabled_
  desired_power,           \* desired_power_, in tenths of a percent
  enable_dirty,            \* output_enable_dirty_
  power_dirty,             \* output_power_dirty_
  afterrun_active,         \* afterrun_active_
  afterrun_deadline,       \* afterrun_deadline_ms_
  afterrun_profile,        \* afterrun_power_enabled_, afterrun_power_
  output_bounds            \* output_min_power_, output_max_power_

inputs == <<work_mask, stand_mask, continuous, external_input>>
output == <<desired_output_enabled, desired_power>>
dirty == <<enable_dirty, power_dirty>>
afterrun == <<afterrun_active, afterrun_deadline>>
config == <<jbc_state, afterrun_profile, output_bounds>>
logicVars == <<now, inputs, output, dirty, afterrun, config>>

(***************************************************************************)
(* The clock: 32-bit unsigned arithmetic and the signed comparison of two  *)
(* moments, at the width 2 * Half.                                         *)
(***************************************************************************)
Wrap == 2 * Half
Clock == 0 .. Wrap - 1
WrapAdd(t, d) == IF t + d < Wrap THEN t + d ELSE t + d - Wrap
WrapSub(t, u) == IF t >= u THEN t - u ELSE t - u + Wrap
ReachedUnsigned(t, deadline) == t >= deadline
Reached(t, deadline) == WrapSub(t, deadline) < Half

(***************************************************************************)
(* The power the settings ask for, within the limits of the output.        *)
(***************************************************************************)
ClampTo(x, lo, hi) == IF x < lo THEN lo ELSE IF x > hi THEN hi ELSE x

UserPower(flow) ==
  10 * ClampTo(IF flow >= 100 THEN (flow + 5) \div 10 ELSE flow, 10, 100)

LevelPower(s) ==
  CASE ~s.valid \/ s.suction_level = 0 -> 1000
    [] s.valid /\ s.suction_level = 1 -> 600
    [] s.valid /\ s.suction_level = 2 -> 300
    [] s.valid /\ s.suction_level > 2 -> UserPower(s.select_flow)

Bounded(x) == ClampTo(x, output_bounds.min, output_bounds.max)
targetPowerForJbc == Bounded(LevelPower(jbc_state))

\* The power of a fan that runs: afterrun_power_ in an after-run with a profile.
RunPower ==
  IF afterrun_active /\ afterrun_profile.enabled THEN afterrun_profile.power
  ELSE targetPowerForJbc

Work == work_mask # 0 \/ external_input
Trigger == continuous \/ Work

-----------------------------------------------------------------------------
JbcSettings ==
  [valid : BOOLEAN, suction_level : Levels, select_flow : Flows, delay_work_sec : Delays]

Profiles == [enabled : BOOLEAN, power : 100 .. 1000]
Limits == [min : 1 .. 1000, max : 1 .. 1000]

TypeOK ==
  /\ now \in Clock
  /\ work_mask \in Masks /\ stand_mask \in Masks
  /\ continuous \in BOOLEAN /\ external_input \in BOOLEAN
  /\ jbc_state \in JbcSettings
  /\ desired_output_enabled \in BOOLEAN /\ desired_power \in 0 .. 1000
  /\ enable_dirty \in BOOLEAN /\ power_dirty \in BOOLEAN
  /\ afterrun_active \in BOOLEAN /\ afterrun_deadline \in Clock
  /\ afterrun_profile \in Profiles
  /\ output_bounds \in Limits

InitLogic ==
  /\ now \in Clock
  /\ work_mask = 0 /\ stand_mask = 0
  /\ continuous = FALSE /\ external_input = FALSE
  /\ jbc_state = [valid |-> FALSE, suction_level |-> 0,
                  select_flow |-> 0, delay_work_sec |-> 0]
  /\ desired_output_enabled = FALSE /\ desired_power = 0
  /\ enable_dirty = TRUE /\ power_dirty = TRUE
  /\ afterrun_active = FALSE /\ afterrun_deadline = 0
  /\ afterrun_profile = [enabled |-> FALSE, power |-> 300]
  /\ output_bounds = [min |-> 100, max |-> 1000]

-----------------------------------------------------------------------------
(***************************************************************************)
(* Writing the decision: a changed half of it becomes dirty.               *)
(***************************************************************************)
SetOutputMarksBoth(enabled, power) ==
  LET changed == enabled # desired_output_enabled \/ power # desired_power
  IN /\ desired_output_enabled' = enabled
     /\ desired_power' = power
     /\ enable_dirty' = (enable_dirty \/ changed)
     /\ power_dirty' = (power_dirty \/ changed)

SetOutput(enabled, power) ==
  /\ desired_output_enabled' = enabled
  /\ desired_power' = power
  /\ enable_dirty' = (enable_dirty \/ enabled # desired_output_enabled)
  /\ power_dirty' = (power_dirty \/ power # desired_power)

\* Only the power follows a change of settings; the fan stays as it is.
SetPower(power) == SetOutput(desired_output_enabled, power)

\* With an after-run when Continuous alone ends, too.
applyOutputStateAlways(previous_trigger) ==
  LET starts == /\ ~Trigger' /\ desired_output_enabled /\ ~afterrun_active
                /\ jbc_state'.valid /\ jbc_state'.delay_work_sec > 0
      active == ~Trigger' /\ (starts \/ afterrun_active)
  IN /\ afterrun_active' = active
     /\ afterrun_deadline' =
          IF Trigger' THEN 0
          ELSE IF starts THEN WrapAdd(now, jbc_state'.delay_work_sec)
          ELSE afterrun_deadline
     /\ SetOutput(Trigger' \/ active,
                  IF Trigger' \/ active THEN RunPower' ELSE 0)

\* applyOutputState(previous_trigger_active), called after the inputs changed.
\* The after-run starts when a work or input trigger, not Continuous, ends.
applyOutputState(previous_trigger) ==
  LET starts == /\ ~Trigger' /\ desired_output_enabled /\ previous_trigger
                /\ jbc_state'.valid /\ jbc_state'.delay_work_sec > 0
      active == ~Trigger' /\ (starts \/ afterrun_active)
  IN /\ afterrun_active' = active
     /\ afterrun_deadline' =
          IF Trigger' THEN 0
          ELSE IF starts THEN WrapAdd(now, jbc_state'.delay_work_sec)
          ELSE afterrun_deadline
     /\ SetOutput(Trigger' \/ active,
                  IF Trigger' \/ active THEN RunPower' ELSE 0)

-----------------------------------------------------------------------------
updateAggregateJbcState(work, stand, cont) ==
  /\ <<work, stand, cont>> # <<work_mask, stand_mask, continuous>>
  /\ work_mask' = work /\ stand_mask' = stand /\ continuous' = cont
  /\ UNCHANGED <<now, external_input, config>>
  /\ applyOutputState(Work)

updateExternalInputOnly(active) ==
  /\ active # external_input
  /\ external_input' = active
  /\ UNCHANGED <<now, work_mask, stand_mask, continuous, output, dirty, afterrun, config>>

updateExternalInput(active) ==
  /\ active # external_input
  /\ external_input' = active
  /\ UNCHANGED <<now, work_mask, stand_mask, continuous, config>>
  /\ applyOutputState(Work)

updateControlSettings(level, flow, delay) ==
  /\ jbc_state' = [valid |-> TRUE, suction_level |-> level,
                   select_flow |-> flow, delay_work_sec |-> delay]
  /\ UNCHANGED <<now, inputs, afterrun_profile, output_bounds>>
  /\ applyOutputState(Work)

\* Without the power of a fan that runs.
updateJbcStateOnly(level, flow, delay) ==
  /\ jbc_state' = [valid |-> TRUE, suction_level |-> level,
                   select_flow |-> flow, delay_work_sec |-> delay]
  /\ UNCHANGED <<now, inputs, output, dirty, afterrun, afterrun_profile, output_bounds>>

\* A station reported its state: the settings it holds replace the master's,
\* without a new decision, but a running fan follows their power.
updateJbcState(level, flow, delay) ==
  /\ jbc_state' = [valid |-> TRUE, suction_level |-> level,
                   select_flow |-> flow, delay_work_sec |-> delay]
  /\ UNCHANGED <<now, inputs, afterrun, afterrun_profile, output_bounds>>
  /\ SetPower(IF desired_output_enabled THEN RunPower' ELSE desired_power)

\* updateSystemError and updateSystemFilter: all that matters here is that they
\* declare the settings valid.
updateSystemStatus ==
  /\ jbc_state' = [jbc_state EXCEPT !.valid = TRUE]
  /\ UNCHANGED <<now, inputs, output, dirty, afterrun, afterrun_profile, output_bounds>>

setAfterrunPowerUnclamped(enabled, power) ==
  /\ afterrun_profile' = [enabled |-> enabled, power |-> power]
  /\ UNCHANGED <<now, inputs, afterrun, jbc_state, output_bounds>>
  /\ SetPower(IF afterrun_active /\ desired_output_enabled THEN RunPower'
              ELSE desired_power)

setAfterrunPowerProfile(enabled, power) ==
  /\ afterrun_profile' = [enabled |-> enabled, power |-> ClampTo(power, 100, 1000)]
  /\ UNCHANGED <<now, inputs, afterrun, jbc_state, output_bounds>>
  /\ SetPower(IF afterrun_active /\ desired_output_enabled THEN RunPower'
              ELSE desired_power)

\* The limits of a newly selected output, of which the callers keep the lower one
\* at most 1000: a running fan is brought within them.
setOutputPowerBounds(min, max) ==
  LET lo == IF min < 1 THEN 1 ELSE min
      bounds == [min |-> lo, max |-> IF max < lo THEN lo ELSE max]
  IN /\ output_bounds' = bounds
     /\ UNCHANGED <<now, inputs, afterrun, jbc_state, afterrun_profile>>
     /\ SetPower(IF bounds # output_bounds /\ desired_output_enabled
                 THEN Bounded(RunPower)' ELSE desired_power)

\* tick(): the end of the after-run.
AfterrunExpires ==
  /\ afterrun_active
  /\ Reached(now, afterrun_deadline)
  /\ afterrun_active' = FALSE
  /\ afterrun_deadline' = 0
  /\ IF ~Trigger /\ desired_output_enabled
     THEN /\ desired_output_enabled' = FALSE /\ desired_power' = 0
          /\ enable_dirty' = TRUE /\ power_dirty' = TRUE
     ELSE UNCHANGED <<output, dirty>>
  /\ UNCHANGED <<now, inputs, config>>

\* The flags are the scheduler's to set and to clear.
markOutputDirty ==
  /\ enable_dirty' = TRUE /\ power_dirty' = TRUE
  /\ UNCHANGED <<now, inputs, output, afterrun, config>>

clearOutputEnableDirty ==
  /\ enable_dirty' = FALSE
  /\ UNCHANGED <<now, inputs, output, power_dirty, afterrun, config>>

clearOutputPowerDirty ==
  /\ power_dirty' = FALSE
  /\ UNCHANGED <<now, inputs, output, enable_dirty, afterrun, config>>

\* A second passes.  The main loop runs tick() at least every MaxLag seconds, so
\* an after-run is never overdue by more.
Overdue == afterrun_active /\ Reached(now, afterrun_deadline)
Elapse ==
  /\ Overdue => WrapSub(now, afterrun_deadline) < MaxLag
  /\ now' = WrapAdd(now, 1)
  /\ UNCHANGED <<inputs, output, dirty, afterrun, config>>

-----------------------------------------------------------------------------
SettingsStep ==
  \E level \in Levels, flow \in Flows, delay \in Delays :
    \/ updateControlSettings(level, flow, delay)
    \/ updateJbcState(level, flow, delay)

Next ==
  \/ \E work, stand \in Masks, cont \in BOOLEAN :
        updateAggregateJbcState(work, stand, cont)
  \/ \E active \in BOOLEAN : updateExternalInput(active)
  \/ SettingsStep
  \/ updateSystemStatus
  \/ \E enabled \in BOOLEAN, power \in AfterrunPowers :
        setAfterrunPowerProfile(enabled, power)
  \/ \E min, max \in PowerLimits : setOutputPowerBounds(min, max)
  \/ AfterrunExpires
  \/ markOutputDirty
  \/ clearOutputEnableDirty
  \/ clearOutputPowerDirty
  \/ Elapse

Fairness == WF_logicVars(Elapse) /\ WF_logicVars(AfterrunExpires)

Spec == InitLogic /\ [][Next]_logicVars /\ Fairness

-----------------------------------------------------------------------------
(***************************************************************************)
(* Properties.                                                             *)
(***************************************************************************)

\* The fan is wanted exactly while a source requests it or an after-run goes on,
\* and an after-run never goes on beside a request: no order of work, input,
\* Continuous and settings changes leaves the decision behind its inputs.
DemandFollowsInputs ==
  /\ desired_output_enabled = (Trigger \/ afterrun_active)
  /\ afterrun_active => ~Trigger

\* The set point is never stale: a fan that is off has power 0, and one that
\* runs has the power its level, settings, limits and after-run profile give,
\* whichever of them changed last and whichever handler took the change.  The
\* power of an after-run profile may be outside the limits until they change.
PowerFollowsSettings ==
  IF desired_output_enabled
  THEN \/ desired_power = RunPower
       \/ afterrun_active /\ afterrun_profile.enabled /\ desired_power = Bounded(RunPower)
  ELSE desired_power = 0

\* A running after-run is always closer to its deadline than half the range of
\* the clock, on either side, so that the signed comparison of tick() decides
\* right also when the clock wraps during the after-run.
DeadlineInReach ==
  afterrun_active =>
    \/ WrapSub(afterrun_deadline, now) <= MaxDelay
    \/ WrapSub(now, afterrun_deadline) <= MaxLag

\* The seconds until the after-run is due, 0 when there is none or when it is.
\* (afterrunLeftMs, which displays and a logic input read, also says 0 when the
\* deadline happens to be 0; tick does not ask it, and the promise is about the fan.)
AfterrunLeft ==
  IF ~afterrun_active \/ Reached(now, afterrun_deadline) THEN 0
  ELSE WrapSub(afterrun_deadline, now)

ConfiguredDelay == IF jbc_state.valid THEN jbc_state.delay_work_sec ELSE 0

\* The logic implements the promise: extraction starts with the first request,
\* lasts after the last one for the after-run time configured then, no less and no
\* longer than the loop is late, not at all after Continuous alone, and then stops.
Promise ==
  INSTANCE ExtractionPromise WITH
    work <- Work, switch <- continuous, delay <- ConfiguredDelay,
    running <- desired_output_enabled, left <- AfterrunLeft
ImplementsPromise == Promise!Spec

\* Going from RUN to after-run only changes the power: the enable flag, once
\* written, is not written again, so that no output restarts in between.
RunToAfterrunKeepsEnable ==
  [][Trigger /\ ~Trigger' /\ afterrun_active' /\ ~enable_dirty => ~enable_dirty']_logicVars

=============================================================================
