------------------------ MODULE ExtractorLogic_proofs ------------------------
(***************************************************************************)
(* Proofs about ExtractorLogic: its type invariant, the invariants that    *)
(* tie the decision to its inputs, its settings and the clock, and that    *)
(* every step of the logic is a step of the promise or invisible to it.    *)
(***************************************************************************)
EXTENDS ExtractorLogic, TLAPS

(***************************************************************************)
(* The power.                                                              *)
(***************************************************************************)

\* A clamped value lies within its limits (the two clamping lines that end
\* targetPowerForJbc and the ones of the setters).
LEMMA ClampType ==
  ASSUME NEW x \in Int, NEW lo \in Int, NEW hi \in Int, lo <= hi
  PROVE  ClampTo(x, lo, hi) \in lo .. hi
  BY DEF ClampTo

\* Clamping again to the same limits changes nothing.
LEMMA ClampTwice ==
  ASSUME NEW x \in Int, NEW lo \in Int, NEW hi \in Int, lo <= hi
  PROVE  ClampTo(ClampTo(x, lo, hi), lo, hi) = ClampTo(x, lo, hi)
  BY DEF ClampTo

\* The switch of targetPowerForJbc gives 10 % to 100 %, whatever the settings.
LEMMA LevelPowerType ==
  ASSUME NEW s, s.valid \in BOOLEAN, s.suction_level \in Nat, s.select_flow \in Nat
  PROVE  LevelPower(s) \in 100 .. 1000
<1>1. UserPower(s.select_flow) \in 100 .. 1000
  <2> DEFINE raw == IF s.select_flow >= 100 THEN (s.select_flow + 5) \div 10
                    ELSE s.select_flow
  <2>1. raw \in Int
    OBVIOUS
  <2> HIDE DEF raw
  <2>2. ClampTo(raw, 10, 100) \in 10 .. 100
    BY <2>1 DEF ClampTo
  <2>3. UserPower(s.select_flow) = 10 * ClampTo(raw, 10, 100)
    BY DEF UserPower, raw
  <2> QED BY <2>2, <2>3
<1>2. CASE ~s.valid \/ s.suction_level = 0  BY <1>2 DEF LevelPower
<1>3. CASE s.valid /\ s.suction_level = 1   BY <1>3 DEF LevelPower
<1>4. CASE s.valid /\ s.suction_level = 2   BY <1>4 DEF LevelPower
<1>5. CASE s.valid /\ s.suction_level > 2   BY <1>1, <1>5 DEF LevelPower
<1> QED BY <1>2, <1>3, <1>4, <1>5

(***************************************************************************)
(* The clock.                                                              *)
(***************************************************************************)

\* Adding an after-run to the clock, and the difference of two moments, stay
\* within the clock's width.
LEMMA ClockType ==
  ASSUME ClockAssumption, NEW t \in Clock, NEW u \in Clock, NEW d \in Nat, d < Half
  PROVE  WrapAdd(t, d) \in Clock /\ WrapSub(t, u) \in Clock
  BY DEF ClockAssumption, Clock, Wrap, WrapAdd, WrapSub

\* A deadline just set is not reached, and is as far away as the after-run is long
\* (the assignment in applyOutputState against the comparison in tick).
LEMMA DeadlineSet ==
  ASSUME ClockAssumption, NEW t \in Clock, NEW d \in Nat, d < Half, d > 0
  PROVE  WrapSub(WrapAdd(t, d), t) = d /\ ~Reached(t, WrapAdd(t, d))
  BY DEF ClockAssumption, Clock, Wrap, WrapAdd, WrapSub, Reached

\* A second later, a deadline ahead is a second nearer, and one that was reached
\* was reached a second longer ago.
LEMMA DeadlineNears ==
  ASSUME ClockAssumption, NEW t \in Clock, NEW u \in Clock, Half > 0
  PROVE  /\ t # u => WrapSub(u, WrapAdd(t, 1)) = WrapSub(u, t) - 1
         /\ WrapSub(t, u) < Half => WrapSub(WrapAdd(t, 1), u) = WrapSub(t, u) + 1
         /\ t = u <=> WrapSub(u, t) = 0
         /\ t # u => WrapSub(t, u) + WrapSub(u, t) = Wrap
         /\ t = u => WrapSub(t, u) = 0
  BY DEF ClockAssumption, Clock, Wrap, WrapAdd, WrapSub

(***************************************************************************)
(* Type correctness.                                                       *)
(***************************************************************************)

\* TypeOK in three parts: what the handlers read, the after-run, the decision.
ConfigType ==
  /\ now \in Clock
  /\ work_mask \in Masks /\ stand_mask \in Masks
  /\ continuous \in BOOLEAN /\ external_input \in BOOLEAN
  /\ jbc_state \in JbcSettings
  /\ afterrun_profile \in Profiles
  /\ output_bounds \in Limits

AfterrunType == afterrun_active \in BOOLEAN /\ afterrun_deadline \in Clock

OutputType ==
  /\ desired_output_enabled \in BOOLEAN /\ desired_power \in 0 .. 1000
  /\ enable_dirty \in BOOLEAN /\ power_dirty \in BOOLEAN

\* What the inputs' ranges say of the settings.
LEMMA SettingsType ==
  ASSUME NEW s \in JbcSettings
  PROVE  /\ s.valid \in BOOLEAN /\ s.suction_level \in Nat /\ s.select_flow \in Nat
         /\ s.delay_work_sec \in Delays /\ s.delay_work_sec \in 0 .. MaxDelay
<1>1. /\ s.valid \in BOOLEAN /\ s.suction_level \in Levels
      /\ s.select_flow \in Flows /\ s.delay_work_sec \in Delays
  BY DEF JbcSettings
<1>2. Levels \subseteq Nat /\ Flows \subseteq Nat /\ Delays \subseteq 0 .. MaxDelay
  BY InputAssumption DEF InputAssumption
<1> QED BY <1>1, <1>2

\* The type invariant in its three parts.
LEMMA TypeSplit == TypeOK <=> ConfigType /\ AfterrunType /\ OutputType
  BY DEF TypeOK, ConfigType, AfterrunType, OutputType

\* The power of a running fan is a power an output accepts.
PowerType ==
  /\ LevelPower(jbc_state) \in 100 .. 1000
  /\ targetPowerForJbc \in 1 .. 1000
  /\ RunPower \in 1 .. 1000
  /\ Bounded(RunPower) \in 1 .. 1000

LEMMA RunPowerType == ConfigType /\ AfterrunType => PowerType
<1> SUFFICES ASSUME ConfigType, AfterrunType PROVE PowerType
  OBVIOUS
<1>1. LevelPower(jbc_state) \in 100 .. 1000
  <2>1. jbc_state \in JbcSettings
    BY DEF ConfigType
  <2>2. /\ jbc_state.valid \in BOOLEAN
        /\ jbc_state.suction_level \in Nat
        /\ jbc_state.select_flow \in Nat
    BY <2>1, SettingsType
  <2> QED BY <2>2, LevelPowerType
<1>2. output_bounds.min \in 1 .. 1000 /\ output_bounds.max \in 1 .. 1000
  <2>1. output_bounds \in Limits
    BY DEF ConfigType
  <2> QED BY <2>1 DEF Limits
<1>3. targetPowerForJbc \in 1 .. 1000
  BY <1>1, <1>2 DEF targetPowerForJbc, Bounded, ClampTo
<1>4. RunPower \in 1 .. 1000
  <2>1. afterrun_profile \in Profiles
    BY DEF ConfigType
  <2>2. afterrun_profile.power \in 100 .. 1000
    BY <2>1 DEF Profiles
  <2> QED BY <1>3, <2>2 DEF RunPower
<1> QED BY <1>1, <1>2, <1>3, <1>4 DEF PowerType, Bounded, ClampTo

\* The same of the next state.
LEMMA RunPowerTypeNext == ConfigType' /\ AfterrunType' => PowerType'
  BY RunPowerType, PTL

\* Whatever is written through SetOutput keeps the types of the decision.
LEMMA SetOutputType ==
  ASSUME OutputType, NEW e \in BOOLEAN, NEW p \in 0 .. 1000, SetOutput(e, p)
  PROVE  OutputType'
<1>1. desired_output_enabled' = e /\ desired_power' = p
  BY DEF SetOutput
<1>2. enable_dirty' \in BOOLEAN /\ power_dirty' \in BOOLEAN
  BY DEF SetOutput, OutputType
<1> QED BY <1>1, <1>2 DEF OutputType

\* The common end of the handlers that decide anew.
LEMMA ApplyType ==
  ASSUME TypeOK, ConfigType', NEW previous \in BOOLEAN, applyOutputState(previous)
  PROVE  TypeOK'
<1> DEFINE starts == /\ ~Trigger' /\ desired_output_enabled /\ previous
                     /\ jbc_state'.valid /\ jbc_state'.delay_work_sec > 0
           active == ~Trigger' /\ (starts \/ afterrun_active)
<1>1. /\ afterrun_active' = active
      /\ afterrun_deadline' = IF Trigger' THEN 0
                              ELSE IF starts THEN WrapAdd(now, jbc_state'.delay_work_sec)
                              ELSE afterrun_deadline
      /\ SetOutput(Trigger' \/ active, IF Trigger' \/ active THEN RunPower' ELSE 0)
  BY DEF applyOutputState
<1>2. Trigger' \in BOOLEAN /\ starts \in BOOLEAN /\ active \in BOOLEAN
  BY DEF Trigger, Work, ConfigType, TypeOK
<1>3. AfterrunType'
  <2>1. jbc_state'.delay_work_sec \in 0 .. MaxDelay
    <3>1. jbc_state' \in JbcSettings
      BY DEF ConfigType
    <3> QED BY <3>1, SettingsType
  <2>2. WrapAdd(now, jbc_state'.delay_work_sec) \in Clock
    BY <2>1, ClockType, ClockAssumption DEF ClockAssumption, TypeOK
  <2>3. 0 \in Clock /\ afterrun_deadline \in Clock
    BY ClockAssumption DEF ClockAssumption, Clock, Wrap, TypeOK
  <2> QED BY <1>1, <1>2, <2>2, <2>3 DEF AfterrunType
<1>4. RunPower' \in 1 .. 1000
  BY <1>3, RunPowerTypeNext DEF PowerType
<1>5. OutputType'
  <2> DEFINE e == Trigger' \/ active
             p == IF e THEN RunPower' ELSE 0
  <2>1. e \in BOOLEAN /\ p \in 0 .. 1000
    BY <1>2, <1>4
  <2>2. SetOutput(e, p)
    BY <1>1
  <2> HIDE DEF e, p
  <2> QED BY <2>1, <2>2, TypeSplit, SetOutputType
<1>6. (ConfigType /\ AfterrunType /\ OutputType)'
  BY <1>3, <1>5
<1> QED BY <1>6, TypeSplit, PTL

\* The handlers that only let the power follow.
LEMMA FollowType ==
  ASSUME TypeOK, ConfigType', AfterrunType', NEW p \in 0 .. 1000, SetPower(p)
  PROVE  TypeOK'
<1>1. SetOutput(desired_output_enabled, p)
  BY DEF SetPower
<1>2. OutputType'
  <2>1. OutputType /\ desired_output_enabled \in BOOLEAN
    BY TypeSplit DEF TypeOK
  <2> QED BY <1>1, <2>1, SetOutputType
<1>3. (ConfigType /\ AfterrunType /\ OutputType)'
  BY <1>2
<1> QED BY <1>3, TypeSplit, PTL

\* The clock has a zero.
LEMMA ClockInhabited == 0 \in Clock
  BY ClockAssumption DEF ClockAssumption, Clock, Wrap

\* The constructor of ExtractorLogic sets up values of the right types.
LEMMA TypeInit == InitLogic => TypeOK
<1> SUFFICES ASSUME InitLogic PROVE TypeOK
  OBVIOUS
<1>1. AfterrunType
  <2>1. 0 \in Clock
    BY ClockInhabited
  <2> QED BY <2>1, Zenon DEF InitLogic, AfterrunType
<1>2. OutputType
  <2>1. 0 \in 0 .. 1000
    OBVIOUS
  <2> QED BY <2>1, Zenon DEF InitLogic, OutputType
<1>3. ConfigType
  <2>1. jbc_state \in JbcSettings
    BY InputAssumption DEF InitLogic, InputAssumption, JbcSettings
  <2>2. /\ work_mask \in Masks /\ stand_mask \in Masks
        /\ afterrun_profile \in Profiles
        /\ output_bounds \in Limits
    <3>1. 300 \in 100 .. 1000 /\ 100 \in 1 .. 1000 /\ 1000 \in 1 .. 1000
      OBVIOUS
    <3>2. 0 \in Masks
      BY InputAssumption, Zenon DEF InputAssumption
    <3>3. afterrun_profile \in Profiles
      <4>1. \A b \in BOOLEAN : [enabled |-> b, power |-> 300] \in Profiles
        BY DEF Profiles
      <4> QED BY <4>1, Zenon DEF InitLogic
    <3>4. output_bounds \in Limits
      <4>1. [min |-> 100, max |-> 1000] \in Limits
        BY <3>1 DEF Limits
      <4> QED BY <4>1, Zenon DEF InitLogic
    <3> QED BY <3>2, <3>3, <3>4, Zenon DEF InitLogic
  <2> QED BY <2>1, <2>2, Zenon DEF InitLogic, ConfigType
<1> QED BY <1>1, <1>2, <1>3, TypeSplit

\* Every action keeps the types.
LEMMA TypeStep == TypeOK /\ [Next]_logicVars => TypeOK'
<1> SUFFICES ASSUME TypeOK, [Next]_logicVars PROVE TypeOK'
  OBVIOUS
<1> USE DEF inputs, output, dirty, afterrun, config
<1>0. ConfigType /\ AfterrunType /\ OutputType
  BY TypeSplit
<1>a. Work \in BOOLEAN
  BY DEF Work, TypeOK
<1>1. ASSUME NEW work \in Masks, NEW stand \in Masks, NEW cont \in BOOLEAN,
             updateAggregateJbcState(work, stand, cont)
      PROVE  TypeOK'
  <2>1. ConfigType'
    BY <1>0, <1>1 DEF updateAggregateJbcState, ConfigType
  <2> QED BY <1>1, <1>a, <2>1, ApplyType DEF updateAggregateJbcState
<1>2. ASSUME NEW active \in BOOLEAN, updateExternalInput(active)
      PROVE  TypeOK'
  <2>1. ConfigType'
    BY <1>0, <1>2 DEF updateExternalInput, ConfigType
  <2> QED BY <1>2, <1>a, <2>1, ApplyType DEF updateExternalInput
<1>3. ASSUME NEW level \in Levels, NEW flow \in Flows, NEW delay \in Delays,
             updateControlSettings(level, flow, delay)
      PROVE  TypeOK'
  <2>1. ConfigType'
    BY <1>0, <1>3 DEF updateControlSettings, ConfigType, JbcSettings
  <2> QED BY <1>3, <1>a, <2>1, ApplyType DEF updateControlSettings
<1>4. ASSUME NEW level \in Levels, NEW flow \in Flows, NEW delay \in Delays,
             updateJbcState(level, flow, delay)
      PROVE  TypeOK'
  <2>1. ConfigType' /\ AfterrunType'
    BY <1>0, <1>4 DEF updateJbcState, ConfigType, AfterrunType, JbcSettings
  <2>2. RunPower' \in 1 .. 1000
    BY <2>1, RunPowerTypeNext DEF PowerType
  <2> QED BY <1>0, <1>4, <2>1, <2>2, FollowType DEF updateJbcState, OutputType
<1>5. CASE updateSystemStatus
  <2>1. jbc_state' \in JbcSettings
    <3>1. jbc_state \in JbcSettings
      BY <1>0 DEF ConfigType
    <3>2. jbc_state' = [jbc_state EXCEPT !.valid = TRUE]
      BY <1>5 DEF updateSystemStatus
    <3> QED BY <3>1, <3>2 DEF JbcSettings
  <2>2. ConfigType'
    BY <1>0, <1>5, <2>1 DEF updateSystemStatus, ConfigType
  <2>3. AfterrunType' /\ OutputType'
    BY <1>0, <1>5 DEF updateSystemStatus, AfterrunType, OutputType
  <2> QED BY <2>2, <2>3, TypeSplit, PTL
<1>6. ASSUME NEW enabled \in BOOLEAN, NEW power \in AfterrunPowers,
             setAfterrunPowerProfile(enabled, power)
      PROVE  TypeOK'
  <2>1. ClampTo(power, 100, 1000) \in 100 .. 1000
    BY InputAssumption DEF InputAssumption, ClampTo
  <2>a. afterrun_profile' \in Profiles
    BY <1>6, <2>1 DEF setAfterrunPowerProfile, Profiles
  <2>2. ConfigType' /\ AfterrunType'
    BY <1>0, <1>6, <2>a DEF setAfterrunPowerProfile, ConfigType, AfterrunType
  <2>3. RunPower' \in 1 .. 1000
    BY <2>2, RunPowerTypeNext DEF PowerType
  <2> QED BY <1>0, <1>6, <2>2, <2>3, FollowType DEF setAfterrunPowerProfile, OutputType
<1>7. ASSUME NEW min \in PowerLimits, NEW max \in PowerLimits,
             setOutputPowerBounds(min, max)
      PROVE  TypeOK'
  <2>1. min \in 0 .. 1000 /\ max \in 0 .. 1000
    BY InputAssumption DEF InputAssumption
  <2>2. output_bounds' \in Limits
    <3> DEFINE lo == IF min < 1 THEN 1 ELSE min
               hi == IF max < lo THEN lo ELSE max
    <3>1. lo \in 1 .. 1000 /\ hi \in 1 .. 1000
      BY <2>1
    <3>2. output_bounds' = [min |-> lo, max |-> hi]
      BY <1>7 DEF setOutputPowerBounds
    <3> HIDE DEF lo, hi
    <3>3. [min |-> lo, max |-> hi] \in Limits
      BY <3>1 DEF Limits
    <3> QED BY <3>2, <3>3, Zenon
  <2>3. ConfigType' /\ AfterrunType'
    BY <1>0, <1>7, <2>2 DEF setOutputPowerBounds, ConfigType, AfterrunType
  <2>4. Bounded(RunPower)' \in 1 .. 1000
    BY <2>3, RunPowerTypeNext DEF PowerType
  <2>5. PICK p \in {Bounded(RunPower)', desired_power} : SetPower(p)
    BY <1>7 DEF setOutputPowerBounds
  <2> QED BY <1>0, <2>3, <2>4, <2>5, FollowType DEF OutputType
<1>8. CASE AfterrunExpires
  <2>1. ConfigType'
    BY <1>0, <1>8 DEF AfterrunExpires, ConfigType
  <2>2. AfterrunType'
    BY <1>8, ClockInhabited, Zenon DEF AfterrunExpires, AfterrunType
  <2>3. OutputType'
    <3>1. CASE ~Trigger /\ desired_output_enabled
      <4>1. /\ desired_output_enabled' = FALSE /\ desired_power' = 0
            /\ enable_dirty' = TRUE /\ power_dirty' = TRUE
        BY <1>8, <3>1 DEF AfterrunExpires
      <4>2. 0 \in 0 .. 1000
        OBVIOUS
      <4>3. desired_output_enabled' \in BOOLEAN /\ desired_power' \in 0 .. 1000
        BY <4>1, <4>2, Zenon
      <4>4. enable_dirty' \in BOOLEAN /\ power_dirty' \in BOOLEAN
        BY <4>1, Zenon
      <4> QED BY <4>3, <4>4, Zenon DEF OutputType
    <3>2. CASE ~(~Trigger /\ desired_output_enabled)
      <4>1. UNCHANGED <<output, dirty>>
        BY <1>8, <3>2 DEF AfterrunExpires
      <4> QED BY <1>0, <4>1 DEF OutputType
    <3> QED BY <3>1, <3>2
  <2> QED BY <2>1, <2>2, <2>3, TypeSplit, PTL
<1>9. CASE markOutputDirty \/ clearOutputEnableDirty \/ clearOutputPowerDirty
  <2> USE DEF markOutputDirty, clearOutputEnableDirty, clearOutputPowerDirty
  <2>1. ConfigType' /\ AfterrunType'
    BY <1>0, <1>9 DEF ConfigType, AfterrunType
  <2>2. OutputType'
    <3>1. CASE markOutputDirty         BY <1>0, <3>1 DEF OutputType
    <3>2. CASE clearOutputEnableDirty  BY <1>0, <3>2 DEF OutputType
    <3>3. CASE clearOutputPowerDirty   BY <1>0, <3>3 DEF OutputType
    <3> QED BY <1>9, <3>1, <3>2, <3>3
  <2> QED BY <2>1, <2>2, TypeSplit, PTL
<1>10. CASE Elapse
  <2>1. now' \in Clock
    BY <1>10, ClockAssumption
    DEF Elapse, TypeOK, WrapAdd, ClockAssumption, Clock, Wrap
  <2>2. ConfigType' /\ AfterrunType' /\ OutputType'
    BY <1>0, <1>10, <2>1 DEF Elapse, ConfigType, AfterrunType, OutputType
  <2> QED BY <2>2, TypeSplit, PTL
<1>11. CASE UNCHANGED logicVars
  <2>1. ConfigType' /\ AfterrunType' /\ OutputType'
    BY <1>0, <1>11 DEF logicVars, ConfigType, AfterrunType, OutputType
  <2> QED BY <2>1, TypeSplit, PTL
<1> QED BY <1>1, <1>2, <1>3, <1>4, <1>5, <1>6, <1>7, <1>8, <1>9, <1>10, <1>11
        DEF Next, SettingsStep

\* The values of the logic keep their types and their ranges: the powers it asks
\* for are powers an output accepts, whatever settings, limits and profiles it is
\* given (the clamps of ExtractorLogic.cpp).
THEOREM TypeCorrect == Spec => []TypeOK
  BY TypeInit, TypeStep, PTL DEF Spec

(***************************************************************************)
(* The decision follows its inputs.                                        *)
(***************************************************************************)

\* The steps as the decision sees them: it is made anew from the inputs, or only
\* its power follows, or time passes, or the after-run expires.
LEMMA StepKinds ==
  ASSUME [Next]_logicVars
  PROVE  \/ /\ applyOutputState(Work) /\ UNCHANGED <<now, afterrun_profile, output_bounds>>
            /\ UNCHANGED inputs \/ UNCHANGED jbc_state
         \/ UNCHANGED <<now, inputs, desired_output_enabled, afterrun>>
         \/ Elapse
         \/ AfterrunExpires
<1> USE DEF inputs, output, dirty, afterrun, config
<1>1. ASSUME NEW work \in Masks, NEW stand \in Masks, NEW cont \in BOOLEAN,
             updateAggregateJbcState(work, stand, cont)
      PROVE  /\ applyOutputState(Work) /\ UNCHANGED <<now, afterrun_profile, output_bounds>>
             /\ UNCHANGED inputs \/ UNCHANGED jbc_state
  BY <1>1 DEF updateAggregateJbcState
<1>2. ASSUME NEW active \in BOOLEAN, updateExternalInput(active)
      PROVE  /\ applyOutputState(Work) /\ UNCHANGED <<now, afterrun_profile, output_bounds>>
             /\ UNCHANGED inputs \/ UNCHANGED jbc_state
  BY <1>2 DEF updateExternalInput
<1>3. ASSUME NEW level \in Levels, NEW flow \in Flows, NEW delay \in Delays,
             updateControlSettings(level, flow, delay)
      PROVE  /\ applyOutputState(Work) /\ UNCHANGED <<now, afterrun_profile, output_bounds>>
             /\ UNCHANGED inputs \/ UNCHANGED jbc_state
  BY <1>3 DEF updateControlSettings
<1>4. ASSUME NEW level \in Levels, NEW flow \in Flows, NEW delay \in Delays,
             updateJbcState(level, flow, delay)
      PROVE  UNCHANGED <<now, inputs, desired_output_enabled, afterrun>>
  BY <1>4 DEF updateJbcState, SetPower, SetOutput
<1>5. ASSUME NEW enabled \in BOOLEAN, NEW power \in AfterrunPowers,
             setAfterrunPowerProfile(enabled, power)
      PROVE  UNCHANGED <<now, inputs, desired_output_enabled, afterrun>>
  BY <1>5 DEF setAfterrunPowerProfile, SetPower, SetOutput
<1>6. ASSUME NEW min \in PowerLimits, NEW max \in PowerLimits,
             setOutputPowerBounds(min, max)
      PROVE  UNCHANGED <<now, inputs, desired_output_enabled, afterrun>>
  BY <1>6 DEF setOutputPowerBounds, SetPower, SetOutput
<1>7. ASSUME updateSystemStatus \/ UNCHANGED logicVars
      PROVE  UNCHANGED <<now, inputs, desired_output_enabled, afterrun>>
  BY <1>7 DEF updateSystemStatus, logicVars
<1>8. ASSUME markOutputDirty \/ clearOutputEnableDirty \/ clearOutputPowerDirty
      PROVE  UNCHANGED <<now, inputs, desired_output_enabled, afterrun>>
  BY <1>8 DEF markOutputDirty, clearOutputEnableDirty, clearOutputPowerDirty
<1> QED BY <1>1, <1>2, <1>3, <1>4, <1>5, <1>6, <1>7, <1>8 DEF Next, SettingsStep

\* A decision made anew is right whatever it was before.
LEMMA ApplyDemand ==
  ASSUME NEW previous, applyOutputState(previous), TypeOK, TypeOK'
  PROVE  DemandFollowsInputs'
<1>1. afterrun_active' => ~Trigger'
  BY DEF applyOutputState
<1>2. desired_output_enabled' = (Trigger' \/ afterrun_active')
  BY DEF applyOutputState, SetOutput
<1> QED BY <1>1, <1>2 DEF DemandFollowsInputs

\* Every action keeps the demand in step with its inputs.
LEMMA DemandStep ==
  TypeOK /\ TypeOK' /\ DemandFollowsInputs /\ [Next]_logicVars => DemandFollowsInputs'
<1> SUFFICES ASSUME TypeOK, TypeOK', DemandFollowsInputs, [Next]_logicVars
             PROVE  DemandFollowsInputs'
  OBVIOUS
<1>1. CASE applyOutputState(Work)
  BY <1>1, ApplyDemand
<1>2. CASE UNCHANGED <<inputs, desired_output_enabled, afterrun>>
  BY <1>2 DEF inputs, afterrun, DemandFollowsInputs, Trigger, Work
<1>3. CASE AfterrunExpires
  <2>1. ~Trigger /\ desired_output_enabled
    BY <1>3 DEF AfterrunExpires, DemandFollowsInputs
  <2>2. desired_output_enabled' = FALSE /\ afterrun_active' = FALSE
    BY <1>3, <2>1 DEF AfterrunExpires
  <2>3. Trigger' = Trigger
    BY <1>3 DEF AfterrunExpires, inputs, Trigger, Work
  <2> QED BY <2>1, <2>2, <2>3 DEF DemandFollowsInputs
<1>4. \/ applyOutputState(Work)
      \/ UNCHANGED <<inputs, desired_output_enabled, afterrun>>
      \/ AfterrunExpires
  BY StepKinds DEF Elapse, output
<1> QED BY <1>1, <1>2, <1>3, <1>4

\* The fan is wanted exactly while a source requests it or an after-run goes on:
\* no order of work, input, Continuous, settings and clock steps leaves
\* desired_output_enabled behind the inputs it is decided from.
THEOREM DemandCorrect == Spec => []DemandFollowsInputs
<1>1. InitLogic => DemandFollowsInputs
  BY DEF InitLogic, DemandFollowsInputs, Trigger, Work
<1> QED BY <1>1, TypeCorrect, DemandStep, PTL DEF Spec

(***************************************************************************)
(* The deadline and the clock.                                             *)
(***************************************************************************)

\* Every action keeps the deadline of a running after-run within reach.
LEMMA DeadlineStep ==
  /\ TypeOK /\ TypeOK' /\ DeadlineInReach /\ [Next]_logicVars
  => DeadlineInReach'
<1> SUFFICES ASSUME TypeOK, TypeOK', DeadlineInReach, [Next]_logicVars, afterrun_active'
             PROVE  \/ WrapSub(afterrun_deadline', now') <= MaxDelay
                    \/ WrapSub(now', afterrun_deadline') <= MaxLag
  BY DEF DeadlineInReach
<1>1. CASE applyOutputState(Work) /\ UNCHANGED <<now, afterrun_profile, output_bounds>>
  <2>1. CASE afterrun_active /\ afterrun_deadline' = afterrun_deadline
    BY <1>1, <2>1 DEF DeadlineInReach
  <2>2. CASE /\ jbc_state'.delay_work_sec > 0
             /\ afterrun_deadline' = WrapAdd(now, jbc_state'.delay_work_sec)
    <3>1. jbc_state'.delay_work_sec \in 0 .. MaxDelay
      <4>1. jbc_state' \in JbcSettings
        BY DEF TypeOK
      <4> QED BY <4>1, SettingsType
    <3>2. WrapSub(afterrun_deadline', now) = jbc_state'.delay_work_sec
      BY <2>2, <3>1, DeadlineSet, ClockAssumption DEF ClockAssumption, TypeOK
    <3> QED BY <1>1, <3>1, <3>2, ClockAssumption DEF ClockAssumption
  <2>3. ~Trigger'
    BY <1>1 DEF applyOutputState
  <2> QED BY <1>1, <2>1, <2>2, <2>3 DEF applyOutputState
<1>2. CASE UNCHANGED <<now, afterrun>>
  BY <1>2 DEF afterrun, DeadlineInReach
<1>3. CASE Elapse
  <2>1. /\ afterrun_active /\ UNCHANGED afterrun_deadline
        /\ now' = WrapAdd(now, 1)
        /\ now \in Clock /\ afterrun_deadline \in Clock
    BY <1>3 DEF Elapse, afterrun, TypeOK
  <2>2. CASE Reached(now, afterrun_deadline)
    <3>1. WrapSub(now, afterrun_deadline) < MaxLag
      BY <1>3, <2>1, <2>2 DEF Elapse, Overdue
    <3>2. WrapSub(WrapAdd(now, 1), afterrun_deadline) = WrapSub(now, afterrun_deadline) + 1
      BY <2>1, <2>2, DeadlineNears, ClockAssumption DEF Reached, ClockAssumption
    <3>3. WrapSub(now, afterrun_deadline) \in Int
      BY <2>1, ClockAssumption DEF WrapSub, Clock, Wrap, ClockAssumption
    <3> QED BY <2>1, <3>1, <3>2, <3>3, ClockAssumption DEF ClockAssumption
  <2>3. CASE ~Reached(now, afterrun_deadline)
    <3>1. now # afterrun_deadline
      BY <2>1, <2>3, ClockAssumption DEF Reached, WrapSub, Clock, Wrap, ClockAssumption
    <3>2. WrapSub(afterrun_deadline, now) <= MaxDelay
      BY <2>1, <2>3, ClockAssumption
      DEF DeadlineInReach, Reached, WrapSub, Clock, Wrap, ClockAssumption
    <3>3. WrapSub(afterrun_deadline, WrapAdd(now, 1)) = WrapSub(afterrun_deadline, now) - 1
      BY <2>1, <3>1, DeadlineNears, ClockAssumption DEF ClockAssumption
    <3>4. WrapSub(afterrun_deadline, now) \in Int
      BY <2>1, ClockAssumption DEF WrapSub, Clock, Wrap, ClockAssumption
    <3> QED BY <2>1, <3>2, <3>3, <3>4, ClockAssumption DEF ClockAssumption
  <2> QED BY <2>2, <2>3
<1>4. CASE AfterrunExpires
  BY <1>4 DEF AfterrunExpires
<1> QED BY <1>1, <1>2, <1>3, <1>4, StepKinds

\* The signed comparison in tick() never decides wrongly: a running after-run is
\* within half the clock's range of its deadline, across the wrap of millis().
THEOREM DeadlineCorrect == Spec => []DeadlineInReach
<1>1. InitLogic => DeadlineInReach
  BY DEF InitLogic, DeadlineInReach
<1> QED BY <1>1, TypeCorrect, DeadlineStep, PTL DEF Spec

(***************************************************************************)
(* The set point.  What makes PowerFollowsSettings inductive: the limits   *)
(* are in order, so that clamping twice is clamping once, and settings no  *)
(* source has given yet ask for full suction, as the absence of settings   *)
(* does.                                                                   *)
(***************************************************************************)
BoundsOrdered == output_bounds.min <= output_bounds.max
SettingsDefault == ~jbc_state.valid => jbc_state.suction_level = 0
PowerInv == PowerFollowsSettings /\ BoundsOrdered /\ SettingsDefault

\* At the start the fan is off and the settings are the defaults.
LEMMA PowerInit == InitLogic => PowerInv
  BY DEF InitLogic, PowerInv, PowerFollowsSettings, BoundsOrdered, SettingsDefault

\* A step that changes none of what the power is made of.
LEMMA PowerUnchanged ==
  ASSUME PowerInv, UNCHANGED <<output, afterrun_active, afterrun_profile, output_bounds>>,
         LevelPower(jbc_state') = LevelPower(jbc_state), SettingsDefault'
  PROVE  PowerInv'
<1>1. targetPowerForJbc' = targetPowerForJbc
  BY DEF targetPowerForJbc, Bounded
<1>2. RunPower' = RunPower /\ Bounded(RunPower)' = Bounded(RunPower)
  BY <1>1 DEF RunPower, Bounded
<1> QED BY <1>2 DEF PowerInv, PowerFollowsSettings, BoundsOrdered, output

\* Every action keeps the set point, the order of the limits and the defaults.
LEMMA PowerStep ==
  /\ TypeOK /\ TypeOK' /\ DemandFollowsInputs /\ DemandFollowsInputs'
  /\ PowerInv /\ [Next]_logicVars
  => PowerInv'
<1> SUFFICES ASSUME TypeOK, TypeOK', DemandFollowsInputs, DemandFollowsInputs',
                    PowerInv, [Next]_logicVars
             PROVE  PowerInv'
  OBVIOUS
<1> USE DEF config
<1>1. CASE applyOutputState(Work) /\ UNCHANGED <<afterrun_profile, output_bounds>> /\ SettingsDefault'
  <2>1. desired_power' = IF desired_output_enabled' THEN RunPower' ELSE 0
    BY <1>1 DEF applyOutputState, SetOutput
  <2> QED BY <1>1, <2>1 DEF PowerInv, PowerFollowsSettings, BoundsOrdered
<1>2. ASSUME NEW work \in Masks, NEW stand \in Masks, NEW cont \in BOOLEAN,
             updateAggregateJbcState(work, stand, cont)
      PROVE  PowerInv'
  BY <1>1, <1>2 DEF updateAggregateJbcState, PowerInv, SettingsDefault
<1>3. ASSUME NEW active \in BOOLEAN, updateExternalInput(active)
      PROVE  PowerInv'
  BY <1>1, <1>3 DEF updateExternalInput, PowerInv, SettingsDefault
<1>4. ASSUME NEW level \in Levels, NEW flow \in Flows, NEW delay \in Delays,
             updateControlSettings(level, flow, delay)
      PROVE  PowerInv'
  <2>1. SettingsDefault'
    BY <1>4 DEF updateControlSettings, SettingsDefault
  <2> QED BY <1>1, <1>4, <2>1 DEF updateControlSettings
<1>5. ASSUME NEW level \in Levels, NEW flow \in Flows, NEW delay \in Delays,
             updateJbcState(level, flow, delay)
      PROVE  PowerInv'
  <2>1. SettingsDefault'
    BY <1>5 DEF updateJbcState, SettingsDefault
  <2>2. /\ desired_output_enabled' = desired_output_enabled
        /\ desired_power' = IF desired_output_enabled THEN RunPower' ELSE desired_power
        /\ UNCHANGED output_bounds
    BY <1>5 DEF updateJbcState, SetPower, SetOutput
  <2> QED BY <2>1, <2>2 DEF PowerInv, PowerFollowsSettings, BoundsOrdered
<1>6. CASE updateSystemStatus
  <2>1. jbc_state' = [jbc_state EXCEPT !.valid = TRUE] /\ jbc_state \in JbcSettings
    BY <1>6 DEF updateSystemStatus, TypeOK
  <2>2. /\ jbc_state'.valid /\ jbc_state'.suction_level = jbc_state.suction_level
        /\ jbc_state'.select_flow = jbc_state.select_flow
        /\ jbc_state.valid \in BOOLEAN
    BY <2>1 DEF JbcSettings
  <2>3. SettingsDefault'
    BY <2>2 DEF SettingsDefault
  <2>4. LevelPower(jbc_state') = LevelPower(jbc_state)
    <3>1. CASE jbc_state.valid
      BY <2>2, <3>1 DEF LevelPower
    <3>2. CASE ~jbc_state.valid
      <4>1. jbc_state.suction_level = 0
        BY <3>2 DEF PowerInv, SettingsDefault
      <4> QED BY <2>2, <3>2, <4>1 DEF LevelPower
    <3> QED BY <3>1, <3>2
  <2> QED BY <1>6, <2>3, <2>4, PowerUnchanged DEF updateSystemStatus, afterrun
<1>7. ASSUME NEW enabled \in BOOLEAN, NEW power \in AfterrunPowers,
             setAfterrunPowerProfile(enabled, power)
      PROVE  PowerInv'
  <2>1. /\ desired_output_enabled' = desired_output_enabled
        /\ desired_power' = IF afterrun_active /\ desired_output_enabled THEN RunPower'
                            ELSE desired_power
        /\ UNCHANGED <<jbc_state, output_bounds, afterrun_active>>
    BY <1>7 DEF setAfterrunPowerProfile, SetPower, SetOutput, afterrun
  <2>2. ~afterrun_active => RunPower' = RunPower
    BY <2>1 DEF RunPower, targetPowerForJbc, Bounded
  <2>3. PowerFollowsSettings'
    BY <2>1, <2>2 DEF PowerInv, PowerFollowsSettings
  <2> QED BY <2>1, <2>3 DEF PowerInv, BoundsOrdered, SettingsDefault
<1>8. ASSUME NEW min \in PowerLimits, NEW max \in PowerLimits,
             setOutputPowerBounds(min, max)
      PROVE  PowerInv'
  <2>1. /\ desired_output_enabled' = desired_output_enabled
        /\ desired_power' = IF output_bounds' # output_bounds /\ desired_output_enabled
                            THEN Bounded(RunPower)' ELSE desired_power
        /\ UNCHANGED <<jbc_state, afterrun_profile, afterrun_active>>
    BY <1>8 DEF setOutputPowerBounds, SetPower, SetOutput, afterrun
  <2>2. BoundsOrdered'
    BY <1>8, InputAssumption DEF setOutputPowerBounds, BoundsOrdered, InputAssumption
  <2>3. SettingsDefault'
    BY <2>1 DEF PowerInv, SettingsDefault
  <2>4. CASE output_bounds' = output_bounds
    BY <2>1, <2>3, <2>4, PowerUnchanged DEF output
  <2>5. CASE output_bounds' # output_bounds
    <3>1. CASE ~(afterrun_active /\ afterrun_profile.enabled)
      <4>1. RunPower' = targetPowerForJbc'
        BY <2>1, <3>1 DEF RunPower
      <4>2. targetPowerForJbc' = ClampTo(LevelPower(jbc_state'), output_bounds'.min, output_bounds'.max)
        BY DEF targetPowerForJbc, Bounded
      <4>3. /\ LevelPower(jbc_state') \in Int
            /\ output_bounds'.min \in Int /\ output_bounds'.max \in Int
        <5>1. ConfigType' /\ AfterrunType'
          BY TypeSplit, PTL
        <5>2. LevelPower(jbc_state)' \in 100 .. 1000
          BY <5>1, RunPowerTypeNext DEF PowerType
        <5>3. output_bounds' \in Limits
          BY <5>1 DEF ConfigType
        <5>4. output_bounds'.min \in Int /\ output_bounds'.max \in Int
          BY <5>3 DEF Limits
        <5>5. LevelPower(jbc_state') \in 100 .. 1000
          BY <5>2
        <5> QED BY <5>4, <5>5
      <4>4. Bounded(RunPower)' = RunPower'
        BY <2>2, <4>1, <4>2, <4>3, ClampTwice DEF Bounded, BoundsOrdered
      <4> QED BY <2>1, <2>2, <2>3, <2>5, <4>4 DEF PowerInv, PowerFollowsSettings
    <3>2. CASE afterrun_active /\ afterrun_profile.enabled
      BY <2>1, <2>2, <2>3, <2>5, <3>2 DEF PowerInv, PowerFollowsSettings
    <3> QED BY <3>1, <3>2
  <2> QED BY <2>4, <2>5
<1>9. CASE AfterrunExpires
  <2>1. ~Trigger /\ desired_output_enabled
    BY <1>9 DEF AfterrunExpires, DemandFollowsInputs
  <2>2. /\ desired_output_enabled' = FALSE /\ desired_power' = 0
        /\ UNCHANGED <<jbc_state, output_bounds>>
    BY <1>9, <2>1 DEF AfterrunExpires
  <2> QED BY <2>2 DEF PowerInv, PowerFollowsSettings, BoundsOrdered, SettingsDefault
<1>10. CASE \/ markOutputDirty \/ clearOutputEnableDirty \/ clearOutputPowerDirty
            \/ Elapse \/ UNCHANGED logicVars
  <2>1. UNCHANGED <<output, afterrun_active, jbc_state, afterrun_profile, output_bounds>>
    BY <1>10 DEF markOutputDirty, clearOutputEnableDirty, clearOutputPowerDirty, Elapse,
                 logicVars, afterrun
  <2> QED BY <2>1, PowerUnchanged DEF PowerInv, SettingsDefault
<1> QED BY <1>2, <1>3, <1>4, <1>5, <1>6, <1>7, <1>8, <1>9, <1>10 DEF Next, SettingsStep

\* The set point is never stale: whichever handler changed the level, the flow, the
\* limits or the after-run profile last, desired_power is what they give now, and 0
\* when the fan is off.
THEOREM PowerCorrect == Spec => []PowerFollowsSettings
<1>1. TypeOK /\ DemandFollowsInputs /\ PowerInv /\ (TypeOK /\ DemandFollowsInputs)'
        /\ [Next]_logicVars => PowerInv'
  BY PowerStep
<1>2. PowerInv => PowerFollowsSettings
  BY DEF PowerInv
<1> QED BY <1>1, <1>2, PowerInit, TypeCorrect, DemandCorrect, PTL DEF Spec

(***************************************************************************)
(* Steps.                                                                  *)
(***************************************************************************)

\* Going from RUN to after-run never makes the enable flag dirty, so that no output
\* restarts in between (the comment on output_enable_dirty_ in ExtractorLogic.h).
THEOREM EnableKept == Spec => RunToAfterrunKeepsEnable
<1>1. TypeOK /\ TypeOK' /\ DemandFollowsInputs /\ DemandFollowsInputs' /\ [Next]_logicVars
      => [Trigger /\ ~Trigger' /\ afterrun_active' /\ ~enable_dirty => ~enable_dirty']_logicVars
  <2> SUFFICES ASSUME TypeOK, TypeOK', DemandFollowsInputs, DemandFollowsInputs',
                      [Next]_logicVars, Trigger, ~Trigger', afterrun_active', ~enable_dirty
               PROVE  ~enable_dirty'
    OBVIOUS
  <2>1. Trigger' = Trigger \/ applyOutputState(Work)
    BY StepKinds DEF Elapse, AfterrunExpires, inputs, Trigger, Work
  <2>2. applyOutputState(Work)
    BY <2>1
  <2>3. desired_output_enabled /\ desired_output_enabled'
    BY DEF DemandFollowsInputs
  <2>4. enable_dirty' = (enable_dirty \/ desired_output_enabled' # desired_output_enabled)
    BY <2>2 DEF applyOutputState, SetOutput
  <2> QED BY <2>3, <2>4 DEF TypeOK
<1> QED BY <1>1, TypeCorrect, DemandCorrect, PTL DEF Spec, RunToAfterrunKeepsEnable

\* What the promise calls left is a number of seconds.
LEMMA LeftWhenSet ==
  ASSUME TypeOK, TypeOK', now' = now, afterrun_active',
         NEW d \in 1 .. MaxDelay, afterrun_deadline' = WrapAdd(now, d)
  PROVE  AfterrunLeft' = d
<1>1. WrapSub(WrapAdd(now, d), now) = d /\ ~Reached(now, WrapAdd(now, d))
  BY DeadlineSet, ClockAssumption DEF ClockAssumption, TypeOK
<1> QED BY <1>1 DEF AfterrunLeft

\* What the promise reads of the inputs and settings.
Asked == <<Work, continuous, ConfiguredDelay>>

LEMMA ConfiguredType ==
  ASSUME TypeOK
  PROVE  ConfiguredDelay \in Delays /\ ConfiguredDelay \in 0 .. MaxDelay
<1>1. jbc_state \in JbcSettings /\ 0 \in Delays /\ Delays \subseteq 0 .. MaxDelay
  BY InputAssumption DEF TypeOK, InputAssumption
<1>2. jbc_state.delay_work_sec \in Delays
  BY <1>1, SettingsType
<1> QED BY <1>1, <1>2 DEF ConfiguredDelay

\* A change of settings is seen by nothing but the after-runs to come.
LEMMA OnlyConfigured ==
  ASSUME TypeOK, TypeOK', UNCHANGED <<Work, continuous, desired_output_enabled, AfterrunLeft>>
  PROVE  Promise!Configure
<1>1. ConfiguredDelay' \in Delays
  <2>1. ASSUME NEW s \in JbcSettings
        PROVE  (IF s.valid THEN s.delay_work_sec ELSE 0) \in Delays
    BY <2>1, SettingsType, InputAssumption DEF InputAssumption
  <2>2. jbc_state' \in JbcSettings
    BY DEF TypeOK
  <2> QED BY <2>1, <2>2 DEF ConfiguredDelay
<1> QED BY <1>1 DEF Promise!Configure

\* The decision when sources come and go.
LEMMA ApplyPromise ==
  ASSUME TypeOK, TypeOK', DemandFollowsInputs, DemandFollowsInputs',
         applyOutputState(Work), UNCHANGED <<now, jbc_state>>
  PROVE  Promise!Next \/ UNCHANGED Promise!vars
<1>1. ConfiguredDelay' = ConfiguredDelay
  BY DEF ConfiguredDelay
<1>2. CASE Trigger'
  <2>1. afterrun_active' = FALSE /\ desired_output_enabled' = TRUE
    <3>1. afterrun_active' \in BOOLEAN /\ desired_output_enabled' \in BOOLEAN
      BY DEF TypeOK
    <3> QED BY <1>2, <3>1 DEF DemandFollowsInputs
  <2>2. AfterrunLeft' = 0
    BY <2>1 DEF AfterrunLeft
  <2>3. Promise!Request
    BY <1>1, <1>2, <2>1, <2>2 DEF Promise!Request, Promise!Requested, Trigger
  <2> QED BY <2>3 DEF Promise!Next
<1>3. CASE ~Trigger' /\ Trigger
  <2>1. ~afterrun_active /\ desired_output_enabled = TRUE
        /\ desired_output_enabled' = afterrun_active' /\ afterrun_active' \in BOOLEAN
    BY <1>3 DEF DemandFollowsInputs, TypeOK
  <2>2. Promise!Requested /\ ~Promise!Requested'
    BY <1>3 DEF Promise!Requested, Trigger
  <2>3. ConfiguredDelay \in 0 .. MaxDelay /\ MaxDelay \in Nat
    BY ConfiguredType, ClockAssumption DEF ClockAssumption
  <2>4. /\ afterrun_active' <=> Work /\ ConfiguredDelay > 0
        /\ afterrun_active' => afterrun_deadline' = WrapAdd(now, ConfiguredDelay)
    <3>1. jbc_state \in JbcSettings
      BY DEF TypeOK
    <3>2. jbc_state.valid \in BOOLEAN /\ jbc_state.delay_work_sec \in 0 .. MaxDelay
      BY <3>1, SettingsType
    <3>3. jbc_state.valid /\ jbc_state.delay_work_sec > 0 <=> ConfiguredDelay > 0
      BY <3>2 DEF ConfiguredDelay
    <3>4. ConfiguredDelay > 0 => ConfiguredDelay = jbc_state.delay_work_sec
      BY DEF ConfiguredDelay
    <3>5. /\ afterrun_active' = (Work /\ jbc_state.valid /\ jbc_state.delay_work_sec > 0)
          /\ afterrun_active' => afterrun_deadline' = WrapAdd(now, jbc_state.delay_work_sec)
      BY <1>3, <2>1, <3>2 DEF applyOutputState
    <3> QED BY <3>3, <3>4, <3>5
  <2>5. CASE afterrun_active'
    <3>1. AfterrunLeft' = ConfiguredDelay
      <4> DEFINE d == ConfiguredDelay
      <4>1. d \in 1 .. MaxDelay /\ afterrun_deadline' = WrapAdd(now, d)
        BY <2>3, <2>4, <2>5
      <4> HIDE DEF d
      <4>2. AfterrunLeft' = d
        BY <2>5, <4>1, LeftWhenSet
      <4> QED BY <4>2 DEF d
    <3>2. AfterrunLeft' = (IF Work THEN ConfiguredDelay ELSE 0) /\ AfterrunLeft' > 0
      BY <2>4, <2>5, <3>1
    <3>3. desired_output_enabled' = (AfterrunLeft' > 0)
      BY <2>1, <2>5, <3>2, Zenon
    <3> QED BY <1>1, <2>2, <3>2, <3>3, Zenon DEF Promise!Release, Promise!Next
  <2>6. CASE ~afterrun_active'
    <3>1. AfterrunLeft' = 0
      BY <2>6 DEF AfterrunLeft
    <3>2. AfterrunLeft' = (IF Work THEN ConfiguredDelay ELSE 0) /\ ~(AfterrunLeft' > 0)
      BY <2>3, <2>4, <2>6, <3>1
    <3>3. desired_output_enabled' = (AfterrunLeft' > 0)
      <4>1. desired_output_enabled' = FALSE
        BY <2>1, <2>6
      <4>2. (AfterrunLeft' > 0) = FALSE
        BY <3>1
      <4> QED BY <4>1, <4>2
    <3> QED BY <1>1, <2>2, <3>2, <3>3, Zenon DEF Promise!Release, Promise!Next
  <2> QED BY <2>5, <2>6
<1>4. CASE ~Trigger' /\ ~Trigger
  <2>1. ~Work /\ ~continuous /\ ~Work' /\ ~continuous'
    BY <1>4 DEF Trigger
  <2>2. UNCHANGED <<Work, continuous>>
    BY <2>1 DEF Work, TypeOK
  <2>3. UNCHANGED <<afterrun_active, afterrun_deadline>>
    BY <1>4, <2>1 DEF applyOutputState, TypeOK
  <2>4. desired_output_enabled' = desired_output_enabled
    BY <1>4, <2>3 DEF DemandFollowsInputs, TypeOK
  <2>5. AfterrunLeft' = AfterrunLeft
    BY <2>3 DEF AfterrunLeft
  <2> QED BY <1>1, <2>2, <2>4, <2>5 DEF Promise!vars
<1> QED BY <1>2, <1>3, <1>4

\* Every step is a step of the promise or leaves what it speaks of unchanged.
LEMMA PromiseStep ==
  /\ TypeOK /\ TypeOK' /\ DemandFollowsInputs /\ DemandFollowsInputs'
  /\ DeadlineInReach /\ [Next]_logicVars
  => [Promise!Next]_(Promise!vars)
<1> SUFFICES ASSUME TypeOK, TypeOK', DemandFollowsInputs, DemandFollowsInputs',
                    DeadlineInReach, [Next]_logicVars
             PROVE  Promise!Next \/ UNCHANGED Promise!vars
  OBVIOUS
<1>1. CASE applyOutputState(Work) /\ UNCHANGED <<now, jbc_state>>
  BY <1>1, ApplyPromise
<1>2. CASE UNCHANGED <<now, inputs, desired_output_enabled, afterrun>>
  <2>1. UNCHANGED <<Work, continuous, desired_output_enabled, AfterrunLeft>>
    BY <1>2 DEF inputs, afterrun, Work, AfterrunLeft
  <2> QED BY <2>1, OnlyConfigured DEF Promise!Next
<1>3. CASE applyOutputState(Work) /\ UNCHANGED <<now, inputs>>
  <2>1. UNCHANGED <<Work, continuous, Trigger>>
    BY <1>3 DEF inputs, Work, Trigger
  <2>2. CASE Trigger
    <3>1. ~afterrun_active /\ ~afterrun_active'
      BY <2>1, <2>2 DEF DemandFollowsInputs
    <3>2. desired_output_enabled' = desired_output_enabled
      BY <2>1, <2>2, <3>1 DEF DemandFollowsInputs, TypeOK
    <3>3. AfterrunLeft' = AfterrunLeft
      BY <3>1 DEF AfterrunLeft
    <3> QED BY <2>1, <3>2, <3>3, OnlyConfigured DEF Promise!Next
  <2>3. CASE ~Trigger
    <3>1. ~Work
      BY <2>3 DEF Trigger
    <3>2. UNCHANGED <<afterrun_active, afterrun_deadline>>
      BY <1>3, <2>1, <2>3, <3>1 DEF applyOutputState, TypeOK
    <3>3. desired_output_enabled' = desired_output_enabled
      BY <2>1, <2>3, <3>2 DEF DemandFollowsInputs, TypeOK
    <3>4. AfterrunLeft' = AfterrunLeft
      BY <1>3, <3>2 DEF AfterrunLeft
    <3> QED BY <2>1, <3>3, <3>4, OnlyConfigured DEF Promise!Next
  <2> QED BY <2>2, <2>3
<1> USE DEF Promise!vars, Asked
<1>4. CASE Elapse
  <2>1. /\ UNCHANGED <<Asked, desired_output_enabled, afterrun_active, afterrun_deadline>>
        /\ now' = WrapAdd(now, 1)
    BY <1>4 DEF Elapse, inputs, output, afterrun, config, Asked, Work, ConfiguredDelay
  <2>2. now \in Clock /\ afterrun_deadline \in Clock
    BY DEF TypeOK
  <2>3. CASE ~afterrun_active
    BY <2>1, <2>3 DEF AfterrunLeft
  <2>4. CASE afterrun_active /\ Reached(now, afterrun_deadline)
    <3>1. WrapSub(now, afterrun_deadline) < MaxLag
      BY <1>4, <2>4 DEF Elapse, Overdue
    <3>2. Reached(now', afterrun_deadline)
      BY <2>1, <2>2, <2>4, <3>1, ClockAssumption
      DEF Reached, WrapAdd, WrapSub, Clock, Wrap, ClockAssumption
    <3> QED BY <2>1, <2>4, <3>2 DEF AfterrunLeft
  <2>5. CASE afterrun_active /\ ~Reached(now, afterrun_deadline)
    <3>1. AfterrunLeft = WrapSub(afterrun_deadline, now)
      BY <2>5 DEF AfterrunLeft
    <3>2. /\ WrapSub(afterrun_deadline, now) \in 1 .. MaxDelay
          /\ WrapSub(afterrun_deadline, WrapAdd(now, 1)) = WrapSub(afterrun_deadline, now) - 1
      BY <2>2, <2>5, ClockAssumption
      DEF DeadlineInReach, Reached, WrapAdd, WrapSub, Clock, Wrap, ClockAssumption
    <3>3. AfterrunLeft' = WrapSub(afterrun_deadline, WrapAdd(now, 1))
      <4>1. CASE Reached(now', afterrun_deadline')
        <5>1. WrapSub(afterrun_deadline, WrapAdd(now, 1)) = 0
          BY <2>1, <2>2, <2>5, <3>2, <4>1, ClockAssumption
          DEF Reached, WrapAdd, WrapSub, Clock, Wrap, ClockAssumption
        <5> QED BY <2>1, <4>1, <5>1 DEF AfterrunLeft
      <4>2. CASE ~Reached(now', afterrun_deadline')
        BY <2>1, <2>5, <4>2 DEF AfterrunLeft
      <4> QED BY <4>1, <4>2
    <3>4. Promise!Elapse
      BY <2>1, <3>1, <3>2, <3>3, ClockAssumption DEF Promise!Elapse, ClockAssumption, Asked
    <3> QED BY <3>4 DEF Promise!Next
  <2> QED BY <2>3, <2>4, <2>5
<1>5. CASE AfterrunExpires
  <2>1. ~Trigger /\ desired_output_enabled
    BY <1>5 DEF AfterrunExpires, DemandFollowsInputs
  <2>2. /\ desired_output_enabled' = FALSE
        /\ AfterrunLeft = 0 /\ AfterrunLeft' = 0
        /\ UNCHANGED Asked
    BY <1>5, <2>1 DEF AfterrunExpires, AfterrunLeft, inputs, config, Asked, Work, ConfiguredDelay
  <2>3. Promise!Stop
    BY <2>1, <2>2 DEF Promise!Stop, Promise!Requested, Asked, Trigger
  <2> QED BY <2>3 DEF Promise!Next
<1> QED BY <1>1, <1>2, <1>3, <1>4, <1>5, StepKinds

\* The logic implements the promise, as far as it is safety: extraction starts with
\* the first request, an after-run lasts for the time that is configured when the last
\* tool or input falls silent, and nothing but a new request ends or prolongs it.
THEOREM PromiseSafe == Spec => Promise!Safety
<1>1. InitLogic => Promise!Init
  BY DEF InitLogic, Promise!Init, Work, AfterrunLeft, ConfiguredDelay
<1> QED BY <1>1, PromiseStep, TypeCorrect, DemandCorrect, DeadlineCorrect, PTL
        DEF Spec, Promise!Safety

=============================================================================
