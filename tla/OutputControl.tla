---------------------------- MODULE OutputControl ----------------------------
(***************************************************************************)
(* How the master's decision reaches the fan.  MasterScheduler.cpp selects *)
(* the active output module (selectRoles), writes a dirty set point to it  *)
(* (pushOutputIfNeeded), lets one direct rule switch the same fan          *)
(* (applyInputRuleTarget), counts unanswered requests until a module is    *)
(* offline (request) and keeps its hands off a module that receives new    *)
(* firmware.  The other side of the bus is FanIoModule.ino: what           *)
(* SET_POWER, SET_ENABLE and FW_BEGIN do to the fan, and what stops it     *)
(* without a command.                                                      *)
(*                                                                         *)
(* The loop task runs one handler at a time, so the writes a handler has   *)
(* yet to make wait in todo and the next handler starts when it is empty.  *)
(* Between two of its writes the modules move, and so does the web task,   *)
(* which begins, ends and aborts a firmware update itself; the bus mutex   *)
(* keeps the requests of the two tasks apart.  The outputs have a relay or *)
(* PWM stage.  The commands of the module card (setModuleOutput,           *)
(* setModulePower), which bypass the decision on purpose, are left out.    *)
(***************************************************************************)
EXTENDS Naturals, Sequences, FiniteSetsExt

CONSTANTS
  Outputs,      \* bus addresses of the output modules
  Weller,       \* those with CAP_WELLER_INTERFACE, which Automatic prefers
  RuleTarget,   \* the output a direct rule switches, 0 when there is no rule
  Powers,       \* the set points of a running fan
  MaxMisses,    \* unanswered requests that take a module offline: 5 in the code
  Updates       \* whether firmware updates of output modules happen

None == 0       \* no output; as the preferred output: Automatic

ASSUME OutputAssumption ==
  /\ Outputs \subseteq Nat \ {None} /\ Outputs # {} /\ IsFiniteSet(Outputs)
  /\ Weller \subseteq Outputs
  /\ RuleTarget \in Outputs \cup {None}
  /\ Powers \subseteq Nat \ {0} /\ Powers # {}
  /\ MaxMisses \in Nat \ {0}
  /\ Updates \in BOOLEAN

VARIABLES
  preferred_output_addr,   \* the selection of the user
  active_output_addr,      \* the output that gets the decision
  online,                  \* rec.online
  consecutive_timeouts,    \* rec.consecutive_timeouts
  desired,                 \* desired_output_enabled_ and desired_power_
  enable_dirty,            \* output_enable_dirty_
  power_dirty,             \* output_power_dirty_
  module_fw_target,        \* the module under update, None for none
  rule,                    \* the direct rule and the value of its source
  todo,                    \* writes that are yet to be made
  fan,                     \* the modules: output_enabled, output_power
  disturbed                \* auxiliary: outputs that lost their state since the
                           \* last complete write, unnoticed by the master, or
                           \* that an OFF sent for their time before will reach

registry == <<online, consecutive_timeouts>>
roles == <<preferred_output_addr, active_output_addr>>
dirty == <<enable_dirty, power_dirty>>
outputVars == <<registry, roles, desired, dirty, module_fw_target, rule, todo, fan, disturbed>>

Idle == todo = <<>>
RuleOn == rule.enabled /\ rule.source
RuleOwns(o) == RuleOn /\ RuleTarget = o

-----------------------------------------------------------------------------
(***************************************************************************)
(* The items of todo.  A push writes "power" and "enable"; a change of the *)
(* active output writes "dropPower" and "dropEnable" to the one before;    *)
(* "rule" is the turn of the rule in updateInputRouting; "ruleOff" the OFF *)
(* of a rule that is removed.                                              *)
(***************************************************************************)
Kinds == {"power", "enable", "dropPower", "dropEnable", "rule", "ruleOff"}
PushKinds == {"power", "enable"}
OffKinds == {"dropPower", "dropEnable", "ruleOff"}
Item(kind, o) == [kind |-> kind, out |-> o]
When(condition, items) == IF condition THEN items ELSE <<>>

\* updateInputRouting for the one rule.  A handler that routes several times in a
\* row does so once here: a repetition finds the rule in step or repeats a write
\* that failed, which UpdateInputRouting covers.
Routing == When(rule.enabled, <<Item("rule", RuleTarget)>>)

\* selectRoles: the preferred output, or the first Weller, or the first output;
\* never one that is offline.
Selected(preferred, on) ==
  LET available == {o \in Outputs : on[o]}
  IN CASE preferred # None -> IF preferred \in available THEN preferred ELSE None
       [] preferred = None /\ available \cap Weller # {} -> Min(available \cap Weller)
       [] preferred = None /\ available \cap Weller = {} ->
            IF available = {} THEN None ELSE Min(available)

\* Also when the selection stays the same.
DropsAlways(next, on) ==
  LET previous == active_output_addr
  IN When(previous # None /\ on[previous] /\ previous # module_fw_target,
          <<Item("dropPower", previous), Item("dropEnable", previous)>>)

\* selectRoles: the OFF commands to the output that was active before.
Drops(next, on) ==
  LET previous == active_output_addr
  IN When(/\ next # previous
          /\ previous # None /\ on[previous] /\ previous # module_fw_target,
          <<Item("dropPower", previous), Item("dropEnable", previous)>>)

\* What the command of an item does to the fan that receives it.
Effect(item) ==
  CASE item.kind = "power" -> [fan EXCEPT ![item.out].power = desired.power]
    [] item.kind = "enable" -> [fan EXCEPT ![item.out].on = desired.on]
    [] item.kind = "rule" -> [fan EXCEPT ![item.out].on = rule.source]
    [] OTHER -> [fan EXCEPT ![item.out].on = FALSE]

\* applyInputRuleTarget: whether the rule's turn ends in a command.  The falling
\* edge is only recorded while the extractor owns the fan.  Check and command are
\* one step here, although the command may have to wait for the bus mutex.
RuleSynced == rule.target_sync_valid /\ rule.last_active = rule.source
RuleNeverYields == FALSE
RuleYields == ~rule.source /\ desired.on /\ RuleTarget = active_output_addr
RuleWrites == rule.enabled /\ online[RuleTarget] /\ ~RuleSynced /\ ~RuleYields

IsWrite(item) == item.kind = "rule" => RuleWrites
Sendable(item) == online[item.out] /\ item.out # module_fw_target

-----------------------------------------------------------------------------
\* Every variable keeps to its type; a handler has no more than four writes left,
\* and the web task one for each module it takes offline meanwhile.
TypeOK ==
  /\ preferred_output_addr \in Outputs \cup {None}
  /\ active_output_addr \in Outputs \cup {None}
  /\ online \in [Outputs -> BOOLEAN]
  /\ consecutive_timeouts \in [Outputs -> 0 .. MaxMisses]
  /\ desired \in [on : BOOLEAN, power : Powers \cup {0}]
  /\ enable_dirty \in BOOLEAN /\ power_dirty \in BOOLEAN
  /\ module_fw_target \in Outputs \cup {None}
  /\ rule \in [enabled : BOOLEAN, source : BOOLEAN,
               last_active : BOOLEAN, target_sync_valid : BOOLEAN]
  /\ todo \in Seq([kind : Kinds, out : Outputs]) /\ Len(todo) <= 4 + Cardinality(Outputs)
  /\ fan \in [Outputs -> [on : BOOLEAN, power : Powers]]
  /\ disturbed \subseteq Outputs

\* What setup leaves: the saved selection and no module heard of yet.
InitOutput ==
  /\ preferred_output_addr \in Outputs \cup {None} /\ active_output_addr = None
  /\ online = [o \in Outputs |-> FALSE]
  /\ consecutive_timeouts = [o \in Outputs |-> 0]
  /\ desired = [on |-> FALSE, power |-> 0]
  /\ enable_dirty = TRUE /\ power_dirty = TRUE
  /\ module_fw_target = None
  /\ rule = [enabled |-> FALSE, source |-> FALSE,
             last_active |-> FALSE, target_sync_valid |-> FALSE]
  /\ todo = <<>>
  /\ fan \in [Outputs -> [on : BOOLEAN, power : Powers]]
  /\ disturbed = {}

-----------------------------------------------------------------------------
(***************************************************************************)
(* Handlers of the master, each started when no other one is running.      *)
(***************************************************************************)

\* selectRoles and markOutputDirty in a handler that leaves the modules in on
\* online: the roles, the OFF commands to the former output, then the routing.
SelectRoles(preferred, on, routes) ==
  LET next == Selected(preferred, on)
  IN /\ active_output_addr' = next
     /\ todo' = Drops(next, on) \o When(routes, Routing)
     /\ enable_dirty' = TRUE /\ power_dirty' = TRUE

\* The extraction logic decides anew; a changed half becomes dirty, and tick
\* routes the rules again, before it pushes, when extraction starts or stops.
Decide(on, power) ==
  /\ Idle
  /\ on <=> power > 0
  /\ desired' = [on |-> on, power |-> power]
  /\ enable_dirty' = (enable_dirty \/ on # desired.on)
  /\ power_dirty' = (power_dirty \/ power # desired.power)
  /\ todo' = When(on # desired.on, Routing)
  /\ UNCHANGED <<registry, roles, module_fw_target, rule, fan, disturbed>>

\* markOutputDirty alone: the after-run profile was saved.
MarkOutputDirty ==
  /\ Idle
  /\ enable_dirty' = TRUE /\ power_dirty' = TRUE
  /\ UNCHANGED <<registry, roles, desired, module_fw_target, rule, todo, fan, disturbed>>

\* setPreferredOutputAddr.  tick routes the rules when the selection has changed.
SelectOutput(o) ==
  /\ Idle
  /\ preferred_output_addr' = o
  /\ SelectRoles(o, online, o # preferred_output_addr \/ Selected(o, online) # active_output_addr)
  /\ UNCHANGED <<registry, desired, module_fw_target, rule, fan, disturbed>>

\* With the orders of the two writes swapped.
PushEnableFirst(o) ==
  When(enable_dirty, <<Item("enable", o)>>)
    \o When(desired.on /\ power_dirty, <<Item("power", o)>>)

\* pushOutputIfNeeded, up to its first write: power before enable to start or to
\* adjust the fan, the enable alone to stop it, nothing under an active rule.
PushItems(o) ==
  When(desired.on /\ power_dirty, <<Item("power", o)>>)
    \o When(enable_dirty, <<Item("enable", o)>>)

PushIsComplete == enable_dirty /\ (power_dirty \/ ~desired.on)

\* A direct rule keeps its fan on when extraction ends.
EndsUnderRule(o) == FALSE
RuleKeepsOn(o) == ~desired.on /\ RuleOwns(o)

Push ==
  LET o == active_output_addr
  IN /\ Idle
     /\ enable_dirty \/ power_dirty
     /\ o = None \/ o # module_fw_target
     /\ IF o = None \/ RuleKeepsOn(o)
        THEN /\ enable_dirty' = FALSE /\ power_dirty' = FALSE
             /\ UNCHANGED <<todo, disturbed>>
        ELSE /\ todo' = PushItems(o)
             /\ power_dirty' = (power_dirty /\ PushItems(o) # <<>>)
             /\ disturbed' = IF PushIsComplete THEN disturbed \ {o} ELSE disturbed
             /\ UNCHANGED enable_dirty
     /\ UNCHANGED <<registry, roles, desired, module_fw_target, rule, fan>>

\* A routed source switches the rule on or off: updateInputRouting at once.
RuleSource(active) ==
  /\ Idle
  /\ rule.enabled /\ active # rule.source
  /\ rule' = [rule EXCEPT !.source = active]
  /\ todo' = Routing
  /\ UNCHANGED <<registry, roles, desired, dirty, module_fw_target, fan, disturbed>>

\* updateInputRouting for any other reason: another input, a JBC poll.
UpdateInputRouting ==
  /\ Idle
  /\ rule.enabled
  /\ todo' = Routing
  /\ UNCHANGED <<registry, roles, desired, dirty, module_fw_target, rule, fan, disturbed>>

\* setInputRule stores the rule, with its source active or not.
AddRule(active) ==
  /\ Idle
  /\ RuleTarget # None /\ ~rule.enabled
  /\ rule' = [enabled |-> TRUE, source |-> active,
              last_active |-> FALSE, target_sync_valid |-> FALSE]
  /\ todo' = <<Item("rule", RuleTarget)>>
  /\ UNCHANGED <<registry, roles, desired, dirty, module_fw_target, fan, disturbed>>

\* The rule is removed and its target stays as it is.
RemoveRuleSilently ==
  /\ Idle
  /\ rule.enabled
  /\ rule' = [enabled |-> FALSE, source |-> FALSE,
              last_active |-> FALSE, target_sync_valid |-> FALSE]
  /\ disturbed' = IF rule.target_sync_valid THEN disturbed ELSE disturbed \cup {RuleTarget}
  /\ UNCHANGED <<registry, roles, desired, dirty, module_fw_target, todo, fan>>

\* setInputRule removes the rule; it switches its target off when it had
\* switched it on, unless the extractor owns the fan.  An ON command that went
\* unanswered leaves the fan in a state nobody tracks any more.
RemoveRule ==
  /\ Idle
  /\ rule.enabled
  /\ rule' = [enabled |-> FALSE, source |-> FALSE,
              last_active |-> FALSE, target_sync_valid |-> FALSE]
  /\ todo' = When(/\ rule.last_active /\ online[RuleTarget]
                  /\ ~(desired.on /\ RuleTarget = active_output_addr),
                  <<Item("ruleOff", RuleTarget)>>)
  /\ disturbed' = IF rule.target_sync_valid THEN disturbed ELSE disturbed \cup {RuleTarget}
  /\ UNCHANGED <<registry, roles, desired, dirty, module_fw_target, fan>>

\* The count of the unanswered requests survives the reconnection.
ReconnectKeepsCount(o) ==
  LET on == [online EXCEPT ![o] = TRUE]
  IN /\ Idle
     /\ ~online[o]
     /\ online' = on
     /\ SelectRoles(preferred_output_addr, on, TRUE)
     /\ UNCHANGED <<preferred_output_addr, consecutive_timeouts, desired,
                    module_fw_target, rule, fan, disturbed>>

\* scanAddress of an offline module that answers: readInfo and readCaps.
Reconnect(o) ==
  LET on == [online EXCEPT ![o] = TRUE]
  IN /\ Idle
     /\ ~online[o]
     /\ online' = on
     /\ consecutive_timeouts' = [consecutive_timeouts EXCEPT ![o] = 0]
     /\ SelectRoles(preferred_output_addr, on, TRUE)
     /\ UNCHANGED <<preferred_output_addr, desired, module_fw_target, rule, fan, disturbed>>

-----------------------------------------------------------------------------
(***************************************************************************)
(* Firmware updates, run by the web task between any two requests of the   *)
(* loop.                                                                   *)
(***************************************************************************)

\* moduleFwBegin: FW_BEGIN stops the fan, if it arrives.
ModuleFwBegin(o) ==
  /\ Updates
  /\ module_fw_target = None /\ online[o]
  /\ module_fw_target' = o
  /\ fan' \in {fan, [fan EXCEPT ![o].on = FALSE]}
  /\ disturbed' = disturbed \cup {o}
  /\ UNCHANGED <<registry, roles, desired, dirty, rule, todo>>

\* moduleFwAbort: cancelled, or a step of the update failed.
ModuleFwAbort ==
  /\ module_fw_target # None
  /\ module_fw_target' = None
  /\ UNCHANGED <<registry, roles, desired, dirty, rule, todo, fan, disturbed>>

\* The writes of the web task among those of the loop: before or after any of
\* them, or none, when the loop is routing and updateInputRouting does not nest.
Interleaved(items) ==
  {SubSeq(todo, 1, i) \o items \o SubSeq(todo, i + 1, Len(todo)) : i \in 0 .. Len(todo)}
    \cup {t \in {todo} : t # <<>> /\ Head(t).kind = "rule"}

\* The loop has still to switch off an output that extraction does not use.
OffPending(o) ==
  \E i \in 1 .. Len(todo) : todo[i].out = o /\ todo[i].kind \in OffKinds

\* An output that has just been selected while an OFF from the time when it was
\* not is still to be sent to it: it stops until the push of the dirty set point.
Overtaken == {o \in {active_output_addr'} : OffPending(o)}

\* invalidateModuleAfterFirmwareUpdate: o is offline until it answers again.  The
\* former output is o or stays, so that no OFF is sent.
Invalidate(o) ==
  LET on == [online EXCEPT ![o] = FALSE]
  IN /\ online' = on
     /\ consecutive_timeouts' = [consecutive_timeouts EXCEPT ![o] = MaxMisses]
     /\ active_output_addr' = Selected(preferred_output_addr, on)
     /\ enable_dirty' = TRUE /\ power_dirty' = TRUE
     /\ todo' \in Interleaved(Routing)

\* moduleFwEnd: the module restarts.
ModuleFwEnd ==
  LET o == module_fw_target
  IN /\ o # None
     /\ module_fw_target' = None
     /\ Invalidate(o)
     /\ fan' = [fan EXCEPT ![o].on = FALSE]
     /\ disturbed' = disturbed \cup Overtaken
     /\ UNCHANGED <<preferred_output_addr, desired, rule>>

-----------------------------------------------------------------------------
(***************************************************************************)
(* The requests of a handler.  request gives up at once on a module that   *)
(* is offline or under update; an unanswered command may still have been   *)
(* carried out.                                                            *)
(***************************************************************************)

\* The bookkeeping of the rule and of the dirty flags once item is answered.
Accepted(item) ==
  LET off == item.kind = "enable" /\ ~desired.on
  IN /\ power_dirty' = (power_dirty /\ item.kind # "power" /\ ~off)
     /\ enable_dirty' = (enable_dirty /\ item.kind # "enable")
     /\ rule' = IF item.kind # "rule" THEN rule
                ELSE [rule EXCEPT !.last_active = rule.source, !.target_sync_valid = TRUE]

\* The same once it failed: the rule is out of step.
Failed(item) ==
  rule' = IF item.kind # "rule" THEN rule ELSE [rule EXCEPT !.target_sync_valid = FALSE]

\* What nobody tracks any more: the target of a removed rule whose OFF failed.
Forgotten(item) == IF item.kind = "ruleOff" THEN {item.out} ELSE {}

\* The writes left after a failed one: a push stops, the others carry on.
Remaining(item) == IF item.kind \in PushKinds THEN <<>> ELSE Tail(todo)

\* Offline without a new selection, with a new one that marks nothing, and with
\* the flags cleared before the answer has come.
MissedKeepsRole(o, rest, routed) ==
  LET count == consecutive_timeouts[o] + 1
      gone == count >= MaxMisses
  IN /\ consecutive_timeouts' = [consecutive_timeouts EXCEPT ![o] = count]
     /\ online' = [online EXCEPT ![o] = ~gone]
     /\ UNCHANGED <<active_output_addr, dirty>>
     /\ todo' = When(gone /\ routed, Routing) \o rest
MissedMarksNothing(o, rest, routed) ==
  LET count == consecutive_timeouts[o] + 1
      gone == count >= MaxMisses
      on == [online EXCEPT ![o] = ~gone]
  IN /\ consecutive_timeouts' = [consecutive_timeouts EXCEPT ![o] = count]
     /\ online' = on
     /\ active_output_addr' = Selected(preferred_output_addr, on)
     /\ UNCHANGED dirty
     /\ todo' = When(gone /\ routed, Routing) \o rest
MissedForgets(o, rest, routed) ==
  LET count == consecutive_timeouts[o] + 1
      gone == count >= MaxMisses
      on == [online EXCEPT ![o] = ~gone]
  IN /\ consecutive_timeouts' = [consecutive_timeouts EXCEPT ![o] = count]
     /\ online' = on
     /\ active_output_addr' = Selected(preferred_output_addr, on)
     /\ enable_dirty' = gone /\ power_dirty' = gone
     /\ todo' = When(gone /\ routed, Routing) \o rest

\* A request to o stays unanswered; one too many takes it offline, with all
\* that follows.  rest is what the running handler still has to write, routed
\* is FALSE inside updateInputRouting, which does not nest.
Missed(o, rest, routed) ==
  LET count == consecutive_timeouts[o] + 1
      gone == count >= MaxMisses
      on == [online EXCEPT ![o] = ~gone]
  IN /\ consecutive_timeouts' = [consecutive_timeouts EXCEPT ![o] = count]
     /\ online' = on
     /\ active_output_addr' = Selected(preferred_output_addr, on)
     /\ enable_dirty' = (enable_dirty \/ gone)
     /\ power_dirty' = (power_dirty \/ gone)
     /\ todo' = When(gone /\ routed, Routing) \o rest

Answered ==
  LET item == Head(todo)
  IN /\ ~Idle
     /\ IsWrite(item) /\ Sendable(item)
     /\ fan' = Effect(item)
     /\ consecutive_timeouts' = [consecutive_timeouts EXCEPT ![item.out] = 0]
     /\ Accepted(item)
     /\ todo' = Tail(todo)
     /\ UNCHANGED <<online, roles, desired, module_fw_target, disturbed>>

Unanswered ==
  LET item == Head(todo)
  IN /\ ~Idle
     /\ IsWrite(item) /\ Sendable(item)
     /\ fan' \in {fan, Effect(item)}
     /\ Missed(item.out, Remaining(item), item.kind # "rule")
     /\ Failed(item)
     /\ disturbed' = disturbed \cup Forgotten(item) \cup Overtaken
     /\ UNCHANGED <<preferred_output_addr, desired, module_fw_target>>

Refused ==
  LET item == Head(todo)
  IN /\ ~Idle
     /\ IsWrite(item) /\ ~Sendable(item)
     /\ Failed(item)
     /\ disturbed' = disturbed \cup Forgotten(item)
     /\ todo' = Remaining(item)
     /\ UNCHANGED <<registry, roles, desired, dirty, module_fw_target, fan>>

\* The turn of a rule that needs no command: its target is offline, it is in
\* step, or its falling edge is left to the extractor.
RuleWaits ==
  /\ ~Idle
  /\ ~IsWrite(Head(todo))
  /\ rule' = CASE ~online[RuleTarget] -> [rule EXCEPT !.target_sync_valid = FALSE]
               [] online[RuleTarget] /\ RuleSynced -> rule
               [] OTHER -> [rule EXCEPT !.last_active = FALSE, !.target_sync_valid = TRUE]
  /\ todo' = Tail(todo)
  /\ UNCHANGED <<registry, roles, desired, dirty, module_fw_target, fan, disturbed>>

\* Any other request of the master to o: a status or capability poll.
PollAnswered(o) ==
  /\ Idle
  /\ online[o] /\ o # module_fw_target
  /\ consecutive_timeouts' = [consecutive_timeouts EXCEPT ![o] = 0]
  /\ UNCHANGED <<online, roles, desired, dirty, module_fw_target, rule, todo, fan, disturbed>>

PollUnanswered(o) ==
  /\ Idle
  /\ online[o] /\ o # module_fw_target
  /\ Missed(o, <<>>, TRUE)
  /\ UNCHANGED <<preferred_output_addr, desired, module_fw_target, rule, fan, disturbed>>

-----------------------------------------------------------------------------
(***************************************************************************)
(* The modules on their own.                                               *)
(***************************************************************************)

\* A module reboots, with the output off and the set point it had saved.
Reboot(o) ==
  /\ \E power \in Powers : fan' = [fan EXCEPT ![o] = [on |-> FALSE, power |-> power]]
  /\ disturbed' = disturbed \cup {o}
  /\ UNCHANGED <<registry, roles, desired, dirty, module_fw_target, rule, todo>>

\* The failsafe stops a fan whose module has not heard the master for eight
\* seconds, in which the master has missed an answer.
Failsafe(o) ==
  /\ fan[o].on
  /\ ~online[o] \/ consecutive_timeouts[o] > 0
  /\ fan' = [fan EXCEPT ![o].on = FALSE]
  /\ disturbed' = disturbed \cup {o}
  /\ UNCHANGED <<registry, roles, desired, dirty, module_fw_target, rule, todo>>

-----------------------------------------------------------------------------
Handler ==
  \/ \E on \in BOOLEAN, power \in Powers \cup {0} : Decide(on, power)
  \/ MarkOutputDirty
  \/ \E o \in Outputs \cup {None} : SelectOutput(o)
  \/ Push
  \/ \E active \in BOOLEAN : RuleSource(active)
  \/ UpdateInputRouting
  \/ \E active \in BOOLEAN : AddRule(active)
  \/ RemoveRule
  \/ \E o \in Outputs : Reconnect(o)
  \/ \E o \in Outputs : PollAnswered(o)
  \/ \E o \in Outputs : PollUnanswered(o)

Update ==
  \/ \E o \in Outputs : ModuleFwBegin(o)
  \/ ModuleFwAbort
  \/ ModuleFwEnd

Request ==
  \/ Answered
  \/ Unanswered
  \/ Refused
  \/ RuleWaits

Module ==
  \/ \E o \in Outputs : Reboot(o)
  \/ \E o \in Outputs : Failsafe(o)

NextOutput == Handler \/ Update \/ Request \/ Module

Safety == InitOutput /\ [][NextOutput]_outputVars

\* Every round of the loop comes to pushOutputIfNeeded, a handler that started goes
\* on, and a command that is sent again and again is answered now and then.
Fairness ==
  /\ SF_outputVars(Push)
  /\ \A kind \in PushKinds : SF_outputVars(Answered /\ Head(todo).kind = kind)
  /\ WF_outputVars(Answered \/ Unanswered \/ Refused \/ RuleWaits)

Spec == Safety /\ Fairness

-----------------------------------------------------------------------------
\* The decision goes to the output the user selected, or to the one Automatic
\* prefers, as soon as a module has come, gone or been selected; never to one
\* that is offline.
ActiveIsSelected ==
  active_output_addr = Selected(preferred_output_addr, online)

RuleHolds(o) ==
  /\ rule.enabled /\ RuleTarget = o
  /\ rule.source \/ rule.last_active \/ ~rule.target_sync_valid

\* With nothing left to write, the active fan does what the extraction logic
\* wants: it runs at the desired power, or it is off unless a direct rule holds
\* it.  Only an output that lost its state unnoticed is excepted.
FanFollowsDecision ==
  LET o == active_output_addr
  IN o \notin disturbed \cup {None, module_fw_target} /\ Idle /\ ~enable_dirty =>
       IF desired.on
       THEN fan[o].on /\ (~power_dirty => fan[o].power = desired.power)
       ELSE fan[o].on => RuleHolds(o)

\* An enable command of the extraction logic starts a fan at the desired power,
\* never at a set point of an earlier run.
StartsAtDesiredPower ==
  [][\A o \in Outputs :
       /\ ~fan[o].on /\ fan'[o].on
       /\ ~Idle /\ Head(todo).kind = "enable"
       /\ o \notin disturbed
       => fan'[o].power = desired.power]_outputVars

\* While extraction is wanted no command stops the fan of the active output: the
\* falling edge of a rule and the OFF for a former output never reach it.
NoCutWhileWanted ==
  [][\A o \in Outputs :
       desired.on /\ active_output_addr = o /\ fan[o].on /\ ~fan'[o].on
       => o \in disturbed']_outputVars

\* The end of extraction or of the after-run does not stop a fan that a direct
\* rule holds.
RuleKeepsFan ==
  [][\A o \in Outputs :
       RuleOwns(o) /\ active_output_addr = o /\ fan[o].on /\ ~fan'[o].on
       => o \in disturbed']_outputVars

\* A fan that is no longer wanted stops, although commands get lost, as long as
\* its module answers now and then.  A wanted fan runs at last and for good, unless
\* its module keeps losing its state.
FanSettles ==
  /\ <>[](~desired.on /\ ~RuleOn) =>
       []<>(active_output_addr \in {None, module_fw_target} \/ ~fan[active_output_addr].on)
  /\ \A o \in Outputs :
       <>[](desired.on /\ active_output_addr = o /\ o # module_fw_target /\ o \notin disturbed)
         => <>[]fan[o].on

\* Only the falling edge of its source ends what a direct rule has switched on
\* ("the rule owns the final OFF edge when its source clears").
RuleOwnsFinalOff ==
  [][RuleOn /\ rule.last_active /\ rule.target_sync_valid
     /\ fan[RuleTarget].on /\ ~fan'[RuleTarget].on
     => RuleTarget \in disturbed']_outputVars

=============================================================================
