----------------------------- MODULE InputRouting -----------------------------
(***************************************************************************)
(* How the inputs of the modules reach the extraction logic and the        *)
(* outputs of direct rules.  A Fan/IO module has a debounced input level   *)
(* and latches every rising edge until the master has fetched it;          *)
(* readIoStatus observes both; updateInputRouting derives the external     *)
(* input of the extraction logic and lets each rule write its output.      *)
(* Writing an output reads the same module again, inside                   *)
(* updateInputRouting, which does not nest (applying_input_rules_).        *)
(*                                                                         *)
(* Every module has one input and one digital output.  The sources of the  *)
(* external input that need no module, and the Continuous switch, are left *)
(* out.  What happens to the selected extractor output is in               *)
(* OutputControl.                                                          *)
(*                                                                         *)
(* A rule writes its output once and then counts as written, per           *)
(* connection of its module.  Other things change that output behind the   *)
(* back of the rule: a command, the failsafe of the module, the start of   *)
(* an update, a reboot that is over before the master misses an answer.    *)
(* The auxiliary variable astray remembers where that happened.            *)
(***************************************************************************)
EXTENDS Naturals, Sequences

CONSTANTS
  Modules,      \* the input and output modules
  Wired,        \* those with something connected to the input
  Routed,       \* those with a bit in route_input_output_mask
  Rules,        \* input_rules_: a sequence of [source, target]
  Extractor,    \* the target of a rule for the extraction itself
  Failing       \* the modules that fail while they are online: requests and
                \* answers get lost, they reboot, they drop their output

ASSUME RoutingAssumption ==
  /\ Wired \subseteq Modules /\ Routed \subseteq Modules
  /\ Extractor \notin Modules
  /\ Rules \in Seq([source : Modules, target : Modules \cup {Extractor}])
  /\ Failing \subseteq Modules

VARIABLES
  level,           \* module: io_input_mask, the debounced input
  event,           \* module: io_input_event_mask, the latched rising edge
  output,          \* module: io_output_mask
  online,          \* master: rec.online
  pulse,           \* master: rec.io_input_pulse_mask
  mask,            \* master: rec.io_input_mask
  rule_state,      \* master: last_active and target_sync_valid of each rule
  run,             \* master: updateInputRouting in progress: the index of the
                   \* next rule, 0 for none, and its variable "active"
  scan,            \* master: the module scanAddress has yet to read, or Extractor
  external_input,  \* the external input of the extraction logic
  astray           \* auxiliary: the output was changed by something else than a
                   \* rule since a rule wrote it or the master saw m offline

module == <<level, event, output>>
view == <<pulse, mask>>
master == <<online, view, rule_state, run, scan, external_input>>
vars == <<module, master, astray>>

Routes == 1 .. Len(Rules)
NotRouting == [next |-> 0, active |-> FALSE]
NoScan == Extractor
Targets == {Rules[i].target : i \in Routes} \ {Extractor}
Idle == run.next = 0 /\ scan = NoScan

TypeOK ==
  /\ level \in [Modules -> BOOLEAN] /\ event \in [Modules -> BOOLEAN]
  /\ output \in [Modules -> BOOLEAN] /\ online \in [Modules -> BOOLEAN]
  /\ pulse \in [Modules -> BOOLEAN] /\ mask \in [Modules -> BOOLEAN]
  /\ rule_state \in [Routes -> [last_active : BOOLEAN, target_sync_valid : BOOLEAN]]
  /\ run \in [next : 0 .. Len(Rules) + 1, active : BOOLEAN]
  /\ scan \in Modules \cup {NoScan}
  /\ external_input \in BOOLEAN
  /\ astray \in [Modules -> BOOLEAN]

Init ==
  /\ level \in {l \in [Modules -> BOOLEAN] : \A m \in Modules : l[m] => m \in Wired}
  /\ event = [m \in Modules |-> FALSE]
  /\ output = [m \in Modules |-> FALSE]
  /\ online = [m \in Modules |-> FALSE]
  /\ pulse = [m \in Modules |-> FALSE] /\ mask = [m \in Modules |-> FALSE]
  /\ rule_state = [i \in Routes |-> [last_active |-> FALSE, target_sync_valid |-> FALSE]]
  /\ run = NotRouting /\ scan = NoScan
  /\ external_input = FALSE
  /\ astray = [m \in Modules |-> FALSE]

-----------------------------------------------------------------------------
(***************************************************************************)
(* The modules.                                                            *)
(***************************************************************************)
Press(m) ==
  /\ ~level[m]
  /\ level' = [level EXCEPT ![m] = TRUE]
  /\ event' = [event EXCEPT ![m] = TRUE]
  /\ UNCHANGED <<output, master, astray>>

Release(m) ==
  /\ level[m]
  /\ level' = [level EXCEPT ![m] = FALSE]
  /\ UNCHANGED <<event, output, master, astray>>

\* The output of m becomes on although no rule writes it.
SetsAstray(m, on) ==
  /\ output' = [output EXCEPT ![m] = on]
  /\ astray' = [astray EXCEPT ![m] = @ \/ (online[m] /\ output[m] # on)]

\* A module restarts with its output off and no latched edge.  One that announces
\* itself while the master has it online is not read again.
Restart(m) ==
  /\ online[m] => m \in Failing
  /\ event' = [event EXCEPT ![m] = FALSE]
  /\ SetsAstray(m, FALSE)
  /\ UNCHANGED <<level, master>>

\* The module heard no master for OUTPUT_FAILSAFE_TIMEOUT_MS, or it was told to
\* begin an update, which may be aborted afterwards.
OutputOff(m) ==
  /\ m \in Failing
  /\ SetsAstray(m, FALSE)
  /\ UNCHANGED <<level, event, master>>

-----------------------------------------------------------------------------
(***************************************************************************)
(* The master reads a module.                                              *)
(***************************************************************************)

\* The edge is fetched and dropped.
ReadsLevelOnly(m, held) ==
  /\ pulse' = [pulse EXCEPT ![m] = FALSE]
  /\ mask' = [mask EXCEPT ![m] = level[m]]
  /\ event' = [event EXCEPT ![m] = FALSE]

\* readIoStatus with IO_QUERY_INCLUDE_EVENTS, answered.  An edge is held in the
\* mask for 180 ms, until a later read.
Reads(m, held) ==
  /\ event[m] => held
  /\ held => event[m] \/ pulse[m]
  /\ pulse' = [pulse EXCEPT ![m] = held]
  /\ mask' = [mask EXCEPT ![m] = level[m] \/ held]
  /\ event' = [event EXCEPT ![m] = FALSE]

\* readIoStatus with IO_QUERY_INCLUDE_ALIASES, answered: the edge stays latched.
ReadsAliases(m, held) ==
  /\ held => pulse[m]
  /\ pulse' = [pulse EXCEPT ![m] = held]
  /\ mask' = [mask EXCEPT ![m] = level[m] \/ held]
  /\ UNCHANGED event

\* The request or its answer gets lost, the answer with the edge in it.
ReadFails(m) ==
  /\ m \in Failing
  /\ event' \in {event, [event EXCEPT ![m] = FALSE]}
  /\ UNCHANGED view

\* The external input the observed inputs ask for, without the rules.
RoutedInput(msk, on) == \E m \in Routed : on[m] /\ msk[m]

StartRouting(msk, on) ==
  run' = [next |-> 1, active |-> RoutedInput(msk, on)]

\* Only a press starts the routing.
PressWasObserved(m) == mask'[m] /\ ~mask[m]
ChangeWasObserved(m) == mask'[m] # mask[m]

\* pollNextIoStatus reaches m.
PollIo(m) ==
  /\ Idle
  /\ online[m]
  /\ \E held \in BOOLEAN : Reads(m, held)
  /\ IF ChangeWasObserved(m) THEN StartRouting(mask', online) ELSE UNCHANGED run
  /\ UNCHANGED <<level, output, online, rule_state, scan, external_input, astray>>

\* A module that is taken offline is expected to be written again.
GoesOffline(m) ==
  /\ online' = [online EXCEPT ![m] = FALSE]
  /\ astray' = [astray EXCEPT ![m] = FALSE]

\* The same without an answer, which can be the one that takes m offline.
PollLost(m) ==
  /\ Idle
  /\ online[m]
  /\ ReadFails(m)
  /\ \/ UNCHANGED <<online, run, astray>>
     \/ /\ GoesOffline(m)
        /\ StartRouting(mask, online')
  /\ UNCHANGED <<level, output, rule_state, scan, external_input>>

\* A command of a display or of the web server sets an output that a rule writes,
\* too, and reads its module back; ReadFails stands for a lost answer to either.
SetIoOutput(m, on) ==
  /\ Idle
  /\ online[m]
  /\ SetsAstray(m, on)
  /\ (\E held \in BOOLEAN : Reads(m, held)) \/ ReadFails(m)
  /\ IF ChangeWasObserved(m) THEN StartRouting(mask', online) ELSE UNCHANGED run
  /\ UNCHANGED <<level, online, rule_state, scan, external_input>>

\* scanAddress: an offline module answers readInfo and readCaps, which routes the
\* inputs as they were last seen.
Reconnect(m) ==
  /\ Idle
  /\ ~online[m]
  /\ online' = [online EXCEPT ![m] = TRUE]
  /\ StartRouting(mask, online')
  /\ scan' = m
  /\ UNCHANGED <<module, view, rule_state, external_input, astray>>

\* scanAddress goes on: readIoStatus, then the routing once more.
ScanRead ==
  /\ run.next = 0 /\ scan # NoScan
  /\ \/ \E held \in BOOLEAN : ReadsAliases(scan, held)
     \/ scan \in Failing /\ UNCHANGED <<event, view>>
  /\ StartRouting(mask', online)
  /\ scan' = NoScan
  /\ UNCHANGED <<level, output, online, rule_state, external_input, astray>>

\* fastPollJbc, while a JBC module is connected: updateJbcAggregate routes although
\* no input has changed.
UpdateInputRouting ==
  /\ Idle
  /\ StartRouting(mask, online)
  /\ UNCHANGED <<module, online, view, rule_state, scan, external_input, astray>>

-----------------------------------------------------------------------------
(***************************************************************************)
(* updateInputRouting, one rule after the other (applyInputRuleTarget).    *)
(***************************************************************************)
PastRules == Len(Rules) + 2
NextRule == run.next + 1

SourceActive(i) == online[Rules[i].source] /\ mask[Rules[i].source]
InStep(i) ==
  rule_state[i].target_sync_valid /\ rule_state[i].last_active = SourceActive(i)

Turn(i) == run.next = i /\ run' = [run EXCEPT !.next = NextRule]

ExtractorRule(i) ==
  /\ Rules[i].target = Extractor
  /\ run.next = i
  /\ run' = [next |-> NextRule, active |-> run.active \/ SourceActive(i)]
  /\ UNCHANGED <<module, online, view, rule_state, scan, external_input, astray>>

\* A target that is offline is out of step until it has been written again.
TrustsTarget(i) == UNCHANGED rule_state
OutOfStep(i) == rule_state' = [rule_state EXCEPT ![i].target_sync_valid = FALSE]

TargetOffline(i) ==
  /\ Rules[i].target # Extractor
  /\ ~online[Rules[i].target]
  /\ Turn(i)
  /\ OutOfStep(i)
  /\ UNCHANGED <<module, online, view, scan, external_input, astray>>

TargetInStep(i) ==
  /\ Rules[i].target # Extractor
  /\ online[Rules[i].target] /\ InStep(i)
  /\ Turn(i)
  /\ UNCHANGED <<module, online, view, rule_state, scan, external_input, astray>>

\* setIoOutput is answered, and readIoStatus reads the target at once; the
\* routing it asks for does not take place.
WriteAnswered(i) ==
  LET target == Rules[i].target
  IN /\ target # Extractor
     /\ online[target] /\ ~InStep(i)
     /\ Turn(i)
     /\ output' = [output EXCEPT ![target] = SourceActive(i)]
     /\ astray' = [astray EXCEPT ![target] = FALSE]
     /\ rule_state' = [rule_state EXCEPT ![i] =
          [last_active |-> SourceActive(i), target_sync_valid |-> TRUE]]
     /\ (\E held \in BOOLEAN : Reads(target, held)) \/ ReadFails(target)
     /\ UNCHANGED <<level, online, scan, external_input>>

\* setIoOutput stays unanswered, carried out or not; it can be the request that
\* takes the target offline, and again nothing is routed.
WriteLost(i) ==
  LET target == Rules[i].target
  IN /\ target \in Failing
     /\ online[target] /\ ~InStep(i)
     /\ Turn(i)
     /\ output' \in {output, [output EXCEPT ![target] = SourceActive(i)]}
     /\ OutOfStep(i)
     /\ UNCHANGED <<online, astray>> \/ GoesOffline(target)
     /\ UNCHANGED <<level, event, view, scan, external_input>>

\* All rules had their turn: updateExternalInput.
Finish ==
  /\ run.next = Len(Rules) + 1
  /\ external_input' = run.active
  /\ run' = NotRouting
  /\ UNCHANGED <<module, online, view, rule_state, scan, astray>>

RuleTurn ==
  \E i \in Routes :
    \/ ExtractorRule(i)
    \/ TargetOffline(i)
    \/ TargetInStep(i)
    \/ WriteAnswered(i)
    \/ WriteLost(i)

-----------------------------------------------------------------------------
Next ==
  \/ \E m \in Wired : Press(m)
  \/ \E m \in Wired : Release(m)
  \/ \E m \in Modules : Restart(m)
  \/ \E m \in Modules : OutputOff(m)
  \/ \E m \in Modules : PollIo(m)
  \/ \E m \in Modules : PollLost(m)
  \/ \E m \in Modules : Reconnect(m)
  \/ \E m \in Targets, on \in BOOLEAN : SetIoOutput(m, on)
  \/ ScanRead
  \/ UpdateInputRouting
  \/ RuleTurn
  \/ Finish

Safety == Init /\ [][Next]_vars

\* The loop polls every module again and again, probes those that are offline, and
\* a handler that started goes on.  A JBC module need not be there.
Fairness ==
  /\ \A m \in Modules : SF_vars(PollIo(m))
  /\ \A m \in Modules : SF_vars(Reconnect(m))
  /\ WF_vars(ScanRead) /\ WF_vars(RuleTurn) /\ WF_vars(Finish)

Spec == Safety /\ Fairness

-----------------------------------------------------------------------------
ObservedDemand ==
  \/ RoutedInput(mask, online)
  \/ \E i \in Routes : Rules[i].target = Extractor /\ SourceActive(i)

\* Every input the master has observed has reached the extraction logic by the
\* time the handler that observed it ends.
InputsAreRouted == Idle => external_input = ObservedDemand

\* The output of a rule that counts as written has the value of its source, unless
\* something else has changed it in this connection of its module.  Once the module
\* has been offline, whatever became of its output meanwhile, or once the rule has
\* written it again, it has that value again.
OutputsFollowSources ==
  \A i \in Routes :
    LET target == Rules[i].target
    IN Idle /\ target # Extractor /\ rule_state[i].target_sync_valid
         => ~online[target] \/ astray[target] \/ output[target] = SourceActive(i)

\* A press on a module that no rule writes to, that does not reboot and whose answers
\* arrive, reaches the extraction logic even if it is over before the next poll.
PressIsSeen ==
  \A m \in Routed \ (Failing \cup {Rules[i].target : i \in Routes}) :
    (event[m] /\ online[m]) ~> (external_input \/ ~online[m])

\* An input that is held is acted on, whichever read of the master observed it, and
\* with no input held extraction is no longer requested.
HeldIsRouted ==
  /\ \A m \in Routed : <>[](level[m] /\ online[m]) => <>[]external_input
  /\ <>[](\A m \in Modules : ~level[m]) => <>[]~external_input

=============================================================================
