# Open-Fume-Extractor: a TLA+ model

Open-Fume-Extractor is firmware for a fume extraction system built from small
ESP32 boards on one RS485 bus. A *master* polls *modules*: soldering stations
(JBC), fan and I/O boards, Weller and Modbus devices, displays. It decides when
the extractor fan has to run, writes that decision to the selected output
module, and offers the whole system to a web interface, MQTT and Home Assistant.

This directory models the control path of the master and the parts of the
modules it depends on: what is to be true between the first solder contact and
the fan that stops after the after-run, and the protocols underneath: the requests on
the bus, the addresses of the modules, the firmware update of a module, the session
of a wireless display. Paths below are relative to the
repository; `MasterScheduler.cpp` and the other master sources are in
`OpenFumeExtractorMaster/src/`.

## 1. The system and its parts

| component | state | operations | talks to |
|---|---|---|---|
| extraction logic (`ExtractorLogic.cpp`) | Work/Stand masks, Continuous, external input, settings, after-run, desired output, two dirty flags | `updateAggregateJbcState`, `updateExternalInput`, `updateControlSettings`, `updateJbcState`, `setAfterrunPowerProfile`, `setOutputPowerBounds`, `tick` | called by the scheduler, read by output control |
| output control (`MasterScheduler.cpp`, `FanIoModule.ino`) | preferred and active output, `online`, `consecutive_timeouts`, one direct rule, the fans | `selectRoles`, `pushOutputIfNeeded`, `applyInputRuleTarget`, `setPreferredOutputAddr`, `setInputRule`, `scanAddress`, `moduleFw*` | extraction logic, bus requests |
| input routing (`MasterScheduler.cpp`, `FanIoModule.ino`) | debounced level and latched edge of the module, observed masks, rule state | `readIoStatus`, `updateInputRouting`, `applyInputRuleTarget`, `setIoOutput` | extraction logic, bus requests |
| bus requests (`MasterScheduler.cpp`, `RequestWaitProbe.h`, `bus/`) | sequence number, bus mutex, receive window, pending display requests | `request`, `startAsyncDisplayRequest`, `serviceAsyncDisplayRequests`, `drainUnsolicitedFrames` | every module |
| command queue (`MasterCommandQueue.inc.h`, `MasterLoop.inc.h`) | two bounded queues of pointers, a semaphore per caller | submit, process, `execute` | web and MQTT tasks to the loop task |
| registry, addressing (`ModuleRegistry.cpp`, scheduler) | records with UID, address, capabilities | bind, merge, prune, scan, auto-address | discovery frames |
| firmware update (`WebUpdate.inc.h`, scheduler, modules) | target, offset, active flags on both sides | begin, chunk, end, abort, the update pump | web, bus requests |
| wireless displays (`MasterDisplayWifi.cpp`, `OfeDisplayWifi.h`) | peer sessions, nonces, replay counters | hello, challenge, proof, ready, expiry, leave | bus requests over UDP |
| power save, persistence, value stream, Boolean logic, MQTT, Home Assistant, web, CLI, tools | see `PROJECT.json` | | |

The master's `loopTask` runs nearly everything that touches the scheduler: command
queue, update pump, `MasterScheduler::tick`, Boolean logic. The web and MQTT tasks
queue commands and wait. So handlers of the loop never overlap; what interleaves
with them is the modules and, as the one exception, the web task, which begins,
ends and aborts a firmware update itself (`WebUpdate.inc.h`) between any two bus
requests of the loop. A handler is long, though: every bus write inside it
waits for an answer, and an answer that stays out can take a module offline,
select another output and route the inputs *inside* the handler. Those nested
effects are where this code is hard, and the models keep them.

What is hard, component by component, and what makes it correct:

* extraction logic: order of inputs and settings, the wrapping clock, two
  separate dirty flags. Correct when decision and set point always agree with
  what they are computed from and when the after-run is neither cut nor endless.
* output control: pushes that fail half-way, failover in the middle of a push,
  two owners (extraction and a rule) of one fan, updates and reboots of the
  module. Correct when the active output is the one `selectRoles` prefers and its
  fan ends up as decided, starting at the right power and never cut while wanted.
* input routing: edges between two polls, modules that vanish, a routing pass that
  writes to the bus and thereby observes inputs itself. Correct when what happened
  at an input reaches the extraction logic and rule outputs.
* command queue: pointers into the stacks of other tasks, full queues, commands that
  overtake each other. Correct when every call is served once or refused without
  effect, returns, and a switch-off never waits long.
* bus requests: two tasks share a half-duplex link, answers come late, sequence
  numbers come round, and the callbacks of a timeout make requests themselves.
  Correct when a request gets its own answer or none, ends, and leaves the target of
  an update alone.
* firmware update: a web task that fills a queue, a loop task that empties it, a
  module that may stop listening at any frame, and retries whose first copy may have
  been written. Correct when the flash holds a prefix of what was uploaded, nothing
  follows an abort, and success means that the signed file is installed.
* wireless displays: a handshake whose packets get lost, repeated and delayed, two
  ends that forget each other at different times, and a cable that takes over.
  Correct when no packet is accepted twice and the display is always reached again.
* registry and addressing: modules come and go, sit at one address and answer at once,
  and keep their addresses through restarts of the master, whose records may be older.
  Correct when an address has one record, an absent module keeps its own, and every
  module on the bus is served in the end.

`PROJECT.json` lists the hazards line by line with the property that guards each.

## 2. Modules

| module | models | properties |
|---|---|---|
| `ExtractionPromise` | what a user is promised: run on request, run on for the after-run time, stop | the specification itself |
| `ExtractorLogic` | `ExtractorLogic.cpp`, handler by handler | type, `DemandFollowsInputs`, `PowerFollowsSettings`, `DeadlineInReach`, `RunToAfterrunKeepsEnable`, `ImplementsPromise` |
| `OutputControl` | selection, push, direct rule, offline detection, reconnection, update; `FanIoModule` as the fan | type, `ActiveIsSelected`, `FanFollowsDecision`, `StartsAtDesiredPower`, `NoCutWhileWanted`, `RuleKeepsFan`, `FanSettles`, `RuleOwnsFinalOff` |
| `InputRouting` | latched inputs, `readIoStatus`, `updateInputRouting`, rules to outputs | type, `InputsAreRouted`, `OutputsFollowSources`, `PressIsSeen`, `HeldIsRouted` |
| `RemoteCall` | what the queue promises its callers: served once by the loop or refused, and the call returns | the specification itself |
| `CommandQueue` | the two queues, the callers and the round of the loop | type, `PointersAreLive`, `OffIsPrompt`, `ImplementsCalls` |
| `BusRequest` | `request()` in two tasks, the receive loop, misses, asynchronous display requests, the reserved target of an update | type, `AnswersAreOwn`, `InTimeIsAccepted`, `TargetIsQuiet`, `NeverWaitsForItself`, `UpdateKeepsOnline`, `RequestsReturn` |
| `ModuleUpdate` | the chunked upload: HTTP handlers, queue, pump, transactions, `FanIoModule`'s handlers | type, `FlashFollowsUpload`, `NothingSentAfterSession`, `SuccessMeansInstalled`, `UpdateEnds` |
| `ModuleAddressing` | registry, discovery, scan job, automatic assignment, moves by the user, saved records, the addresses modules keep | type (with one record at an address), `AbsentKeepTheirAddress`, `AllServed`, `AssignmentEnds` |
| `DisplaySession` | both ends of a wireless display's session, its WLAN and its cable | type, `NoReplay`, `Served` |
| `MC...` | the instances for TLC | |
| `..._proofs` | the theorems | |

### ExtractorLogic

Variables are the members of the class, with the names of the source less the
trailing underscore. Each handler is one action. `applyOutputState` is the shared
operator the four trigger handlers end in, as in the code. The clock ticks in
seconds and wraps at `2 * Half`; `Reached` is the signed 32-bit comparison
`(int32_t)(millis() - deadline) < 0` at that width. Powers are tenths of a percent
and the level table, the rounding of `select_flow` and the clamping are the code's.
What the displays read of a station is left out, so `clearJbcConnectionState` and
`updateOutputState` are stuttering here. `updateFromFastPoll` and
`updateAutomationContinuous` have no caller in the firmware.

`ImplementsPromise` is a refinement: `work` is a tool or an input that requests
extraction, `switch` Continuous, `delay` the configured after-run time, `running`
`desired_output_enabled_` and `left` the time to the deadline (`AfterrunLeft`). The
promise is strict about the after-run: it takes the delay that is configured when the
last request ends, no other, and there is none when only Continuous was on. Lateness of
the loop is the one thing that prolongs it. It is checked with liveness, which is what
shows that the after-run ends. `AfterrunLeft` is no part of the model but of the
mapping: `afterrunLeftMs` also answers 0 for a deadline of 0 (`ExtractorLogic.cpp:207`),
which displays and a logic input see and `tick` does not.

### OutputControl

The loop runs one handler at a time. A handler's state changes are one step; the
commands it still has to send wait in `todo`, and each is answered, lost (carried
out or not) or refused. `Missed` is the offline transition at the end of
`request()`: count, `online`, a new selection, dirty flags, and the routing in
front of whatever the interrupted handler has left to do. Push stops at its first
failed write, `selectRoles` and the rules carry on. `IsWrite` distinguishes a rule's
turn that sends a command from one that does not.

`Update` is the web task: `FW_BEGIN`, the end and the abort of an update fall between
any two requests of the loop. At the end it selects the output and routes the rules
itself; its write lands anywhere among those the loop has left (`Interleaved`), or
nowhere when the loop is inside `updateInputRouting`. One consequence is in the
model and excepted from `NoCutWhileWanted`: an OFF the loop was about to send to the
former output can reach it after that output has become the active one again, because
the update has ended or because a request to the new output, sent in between, was one
too many that stayed unanswered; the fan is off until the next push (`Overtaken`).
Selections are single steps; that two tasks may run `selectRoles` at once, without a
lock, is listed as a hazard.

The fan is what `SET_POWER`, `SET_ENABLE` and `FW_BEGIN` do in `FanIoModule.ino`.
`Reboot` and `Failsafe` are the two ways a fan stops without a command. The master
does not notice either unless enough answers stay out, and deliberately does not
compare the state a module reports with the decision (comment at
`MasterScheduler.cpp:4496`). The auxiliary variable `disturbed` names the outputs
this has happened to since the last complete push; the properties about fans
except them. The commands of a module card (`setModuleOutput`, `setModulePower`)
bypass the decision on purpose and are left out, as are power-only profiles.

### InputRouting

Each module has one input and one output. `Press` sets level and latched edge; the
compact `GET_IO` fetches and clears the edge, the one with aliases leaves it. The
180 ms for which the master holds an edge in its mask end at any later read.
`run` is the position inside `updateInputRouting`; while it is not 0 no other
routing starts, as `applying_input_rules_` has it. `WriteAnswered` includes the
read-back in `setIoOutput`, which is the way an input is observed during a routing.
Reconnection keeps the code's order: `readCaps` routes with the old mask, then
`readIoStatus`, then the routing again.

`Failing` modules lose requests and answers and also fail without the master noticing:
`Restart` is a reboot, quick enough for the record to stay online or not, `OutputOff`
the failsafe or the `FW_BEGIN` of an update that is then aborted, both of which run
`output_off`. `SetIoOutput` is the command of a display or the web server that sets an
output of a rule to something else. The rule keeps `target_sync_valid` through all of
these and does not write again. The auxiliary variable `astray` remembers for which
outputs this has happened since a rule wrote them or the master saw their module
offline; `OutputsFollowSources` excepts those and no others, so it says that the code
repairs an output as soon as it can know: at the reconnection, or with the next edge of
the source.

### CommandQueue

A client is a task inside `master_command_submit`: `sending` while the queue may be
full, `waiting` for its semaphore, `answered` when the loop has given it. The queues
hold clients, since a client has one request, the one on its stack. `Receive` and
`Execute` are the two halves of `master_command_process_one`; `loop` is the position
in the round with what is left of the quota (4 critical, 2 normal commands). A full
queue refuses after 250 ms. `Direct` is a command of the loop task itself.
`overtaken` is auxiliary.

### BusRequest

`lock` is `bus_mutex_`. A task is in `request()` from `lock` (waiting for the mutex)
over `wait` (the receive loop) and `drain` (`RequestReceiveWindow`'s last polls after
the deadline) to its result, and at `offline` while the callbacks of a module that
went offline run, which call `request()` again. `Poll` takes one frame: the answer,
or one that `handleAsyncDisplayFrame` may capture. Frames carry their age in requests
in place of an 8-bit number; `Matches` compares ages modulo `SeqMod`, so that the
confusion of two requests whose numbers are equal is in the model. `Sends` ages
everything. `Reserve` is `moduleFwBegin` taking the mutex before it sets the target.
An asynchronous request that has expired is dealt with in two steps, since the loop holds
no lock there: `ServiceExpire` looks whether its module is being updated
(`MasterScheduler.cpp:2156`), `ServiceMiss` counts the miss and may take the module
offline (line 2189). The web task may begin an update in between.

### ModuleUpdate

A frame is the unit, `<<f, k>>` the k-th of file f. `web` is the HTTP task with what
it still has to queue, `pump` the one of the loop, `io` the lock between them, and
`call` the transaction under way with the attempts it has left. `Answered` and
`Unanswered` apply the module's handler or not and let the answer through or not.
`session.file` is the file whose signature was given, `digest` what has been queued:
the digest is right exactly when they agree. A module has two flags, its own
`fw_update_active` and whether the `Update` library runs, because `handle_fw_begin`
can clear the one and leave the other. A browser may send any handler at any time.
`Continues` is what the repository's own page does while nothing has failed: the next
block, and at the end of the file the end. It posts an abort once and ignores the
answer, so nothing is assumed of aborts.

### DisplaySession

`master` is the `Peer` of one display, `display` the state of `OfeDisplayWifi`; `net`
holds the packets. A packet is what it authenticates: both nonces and the counter.
What is sent arrives, unless a fault delays, loses or repeats it, and a *late* packet
may arrive after anything; `used` marks a copy of one that has been received. `wired`
says that the display has been asked over its cable recently, which keeps an
automatic display from sending HELLO. `Quiet` lets requests start when nothing that
is not late is under way, as an exchange on a WLAN is short against the timers.

### ModuleAddressing

`address` is what each module keeps in its flash, `record` the registry by UID,
`snapshot` its last saved copy; the rest are the members of the scan job and the local
variables of `autoAddressModules`, whose loop is one action per round (`Move`,
`MoveTemporarily`, `Assigned`). The `move` state stands for that loop running inside
the loop task, so nothing else of the scheduler happens in it, but modules may be
plugged, unplugged or announce themselves. `Answers` is a request to an
address: with two modules there neither answer is read, or one gets through.
`Announce` is `noticeDiscoveryResponse`, which decides between a scan of one address and
the whole assignment. `MoveFails` covers a module that is gone and one that has moved
although its answer is lost. `Desired` is the ordering by type and former address, with
`Before` and the reserved addresses; it is defined by counting where the code sorts and
walks. `Restart` takes the records back to those last saved.

## 3. Runs

| run | instance | shows |
|---|---|---|
| `extractor_logic` | clock of 8 ticks, delays 0, 1 and 3, two levels, two limits, two after-run powers | the five properties of the logic in every order of handlers, and the refinement of the promise with liveness |
| `output_control` | two outputs, one of them Weller; two powers; two misses to offline; updates; a rule on output 1 | type, selection, agreement of fan and decision, start-up power, no cut, a fan shared with a rule |
| `output_liveness` | no rule, one power | the fan starts and stops in the end |
| `output_rule_off` | rule on output 1, no updates | finding 2 below |
| `input_routing` | button, lamp and auxiliary module, two rules, losses, reboots and dropped outputs of the latter two, commands to the outputs of rules | observation, presses of any length, held inputs, outputs of rules; 67,000 states |
| `input_nested` | a rule that writes to the module of the input, no JBC polling, buttons held | finding 1 below |
| `command_queue` | three clients, queues of 2, quotas 3 and 1 | pointers, prompt OFF and the calls of `RemoteCall`, with liveness |
| `bus_request` | a module on the wire, a display with update capability, numbers modulo 4, two frames, one last poll | own answers, ended requests, the quiet target of an update, which stays online; 345,000 states |
| `module_update` | a file of three frames, two of one, a queue of two, two attempts for a chunk | the upload with every loss, timeout, restart and abort, and the end of an upload that is carried on; 420,000 states |
| `display_session` | a wireless display with two faults, an automatic one with one fault and three kinds of cable | no replay, and the display is always reached again; 196,000 states |
| `module_addressing` | two modules of different priority at any of three addresses, a third remembered and absent, one disturbance | the absent module keeps its address and, provided that assignments end, all modules on the bus are served; 103,000 states |
| `address_assignment` | the same | finding 3 below |

### Bounds

* Clock: the comparison depends on the order of `now` and the deadline modulo the
  width, not on the width; 8 ticks let the clock wrap inside an after-run, start
  it on every phase and leave the deadline on either side. The theorem
  `DeadlineCorrect` removes the bound.
* Levels 0 and 3 and two flows: the fixed levels differ only in a constant, and one
  of them stands for the others.
* `MaxMisses = 2` for the code's 5: enough for one miss that does not and one that
  does take the module offline, with an answer in between resetting the count.
* Two outputs: selection and failover need one to come from and one to go to. The
  OFF to the former output and the push to the next are then different modules. A
  third one does matter: with it an output can come back between an OFF and its
  sending without an update (`Overtaken` in `Unanswered`). The attempt to prove
  `NoCutWhileWanted` showed that; the theorems of §5 cover any number of outputs.
* One rule per output: rules act one after the other on disjoint targets.
* Clients and queues: the firmware has two tasks that submit (web and MQTT) and 16
  places, so its queues are never full; three clients and two places reach the
  full queue and its refusal. The quota of critical commands must be no less
  than the number of clients (4 against 2 in the code), which `QueueAssumption`
  states and `OffIsPrompt` needs.
* `SeqMod = 4` for 256 with `MaxAge = 1`: the least modulus with room for a late
  frame, the request that is waited for and an asynchronous one
  (`BoundsAssumption`); the theorems hold for every other. `MaxFrames = 2`
  lets a foreign frame stand before the answer, `FinalPolls = 1` lets the last polls
  end before it. The guard `InPace` in `Call` and `StartAsync` keeps numbers from
  coming round while a frame is under way, a request pending or a capture kept:
  256 requests take longer than any of the three lasts.
* One module on the wire and one display are enough: frames matter by whether they
  come from the module asked, a display with a pending request, or neither.
* Files of 1 and 3 frames with blocks and a queue of 2: a last block that is short, a
  queue that fills up, a frame retried at the start, within and at the end, and two
  files of the same size for one browser to continue the other's.
* `Attempts` 2 for a chunk and 1 otherwise (6 and up to 3 in the code): a repeated frame
  after a lost answer needs two; the last attempt of an operation is the one that counts.
* `MaxFaults`: two in wireless mode, one in automatic mode, each a loss, a delay, a
  copy or the end of a session on one side. After the last one everything still
  has to recover by itself, which is what `Served` asks. Seven nonces leave a fresh
  one whatever is held and under way (`BoundsAssumption`: more than `MaxPackets + 3`); `MaxCounter = 2` for 2^32 - 1 reaches the end of a
  session by its counter.
* Three modules and four addresses of one family: two to collide, change places and go
  through a temporary address, one that is absent with an address they might take.
  `MaxDisturbances = 1`: one thing plugged, unplugged, moved, lost or restarted in
  addition to the initial states, which already hold every placement of two modules,
  two at one address among them, with records that agree with it or not.
* Handlers are not counted; all runs explore the whole state space. The bounds
  in guards are `MaxLag`, the time the loop may be late, in `Elapse`, `InPace`,
  `MaxFrames`, `MaxPackets`, `MaxFaults` and `MaxDisturbances`.

### Fairness

* `ExtractorLogic`: time passes and `tick` runs. The main loop calls it in every
  round, so weak fairness is enough.
* `OutputControl`: the push is tried in every round of the loop, but other handlers
  may disable it for a moment, hence strong fairness; a handler that started goes
  on (weak). A command that is sent again and again is answered now and then:
  strong fairness on answers to each of the two push commands, an assumption about
  the bus and not about the code.
* `InputRouting`: `pollNextIoStatus` and `pollOfflineModules` go round robin, so each
  online module is polled and each offline one probed again and again (strong);
  `UpdateInputRouting` is fair only where a JBC module is polled.

* `BusRequest`: timeouts run out and the steps of a request go on (weak). The loop
  comes back to its display services, and in one of those rounds finds a request that
  is overdue (strong, since the loop task is busy in between); its miss is then counted
  (weak).
* `ModuleUpdate`: both tasks and the transaction go on (weak); attempts are counted.
  The second part of `UpdateEnds` needs a browser that stays on its page (`BrowserSpec`:
  strong on `Continues`, the next block or the end as long as nothing has failed). After
  a failure nothing is assumed of it: the property says that the browser is told, and
  that an abort, if one gets the lock, leaves update mode. Without either nothing in
  the master ends an update, which is listed under the hazards.
* `DisplaySession`: packets that are due arrive, the one-second services of both ends
  and the polls of the master go on, and silence ends in a timeout (strong where
  traffic postpones it). Nothing is assumed of the number of faults but its bound.
* `ModuleAddressing`: the scan job, the assignment and what has been announced go on (weak:
  the loop serves them every round). A module that has something to announce is heard
  again and again, because the discovery is repeated (strong), and of two modules that
  answer at once one gets through now and then (strong on a `PendingScan` that
  records), an assumption about the bus. That an assignment ends is not assumed but
  made the premise of `AllServed`, since finding 3 is that it may not.
* `CommandQueue`: the loop goes round, and a task that can go on does (weak). Nothing
  is assumed of how often clients call, and the semaphore has no timeout.

## 4. Findings

1. **A latched press can be lost in the read-back of a rule** (`input_nested`).
   A rule's write reads its module again inside `updateInputRouting`; the edge that
   read fetches is cleared on the module, the nested routing returns at once
   (`MasterScheduler.cpp:4006`), and because the mask does not change any more no
   later poll routes it. It needs a rule whose target is on the module with the
   button, and no JBC module, whose polling routes anyway. `input_routing` checks the same
   property with rules that write elsewhere, where it holds.
2. **The rule does not own the final OFF when the output is switched**
   (`output_rule_off`). `selectRoles` turns the former output off even if a rule
   holds it on (`MasterScheduler.cpp:2784`) and the rule, still in step, never
   writes ON again.
3. **An assignment of addresses may never end** (`address_assignment`). A module whose move
   fails is given up (`MasterScheduler.cpp:9119`) but stays where it was in `found[]`. When
   another module is to have that address, its target is occupied for ever, the loop
   takes that for a cycle and moves it from one unused address to the next and
   back (`MasterScheduler.cpp:9020`). `loopTask` does not return from the scan: no polling,
   no push, no commands, and a write to the module's flash in every round.

Behaviour that is real but that no text of the repository rules out is noted
under the hazards: a wanted fan stays off after an aborted update or a quick
reboot; a lost OFF to the former output is not repeated; the end of an update, or a loss that brings the former output back, can
let an OFF through to the active output; a lost answer to `FW_END` reports an update as
failed that has succeeded; an ON that was queued before an OFF of another task is executed
after it and undoes it; an abort none of whose frames arrives leaves the module's
`Update` library running, and a new update that begins within its timeout fails until
it restarts; two modules of different type that sit at each other's recorded address
are neither moved nor bound until a scan prunes their records (`Crossed`).

Four more of this kind:

* The output of a rule that its module drops in a connection (a quick reboot, the
  failsafe, `FW_BEGIN` of an update that is then aborted) stays off until the source
  changes or the module is seen offline, since `target_sync_valid` holds. The comment at
  `MasterScheduler.cpp:3864-3870` promises the repair per connection only.
* An asynchronous display request that `recordRequestTimeout` found expired just before
  `moduleFwBegin` reserved the display is counted afterwards and can be the miss that takes
  the target offline during its update. The comment in `moduleFwBegin` ("A pre-update
  WLAN transaction must not expire while its peer writes flash") has the request that is
  still pending in mind, which is cleared there; the one already under way is not.
  `UpdateKeepsOnline` names this exception.
* An update stays active when its page is gone, or when its single abort did not get the
  lock within 8 s (`WebUpdate.inc.h:955-958`): the scheduler polls no inputs then
  until somebody aborts or begins another update.
* The pump's belated abort of an upload that has failed may come after the next begin
  has opened its session, and ends that one; its `FW_BEGIN` is still sent, and the
  scheduler stays in update mode until the page, whose next block is refused, aborts.

## 5. Proofs

`tlapm` checks `ExtractorLogic_proofs`, `OutputControl_proofs`, `InputRouting_proofs`,
`CommandQueue_proofs`, `BusRequest_proofs`, `ModuleUpdate_proofs`,
`DisplaySession_proofs` and `ModuleAddressing_proofs`. Every safety property and every
action property that a passing run checks is the conclusion of a theorem there.

* `TypeCorrect`: from `InputAssumption` and `ClockAssumption` alone. It needs that
  clamping stays in bounds and that wrapped addition and subtraction stay on the
  clock, which are lemmas.
* `DemandCorrect`, `PowerCorrect`: each follows from the type invariant and
  `DemandFollowsInputs` as an inductive pair. `PowerFollowsSettings` alone is not
  inductive: a handler that leaves `desired_power` alone relies on the fan being off
  exactly when nothing requests it.
* `DeadlineCorrect`: for every width with `MaxDelay < Half` and `MaxLag < Half`. The
  proof splits the wrapped difference at the wrap; `Elapse` is the step that moves
  the clock and its guard is what keeps the overdue side within `MaxLag`.
* `EnableKept`: the action property, from the same invariants.
* `PromiseSafe`: initial states map to initial states and every step to a step or a
  stutter of `ExtractionPromise`, so that for every delay and width the after-run takes
  the configured time. Its liveness part is out of reach of the prover
  and is checked by TLC only.
* `ActiveCorrect`: for any number of outputs and any threshold. `ActiveIsSelected` is
  inductive by itself: an action changes none of preference, `online` and active
  output, or selects anew in the same step.
* `OutputControl`: all its safety and action properties, for any outputs, powers,
  preference, rule and number of misses. The inductive invariant `OutputInv`
  (`OutputInvCorrect`) relates three things that are written at different times: the
  decision, what `todo` has left to send, and the fans.
  `WriteOK` says what is true of a command as long as it waits, whatever happens
  before it is sent: a push is for the active output or for one that went offline, no
  push stops a fan the rule owns, an OFF that would reach the active output is recorded
  in `disturbed`. `EnableReady` puts the set point in front of the enable it belongs to,
  which gives `StartsAtDesiredPower`. `PowerWritten`, `RunsWhenWanted` and
  `StopsUnlessHeld` say that a fan that is not disturbed differs from the decision only
  while a dirty flag or a command stands for it; the last needs `RuleInStep`, that a
  rule with an active source has switched its target on, knows that it has not, or has
  its turn before the next push. Together they are stronger than `FanFollowsDecision`
  by what they say while a handler is under way. `NoCutWhileWanted` and `RuleKeepsFan`
  follow from `WriteOK` of the command that is sent.
* `InputRouting`: `TypeCorrect` for any wiring. `InputsCorrect` for every wiring in
  which no rule writes to a module that is listened to (`InputsUnwritten`; finding 1 is
  that it fails with one): inside a routing the partial result `active` is the demand of
  the inputs and of the rules before the present one. `OutputsCorrect` for every wiring
  in which no rule writes to a source of a rule and no two write to one output
  (`OutputsSeparate`): a rule that counts as written agrees with its output while the
  module is online, unless it went `astray`, and with its source once it had its turn in
  the present routing. Both conditions are on the settings of a user, not on the code,
  and the run `input_routing` satisfies both. Without the second, two rules that share
  an output overwrite each other by design. No assumption is made about which modules
  fail, or how often.
* `TypeCorrect` and `PointersCorrect` of the command queue: for any number of clients,
  any length and any quotas. `PointersAreLive` is inductive together with the types;
  its second half, that no request is in two places, is what makes the first one so:
  when a client is answered, no other copy of its pointer may be left. The lemmas say
  what `Append` and `Tail` leave in a queue.
* `OffIsPromptCorrect`: the bound on overtaking is an invariant only together with
  where the loop is (`PromptInv`). While normal commands are served, what an OFF has been
  overtaken by and what is left of the quota make up one quota at most; while critical
  ones are, the quota left reaches every OFF that has been overtaken at all, since it
  began no less than the number of clients (`QueueAssumption`) and each client has one
  request (`QueueFits`).
* `CallsCorrect`: initial states map to initial states, every step to a step or a
  stutter of `RemoteCall`. It rests on `PointersAreLive`: the client that is answered
  is one that has called.
* `BusRequest`: all its safety properties, for any modules, displays, numbers of
  frames, polls and misses, and any modulus with `SeqMod >= MaxAge + 3`. The inductive
  invariant `Inv` (`Invariant`) has five parts. `Types` are the types without the
  bound of the ages. `Held` says that a task holds the bus exactly while it waits for
  an answer; `NeverWaitsForItself` is a case of it, and `TargetIsQuiet` follows from
  it step by step, because the target is reserved only while nobody holds the bus.
  `Reachable` says of an answer that was there at the deadline that it is among as many
  first frames of the buffer as polls are left; with none left there is none, which is
  `InTimeIsAccepted`. `Ages` bounds how old a frame, a pending request or a capture can
  get: not by `InPace` alone, which is looked at when a task starts, but together with
  the tasks that have passed it and have not sent yet (`Waiting`). Each request makes
  everything older by one and one task less wait, so the sum does not grow. Below the
  modulus equal residues are equal ages (`SameAge`), which gives `AnswersAreOwn`.
  `UpdateKeepsOnline` needs `TargetIsQuiet`: no request that counts misses has the
  target of the update as its destination. That leaves `ServiceMiss` (`MissStep`), whose
  module was not being updated when it was found to count; `UpdateKeepsOnline` says
  exactly this of it and no more.
* `ModuleUpdate`: all its safety properties, for any files, block, queue and attempts.
  The inductive invariant `Inv` (`Invariant`) says who holds the I/O lock and for which
  operation (`Locked`), that what is queued is the end of the digest (`Queued`), that
  the scheduler is in update mode while a transaction other than an abort runs
  (`Updating`), and what the frames the pump holds are (`Follows`): the next of the
  upload, or left over from a session that has ended, and then beyond what the module
  has written, so that it refuses them. `NothingSentAfterSession` is needed there:
  an abort waits for the lock and so for the frame under way. `SuccessCorrect` rests on
  `FW_END` being sent only after the digest has been found to be the image of the signed
  file: the flash begins like the digest, it is as long as the file, and an image
  determines its file.
* `ModuleAddressing`: its safety properties, for any modules, priorities, addresses and
  disturbances. The inductive invariant `Inv` (`Invariant`) is the types, one record at an
  address in the registry and in the snapshot, and `Reserved`: while modules are moved
  no target is the recorded address of a module that was not discovered. `Discover`
  establishes it by the choice of `Unreserved` addresses; every move keeps it because
  it only binds modules that were discovered (`MoveRecords`), and a module is sent only to
  its target or to an address nobody has recorded (`MoveSends`,
  `MoveTemporarilySends`), which is `AbsentCorrect`. The least address is chosen by
  the well-foundedness of the naturals (`HasLeast`). `TargetsCorrect` says of the plan
  itself that every module discovered is given an address and no two the same one
  (`TargetsApart`): the order of the assignment is strict and total (`BeforeOrders`), so
  different modules have different numbers of others before them (`SlotsDiffer`); more
  addresses are unreserved than modules were discovered (`EnoughUnreserved`), since the
  family has more addresses than there are modules (`ModulesAssumption`); and among them
  there is one with any lesser number of others below it (`PlaceExists`). Finding 3 is
  not in conflict with it: the plan is sound, it is a failed move that leaves a module
  where it is not expected.
* `DisplaySession`: for any number of packets and faults, any counter and any set of
  nonces of more than `MaxPackets + 3`. That number stands for the 64 random bits of
  the code: a number drawn is none that is held or under way (`clientNonce`, `serverNonce`).
  `NoReplayCorrect` needs more than the receive counters, since both ends begin anew
  with counter 0. The inductive invariant `SessionInv` adds that the server number of a
  handshake is not yet one of a session (`PendingIsFresh`, `Unconfirmed`), and that a
  display that is not connected has received nothing with its present client number
  (`UnknownToDisplay`); then no packet that has been received is one that either end
  would accept, now or when its handshake is complete.

Out of the prover's reach, and checked by TLC only: every liveness property (fairness and
`ENABLED`), with the liveness part of the two refinements (`PromiseSafe` and
`CallsCorrect` are their safety). Nothing is claimed of `InputsAreRouted` and
`OutputsFollowSources` for wirings outside the two conditions above.

## 6. Plan

Done: `ExtractorLogic` with `ExtractionPromise`, `OutputControl`, `InputRouting`,
`CommandQueue` with `RemoteCall`, `BusRequest`, `ModuleUpdate`, `DisplaySession`,
`ModuleAddressing`.

To come, in this order:

1. `PowerSave` and `SettingsStore`: reconciliation and coalesced saving.
2. Smaller ones: value stream, Continuous edges and extractor actions, Boolean logic,
   the arbitration between master and station of the JBC bus module.

Compositions: `ExtractorLogic` with `OutputControl`, so that a request ends at the
fan; with `InputRouting` as the source of the external input.

Theorems to prove next: properties of the components that are to come, each with its
inductive invariant, and the compositions as refinements of `ExtractionPromise`.

## 7. Not modelled

Rendering and layout of web pages and displays, MQTT topics and payloads, the
electrical side of the modules, the bootloader, flash wear, cryptographic
primitives, signing tools and the web flasher. They are I/O or text around the
behaviour above. Vendored code (LVGL parts, TinyCrypt, fonts) is left aside.

Of the components that are modelled:

* bus requests: framing and CRC of the link (`OfeFrame`), traces and diagnostics, wired
  requests to a display with a session.
* firmware update: the upload in one request without XHR, the developer's unsafe mode,
  bulk frames over WLAN, the update of the master itself.
* registry and addressing: several families of addresses at once, wireless displays, the
  limit of 16 records and their places in the array, a lost answer to `GET_CAPS`, the
  compacting assignment, which no caller asks for.
* wireless displays: keys and digests (a packet that authenticates is one that was
  sent), the address READY assigns, the measurement of time, changes of the
  configuration, a socket that refuses to send. A cable works both ways or not at all.
* output control: module-card commands that bypass the decision, power-only profiles,
  the commit of a hardware configuration.
* input routing: Boolean logic inputs, Continuous edges, extractor actions.

Most of the repository is display firmware (LVGL screens, fonts), web pages and
vendored code without a protocol of its own, so the share of its lines that stands
behind a definition is small; the lines that decide about the fan are nearly all there.
