------------------------------- MODULE BusRequest -------------------------------
(***************************************************************************)
(* The transactions of the scheduler on the bus: request(), which waits    *)
(* for its answer under bus_mutex_, called from the loop task and from the *)
(* web task, and the asynchronous requests of the loop task to wireless    *)
(* displays, whose answers are captured by whoever polls the link.         *)
(* Answers get lost and arrive late; they are told apart by an 8-bit       *)
(* sequence number.  A module update reserves its target.                  *)
(*                                                                         *)
(* Deadlines pass at any time.  In place of seq_, which every request of   *)
(* either kind increments, the model keeps how many requests were sent     *)
(* after the one a frame answers: two sequence numbers are equal when      *)
(* these ages are congruent.  Wired requests to a wireless display         *)
(* (physical) are left out.                                                *)
(***************************************************************************)
EXTENDS Integers, Sequences, FiniteSets

CONSTANTS Loop, Web,     \* the two tasks
          Wired,         \* modules on the wire
          Displays,      \* displays with a wireless session
          Updatable,     \* modules with CAP_FW_UPDATE
          SeqMod,        \* of seq_, 256 in the code
          MaxAge,        \* requests a frame can stay under way for
          MaxFrames,     \* frames on their way and in the buffer of the link
          FinalPolls,    \* of RequestReceiveWindow after the deadline
          MaxMisses      \* unanswered requests until a module is offline

Tasks == {Loop, Web}
Modules == Wired \cup Displays

ASSUME TasksAssumption == Loop # Web /\ "none" \notin Tasks
ASSUME ModulesAssumption == Wired \cap Displays = {} /\ "none" \notin Modules
                             /\ Updatable \subseteq Modules
ASSUME BoundsAssumption == /\ {SeqMod, MaxAge, MaxFrames, FinalPolls, MaxMisses} \subseteq Nat \ {0}
                           /\ SeqMod >= MaxAge + 3

VARIABLES lock,       \* who holds bus_mutex_
          task,       \* what each task does in request() or startAsyncDisplayRequest()
          air,        \* answers under way
          rx,         \* answers the link has received
          pending,    \* display_async_pending, and in place of _seq the age of that request
          slot,       \* display_async_response_ready_, _response_
          online,
          misses,     \* consecutive_timeouts
          fw,         \* module_fw_target_ while module_fw_active_
          recovery    \* firmware_recovery_pending, for less than 15 s

link == <<air, rx>>
records == <<online, misses>>
async == <<pending, slot>>
update == <<fw, recovery>>
vars == <<link, lock, task, async, records, update>>

NoFrame == [src |-> "none", age |-> 0]
NotPending == [on |-> FALSE, age |-> 0]
Idle == [pc |-> "idle", dst |-> "none", cmd |-> "none", counts |-> FALSE,
         left |-> 0, inTime |-> FALSE]

Init == /\ lock = "none"
        /\ task = [t \in Tasks |-> Idle]
        /\ air = {} /\ rx = <<>>
        /\ pending = [d \in Displays |-> NotPending]
        /\ slot = [d \in Displays |-> NoFrame]
        /\ online = [m \in Modules |-> TRUE]
        /\ misses = [m \in Modules |-> 0]
        /\ fw = "none"
        /\ recovery = [m \in Modules |-> FALSE]

---------------------------------------------------------------------------------
\* Sending a request: what is under way gets older, what is too old is gone,
\* and the module answers or not.

Older(f) == [f EXCEPT !.age = @ + 1]

Sends(dst) ==
    /\ rx' = [i \in DOMAIN rx |-> Older(rx[i])]
    /\ LET left == {Older(f) : f \in {g \in air : g.age < MaxAge}}
       IN  \/ air' = left
           \/ /\ Cardinality(left) + Len(rx) < MaxFrames
              /\ air' = left \cup {[src |-> dst, age |-> 0]}

Aged == [d \in Displays |-> IF pending[d].on THEN [pending[d] EXCEPT !.age = @ + 1]
                                             ELSE pending[d]]

AgedSlot == [d \in Displays |-> IF slot[d] # NoFrame THEN Older(slot[d]) ELSE NoFrame]

Deliver == \E f \in air : /\ air' = air \ {f}
                          /\ rx' \in {rx, Append(rx, f)}
                          /\ UNCHANGED <<lock, task, async, records, update>>

---------------------------------------------------------------------------------
\* request(): the lock, the refusal for the target of an update, the request.

\* Sequence numbers do not come round while a frame is under way or a request is
\* pending: the two tasks make the request they are about to make, and no more.
InPace == /\ \A d \in Displays : pending[d].on => pending[d].age < SeqMod - 2
          /\ \A i \in DOMAIN rx : rx[i].age <= MaxAge
          /\ \A d \in Displays : slot[d].age < SeqMod - 2

Call(t, m, cmd) == /\ task[t].pc \in {"idle", "offline"}
                   /\ InPace
                   /\ cmd = "fw" => t = Web /\ fw = m
                   /\ task' = [task EXCEPT ![t] = [Idle EXCEPT !.pc = "lock", !.dst = m, !.cmd = cmd]]
                   /\ UNCHANGED <<link, lock, async, records, update>>

\* No request is refused.
RefusedNever(t) == FALSE

\* Only the update itself talks to its target.
Refused(t) == task[t].cmd # "fw" /\ fw = task[t].dst

\* requestDiagnosticsKind is Normal.
Counts(m, cmd) == cmd # "fw" /\ fw # m /\ ~recovery[m]

Acquire(t) ==
    /\ task[t].pc = "lock" /\ lock = "none"
    /\ IF Refused(t)
       THEN /\ task' = [task EXCEPT ![t] = Idle]
            /\ UNCHANGED <<link, lock, async>>
       ELSE /\ lock' = t
            /\ Sends(task[t].dst)
            /\ pending' = Aged /\ slot' = AgedSlot
            /\ task' = [task EXCEPT ![t].pc = "wait",
                                    ![t].counts = Counts(task[t].dst, task[t].cmd)]
    /\ UNCHANGED <<records, update>>

\* Waits for the lock as long as it takes.
WaitsForLock(t) == FALSE /\ UNCHANGED vars

LockTimesOut(t) == /\ task[t].pc = "lock" /\ lock # "none"
                   /\ task' = [task EXCEPT ![t] = Idle]
                   /\ UNCHANGED <<link, lock, async, records, update>>

---------------------------------------------------------------------------------
\* The receive loop takes one frame of the link.

\* The first answer of the module that was asked is taken.
FromAsked(f, m, age) == f.src = m

\* Sender and sequence number are those of the request that was sent age requests ago.
Matches(f, m, age) == f.src = m /\ f.age % SeqMod = age % SeqMod

\* handleAsyncDisplayFrame: every answer of a display but the one waited for.
Captures(f) ==
    slot' = IF /\ f.src \in Displays
               /\ pending[f.src].on /\ Matches(f, f.src, pending[f.src].age)
               /\ slot[f.src] = NoFrame
            THEN [slot EXCEPT ![f.src] = f] ELSE slot

\* readInfo, after its request: the scan has found the module.
Found(m) == /\ online' = [online EXCEPT ![m] = TRUE]
            /\ recovery' = [recovery EXCEPT ![m] = FALSE]

Poll(t) ==
    /\ lock = t
    /\ task[t].pc = "wait" \/ (task[t].pc = "drain" /\ task[t].left > 0)
    /\ rx # <<>>
    /\ rx' = Tail(rx)
    /\ LET r == task[t]
           f == Head(rx)
       IN  IF Matches(f, r.dst, 0)
           THEN /\ lock' = "none"
                /\ task' = [task EXCEPT ![t] = Idle]
                /\ misses' = [misses EXCEPT ![r.dst] = 0]
                /\ UNCHANGED <<online, recovery>> \/ Found(r.dst)
                /\ UNCHANGED slot
           ELSE /\ Captures(f)
                /\ task' = [task EXCEPT ![t].left = IF r.pc = "drain" THEN @ - 1 ELSE @]
                /\ UNCHANGED <<lock, records, recovery>>
    /\ UNCHANGED <<air, pending, fw>>

\* The last polls find nothing.
PollNothing(t) == /\ task[t].pc = "drain" /\ task[t].left > 0 /\ rx = <<>>
                  /\ task' = [task EXCEPT ![t].left = 0]
                  /\ UNCHANGED <<link, lock, async, records, update>>

\* The answer is among the frames the last polls reach.
AnswerIsThere(t) == \E i \in DOMAIN rx : /\ i <= FinalPolls
                                         /\ rx[i].src = task[t].dst /\ rx[i].age = 0

\* Nothing is polled after the deadline.
DeadlineEndsWait(t) ==
    /\ task[t].pc = "wait"
    /\ task' = [task EXCEPT ![t].pc = "drain", ![t].left = 0, ![t].inTime = AnswerIsThere(t)]
    /\ UNCHANGED <<link, lock, async, records, update>>

Deadline(t) ==
    /\ task[t].pc = "wait"
    /\ task' = [task EXCEPT ![t].pc = "drain", ![t].left = FinalPolls,
                            ![t].inTime = AnswerIsThere(t)]
    /\ UNCHANGED <<link, lock, async, records, update>>

Spent(t) == task[t].pc = "drain" /\ task[t].left = 0

\* The count goes on, past what it can hold.
MissedOn(m) ==
    /\ misses' = [misses EXCEPT ![m] = @ + 1]
    /\ \/ /\ misses'[m] >= MaxMisses
          /\ online' = [online EXCEPT ![m] = FALSE]
       \/ /\ misses'[m] < MaxMisses \/ m \in Displays
          /\ UNCHANGED online

\* The record counts a miss; at the last one the module is offline, except that a
\* hybrid display has 8 s to change over.
Missed(m) ==
    /\ misses' = [misses EXCEPT ![m] = IF online[m] /\ @ < MaxMisses THEN @ + 1 ELSE @]
    /\ \/ /\ misses'[m] >= MaxMisses
          /\ online' = [online EXCEPT ![m] = FALSE]
       \/ /\ misses'[m] < MaxMisses \/ m \in Displays
          /\ UNCHANGED online

\* The callbacks run while the request still holds the bus.
GiveUpHolding(t) ==
    /\ Spent(t)
    /\ IF task[t].counts THEN Missed(task[t].dst) ELSE UNCHANGED records
    /\ lock' = IF online' # online THEN t ELSE "none"
    /\ task' = [task EXCEPT ![t] = IF online' # online THEN [Idle EXCEPT !.pc = "offline"] ELSE Idle]
    /\ UNCHANGED <<link, async, update>>

\* The bus is released before the callbacks of a module that goes offline, which
\* make requests themselves.
GiveUp(t) ==
    /\ Spent(t)
    /\ IF task[t].counts THEN Missed(task[t].dst) ELSE UNCHANGED records
    /\ lock' = "none"
    /\ task' = [task EXCEPT ![t] = IF online' # online THEN [Idle EXCEPT !.pc = "offline"] ELSE Idle]
    /\ UNCHANGED <<link, async, update>>

CallbacksEnd(t) == /\ task[t].pc = "offline"
                   /\ task' = [task EXCEPT ![t] = Idle]
                   /\ lock' = IF lock = t THEN "none" ELSE lock
                   /\ UNCHANGED <<link, async, records, update>>

---------------------------------------------------------------------------------
\* Asynchronous requests to displays, all in the loop task.

\* startAsyncDisplayRequest looks first whether it may, and does not wait for the
\* lock.
StartAsync(d) == /\ task[Loop].pc = "idle"
                 /\ InPace
                 /\ ~pending[d].on /\ fw # d
                 /\ task' = [task EXCEPT ![Loop] = [Idle EXCEPT !.pc = "start", !.dst = d]]
                 /\ UNCHANGED <<link, lock, async, records, update>>

SendAsync == /\ task[Loop].pc = "start"
             /\ IF lock = "none"
                THEN /\ Sends(task[Loop].dst)
                     /\ pending' = [Aged EXCEPT ![task[Loop].dst] =
                                      [on |-> TRUE, age |-> 0]]
                     /\ slot' = AgedSlot
                ELSE UNCHANGED <<link, async>>
             /\ task' = [task EXCEPT ![Loop] = Idle]
             /\ UNCHANGED <<lock, records, update>>

\* drainUnsolicitedFrames
Drain == /\ task[Loop].pc = "idle" /\ lock = "none"
         /\ rx # <<>>
         /\ rx' = Tail(rx)
         /\ Captures(Head(rx))
         /\ UNCHANGED <<air, lock, task, pending, records, update>>

\* serviceAsyncDisplayRequests: the captured answers,
Answered(d) == slot[d] # NoFrame /\ pending[d].on /\ Matches(slot[d], d, pending[d].age)

ServiceCaptured ==
    /\ task[Loop].pc = "idle"
    /\ task' = [task EXCEPT ![Loop] = [Idle EXCEPT !.pc = "expire"]]
    /\ pending' = [d \in Displays |-> IF Answered(d) THEN NotPending ELSE pending[d]]
    /\ online' = [m \in Modules |-> online[m] \/ (m \in Displays /\ Answered(m))]
    /\ misses' = [m \in Modules |-> IF m \in Displays /\ Answered(m) THEN 0 ELSE misses[m]]
    /\ slot' = [d \in Displays |-> NoFrame]
    /\ UNCHANGED <<link, lock, update>>

\* then one request whose time is over.  Whether it is a miss depends on the updates
\* there are when recordRequestTimeout looks.
Expirable(d) == pending[d].on

ServiceExpire(d) ==
    /\ task[Loop].pc = "expire"
    /\ Expirable(d)
    /\ pending' = [pending EXCEPT ![d] = NotPending]
    /\ task' = [task EXCEPT ![Loop] =
                   IF Counts(d, "status") THEN [Idle EXCEPT !.pc = "miss", !.dst = d] ELSE Idle]
    /\ UNCHANGED <<link, lock, slot, records, update>>

\* The miss is counted a moment later, and bus_mutex_ is not held between the two.
ServiceMiss ==
    /\ task[Loop].pc = "miss"
    /\ Missed(task[Loop].dst)
    /\ task' = [task EXCEPT ![Loop] = IF online' # online THEN [Idle EXCEPT !.pc = "offline"] ELSE Idle]
    /\ UNCHANGED <<link, lock, async, update>>

ServiceEnds == /\ task[Loop].pc = "expire"
               /\ task' = [task EXCEPT ![Loop] = Idle]
               /\ UNCHANGED <<link, lock, async, records, update>>

---------------------------------------------------------------------------------
\* A module update, in the web task.

\* Reserves the target while a request may be under way.
ReserveAtOnce(m) ==
    /\ fw' = m
    /\ pending' = [d \in Displays |-> IF d = m THEN NotPending ELSE pending[d]]
    /\ recovery' = [recovery EXCEPT ![m] = FALSE]

Reserve(m) ==
    /\ lock = "none"
    /\ fw' = m
    /\ pending' = [d \in Displays |-> IF d = m THEN NotPending ELSE pending[d]]
    /\ recovery' = [recovery EXCEPT ![m] = FALSE]

moduleFwBegin(m) == /\ task[Web].pc = "idle" /\ fw = "none"
                    /\ m \in Updatable /\ online[m]
                    /\ Reserve(m)
                    /\ UNCHANGED <<link, lock, task, slot, records>>

\* moduleFwEnd, after its request: invalidateModuleAfterFirmwareUpdate.
moduleFwEnd == /\ task[Web].pc = "idle" /\ fw # "none"
               /\ online' = [online EXCEPT ![fw] = FALSE]
               /\ misses' = [misses EXCEPT ![fw] = MaxMisses]
               /\ recovery' = [recovery EXCEPT ![fw] = TRUE]
               /\ fw' = "none"
               /\ UNCHANGED <<link, lock, task, async>>

moduleFwAbort == /\ task[Web].pc = "idle" /\ fw # "none"
                 /\ fw' = "none"
                 /\ UNCHANGED <<link, lock, task, async, records, recovery>>

\* 15 s after the update.
RecoveryEnds(m) == /\ recovery[m]
                   /\ recovery' = [recovery EXCEPT ![m] = FALSE]
                   /\ UNCHANGED <<link, lock, task, async, records, fw>>

---------------------------------------------------------------------------------
Requests(t) == \/ Acquire(t) \/ LockTimesOut(t)
               \/ Poll(t) \/ PollNothing(t) \/ Deadline(t) \/ GiveUp(t)
               \/ CallbacksEnd(t)

Next == \/ Deliver
        \/ \E t \in Tasks, m \in Modules, cmd \in {"poll", "fw"} : Call(t, m, cmd)
        \/ \E t \in Tasks : Requests(t)
        \/ \E d \in Displays : StartAsync(d) \/ ServiceExpire(d)
        \/ SendAsync \/ Drain \/ ServiceCaptured \/ ServiceMiss \/ ServiceEnds
        \/ \E m \in Modules : moduleFwBegin(m) \/ RecoveryEnds(m)
        \/ moduleFwEnd \/ moduleFwAbort

Safety == Init /\ [][Next]_vars

\* Clocks run and tasks go on; the loop comes back to its services, and finds a
\* request over that has been pending for long enough.
Fairness == /\ \A t \in Tasks : WF_vars(Requests(t))
            /\ WF_vars(SendAsync) /\ WF_vars(ServiceMiss) /\ WF_vars(ServiceEnds)
            /\ SF_vars(ServiceCaptured)
            /\ \A d \in Displays : SF_vars(ServiceExpire(d))

Spec == Safety /\ Fairness

---------------------------------------------------------------------------------
Frame == [src : Modules, age : 0..SeqMod - 1]

TypeOK == /\ lock \in Tasks \cup {"none"}
          /\ \A t \in Tasks : /\ task[t].pc \in {"idle", "lock", "wait", "drain", "offline", "start", "expire", "miss"}
                              /\ task[t].dst \in Modules \cup {"none"}
                              /\ task[t].left \in 0..FinalPolls
          /\ air \subseteq Frame
          /\ rx \in Seq(Frame)
          /\ \A d \in Displays : pending[d].age < SeqMod
          /\ \A d \in Displays : slot[d] \in Frame \cup {NoFrame}
          /\ online \in [Modules -> BOOLEAN]
          /\ misses \in [Modules -> 0..MaxMisses]
          /\ fw \in Modules \cup {"none"}
          /\ recovery \in [Modules -> BOOLEAN]

\* A request that succeeds has the answer to itself, and a captured answer is the
\* one to the asynchronous request that is pending, although the answers to
\* earlier requests come late and sequence numbers are used again.
AnswersAreOwn ==
    [][/\ \A t \in Tasks : lock = t /\ lock' # t /\ ~Spent(t) => Head(rx).age = 0
       /\ \A d \in Displays : slot[d] = NoFrame /\ slot'[d] # NoFrame
                                => slot'[d].age = pending[d].age]_vars

\* While a module is updated, no other request waits for it.
TargetIsQuiet ==
    \A t \in Tasks : task[t].pc \in {"wait", "drain"} /\ task[t].dst = fw => task[t].cmd = "fw"

\* An answer that had been received when the time was over, with no more frames
\* before it than the last polls fetch, is not taken for lost.
InTimeIsAccepted == \A t \in Tasks : Spent(t) => ~task[t].inTime

\* No task waits for the bus while it holds it itself: "Never run them while
\* holding the current request lock".
NeverWaitsForItself == \A t \in Tasks : task[t].pc = "lock" => lock # t

\* What stays unanswered during an update does not take its target offline, "do not
\* mutate normal timeout snapshots, miss counters or module availability".  One thing
\* still does: an asynchronous request that was found expired before the update began,
\* and whose miss is counted only then.
UpdateKeepsOnline ==
    [][/\ \A m \in Modules : fw = m /\ fw' = m /\ online[m]
                             => online'[m] \/ (task[Loop].pc = "miss" /\ task[Loop].dst = m)
       /\ task[Loop].pc # "miss" /\ task'[Loop].pc = "miss" => task'[Loop].dst # fw]_vars

\* Every request ends, whatever the other task does with the bus and whether its
\* answer comes or not; the callbacks of a module that goes offline may make more.
\* Every asynchronous request ends, so that the display is asked again.
RequestsReturn ==
  /\ \A t \in Tasks : task[t].pc # "idle" ~> task[t].pc \in {"idle", "offline"}
  /\ \A d \in Displays : pending[d].on ~> ~pending[d].on
=================================================================================
