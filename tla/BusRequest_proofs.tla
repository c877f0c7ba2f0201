--------------------------- MODULE BusRequest_proofs ---------------------------
(***************************************************************************)
(* What TLAPS proves about BusRequest, for any modules and displays, any   *)
(* modulus of the sequence numbers, any number of frames under way and of  *)
(* last polls, and any count of misses that takes a module offline.        *)
(***************************************************************************)
EXTENDS BusRequest, TLAPS

(***************************************************************************)
(* Types.  Ages are bounded further below.                                 *)
(***************************************************************************)

Request == [pc : {"idle", "lock", "wait", "drain", "offline", "start", "expire", "miss"},
            dst : Modules \cup {"none"}, cmd : {"poll", "fw", "none"},
            counts : BOOLEAN, left : 0..FinalPolls, inTime : BOOLEAN]

Sent == [src : Modules, age : Nat]

Types == /\ lock \in Tasks \cup {"none"}
         /\ task \in [Tasks -> Request]
         /\ air \subseteq Sent /\ rx \in Seq(Sent)
         /\ pending \in [Displays -> [on : BOOLEAN, age : Nat]]
         /\ slot \in [Displays -> Sent \cup {NoFrame}]
         /\ online \in [Modules -> BOOLEAN]
         /\ misses \in [Modules -> 0..MaxMisses]
         /\ fw \in Modules \cup {"none"}
         /\ recovery \in [Modules -> BOOLEAN]

\* Sending makes frames, requests and captured answers one request older.
LEMMA SendsTypes ==
  ASSUME Types, NEW dst \in Modules, Sends(dst)
  PROVE  /\ air' \subseteq Sent /\ rx' \in Seq(Sent)
         /\ Aged \in [Displays -> [on : BOOLEAN, age : Nat]]
         /\ AgedSlot \in [Displays -> Sent \cup {NoFrame}]
<1>1. \A f \in Sent : Older(f) \in Sent
  BY DEF Older, Sent
<1>2. air' \subseteq Sent
  <2>1. [src |-> dst, age |-> 0] \in Sent
    BY DEF Sent
  <2> QED
    BY <1>1, <2>1 DEF Sends, Types
<1>3. rx' \in Seq(Sent)
  <2>1. rx' = [i \in 1..Len(rx) |-> Older(rx[i])] /\ Len(rx) \in Nat
    BY DEF Sends, Types
  <2>2. \A i \in 1..Len(rx) : Older(rx[i]) \in Sent
    BY <1>1 DEF Types
  <2> QED
    BY <2>1, <2>2
<1>4. Aged \in [Displays -> [on : BOOLEAN, age : Nat]]
  <2>1. ASSUME NEW d \in Displays
        PROVE  [pending[d] EXCEPT !.age = @ + 1] \in [on : BOOLEAN, age : Nat]
    <3>1. pending[d] \in [on : BOOLEAN, age : Nat]
      BY DEF Types
    <3> QED
      BY <3>1
  <2> QED
    BY <2>1 DEF Aged, Types
<1>5. AgedSlot \in [Displays -> Sent \cup {NoFrame}]
  <2>1. ASSUME NEW d \in Displays, slot[d] # NoFrame
        PROVE  Older(slot[d]) \in Sent
    BY <1>1, <2>1 DEF Types
  <2> QED
    BY <2>1 DEF AgedSlot
<1> QED
  BY <1>2, <1>3, <1>4, <1>5

LEMMA Bounds ==
  /\ SeqMod \in Nat /\ MaxAge \in Nat /\ FinalPolls \in Nat /\ MaxMisses \in Nat
  /\ MaxAge >= 1 /\ FinalPolls >= 1 /\ MaxMisses >= 1 /\ SeqMod >= MaxAge + 3
BY BoundsAssumption

\* What becomes of the record of a task when it starts something.
LEMMA TaskTypes ==
  ASSUME NEW pc \in {"idle", "lock", "offline", "start", "expire", "miss"},
         NEW dst \in Modules \cup {"none"}, NEW cmd \in {"poll", "fw", "none"}
  PROVE  /\ Idle \in Request
         /\ [Idle EXCEPT !.pc = pc] \in Request
         /\ [Idle EXCEPT !.pc = pc, !.dst = dst] \in Request
         /\ [Idle EXCEPT !.pc = pc, !.dst = dst, !.cmd = cmd] \in Request
<1>1. Idle \in Request
  BY Bounds DEF Idle, Request
<1>2. ASSUME NEW r \in Request PROVE [r EXCEPT !.pc = pc] \in Request
  BY DEF Request
<1>3. ASSUME NEW r \in Request PROVE [r EXCEPT !.pc = pc, !.dst = dst] \in Request
  BY DEF Request
<1>4. ASSUME NEW r \in Request PROVE [r EXCEPT !.pc = pc, !.dst = dst, !.cmd = cmd] \in Request
  BY DEF Request
<1> QED
  BY <1>1, <1>2, <1>3, <1>4

LEMMA TypesInit == Init => Types
<1> SUFFICES ASSUME Init PROVE Types
  OBVIOUS
<1>1. Idle \in Request
  BY TaskTypes
<1>2. rx \in Seq(Sent) /\ air \subseteq Sent
  BY DEF Init
<1> QED
  BY <1>1, <1>2, Bounds DEF Init, Types, NotPending

\* What a task is asked for, and that it holds the bus exactly while it waits for an answer.
Holds(t) ==
    /\ task[t].pc \in {"lock", "wait", "drain"} => task[t].dst \in Modules
    /\ task[t].pc \in {"wait", "drain"} <=> lock = t
    /\ task[t].pc \in {"start", "miss"} => t = Loop /\ task[t].dst \in Displays
    /\ lock = t /\ task[t].counts => task[t].cmd # "fw"

Held == \A t \in Tasks : Holds(t)

LEMMA TypesStep == Types /\ Held /\ [Next]_vars => Types'
<1> SUFFICES ASSUME Types, Held, [Next]_vars PROVE Types'
  OBVIOUS
<1> USE TasksAssumption, ModulesAssumption, Bounds
<1>i. Idle \in Request /\ [Idle EXCEPT !.pc = "offline"] \in Request
      /\ [Idle EXCEPT !.pc = "expire"] \in Request
  BY TaskTypes
<1>t. \A t \in Tasks : task[t] \in Request
  BY DEF Types
<1>1. CASE Deliver
  <2>1. PICK f \in air : /\ air' = air \ {f} /\ rx' \in {rx, Append(rx, f)}
                         /\ UNCHANGED <<lock, task, async, records, update>>
    BY <1>1 DEF Deliver
  <2>2. f \in Sent
    BY DEF Types
  <2>3. Append(rx, f) \in Seq(Sent)
    BY <2>2 DEF Types
  <2> QED
    BY <2>1, <2>3 DEF Types, async, records, update
<1>2. ASSUME NEW t \in Tasks, NEW m \in Modules, NEW cmd \in {"poll", "fw"}, Call(t, m, cmd)
      PROVE  Types'
  <2>1. [Idle EXCEPT !.pc = "lock", !.dst = m, !.cmd = cmd] \in Request
    BY TaskTypes
  <2> QED
    BY <1>2, <2>1 DEF Call, Types, link, async, records, update
<1>3. ASSUME NEW t \in Tasks, Acquire(t) PROVE Types'
  <2>1. CASE Refused(t)
    BY <1>i, <1>3, <2>1 DEF Acquire, Types, link, async, records, update
  <2>2. CASE ~Refused(t)
    <3>1. [task[t] EXCEPT !.pc = "wait", !.counts = Counts(task[t].dst, task[t].cmd)] \in Request
      BY <1>t DEF Request, Counts
    <3>2. task' \in [Tasks -> Request]
      BY <1>3, <2>2, <3>1 DEF Acquire, Types
    <3>3. task[t].dst \in Modules /\ Sends(task[t].dst)
      BY <1>3, <2>2 DEF Acquire, Held, Holds
    <3> HIDE DEF Request
    <3> QED
      BY <1>3, <2>2, <3>2, <3>3, SendsTypes DEF Acquire, Types, records, update
  <2> QED
    BY <2>1, <2>2
<1>4. ASSUME NEW t \in Tasks, LockTimesOut(t) \/ CallbacksEnd(t)
      PROVE  Types'
  BY <1>i, <1>4 DEF LockTimesOut, CallbacksEnd, Types, link, async, records, update
<1>5. ASSUME NEW t \in Tasks, Poll(t) PROVE Types'
  <2>1. Head(rx) \in Sent /\ rx' \in Seq(Sent)
    BY <1>5 DEF Poll, Types
  <2>2. task[t].dst \in Modules /\ task[t] \in Request
    BY <1>5, <1>t DEF Poll, Held, Holds
  <2>3. CASE Matches(Head(rx), task[t].dst, 0)
    <3>1. task' = [task EXCEPT ![t] = Idle] /\ misses' = [misses EXCEPT ![task[t].dst] = 0]
          /\ UNCHANGED <<air, pending, fw, slot>> /\ lock' = "none"
          /\ (UNCHANGED <<online, recovery>> \/ Found(task[t].dst))
      BY <1>5, <2>3 DEF Poll
    <3>2. online' \in [Modules -> BOOLEAN] /\ recovery' \in [Modules -> BOOLEAN]
      BY <2>2, <3>1 DEF Found, Types
    <3>3. misses' \in [Modules -> 0..MaxMisses]
      BY <2>2, <3>1 DEF Types
    <3>4. task' \in [Tasks -> Request]
      BY <1>i, <3>1 DEF Types
    <3> QED
      BY <2>1, <3>1, <3>2, <3>3, <3>4 DEF Types
  <2>4. CASE ~Matches(Head(rx), task[t].dst, 0)
    <3>0. ASSUME NEW n \in 0..FinalPolls PROVE [task[t] EXCEPT !.left = n] \in Request
      BY <2>2 DEF Request
    <3>n. task[t].left \in 0..FinalPolls /\ (task[t].pc = "drain" => task[t].left > 0)
      BY <1>5, <2>2 DEF Poll, Request
    <3>1. [task[t] EXCEPT !.left = IF task[t].pc = "drain" THEN @ - 1 ELSE @] \in Request
      BY <3>0, <3>n
    <3>2. task' \in [Tasks -> Request]
      BY <1>5, <2>4, <3>1 DEF Poll, Types
    <3>3. Captures(Head(rx)) /\ UNCHANGED <<lock, online, misses, recovery, air, pending, fw>>
      BY <1>5, <2>4 DEF Poll, records
    <3>4. slot' \in [Displays -> Sent \cup {NoFrame}]
      BY <2>1, <3>3 DEF Captures, Types
    <3> QED
      BY <2>1, <3>2, <3>3, <3>4 DEF Types
  <2> QED
    BY <2>3, <2>4
<1>6. ASSUME NEW t \in Tasks, PollNothing(t) \/ Deadline(t) PROVE Types'
  <2>1. [task[t] EXCEPT !.left = 0] \in Request
    BY <1>t DEF Request
  <2>2. AnswerIsThere(t) \in BOOLEAN
    BY DEF AnswerIsThere
  <2>3. [task[t] EXCEPT !.pc = "drain", !.left = FinalPolls, !.inTime = AnswerIsThere(t)] \in Request
    <3>1. ASSUME NEW n \in 0..FinalPolls, NEW b \in BOOLEAN
          PROVE  [task[t] EXCEPT !.pc = "drain", !.left = n, !.inTime = b] \in Request
      BY <1>t DEF Request
    <3>2. FinalPolls \in 0..FinalPolls
      BY Bounds
    <3> QED
      BY <2>2, <3>1, <3>2
  <2>4. task' \in [Tasks -> Request]
    <3>1. CASE PollNothing(t)
      BY <2>1, <3>1, Zenon DEF PollNothing, Types
    <3>2. CASE Deadline(t)
      BY <2>3, <3>2, Zenon DEF Deadline, Types
    <3> QED
      BY <1>6, <3>1, <3>2
  <2> QED
    BY <1>6, <2>4 DEF PollNothing, Deadline, Types, link, async, records, update
<1>m. ASSUME NEW m \in Modules, Missed(m)
      PROVE  online' \in [Modules -> BOOLEAN] /\ misses' \in [Modules -> 0..MaxMisses]
  <2>1. misses' = [misses EXCEPT ![m] = IF online[m] /\ @ < MaxMisses THEN @ + 1 ELSE @]
        /\ (online' = [online EXCEPT ![m] = FALSE] \/ online' = online)
    BY <1>m DEF Missed
  <2>2. misses[m] \in 0..MaxMisses
    BY DEF Types
  <2>3. (IF online[m] /\ misses[m] < MaxMisses THEN misses[m] + 1 ELSE misses[m]) \in 0..MaxMisses
    BY <2>2
  <2> QED
    BY <2>1, <2>3 DEF Types
<1>7. ASSUME NEW t \in Tasks, GiveUp(t) PROVE Types'
  <2>1. task[t].dst \in Modules
    BY <1>7 DEF GiveUp, Spent, Held, Holds
  <2>2. online' \in [Modules -> BOOLEAN] /\ misses' \in [Modules -> 0..MaxMisses]
    BY <1>7, <1>m, <2>1 DEF GiveUp, Types, records
  <2>3. task' \in [Tasks -> Request]
    BY <1>7, <1>i DEF GiveUp, Types
  <2> QED
    BY <1>7, <2>2, <2>3 DEF GiveUp, Types, link, async, update
<1>8. ASSUME NEW d \in Displays, StartAsync(d) PROVE Types'
  <2>1. [Idle EXCEPT !.pc = "start", !.dst = d] \in Request
    BY TaskTypes DEF Modules
  <2> QED
    BY <1>8, <2>1 DEF StartAsync, Types, Tasks, link, async, records, update
<1>9. CASE SendAsync
  <2>1. Loop \in Tasks /\ task[Loop].dst \in Displays
    BY <1>9 DEF SendAsync, Held, Holds, Tasks
  <2>2. task' \in [Tasks -> Request]
    BY <1>9, <1>i, <2>1 DEF SendAsync, Types
  <2>3. CASE lock = "none"
    <3>1. Sends(task[Loop].dst) /\ task[Loop].dst \in Modules
      BY <1>9, <2>1, <2>3 DEF SendAsync, Modules
    <3>2. pending' = [Aged EXCEPT ![task[Loop].dst] = [on |-> TRUE, age |-> 0]]
          /\ slot' = AgedSlot
      BY <1>9, <2>3 DEF SendAsync
    <3>3. /\ air' \subseteq Sent /\ rx' \in Seq(Sent)
          /\ Aged \in [Displays -> [on : BOOLEAN, age : Nat]]
          /\ AgedSlot \in [Displays -> Sent \cup {NoFrame}]
      BY <3>1, SendsTypes
    <3>4. pending' \in [Displays -> [on : BOOLEAN, age : Nat]]
      BY <3>2, <3>3
    <3> QED
      BY <1>9, <2>2, <3>2, <3>3, <3>4 DEF SendAsync, Types, records, update
  <2>4. CASE lock # "none"
    BY <1>9, <2>2, <2>4 DEF SendAsync, Types, link, async, records, update
  <2> QED
    BY <2>3, <2>4
<1>10. CASE Drain
  <2>1. Head(rx) \in Sent /\ rx' \in Seq(Sent)
    BY <1>10 DEF Drain, Types
  <2>2. slot' \in [Displays -> Sent \cup {NoFrame}]
    BY <1>10, <2>1 DEF Drain, Captures, Types
  <2> QED
    BY <1>10, <2>1, <2>2 DEF Drain, Types, records, update
<1>11. CASE ServiceCaptured
  <2>1. task' \in [Tasks -> Request]
    BY <1>11, <1>i DEF ServiceCaptured, Types, Tasks
  <2>2. pending' \in [Displays -> [on : BOOLEAN, age : Nat]]
    BY <1>11 DEF ServiceCaptured, Types, NotPending
  <2>3. online' \in [Modules -> BOOLEAN] /\ misses' \in [Modules -> 0..MaxMisses]
    BY <1>11 DEF ServiceCaptured, Types
  <2> QED
    BY <1>11, <2>1, <2>2, <2>3 DEF ServiceCaptured, Types, link, update
<1>12. ASSUME NEW d \in Displays, ServiceExpire(d) PROVE Types'
  <2>1. [Idle EXCEPT !.pc = "miss", !.dst = d] \in Request
    BY TaskTypes DEF Modules
  <2>2. task' \in [Tasks -> Request]
    BY <1>12, <1>i, <2>1 DEF ServiceExpire, Types, Tasks
  <2>3. pending' \in [Displays -> [on : BOOLEAN, age : Nat]]
    BY <1>12 DEF ServiceExpire, Types, NotPending
  <2> QED
    BY <1>12, <2>2, <2>3 DEF ServiceExpire, Types, link, update, records
<1>19. CASE ServiceMiss
  <2>1. Loop \in Tasks /\ task[Loop].dst \in Modules
    BY <1>19 DEF ServiceMiss, Held, Holds, Tasks, Modules
  <2>2. online' \in [Modules -> BOOLEAN] /\ misses' \in [Modules -> 0..MaxMisses]
    BY <1>19, <1>m, <2>1 DEF ServiceMiss
  <2>3. task' \in [Tasks -> Request]
    BY <1>19, <1>i, <2>1 DEF ServiceMiss, Types
  <2> QED
    BY <1>19, <2>2, <2>3 DEF ServiceMiss, Types, link, async, update
<1>13. CASE ServiceEnds
  BY <1>13, <1>i DEF ServiceEnds, Types, Tasks, link, async, records, update
<1>14. ASSUME NEW m \in Modules, moduleFwBegin(m) PROVE Types'
  <2>1. pending' \in [Displays -> [on : BOOLEAN, age : Nat]]
    BY <1>14 DEF moduleFwBegin, Reserve, Types, NotPending
  <2> QED
    BY <1>14, <2>1 DEF moduleFwBegin, Reserve, Types, link, records
<1>15. ASSUME NEW m \in Modules, RecoveryEnds(m) PROVE Types'
  BY <1>15 DEF RecoveryEnds, Types, link, async, records
<1>16. CASE moduleFwEnd
  BY <1>16 DEF moduleFwEnd, Types, link, async
<1>18. CASE moduleFwAbort
  BY <1>18 DEF moduleFwAbort, Types, link, async, records
<1>17. CASE UNCHANGED vars
  BY <1>17 DEF vars, Types, link, async, records, update
<1> QED
  BY <1>1, <1>2, <1>3, <1>4, <1>5, <1>6, <1>7, <1>8, <1>9, <1>10, <1>11, <1>12, <1>13, <1>14,
     <1>15, <1>16, <1>17, <1>18, <1>19 DEF Next, Requests

(***************************************************************************)
(* Who holds the bus.                                                      *)
(***************************************************************************)

LEMMA HeldInit == Init => Held
BY TasksAssumption DEF Init, Held, Holds, Idle

LEMMA HeldStep == Types /\ Held /\ [Next]_vars => Held'
<1> SUFFICES ASSUME Types, Held, [Next]_vars, NEW u \in Tasks PROVE Holds(u)'
  BY DEF Held
<1> USE TasksAssumption
<1>t. task \in [Tasks -> Request] /\ task[u] \in Request /\ Loop \in Tasks
  BY DEF Types, Tasks
<1>h. \A t \in Tasks : Holds(t)
  BY DEF Held
<1>1. CASE UNCHANGED <<lock, task>>
  BY <1>1, <1>h DEF Holds
<1>i. ASSUME NEW t \in Tasks, lock' = lock \/ (lock = t /\ lock' = "none"), lock # t \/ lock' = "none",
             \/ task' = [task EXCEPT ![t] = Idle]
             \/ task' = [task EXCEPT ![t] = [Idle EXCEPT !.pc = "offline"]]
             \/ task' = [task EXCEPT ![t] = [Idle EXCEPT !.pc = "expire"]]
      PROVE  Holds(u)'
  <2>1. CASE u = t
    BY <1>i, <1>t, <1>h, <2>1 DEF Holds, Idle
  <2>2. CASE u # t
    BY <1>i, <1>t, <1>h, <2>2 DEF Holds
  <2> QED
    BY <2>1, <2>2
<1>2. ASSUME NEW t \in Tasks, NEW m \in Modules, NEW cmd \in {"poll", "fw"}, Call(t, m, cmd)
      PROVE  Holds(u)'
  <2>1. CASE u = t
    BY <1>2, <1>t, <1>h, <2>1 DEF Call, Holds, Idle
  <2>2. CASE u # t
    BY <1>2, <1>t, <1>h, <2>2 DEF Call, Holds
  <2> QED
    BY <2>1, <2>2
<1>3. ASSUME NEW t \in Tasks, Acquire(t) PROVE Holds(u)'
  <2>1. CASE Refused(t)
    BY <1>3, <1>i, <1>h, <2>1 DEF Acquire, Holds
  <2>2. CASE ~Refused(t)
    <3>1. /\ task[t].pc = "lock" /\ lock = "none" /\ lock' = t
          /\ task' = [task EXCEPT ![t].pc = "wait", ![t].counts = Counts(task[t].dst, task[t].cmd)]
      BY <1>3, <2>2 DEF Acquire
    <3>2. CASE u = t
      <4>1. task'[u].pc = "wait" /\ task'[u].dst = task[u].dst /\ task'[u].cmd = task[u].cmd
            /\ task'[u].counts = Counts(task[u].dst, task[u].cmd)
        BY <1>t, <3>1, <3>2 DEF Request
      <4> QED
        BY <1>h, <3>1, <3>2, <4>1 DEF Holds, Counts
    <3>3. CASE u # t
      BY <1>h, <1>t, <3>1, <3>3 DEF Holds
    <3> QED
      BY <3>2, <3>3
  <2> QED
    BY <2>1, <2>2
<1>4. ASSUME NEW t \in Tasks, LockTimesOut(t) PROVE Holds(u)'
  BY <1>4, <1>i, <1>h DEF LockTimesOut, Holds
<1>5. ASSUME NEW t \in Tasks, CallbacksEnd(t) PROVE Holds(u)'
  BY <1>5, <1>i, <1>h DEF CallbacksEnd, Holds
<1>6. ASSUME NEW t \in Tasks, Poll(t) PROVE Holds(u)'
  <2>1. CASE Matches(Head(rx), task[t].dst, 0)
    BY <1>6, <1>i, <2>1 DEF Poll
  <2>2. CASE ~Matches(Head(rx), task[t].dst, 0)
    <3>1. PICK n : task' = [task EXCEPT ![t].left = n]
      BY <1>6, <2>2, Zenon DEF Poll
    <3>2. lock' = lock
      BY <1>6, <2>2 DEF Poll
    <3>3. CASE u = t
      <4>1. task'[u].pc = task[u].pc /\ task'[u].dst = task[u].dst /\ task'[u].cmd = task[u].cmd
            /\ task'[u].counts = task[u].counts
        BY <1>t, <3>1, <3>3 DEF Request
      <4> QED
        BY <1>h, <3>2, <4>1 DEF Holds
    <3>4. CASE u # t
      BY <1>h, <1>t, <3>1, <3>2, <3>4 DEF Holds
    <3> QED
      BY <3>3, <3>4
  <2> QED
    BY <2>1, <2>2
<1>7. ASSUME NEW t \in Tasks, PollNothing(t) \/ Deadline(t) PROVE Holds(u)'
  <2>1. task[t].pc \in {"wait", "drain"} /\ lock' = lock
    BY <1>7 DEF PollNothing, Deadline
  <2>2. CASE u = t
    <3>1. task'[u].pc = "drain" /\ task'[u].dst = task[u].dst /\ task'[u].cmd = task[u].cmd
          /\ task'[u].counts = task[u].counts
      BY <1>7, <1>t, <2>2 DEF PollNothing, Deadline, Request
    <3> QED
      BY <1>h, <2>1, <2>2, <3>1 DEF Holds
  <2>3. CASE u # t
    BY <1>7, <1>h, <1>t, <2>1, <2>3 DEF Holds, PollNothing, Deadline
  <2> QED
    BY <2>2, <2>3
<1>8. ASSUME NEW t \in Tasks, GiveUp(t) PROVE Holds(u)'
  <2>1. lock = t /\ lock' = "none"
    BY <1>8, <1>h DEF GiveUp, Spent, Holds
  <2> QED
    BY <1>8, <1>i, <2>1 DEF GiveUp
<1>9. ASSUME NEW d \in Displays, StartAsync(d) PROVE Holds(u)'
  <2>1. CASE u = Loop
    BY <1>9, <1>t, <1>h, <2>1 DEF StartAsync, Holds, Idle
  <2>2. CASE u # Loop
    BY <1>9, <1>t, <1>h, <2>2 DEF StartAsync, Holds
  <2> QED
    BY <2>1, <2>2
<1>l. ASSUME task[Loop].pc \in {"idle", "start", "expire", "miss"} PROVE lock # Loop
  BY <1>l, <1>t, <1>h DEF Holds
<1>10. CASE SendAsync
  BY <1>10, <1>i, <1>l, <1>t DEF SendAsync
<1>11. CASE ServiceCaptured
  BY <1>11, <1>i, <1>l, <1>t DEF ServiceCaptured
<1>12. ASSUME NEW d \in Displays, ServiceExpire(d) PROVE Holds(u)'
  <2>1. /\ lock # Loop /\ lock' = lock
        /\ task' = [task EXCEPT ![Loop] = Idle]
             \/ task' = [task EXCEPT ![Loop] = [Idle EXCEPT !.pc = "miss", !.dst = d]]
    BY <1>12, <1>l DEF ServiceExpire
  <2>2. CASE task' = [task EXCEPT ![Loop] = Idle]
    BY <1>i, <1>t, <2>1, <2>2
  <2>3. CASE task' = [task EXCEPT ![Loop] = [Idle EXCEPT !.pc = "miss", !.dst = d]]
    <3>1. CASE u = Loop
      BY <1>t, <2>1, <2>3, <3>1 DEF Holds, Idle
    <3>2. CASE u # Loop
      BY <1>t, <1>h, <2>1, <2>3, <3>2 DEF Holds
    <3> QED
      BY <3>1, <3>2
  <2> QED
    BY <2>1, <2>2, <2>3
<1>18. CASE ServiceMiss
  BY <1>18, <1>i, <1>l, <1>t DEF ServiceMiss
<1>13. CASE ServiceEnds
  BY <1>13, <1>i, <1>l, <1>t DEF ServiceEnds
<1>14. CASE Deliver \/ Drain
  BY <1>1, <1>14 DEF Deliver, Drain
<1>15. ASSUME NEW m \in Modules, moduleFwBegin(m) \/ RecoveryEnds(m) PROVE Holds(u)'
  BY <1>1, <1>15 DEF moduleFwBegin, RecoveryEnds
<1>16. CASE moduleFwEnd \/ moduleFwAbort
  BY <1>1, <1>16 DEF moduleFwEnd, moduleFwAbort
<1>17. CASE UNCHANGED vars
  BY <1>1, <1>17 DEF vars
<1> QED
  BY <1>2, <1>3, <1>4, <1>5, <1>6, <1>7, <1>8, <1>9, <1>10, <1>11, <1>12, <1>13, <1>14, <1>15,
     <1>16, <1>17, <1>18 DEF Next, Requests

(***************************************************************************)
(* The target of an update.                                                *)
(***************************************************************************)

\* Reserving the target waits for the bus, so that no request is under way.
LEMMA QuietStep == Types /\ Held /\ TargetIsQuiet /\ [Next]_vars => TargetIsQuiet'
<1> SUFFICES ASSUME Types, Held, TargetIsQuiet, [Next]_vars, NEW u \in Tasks,
                    task'[u].pc \in {"wait", "drain"}, task'[u].dst = fw'
             PROVE  task'[u].cmd = "fw"
  BY DEF TargetIsQuiet
<1> USE TasksAssumption, ModulesAssumption
<1>t. task \in [Tasks -> Request] /\ task[u] \in Request /\ Loop \in Tasks
  BY DEF Types, Tasks
<1>h. \A t \in Tasks : Holds(t)
  BY DEF Held
<1>n. Holds(u)'
  BY HeldStep DEF Held
<1>q. task[u].pc \in {"wait", "drain"} /\ task[u].dst = fw => task[u].cmd = "fw"
  BY DEF TargetIsQuiet
<1>0. task'[u].dst \in Modules /\ lock' = u
  BY <1>n DEF Holds
<1>1. CASE task'[u] = task[u] /\ (fw' = fw \/ lock = "none" \/ fw' = "none")
  BY <1>1, <1>0, <1>h, <1>q DEF Holds
<1>2. ASSUME NEW t \in Tasks, NEW m \in Modules, NEW cmd \in {"poll", "fw"}, Call(t, m, cmd)
      PROVE  task'[u].cmd = "fw"
  <2>1. u # t
    BY <1>2, <1>t DEF Call, Idle
  <2> QED
    BY <1>1, <1>2, <1>t, <2>1 DEF Call, update
<1>3. ASSUME NEW t \in Tasks, Acquire(t) PROVE task'[u].cmd = "fw"
  <2>1. CASE u = t
    <3>1. task[u].cmd = "fw" \/ fw # task[u].dst
      BY <1>3, <1>t, <1>h, <2>1 DEF Acquire, Refused, Idle
    <3>2. task'[u].cmd = task[u].cmd /\ task'[u].dst = task[u].dst /\ fw' = fw
      BY <1>3, <1>t, <2>1 DEF Acquire, Request, Idle, update
    <3> QED
      BY <3>1, <3>2
  <2>2. CASE u # t
    BY <1>1, <1>3, <1>t, <2>2 DEF Acquire, update
  <2> QED
    BY <2>1, <2>2
<1>4. ASSUME NEW t \in Tasks, LockTimesOut(t) \/ CallbacksEnd(t) \/ GiveUp(t)
      PROVE  task'[u].cmd = "fw"
  <2>1. u # t
    BY <1>4, <1>t DEF LockTimesOut, CallbacksEnd, GiveUp, Idle
  <2> QED
    BY <1>1, <1>4, <1>t, <2>1 DEF LockTimesOut, CallbacksEnd, GiveUp, update
<1>5. ASSUME NEW t \in Tasks, Poll(t) \/ PollNothing(t) \/ Deadline(t)
      PROVE  task'[u].cmd = "fw"
  <2>1. CASE u = t
    <3>1. task[u].pc \in {"wait", "drain"} /\ fw' = fw
      BY <1>5, <2>1 DEF Poll, PollNothing, Deadline, update
    <3>2. task'[u].cmd = task[u].cmd /\ task'[u].dst = task[u].dst
      BY <1>5, <1>t, <2>1 DEF Poll, PollNothing, Deadline, Idle, Request
    <3> QED
      BY <1>q, <3>1, <3>2
  <2>2. CASE u # t
    BY <1>1, <1>5, <1>t, <2>2 DEF Poll, PollNothing, Deadline, update
  <2> QED
    BY <2>1, <2>2
<1>6. ASSUME NEW d \in Displays, StartAsync(d) \/ ServiceExpire(d) PROVE task'[u].cmd = "fw"
  <2>1. u # Loop
    <3>1. CASE StartAsync(d)
      BY <1>t, <3>1 DEF StartAsync, Idle
    <3>2. CASE ServiceExpire(d)
      BY <1>t, <3>2 DEF ServiceExpire, Idle
    <3> QED
      BY <1>6, <3>1, <3>2
  <2> QED
    BY <1>1, <1>6, <1>t, <2>1 DEF StartAsync, ServiceExpire, update
<1>7. CASE SendAsync \/ ServiceCaptured \/ ServiceMiss \/ ServiceEnds
  <2>1. u # Loop
    BY <1>7, <1>t DEF SendAsync, ServiceCaptured, ServiceMiss, ServiceEnds, Idle
  <2> QED
    BY <1>1, <1>7, <1>t, <2>1 DEF SendAsync, ServiceCaptured, ServiceMiss, ServiceEnds, update
<1>8. CASE Deliver \/ Drain
  BY <1>1, <1>8 DEF Deliver, Drain, update
<1>9. ASSUME NEW m \in Modules, moduleFwBegin(m) \/ RecoveryEnds(m) PROVE task'[u].cmd = "fw"
  BY <1>1, <1>9 DEF moduleFwBegin, Reserve, RecoveryEnds
<1>10. CASE moduleFwEnd \/ moduleFwAbort
  BY <1>1, <1>10 DEF moduleFwEnd, moduleFwAbort
<1>11. CASE UNCHANGED vars
  BY <1>1, <1>11 DEF vars, update
<1> QED
  BY <1>2, <1>3, <1>4, <1>5, <1>6, <1>7, <1>8, <1>9, <1>10, <1>11 DEF Next, Requests

\* A miss is counted only for a module that is not being updated, or was not when the
\* request was found expired.
LEMMA KeepsOnlineStep ==
  ASSUME Types, Held, TargetIsQuiet, [Next]_vars, NEW m \in Modules, fw = m, fw' = m, online[m],
         ~ (task[Loop].pc = "miss" /\ task[Loop].dst = m)
  PROVE  online'[m]
<1> USE ModulesAssumption, TasksAssumption
<1>t. online \in [Modules -> BOOLEAN]
  BY DEF Types
<1>1. CASE online' = online
  BY <1>1
<1>2. ASSUME NEW k \in Modules, k # m, Missed(k) PROVE online'[m]
  BY <1>2, <1>t DEF Missed
<1>3. ASSUME NEW t \in Tasks, Poll(t) PROVE online'[m]
  BY <1>3, <1>t DEF Poll, Found, records
<1>4. ASSUME NEW t \in Tasks, GiveUp(t) PROVE online'[m]
  <2>1. task[t].pc = "drain" /\ task[t].dst \in Modules /\ lock = t
    BY <1>4 DEF GiveUp, Spent, Held, Holds
  <2>2. CASE task[t].counts
    <3>1. task[t].dst # m
      BY <2>1, <2>2 DEF Held, Holds, TargetIsQuiet
    <3> QED
      BY <1>2, <1>4, <2>1, <2>2, <3>1 DEF GiveUp
  <2>3. CASE ~task[t].counts
    BY <1>1, <1>4, <2>3 DEF GiveUp, records
  <2> QED
    BY <2>2, <2>3
<1>5. ASSUME NEW d \in Displays, ServiceExpire(d) PROVE online'[m]
  BY <1>1, <1>5 DEF ServiceExpire, records
<1>14. CASE ServiceMiss
  <2>1. Missed(task[Loop].dst) /\ task[Loop].dst \in Modules /\ task[Loop].dst # m
    BY <1>14 DEF ServiceMiss, Held, Holds, Tasks, Modules
  <2> QED
    BY <1>2, <2>1
<1>6. CASE ServiceCaptured
  BY <1>6, <1>t DEF ServiceCaptured
<1>7. ASSUME NEW t \in Tasks, NEW k \in Modules, NEW cmd \in {"poll", "fw"}, Call(t, k, cmd)
      PROVE  online'[m]
  BY <1>1, <1>7 DEF Call, records
<1>8. ASSUME NEW t \in Tasks, \/ Acquire(t) \/ LockTimesOut(t) \/ PollNothing(t) \/ Deadline(t)
                              \/ CallbacksEnd(t)
      PROVE  online'[m]
  BY <1>1, <1>8 DEF Acquire, LockTimesOut, PollNothing, Deadline, CallbacksEnd, records
<1>9. ASSUME NEW d \in Displays, StartAsync(d) PROVE online'[m]
  BY <1>1, <1>9 DEF StartAsync, records
<1>10. CASE Deliver \/ SendAsync \/ Drain \/ ServiceEnds \/ moduleFwAbort
  BY <1>1, <1>10 DEF Deliver, SendAsync, Drain, ServiceEnds, moduleFwAbort, records
<1>11. ASSUME NEW k \in Modules, moduleFwBegin(k) \/ RecoveryEnds(k) PROVE online'[m]
  BY <1>1, <1>11 DEF moduleFwBegin, RecoveryEnds, records
<1>12. CASE moduleFwEnd
  BY <1>12 DEF moduleFwEnd
<1>13. CASE UNCHANGED vars
  BY <1>1, <1>13 DEF vars, records
<1> QED
  BY <1>3, <1>4, <1>5, <1>6, <1>7, <1>8, <1>9, <1>10, <1>11, <1>12, <1>13, <1>14
     DEF Next, Requests

\* Requests are found expired for nothing but misses of modules that are not updated.
LEMMA MissStep ==
  ASSUME Types, Held, [Next]_vars, task[Loop].pc # "miss", task'[Loop].pc = "miss"
  PROVE  task'[Loop].dst # fw
<1> USE TasksAssumption
<1>t. task \in [Tasks -> Request] /\ Loop \in Tasks /\ task[Loop] \in Request
  BY DEF Types, Tasks
<1>1. ASSUME NEW d \in Displays, ServiceExpire(d) PROVE task'[Loop].dst # fw
  <2>1. Counts(d, "status") /\ task'[Loop].dst = d
    BY <1>1, <1>t DEF ServiceExpire, Idle
  <2> QED
    BY <2>1 DEF Counts
<1>2. task'[Loop] # task[Loop]
  OBVIOUS
<1>3. ASSUME NEW t \in Tasks, Requests(t) PROVE FALSE
  <2>1. CASE t # Loop
    BY <1>2, <1>3, <1>t, <2>1 DEF Requests, Acquire, LockTimesOut, Poll, PollNothing, Deadline,
                                  GiveUp, CallbacksEnd
  <2>2. CASE t = Loop
    <3>1. CASE Acquire(t) \/ LockTimesOut(t) \/ CallbacksEnd(t) \/ GiveUp(t)
      BY <1>t, <2>2, <3>1 DEF Acquire, LockTimesOut, CallbacksEnd, GiveUp, Idle, Request
    <3>2. CASE Poll(t) \/ PollNothing(t) \/ Deadline(t)
      BY <1>t, <2>2, <3>2 DEF Poll, PollNothing, Deadline, Idle, Request
    <3> QED
      BY <1>3, <3>1, <3>2 DEF Requests
  <2> QED
    BY <2>1, <2>2
<1>4. ASSUME NEW t \in Tasks, NEW m \in Modules, NEW cmd \in {"poll", "fw"}, Call(t, m, cmd)
      PROVE  FALSE
  BY <1>4, <1>t DEF Call, Idle
<1>5. CASE SendAsync \/ ServiceCaptured \/ ServiceMiss \/ ServiceEnds
  BY <1>5, <1>t DEF SendAsync, ServiceCaptured, ServiceMiss, ServiceEnds, Idle
<1>6. ASSUME NEW d \in Displays, StartAsync(d) PROVE FALSE
  BY <1>6, <1>t DEF StartAsync, Idle
<1> QED
  BY <1>1, <1>2, <1>3, <1>4, <1>5, <1>6 DEF Next, Deliver, Drain, moduleFwBegin, RecoveryEnds,
     moduleFwEnd, moduleFwAbort, vars

(***************************************************************************)
(* The last polls.                                                         *)
(***************************************************************************)

\* An answer that was there at the deadline is still within reach of the polls that are left.
InReach(t) ==
    task[t].pc = "drain" /\ task[t].inTime
      => \E i \in 1..task[t].left : /\ i \in DOMAIN rx
                                    /\ rx[i].src = task[t].dst /\ rx[i].age = 0

Reachable == \A t \in Tasks : InReach(t)

LEMMA ReachableInit == Init => Reachable
BY DEF Init, Reachable, InReach, Idle

LEMMA ReachableStep == Types /\ Held /\ Reachable /\ [Next]_vars => Reachable'
<1> SUFFICES ASSUME Types, Held, Reachable, [Next]_vars, NEW u \in Tasks,
                    task'[u].pc = "drain", task'[u].inTime
             PROVE  InReach(u)'
  BY DEF Reachable, InReach
<1> USE TasksAssumption, Bounds
<1>t. /\ task \in [Tasks -> Request] /\ task[u] \in Request /\ Loop \in Tasks
      /\ rx \in Seq(Sent) /\ air \subseteq Sent
  BY DEF Types, Tasks
<1>h. \A t \in Tasks : Holds(t)
  BY DEF Held
<1>r. InReach(u)
  BY DEF Reachable
<1>1. CASE task'[u] = task[u] /\ rx' = rx
  BY <1>1, <1>r DEF InReach
<1>2. ASSUME task'[u] = task[u], lock # u PROVE FALSE
  BY <1>2, <1>h DEF Holds
<1>3. CASE Deliver
  <2>1. PICK f \in air : rx' \in {rx, Append(rx, f)} /\ UNCHANGED task
    BY <1>3 DEF Deliver
  <2>2. PICK i \in 1..task[u].left : i \in DOMAIN rx /\ rx[i].src = task[u].dst /\ rx[i].age = 0
    BY <1>r, <2>1 DEF InReach
  <2>3. f \in Sent
    BY <1>t
  <2>4. i \in DOMAIN rx' /\ rx'[i] = rx[i]
    BY <1>t, <2>1, <2>2, <2>3
  <2> QED
    BY <2>1, <2>2, <2>4 DEF InReach
<1>4. ASSUME NEW t \in Tasks, NEW m \in Modules, NEW cmd \in {"poll", "fw"}, Call(t, m, cmd)
      PROVE  InReach(u)'
  <2>1. u # t
    BY <1>4, <1>t DEF Call, Idle
  <2> QED
    BY <1>1, <1>4, <1>t, <2>1 DEF Call, link
<1>5. ASSUME NEW t \in Tasks, Acquire(t) PROVE InReach(u)'
  <2>1. u # t
    BY <1>5, <1>t DEF Acquire, Idle, Request
  <2>2. task'[u] = task[u] /\ lock = "none"
    BY <1>5, <1>t, <2>1 DEF Acquire
  <2> QED
    BY <1>2, <2>2
<1>6. ASSUME NEW t \in Tasks, LockTimesOut(t) \/ CallbacksEnd(t) \/ GiveUp(t)
      PROVE  InReach(u)'
  <2>1. u # t
    BY <1>6, <1>t DEF LockTimesOut, CallbacksEnd, GiveUp, Idle
  <2> QED
    BY <1>1, <1>6, <1>t, <2>1 DEF LockTimesOut, CallbacksEnd, GiveUp, link
<1>7. ASSUME NEW t \in Tasks, Poll(t) PROVE InReach(u)'
  <2>1. u = t
    <3>1. CASE u # t
      BY <1>2, <1>7, <1>t, <3>1 DEF Poll
    <3> QED
      BY <3>1
  <2>2. ~Matches(Head(rx), task[u].dst, 0)
    BY <1>7, <1>t, <2>1 DEF Poll, Idle
  <2>3. /\ rx # <<>> /\ rx' = Tail(rx)
        /\ task' = [task EXCEPT ![u].left = IF task[u].pc = "drain" THEN @ - 1 ELSE @]
    BY <1>7, <2>1, <2>2 DEF Poll
  <2>4. /\ task[u].pc = "drain" /\ task[u].inTime /\ task'[u].left = task[u].left - 1
        /\ task'[u].dst = task[u].dst
    BY <1>t, <2>3 DEF Request
  <2>5. PICK i \in 1..task[u].left : i \in DOMAIN rx /\ rx[i].src = task[u].dst /\ rx[i].age = 0
    BY <1>r, <2>4 DEF InReach
  <2>6. i # 1
    BY <2>2, <2>3, <2>5, <1>t DEF Matches
  <2>7. task[u].left \in Nat /\ Len(rx) \in Nat /\ i \in 1..Len(rx)
    BY <1>t, <2>5 DEF Request
  <2>8. i - 1 \in DOMAIN rx' /\ rx'[i - 1] = rx[i]
    BY <1>t, <2>3, <2>6, <2>7
  <2>9. i - 1 \in 1..task'[u].left
    BY <2>4, <2>5, <2>6, <2>7
  <2> QED
    BY <2>4, <2>5, <2>8, <2>9 DEF InReach
<1>8. ASSUME NEW t \in Tasks, PollNothing(t) PROVE InReach(u)'
  <2>1. CASE u # t
    BY <1>1, <1>8, <1>t, <2>1 DEF PollNothing, link
  <2>2. CASE u = t
    <3>1. task[u].pc = "drain" /\ task[u].inTime /\ rx = <<>>
      BY <1>8, <1>t, <2>2 DEF PollNothing, Request
    <3> QED
      BY <1>r, <3>1 DEF InReach
  <2> QED
    BY <2>1, <2>2
<1>9. ASSUME NEW t \in Tasks, Deadline(t) PROVE InReach(u)'
  <2>1. CASE u # t
    BY <1>1, <1>9, <1>t, <2>1 DEF Deadline, link
  <2>2. CASE u = t
    <3>1. /\ task'[u].left = FinalPolls /\ task'[u].inTime = AnswerIsThere(u)
          /\ task'[u].dst = task[u].dst /\ rx' = rx
      BY <1>9, <1>t, <2>2 DEF Deadline, Request, link
    <3>2. PICK i \in DOMAIN rx : i <= FinalPolls /\ rx[i].src = task[u].dst /\ rx[i].age = 0
      BY <3>1 DEF AnswerIsThere
    <3>3. i \in 1..FinalPolls
      BY <1>t, <3>2
    <3> QED
      BY <3>1, <3>2, <3>3 DEF InReach
  <2> QED
    BY <2>1, <2>2
<1>10. ASSUME NEW d \in Displays, StartAsync(d) \/ ServiceExpire(d) PROVE InReach(u)'
  <2>1. u # Loop
    <3>1. CASE StartAsync(d)
      BY <1>t, <3>1 DEF StartAsync, Idle
    <3>2. CASE ServiceExpire(d)
      BY <1>t, <3>2 DEF ServiceExpire, Idle
    <3> QED
      BY <1>10, <3>1, <3>2
  <2> QED
    BY <1>1, <1>10, <1>t, <2>1 DEF StartAsync, ServiceExpire, link
<1>11. CASE SendAsync
  <2>1. u # Loop
    BY <1>11, <1>t DEF SendAsync, Idle
  <2>2. task'[u] = task[u]
    BY <1>11, <1>t, <2>1 DEF SendAsync
  <2>3. CASE lock = "none"
    BY <1>2, <2>2, <2>3
  <2>4. CASE lock # "none"
    BY <1>1, <1>11, <2>2, <2>4 DEF SendAsync, link
  <2> QED
    BY <2>3, <2>4
<1>12. CASE ServiceCaptured \/ ServiceMiss \/ ServiceEnds
  <2>1. u # Loop
    BY <1>12, <1>t DEF ServiceCaptured, ServiceMiss, ServiceEnds, Idle
  <2> QED
    BY <1>1, <1>12, <1>t, <2>1 DEF ServiceCaptured, ServiceMiss, ServiceEnds, link
<1>13. CASE Drain
  BY <1>2, <1>13 DEF Drain
<1>14. ASSUME NEW m \in Modules, moduleFwBegin(m) \/ RecoveryEnds(m) PROVE InReach(u)'
  BY <1>1, <1>14 DEF moduleFwBegin, RecoveryEnds, link
<1>15. CASE moduleFwEnd \/ moduleFwAbort
  BY <1>1, <1>15 DEF moduleFwEnd, moduleFwAbort, link
<1>16. CASE UNCHANGED vars
  BY <1>1, <1>16 DEF vars, link
<1> QED
  BY <1>3, <1>4, <1>5, <1>6, <1>7, <1>8, <1>9, <1>10, <1>11, <1>12, <1>13, <1>14, <1>15, <1>16
     DEF Next, Requests

(***************************************************************************)
(* Ages.  A task that is about to send will make everything one request    *)
(* older: what counts is the age there will be then.                       *)
(***************************************************************************)

Ahead(t) == IF task[t].pc \in {"lock", "start"} THEN 1 ELSE 0
Waiting == Ahead(Loop) + Ahead(Web)

Ages == /\ \A f \in air : f.age <= MaxAge
        /\ \A i \in DOMAIN rx : rx[i].age + Waiting <= MaxAge + 2
        /\ \A d \in Displays : /\ pending[d].age + Waiting < SeqMod
                               /\ ~pending[d].on => pending[d].age = 0
                               /\ slot[d].age + Waiting < SeqMod

LEMMA WaitingBounds == Waiting \in 0..2
BY DEF Waiting, Ahead

LEMMA WaitingIsLess == 0 + Waiting < SeqMod /\ 0 + Waiting' < SeqMod
BY Bounds DEF Waiting, Ahead

\* A task other than the two does not change, and one that does not begin to wait leaves
\* Waiting alone or counts it down.
LEMMA WaitingFalls ==
  ASSUME NEW t \in Tasks, NEW r, task \in [Tasks -> Request], task' = [task EXCEPT ![t] = r],
         r.pc \in {"lock", "start"} => task[t].pc \in {"lock", "start"}
  PROVE  /\ Waiting' <= Waiting
         /\ task[t].pc \in {"lock", "start"} /\ r.pc \notin {"lock", "start"}
              => Waiting' = Waiting - 1
BY TasksAssumption DEF Waiting, Ahead, Tasks

\* Everything is as it was, or dropped, or begun anew.
LEMMA AgesKept ==
  ASSUME Types, Ages, Waiting' <= Waiting,
         air' \subseteq air,
         rx' = rx \/ (rx # <<>> /\ rx' = Tail(rx)),
         \A d \in Displays : pending'[d] = pending[d] \/ pending'[d] = NotPending,
         \A d \in Displays : slot'[d] = slot[d] \/ slot'[d] = NoFrame
                             \/ (rx # <<>> /\ slot'[d] = Head(rx))
  PROVE  Ages'
<1> USE Bounds
<1>1. Waiting \in 0..2 /\ Waiting' \in 0..2
  BY WaitingBounds DEF Waiting, Ahead
<1>t. rx \in Seq(Sent) /\ air \subseteq Sent
  BY DEF Types
<1>2. \A f \in air' : f.age <= MaxAge
  BY DEF Ages
<1>3. ASSUME NEW i \in DOMAIN rx' PROVE rx'[i].age + Waiting' <= MaxAge + 2
  <2>1. PICK j \in DOMAIN rx : rx'[i] = rx[j]
    BY <1>t
  <2>2. rx[j] \in Sent
    BY <1>t, <2>1
  <2>3. rx[j].age + Waiting <= MaxAge + 2
    BY <2>1 DEF Ages
  <2> QED
    BY <1>1, <2>1, <2>2, <2>3 DEF Sent
<1>4. ASSUME NEW d \in Displays
      PROVE  pending'[d].age + Waiting' < SeqMod /\ (~pending'[d].on => pending'[d].age = 0)
  <2>1. pending[d].age \in Nat
    BY DEF Types
  <2>2. pending[d].age + Waiting < SeqMod /\ (~pending[d].on => pending[d].age = 0)
    BY DEF Ages
  <2> QED
    BY <1>1, <2>1, <2>2 DEF NotPending
<1>5. ASSUME NEW d \in Displays PROVE slot'[d].age + Waiting' < SeqMod
  <2>1. CASE slot'[d] = slot[d]
    <3>1. slot[d].age \in Nat
      BY DEF Types, Sent, NoFrame
    <3>2. slot[d].age + Waiting < SeqMod
      BY DEF Ages
    <3> QED
      BY <1>1, <2>1, <3>1, <3>2
  <2>2. CASE slot'[d] = NoFrame
    <3>1. slot'[d].age = 0
      BY <2>2 DEF NoFrame
    <3> QED
      BY <3>1, WaitingIsLess, Zenon
  <2>3. CASE rx # <<>> /\ slot'[d] = Head(rx)
    <3>1. 1 \in DOMAIN rx /\ Head(rx) = rx[1]
      BY <1>t, <2>3
    <3>2. rx[1] \in Sent
      BY <1>t, <3>1
    <3>3. rx[1].age + Waiting <= MaxAge + 2
      BY <3>1 DEF Ages
    <3> QED
      BY <1>1, <2>3, <3>1, <3>2, <3>3 DEF Sent
  <2> QED
    BY <2>1, <2>2, <2>3
<1> QED
  BY <1>2, <1>3, <1>4, <1>5 DEF Ages

\* A task that sends is one less that is about to.
LEMMA AgesSent ==
  ASSUME Types, Ages, Waiting' = Waiting - 1, NEW dst \in Modules, Sends(dst),
         \A d \in Displays : pending'[d] = Aged[d] \/ pending'[d] = [on |-> TRUE, age |-> 0],
         slot' = AgedSlot
  PROVE  Ages'
<1> USE Bounds
<1>1. Waiting \in 0..2 /\ Waiting' \in 0..2
  BY WaitingBounds DEF Waiting, Ahead
<1>t. rx \in Seq(Sent) /\ air \subseteq Sent
  BY DEF Types
<1>o. \A f \in Sent : Older(f).age = f.age + 1 /\ f.age \in Nat
  BY DEF Older, Sent
<1>2. ASSUME NEW f \in air' PROVE f.age <= MaxAge
  <2>1. CASE f = [src |-> dst, age |-> 0]
    BY <2>1
  <2>2. CASE f # [src |-> dst, age |-> 0]
    <3>1. PICK g \in air : g.age < MaxAge /\ f = Older(g)
      BY <2>2 DEF Sends
    <3> QED
      BY <1>t, <1>o, <3>1
  <2> QED
    BY <2>1, <2>2
<1>3. ASSUME NEW i \in DOMAIN rx' PROVE rx'[i].age + Waiting' <= MaxAge + 2
  <2>1. i \in DOMAIN rx /\ rx'[i] = Older(rx[i])
    BY DEF Sends
  <2>2. rx[i] \in Sent /\ rx[i].age + Waiting <= MaxAge + 2
    BY <1>t, <2>1 DEF Ages
  <2> QED
    BY <1>1, <1>o, <2>1, <2>2
<1>4. ASSUME NEW d \in Displays
      PROVE  pending'[d].age + Waiting' < SeqMod /\ (~pending'[d].on => pending'[d].age = 0)
  <2>1. /\ pending[d] \in [on : BOOLEAN, age : Nat]
        /\ pending[d].age + Waiting < SeqMod /\ (~pending[d].on => pending[d].age = 0)
    BY DEF Types, Ages
  <2>2. CASE pending'[d] = [on |-> TRUE, age |-> 0]
    BY <1>1, <2>2
  <2>3. CASE pending'[d] = Aged[d] /\ pending[d].on
    <3>1. pending'[d] = [pending[d] EXCEPT !.age = @ + 1]
      BY <2>3 DEF Aged
    <3>2. pending'[d].age = pending[d].age + 1 /\ pending'[d].on = pending[d].on
      BY <2>1, <3>1
    <3> QED
      BY <1>1, <2>1, <2>3, <3>2
  <2>4. CASE pending'[d] = Aged[d] /\ ~pending[d].on
    BY <1>1, <2>1, <2>4 DEF Aged
  <2> QED
    BY <2>2, <2>3, <2>4
<1>5. ASSUME NEW d \in Displays PROVE slot'[d].age + Waiting' < SeqMod
  <2>1. slot[d].age + Waiting < SeqMod /\ slot[d] \in Sent \cup {NoFrame}
    BY DEF Types, Ages
  <2>2. CASE slot[d] # NoFrame
    <3>1. slot'[d] = Older(slot[d]) /\ slot[d] \in Sent
      BY <2>1, <2>2 DEF AgedSlot
    <3> QED
      BY <1>1, <1>o, <2>1, <3>1
  <2>3. CASE slot[d] = NoFrame
    BY <1>1, <2>3 DEF AgedSlot, NoFrame
  <2> QED
    BY <2>2, <2>3
<1> QED
  BY <1>2, <1>3, <1>4, <1>5 DEF Ages

\* A task begins to wait only when it is in pace.
LEMMA AgesAhead ==
  ASSUME Types, Ages, InPace, UNCHANGED <<air, rx, pending, slot>>
  PROVE  Ages'
<1> USE Bounds
<1>1. Waiting' \in 0..2
  BY DEF Waiting, Ahead
<1>2. ASSUME NEW i \in DOMAIN rx PROVE rx[i].age \in Nat /\ rx[i].age <= MaxAge
  <2>1. rx[i] \in Sent
    BY DEF Types
  <2> QED
    BY <2>1 DEF InPace, Sent
<1>3. ASSUME NEW d \in Displays
      PROVE  /\ pending[d].age \in Nat /\ (pending[d].on => pending[d].age < SeqMod - 2)
             /\ slot[d].age \in Nat /\ slot[d].age < SeqMod - 2
  BY DEF Types, InPace, Sent, NoFrame
<1> QED
  BY <1>1, <1>2, <1>3 DEF Ages

LEMMA AgesInit == Init => Ages
BY Bounds, TasksAssumption, WaitingBounds DEF Init, Ages, NotPending, NoFrame

LEMMA AgesStep == Types /\ Held /\ Ages /\ [Next]_vars => Ages'
<1> SUFFICES ASSUME Types, Held, Ages, [Next]_vars PROVE Ages'
  OBVIOUS
<1> USE TasksAssumption
<1>t. task \in [Tasks -> Request] /\ Loop \in Tasks
  BY DEF Types, Tasks
<1>i. Idle.pc = "idle"
  BY DEF Idle
\* Nothing is sent, and nobody begins to wait.
<1>k. ASSUME Waiting' <= Waiting, UNCHANGED <<air, rx, pending, slot>> PROVE Ages'
  BY <1>k, AgesKept
<1>u. task' = task => Waiting' <= Waiting
  BY WaitingBounds DEF Waiting, Ahead
<1>d. ASSUME NEW t \in Tasks, task' = [task EXCEPT ![t] = Idle] PROVE Waiting' <= Waiting
  BY <1>d, <1>i, <1>t, WaitingFalls
<1>1. CASE Deliver
  <2>1. PICK f \in air : /\ air' = air \ {f} /\ rx' \in {rx, Append(rx, f)}
                         /\ UNCHANGED <<task, pending, slot>>
    BY <1>1 DEF Deliver, async
  <2>2. f \in Sent /\ rx \in Seq(Sent) /\ f.age <= MaxAge
    BY DEF Types, Ages
  <2>3. Waiting' = Waiting /\ Waiting \in 0..2
    BY <2>1, WaitingBounds DEF Waiting, Ahead
  <2>4. ASSUME NEW i \in DOMAIN rx' PROVE rx'[i].age + Waiting' <= MaxAge + 2
    <3>1. CASE i \in DOMAIN rx /\ rx'[i] = rx[i]
      BY <2>3, <3>1 DEF Ages
    <3>2. CASE rx'[i] = f
      BY <2>2, <2>3, <3>2, Bounds DEF Sent
    <3> QED
      BY <2>1, <2>2, <3>1, <3>2
  <2> QED
    BY <2>1, <2>3, <2>4 DEF Ages
<1>2. ASSUME NEW t \in Tasks, NEW m \in Modules, NEW cmd \in {"poll", "fw"}, Call(t, m, cmd)
      PROVE  Ages'
  BY <1>2, AgesAhead DEF Call, link, async
<1>3. ASSUME NEW t \in Tasks, Acquire(t) PROVE Ages'
  <2>1. CASE Refused(t)
    BY <1>3, <1>d, <1>k, <2>1 DEF Acquire, link, async
  <2>2. CASE ~Refused(t)
    <3>1. /\ task[t].pc = "lock" /\ Sends(task[t].dst) /\ pending' = Aged /\ slot' = AgedSlot
          /\ task' = [task EXCEPT ![t].pc = "wait", ![t].counts = Counts(task[t].dst, task[t].cmd)]
      BY <1>3, <2>2 DEF Acquire
    <3>2. task[t].dst \in Modules /\ task[t] \in Request
      BY <1>t, <3>1 DEF Held, Holds
    <3>3. Waiting' = Waiting - 1
      <4> DEFINE r == [task[t] EXCEPT !.pc = "wait", !.counts = Counts(task[t].dst, task[t].cmd)]
      <4>1. task' = [task EXCEPT ![t] = r] /\ r.pc = "wait"
        BY <3>1, <3>2 DEF Request
      <4> HIDE DEF r
      <4> QED
        BY <1>t, <3>1, <4>1, WaitingFalls
    <3> QED
      BY <3>1, <3>2, <3>3, AgesSent
  <2> QED
    BY <2>1, <2>2
<1>4. ASSUME NEW t \in Tasks, LockTimesOut(t) \/ CallbacksEnd(t) PROVE Ages'
  BY <1>4, <1>d, <1>k DEF LockTimesOut, CallbacksEnd, link, async
\* What captures does to the slots.
<1>c. ASSUME rx # <<>>, Captures(Head(rx)), NEW d \in Displays
      PROVE  slot'[d] = slot[d] \/ slot'[d] = Head(rx)
  <2>1. slot \in [Displays -> Sent \cup {NoFrame}]
    BY DEF Types
  <2> QED
    BY <1>c, <2>1 DEF Captures
\* A task goes on with its wait.
<1>w. ASSUME \A u \in Tasks : task'[u].pc = task[u].pc \/ task'[u].pc = "drain"
      PROVE  Waiting' <= Waiting
  BY <1>w DEF Waiting, Ahead, Tasks
<1>5. ASSUME NEW t \in Tasks, Poll(t) PROVE Ages'
  <2>1. rx # <<>> /\ rx' = Tail(rx) /\ air' = air /\ pending' = pending
    BY <1>5 DEF Poll
  <2>2. CASE Matches(Head(rx), task[t].dst, 0)
    BY <1>5, <1>d, <2>1, <2>2, AgesKept DEF Poll
  <2>3. CASE ~Matches(Head(rx), task[t].dst, 0)
    <3>1. Captures(Head(rx))
      BY <1>5, <2>3 DEF Poll
    <3>2. ASSUME NEW u \in Tasks PROVE task'[u].pc = task[u].pc
      <4>1. task[u] \in Request /\ task[t] \in Request
        BY <1>t
      <4> QED
        BY <1>5, <1>t, <2>3, <4>1 DEF Poll, Request
    <3>3. Waiting' <= Waiting
      BY <1>w, <3>2
    <3> QED
      BY <1>c, <2>1, <3>1, <3>3, AgesKept
  <2> QED
    BY <2>2, <2>3
<1>6. ASSUME NEW t \in Tasks, PollNothing(t) \/ Deadline(t) PROVE Ages'
  <2>1. ASSUME NEW u \in Tasks PROVE task'[u].pc = task[u].pc \/ task'[u].pc = "drain"
    <3>1. task[u] \in Request
      BY <1>t
    <3>2. CASE u # t
      BY <1>6, <1>t, <3>2 DEF PollNothing, Deadline
    <3>3. CASE u = t /\ PollNothing(t)
      BY <1>t, <3>1, <3>3 DEF PollNothing, Request
    <3>4. CASE u = t /\ Deadline(t)
      BY <1>t, <3>1, <3>4 DEF Deadline, Request
    <3> QED
      BY <1>6, <3>2, <3>3, <3>4
  <2>2. Waiting' <= Waiting
    BY <1>w, <2>1
  <2> QED
    BY <1>6, <1>k, <2>2 DEF PollNothing, Deadline, link, async
<1>7. ASSUME NEW t \in Tasks, GiveUp(t) PROVE Ages'
  <2>1. PICK r : task' = [task EXCEPT ![t] = r] /\ r.pc \in {"idle", "offline"}
    <3>1. [Idle EXCEPT !.pc = "offline"].pc = "offline"
      BY DEF Idle
    <3> QED
      BY <1>7, <1>i, <3>1 DEF GiveUp
  <2>2. Waiting' <= Waiting
    BY <1>t, <2>1, WaitingFalls
  <2> QED
    BY <1>7, <1>k, <2>2 DEF GiveUp, link, async
<1>8. ASSUME NEW d \in Displays, StartAsync(d) PROVE Ages'
  BY <1>8, AgesAhead DEF StartAsync, link, async
<1>9. CASE SendAsync
  <2>1. task[Loop].pc = "start" /\ task' = [task EXCEPT ![Loop] = Idle]
    BY <1>9 DEF SendAsync
  <2>2. CASE lock = "none"
    <3>1. /\ Sends(task[Loop].dst) /\ slot' = AgedSlot
          /\ pending' = [Aged EXCEPT ![task[Loop].dst] = [on |-> TRUE, age |-> 0]]
      BY <1>9, <2>2 DEF SendAsync
    <3>2. task[Loop].dst \in Modules
      BY <1>t, <2>1 DEF Held, Holds, Modules
    <3>3. Waiting' = Waiting - 1
      BY <1>i, <1>t, <2>1, WaitingFalls
    <3>4. \A d \in Displays : pending'[d] = Aged[d] \/ pending'[d] = [on |-> TRUE, age |-> 0]
      BY <3>1 DEF Aged
    <3> QED
      BY <3>1, <3>2, <3>3, <3>4, AgesSent
  <2>3. CASE lock # "none"
    BY <1>9, <1>d, <1>k, <1>t, <2>3 DEF SendAsync, link, async
  <2> QED
    BY <2>2, <2>3
<1>10. CASE Drain
  <2>1. /\ rx # <<>> /\ rx' = Tail(rx) /\ Captures(Head(rx))
        /\ air' = air /\ pending' = pending /\ task' = task
    BY <1>10 DEF Drain
  <2> QED
    BY <1>c, <1>u, <2>1, AgesKept
<1>11. CASE ServiceCaptured
  <2>1. Waiting' <= Waiting
    <3>1. [Idle EXCEPT !.pc = "expire"].pc = "expire"
      BY DEF Idle
    <3> QED
      BY <1>11, <1>t, <3>1, WaitingFalls DEF ServiceCaptured
  <2> QED
    BY <1>11, <2>1, AgesKept DEF ServiceCaptured, link
<1>12. ASSUME NEW d \in Displays, ServiceExpire(d) PROVE Ages'
  <2>1. pending' = [pending EXCEPT ![d] = NotPending] /\ UNCHANGED <<air, rx, slot>>
    BY <1>12 DEF ServiceExpire, link
  <2>2. \A k \in Displays : pending'[k] = pending[k] \/ pending'[k] = NotPending
    BY <2>1 DEF Types
  <2>3. PICK r : task' = [task EXCEPT ![Loop] = r] /\ r.pc \in {"idle", "miss"}
    <3>1. [Idle EXCEPT !.pc = "miss", !.dst = d].pc = "miss"
      BY DEF Idle
    <3> QED
      BY <1>12, <1>i, <3>1 DEF ServiceExpire
  <2>4. Waiting' <= Waiting
    BY <1>t, <2>3, WaitingFalls
  <2> QED
    BY <2>1, <2>2, <2>4, AgesKept
<1>18. CASE ServiceMiss
  <2>1. PICK r : task' = [task EXCEPT ![Loop] = r] /\ r.pc \in {"idle", "offline"}
    <3>1. [Idle EXCEPT !.pc = "offline"].pc = "offline"
      BY DEF Idle
    <3> QED
      BY <1>18, <1>i, <3>1 DEF ServiceMiss
  <2>2. Waiting' <= Waiting
    BY <1>t, <2>1, WaitingFalls
  <2> QED
    BY <1>18, <1>k, <2>2 DEF ServiceMiss, link, async
<1>13. CASE ServiceEnds
  BY <1>13, <1>d, <1>k, <1>t DEF ServiceEnds, link, async
<1>14. ASSUME NEW m \in Modules, moduleFwBegin(m) PROVE Ages'
  <2>1. \A k \in Displays : pending'[k] = pending[k] \/ pending'[k] = NotPending
    BY <1>14 DEF moduleFwBegin, Reserve
  <2> QED
    BY <1>14, <1>u, <2>1, AgesKept DEF moduleFwBegin, link
<1>15. ASSUME NEW m \in Modules, RecoveryEnds(m) PROVE Ages'
  BY <1>15, <1>k, <1>u DEF RecoveryEnds, link, async
<1>16. CASE moduleFwEnd \/ moduleFwAbort
  BY <1>16, <1>k, <1>u DEF moduleFwEnd, moduleFwAbort, link, async
<1>17. CASE UNCHANGED vars
  BY <1>17, <1>k, <1>u DEF vars, link, async
<1> QED
  BY <1>1, <1>2, <1>3, <1>4, <1>5, <1>6, <1>7, <1>8, <1>9, <1>10, <1>11, <1>12, <1>13, <1>14,
     <1>15, <1>16, <1>17, <1>18 DEF Next, Requests

(***************************************************************************)
(* Whose answer a request takes.                                           *)
(***************************************************************************)

LEMMA Residue ==
  ASSUME NEW a \in Nat, a < SeqMod
  PROVE  a % SeqMod = a
BY Bounds

\* Two frames in the buffer or requests pending with the same sequence number have the
\* same age.
LEMMA SameAge ==
  ASSUME NEW a \in Nat, NEW b \in Nat, a < SeqMod, b < SeqMod, a % SeqMod = b % SeqMod
  PROVE  a = b
BY Residue

\* Who captures the first frame of the buffer had asked for it.
LEMMA CaptureIsOwn ==
  ASSUME Types, Ages, rx # <<>>, Captures(Head(rx)),
         NEW d \in Displays, slot[d] = NoFrame, slot'[d] # NoFrame
  PROVE  slot'[d].age = pending[d].age
<1> USE Bounds
<1>1. 1 \in DOMAIN rx /\ Head(rx) = rx[1] /\ rx[1] \in Sent
  BY DEF Types
<1>2. slot'[d] = Head(rx) /\ Matches(Head(rx), d, pending[d].age)
  BY <1>1 DEF Captures, Types
<1>3. Head(rx).age \in Nat /\ Head(rx).age < SeqMod
  <2>1. rx[1].age + Waiting <= MaxAge + 2 /\ Waiting \in 0..2
    BY <1>1, WaitingBounds DEF Ages
  <2> QED
    BY <1>1, <2>1 DEF Sent
<1>4. pending[d].age \in Nat /\ pending[d].age < SeqMod
  <2>1. pending[d].age + Waiting < SeqMod /\ Waiting \in 0..2 /\ pending[d].age \in Nat
    BY WaitingBounds DEF Ages, Types
  <2> QED
    BY <2>1
<1> QED
  BY <1>2, <1>3, <1>4, SameAge DEF Matches

\* A request that ends before its time is over took the frame of its age.
LEMMA AnswerIsOwn ==
  ASSUME Types, Held, Ages, [Next]_vars,
         NEW t \in Tasks, lock = t, lock' # t, ~Spent(t)
  PROVE  Head(rx).age = 0
<1> USE Bounds, TasksAssumption
<1>h. \A u \in Tasks : Holds(u)
  BY DEF Held
<1>p. task[t].pc \in {"wait", "drain"}
  BY <1>h DEF Holds
<1>1. ASSUME NEW u \in Tasks, Poll(u) PROVE Head(rx).age = 0
  <2>1. u = t /\ rx # <<>> /\ Matches(Head(rx), task[u].dst, 0)
    BY <1>1 DEF Poll
  <2>2. 1 \in DOMAIN rx /\ Head(rx) = rx[1] /\ rx[1] \in Sent
    BY <2>1 DEF Types
  <2>3. rx[1].age + Waiting <= MaxAge + 2 /\ Waiting \in 0..2
    BY <2>2, WaitingBounds DEF Ages
  <2>4. Head(rx).age \in Nat /\ Head(rx).age < SeqMod /\ 0 < SeqMod
    BY <2>2, <2>3 DEF Sent
  <2> QED
    BY <2>1, <2>4, SameAge DEF Matches
<1>2. ASSUME NEW u \in Tasks, \/ Acquire(u) \/ LockTimesOut(u) \/ PollNothing(u)
                              \/ Deadline(u) \/ GiveUp(u) \/ CallbacksEnd(u)
      PROVE  FALSE
  BY <1>2, <1>h, <1>p DEF Acquire, LockTimesOut, PollNothing, Deadline, GiveUp, CallbacksEnd,
                          Spent, Holds
<1>3. lock' = lock => FALSE
  OBVIOUS
<1> QED
  BY <1>1, <1>2, <1>3 DEF Next, Requests, Deliver, Call, StartAsync, ServiceExpire, SendAsync,
     Drain, ServiceCaptured, ServiceMiss, ServiceEnds, moduleFwBegin, RecoveryEnds, moduleFwEnd,
     moduleFwAbort, vars

\* Only who takes frames from the buffer captures.
LEMMA CapturesOwn ==
  ASSUME Types, Held, Ages, [Next]_vars,
         NEW d \in Displays, slot[d] = NoFrame, slot'[d] # NoFrame
  PROVE  slot'[d].age = pending[d].age
<1>1. ASSUME NEW t \in Tasks, Poll(t) PROVE slot'[d].age = pending[d].age
  <2>1. rx # <<>> /\ Captures(Head(rx))
    BY <1>1 DEF Poll
  <2> QED
    BY <2>1, CaptureIsOwn
<1>2. CASE Drain
  <2>1. rx # <<>> /\ Captures(Head(rx))
    BY <1>2 DEF Drain
  <2> QED
    BY <2>1, CaptureIsOwn
<1>3. slot' = slot \/ slot' = AgedSlot \/ slot'[d] = NoFrame => FALSE
  BY DEF AgedSlot
<1>4. ASSUME NEW t \in Tasks, \/ Acquire(t) \/ LockTimesOut(t) \/ PollNothing(t)
                              \/ Deadline(t) \/ GiveUp(t) \/ CallbacksEnd(t)
      PROVE  FALSE
  BY <1>3, <1>4 DEF Acquire, LockTimesOut, PollNothing, Deadline, GiveUp, CallbacksEnd, async
<1>5. CASE SendAsync \/ ServiceCaptured \/ ServiceMiss \/ ServiceEnds
  BY <1>3, <1>5 DEF SendAsync, ServiceCaptured, ServiceMiss, ServiceEnds, async
<1> QED
  BY <1>1, <1>2, <1>3, <1>4, <1>5 DEF Next, Requests, Deliver, Call, StartAsync, ServiceExpire,
     moduleFwBegin, RecoveryEnds, moduleFwEnd, moduleFwAbort, async, vars

(***************************************************************************)
(* The theorems.                                                           *)
(***************************************************************************)

Inv == Types /\ Held /\ TargetIsQuiet /\ Reachable /\ Ages

LEMMA QuietInit == Init => TargetIsQuiet
BY DEF Init, TargetIsQuiet, Idle

\* The invariant the theorems rest on holds: types, who holds the bus, the target of an
\* update left alone, the answers in reach of the last polls, and the bounds of the ages.
THEOREM Invariant == Spec => []Inv
<1>1. Init => Inv
  BY TypesInit, HeldInit, QuietInit, ReachableInit, AgesInit DEF Inv
<1>2. Inv /\ [Next]_vars => Inv'
  BY TypesStep, HeldStep, QuietStep, ReachableStep, AgesStep DEF Inv
<1> QED
  BY <1>1, <1>2, PTL DEF Spec, Safety

\* The variables have their types; no frame, pending request or captured answer is as old
\* as the sequence numbers are many.
THEOREM TypeCorrect == Spec => []TypeOK
<1>1. Inv => TypeOK
  <2> SUFFICES ASSUME Inv PROVE TypeOK
    OBVIOUS
  <2> USE Bounds
  <2>1. Types /\ Ages /\ Waiting \in 0..2
    BY WaitingBounds DEF Inv
  <2>2. ASSUME NEW f \in Sent, f.age < SeqMod PROVE f \in Frame
    BY <2>2 DEF Sent, Frame
  <2>3. air \subseteq Frame
    <3>1. ASSUME NEW f \in air PROVE f \in Frame
      <4>1. f \in Sent /\ f.age \in Nat /\ f.age <= MaxAge
        BY <2>1 DEF Types, Ages, Sent
      <4> QED
        BY <2>2, <4>1
    <3> QED
      BY <3>1
  <2>4. rx \in Seq(Frame)
    <3>1. ASSUME NEW i \in DOMAIN rx PROVE rx[i] \in Frame
      <4>1. rx[i] \in Sent /\ rx[i].age + Waiting <= MaxAge + 2
        BY <2>1 DEF Types, Ages
      <4>2. rx[i].age < SeqMod
        BY <2>1, <4>1 DEF Sent
      <4> QED
        BY <2>2, <4>1, <4>2
    <3> QED
      BY <2>1, <3>1 DEF Types
  <2>5. ASSUME NEW d \in Displays
        PROVE  pending[d].age < SeqMod /\ slot[d] \in Frame \cup {NoFrame}
    <3>1. /\ pending[d].age \in Nat /\ pending[d].age + Waiting < SeqMod
          /\ slot[d] \in Sent \cup {NoFrame} /\ slot[d].age + Waiting < SeqMod
      BY <2>1 DEF Types, Ages
    <3>2. CASE slot[d] \in Sent
      <4>1. slot[d].age < SeqMod
        BY <2>1, <3>1, <3>2 DEF Sent
      <4> QED
        BY <2>1, <2>2, <3>1, <3>2, <4>1
    <3> QED
      BY <2>1, <3>1, <3>2
  <2>6. \A t \in Tasks : /\ task[t].pc \in {"idle", "lock", "wait", "drain", "offline", "start", "expire", "miss"}
                         /\ task[t].dst \in Modules \cup {"none"}
                         /\ task[t].left \in 0..FinalPolls
    BY <2>1 DEF Types, Request
  <2> QED
    BY <2>1, <2>3, <2>4, <2>5, <2>6 DEF Types, TypeOK
<1> QED
  BY <1>1, Invariant, PTL

\* No order of requests, answers and updates makes a request other than the update's own
\* wait for the module that is being updated.
THEOREM QuietCorrect == Spec => []TargetIsQuiet
<1>1. Inv => TargetIsQuiet
  BY DEF Inv
<1> QED
  BY <1>1, Invariant, PTL

\* However many frames come before it, an answer the last polls can reach is accepted.
THEOREM InTimeCorrect == Spec => []InTimeIsAccepted
<1>1. Inv => InTimeIsAccepted
  BY DEF Inv, Reachable, InReach, InTimeIsAccepted, Spent
<1> QED
  BY <1>1, Invariant, PTL

\* Neither task can block itself on the bus.
THEOREM NoSelfWait == Spec => []NeverWaitsForItself
<1>1. Inv => NeverWaitsForItself
  BY DEF Inv, Held, Holds, NeverWaitsForItself
<1> QED
  BY <1>1, Invariant, PTL

\* A module that is being updated stays online, whatever is lost meanwhile, but for an
\* asynchronous request that was found expired before the update began.
THEOREM UpdateKeepsCorrect == Spec => UpdateKeepsOnline
<1>1. Inv /\ [Next]_vars
        => [/\ \A m \in Modules : fw = m /\ fw' = m /\ online[m]
                                  => online'[m] \/ (task[Loop].pc = "miss" /\ task[Loop].dst = m)
            /\ task[Loop].pc # "miss" /\ task'[Loop].pc = "miss" => task'[Loop].dst # fw]_vars
  BY KeepsOnlineStep, MissStep DEF Inv
<1> QED
  BY <1>1, Invariant, PTL DEF Spec, Safety, UpdateKeepsOnline

\* For any modulus greater than what can be under way by three, no request takes the
\* answer to another one, and no asynchronous request is given one.
THEOREM AnswersCorrect == Spec => AnswersAreOwn
<1>1. Inv /\ [Next]_vars
        => [/\ \A t \in Tasks : lock = t /\ lock' # t /\ ~Spent(t) => Head(rx).age = 0
            /\ \A d \in Displays : slot[d] = NoFrame /\ slot'[d] # NoFrame
                                     => slot'[d].age = pending[d].age]_vars
  BY AnswerIsOwn, CapturesOwn DEF Inv
<1> QED
  BY <1>1, Invariant, PTL DEF Spec, Safety, AnswersAreOwn
================================================================================
