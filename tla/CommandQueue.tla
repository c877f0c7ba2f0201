---------------------------- MODULE CommandQueue ----------------------------
(***************************************************************************)
(* MasterCommandQueue.inc.h: how the web and MQTT tasks have the loop task *)
(* run their commands.  A caller puts a pointer to a request on its own    *)
(* stack into one of two queues, the critical one for commands that switch *)
(* something off, and waits on a semaphore until the loop has executed it. *)
(* Each round of the loop serves some critical commands, then some normal  *)
(* ones, and then does everything else (MasterLoop.inc.h).                 *)
(*                                                                         *)
(* The commands of the model switch one output of one module, which        *)
(* answers, on or off.                                                     *)
(***************************************************************************)
EXTENDS Naturals, Sequences, FiniteSets

CONSTANTS
  Clients,         \* the tasks that submit commands
  Length,          \* MASTER_COMMAND_QUEUE_LENGTH: 16
  CriticalQuota,   \* critical commands of a round: 4
  NormalQuota,     \* normal commands of a round: 2
  Nobody           \* no client

ASSUME QueueAssumption ==
  /\ Length \in Nat \ {0}
  /\ CriticalQuota \in Nat \ {0} /\ NormalQuota \in Nat \ {0}
  /\ IsFiniteSet(Clients) /\ Cardinality(Clients) <= CriticalQuota
  /\ Nobody \notin Clients

VARIABLES
  pc,              \* client: "idle", "sending", "waiting" or "answered"
  command,         \* client: the request on its stack
  normal,          \* master_command_queue_normal
  critical,        \* master_command_queue_critical
  loop,            \* the loop: which queue it serves, and how often it still may
  executing,       \* the client whose request the loop has received
  output,          \* the output that the commands switch
  overtaken        \* auxiliary: normal commands begun since a client has queued

clients == <<pc, command>>
queues == <<normal, critical>>
queueVars == <<clients, queues, loop, executing, output, overtaken>>

Commands == {"on", "off"}
Effect(cmd) == cmd = "on"
isCritical(cmd) == cmd = "off"

Pending(c) == pc[c] \in {"sending", "waiting"}
Queue(c) == IF isCritical(command[c]) THEN critical ELSE normal
InQueue(c, q) == \E i \in 1 .. Len(q) : q[i] = c

-----------------------------------------------------------------------------
TypeOK ==
  /\ pc \in [Clients -> {"idle", "sending", "waiting", "answered"}]
  /\ command \in [Clients -> Commands]
  /\ normal \in Seq(Clients) /\ Len(normal) <= Length
  /\ critical \in Seq(Clients) /\ Len(critical) <= Length
  /\ loop \in [serves : {"critical", "normal", "rest"}, left : 0 .. CriticalQuota + NormalQuota]
  /\ executing \in Clients \cup {Nobody}
  /\ output \in BOOLEAN
  /\ overtaken \in [Clients -> Nat]

Rest == [serves |-> "rest", left |-> 0]

InitQueue ==
  /\ pc = [c \in Clients |-> "idle"]
  /\ command \in [Clients -> Commands]
  /\ normal = <<>> /\ critical = <<>>
  /\ loop = Rest
  /\ executing = Nobody
  /\ output = FALSE
  /\ overtaken = [c \in Clients |-> 0]

-----------------------------------------------------------------------------
(***************************************************************************)
(* A client in master_command_submit.                                      *)
(***************************************************************************)
Submit(c, cmd) ==
  /\ pc[c] = "idle"
  /\ pc' = [pc EXCEPT ![c] = "sending"]
  /\ command' = [command EXCEPT ![c] = cmd]
  /\ overtaken' = [overtaken EXCEPT ![c] = 0]
  /\ UNCHANGED <<queues, loop, executing, output>>

\* All commands go through one queue.
EnqueueNormal(c) ==
  /\ normal' = Append(normal, c)
  /\ UNCHANGED critical

Enqueue(c) ==
  IF isCritical(command[c])
  THEN critical' = Append(critical, c) /\ UNCHANGED normal
  ELSE normal' = Append(normal, c) /\ UNCHANGED critical

\* Also when the queue is full.
SendUnbounded(c) ==
  /\ pc[c] = "sending"
  /\ Enqueue(c)
  /\ pc' = [pc EXCEPT ![c] = "waiting"]
  /\ UNCHANGED <<command, loop, executing, output, overtaken>>

\* xQueueSend, as soon as there is room.
Send(c) ==
  /\ pc[c] = "sending"
  /\ Len(Queue(c)) < Length
  /\ Enqueue(c)
  /\ pc' = [pc EXCEPT ![c] = "waiting"]
  /\ UNCHANGED <<command, loop, executing, output, overtaken>>

\* The queue stayed full for 250 ms: submit returns false.
SendTimesOut(c) ==
  /\ pc[c] = "sending"
  /\ Len(Queue(c)) >= Length
  /\ pc' = [pc EXCEPT ![c] = "idle"]
  /\ UNCHANGED <<command, queues, loop, executing, output, overtaken>>

\* Also while the request is still in the queue.
ReturnsEarly(c) ==
  /\ pc[c] \in {"waiting", "answered"}
  /\ pc' = [pc EXCEPT ![c] = "idle"]
  /\ UNCHANGED <<command, queues, loop, executing, output, overtaken>>

\* The semaphore was given; the request on the stack ends with the call.
Return(c) ==
  /\ pc[c] = "answered"
  /\ pc' = [pc EXCEPT ![c] = "idle"]
  /\ UNCHANGED <<command, queues, loop, executing, output, overtaken>>

-----------------------------------------------------------------------------
(***************************************************************************)
(* The loop.                                                               *)
(***************************************************************************)
StartRound ==
  /\ loop = Rest
  /\ loop' = [serves |-> "critical", left |-> CriticalQuota]
  /\ UNCHANGED <<clients, queues, executing, output, overtaken>>

Served == IF loop.serves = "critical" THEN critical ELSE normal

\* Critical commands are served until there are none left.
WithoutQuota == loop.serves = "critical" \/ loop.left > 0
\* Normal commands are served until there are none left.
NormalWithoutQuota == loop.serves = "normal" \/ loop.left > 0
WithinQuota == loop.left > 0
MayServe == loop.serves # "rest" /\ WithinQuota /\ Served # <<>>
LeftAfter == IF loop.left > 0 THEN loop.left - 1 ELSE 0

\* master_command_process_one: xQueueReceive.
Receive ==
  /\ executing = Nobody
  /\ MayServe
  /\ executing' = Head(Served)
  /\ loop' = [loop EXCEPT !.left = LeftAfter]
  /\ IF loop.serves = "critical"
     THEN /\ critical' = Tail(critical)
          /\ UNCHANGED <<normal, overtaken>>
     ELSE /\ normal' = Tail(normal)
          /\ overtaken' = [c \in Clients |->
               IF pc[c] = "waiting" /\ c # Head(normal) THEN overtaken[c] + 1 ELSE overtaken[c]]
          /\ UNCHANGED critical
  /\ UNCHANGED <<clients, output>>

\* master_command_execute, then the semaphore is given.
Execute ==
  LET c == executing
  IN /\ c # Nobody
     /\ output' = Effect(command[c])
     /\ pc' = [pc EXCEPT ![c] = "answered"]
     /\ executing' = Nobody
     /\ UNCHANGED <<command, queues, loop, overtaken>>

\* The quota is used up or the queue is empty: the normal queue, then the rest of
\* the round.
NextQueue ==
  /\ executing = Nobody
  /\ loop.serves # "rest" /\ ~MayServe
  /\ loop' = IF loop.serves = "critical"
             THEN [serves |-> "normal", left |-> NormalQuota] ELSE Rest
  /\ UNCHANGED <<clients, queues, executing, output, overtaken>>

\* A command of the loop itself, from the serial console or the Boolean logic, is
\* executed where it is submitted.
Direct(cmd) ==
  /\ loop = Rest
  /\ output' = Effect(cmd)
  /\ UNCHANGED <<clients, queues, loop, executing, overtaken>>

-----------------------------------------------------------------------------
Client(c) ==
  \/ \E cmd \in Commands : Submit(c, cmd)
  \/ Send(c)
  \/ SendTimesOut(c)
  \/ Return(c)

Loop ==
  \/ StartRound
  \/ Receive
  \/ Execute
  \/ NextQueue
  \/ \E cmd \in Commands : Direct(cmd)

NextStep ==
  \/ \E c \in Clients : Client(c)
  \/ Loop

Safety == InitQueue /\ [][NextStep]_queueVars

\* The loop goes round and round; a task that can go on does.
Fairness ==
  /\ WF_queueVars(StartRound) /\ WF_queueVars(Receive)
  /\ WF_queueVars(Execute) /\ WF_queueVars(NextQueue)
  /\ \A c \in Clients :
       WF_queueVars(Send(c) \/ SendTimesOut(c)) /\ WF_queueVars(Return(c))

Spec == Safety /\ Fairness

-----------------------------------------------------------------------------
\* The clients whose requests the loop can still reach wait.
PointersWait ==
  \A c \in Clients : InQueue(c, normal) \/ InQueue(c, critical) \/ executing = c
                        => pc[c] = "waiting"

Distinct(q) == \A i, j \in 1 .. Len(q) : q[i] = q[j] => i = j

\* No request is in two places.
PointersDiffer ==
  /\ Distinct(normal) /\ Distinct(critical)
  /\ \A c \in Clients :
       /\ ~(InQueue(c, normal) /\ InQueue(c, critical))
       /\ executing = c => ~InQueue(c, normal) /\ ~InQueue(c, critical)

\* A pointer that the loop may still follow leads to the stack of a task that
\* still waits in master_command_submit, and to a request no other pointer leads
\* to: no command is executed twice or after its caller has gone on.
PointersAreLive == PointersWait /\ PointersDiffer

\* A command that switches something off waits for no more normal commands than
\* one round serves, however many are queued.
OffIsPrompt ==
  \A c \in Clients : pc[c] = "waiting" /\ isCritical(command[c]) => overtaken[c] <= NormalQuota

\* The queue implements the calls of RemoteCall: served once or refused without
\* effect, and every call returns.
Calls == INSTANCE RemoteCall WITH
  status <- [c \in Clients |->
    CASE Pending(c) -> "called" [] pc[c] = "answered" -> "served" [] pc[c] = "idle" -> "idle"]
ImplementsCalls == Calls!Spec

=============================================================================
