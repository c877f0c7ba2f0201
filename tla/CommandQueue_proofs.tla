------------------------- MODULE CommandQueue_proofs -------------------------
(***************************************************************************)
(* What TLAPS proves about CommandQueue, for any number of clients, any    *)
(* length of the queues and any quota of a round.                          *)
(***************************************************************************)
EXTENDS CommandQueue, FiniteSetTheorems, TLAPS

(***************************************************************************)
(* Types.                                                                  *)
(***************************************************************************)

\* Every step of a client or of the loop keeps the types and the queues within
\* their length.
LEMMA TypeStep == TypeOK /\ [NextStep]_queueVars => TypeOK'
<1> SUFFICES ASSUME TypeOK, [NextStep]_queueVars PROVE TypeOK'
  OBVIOUS
<1> USE QueueAssumption DEF TypeOK, Commands, clients, queues
<1>1. ASSUME NEW c \in Clients, NEW cmd \in Commands, Submit(c, cmd)
      PROVE  TypeOK'
  BY <1>1 DEF Submit
<1>2. ASSUME NEW c \in Clients, Send(c)
      PROVE  TypeOK'
  <2>1. Len(Queue(c)) < Length /\ Queue(c) \in {normal, critical}
    BY <1>2 DEF Send, Queue
  <2>2. CASE isCritical(command[c])
    <3>1. critical' = Append(critical, c) /\ normal' = normal /\ Len(critical) < Length
      BY <1>2, <2>2 DEF Send, Enqueue, Queue
    <3>2. critical' \in Seq(Clients) /\ Len(critical') <= Length
      BY <3>1
    <3> QED
      BY <1>2, <3>1, <3>2 DEF Send
  <2>3. CASE ~isCritical(command[c])
    <3>1. normal' = Append(normal, c) /\ critical' = critical /\ Len(normal) < Length
      BY <1>2, <2>3 DEF Send, Enqueue, Queue
    <3>2. normal' \in Seq(Clients) /\ Len(normal') <= Length
      BY <3>1
    <3> QED
      BY <1>2, <3>1, <3>2 DEF Send
  <2> QED
    BY <2>2, <2>3
<1>3. ASSUME NEW c \in Clients, SendTimesOut(c) \/ Return(c)
      PROVE  TypeOK'
  <2>1. pc' \in [Clients -> {"idle", "sending", "waiting", "answered"}]
    BY <1>3 DEF SendTimesOut, Return
  <2> QED
    BY <1>3, <2>1 DEF SendTimesOut, Return
<1>4. CASE StartRound
  BY <1>4 DEF StartRound
<1>5. CASE Receive
  <2>1. loop' \in [serves : {"critical", "normal", "rest"}, left : 0 .. CriticalQuota + NormalQuota]
    <3>1. LeftAfter \in 0 .. CriticalQuota + NormalQuota
      BY DEF LeftAfter
    <3>2. loop' = [loop EXCEPT !.left = LeftAfter]
      BY <1>5 DEF Receive
    <3> QED
      BY <3>1, <3>2
  <2>2. CASE loop.serves = "critical"
    <3>1. critical # <<>> /\ critical' = Tail(critical) /\ executing' = Head(critical)
      BY <1>5, <2>2 DEF Receive, MayServe, Served
    <3>2. critical' \in Seq(Clients) /\ Len(critical') <= Length /\ executing' \in Clients
      BY <3>1
    <3> QED
      BY <1>5, <2>1, <2>2, <3>2 DEF Receive
  <2>3. CASE loop.serves # "critical"
    <3>1. normal # <<>> /\ normal' = Tail(normal) /\ executing' = Head(normal)
      BY <1>5, <2>3 DEF Receive, MayServe, Served
    <3>2. normal' \in Seq(Clients) /\ Len(normal') <= Length /\ executing' \in Clients
      BY <3>1
    <3>3. overtaken' \in [Clients -> Nat]
      <4>1. overtaken' = [c \in Clients |->
              IF pc[c] = "waiting" /\ c # Head(normal) THEN overtaken[c] + 1 ELSE overtaken[c]]
        BY <1>5, <2>3 DEF Receive
      <4> QED
        BY <4>1
    <3> QED
      BY <1>5, <2>1, <2>3, <3>2, <3>3 DEF Receive
  <2> QED
    BY <2>2, <2>3
<1>6. CASE Execute
  BY <1>6 DEF Execute, Effect
<1>7. CASE NextQueue
  BY <1>7 DEF NextQueue, Rest
<1>8. ASSUME NEW cmd \in Commands, Direct(cmd)
      PROVE  TypeOK'
  BY <1>8 DEF Direct, Effect
<1>9. CASE UNCHANGED queueVars
  BY <1>9 DEF queueVars
<1> QED
  BY <1>1, <1>2, <1>3, <1>4, <1>5, <1>6, <1>7, <1>8, <1>9 DEF NextStep, Client, Loop

\* The queues hold clients only and never more than MASTER_COMMAND_QUEUE_LENGTH.
THEOREM TypeCorrect == Safety => []TypeOK
<1>1. InitQueue => TypeOK
  <2>1. <<>> \in Seq(Clients) /\ Len(<<>>) = 0
    OBVIOUS
  <2> SUFFICES ASSUME InitQueue PROVE TypeOK
    OBVIOUS
  <2>2. loop \in [serves : {"critical", "normal", "rest"}, left : 0 .. CriticalQuota + NormalQuota]
    BY QueueAssumption DEF InitQueue, Rest
  <2>3. overtaken \in [Clients -> Nat]
    BY DEF InitQueue
  <2>4. normal \in Seq(Clients) /\ Len(normal) <= Length
    BY <2>1, QueueAssumption DEF InitQueue
  <2>5. critical \in Seq(Clients) /\ Len(critical) <= Length
    BY <2>1, QueueAssumption DEF InitQueue
  <2>6. pc \in [Clients -> {"idle", "sending", "waiting", "answered"}]
    BY DEF InitQueue
  <2> QED
    BY <2>2, <2>3, <2>4, <2>5, <2>6 DEF InitQueue, TypeOK
<1>2. TypeOK /\ [NextStep]_queueVars => TypeOK'
  BY TypeStep
<1> QED
  BY <1>1, <1>2, PTL DEF Safety

(***************************************************************************)
(* The pointers.                                                           *)
(***************************************************************************)

\* A queue holds what it held and what is appended.
LEMMA InAppend ==
  ASSUME NEW q \in Seq(Clients), NEW a \in Clients, NEW c
  PROVE  InQueue(c, Append(q, a)) <=> InQueue(c, q) \/ c = a
<1>1. Len(Append(q, a)) = Len(q) + 1
  OBVIOUS
<1>2. Append(q, a)[Len(q) + 1] = a /\ \A i \in 1 .. Len(q) : Append(q, a)[i] = q[i]
  OBVIOUS
<1>3. Len(q) \in Nat
  OBVIOUS
<1> QED
  BY <1>1, <1>2, <1>3 DEF InQueue

\* What is left of a queue when its head is taken.
LEMMA InTail ==
  ASSUME NEW q \in Seq(Clients), q # <<>>, Distinct(q), NEW c
  PROVE  /\ InQueue(Head(q), q)
         /\ InQueue(c, Tail(q)) => InQueue(c, q) /\ c # Head(q)
<1>1. Len(q) \in Nat \ {0} /\ Len(Tail(q)) = Len(q) - 1 /\ Head(q) = q[1]
  OBVIOUS
<1>2. \A i \in 1 .. Len(Tail(q)) : Tail(q)[i] = q[i + 1]
  OBVIOUS
<1>3. InQueue(Head(q), q)
  BY <1>1 DEF InQueue
<1>4. ASSUME NEW i \in 1 .. Len(Tail(q)), Tail(q)[i] = c
      PROVE  InQueue(c, q) /\ c # Head(q)
  <2>1. i + 1 \in 1 .. Len(q) /\ 1 \in 1 .. Len(q) /\ i + 1 # 1
    BY <1>1
  <2>2. q[i + 1] = c
    BY <1>2, <1>4
  <2> QED
    BY <1>1, <2>1, <2>2 DEF InQueue, Distinct
<1> QED
  BY <1>3, <1>4 DEF InQueue

\* Taking the head loses nothing else.
LEMMA TailKeeps ==
  ASSUME NEW q \in Seq(Clients), q # <<>>, NEW c
  PROVE  InQueue(c, q) => InQueue(c, Tail(q)) \/ c = Head(q)
<1>1. Len(q) \in Nat \ {0} /\ Len(Tail(q)) = Len(q) - 1 /\ Head(q) = q[1]
  OBVIOUS
<1>2. \A i \in 1 .. Len(Tail(q)) : Tail(q)[i] = q[i + 1]
  OBVIOUS
<1>3. ASSUME NEW i \in 1 .. Len(q), q[i] = c, c # Head(q)
      PROVE  InQueue(c, Tail(q))
  <2>1. i - 1 \in 1 .. Len(Tail(q)) /\ (i - 1) + 1 = i
    BY <1>1, <1>3
  <2>2. Tail(q)[i - 1] = c
    BY <1>2, <1>3, <2>1
  <2> QED
    BY <2>1, <2>2 DEF InQueue
<1> QED
  BY <1>3 DEF InQueue

\* A new request keeps a queue distinct, and so does taking the head.
LEMMA DistinctAppend ==
  ASSUME NEW q \in Seq(Clients), Distinct(q), NEW a \in Clients, ~InQueue(a, q)
  PROVE  Distinct(Append(q, a))
<1>1. Len(Append(q, a)) = Len(q) + 1 /\ Len(q) \in Nat
  OBVIOUS
<1>2. Append(q, a)[Len(q) + 1] = a /\ \A i \in 1 .. Len(q) : Append(q, a)[i] = q[i]
  OBVIOUS
<1> QED
  BY <1>1, <1>2 DEF Distinct, InQueue

LEMMA DistinctTail ==
  ASSUME NEW q \in Seq(Clients), q # <<>>, Distinct(q)
  PROVE  Distinct(Tail(q))
<1>1. Len(q) \in Nat \ {0} /\ Len(Tail(q)) = Len(q) - 1
  OBVIOUS
<1>2. \A i \in 1 .. Len(Tail(q)) : Tail(q)[i] = q[i + 1]
  OBVIOUS
<1> SUFFICES ASSUME NEW i \in 1 .. Len(Tail(q)), NEW j \in 1 .. Len(Tail(q)),
                    Tail(q)[i] = Tail(q)[j]
             PROVE  i = j
  BY DEF Distinct
<1>3. i + 1 \in 1 .. Len(q) /\ j + 1 \in 1 .. Len(q) /\ q[i + 1] = q[j + 1]
  BY <1>1, <1>2
<1>4. i + 1 = j + 1
  BY <1>3 DEF Distinct
<1> QED
  BY <1>4

\* A step moves a pointer from a client that starts to wait into one queue, from
\* the head of a queue to the loop, or drops it when its client is answered.
LEMMA PointerStep ==
  TypeOK /\ PointersAreLive /\ [NextStep]_queueVars => PointersAreLive'
<1> SUFFICES ASSUME TypeOK, PointersAreLive, [NextStep]_queueVars
             PROVE  PointersAreLive'
  OBVIOUS
<1>0. /\ pc \in [Clients -> {"idle", "sending", "waiting", "answered"}]
      /\ normal \in Seq(Clients) /\ critical \in Seq(Clients)
      /\ executing \in Clients \cup {Nobody}
      /\ Nobody \notin Clients
  BY QueueAssumption DEF TypeOK
<1>1. ASSUME NEW c \in Clients,
             pc[c] # "waiting", pc'[c] # "waiting",
             \A d \in Clients : d # c => pc'[d] = pc[d],
             UNCHANGED <<normal, critical, executing>>
      PROVE  PointersAreLive'
  <2>1. PointersWait'
    BY <1>1 DEF PointersAreLive, PointersWait, InQueue
  <2>2. PointersDiffer'
    BY <1>1 DEF PointersAreLive, PointersDiffer, Distinct, InQueue
  <2> QED
    BY <2>1, <2>2 DEF PointersAreLive
<1>2. ASSUME NEW c \in Clients, NEW cmd \in Commands, Submit(c, cmd)
      PROVE  PointersAreLive'
  BY <1>0, <1>1, <1>2 DEF Submit, queues
<1>3. ASSUME NEW c \in Clients, SendTimesOut(c) \/ Return(c)
      PROVE  PointersAreLive'
  BY <1>0, <1>1, <1>3 DEF SendTimesOut, Return, queues
<1>4. ASSUME NEW c \in Clients, Send(c)
      PROVE  PointersAreLive'
  <2>1. /\ pc[c] = "sending" /\ pc' = [pc EXCEPT ![c] = "waiting"]
        /\ executing' = executing /\ Enqueue(c)
    BY <1>4 DEF Send
  <2>2. ~InQueue(c, normal) /\ ~InQueue(c, critical) /\ executing # c
    BY <2>1 DEF PointersAreLive, PointersWait
  <2>3. /\ pc'[c] = "waiting"
        /\ \A d \in Clients : d # c => pc'[d] = pc[d]
    BY <1>0, <2>1
  <2>4. CASE isCritical(command[c])
    <3>1. critical' = Append(critical, c) /\ normal' = normal
      BY <2>1, <2>4 DEF Enqueue
    <3>2. /\ \A d \in Clients : InQueue(d, critical') <=> InQueue(d, critical) \/ d = c
          /\ \A d \in Clients : InQueue(d, normal') <=> InQueue(d, normal)
      BY <1>0, <3>1, InAppend
    <3>3. Distinct(critical') /\ Distinct(normal')
      BY <1>0, <2>2, <3>1, DistinctAppend DEF PointersAreLive, PointersDiffer
    <3>4. PointersWait'
      BY <2>1, <2>3, <3>2 DEF PointersAreLive, PointersWait, InQueue
    <3>5. PointersDiffer'
      <4>1. \A d \in Clients : ~(InQueue(d, normal') /\ InQueue(d, critical'))
        BY <2>2, <3>2 DEF PointersAreLive, PointersDiffer
      <4>2. \A d \in Clients : executing' = d => ~InQueue(d, normal') /\ ~InQueue(d, critical')
        BY <2>1, <2>2, <3>2 DEF PointersAreLive, PointersDiffer
      <4> QED
        BY <3>3, <4>1, <4>2 DEF PointersDiffer, Distinct, InQueue
    <3> QED
      BY <3>4, <3>5 DEF PointersAreLive
  <2>5. CASE ~isCritical(command[c])
    <3>1. normal' = Append(normal, c) /\ critical' = critical
      BY <2>1, <2>5 DEF Enqueue
    <3>2. /\ \A d \in Clients : InQueue(d, normal') <=> InQueue(d, normal) \/ d = c
          /\ \A d \in Clients : InQueue(d, critical') <=> InQueue(d, critical)
      BY <1>0, <3>1, InAppend
    <3>3. Distinct(critical') /\ Distinct(normal')
      BY <1>0, <2>2, <3>1, DistinctAppend DEF PointersAreLive, PointersDiffer
    <3>4. PointersWait'
      BY <2>1, <2>3, <3>2 DEF PointersAreLive, PointersWait, InQueue
    <3>5. PointersDiffer'
      <4>1. \A d \in Clients : ~(InQueue(d, normal') /\ InQueue(d, critical'))
        BY <2>2, <3>2 DEF PointersAreLive, PointersDiffer
      <4>2. \A d \in Clients : executing' = d => ~InQueue(d, normal') /\ ~InQueue(d, critical')
        BY <2>1, <2>2, <3>2 DEF PointersAreLive, PointersDiffer
      <4> QED
        BY <3>3, <4>1, <4>2 DEF PointersDiffer, Distinct, InQueue
    <3> QED
      BY <3>4, <3>5 DEF PointersAreLive
  <2> QED
    BY <2>4, <2>5
<1>5. CASE Receive
  <2>1. executing = Nobody /\ executing' = Head(Served) /\ pc' = pc /\ Served # <<>>
    BY <1>5 DEF Receive, MayServe, clients
  <2>2. CASE loop.serves = "critical"
    <3>1. critical # <<>> /\ critical' = Tail(critical) /\ normal' = normal
          /\ executing' = Head(critical)
      BY <1>5, <2>1, <2>2 DEF Receive, Served
    <3>2. /\ InQueue(Head(critical), critical) /\ Head(critical) \in Clients
          /\ \A d \in Clients : InQueue(d, critical') => InQueue(d, critical) /\ d # Head(critical)
          /\ Distinct(critical')
      BY <1>0, <3>1, InTail, DistinctTail DEF PointersAreLive, PointersDiffer
    <3>3. \A d \in Clients : InQueue(d, normal') <=> InQueue(d, normal)
      BY <3>1
    <3>4. PointersWait'
      <4>1. \A d \in Clients : InQueue(d, normal) \/ InQueue(d, critical) => pc'[d] = "waiting"
        BY <2>1 DEF PointersAreLive, PointersWait
      <4>2. \A d \in Clients : InQueue(d, normal') \/ InQueue(d, critical') \/ executing' = d
                                 => pc'[d] = "waiting"
        BY <3>1, <3>2, <3>3, <4>1
      <4> QED
        BY <4>2 DEF PointersWait, InQueue
    <3>5. PointersDiffer'
      <4>1. Distinct(normal')
        BY <3>1 DEF PointersAreLive, PointersDiffer
      <4>2. \A d \in Clients : ~(InQueue(d, normal) /\ InQueue(d, critical))
        BY DEF PointersAreLive, PointersDiffer
      <4>3. \A d \in Clients : ~(InQueue(d, normal') /\ InQueue(d, critical'))
        BY <3>2, <3>3, <4>2
      <4>4. \A d \in Clients : executing' = d => ~InQueue(d, normal') /\ ~InQueue(d, critical')
        BY <3>1, <3>2, <3>3, <4>2
      <4> QED
        BY <3>2, <4>1, <4>3, <4>4 DEF PointersDiffer, Distinct, InQueue
    <3> QED
      BY <3>4, <3>5 DEF PointersAreLive
  <2>3. CASE loop.serves # "critical"
    <3>1. normal # <<>> /\ normal' = Tail(normal) /\ critical' = critical
          /\ executing' = Head(normal)
      BY <1>5, <2>1, <2>3 DEF Receive, Served
    <3>2. /\ InQueue(Head(normal), normal) /\ Head(normal) \in Clients
          /\ \A d \in Clients : InQueue(d, normal') => InQueue(d, normal) /\ d # Head(normal)
          /\ Distinct(normal')
      BY <1>0, <3>1, InTail, DistinctTail DEF PointersAreLive, PointersDiffer
    <3>3. \A d \in Clients : InQueue(d, critical') <=> InQueue(d, critical)
      BY <3>1
    <3>4. PointersWait'
      <4>1. \A d \in Clients : InQueue(d, normal) \/ InQueue(d, critical) => pc'[d] = "waiting"
        BY <2>1 DEF PointersAreLive, PointersWait
      <4>2. \A d \in Clients : InQueue(d, normal') \/ InQueue(d, critical') \/ executing' = d
                                 => pc'[d] = "waiting"
        BY <3>1, <3>2, <3>3, <4>1
      <4> QED
        BY <4>2 DEF PointersWait, InQueue
    <3>5. PointersDiffer'
      <4>1. Distinct(critical')
        BY <3>1 DEF PointersAreLive, PointersDiffer
      <4>2. \A d \in Clients : ~(InQueue(d, normal) /\ InQueue(d, critical))
        BY DEF PointersAreLive, PointersDiffer
      <4>3. \A d \in Clients : ~(InQueue(d, normal') /\ InQueue(d, critical'))
        BY <3>2, <3>3, <4>2
      <4>4. \A d \in Clients : executing' = d => ~InQueue(d, normal') /\ ~InQueue(d, critical')
        BY <3>1, <3>2, <3>3, <4>2
      <4> QED
        BY <3>2, <4>1, <4>3, <4>4 DEF PointersDiffer, Distinct, InQueue
    <3> QED
      BY <3>4, <3>5 DEF PointersAreLive
  <2> QED
    BY <2>2, <2>3
<1>6. CASE Execute
  <2>1. /\ executing \in Clients /\ executing' = Nobody
        /\ pc' = [pc EXCEPT ![executing] = "answered"]
        /\ normal' = normal /\ critical' = critical
    BY <1>0, <1>6 DEF Execute, queues
  <2>2. ~InQueue(executing, normal) /\ ~InQueue(executing, critical)
    BY <2>1 DEF PointersAreLive, PointersDiffer
  <2>3. \A d \in Clients : d # executing => pc'[d] = pc[d]
    BY <1>0, <2>1
  <2>4. PointersWait'
    BY <1>0, <2>1, <2>2, <2>3 DEF PointersAreLive, PointersWait, InQueue
  <2>5. PointersDiffer'
    BY <1>0, <2>1 DEF PointersAreLive, PointersDiffer, Distinct, InQueue
  <2> QED
    BY <2>4, <2>5 DEF PointersAreLive
<1>7. ASSUME UNCHANGED <<pc, normal, critical, executing>>
      PROVE  PointersAreLive'
  BY <1>7 DEF PointersAreLive, PointersWait, PointersDiffer, Distinct, InQueue
<1>8. CASE StartRound \/ NextQueue \/ UNCHANGED queueVars
  BY <1>7, <1>8 DEF StartRound, NextQueue, queueVars, clients, queues
<1>9. ASSUME NEW cmd \in Commands, Direct(cmd)
      PROVE  PointersAreLive'
  BY <1>7, <1>9 DEF Direct, clients, queues
<1> QED
  BY <1>2, <1>3, <1>4, <1>5, <1>6, <1>8, <1>9 DEF NextStep, Client, Loop

\* The loop never follows a pointer into a stack its task has left, and no command
\* is executed twice.
THEOREM PointersCorrect == Safety => []PointersAreLive
<1>1. InitQueue => PointersAreLive
  BY QueueAssumption
  DEF InitQueue, PointersAreLive, PointersWait, PointersDiffer, Distinct, InQueue
<1>2. TypeOK /\ PointersAreLive /\ [NextStep]_queueVars => PointersAreLive'
  BY PointerStep
<1> QED
  BY TypeCorrect, <1>1, <1>2, PTL DEF Safety

(***************************************************************************)
(* How long an OFF waits.                                                  *)
(***************************************************************************)

SendersAreNew == \A c \in Clients : pc[c] = "sending" => overtaken[c] = 0

WaitersAreHeld ==
  \A c \in Clients :
    pc[c] = "waiting" => InQueue(c, normal) \/ InQueue(c, critical) \/ executing = c

QueuesMatch ==
  \A c \in Clients :
    /\ InQueue(c, critical) => isCritical(command[c])
    /\ InQueue(c, normal) => ~isCritical(command[c])

QuotaLeft ==
  /\ loop.serves = "critical" => loop.left <= CriticalQuota
  /\ loop.serves = "normal" => loop.left <= NormalQuota

\* What n normal commands are for the command at place i of the critical queue: while
\* the critical queue is served they are those of the round before, and the quota
\* that is left reaches the command.
Prompt(n, i) ==
  /\ n <= NormalQuota
  /\ loop.serves = "critical" => n = 0 \/ i <= loop.left
  /\ loop.serves = "normal" => n + loop.left <= NormalQuota

OffInQueue == \A i \in 1 .. Len(critical) : Prompt(overtaken[critical[i]], i)

OffExecuting ==
  \A c \in Clients : executing = c /\ isCritical(command[c]) => overtaken[c] <= NormalQuota

PromptInv ==
  /\ SendersAreNew /\ WaitersAreHeld /\ QueuesMatch
  /\ QuotaLeft /\ OffInQueue /\ OffExecuting

\* No more requests than tasks are in a queue: one round reaches them all.
LEMMA QueueFits ==
  ASSUME NEW q \in Seq(Clients), Distinct(q)
  PROVE  Len(q) <= CriticalQuota
<1>1. q \in [1 .. Len(q) -> Clients] /\ Len(q) \in Nat
  OBVIOUS
<1>2. SUFFICES ASSUME Len(q) > CriticalQuota PROVE FALSE
  BY <1>1, QueueAssumption
<1>3. IsFiniteSet(1 .. Len(q)) /\ Cardinality(1 .. Len(q)) = Len(q)
  <2>1. Len(q) \in Int /\ 1 \in Int
    BY <1>1
  <2>2. /\ IsFiniteSet(1 .. Len(q))
        /\ Cardinality(1 .. Len(q)) = IF 1 > Len(q) THEN 0 ELSE Len(q) - 1 + 1
    BY <2>1, FS_Interval
  <2> QED
    BY <1>1, <2>2
<1>4. Cardinality(Clients) \in Nat /\ Cardinality(Clients) < Cardinality(1 .. Len(q))
  <2>1. Cardinality(Clients) \in Nat
    BY QueueAssumption, FS_CardinalityType
  <2> QED
    BY <1>1, <1>2, <1>3, <2>1, QueueAssumption
<1>5. \E x, y \in 1 .. Len(q) : x # y /\ q[x] = q[y]
  BY <1>1, <1>3, <1>4, QueueAssumption, FS_PigeonHole
<1> QED
  BY <1>5 DEF Distinct

\* Who is sending, who waits where and which queue a request is in.
LEMMA HeldStep ==
  TypeOK /\ PointersAreLive /\ SendersAreNew /\ WaitersAreHeld /\ QueuesMatch
    /\ [NextStep]_queueVars
  => SendersAreNew' /\ WaitersAreHeld' /\ QueuesMatch'
<1> SUFFICES ASSUME TypeOK, PointersAreLive, SendersAreNew, WaitersAreHeld, QueuesMatch,
                    [NextStep]_queueVars
             PROVE  SendersAreNew' /\ WaitersAreHeld' /\ QueuesMatch'
  OBVIOUS
<1>0. /\ pc \in [Clients -> {"idle", "sending", "waiting", "answered"}]
      /\ command \in [Clients -> Commands]
      /\ normal \in Seq(Clients) /\ critical \in Seq(Clients)
      /\ executing \in Clients \cup {Nobody}
      /\ overtaken \in [Clients -> Nat]
      /\ Nobody \notin Clients
  BY QueueAssumption DEF TypeOK
<1>1. ASSUME NEW c \in Clients, NEW cmd \in Commands, Submit(c, cmd)
      PROVE  SendersAreNew' /\ WaitersAreHeld' /\ QueuesMatch'
  <2>1. /\ pc[c] = "idle" /\ pc' = [pc EXCEPT ![c] = "sending"]
        /\ command' = [command EXCEPT ![c] = cmd] /\ overtaken' = [overtaken EXCEPT ![c] = 0]
        /\ normal' = normal /\ critical' = critical /\ executing' = executing
    BY <1>1 DEF Submit, queues
  <2>2. /\ pc'[c] = "sending" /\ overtaken'[c] = 0
        /\ \A d \in Clients : d # c => /\ pc'[d] = pc[d] /\ command'[d] = command[d]
                                       /\ overtaken'[d] = overtaken[d]
    BY <1>0, <2>1
  <2>3. ~InQueue(c, normal) /\ ~InQueue(c, critical)
    BY <2>1 DEF PointersAreLive, PointersWait
  <2>4. SendersAreNew'
    BY <2>2 DEF SendersAreNew
  <2>5. WaitersAreHeld'
    BY <2>1, <2>2 DEF WaitersAreHeld, InQueue
  <2>6. QueuesMatch'
    BY <2>1, <2>2, <2>3 DEF QueuesMatch, InQueue, isCritical
  <2> QED
    BY <2>4, <2>5, <2>6
<1>2. ASSUME NEW c \in Clients, Send(c)
      PROVE  SendersAreNew' /\ WaitersAreHeld' /\ QueuesMatch'
  <2>1. /\ pc[c] = "sending" /\ pc' = [pc EXCEPT ![c] = "waiting"]
        /\ command' = command /\ overtaken' = overtaken /\ executing' = executing
        /\ Enqueue(c)
    BY <1>2 DEF Send
  <2>2. pc'[c] = "waiting" /\ \A d \in Clients : d # c => pc'[d] = pc[d]
    BY <1>0, <2>1
  <2>3. SendersAreNew'
    BY <2>1, <2>2 DEF SendersAreNew
  <2>4. CASE isCritical(command[c])
    <3>1. critical' = Append(critical, c) /\ normal' = normal
      BY <2>1, <2>4 DEF Enqueue
    <3>2. /\ \A d \in Clients : InQueue(d, critical') <=> InQueue(d, critical) \/ d = c
          /\ \A d \in Clients : InQueue(d, normal') <=> InQueue(d, normal)
      BY <1>0, <3>1, InAppend
    <3>3. \A d \in Clients : pc'[d] = "waiting" =>
            InQueue(d, normal') \/ InQueue(d, critical') \/ executing' = d
      BY <2>1, <2>2, <3>2 DEF WaitersAreHeld
    <3>4. \A d \in Clients : /\ InQueue(d, critical') => command'[d] = "off"
                             /\ InQueue(d, normal') => command'[d] # "off"
      BY <2>1, <2>4, <3>2 DEF QueuesMatch, isCritical
    <3> QED
      BY <2>3, <3>3, <3>4 DEF WaitersAreHeld, QueuesMatch, InQueue, isCritical
  <2>5. CASE ~isCritical(command[c])
    <3>1. normal' = Append(normal, c) /\ critical' = critical
      BY <2>1, <2>5 DEF Enqueue
    <3>2. /\ \A d \in Clients : InQueue(d, normal') <=> InQueue(d, normal) \/ d = c
          /\ \A d \in Clients : InQueue(d, critical') <=> InQueue(d, critical)
      BY <1>0, <3>1, InAppend
    <3>3. \A d \in Clients : pc'[d] = "waiting" =>
            InQueue(d, normal') \/ InQueue(d, critical') \/ executing' = d
      BY <2>1, <2>2, <3>2 DEF WaitersAreHeld
    <3>4. \A d \in Clients : /\ InQueue(d, critical') => command'[d] = "off"
                             /\ InQueue(d, normal') => command'[d] # "off"
      BY <2>1, <2>5, <3>2 DEF QueuesMatch, isCritical
    <3> QED
      BY <2>3, <3>3, <3>4 DEF WaitersAreHeld, QueuesMatch, InQueue, isCritical
  <2> QED
    BY <2>4, <2>5
<1>3. ASSUME NEW c \in Clients, SendTimesOut(c) \/ Return(c)
      PROVE  SendersAreNew' /\ WaitersAreHeld' /\ QueuesMatch'
  <2>1. /\ pc' = [pc EXCEPT ![c] = "idle"]
        /\ UNCHANGED <<command, normal, critical, executing, overtaken>>
    BY <1>3 DEF SendTimesOut, Return, queues
  <2>2. pc'[c] = "idle" /\ \A d \in Clients : d # c => pc'[d] = pc[d]
    BY <1>0, <2>1
  <2> QED
    BY <2>1, <2>2 DEF SendersAreNew, WaitersAreHeld, QueuesMatch, InQueue, isCritical
<1>4. CASE Receive
  <2>0. executing = Nobody /\ pc' = pc /\ command' = command
    BY <1>4 DEF Receive, clients
  <2>1. CASE loop.serves = "critical"
    <3>1. /\ critical # <<>> /\ critical' = Tail(critical) /\ normal' = normal
          /\ executing' = Head(critical) /\ overtaken' = overtaken
      BY <1>4, <2>1 DEF Receive, MayServe, Served
    <3>2. \A d \in Clients :
            /\ InQueue(d, critical') => InQueue(d, critical)
            /\ InQueue(d, critical) => InQueue(d, critical') \/ d = Head(critical)
      BY <1>0, <3>1, InTail, TailKeeps DEF PointersAreLive, PointersDiffer
    <3>3. \A d \in Clients : pc'[d] = "waiting" =>
            InQueue(d, normal') \/ InQueue(d, critical') \/ executing' = d
      BY <1>0, <2>0, <3>1, <3>2 DEF WaitersAreHeld
    <3>4. \A d \in Clients : /\ InQueue(d, critical') => command'[d] = "off"
                             /\ InQueue(d, normal') => command'[d] # "off"
      BY <2>0, <3>1, <3>2 DEF QueuesMatch, isCritical
    <3> QED
      BY <2>0, <3>1, <3>3, <3>4
      DEF SendersAreNew, WaitersAreHeld, QueuesMatch, InQueue, isCritical
  <2>2. CASE loop.serves # "critical"
    <3>1. /\ normal # <<>> /\ normal' = Tail(normal) /\ critical' = critical
          /\ executing' = Head(normal)
          /\ overtaken' = [c \in Clients |->
               IF pc[c] = "waiting" /\ c # Head(normal) THEN overtaken[c] + 1 ELSE overtaken[c]]
      BY <1>4, <2>2 DEF Receive, MayServe, Served
    <3>2. \A d \in Clients :
            /\ InQueue(d, normal') => InQueue(d, normal)
            /\ InQueue(d, normal) => InQueue(d, normal') \/ d = Head(normal)
      BY <1>0, <3>1, InTail, TailKeeps DEF PointersAreLive, PointersDiffer
    <3>3. \A d \in Clients : pc'[d] = "waiting" =>
            InQueue(d, normal') \/ InQueue(d, critical') \/ executing' = d
      BY <1>0, <2>0, <3>1, <3>2 DEF WaitersAreHeld
    <3>4. \A d \in Clients : /\ InQueue(d, critical') => command'[d] = "off"
                             /\ InQueue(d, normal') => command'[d] # "off"
      BY <2>0, <3>1, <3>2 DEF QueuesMatch, isCritical
    <3>5. SendersAreNew'
      BY <2>0, <3>1 DEF SendersAreNew
    <3> QED
      BY <3>3, <3>4, <3>5 DEF WaitersAreHeld, QueuesMatch, InQueue, isCritical
  <2> QED
    BY <2>1, <2>2
<1>5. CASE Execute
  <2>1. /\ executing \in Clients /\ pc' = [pc EXCEPT ![executing] = "answered"]
        /\ executing' = Nobody
        /\ UNCHANGED <<command, normal, critical, overtaken>>
    BY <1>0, <1>5 DEF Execute, queues
  <2>2. pc'[executing] = "answered" /\ \A d \in Clients : d # executing => pc'[d] = pc[d]
    BY <1>0, <2>1
  <2> QED
    BY <2>1, <2>2 DEF SendersAreNew, WaitersAreHeld, QueuesMatch, InQueue, isCritical
<1>6. ASSUME UNCHANGED <<pc, command, normal, critical, executing, overtaken>>
      PROVE  SendersAreNew' /\ WaitersAreHeld' /\ QueuesMatch'
  BY <1>6 DEF SendersAreNew, WaitersAreHeld, QueuesMatch, InQueue, isCritical
<1>7. CASE StartRound \/ NextQueue \/ UNCHANGED queueVars
  BY <1>6, <1>7 DEF StartRound, NextQueue, queueVars, clients, queues
<1>8. ASSUME NEW cmd \in Commands, Direct(cmd)
      PROVE  SendersAreNew' /\ WaitersAreHeld' /\ QueuesMatch'
  BY <1>6, <1>8 DEF Direct, clients, queues
<1> QED
  BY <1>1, <1>2, <1>3, <1>4, <1>5, <1>7, <1>8 DEF NextStep, Client, Loop

\* What is left of a round, and the promise to the OFF commands in the queue and to
\* the one the loop executes.
LEMMA PromptStep ==
  TypeOK /\ PointersAreLive /\ PromptInv /\ [NextStep]_queueVars
  => QuotaLeft' /\ OffInQueue' /\ OffExecuting'
<1> SUFFICES ASSUME TypeOK, PointersAreLive, PromptInv, [NextStep]_queueVars
             PROVE  QuotaLeft' /\ OffInQueue' /\ OffExecuting'
  OBVIOUS
<1>0. /\ pc \in [Clients -> {"idle", "sending", "waiting", "answered"}]
      /\ command \in [Clients -> Commands]
      /\ normal \in Seq(Clients) /\ critical \in Seq(Clients)
      /\ executing \in Clients \cup {Nobody}
      /\ overtaken \in [Clients -> Nat]
      /\ loop \in [serves : {"critical", "normal", "rest"}, left : 0 .. CriticalQuota + NormalQuota]
      /\ Nobody \notin Clients
      /\ CriticalQuota \in Nat \ {0} /\ NormalQuota \in Nat \ {0}
  BY QueueAssumption DEF TypeOK
<1>a. loop.left \in Nat /\ loop.serves \in {"critical", "normal", "rest"}
  BY <1>0
<1>b. Len(critical) \in Nat /\ \A i \in 1 .. Len(critical) :
        critical[i] \in Clients /\ overtaken[critical[i]] \in Nat
  BY <1>0
<1>c. QuotaLeft /\ OffInQueue /\ OffExecuting
  BY DEF PromptInv
<1>1. ASSUME NEW c \in Clients, NEW cmd \in Commands, Submit(c, cmd)
      PROVE  QuotaLeft' /\ OffInQueue' /\ OffExecuting'
  <2>1. /\ pc[c] = "idle" /\ overtaken' = [overtaken EXCEPT ![c] = 0]
        /\ command' = [command EXCEPT ![c] = cmd]
        /\ UNCHANGED <<critical, executing, loop>>
    BY <1>1 DEF Submit, queues
  <2>2. ~InQueue(c, critical) /\ executing # c
    BY <2>1 DEF PointersAreLive, PointersWait
  <2>3. \A d \in Clients : d # c => overtaken'[d] = overtaken[d] /\ command'[d] = command[d]
    BY <1>0, <2>1
  <2>4. \A i \in 1 .. Len(critical) : overtaken'[critical[i]] = overtaken[critical[i]]
    BY <1>b, <2>2, <2>3 DEF InQueue
  <2>5. OffInQueue'
    BY <1>c, <2>1, <2>4 DEF OffInQueue, Prompt
  <2>6. OffExecuting'
    BY <1>c, <2>1, <2>2, <2>3 DEF OffExecuting, isCritical
  <2> QED
    BY <1>c, <2>1, <2>5, <2>6 DEF QuotaLeft
<1>2. ASSUME NEW c \in Clients, Send(c)
      PROVE  QuotaLeft' /\ OffInQueue' /\ OffExecuting'
  <2>1. /\ pc[c] = "sending" /\ Enqueue(c)
        /\ UNCHANGED <<command, executing, loop, overtaken>>
    BY <1>2 DEF Send
  <2>2. QuotaLeft' /\ OffExecuting'
    BY <1>c, <2>1 DEF QuotaLeft, OffExecuting, isCritical
  <2>3. CASE isCritical(command[c])
    <3>1. critical' = Append(critical, c)
      BY <2>1, <2>3 DEF Enqueue
    <3>2. /\ Len(critical') = Len(critical) + 1 /\ critical'[Len(critical) + 1] = c
          /\ \A i \in 1 .. Len(critical) : critical'[i] = critical[i]
      BY <1>0, <3>1
    <3>3. overtaken[c] = 0
      BY <2>1 DEF PromptInv, SendersAreNew
    <3>4. \A i : Prompt(0, i)
      BY <1>0, <1>a, <1>c DEF Prompt, QuotaLeft
    <3>5. \A i \in 1 .. Len(critical') : Prompt(overtaken[critical'[i]], i)
      <4> SUFFICES ASSUME NEW i \in 1 .. Len(critical')
                   PROVE  Prompt(overtaken[critical'[i]], i)
        OBVIOUS
      <4>1. i \in 1 .. Len(critical) \/ i = Len(critical) + 1
        BY <1>b, <3>2
      <4>2. CASE i \in 1 .. Len(critical)
        BY <1>c, <3>2, <4>2 DEF OffInQueue
      <4>3. CASE i = Len(critical) + 1
        BY <3>2, <3>3, <3>4, <4>3
      <4> QED
        BY <4>1, <4>2, <4>3
    <3> QED
      BY <2>1, <2>2, <3>5 DEF OffInQueue, Prompt
  <2>4. CASE ~isCritical(command[c])
    <3>1. critical' = critical
      BY <2>1, <2>4 DEF Enqueue
    <3> QED
      BY <1>c, <2>1, <2>2, <3>1 DEF OffInQueue, Prompt
  <2> QED
    BY <2>3, <2>4
<1>3. CASE Receive /\ loop.serves = "critical"
  <2>1. /\ executing = Nobody /\ loop.left > 0
        /\ critical # <<>> /\ critical' = Tail(critical) /\ executing' = Head(critical)
        /\ UNCHANGED <<command, overtaken>>
        /\ loop' = [loop EXCEPT !.left = loop.left - 1]
    BY <1>3, <1>a DEF Receive, MayServe, WithinQuota, Served, LeftAfter, clients
  <2>2. loop'.serves = "critical" /\ loop'.left = loop.left - 1
    BY <1>0, <1>3, <2>1
  <2>3. /\ Len(critical') = Len(critical) - 1 /\ Len(critical) > 0 /\ Head(critical) = critical[1]
        /\ \A i \in 1 .. Len(critical') : critical'[i] = critical[i + 1]
    BY <1>0, <2>1
  <2>4. QuotaLeft'
    BY <1>0, <1>a, <1>3, <1>c, <2>2 DEF QuotaLeft
  <2>5. OffInQueue'
    <3> SUFFICES ASSUME NEW i \in 1 .. Len(critical')
                 PROVE  Prompt(overtaken[critical[i]], i)'
      BY DEF OffInQueue
    <3>1. i + 1 \in 1 .. Len(critical) /\ critical'[i] = critical[i + 1]
      BY <1>b, <2>3
    <3>2. Prompt(overtaken[critical[i + 1]], i + 1)
      BY <1>c, <3>1 DEF OffInQueue
    <3>3. overtaken'[critical'[i]] = overtaken[critical[i + 1]]
      BY <2>1, <3>1
    <3>4. overtaken[critical[i + 1]] = 0 \/ i <= loop'.left
      BY <1>3, <1>a, <2>2, <3>2 DEF Prompt
    <3> QED
      BY <2>2, <3>2, <3>3, <3>4 DEF Prompt
  <2>6. OffExecuting'
    <3>1. 1 \in 1 .. Len(critical)
      BY <1>b, <2>3
    <3>2. overtaken[Head(critical)] <= NormalQuota
      BY <1>c, <2>3, <3>1 DEF OffInQueue, Prompt
    <3> QED
      BY <2>1, <3>2 DEF OffExecuting
  <2> QED
    BY <2>4, <2>5, <2>6
<1>4. CASE Receive /\ loop.serves # "critical"
  <2>1. /\ executing = Nobody /\ loop.left > 0 /\ loop.serves = "normal"
        /\ normal # <<>> /\ executing' = Head(normal)
        /\ UNCHANGED <<command, critical>>
        /\ loop' = [loop EXCEPT !.left = loop.left - 1]
        /\ overtaken' = [c \in Clients |->
             IF pc[c] = "waiting" /\ c # Head(normal) THEN overtaken[c] + 1 ELSE overtaken[c]]
    BY <1>4, <1>a DEF Receive, MayServe, WithinQuota, Served, LeftAfter, clients
  <2>2. loop'.serves = "normal" /\ loop'.left = loop.left - 1
    BY <1>0, <2>1
  <2>3. QuotaLeft'
    BY <1>0, <1>a, <1>c, <2>1, <2>2 DEF QuotaLeft
  <2>4. OffInQueue'
    <3> SUFFICES ASSUME NEW i \in 1 .. Len(critical)
                 PROVE  Prompt(overtaken[critical[i]], i)'
      BY <2>1 DEF OffInQueue
    <3>1. Prompt(overtaken[critical[i]], i)
      BY <1>c DEF OffInQueue
    <3>2. overtaken[critical[i]] + loop.left <= NormalQuota
      BY <2>1, <3>1 DEF Prompt
    <3>3. /\ overtaken'[critical[i]] \in Nat
          /\ overtaken'[critical[i]] <= overtaken[critical[i]] + 1
      BY <1>b, <2>1
    <3>4. loop.left \in Nat \ {0} /\ NormalQuota \in Nat /\ overtaken[critical[i]] \in Nat
      BY <1>0, <1>a, <1>b, <2>1
    <3>5. /\ overtaken'[critical[i]] + (loop.left - 1) <= NormalQuota
          /\ overtaken'[critical[i]] <= NormalQuota
      BY <3>2, <3>3, <3>4
    <3>6. critical' = critical
      BY <2>1
    <3> QED
      BY <2>2, <3>5, <3>6 DEF Prompt
  <2>5. OffExecuting'
    <3>1. InQueue(Head(normal), normal) /\ Head(normal) \in Clients
      BY <1>0, <2>1, InTail DEF PointersAreLive, PointersDiffer
    <3>2. ~isCritical(command[Head(normal)])
      BY <3>1 DEF PromptInv, QueuesMatch
    <3> QED
      BY <2>1, <3>2 DEF OffExecuting, isCritical
  <2> QED
    BY <2>3, <2>4, <2>5
<1>5. CASE StartRound
  <2>1. /\ loop' = [serves |-> "critical", left |-> CriticalQuota]
        /\ UNCHANGED <<command, critical, executing, overtaken>>
    BY <1>5 DEF StartRound, clients, queues
  <2>2. Len(critical) <= CriticalQuota
    BY <1>0, QueueFits DEF PointersAreLive, PointersDiffer
  <2>3. \A i \in 1 .. Len(critical) : i <= CriticalQuota
    BY <1>0, <1>b, <2>2
  <2>4. OffInQueue'
    BY <1>c, <2>1, <2>3 DEF OffInQueue, Prompt
  <2> QED
    BY <1>0, <1>c, <2>1, <2>4 DEF QuotaLeft, OffExecuting, isCritical
<1>6. CASE NextQueue
  <2>1. /\ executing = Nobody /\ loop.serves # "rest" /\ ~MayServe
        /\ loop' = IF loop.serves = "critical"
                   THEN [serves |-> "normal", left |-> NormalQuota] ELSE Rest
        /\ UNCHANGED <<command, critical, executing, overtaken>>
    BY <1>6 DEF NextQueue, clients, queues
  <2>2. OffExecuting'
    BY <1>c, <2>1 DEF OffExecuting, isCritical
  <2>3. CASE loop.serves = "critical"
    <3>1. loop'.serves = "normal" /\ loop'.left = NormalQuota
      BY <2>1, <2>3
    <3>2. loop.left = 0 \/ critical = <<>>
      BY <1>a, <2>1, <2>3 DEF MayServe, WithinQuota, Served
    <3>3. \A i \in 1 .. Len(critical) : overtaken[critical[i]] = 0
      <4> SUFFICES ASSUME NEW i \in 1 .. Len(critical) PROVE overtaken[critical[i]] = 0
        OBVIOUS
      <4>1. critical # <<>> /\ i > 0
        BY <1>b
      <4>2. overtaken[critical[i]] = 0 \/ i <= loop.left
        BY <1>c, <2>3 DEF OffInQueue, Prompt
      <4> QED
        BY <3>2, <4>1, <4>2
    <3>4. OffInQueue'
      BY <1>0, <2>1, <3>1, <3>3 DEF OffInQueue, Prompt
    <3>5. QuotaLeft'
      BY <1>0, <3>1 DEF QuotaLeft
    <3> QED
      BY <2>2, <3>4, <3>5
  <2>4. CASE loop.serves # "critical"
    <3>1. loop'.serves = "rest"
      BY <2>1, <2>4 DEF Rest
    <3> QED
      BY <1>c, <2>1, <2>2, <3>1 DEF QuotaLeft, OffInQueue, Prompt
  <2> QED
    BY <2>3, <2>4
<1>7. CASE Execute
  <2>1. executing' = Nobody /\ UNCHANGED <<command, critical, loop, overtaken>>
    BY <1>7 DEF Execute, queues
  <2> QED
    BY <1>0, <1>c, <2>1 DEF QuotaLeft, OffInQueue, OffExecuting, Prompt
<1>8. ASSUME UNCHANGED <<command, critical, executing, loop, overtaken>>
      PROVE  QuotaLeft' /\ OffInQueue' /\ OffExecuting'
  BY <1>c, <1>8 DEF QuotaLeft, OffInQueue, OffExecuting, Prompt, isCritical
<1>9. ASSUME NEW c \in Clients, SendTimesOut(c) \/ Return(c)
      PROVE  QuotaLeft' /\ OffInQueue' /\ OffExecuting'
  BY <1>8, <1>9 DEF SendTimesOut, Return, queues
<1>10. ASSUME NEW cmd \in Commands, Direct(cmd)
       PROVE  QuotaLeft' /\ OffInQueue' /\ OffExecuting'
  BY <1>8, <1>10 DEF Direct, clients, queues
<1>11. CASE UNCHANGED queueVars
  BY <1>8, <1>11 DEF queueVars, clients, queues
<1> QED
  BY <1>1, <1>2, <1>3, <1>4, <1>5, <1>6, <1>7, <1>9, <1>10, <1>11 DEF NextStep, Client, Loop

\* The invariant promises what OffIsPrompt states of the tasks that wait.
LEMMA PromptHolds ==
  TypeOK /\ PointersAreLive /\ PromptInv => OffIsPrompt
<1> SUFFICES ASSUME TypeOK, PromptInv,
                    NEW c \in Clients, pc[c] = "waiting", isCritical(command[c])
             PROVE  overtaken[c] <= NormalQuota
  BY DEF OffIsPrompt
<1>1. InQueue(c, critical) \/ executing = c
  BY DEF PromptInv, WaitersAreHeld, QueuesMatch
<1>2. CASE InQueue(c, critical)
  BY <1>2 DEF InQueue, PromptInv, OffInQueue, Prompt
<1>3. CASE executing = c
  BY <1>3 DEF PromptInv, OffExecuting
<1> QED
  BY <1>1, <1>2, <1>3

\* A command that switches something off is overtaken by no more normal commands
\* than one round serves, whatever is queued and whenever it comes.
THEOREM OffIsPromptCorrect == Safety => []OffIsPrompt
<1>1. InitQueue => PromptInv
  <2> SUFFICES ASSUME InitQueue PROVE PromptInv
    OBVIOUS
  <2>1. /\ pc = [c \in Clients |-> "idle"] /\ normal = <<>> /\ critical = <<>>
        /\ loop.serves = "rest" /\ executing = Nobody
    BY DEF InitQueue, Rest
  <2> QED
    BY <2>1, QueueAssumption
    DEF PromptInv, SendersAreNew, WaitersAreHeld, QueuesMatch, QuotaLeft, OffInQueue,
        OffExecuting, InQueue
<1>2. TypeOK /\ PointersAreLive /\ PromptInv /\ [NextStep]_queueVars => PromptInv'
  <2>1. TypeOK /\ PointersAreLive /\ PromptInv /\ [NextStep]_queueVars
        => SendersAreNew' /\ WaitersAreHeld' /\ QueuesMatch'
    BY HeldStep DEF PromptInv
  <2> QED
    BY <2>1, PromptStep DEF PromptInv
<1>3. TypeOK /\ PointersAreLive /\ PromptInv => OffIsPrompt
  BY PromptHolds
<1> QED
  BY TypeCorrect, PointersCorrect, <1>1, <1>2, <1>3, PTL DEF Safety

(***************************************************************************)
(* The queue implements RemoteCall.                                        *)
(***************************************************************************)

\* What RemoteCall sees of a task.
Status ==
  [c \in Clients |->
    CASE Pending(c) -> "called" [] pc[c] = "answered" -> "served" [] pc[c] = "idle" -> "idle"]

\* The cases of Status cover every task.
LEMMA StatusOf ==
  ASSUME TypeOK
  PROVE  Status = [c \in Clients |->
           IF pc[c] \in {"sending", "waiting"} THEN "called"
           ELSE IF pc[c] = "answered" THEN "served" ELSE "idle"]
BY DEF Status, Pending, TypeOK

\* The same after a step.
LEMMA StatusAfter ==
  ASSUME TypeOK'
  PROVE  Status' = [c \in Clients |->
           IF pc'[c] \in {"sending", "waiting"} THEN "called"
           ELSE IF pc'[c] = "answered" THEN "served" ELSE "idle"]
BY DEF Status, Pending, TypeOK

\* A step that moves one task moves its call, and no other.
LEMMA StatusStep ==
  ASSUME TypeOK, TypeOK', NEW c \in Clients, NEW s \in {"idle", "called", "served"},
         \A d \in Clients : d # c => pc'[d] = pc[d],
         Status'[c] = s
  PROVE  Status' = [Status EXCEPT ![c] = s]
<1>1. \A d \in Clients : d # c => Status'[d] = Status[d]
  BY StatusOf, StatusAfter
<1>2. Status' = [d \in Clients |-> IF d = c THEN s ELSE Status[d]]
  BY <1>1, StatusAfter
<1>3. [Status EXCEPT ![c] = s] = [d \in Clients |-> IF d = c THEN s ELSE Status[d]]
  BY StatusOf
<1> QED
  BY <1>2, <1>3

\* A step of a task or of the loop is a step of RemoteCall or changes nothing that
\* RemoteCall sees: entering the queue and the loop's rounds are not visible, a
\* timeout refuses the call, and Execute serves it.
LEMMA CallStep ==
  TypeOK /\ TypeOK' /\ PointersAreLive /\ [NextStep]_queueVars => [Calls!Next]_(Calls!vars)
<1> SUFFICES ASSUME TypeOK, TypeOK', PointersAreLive, [NextStep]_queueVars
             PROVE  [Calls!Next]_(Calls!vars)
  OBVIOUS
<1>0. /\ pc \in [Clients -> {"idle", "sending", "waiting", "answered"}]
      /\ executing \in Clients \cup {Nobody}
  BY DEF TypeOK
<1>1. ASSUME NEW c \in Clients, NEW cmd \in Commands, Submit(c, cmd)
      PROVE  Calls!Call(c, cmd)
  <2>1. /\ pc[c] = "idle" /\ pc' = [pc EXCEPT ![c] = "sending"]
        /\ command' = [command EXCEPT ![c] = cmd] /\ output' = output
    BY <1>1 DEF Submit
  <2>2. pc'[c] = "sending" /\ \A d \in Clients : d # c => pc'[d] = pc[d]
    BY <1>0, <2>1
  <2>3. Status[c] = "idle" /\ Status'[c] = "called"
    BY <2>1, <2>2, StatusOf, StatusAfter
  <2>4. Status' = [Status EXCEPT ![c] = "called"]
    BY <2>2, <2>3, StatusStep
  <2> QED
    BY <2>1, <2>3, <2>4 DEF Calls!Call, Status
<1>2. ASSUME NEW c \in Clients, Send(c)
      PROVE  UNCHANGED Calls!vars
  <2>1. /\ pc[c] = "sending" /\ pc' = [pc EXCEPT ![c] = "waiting"]
        /\ command' = command /\ output' = output
    BY <1>2 DEF Send
  <2>2. pc'[c] = "waiting" /\ \A d \in Clients : d # c => pc'[d] = pc[d]
    BY <1>0, <2>1
  <2>3. \A d \in Clients : Status'[d] = Status[d]
    BY <2>1, <2>2, StatusOf, StatusAfter
  <2>4. Status' = Status
    BY <2>3, StatusOf, StatusAfter
  <2> QED
    BY <2>1, <2>4 DEF Calls!vars, Status
<1>3. ASSUME NEW c \in Clients, SendTimesOut(c)
      PROVE  Calls!Refuse(c)
  <2>1. /\ pc[c] = "sending" /\ pc' = [pc EXCEPT ![c] = "idle"]
        /\ command' = command /\ output' = output
    BY <1>3 DEF SendTimesOut
  <2>2. pc'[c] = "idle" /\ \A d \in Clients : d # c => pc'[d] = pc[d]
    BY <1>0, <2>1
  <2>3. Status[c] = "called" /\ Status'[c] = "idle"
    BY <2>1, <2>2, StatusOf, StatusAfter
  <2>4. Status' = [Status EXCEPT ![c] = "idle"]
    BY <2>2, <2>3, StatusStep
  <2> QED
    BY <2>1, <2>3, <2>4 DEF Calls!Refuse, Status
<1>4. ASSUME NEW c \in Clients, Return(c)
      PROVE  Calls!Return(c)
  <2>1. /\ pc[c] = "answered" /\ pc' = [pc EXCEPT ![c] = "idle"]
        /\ command' = command /\ output' = output
    BY <1>4 DEF Return
  <2>2. pc'[c] = "idle" /\ \A d \in Clients : d # c => pc'[d] = pc[d]
    BY <1>0, <2>1
  <2>3. Status[c] = "served" /\ Status'[c] = "idle"
    BY <2>1, <2>2, StatusOf, StatusAfter
  <2>4. Status' = [Status EXCEPT ![c] = "idle"]
    BY <2>2, <2>3, StatusStep
  <2> QED
    BY <2>1, <2>3, <2>4 DEF Calls!Return, Status
<1>5. ASSUME NEW c \in Clients, executing = c, Execute
      PROVE  Calls!Serve(c)
  <2>1. /\ pc' = [pc EXCEPT ![c] = "answered"]
        /\ command' = command /\ output' = Effect(command[c])
    BY <1>5 DEF Execute
  <2>2. pc[c] = "waiting"
    BY <1>5 DEF PointersAreLive, PointersWait
  <2>3. pc'[c] = "answered" /\ \A d \in Clients : d # c => pc'[d] = pc[d]
    BY <1>0, <2>1
  <2>4. Status[c] = "called" /\ Status'[c] = "served"
    BY <2>1, <2>2, <2>3, StatusOf, StatusAfter
  <2>5. Status' = [Status EXCEPT ![c] = "served"]
    BY <2>3, <2>4, StatusStep
  <2> QED
    BY <2>1, <2>4, <2>5 DEF Calls!Serve, Status
<1>6. ASSUME NEW cmd \in Commands, Direct(cmd)
      PROVE  Calls!Direct(cmd)
  <2>1. pc' = pc /\ command' = command /\ output' = Effect(cmd)
    BY <1>6 DEF Direct, clients
  <2>2. Status' = Status
    BY <2>1, StatusOf, StatusAfter
  <2> QED
    BY <2>1, <2>2 DEF Calls!Direct, Status
<1>7. CASE StartRound \/ Receive \/ NextQueue \/ UNCHANGED queueVars
  <2>1. pc' = pc /\ command' = command /\ output' = output
    BY <1>7 DEF StartRound, Receive, NextQueue, queueVars, clients
  <2>2. Status' = Status
    BY <2>1, StatusOf, StatusAfter
  <2> QED
    BY <2>1, <2>2 DEF Calls!vars, Status
<1>8. CASE \E c \in Clients : Client(c)
  BY <1>1, <1>2, <1>3, <1>4, <1>8 DEF Client, Calls!Next
<1>9. CASE Loop
  <2>1. CASE Execute
    <3>1. \E c \in Clients : executing = c
      BY <1>0, <2>1 DEF Execute
    <3> QED
      BY <1>5, <2>1, <3>1 DEF Calls!Next
  <2> QED
    BY <1>6, <1>7, <1>9, <2>1 DEF Loop, Calls!Next
<1> QED
  BY <1>7, <1>8, <1>9 DEF NextStep

\* The queue keeps the safety of RemoteCall: a call is served once, by the loop,
\* with its own command, or refused without any effect, and returns only then.
THEOREM CallsCorrect == Safety => Calls!Safety
<1>1. InitQueue => Calls!Init
  BY DEF InitQueue, Calls!Init, Pending
<1>2. TypeOK /\ TypeOK' /\ PointersAreLive /\ [NextStep]_queueVars => [Calls!Next]_(Calls!vars)
  BY CallStep
<1> QED
  BY TypeCorrect, PointersCorrect, <1>1, <1>2, PTL DEF Safety, Calls!Safety

=============================================================================
