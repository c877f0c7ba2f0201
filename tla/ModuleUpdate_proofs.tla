--------------------------- MODULE ModuleUpdate_proofs ---------------------------
(***************************************************************************)
(* What TLAPS proves about ModuleUpdate, for any files, any length of a    *)
(* block and of the queue, and any number of attempts.                     *)
(***************************************************************************)
EXTENDS ModuleUpdate, TLAPS

(***************************************************************************)
(* Types                                                                   *)
(***************************************************************************)

Web == [pc : {"idle", "begin", "chunk", "end", "abort"},
        of : {"none", "begin", "chunk", "end", "abort"}, left : Seq(Frames)]
Pump == [pc : {"idle", "lock", "sending", "sent", "failed", "abort"},
         offset : Nat, frames : Seq(Frames)]
Session == [live : BOOLEAN, offset : Nat, size : Nat, started : BOOLEAN,
            file : Files \cup {Factory}, finished : BOOLEAN]
Call == [for : Ops \cup {"none"}, op : Ops \cup {"none"}, left : Nat]
Module == [active : BOOLEAN, running : BOOLEAN, limit : Nat, flash : Seq(Frames)]

Types == /\ web \in Web /\ pump \in Pump /\ io \in {"none", "web", "pump"}
         /\ session \in Session /\ status \in BOOLEAN
         /\ digest \in Seq(Frames)
         /\ queue \in Seq(Frames) /\ Len(queue) <= Capacity
         /\ call \in Call
         /\ call.op # "none" => call.left \in 1..Attempts[call.op]
         /\ fw \in BOOLEAN /\ module \in Module
         /\ image \in Files \cup {Factory}

\* Who holds the I/O lock, and for what.
Locked == /\ io = "none" => call = NoCall
          /\ io # "none" => call.for # "none" /\ call.op \in {call.for, "abort"}
          /\ call.for \in {"begin", "end"} => io = "web" /\ web.pc = call.for
          /\ call.for = "abort" /\ io = "web" => web.pc = "abort"
          /\ call.for = "abort" /\ io = "pump" => pump.pc = "abort"
          /\ call.for = "chunk" <=> pump.pc = "sending"
          /\ call.for = "chunk" => io = "pump" /\ pump.frames # <<>>

LEMMA Assumed ==
  /\ Attempts \in [Ops -> Nat \ {0}] /\ Capacity \in Nat /\ Block \in Nat
  /\ Size \in [Files -> Nat] /\ Factory \notin Files
BY FilesAssumption, BoundsAssumption

LEMMA ImageFrames ==
  ASSUME NEW f \in Files
  PROVE  Image(f) \in Seq(Frames) /\ Len(Image(f)) = Size[f]
<1>1. Size[f] \in Nat
  BY Assumed
<1>2. \A k \in 1..Size[f] : <<f, k>> \in Frames
  BY DEF Frames, Range, Image
<1> QED
  BY <1>1, <1>2 DEF Image

(***************************************************************************)
(* Transactions                                                            *)
(***************************************************************************)

\* What the module makes of the frame on the wire, and when it says that it is well.
LEMMA Handled ==
  ASSUME Types, Locked, call.op # "none"
  PROVE  /\ handle_frame(call.op).module \in Module
         /\ handle_frame(call.op).image \in Files \cup {Factory}
         /\ handle_frame(call.op).ok \in BOOLEAN
<1>t. /\ module \in Module /\ image \in Files \cup {Factory} /\ session.size \in Nat
      /\ pump \in Pump /\ call \in Call
  BY DEF Types, Session
<1>o. Off \in Module /\ [Off EXCEPT !.running = TRUE] \in Module
  <2>1. <<>> \in Seq(Frames)
    OBVIOUS
  <2>2. Off \in Module
    BY <2>1 DEF Off, Module
  <2>3. ASSUME NEW m \in Module PROVE [m EXCEPT !.running = TRUE] \in Module
    BY DEF Module
  <2> QED
    BY <2>2, <2>3
<1>a. fw_update_abort_local \in Module
  BY <1>t, <1>o DEF fw_update_abort_local
<1>1. CASE call.op = "begin"
  <2>1. [active |-> TRUE, running |-> TRUE, limit |-> session.size, flash |-> <<>>] \in Module
    BY <1>t DEF Module
  <2> QED
    BY <1>t, <1>o, <1>1, <2>1 DEF handle_frame, handle_fw_begin, Answer
<1>2. CASE call.op = "chunk"
  <2>1. pump.frames # <<>> /\ pump.frames \in Seq(Frames)
    BY <1>t, <1>2 DEF Locked, NoCall, Pump
  <2>2. module.flash \in Seq(Frames) /\ Head(pump.frames) \in Frames
    BY <1>t, <2>1 DEF Module
  <2>3. Append(module.flash, Head(pump.frames)) \in Seq(Frames)
    BY <2>2
  <2>4. [module EXCEPT !.flash = Append(@, Head(pump.frames))] \in Module
    BY <1>t, <2>3 DEF Module
  <2> QED
    BY <1>t, <1>a, <1>2, <2>4 DEF handle_frame, handle_fw_chunk, Answer
<1>3. CASE call.op = "end"
  BY <1>t, <1>o, <1>3 DEF handle_frame, handle_fw_end, Answer
<1>4. CASE call.op = "abort"
  BY <1>t, <1>a, <1>4 DEF handle_frame, handle_fw_abort, Answer
<1> QED
  BY <1>1, <1>2, <1>3, <1>4, <1>t DEF Call, Ops

\* A frame more or less reaches the module; the transaction goes on, or it is over, and well
\* only when the module has said so of the frame it was begun for.
LEMMA Transacts ==
  ASSUME Types, Locked, Transaction
  PROVE  /\ call.op # "none" /\ io # "none"
         /\ UNCHANGED <<digest, queue>>
         /\ \/ /\ module' = handle_frame(call.op).module
               /\ image' = handle_frame(call.op).image
            \/ UNCHANGED <<module, image>>
         /\ \/ \E ok \in BOOLEAN :
                 /\ Return(ok)
                 /\ ok => /\ call.op = call.for /\ handle_frame(call.op).ok
                          /\ module' = handle_frame(call.op).module
                          /\ image' = handle_frame(call.op).image
            \/ /\ call' \in Call /\ call'.for = call.for /\ call'.op \in {call.op, "abort"}
               /\ call'.left \in 1..Attempts[call'.op]
               /\ UNCHANGED <<web, pump, io, session, status, fw, reply>>
<1>t. /\ call \in Call /\ call.op # "none"
      /\ Attempts \in [Ops -> Nat \ {0}] /\ call.left \in 1..Attempts[call.op]
  BY Assumed DEF Types, Transaction, Answered, Unanswered
<1>i. io # "none"
  BY <1>t DEF Locked, NoCall
<1>0. UNCHANGED <<digest, queue>>
  BY DEF Transaction, Answered, Unanswered
<1>h. handle_frame(call.op).ok \in BOOLEAN
  BY <1>t, Handled
<1>g. ASSUME GiveUp
      PROVE  \/ Return(FALSE)
             \/ /\ call' \in Call /\ call'.for = call.for /\ call'.op \in {call.op, "abort"}
                /\ call'.left \in 1..Attempts[call'.op]
                /\ UNCHANGED <<web, pump, io, session, status, fw, reply>>
  <2>1. CASE call.op = "abort"
    BY <1>g, <2>1 DEF GiveUp
  <2>2. CASE call.op # "abort"
    <3>1. call' = [call EXCEPT !.op = "abort", !.left = Attempts["abort"]]
          /\ UNCHANGED <<web, pump, io, session, status, fw, reply>>
      BY <1>g, <2>2 DEF GiveUp
    <3>2. "abort" \in Ops /\ Attempts["abort"] \in Nat \ {0}
      BY <1>t DEF Ops
    <3>3. call' \in Call /\ call'.for = call.for /\ call'.op = "abort"
          /\ call'.left = Attempts["abort"]
      BY <1>t, <3>1, <3>2 DEF Call
    <3>4. Attempts["abort"] \in 1..Attempts["abort"]
      BY <3>2
    <3> QED
      BY <3>1, <3>3, <3>4, Zenon
  <2> QED
    BY <2>1, <2>2
<1>1. CASE Answered
  <2>1. module' = handle_frame(call.op).module /\ image' = handle_frame(call.op).image
    BY <1>1 DEF Answered, Reaches
  <2>2. CASE handle_frame(call.op).ok
    <3>1. Return(call.op = call.for)
      BY <1>1, <2>2 DEF Answered
    <3> QED
      BY <1>t, <1>i, <1>0, <2>1, <2>2, <3>1
  <2>3. CASE ~handle_frame(call.op).ok
    BY <1>1, <1>t, <1>i, <1>0, <1>g, <2>1, <2>3 DEF Answered
  <2> QED
    BY <2>2, <2>3
<1>2. CASE Unanswered
  <2>1. \/ /\ module' = handle_frame(call.op).module
           /\ image' = handle_frame(call.op).image
        \/ UNCHANGED <<module, image>>
    BY <1>2 DEF Unanswered, Reaches
  <2>2. CASE call.left > 1
    <3>1. call' = [call EXCEPT !.left = @ - 1]
          /\ UNCHANGED <<web, pump, io, session, status, fw, reply>>
      BY <1>2, <2>2 DEF Unanswered
    <3>2. call.left \in Nat /\ call.left - 1 \in Nat /\ call.op \in Ops /\ Attempts[call.op] \in Nat
      BY <1>t, <2>2 DEF Call
    <3>3. call' \in Call /\ call'.for = call.for /\ call'.op = call.op
          /\ call'.left = call.left - 1
      BY <1>t, <3>1, <3>2 DEF Call
    <3>4. call'.left \in 1..Attempts[call'.op]
      BY <1>t, <2>2, <3>2, <3>3
    <3> QED
      BY <1>t, <1>i, <1>0, <2>1, <3>1, <3>3, <3>4
  <2>3. CASE ~(call.left > 1)
    BY <1>2, <1>t, <1>i, <1>0, <1>g, <2>1, <2>3 DEF Unanswered
  <2> QED
    BY <2>2, <2>3
<1> QED
  BY <1>1, <1>2 DEF Transaction

(***************************************************************************)
(* Types                                                                   *)
(***************************************************************************)

\* The records the tasks leave behind.
LEMMA WebTypes ==
  ASSUME Types
  PROVE  /\ Idle \in Web
         /\ \A op \in Ops : [Idle EXCEPT !.of = op, !.pc = op] \in Web
         /\ [Idle EXCEPT !.of = "end", !.pc = "abort"] \in Web
         /\ [web EXCEPT !.pc = "abort"] \in Web
<1>1. <<>> \in Seq(Frames)
  OBVIOUS
<1>2. Idle \in Web
  BY <1>1 DEF Idle, Web
<1>3. ASSUME NEW w \in Web
      PROVE  /\ \A op \in Ops : [w EXCEPT !.of = op, !.pc = op] \in Web
             /\ [w EXCEPT !.of = "end", !.pc = "abort"] \in Web
             /\ [w EXCEPT !.pc = "abort"] \in Web
  BY DEF Web, Ops
<1> QED
  BY <1>2, <1>3 DEF Types

LEMMA PumpTypes ==
  ASSUME Types,
         NEW pc \in {"idle", "lock", "sending", "sent", "failed", "abort"}
  PROVE  [pump EXCEPT !.pc = pc] \in Pump
BY DEF Types, Pump

LEMMA SessionTypes ==
  ASSUME Types, NEW b \in BOOLEAN, NEW n \in Nat
  PROVE  /\ [session EXCEPT !.live = b] \in Session
         /\ [session EXCEPT !.started = b] \in Session
         /\ [session EXCEPT !.finished = b] \in Session
         /\ [session EXCEPT !.offset = n] \in Session
BY DEF Types, Session

\* Ending a transaction, and beginning one.
LEMMA ReturnTypes ==
  ASSUME Types, NEW ok \in BOOLEAN, Return(ok)
  PROVE  /\ io' = "none" /\ call' = NoCall /\ fw' \in BOOLEAN
         /\ web' \in Web /\ pump' \in Pump /\ session' \in Session /\ status' \in BOOLEAN
<1>1. io' = "none" /\ call' = NoCall /\ fw' = (ok /\ call.for \in {"begin", "chunk"})
  BY DEF Return
<1>2. CASE PumpContinues(ok)
  <2>1. PICK pc \in {"idle", "sent", "failed"} : pump' = [pump EXCEPT !.pc = pc]
    BY <1>2 DEF PumpContinues
  <2> QED
    BY <1>1, <1>2, <2>1, PumpTypes DEF PumpContinues, Types
<1>3. CASE WebContinues(ok)
  <2>1. web' \in {Idle, [web EXCEPT !.pc = "abort"]} /\ status' \in {TRUE, status}
    BY <1>3 DEF WebContinues, WebReplies
  <2>2. PICK b \in BOOLEAN : session' = [session EXCEPT !.live = b]
    <3>1. (session.live /\ ~(ok /\ call.for = "end")) \in BOOLEAN
      BY DEF Types, Session
    <3> QED
      BY <1>3, <3>1 DEF WebContinues
  <2> QED
    BY <1>1, <1>3, <2>1, <2>2, WebTypes, SessionTypes DEF WebContinues, Types
<1> QED
  BY <1>2, <1>3 DEF Return

LEMMA StartTypes ==
  ASSUME NEW by, NEW op \in Ops, StartCall(by, op)
  PROVE  /\ call' \in Call /\ io' = by
         /\ call'.for = op /\ call'.op = op /\ call'.left \in 1..Attempts[call'.op]
<1>1. Attempts[op] \in Nat \ {0}
  BY Assumed
<1>2. call' = [for |-> op, op |-> op, left |-> Attempts[op]] /\ io' = by
  BY DEF StartCall
<1>3. Attempts[op] \in 1..Attempts[op]
  BY <1>1
<1> QED
  BY <1>1, <1>2, <1>3 DEF Call

LEMMA NoCallTypes == NoCall \in Call /\ NoCall.op = "none" /\ NoCall.for = "none"
BY DEF NoCall, Call

LEMMA TypesInit == Init => Types
<1> SUFFICES ASSUME Init PROVE Types
  OBVIOUS
<1>1. <<>> \in Seq(Frames)
  OBVIOUS
<1>2. Idle \in Web /\ Off \in Module
  BY <1>1 DEF Idle, Web, Off, Module
<1>3. pump \in Pump /\ session \in Session
  BY <1>1 DEF Init, Pump, Session
<1>4. digest \in Seq(Frames) /\ queue \in Seq(Frames) /\ Len(queue) <= Capacity
  BY <1>1, Assumed DEF Init
<1> QED
  BY <1>2, <1>3, <1>4, NoCallTypes DEF Init, Types

\* Aborting the session, in either task.
LEMMA AbortTypes ==
  ASSUME Types, NEW by \in {"web", "pump"}, AbortActive(by) \/ AbortTimesOut(by)
  PROVE  Types'
<1>1. <<>> \in Seq(Frames) /\ Len(<<>>) <= Capacity
  BY Assumed
<1>2. [session EXCEPT !.live = FALSE] \in Session
  BY SessionTypes
<1>3. ASSUME NEW ok, Finish(by, ok) PROVE web' \in Web /\ pump' \in Pump
  BY <1>3, WebTypes, PumpTypes DEF Finish, WebReplies, Types
<1>4. CASE AbortActive(by)
  <2>1. /\ session' = [session EXCEPT !.live = FALSE] /\ queue' = <<>>
        /\ UNCHANGED <<status, digest, fw, module, image>>
    BY <1>4 DEF AbortActive
  <2>2. CASE fw
    <3>1. StartCall(by, "abort") /\ UNCHANGED <<web, pump>>
      BY <1>4, <2>2 DEF AbortActive
    <3> QED
      BY <1>1, <1>2, <2>1, <3>1, StartTypes DEF Types, Ops
  <2>3. CASE ~fw
    <3>1. UNCHANGED <<io, call>> /\ web' \in Web /\ pump' \in Pump
      BY <1>3, <1>4, <2>3 DEF AbortActive
    <3> QED
      BY <1>1, <1>2, <2>1, <3>1 DEF Types
  <2> QED
    BY <2>2, <2>3
<1>5. CASE AbortTimesOut(by)
  BY <1>3, <1>5 DEF AbortTimesOut, Types
<1> QED
  BY <1>4, <1>5

LEMMA TypesStep == Types /\ Locked /\ [Next]_vars => Types'
<1> SUFFICES ASSUME Types, Locked, [Next]_vars PROVE Types'
  OBVIOUS
<1>e. <<>> \in Seq(Frames) /\ Len(<<>>) <= Capacity
  BY Assumed
<1>1. CASE Transaction
  <2>1. module' \in Module /\ image' \in Files \cup {Factory} /\ UNCHANGED <<digest, queue>>
    BY <1>1, Transacts, Handled DEF Types
  <2>2. CASE \E ok \in BOOLEAN : Return(ok)
    BY <2>1, <2>2, ReturnTypes, NoCallTypes DEF Types
  <2>3. CASE /\ call' \in Call /\ call'.left \in 1..Attempts[call'.op]
             /\ UNCHANGED <<web, pump, io, session, status, fw, reply>>
    BY <2>1, <2>3 DEF Types
  <2> QED
    BY <1>1, <2>2, <2>3, Transacts
<1>2. CASE ModuleTimeout \/ ModuleRestart
  <2>1. Off \in Module
    BY <1>e DEF Off, Module
  <2> QED
    BY <1>2, <2>1 DEF ModuleTimeout, ModuleRestart, masterVars, Types
\* The pump
<1>3. CASE PumpChecks
  BY <1>3, PumpTypes, SessionTypes DEF PumpChecks, Types
<1>4. CASE PumpSends
  <2>1. queue # <<>> /\ queue' = Tail(queue) /\ queue \in Seq(Frames)
    BY <1>4 DEF PumpSends, MaySend, Types
  <2>2. queue' \in Seq(Frames) /\ Len(queue') <= Capacity /\ Head(queue) \in Frames
    BY <2>1, Assumed DEF Types
  <2>3. pump' \in Pump
    <3>1. <<Head(queue)>> \in Seq(Frames) /\ session.offset \in Nat
      BY <2>2 DEF Types, Session
    <3> QED
      BY <1>4, <3>1 DEF PumpSends, Pump
  <2>4. UNCHANGED <<web, session, status, digest, fw, module, image>>
    BY <1>4 DEF PumpSends
  <2>5. CASE fw
    <3>1. StartCall("pump", "chunk")
      BY <1>4, <2>5 DEF PumpSends
    <3> QED
      BY <2>2, <2>3, <2>4, <3>1, StartTypes DEF Types, Ops
  <2>6. CASE ~fw
    BY <1>4, <2>2, <2>3, <2>4, <2>6 DEF PumpSends, Types
  <2> QED
    BY <2>5, <2>6
<1>5. CASE PumpReturns
  BY <1>5, PumpTypes DEF PumpReturns, Types
<1>6. CASE PumpAdvances
  <2>1. pump.offset + 1 \in Nat
    BY DEF Types, Pump
  <2> QED
    BY <1>6, <2>1, PumpTypes, SessionTypes DEF PumpAdvances, Types
<1>7. CASE PumpFails
  BY <1>7, PumpTypes DEF PumpFails, Types
<1>8. CASE PumpAborts \/ WebAborts
  BY <1>8, AbortTypes DEF PumpAborts, WebAborts
\* The HTTP task
<1>9. ASSUME NEW f \in Files, ChunkBegin(f) PROVE Types'
  <2>1. CASE session.live \/ fw
    BY <1>9, <2>1 DEF ChunkBegin, Refuse, Rest, Types
  <2>2. CASE ~(session.live \/ fw)
    <3>1. session' \in Session
      <4>1. Size[f] \in Nat
        BY Assumed
      <4>2. session' = [live |-> TRUE, offset |-> 0, size |-> Size[f],
                         started |-> FALSE, file |-> f, finished |-> FALSE]
        BY <1>9, <2>2 DEF ChunkBegin
      <4> QED
        BY <4>1, <4>2 DEF Session
    <3> QED
      BY <1>9, <1>e, <2>2, <3>1, WebTypes DEF ChunkBegin, Request, Rest, Types, Ops
  <2> QED
    BY <2>1, <2>2
<1>10. ASSUME NEW f \in Files, NEW offset \in 0..Size[f] - 1, ChunkStart(f, offset)
       PROVE  Types'
  <2>1. web' \in Web
    <3>1. CASE session.live /\ offset = Len(digest)
      <4> DEFINE part == SubSeq(Image(f), offset + 1, Smaller(offset + Block, Size[f]))
      <4>1. part \in Seq(Frames)
        <5>1. Size[f] \in Nat /\ Block \in Nat /\ offset \in Nat
          BY Assumed
        <5>2. Smaller(offset + Block, Size[f]) \in 0..Size[f]
          BY <5>1 DEF Smaller
        <5> QED
          BY <5>1, <5>2, ImageFrames
      <4>2. web' = [pc |-> "chunk", of |-> "chunk", left |-> part]
        BY <1>10, <3>1 DEF ChunkStart
      <4> HIDE DEF part
      <4> QED
        BY <4>1, <4>2 DEF Web
    <3>2. CASE ~(session.live /\ offset = Len(digest))
      BY <1>10, <3>2 DEF ChunkStart, Refuse, Types
    <3> QED
      BY <3>1, <3>2
  <2>2. status' \in BOOLEAN
    BY <1>10 DEF ChunkStart
  <2> QED
    BY <1>10, <2>1, <2>2 DEF ChunkStart, Rest, Types
<1>f. ASSUME WebFails PROVE Types'
  BY <1>f, WebTypes DEF WebFails, Rest, Types
<1>11. CASE UploadAborted \/ ExceedsSize \/ PushTimesOut \/ EndFails
  BY <1>11, <1>f DEF UploadAborted, ExceedsSize, PushTimesOut, EndFails
<1>12. CASE ChunkEnd
  <2>1. web' \in Web
    BY <1>12, WebTypes DEF ChunkEnd, Request, Refuse, Types, Ops
  <2>2. session' \in Session
    <3>1. (session.finished \/ session.live) \in BOOLEAN
      BY DEF Types, Session
    <3> QED
      BY <1>12, <3>1, SessionTypes DEF ChunkEnd
  <2> QED
    BY <1>12, <2>1, <2>2 DEF ChunkEnd, Rest, Types
<1>13. CASE EndRefused \/ ChunkAbort
  BY <1>13, WebTypes DEF EndRefused, ChunkAbort, Request, Rest, Types, Ops
<1>14. CASE moduleFwBegin \/ moduleFwEnd
  <2>1. PICK op \in {"begin", "end"} : StartCall("web", op)
    BY <1>14 DEF moduleFwBegin, moduleFwEnd
  <2>2. /\ call' \in Call /\ io' = "web" /\ call'.left \in 1..Attempts[call'.op]
    BY <2>1, StartTypes DEF Ops
  <2> QED
    BY <1>14, <2>2 DEF moduleFwBegin, moduleFwEnd, Types
<1>15. CASE BeginFindsBusBusy
  BY <1>15, WebTypes DEF BeginFindsBusBusy, Rest, Types
<1>16. CASE QueuePush
  <2>1. /\ web \in Web /\ web.left \in Seq(Frames) /\ web.left # <<>>
        /\ digest \in Seq(Frames) /\ queue \in Seq(Frames) /\ Len(queue) < Capacity
    BY <1>16 DEF QueuePush, Writing, Types, Web
  <2>2. Head(web.left) \in Frames /\ Tail(web.left) \in Seq(Frames)
    BY <2>1
  <2>3. /\ Append(digest, Head(web.left)) \in Seq(Frames)
        /\ Append(queue, Head(web.left)) \in Seq(Frames)
        /\ Len(Append(queue, Head(web.left))) <= Capacity
    BY <2>1, <2>2, Assumed
  <2>4. [web EXCEPT !.left = Tail(@)] \in Web
    BY <2>1, <2>2 DEF Web
  <2> QED
    BY <1>16, <2>3, <2>4 DEF QueuePush, Rest, Types
<1>17. CASE ChunkDone \/ EndWaitFails \/ EndLockTimesOut
  BY <1>17, WebTypes DEF ChunkDone, EndWaitFails, EndLockTimesOut, WebReplies, Rest, Types
<1>18. CASE UNCHANGED vars
  BY <1>18 DEF vars, masterVars, Types
<1> QED
  BY <1>1, <1>2, <1>3, <1>4, <1>5, <1>6, <1>7, <1>8, <1>9, <1>10, <1>11, <1>12, <1>13, <1>14,
     <1>15, <1>16, <1>17, <1>18 DEF Next, Browser, WebTask, LoopTask, Transaction

(***************************************************************************)
(* The I/O lock                                                            *)
(***************************************************************************)

LEMMA LockedInit == Init => Locked
BY NoCallTypes DEF Init, Locked

\* A transaction that is over leaves its task in another state.
LEMMA ReturnLocked ==
  ASSUME Types, Locked, NEW ok \in BOOLEAN, Return(ok), io # "none"
  PROVE  /\ Locked'
         /\ ~(call.for = "end" /\ ok) => session'.live = session.live
         /\ io = "pump" => UNCHANGED <<web, session>>
         /\ io = "web" => UNCHANGED pump
         /\ pump'.offset = pump.offset /\ pump'.frames = pump.frames
         /\ session'.offset = session.offset
<1>1. io' = "none" /\ call' = NoCall
  BY DEF Return
<1>2. CASE PumpContinues(ok)
  <2>1. PICK pc \in {"idle", "sent", "failed"} : pump' = [pump EXCEPT !.pc = pc]
    BY <1>2 DEF PumpContinues
  <2>2. pump'.pc # "sending" /\ pump'.offset = pump.offset /\ pump'.frames = pump.frames
    BY <2>1 DEF Types, Pump
  <2> QED
    BY <1>1, <1>2, <2>2, NoCallTypes DEF PumpContinues, Locked
<1>3. CASE WebContinues(ok)
  <2>1. pump' = pump /\ io = "web" /\ pump.pc # "sending"
    BY <1>3 DEF WebContinues, Locked
  <2>2. session'.offset = session.offset
        /\ session'.live = (session.live /\ ~(ok /\ call.for = "end"))
    BY <1>3 DEF WebContinues, Types, Session
  <2>3. session.live \in BOOLEAN
    BY DEF Types, Session
  <2> QED
    BY <1>1, <2>1, <2>2, <2>3, NoCallTypes DEF Locked
<1> QED
  BY <1>2, <1>3 DEF Return

LEMMA AbortLocked ==
  ASSUME Types, Locked, NEW by \in {"web", "pump"}, AbortActive(by) \/ AbortTimesOut(by),
         by = "web" => web.pc = "abort", by = "pump" => pump.pc = "abort"
  PROVE  Locked'
<1>1. ASSUME NEW ok, Finish(by, ok), UNCHANGED <<io, call>>, io \notin {by}
      PROVE  Locked'
  <2>1. CASE by = "pump"
    <3>1. web' = web /\ pump' = [pump EXCEPT !.pc = "idle"]
      BY <1>1, <2>1 DEF Finish
    <3>2. pump'.pc = "idle" /\ pump'.frames = pump.frames
      BY <3>1 DEF Types, Pump
    <3> QED
      BY <1>1, <2>1, <3>1, <3>2 DEF Locked
  <2>2. CASE by = "web"
    BY <1>1, <2>2 DEF Finish, WebReplies, Idle, Locked
  <2> QED
    BY <2>1, <2>2
<1>2. CASE AbortActive(by)
  <2>1. io = "none" /\ call = NoCall
    BY <1>2 DEF AbortActive, Locked
  <2>2. CASE fw
    <3>1. StartCall(by, "abort") /\ UNCHANGED <<web, pump>>
      BY <1>2, <2>2 DEF AbortActive
    <3>2. io' = by /\ call'.for = "abort" /\ call'.op = "abort"
      BY <3>1, StartTypes DEF Ops
    <3> QED
      BY <2>1, <3>1, <3>2, NoCallTypes DEF Locked
  <2>3. CASE ~fw
    BY <1>1, <1>2, <2>1, <2>3 DEF AbortActive
  <2> QED
    BY <2>2, <2>3
<1>3. CASE AbortTimesOut(by)
  BY <1>1, <1>3 DEF AbortTimesOut
<1> QED
  BY <1>2, <1>3

LEMMA LockedStep == Types /\ Locked /\ [Next]_vars => Locked'
<1> SUFFICES ASSUME Types, Locked, [Next]_vars PROVE Locked'
  OBVIOUS
<1>t. web \in Web /\ pump \in Pump
  BY DEF Types
<1>1. CASE Transaction
  <2>1. CASE \E ok \in BOOLEAN : Return(ok)
    BY <1>1, <2>1, Transacts, ReturnLocked
  <2>2. CASE /\ call' \in Call /\ call'.for = call.for /\ call'.op \in {call.op, "abort"}
             /\ UNCHANGED <<web, pump, io>>
    BY <1>1, <2>2, Transacts DEF Locked
  <2> QED
    BY <1>1, <2>1, <2>2, Transacts
<1>2. ASSUME UNCHANGED <<io, call, web, pump>> PROVE Locked'
  BY <1>2 DEF Locked
\* The pump goes on while it holds no lock, or
<1>p. ASSUME NEW pc \in {"idle", "lock", "abort"}, pump' = [pump EXCEPT !.pc = pc],
             UNCHANGED <<web, io, call>>, pump.pc \notin {"sending", "abort"}
      PROVE  Locked'
  <2>1. pump'.pc = pc /\ pump'.frames = pump.frames
    BY <1>p, <1>t DEF Pump
  <2> QED
    BY <1>p, <2>1 DEF Locked
\* the HTTP task does.
<1>w. ASSUME UNCHANGED <<pump, io, call>>,
             io = "web" => web'.pc = web.pc
      PROVE  Locked'
  BY <1>w DEF Locked, NoCall
<1>3. CASE PumpChecks \/ PumpReturns \/ PumpAdvances \/ PumpFails
  BY <1>3, <1>p DEF PumpChecks, PumpReturns, PumpAdvances, PumpFails
<1>4. CASE PumpSends
  <2>1. io = "none" /\ call = NoCall /\ web' = web
    BY <1>4 DEF PumpSends, Locked
  <2>2. pump'.pc = (IF fw THEN "sending" ELSE "failed") /\ pump'.frames # <<>>
    BY <1>4 DEF PumpSends
  <2>3. CASE fw
    <3>1. io' = "pump" /\ call'.for = "chunk" /\ call'.op = "chunk"
      BY <1>4, <2>3, StartTypes DEF PumpSends, Ops
    <3> QED
      BY <2>1, <2>2, <2>3, <3>1 DEF Locked
  <2>4. CASE ~fw
    BY <1>4, <2>1, <2>2, <2>4, NoCallTypes DEF PumpSends, Locked
  <2> QED
    BY <2>3, <2>4
<1>5. CASE PumpAborts \/ WebAborts
  BY <1>5, AbortLocked DEF PumpAborts, WebAborts
<1>6. CASE moduleFwBegin \/ moduleFwEnd
  <2>1. PICK op \in {"begin", "end"} :
          StartCall("web", op) /\ web.pc = op /\ io = "none" /\ UNCHANGED <<web, pump>>
    BY <1>6 DEF moduleFwBegin, moduleFwEnd
  <2>2. io' = "web" /\ call'.for = op /\ call'.op = op
    BY <2>1, StartTypes DEF Ops
  <2> QED
    BY <2>1, <2>2, NoCallTypes DEF Locked
\* A handler has the lock only while its transaction is under way.
<1>l. io = "web" => web.pc \in {"begin", "end", "abort"} /\ call.for = web.pc
  BY DEF Locked, Types, Call, Ops
<1>7. ASSUME NEW f \in Files, ChunkBegin(f) PROVE Locked'
  BY <1>7, <1>w, <1>l DEF ChunkBegin, Request, Refuse, Rest
<1>8. ASSUME NEW f \in Files, NEW offset \in 0..Size[f] - 1, ChunkStart(f, offset)
      PROVE  Locked'
  BY <1>8, <1>w, <1>l DEF ChunkStart, Refuse, Rest
<1>9. CASE \/ UploadAborted \/ ChunkEnd \/ EndRefused \/ ChunkAbort \/ BeginFindsBusBusy
           \/ ExceedsSize \/ PushTimesOut \/ ChunkDone \/ EndWaitFails \/ EndFails
  BY <1>9, <1>w, <1>l DEF UploadAborted, ChunkEnd, EndRefused, ChunkAbort, BeginFindsBusBusy,
     ExceedsSize, PushTimesOut, ChunkDone, EndWaitFails, EndFails, Writing, WebFails, Request,
     Refuse, Rest
<1>10. CASE EndLockTimesOut
  BY <1>10, <1>w DEF EndLockTimesOut, Rest
<1>11. CASE QueuePush
  BY <1>11, <1>w, <1>l DEF QueuePush, Writing, Rest
<1>12. CASE ModuleTimeout \/ ModuleRestart
  BY <1>2, <1>12 DEF ModuleTimeout, ModuleRestart, masterVars
<1>13. CASE UNCHANGED vars
  BY <1>2, <1>13 DEF vars, masterVars
<1> QED
  BY <1>1, <1>3, <1>4, <1>5, <1>6, <1>7, <1>8, <1>9, <1>10, <1>11, <1>12, <1>13
     DEF Next, Browser, WebTask, LoopTask

(***************************************************************************)
(* Nothing is sent after the session                                       *)
(***************************************************************************)

\* The session ends while nothing is under way, or with the answer to its FW_END.
LEMMA NothingStep ==
  Types /\ Locked /\ NothingSentAfterSession /\ [Next]_vars => NothingSentAfterSession'
<1> SUFFICES ASSUME Types, Locked, NothingSentAfterSession, [Next]_vars
             PROVE  NothingSentAfterSession'
  OBVIOUS
<1>t. session \in Session
  BY DEF Types
<1>1. CASE Transaction
  BY <1>1, Transacts, NoCallTypes DEF Return, NothingSentAfterSession
<1>2. ASSUME call'.op \in {"none", "begin", "abort"} PROVE NothingSentAfterSession'
  BY <1>2 DEF NothingSentAfterSession
<1>3. ASSUME call' = call, session.live => session'.live PROVE NothingSentAfterSession'
  BY <1>3 DEF NothingSentAfterSession
<1>4. CASE PumpChecks \/ PumpReturns \/ PumpAdvances \/ PumpFails
  BY <1>3, <1>4, <1>t DEF PumpChecks, PumpReturns, PumpAdvances, PumpFails, Session
<1>5. CASE PumpSends
  BY <1>5 DEF PumpSends, MaySend, NothingSentAfterSession
<1>6. ASSUME NEW by \in {"web", "pump"}, AbortActive(by) \/ AbortTimesOut(by)
      PROVE  NothingSentAfterSession'
  <2>1. CASE AbortActive(by)
    BY <1>2, <2>1, StartTypes, NoCallTypes DEF AbortActive, Locked, Ops
  <2>2. CASE AbortTimesOut(by)
    BY <1>3, <2>2 DEF AbortTimesOut
  <2> QED
    BY <1>6, <2>1, <2>2
<1>7. CASE PumpAborts \/ WebAborts
  BY <1>6, <1>7 DEF PumpAborts, WebAborts
<1>8. CASE moduleFwBegin
  BY <1>2, <1>8, StartTypes DEF moduleFwBegin, Ops
<1>9. CASE moduleFwEnd
  BY <1>9 DEF moduleFwEnd, Drained, NothingSentAfterSession
<1>10. ASSUME NEW f \in Files, ChunkBegin(f) PROVE NothingSentAfterSession'
  BY <1>3, <1>10 DEF ChunkBegin, Rest
<1>11. ASSUME NEW f \in Files, NEW offset \in 0..Size[f] - 1, ChunkStart(f, offset)
       PROVE  NothingSentAfterSession'
  BY <1>3, <1>11 DEF ChunkStart, Rest
<1>12. CASE ChunkEnd
  BY <1>3, <1>12, <1>t DEF ChunkEnd, Rest, Session
<1>13. CASE \/ UploadAborted \/ EndRefused \/ ChunkAbort \/ BeginFindsBusBusy \/ QueuePush
            \/ ExceedsSize \/ PushTimesOut \/ ChunkDone \/ EndWaitFails \/ EndFails
            \/ EndLockTimesOut
  BY <1>3, <1>13 DEF UploadAborted, EndRefused, ChunkAbort, BeginFindsBusBusy, QueuePush,
     ExceedsSize, PushTimesOut, ChunkDone, EndWaitFails, EndFails, EndLockTimesOut, WebFails, Rest
<1>14. CASE ModuleTimeout \/ ModuleRestart \/ UNCHANGED vars
  BY <1>3, <1>14 DEF ModuleTimeout, ModuleRestart, masterVars, vars
<1> QED
  BY <1>1, <1>4, <1>5, <1>7, <1>8, <1>9, <1>10, <1>11, <1>12, <1>13, <1>14
     DEF Next, Browser, WebTask, LoopTask

(***************************************************************************)
(* What is in the queue, and what has been given to the pump.              *)
(***************************************************************************)

Taken == Len(digest) - Len(queue)

Queued == /\ Len(queue) <= Len(digest)
          /\ \A k \in 1..Len(queue) : queue[k] = digest[Taken + k]
          /\ web.pc = "begin" => digest = <<>>
          /\ web.pc = "chunk" => web.of = "chunk"
          /\ web.pc = "end" /\ session.live => digest = Image(session.file)

\* While a transaction other than an abort is under way the scheduler is in update mode.
Updating == call.for \in {"begin", "chunk", "end"} => fw

LEMMA QueuedInit == Init => Queued /\ Updating
BY DEF Init, Queued, Updating, Idle, NoCall

\* The ends of the queue.
LEMMA QueueTakes ==
  ASSUME Types, Queued, queue # <<>>, queue' = Tail(queue), digest' = digest
  PROVE  /\ Len(queue') <= Len(digest') /\ Taken' = Taken + 1 /\ Taken \in Nat
         /\ Head(queue) = digest[Taken']
         /\ \A k \in 1..Len(queue') : queue'[k] = digest'[Taken' + k]
<1>1. /\ queue \in Seq(Frames) /\ digest \in Seq(Frames)
      /\ Len(queue) \in Nat /\ Len(digest) \in Nat /\ Len(queue) >= 1
  BY DEF Types
<1>2. Len(queue') = Len(queue) - 1 /\ \A k \in 1..Len(queue') : queue'[k] = queue[k + 1]
  BY <1>1
<1>3. Taken' = Taken + 1 /\ Taken \in Nat
  BY <1>1, <1>2 DEF Taken, Queued
<1>4. Head(queue) = queue[1] /\ queue[1] = digest[Taken + 1]
  BY <1>1 DEF Queued
<1>5. ASSUME NEW k \in 1..Len(queue') PROVE queue'[k] = digest'[Taken' + k]
  <2>1. k + 1 \in 1..Len(queue) /\ queue'[k] = queue[k + 1]
    BY <1>1, <1>2
  <2>2. queue[k + 1] = digest[Taken + (k + 1)]
    BY <2>1 DEF Queued
  <2>3. Taken + (k + 1) = Taken' + k
    BY <1>1, <1>3
  <2> QED
    BY <2>1, <2>2, <2>3
<1> QED
  BY <1>1, <1>2, <1>3, <1>4, <1>5 DEF Queued

LEMMA QueueTaken ==
  ASSUME Types, Queued, NEW x \in Frames, digest' = Append(digest, x), queue' = Append(queue, x)
  PROVE  /\ Len(queue') <= Len(digest') /\ Taken' = Taken /\ Taken <= Len(digest)
         /\ \A k \in 1..Len(digest) : digest'[k] = digest[k]
         /\ \A k \in 1..Len(queue') : queue'[k] = digest'[Taken' + k]
<1>1. /\ queue \in Seq(Frames) /\ digest \in Seq(Frames)
      /\ Len(queue) \in Nat /\ Len(digest) \in Nat /\ Len(queue) <= Len(digest)
  BY DEF Types, Queued
<1>2. /\ Len(queue') = Len(queue) + 1 /\ Len(digest') = Len(digest) + 1
      /\ \A k \in 1..Len(digest) : digest'[k] = digest[k]
      /\ \A k \in 1..Len(queue) : queue'[k] = queue[k]
      /\ digest'[Len(digest) + 1] = x /\ queue'[Len(queue) + 1] = x
  BY <1>1
<1>3. Taken' = Taken /\ Taken \in Nat /\ Taken <= Len(digest)
  BY <1>1, <1>2 DEF Taken
<1>4. ASSUME NEW k \in 1..Len(queue') PROVE queue'[k] = digest'[Taken' + k]
  <2>1. CASE k = Len(queue) + 1
    <3>1. Taken' + k = Len(digest) + 1
      BY <1>1, <1>3, <2>1 DEF Taken
    <3> QED
      BY <1>2, <2>1, <3>1
  <2>2. CASE k # Len(queue) + 1
    <3>1. k \in 1..Len(queue) /\ Taken + k \in 1..Len(digest)
      BY <1>1, <1>2, <2>2 DEF Taken
    <3> QED
      BY <1>2, <1>3, <3>1 DEF Queued
  <2> QED
    BY <2>1, <2>2
<1>5. Len(queue') <= Len(digest')
  BY <1>1, <1>2
<1> QED
  BY <1>2, <1>3, <1>4, <1>5, Zenon

LEMMA QueuedStep == Types /\ Locked /\ Queued /\ [Next]_vars => Queued'
<1> SUFFICES ASSUME Types, Locked, Queued, [Next]_vars PROVE Queued'
  OBVIOUS
<1>t. session \in Session /\ web \in Web /\ digest \in Seq(Frames) /\ Len(digest) \in Nat
  BY DEF Types
<1>e. <<>> \in Seq(Frames) /\ Len(<<>>) = 0
  OBVIOUS
\* Queue and digest stay, and no new request is begun.
<1>1. ASSUME UNCHANGED <<digest, queue>>, session'.live => session.live,
             session'.file = session.file,
             \/ web'.pc = web.pc /\ web'.of = web.of
             \/ web'.pc \in {"idle", "abort"}
      PROVE  Queued'
  BY <1>1 DEF Queued, Taken
<1>w. [web EXCEPT !.pc = "abort"].pc = "abort" /\ Idle.pc = "idle"
  BY <1>t DEF Web, Idle
<1>2. CASE Transaction
  <2>1. ASSUME NEW ok \in BOOLEAN, Return(ok) PROVE Queued'
    <3>1. UNCHANGED <<digest, queue>>
      BY <1>2, Transacts
    <3>2. CASE PumpContinues(ok)
      BY <1>1, <3>1, <3>2 DEF PumpContinues
    <3>3. CASE WebContinues(ok)
      <4>1. web'.pc \in {"idle", "abort"}
        BY <1>w, <3>3 DEF WebContinues, WebReplies
      <4>2. (session'.live => session.live) /\ session'.file = session.file
        BY <1>t, <3>3 DEF WebContinues, Session
      <4> QED
        BY <1>1, <3>1, <4>1, <4>2
    <3> QED
      BY <2>1, <3>2, <3>3 DEF Return
  <2>2. CASE UNCHANGED <<web, session>>
    BY <1>1, <1>2, <2>2, Transacts
  <2> QED
    BY <1>2, <2>1, <2>2, Transacts
<1>3. CASE PumpChecks \/ PumpReturns \/ PumpAdvances \/ PumpFails
  BY <1>1, <1>3, <1>t DEF PumpChecks, PumpReturns, PumpAdvances, PumpFails, Session
<1>4. CASE PumpSends
  <2>1. queue # <<>> /\ queue' = Tail(queue) /\ UNCHANGED <<digest, web, session>>
    BY <1>4 DEF PumpSends, MaySend
  <2> QED
    BY <2>1, QueueTakes DEF Queued
<1>5. ASSUME NEW by \in {"web", "pump"}, AbortActive(by) \/ AbortTimesOut(by) PROVE Queued'
  <2>1. \/ web' = web
        \/ web'.pc = "idle"
    BY <1>5, <1>w DEF AbortActive, AbortTimesOut, Finish, WebReplies
  <2>2. CASE AbortActive(by)
    <3>1. session' = [session EXCEPT !.live = FALSE] /\ queue' = <<>> /\ digest' = digest
      BY <2>2 DEF AbortActive
    <3>2. ~session'.live
      BY <1>t, <3>1 DEF Session
    <3> QED
      BY <1>e, <1>t, <2>1, <3>1, <3>2 DEF Queued
  <2>3. CASE AbortTimesOut(by)
    BY <1>1, <2>1, <2>3 DEF AbortTimesOut
  <2> QED
    BY <1>5, <2>2, <2>3
<1>6. CASE PumpAborts \/ WebAborts
  BY <1>5, <1>6 DEF PumpAborts, WebAborts
<1>7. CASE moduleFwBegin \/ moduleFwEnd
  BY <1>1, <1>7 DEF moduleFwBegin, moduleFwEnd
\* A request is begun.
<1>r. ASSUME NEW op \in Ops, Request(op) PROVE web'.pc = op /\ web'.of = op
  BY <1>r DEF Request, Idle, Ops
<1>8. ASSUME NEW f \in Files, ChunkBegin(f) PROVE Queued'
  <2>1. CASE session.live \/ fw
    BY <1>1, <1>8, <2>1 DEF ChunkBegin, Refuse
  <2>2. CASE ~(session.live \/ fw)
    <3>1. Request("begin") /\ digest' = <<>> /\ queue' = <<>>
      BY <1>8, <2>2 DEF ChunkBegin
    <3>2. web'.pc = "begin"
      BY <1>r, <3>1 DEF Ops
    <3> QED
      BY <1>e, <3>1, <3>2 DEF Queued
  <2> QED
    BY <2>1, <2>2
<1>9. ASSUME NEW f \in Files, NEW offset \in 0..Size[f] - 1, ChunkStart(f, offset)
      PROVE  Queued'
  <2>1. CASE session.live /\ offset = Len(digest)
    <3>1. web'.pc = "chunk" /\ web'.of = "chunk" /\ UNCHANGED <<session, digest, queue>>
      BY <1>9, <2>1 DEF ChunkStart
    <3> QED
      BY <3>1 DEF Queued, Taken
  <2>2. CASE ~(session.live /\ offset = Len(digest))
    BY <1>1, <1>9, <2>2 DEF ChunkStart, Refuse
  <2> QED
    BY <2>1, <2>2
<1>10. CASE ChunkEnd
  <2>1. /\ UNCHANGED <<digest, queue>> /\ session'.live = session.live
        /\ session'.file = session.file
    BY <1>10, <1>t DEF ChunkEnd, Session
  <2>2. CASE session.live
    <3>1. web'.pc = "end" /\ digest = Image(session.file)
      BY <1>10, <1>r, <2>2 DEF ChunkEnd, Authentic, Ops
    <3> QED
      BY <2>1, <3>1 DEF Queued, Taken
  <2>3. CASE ~session.live
    BY <1>1, <1>10, <2>1, <2>3 DEF ChunkEnd, Refuse
  <2> QED
    BY <2>2, <2>3
<1>11. CASE EndRefused
  BY <1>1, <1>11 DEF EndRefused, Idle
<1>12. CASE ChunkAbort
  BY <1>1, <1>12, <1>r DEF ChunkAbort, Ops
<1>13. CASE \/ UploadAborted \/ BeginFindsBusBusy \/ ExceedsSize \/ PushTimesOut \/ ChunkDone
            \/ EndWaitFails \/ EndFails \/ EndLockTimesOut
  BY <1>1, <1>13, <1>w DEF UploadAborted, BeginFindsBusBusy, ExceedsSize, PushTimesOut, ChunkDone,
     EndWaitFails, EndFails, EndLockTimesOut, WebFails, WebReplies
<1>14. CASE QueuePush
  <2>1. /\ digest' = Append(digest, Head(web.left)) /\ queue' = Append(queue, Head(web.left))
        /\ web.pc = "chunk" /\ web' = [web EXCEPT !.left = Tail(@)] /\ session' = session
        /\ web.left # <<>>
    BY <1>14 DEF QueuePush, Writing
  <2>2. Head(web.left) \in Frames
    BY <1>t, <2>1 DEF Web
  <2>3. web'.pc = "chunk" /\ web'.of = web.of
    BY <1>t, <2>1 DEF Web
  <2> QED
    BY <2>1, <2>2, <2>3, QueueTaken DEF Queued
<1>15. CASE ModuleTimeout \/ ModuleRestart \/ UNCHANGED vars
  BY <1>1, <1>15 DEF ModuleTimeout, ModuleRestart, masterVars, vars
<1> QED
  BY <1>2, <1>3, <1>4, <1>6, <1>7, <1>8, <1>9, <1>10, <1>11, <1>12, <1>13, <1>14, <1>15
     DEF Next, Browser, WebTask, LoopTask

LEMMA UpdatingStep == Types /\ Locked /\ Updating /\ [Next]_vars => Updating'
<1> SUFFICES ASSUME Types, Locked, Updating, [Next]_vars PROVE Updating'
  OBVIOUS
<1>1. CASE Transaction
  BY <1>1, Transacts, NoCallTypes DEF Return, Updating
<1>2. ASSUME UNCHANGED <<call, fw>> PROVE Updating'
  BY <1>2 DEF Updating
<1>3. CASE PumpSends
  BY <1>2, <1>3, StartTypes DEF PumpSends, Updating
<1>4. ASSUME NEW by \in {"web", "pump"}, AbortActive(by) \/ AbortTimesOut(by) PROVE Updating'
  <2>1. UNCHANGED <<call, fw>> \/ call'.for = "abort"
    BY <1>4, StartTypes DEF AbortActive, AbortTimesOut, Ops
  <2> QED
    BY <1>2, <2>1 DEF Updating
<1>5. CASE PumpAborts \/ WebAborts
  BY <1>4, <1>5 DEF PumpAborts, WebAborts
<1>6. CASE moduleFwBegin \/ moduleFwEnd
  BY <1>6 DEF moduleFwBegin, moduleFwEnd, Updating
<1>7. ASSUME NEW f \in Files, ChunkBegin(f) PROVE Updating'
  BY <1>2, <1>7 DEF ChunkBegin, Rest
<1>8. ASSUME NEW f \in Files, NEW offset \in 0..Size[f] - 1, ChunkStart(f, offset)
      PROVE  Updating'
  BY <1>2, <1>8 DEF ChunkStart, Rest
<1>9. CASE \/ PumpChecks \/ PumpReturns \/ PumpAdvances \/ PumpFails
           \/ UploadAborted \/ ChunkEnd \/ EndRefused \/ ChunkAbort \/ BeginFindsBusBusy
           \/ QueuePush \/ ExceedsSize \/ PushTimesOut \/ ChunkDone \/ EndWaitFails \/ EndFails
           \/ EndLockTimesOut
  BY <1>2, <1>9 DEF PumpChecks, PumpReturns, PumpAdvances, PumpFails, UploadAborted, ChunkEnd,
     EndRefused, ChunkAbort, BeginFindsBusBusy, QueuePush, ExceedsSize, PushTimesOut, ChunkDone,
     EndWaitFails, EndFails, EndLockTimesOut, WebFails, Rest
<1>10. CASE ModuleTimeout \/ ModuleRestart \/ UNCHANGED vars
  BY <1>2, <1>10 DEF ModuleTimeout, ModuleRestart, masterVars, vars
<1> QED
  BY <1>1, <1>3, <1>5, <1>6, <1>7, <1>8, <1>9, <1>10 DEF Next, Browser, WebTask, LoopTask

(***************************************************************************)
(* The flash follows the upload                                            *)
(***************************************************************************)

\* The offset the pump goes by is the number of frames it has been given, or, left over
\* from an earlier session, one the module has not reached and will refuse.
Stale(offset) == offset > 0 /\ module.flash = <<>>

Aligned ==
    /\ IsPrefix(module.flash, digest)
    /\ pump.pc = "sending" => /\ Taken > 0 /\ pump.frames[1] = digest[Taken]
                              /\ pump.offset + 1 = Taken \/ Stale(pump.offset)
    /\ pump.pc = "sent" => pump.offset + 1 = Taken \/ Stale(pump.offset + 1)
    /\ pump.pc \notin {"sending", "sent"} => session.offset = Taken \/ Stale(session.offset)

On == session.live /\ fw /\ call.for # "begin" /\ module.active

Follows == On => Aligned

LEMMA FollowsInit == Init => Follows
BY DEF Init, Follows, On

LEMMA PrefixIs ==
  ASSUME NEW s \in Seq(Frames), NEW t \in Seq(Frames)
  PROVE  IsPrefix(s, t) <=> Len(s) <= Len(t) /\ \A k \in 1..Len(s) : s[k] = t[k]
<1>1. Len(s) \in Nat /\ Len(t) \in Nat
  OBVIOUS
<1>2. CASE Len(s) <= Len(t)
  <2>1. /\ SubSeq(s, 1, Len(s)) = [k \in 1..Len(s) |-> s[k]]
        /\ SubSeq(t, 1, Len(s)) = [k \in 1..Len(s) |-> t[k]]
    BY <1>1, <1>2
  <2> QED
    BY <1>2, <2>1 DEF IsPrefix
<1>3. CASE ~(Len(s) <= Len(t))
  BY <1>3 DEF IsPrefix
<1> QED
  BY <1>2, <1>3

\* What the module makes of BEGIN, of a frame, and of END and ABORT.
LEMMA BeginHandled ==
  ASSUME handle_frame("begin").ok
  PROVE  handle_frame("begin").module.flash = <<>>
BY DEF handle_frame, handle_fw_begin, Answer

LEMMA ChunkHandled ==
  ASSUME Types, NEW m, m = handle_frame("chunk").module, m.active
  PROVE  /\ module.active
         /\ \/ m = module /\ (handle_frame("chunk").ok => pump.offset < Len(module.flash))
            \/ /\ pump.offset = Len(module.flash)
               /\ m.flash = Append(module.flash, Head(pump.frames))
<1>t. module \in Module /\ pump.offset \in Nat /\ Len(module.flash) \in Nat
  BY DEF Types, Pump, Module
<1>o. ~Off.active /\ (fw_update_abort_local.active => FALSE)
  BY DEF Off, fw_update_abort_local
<1>1. handle_frame("chunk") = handle_fw_chunk(pump.offset, Head(pump.frames))
  BY DEF handle_frame
<1>2. CASE ~module.active
  BY <1>1, <1>2 DEF handle_fw_chunk, Answer
<1>3. CASE module.active /\ pump.offset < Len(module.flash)
  BY <1>1, <1>3 DEF handle_fw_chunk, Written, Answer
<1>4. CASE /\ module.active /\ ~(pump.offset < Len(module.flash))
           /\ pump.offset > Len(module.flash) \/ Len(module.flash) = module.limit
  BY <1>1, <1>4, <1>o DEF handle_fw_chunk, Written, Answer
<1>5. CASE /\ module.active /\ ~(pump.offset < Len(module.flash))
           /\ ~(pump.offset > Len(module.flash) \/ Len(module.flash) = module.limit)
  <2>1. m = [module EXCEPT !.flash = Append(@, Head(pump.frames))]
    BY <1>1, <1>5 DEF handle_fw_chunk, Written, Answer
  <2>2. m.flash = Append(module.flash, Head(pump.frames))
    BY <1>t, <2>1 DEF Module
  <2> QED
    BY <1>t, <1>5, <2>2
<1> QED
  BY <1>2, <1>3, <1>4, <1>5

LEMMA EndHandled ==
  ASSUME NEW op \in {"end", "abort"}, handle_frame(op).module.active
  PROVE  handle_frame(op).module = module
BY DEF handle_frame, handle_fw_end, handle_fw_abort, fw_update_abort_local, Answer, Off

\* A frame the module writes is the next of the upload.
LEMMA Grows ==
  ASSUME Types, Locked, Queued, Aligned, pump.pc = "sending",
         pump.offset = Len(module.flash), NEW flash,
         flash = Append(module.flash, Head(pump.frames))
  PROVE  flash # <<>> /\ IsPrefix(flash, digest) /\ pump.offset + 1 = Taken
<1>t. /\ module.flash \in Seq(Frames) /\ digest \in Seq(Frames) /\ queue \in Seq(Frames)
      /\ pump.frames \in Seq(Frames) /\ pump.frames # <<>>
      /\ Len(module.flash) \in Nat /\ Len(digest) \in Nat /\ Len(queue) \in Nat
  BY DEF Types, Module, Pump, Locked
<1>1. pump.offset + 1 = Taken
  <2>1. ~Stale(pump.offset)
    BY <1>t DEF Stale
  <2> QED
    BY <2>1 DEF Aligned
<1>2. Head(pump.frames) = digest[Taken] /\ Head(pump.frames) \in Frames
  BY <1>t DEF Aligned
<1>3. /\ flash \in Seq(Frames) /\ Len(flash) = Len(module.flash) + 1
      /\ \A k \in 1..Len(module.flash) : flash[k] = module.flash[k]
      /\ flash[Len(module.flash) + 1] = Head(pump.frames)
  BY <1>t, <1>2
<1>4. Len(module.flash) <= Len(digest)
      /\ \A k \in 1..Len(module.flash) : module.flash[k] = digest[k]
  BY <1>t, PrefixIs DEF Aligned
<1>5. Len(flash) <= Len(digest) /\ Len(flash) = Taken
  BY <1>t, <1>1, <1>3 DEF Taken
<1>6. ASSUME NEW k \in 1..Len(flash) PROVE flash[k] = digest[k]
  <2>1. k \in 1..Len(module.flash) \/ k = Len(module.flash) + 1
    BY <1>t, <1>3
  <2> QED
    BY <1>1, <1>2, <1>3, <1>4, <2>1
<1>7. IsPrefix(flash, digest)
  BY <1>t, <1>3, <1>5, <1>6, PrefixIs
<1>8. flash # <<>>
  BY <1>t, <1>3
<1> QED
  BY <1>1, <1>7, <1>8

\* A frame on the wire, which may arrive more than once.
LEMMA ChunkArrives ==
  ASSUME Types, Locked, Queued, Aligned, call.op = "chunk", UNCHANGED <<digest, queue>>,
         module'.active,
         \/ module' = handle_frame("chunk").module
         \/ module' = module
  PROVE  /\ IsPrefix(module'.flash, digest') /\ Taken' = Taken
         /\ \/ pump.offset + 1 = Taken
            \/ pump.offset > 0 /\ module'.flash = <<>>
         /\ module' = handle_frame("chunk").module /\ handle_frame("chunk").ok
              => pump.offset + 1 = Taken
<1>s. pump.pc = "sending"
  BY NoCallTypes DEF Locked
<1>t. /\ pump.offset \in Nat /\ module.flash \in Seq(Frames)
      /\ (module.flash = <<>> => Len(module.flash) = 0)
  BY DEF Types, Pump, Module
<1>u. Taken' = Taken
  BY DEF Taken
<1>a. /\ IsPrefix(module.flash, digest)
      /\ pump.offset + 1 = Taken \/ (pump.offset > 0 /\ module.flash = <<>>)
  BY <1>s DEF Aligned, Stale
<1>1. CASE module' = module /\ (module' = handle_frame("chunk").module /\ handle_frame("chunk").ok
                                  => pump.offset < Len(module.flash))
  BY <1>t, <1>u, <1>a, <1>1
<1>2. CASE module' = handle_frame("chunk").module
  <2>1. CASE module' = module /\ (handle_frame("chunk").ok => pump.offset < Len(module.flash))
    BY <1>1, <2>1
  <2>2. CASE /\ pump.offset = Len(module.flash)
             /\ module'.flash = Append(module.flash, Head(pump.frames))
    BY <1>s, <1>u, <2>2, Grows
  <2> QED
    BY <1>2, <2>1, <2>2, ChunkHandled
<1>3. CASE module' = module /\ module' # handle_frame("chunk").module
  BY <1>1, <1>3
<1> QED
  BY <1>2, <1>3

\* A transaction that ends and leaves the scheduler in update mode.
LEMMA FollowsReturn ==
  ASSUME Types, Locked, Queued, Updating, Follows, Transaction, Return(TRUE), On',
         call.op = call.for, handle_frame(call.op).ok,
         module' = handle_frame(call.op).module
  PROVE  Aligned'
<1>t. /\ session \in Session /\ pump \in Pump /\ web \in Web
      /\ session.offset \in Nat /\ pump.offset \in Nat
      /\ UNCHANGED <<digest, queue>>
  BY Transacts DEF Types, Session, Pump
<1>f. call.for \in {"begin", "chunk"}
  BY DEF Return, On
<1>1. CASE call.for = "begin"
  <2>1. /\ io = "web" /\ web.pc = "begin" /\ pump.pc # "sending"
    BY <1>1 DEF Locked
  <2>2. digest = <<>> /\ Len(queue) = 0 /\ Taken = 0 /\ Taken' = 0
    BY <1>t, <2>1 DEF Queued, Taken, Types
  <2>3. pump' = pump /\ session'.offset = session.offset
    BY <1>t, <2>1 DEF Return, PumpContinues, WebContinues, Session
  <2>4. module'.flash = <<>>
    BY <1>1, BeginHandled
  <2>5. IsPrefix(module'.flash, digest')
    <3>1. <<>> \in Seq(Frames) /\ Len(<<>>) = 0
      OBVIOUS
    <3>2. ASSUME NEW s \in Seq(Frames) PROVE IsPrefix(s, s)
      <4>1. Len(s) \in Nat
        OBVIOUS
      <4> QED
        BY <4>1, PrefixIs
    <3>3. digest' = <<>>
      BY <1>t, <2>2
    <3> QED
      BY <2>4, <3>1, <3>2, <3>3
  <2> QED
    BY <1>t, <2>1, <2>2, <2>3, <2>4, <2>5 DEF Aligned, Stale
<1>2. CASE call.for = "chunk"
  <2>1. io = "pump" /\ pump.pc = "sending"
    BY <1>2 DEF Locked
  <2>2. pump' = [pump EXCEPT !.pc = "sent"] /\ session' = session
    BY <1>2, <2>1 DEF Return, PumpContinues, WebContinues
  <2>3. pump'.pc = "sent" /\ pump'.offset = pump.offset
    BY <1>t, <2>2 DEF Pump
  <2>4. Aligned
    <3>1. module.active
      BY <1>2, ChunkHandled DEF On
    <3> QED
      BY <1>2, <2>2, <3>1 DEF Follows, On, Updating
  <2>5. IsPrefix(module'.flash, digest') /\ Taken' = Taken /\ pump.offset + 1 = Taken
    BY <1>2, <1>t, <2>4, ChunkArrives DEF On
  <2> QED
    BY <2>3, <2>5 DEF Aligned
<1> QED
  BY <1>f, <1>1, <1>2

\* A transaction that goes on.
LEMMA FollowsGoesOn ==
  ASSUME Types, Locked, Queued, Follows, Transaction, On',
         call'.for = call.for, UNCHANGED <<web, pump, io, session, status, fw, reply>>
  PROVE  Aligned'
<1>t. UNCHANGED <<digest, queue>> /\ call.op # "none"
      /\ (module' = handle_frame(call.op).module \/ module' = module)
  BY Transacts
<1>o. call.for # "begin" /\ call.op \in {"chunk", "end", "abort"}
  BY <1>t, NoCallTypes DEF On, Locked, Types, Call, Ops
<1>u. Taken' = Taken
  BY <1>t DEF Taken
<1>1. CASE module' = module
  <2>1. Aligned
    BY <1>1, <1>o DEF Follows, On
  <2> QED
    BY <1>1, <1>t, <1>u, <2>1 DEF Aligned, Stale
<1>2. CASE call.op \in {"end", "abort"} /\ module' # module
  BY <1>2, <1>t, EndHandled DEF On
<1>3. CASE call.op = "chunk" /\ module' = handle_frame("chunk").module
  <2>1. Aligned
    <3>1. module.active
      BY <1>3, ChunkHandled DEF On
    <3> QED
      BY <1>o, <3>1 DEF Follows, On
  <2>2. pump.pc = "sending"
    BY <1>3, NoCallTypes DEF Locked
  <2>3. /\ IsPrefix(module'.flash, digest')
        /\ \/ pump.offset + 1 = Taken
           \/ pump.offset > 0 /\ module'.flash = <<>>
    BY <1>3, <1>t, <2>1, ChunkArrives DEF On
  <2> QED
    BY <1>t, <1>u, <2>1, <2>2, <2>3 DEF Aligned, Stale
<1> QED
  BY <1>o, <1>t, <1>1, <1>2, <1>3

LEMMA FollowsStep ==
  Types /\ Locked /\ Queued /\ Updating /\ Follows /\ [Next]_vars => Follows'
<1> SUFFICES ASSUME Types, Locked, Queued, Updating, Follows, [Next]_vars, On'
             PROVE  Aligned'
  BY DEF Follows
<1>t. /\ session \in Session /\ pump \in Pump /\ module \in Module
      /\ session.offset \in Nat /\ pump.offset \in Nat
      /\ digest \in Seq(Frames) /\ queue \in Seq(Frames)
      /\ Len(digest) \in Nat /\ Len(queue) \in Nat
  BY DEF Types, Session, Pump
<1>1. CASE Transaction
  <2>1. ASSUME NEW ok \in BOOLEAN, Return(ok),
               ok => /\ call.op = call.for /\ handle_frame(call.op).ok
                     /\ module' = handle_frame(call.op).module
        PROVE  Aligned'
    <3>1. ok = TRUE
      BY <2>1 DEF Return, On
    <3>2. Return(TRUE)
      BY <2>1, <3>1
    <3> QED
      BY <1>1, <2>1, <3>1, <3>2, FollowsReturn
  <2>2. CASE call'.for = call.for /\ UNCHANGED <<web, pump, io, session, status, fw, reply>>
    BY <1>1, <2>2, FollowsGoesOn
  <2> QED
    BY <1>1, <2>1, <2>2, Transacts
\* Nothing changes that the pump and the module go by.
<1>s. ASSUME session.live, fw, call.for # "begin",
             UNCHANGED <<module, digest, queue, pump>>, session'.offset = session.offset
      PROVE  Aligned'
  <2>1. Aligned
    BY <1>s DEF Follows, On
  <2> QED
    BY <1>s, <2>1 DEF Aligned, Taken, Stale
\* The pump moves between steps that send nothing.
<1>p. ASSUME session.live, fw, call.for # "begin",
             UNCHANGED <<module, digest, queue>>, session'.offset = session.offset,
             pump.pc \notin {"sending", "sent"}, pump'.pc \notin {"sending", "sent"}
      PROVE  Aligned'
  <2>1. Aligned
    BY <1>p DEF Follows, On
  <2> QED
    BY <1>p, <2>1 DEF Aligned, Taken, Stale
\* No step outside of a transaction but moduleFwBegin enters update mode.
<1>2. CASE PumpChecks
  <2>1. /\ pump.pc = "idle" /\ pump'.pc = "lock" /\ session'.offset = session.offset
        /\ session'.live = session.live /\ UNCHANGED <<module, digest, queue, fw, call>>
    BY <1>2, <1>t DEF PumpChecks, Session, Pump
  <2> QED
    BY <1>p, <2>1 DEF On
<1>3. CASE PumpReturns
  <2>1. /\ pump.pc = "lock" /\ pump'.pc = "idle"
        /\ UNCHANGED <<module, digest, queue, fw, call, session>>
    BY <1>3, <1>t DEF PumpReturns, Pump
  <2> QED
    BY <1>p, <2>1 DEF On
<1>4. CASE PumpFails
  <2>1. /\ pump.pc = "failed" /\ pump'.pc = "abort"
        /\ UNCHANGED <<module, digest, queue, fw, call, session>>
    BY <1>4, <1>t DEF PumpFails, Pump
  <2> QED
    BY <1>p, <2>1 DEF On
<1>5. CASE PumpSends
  <2>1. /\ pump.pc = "lock" /\ io = "none" /\ queue # <<>> /\ queue' = Tail(queue)
        /\ pump' = [pc |-> IF fw THEN "sending" ELSE "failed",
                    offset |-> session.offset, frames |-> <<Head(queue)>>]
        /\ UNCHANGED <<session, digest, fw, module>>
    BY <1>5 DEF PumpSends, MaySend
  <2>2. Aligned
    BY <2>1 DEF Follows, On, Locked, NoCall
  <2>3. /\ Taken' = Taken + 1 /\ Taken \in Nat /\ Head(queue) = digest[Taken']
    BY <2>1, QueueTakes
  <2>4. /\ pump'.pc = "sending" /\ pump'.offset = session.offset
        /\ pump'.frames[1] = Head(queue)
    BY <2>1 DEF On
  <2>5. session.offset = Taken \/ Stale(session.offset)
    BY <2>1, <2>2 DEF Aligned
  <2>6. IsPrefix(module'.flash, digest')
    BY <2>1, <2>2 DEF Aligned
  <2> QED
    BY <2>1, <2>3, <2>4, <2>5, <2>6 DEF Aligned, Stale
<1>6. CASE PumpAdvances
  <2>1. /\ pump.pc = "sent" /\ pump'.pc = "idle" /\ session'.live = session.live
        /\ UNCHANGED <<module, digest, queue, fw, call>>
    BY <1>6, <1>t DEF PumpAdvances, Session, Pump
  <2>2. session'.offset = pump.offset + 1
    BY <1>6, <1>t, <2>1 DEF PumpAdvances, Session, On
  <2>3. Aligned
    BY <2>1 DEF Follows, On
  <2> QED
    BY <2>1, <2>2, <2>3 DEF Aligned, Taken, Stale
<1>7. ASSUME NEW by \in {"web", "pump"}, AbortActive(by) \/ AbortTimesOut(by), 
             pump.pc \notin {"sending", "sent"} \/ pump' = pump
      PROVE  Aligned'
  <2>1. CASE AbortActive(by)
    <3>1. session' = [session EXCEPT !.live = FALSE]
      BY <2>1 DEF AbortActive
    <3> QED
      BY <1>t, <3>1 DEF Session, On
  <2>2. CASE AbortTimesOut(by)
    <3>1. /\ UNCHANGED <<module, digest, queue, fw, call, session>>
          /\ pump' = pump \/ pump'.pc = "idle"
      BY <1>t, <2>2 DEF AbortTimesOut, Finish, Pump
    <3> QED
      BY <1>s, <1>p, <1>7, <3>1 DEF On
  <2> QED
    BY <1>7, <2>1, <2>2
<1>8. CASE PumpAborts
  BY <1>7, <1>8 DEF PumpAborts
<1>9. CASE WebAborts
  <2>1. AbortActive("web") => ~session'.live
    BY <1>t DEF AbortActive, Session
  <2>2. AbortTimesOut("web") => pump' = pump
    BY DEF AbortTimesOut, Finish
  <2> QED
    BY <1>7, <1>9, <2>1, <2>2 DEF WebAborts, On
<1>10. CASE moduleFwBegin
  BY <1>10 DEF moduleFwBegin, StartCall, On
<1>11. CASE moduleFwEnd
  <2>1. /\ UNCHANGED <<module, digest, queue, pump, session, fw>> /\ io = "none"
    BY <1>11 DEF moduleFwEnd
  <2>2. call.for # "begin"
    BY <2>1 DEF Locked, NoCall
  <2> QED
    BY <1>s, <2>1, <2>2 DEF On
<1>12. ASSUME NEW f \in Files, ChunkBegin(f) PROVE Aligned'
  <2>1. session.live \/ fw
    BY <1>12 DEF ChunkBegin, Rest, On
  <2> QED
    BY <1>s, <1>12, <2>1 DEF ChunkBegin, Rest, On
<1>13. ASSUME NEW f \in Files, NEW offset \in 0..Size[f] - 1, ChunkStart(f, offset)
       PROVE  Aligned'
  BY <1>s, <1>13 DEF ChunkStart, Rest, On
<1>14. CASE ChunkEnd
  <2>1. session'.live = session.live /\ session'.offset = session.offset
    BY <1>14, <1>t DEF ChunkEnd, Session
  <2> QED
    BY <1>s, <1>14, <2>1 DEF ChunkEnd, Rest, On
<1>15. CASE \/ EndRefused \/ ChunkAbort \/ UploadAborted \/ BeginFindsBusBusy \/ ExceedsSize
             \/ PushTimesOut \/ ChunkDone \/ EndWaitFails \/ EndFails \/ EndLockTimesOut
  <2>1. UNCHANGED <<module, digest, queue, pump, session, fw, call>>
    BY <1>15 DEF EndRefused, ChunkAbort, UploadAborted, BeginFindsBusBusy, ExceedsSize,
       PushTimesOut, ChunkDone, EndWaitFails, EndFails, EndLockTimesOut, WebFails, Rest
  <2> QED
    BY <1>s, <2>1 DEF On
<1>16. CASE QueuePush
  <2>1. /\ digest' = Append(digest, Head(web.left)) /\ queue' = Append(queue, Head(web.left))
        /\ web.left # <<>> /\ UNCHANGED <<session, pump, fw, call, module>>
    BY <1>16 DEF QueuePush, Writing, Rest
  <2>2. Head(web.left) \in Frames
    BY <2>1 DEF Types, Web
  <2>3. Taken' = Taken /\ Taken <= Len(digest) /\ \A k \in 1..Len(digest) : digest'[k] = digest[k]
    BY <2>1, <2>2, QueueTaken
  <2>4. Aligned
    BY <2>1 DEF Follows, On
  <2>5. digest' \in Seq(Frames) /\ Len(digest') = Len(digest) + 1
    BY <1>t, <2>1, <2>2
  <2>6. IsPrefix(module.flash, digest')
    <3>1. module.flash \in Seq(Frames) /\ Len(module.flash) \in Nat
      BY <1>t DEF Module
    <3>2. Len(module.flash) <= Len(digest)
          /\ \A k \in 1..Len(module.flash) : module.flash[k] = digest[k]
      BY <1>t, <2>4, <3>1, PrefixIs DEF Aligned
    <3>3. Len(module.flash) <= Len(digest')
          /\ \A k \in 1..Len(module.flash) : module.flash[k] = digest'[k]
      BY <1>t, <2>3, <2>5, <3>1, <3>2
    <3> QED
      BY <2>5, <3>1, <3>3, PrefixIs
  <2>7. pump.pc = "sending" => Taken \in 1..Len(digest)
    BY <1>t, <2>3, <2>4 DEF Aligned, Taken
  <2> QED
    BY <2>1, <2>3, <2>4, <2>6, <2>7 DEF Aligned, Stale
<1>17. CASE ModuleTimeout \/ ModuleRestart
  BY <1>17 DEF ModuleTimeout, ModuleRestart, Off, On
<1>18. CASE UNCHANGED vars
  BY <1>s, <1>18 DEF vars, masterVars, On
<1>19. CASE Browser
  BY <1>12, <1>13, <1>14, <1>15, <1>19 DEF Browser
<1>20. CASE WebTask
  BY <1>9, <1>10, <1>11, <1>15, <1>16, <1>20 DEF WebTask
<1>21. CASE LoopTask
  BY <1>2, <1>3, <1>4, <1>5, <1>6, <1>8, <1>21 DEF LoopTask
<1> QED
  BY <1>1, <1>17, <1>18, <1>19, <1>20, <1>21 DEF Next

(***************************************************************************)
(* What is reported as complete                                            *)
(***************************************************************************)

\* The module boots what it found in its flash.
LEMMA EndInstalls ==
  ASSUME handle_frame("end").ok
  PROVE  /\ module.active
         /\ \E f \in Files : module.flash = Image(f) /\ handle_frame("end").image = f
<1>1. handle_frame("end") = handle_fw_end
  BY DEF handle_frame
<1>2. module.active /\ \E f \in Files : module.flash = Image(f)
  BY <1>1 DEF handle_fw_end, Answer
<1>3. handle_frame("end").image = CHOOSE f \in Files : module.flash = Image(f)
  BY <1>1, <1>2 DEF handle_fw_end, Answer
<1> QED
  BY <1>2, <1>3

\* Two images of which one begins as the other are of one file.
LEMMA ImageOf ==
  ASSUME NEW f \in Files, NEW g, Image(g) \in Seq(Frames), IsPrefix(Image(f), Image(g))
  PROVE  f = g
<1>1. Size[f] \in Nat \ {0}
  BY FilesAssumption
<1>2. Image(f) \in Seq(Frames) /\ Len(Image(f)) = Size[f]
  BY ImageFrames
<1>3. Len(Image(g)) \in Nat /\ Len(Image(g)) >= 1 /\ Image(f)[1] = Image(g)[1]
  BY <1>1, <1>2, PrefixIs
<1>4. 1 \in DOMAIN Image(g)
  BY <1>3
<1>5. Image(f)[1] = <<f, 1>>
  BY <1>1 DEF Image
<1>6. Image(g)[1] = <<g, 1>>
  BY <1>4 DEF Image
<1>7. <<f, 1>> = <<g, 1>>
  BY <1>3, <1>5, <1>6
<1> QED
  BY <1>7

\* Only the end of an FW_END transaction reports an update as complete.
LEMMA CompleteReturns ==
  ASSUME Types, Locked, Queued, [Next]_vars, reply # "complete", reply' = "complete"
  PROVE  /\ call.for = "end" /\ call.op = "end" /\ handle_frame("end").ok
         /\ image' = handle_frame("end").image
<1>1. ASSUME NEW ok, WebReplies(ok) PROVE ok /\ web.of = "end"
  BY <1>1 DEF WebReplies, Success
<1>2. CASE Transaction
  <2>1. PICK ok \in BOOLEAN :
               /\ Return(ok)
               /\ ok => /\ call.op = call.for /\ handle_frame(call.op).ok
                        /\ image' = handle_frame(call.op).image
    BY <1>2, Transacts
  <2>2. WebContinues(ok)
    BY <2>1 DEF Return, PumpContinues
  <2>3. ok /\ call.for = web.of /\ web.of = "end"
    <3>1. WebReplies(ok /\ call.for = web.of)
      BY <2>2 DEF WebContinues
    <3> QED
      BY <1>1, <3>1
  <2> QED
    BY <2>1, <2>3
<1>3. ASSUME NEW by \in {"web", "pump"} PROVE ~(AbortActive(by) \/ AbortTimesOut(by))
  BY <1>1 DEF AbortActive, AbortTimesOut, Finish
<1>4. ~(PumpAborts \/ WebAborts)
  BY <1>3 DEF PumpAborts, WebAborts
<1>5. ~ChunkDone
  <2>1. ASSUME ChunkDone PROVE FALSE
    <3>1. web.pc = "chunk" /\ web.of = "end"
      BY <1>1, <2>1 DEF ChunkDone
    <3> QED
      BY <3>1 DEF Queued
  <2> QED
    BY <2>1
<1>6. ~(EndWaitFails \/ EndLockTimesOut)
  BY <1>1 DEF EndWaitFails, EndLockTimesOut
<1>7. ~LoopTask
  BY <1>4 DEF LoopTask, PumpChecks, PumpSends, PumpReturns, PumpAdvances, PumpFails
<1>8. ~WebTask
  BY <1>4, <1>5, <1>6 DEF WebTask, moduleFwBegin, BeginFindsBusBusy, QueuePush, ExceedsSize,
     PushTimesOut, moduleFwEnd, EndFails, WebFails
<1>9. ~Browser
  BY DEF Browser, ChunkBegin, ChunkStart, UploadAborted, ChunkEnd, EndRefused, ChunkAbort,
     Request, Refuse, WebFails
<1>10. ~(ModuleTimeout \/ ModuleRestart \/ UNCHANGED vars)
  BY DEF ModuleTimeout, ModuleRestart, masterVars, vars
<1> QED
  BY <1>2, <1>7, <1>8, <1>9, <1>10 DEF Next

(***************************************************************************)
(* Theorems                                                                *)
(***************************************************************************)

Inv == Types /\ Locked /\ NothingSentAfterSession /\ Queued /\ Updating /\ Follows

\* The inductive invariant: who holds the I/O lock and for what, that the queue is the end
\* of what the browser has sent, that the scheduler is in update mode while it sends, and
\* that a frame the pump holds is the next of the upload or one the module will refuse.
THEOREM Invariant == Safety => []Inv
<1>1. Init => Inv
  <2>1. Init => NothingSentAfterSession
    BY DEF Init, NothingSentAfterSession, NoCall
  <2> QED
    BY <2>1, TypesInit, LockedInit, QueuedInit, FollowsInit DEF Inv
<1>2. Inv /\ [Next]_vars => Inv'
  BY TypesStep, LockedStep, NothingStep, QueuedStep, UpdatingStep, FollowsStep DEF Inv
<1> QED
  BY <1>1, <1>2, PTL DEF Safety

\* The records of both tasks, of the transaction and of the module keep their types, and
\* the queue never holds more than its capacity.
THEOREM TypeCorrect == Safety => []TypeOK
<1>1. Inv => TypeOK
  <2> SUFFICES ASSUME Inv PROVE TypeOK
    OBVIOUS
  <2>t. Types /\ Locked
    BY DEF Inv
  <2>1. \/ call = NoCall
        \/ call.op \in {call.for, "abort"} /\ call.left \in 1..Attempts[call.op]
    <3>1. CASE io = "none"
      BY <2>t, <3>1 DEF Locked
    <3>2. CASE io # "none"
      <4>1. call.for # "none" /\ call.op \in {call.for, "abort"}
        BY <2>t, <3>2 DEF Locked
      <4>2. call.left \in 1..Attempts[call.op]
        BY <2>t, <4>1 DEF Types
      <4> QED
        BY <4>1, <4>2
    <3> QED
      BY <3>1, <3>2
  <2>2. /\ web.pc \in {"idle", "begin", "chunk", "end", "abort"}
        /\ web.of \in {"none", "begin", "chunk", "end", "abort"}
        /\ web.left \in Seq(Frames)
    BY <2>t DEF Types, Web
  <2>3. /\ pump.pc \in {"idle", "lock", "sending", "sent", "failed", "abort"}
        /\ pump.offset \in Nat
    BY <2>t DEF Types, Pump
  <2>4. session.live \in BOOLEAN /\ session.offset \in Nat
    BY <2>t DEF Types, Session
  <2>5. module.flash \in Seq(Frames)
    BY <2>t DEF Types, Module
  <2>6. /\ io \in {"none", "web", "pump"} /\ status \in BOOLEAN /\ fw \in BOOLEAN
        /\ digest \in Seq(Frames) /\ queue \in Seq(Frames) /\ Len(queue) <= Capacity
        /\ image \in Files \cup {Factory}
    BY <2>t DEF Types
  <2> QED
    BY <2>1, <2>2, <2>3, <2>4, <2>5, <2>6 DEF TypeOK
<1> QED
  BY <1>1, Invariant, PTL

\* No frame and no FW_END of a session leaves the master once the session has been aborted.
THEOREM NothingCorrect == Safety => []NothingSentAfterSession
<1>1. Inv => NothingSentAfterSession
  BY DEF Inv
<1> QED
  BY <1>1, Invariant, PTL

\* Whatever is lost on the bus, the flash of the module holds the beginning of what the
\* browser has sent in this session.
THEOREM FollowsCorrect == Safety => []FlashFollowsUpload
<1>1. Inv => FlashFollowsUpload
  BY DEF Inv, Follows, On, Aligned, FlashFollowsUpload
<1> QED
  BY <1>1, Invariant, PTL

\* An update reported as complete has been installed: the module boots the file whose
\* signature the session was begun with.
THEOREM SuccessCorrect == Safety => SuccessMeansInstalled
<1>1. Inv /\ [Next]_vars => [reply = "none" /\ reply' = "complete" => image' = session.file]_vars
  <2> SUFFICES ASSUME Inv, [Next]_vars, reply = "none", reply' = "complete"
               PROVE  image' = session.file
    OBVIOUS
  <2>t. Types /\ Locked /\ Queued /\ Updating /\ Follows /\ NothingSentAfterSession
    BY DEF Inv
  <2>1. /\ call.for = "end" /\ call.op = "end" /\ handle_frame("end").ok
        /\ image' = handle_frame("end").image
    BY <2>t, CompleteReturns
  <2>2. web.pc = "end" /\ session.live /\ fw
    BY <2>t, <2>1 DEF Locked, Updating, NothingSentAfterSession
  <2>3. module.active
    BY <2>1, EndInstalls
  <2>4. PICK f \in Files : module.flash = Image(f) /\ image' = f
    BY <2>1, EndInstalls
  <2>5. IsPrefix(module.flash, digest)
    BY <2>t, <2>1, <2>2, <2>3 DEF Follows, On, Aligned
  <2>6. digest = Image(session.file) /\ digest \in Seq(Frames)
    BY <2>t, <2>2 DEF Queued, Types
  <2>7. f = session.file
    BY <2>4, <2>5, <2>6, ImageOf
  <2> QED
    BY <2>4, <2>7
<1> QED
  BY <1>1, Invariant, PTL DEF Safety, SuccessMeansInstalled
====
