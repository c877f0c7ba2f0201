------------------------------ MODULE ModuleUpdate ------------------------------
(***************************************************************************)
(* The firmware update of a bus module: the HTTP task takes the blocks of  *)
(* a browser into a queue (WebUpdate.inc.h), the pump of the loop task     *)
(* sends them frame by frame (module_update_pump), both use the same       *)
(* scheduler transactions (moduleFwBegin/Chunk/End/Abort) under one I/O    *)
(* lock, and the module (FanIoModule.ino) writes what arrives to its       *)
(* flash.  Requests and answers on the bus get lost; the module gives up   *)
(* by itself, loses power, and the browser stops wherever it likes.        *)
(*                                                                         *)
(* The unit of data is a frame: <<f, k>> is the k-th frame of file f.  A   *)
(* transaction is under way exactly while the lock is held.                *)
(***************************************************************************)
EXTENDS Integers, Sequences, SequencesExt

CONSTANTS Files,        \* the files browsers send
          Size,         \* frames of each file
          Block,        \* frames of an HTTP block; also the fill level the pump waits for
          Capacity,     \* frames the queue holds
          Attempts,     \* of a request, per operation
          Factory       \* what the module runs before its first update

Ops == {"begin", "chunk", "end", "abort"}

ASSUME FilesAssumption == Factory \notin Files /\ Size \in [Files -> Nat \ {0}]
ASSUME BoundsAssumption == /\ Block \in Nat \ {0}
                           /\ Capacity \in Nat /\ Capacity >= Block
                           /\ Attempts \in [Ops -> Nat \ {0}]

VARIABLES web,      \* the HTTP task: what it does, for which request, and the frames it still has to queue
          pump,     \* the pump: what it does and the offset it works on
          io,       \* who holds the I/O lock
          session,  \* module_update_addr # 0, _offset, _size, _stream_started, the file its signature is
                    \* for and whether that has been checked (module_update_auth)
          status,   \* update_status_msg holds a message
          digest,   \* the frames queued in this session: module_update_auth, module_update_queued_offset
          queue,
          call,     \* the transaction: for which operation, the request it repeats, attempts left
          fw,       \* module_fw_active_
          module,   \* fw_update_active, the Update library running, its size, the frames written
          image,    \* what the module boots
          reply     \* "complete" after a successful END, "cancelled" after a successful abort

masterVars == <<web, pump, io, session, status, digest, queue, call, fw, reply>>
vars == <<masterVars, module, image>>

Image(f) == [k \in 1..Size[f] |-> <<f, k>>]
Smaller(m, n) == IF m < n THEN m ELSE n

Frames == UNION {Range(Image(f)) : f \in Files}

NoCall == [for |-> "none", op |-> "none", left |-> 0]
Idle == [pc |-> "idle", of |-> "none", left |-> <<>>]
Off == [active |-> FALSE, running |-> FALSE, limit |-> 0, flash |-> <<>>]

Init == /\ web = Idle
        /\ pump = [pc |-> "idle", offset |-> 0, frames |-> <<>>]
        /\ io = "none"
        /\ session = [live |-> FALSE, offset |-> 0, size |-> 0, started |-> FALSE,
                       file |-> Factory, finished |-> FALSE]
        /\ status = FALSE
        /\ digest = <<>>
        /\ queue = <<>>
        /\ call = NoCall
        /\ fw = FALSE
        /\ module = Off
        /\ image = Factory
        /\ reply = "none"

---------------------------------------------------------------------------------
\* The module's handlers: what becomes of the module, what it boots, and
\* whether the answer is STATUS_OK.

Answer(m, i, good) == [module |-> m, image |-> i, ok |-> good]

\* A BEGIN that finds the library running (an update nobody ended) clears only
\* the module's own flag: Update.begin refuses, and nothing aborts the library.
handle_fw_begin(size) ==
    IF module.active /\ module.flash = <<>> THEN Answer(module, image, TRUE)
    ELSE IF module.running THEN Answer([Off EXCEPT !.running = TRUE], image, FALSE)
    ELSE Answer([active |-> TRUE, running |-> TRUE, limit |-> size, flash |-> <<>>], image, TRUE)

fw_update_abort_local == IF module.active THEN Off ELSE module

\* A repeated frame is taken for a new one.
WrittenNever(offset) == FALSE

\* A repeated frame, whose answer was lost, is answered again and not written.
Written(offset) == offset < Len(module.flash)

handle_fw_chunk(offset, frame) ==
    IF ~module.active THEN Answer(module, image, FALSE)
    ELSE IF Written(offset) THEN Answer(module, image, TRUE)
    ELSE IF offset > Len(module.flash) \/ Len(module.flash) = module.limit
      THEN Answer(fw_update_abort_local, image, FALSE)
    ELSE Answer([module EXCEPT !.flash = Append(@, frame)], image, TRUE)

\* Update.end checks the image it finds (external); a good one is booted.
handle_fw_end ==
    IF ~module.active THEN Answer(module, image, FALSE)
    ELSE IF \E f \in Files : module.flash = Image(f)
      THEN Answer(Off, CHOOSE f \in Files : module.flash = Image(f), TRUE)
    ELSE Answer(Off, image, FALSE)

handle_fw_abort == Answer(fw_update_abort_local, image, TRUE)

handle_frame(op) == CASE op = "begin" -> handle_fw_begin(session.size)
                      [] op = "chunk" -> handle_fw_chunk(pump.offset, Head(pump.frames))
                      [] op = "end"   -> handle_fw_end
                      [] op = "abort" -> handle_fw_abort

\* fw_update_check_timeout, 30 s without a frame; or the module loses power.
ModuleTimeout == /\ module.active
                 /\ module' = Off
                 /\ UNCHANGED <<masterVars, image>>

ModuleRestart == /\ module # Off
                 /\ module' = Off
                 /\ UNCHANGED <<masterVars, image>>

---------------------------------------------------------------------------------
\* A transaction of the scheduler.  Each attempt reaches the module or not, and
\* its answer arrives or not; an operation that fails sends FW_ABORT itself.

StartCall(by, op) == /\ io' = by
                     /\ call' = [for |-> op, op |-> op, left |-> Attempts[op]]

\* What the caller does with the result; module_fw_active_ stays set only after
\* a BEGIN or a CHUNK that went well.
PumpContinues(ok) ==
    /\ io = "pump"
    /\ pump' = [pump EXCEPT !.pc = CASE call.for = "abort" -> "idle"
                                     [] call.for = "chunk" /\ ok -> "sent"
                                     [] OTHER -> "failed"]
    /\ UNCHANGED <<web, session, status, reply>>

Success(ok) == IF ~ok THEN "none"
               ELSE IF web.of = "end" THEN "complete"
               ELSE IF web.of = "abort" THEN "cancelled" ELSE "none"

WebReplies(ok) == web' = Idle /\ reply' = Success(ok)

WebContinues(ok) ==
    /\ io = "web"
    /\ IF ok \/ call.for = "abort"
       THEN WebReplies(ok /\ call.for = web.of) /\ UNCHANGED status
       ELSE web' = [web EXCEPT !.pc = "abort"] /\ status' = TRUE /\ UNCHANGED reply
    /\ session' = [session EXCEPT !.live = @ /\ ~(ok /\ call.for = "end")]
    /\ UNCHANGED pump

\* The scheduler leaves update mode only when the module confirms.
ReturnConfirmed(ok) == /\ io' = "none"
                       /\ call' = NoCall
                       /\ fw' = (IF call.for = "abort" THEN ~ok ELSE ok /\ call.for # "end")
                       /\ PumpContinues(ok) \/ WebContinues(ok)

Return(ok) == /\ io' = "none"
              /\ call' = NoCall
              /\ fw' = (ok /\ call.for \in {"begin", "chunk"})
              /\ PumpContinues(ok) \/ WebContinues(ok)

GiveUp == IF call.op = "abort"
          THEN Return(FALSE)
          ELSE /\ call' = [call EXCEPT !.op = "abort", !.left = Attempts["abort"]]
               /\ UNCHANGED <<web, pump, io, session, status, fw, reply>>

Reaches == LET answer == handle_frame(call.op)
           IN  module' = answer.module /\ image' = answer.image

Answered == /\ call.op # "none"
            /\ Reaches
            /\ IF handle_frame(call.op).ok
               THEN Return(call.op = call.for)
               ELSE GiveUp
            /\ UNCHANGED <<digest, queue>>

Unanswered == /\ call.op # "none"
              /\ Reaches \/ UNCHANGED <<module, image>>
              /\ IF call.left > 1
                 THEN /\ call' = [call EXCEPT !.left = @ - 1]
                      /\ UNCHANGED <<web, pump, io, session, status, fw, reply>>
                 ELSE GiveUp
              /\ UNCHANGED <<digest, queue>>

\* module_update_abort_active, once it holds the lock.  Nothing is sent when the
\* scheduler has given the update up already.
Finish(by, ok) ==
    IF by = "pump" THEN pump' = [pump EXCEPT !.pc = "idle"] /\ UNCHANGED <<web, reply>>
                   ELSE WebReplies(ok) /\ UNCHANGED pump

\* Does not wait for the transaction of the other task.
AbortActiveAtOnce(by) == /\ session' = [session EXCEPT !.live = FALSE]
                         /\ queue' = <<>>
                         /\ IF fw /\ io = "none"
                            THEN StartCall(by, "abort") /\ UNCHANGED <<web, pump, reply>>
                            ELSE Finish(by, FALSE) /\ UNCHANGED <<io, call>>
                         /\ UNCHANGED <<status, digest, fw, module, image>>

AbortActive(by) == /\ io = "none"
                   /\ session' = [session EXCEPT !.live = FALSE]
                   /\ queue' = <<>>
                   /\ IF fw THEN StartCall(by, "abort") /\ UNCHANGED <<web, pump, reply>>
                            ELSE Finish(by, by = "web" /\ web.of = "abort") /\ UNCHANGED <<io, call>>
                   /\ UNCHANGED <<status, digest, fw, module, image>>

\* The lock is not had within 8 s.
AbortTimesOut(by) == /\ io \notin {"none", by}
                     /\ status' = TRUE
                     /\ Finish(by, FALSE)
                     /\ UNCHANGED <<io, session, digest, queue, call, fw, module, image>>

---------------------------------------------------------------------------------
\* The pump, once per round of the loop and frame.

Prefilled == \/ session.started
             \/ Len(digest) >= session.size
             \/ Len(queue) >= Block

PumpChecks == /\ pump.pc = "idle"
              /\ session.live /\ ~status
              /\ Prefilled /\ queue # <<>>
              /\ session' = [session EXCEPT !.started = TRUE]
              /\ pump' = [pump EXCEPT !.pc = "lock"]
              /\ UNCHANGED <<web, io, status, digest, queue, call, fw, reply, module, image>>

\* The HTTP task may have ended the session while the pump waited for the lock.
MaySend == session.live /\ ~status /\ queue # <<>>

PumpSends == /\ pump.pc = "lock" /\ io = "none"
             /\ MaySend
             /\ queue' = Tail(queue)
             /\ pump' = [pc |-> IF fw THEN "sending" ELSE "failed",
                         offset |-> session.offset, frames |-> <<Head(queue)>>]
             /\ IF fw THEN StartCall("pump", "chunk") ELSE UNCHANGED <<io, call>>
             /\ UNCHANGED <<web, session, status, digest, fw, reply, module, image>>

PumpReturns == /\ pump.pc = "lock"
               /\ io = "web" \/ ~MaySend
               /\ pump' = [pump EXCEPT !.pc = "idle"]
               /\ UNCHANGED <<web, io, session, status, digest, queue, call, fw, reply, module, image>>

\* The lock is free again when the offset is stored.
PumpAdvances == /\ pump.pc = "sent"
                /\ session' = IF session.live THEN [session EXCEPT !.offset = pump.offset + 1] ELSE session
                /\ pump' = [pump EXCEPT !.pc = "idle"]
                /\ UNCHANGED <<web, io, status, digest, queue, call, fw, reply, module, image>>

\* module_update_fail_from_pump
PumpFails == /\ pump.pc = "failed"
             /\ status' = TRUE
             /\ pump' = [pump EXCEPT !.pc = "abort"]
             /\ UNCHANGED <<web, io, session, digest, queue, call, fw, reply, module, image>>

PumpAborts == /\ pump.pc = "abort"
              /\ AbortActive("pump") \/ AbortTimesOut("pump")

---------------------------------------------------------------------------------
\* The HTTP task: one request at a time.

Request(op) == web.pc = "idle" /\ web' = [Idle EXCEPT !.of = op, !.pc = op] /\ reply' = "none"

Refuse == web.pc = "idle" /\ reply' = "none" /\ UNCHANGED web

Rest == UNCHANGED <<pump, io, call, fw, module, image>>

\* web_handle_module_chunk_begin up to the lock.
ChunkBegin(f) == /\ IF session.live \/ fw
                    THEN Refuse /\ UNCHANGED <<session, status, digest, queue>>
                    ELSE /\ Request("begin")
                         /\ session' = [live |-> TRUE, offset |-> 0, size |-> Size[f],
                                        started |-> FALSE, file |-> f, finished |-> FALSE]
                         /\ status' = FALSE
                         /\ digest' = <<>> /\ queue' = <<>>
                 /\ Rest

moduleFwBegin == /\ web.pc = "begin" /\ io = "none"
                 /\ StartCall("web", "begin")
                 /\ fw' = TRUE
                 /\ UNCHANGED <<web, pump, session, status, digest, queue, reply, module, image>>

\* moduleFwBegin waits a second for the bus and then fails without a request.
BeginFindsBusBusy == /\ web.pc = "begin" /\ io = "none"
                     /\ web' = [web EXCEPT !.pc = "abort"]
                     /\ status' = TRUE
                     /\ UNCHANGED <<session, digest, queue, reply>> /\ Rest

\* web_handle_module_chunk_upload: the START callback clears the last message
\* and accepts a block only where the session stands; the WRITE callbacks bring
\* the block, the END callback answers.
ChunkStart(f, offset) ==
    /\ IF session.live /\ offset = Len(digest)
       THEN /\ web.pc = "idle" /\ reply' = "none"
            /\ web' = [pc |-> "chunk", of |-> "chunk",
                       left |-> SubSeq(Image(f), offset + 1, Smaller(offset + Block, Size[f]))]
            /\ status' = FALSE
       ELSE Refuse /\ status' = TRUE
    /\ UNCHANGED <<session, digest, queue>> /\ Rest

Writing == web.pc = "chunk" /\ web.left # <<>> /\ ~status

WebFails == /\ web' = [web EXCEPT !.pc = "abort"]
            /\ status' = TRUE
            /\ UNCHANGED <<session, digest, queue, reply>> /\ Rest

\* Writes into a full queue.
QueuePushUnbounded == /\ Writing
                      /\ Len(digest) < session.size
                      /\ digest' = Append(digest, Head(web.left))
                      /\ queue' = Append(queue, Head(web.left))
                      /\ web' = [web EXCEPT !.left = Tail(@)]
                      /\ UNCHANGED <<session, status, reply>> /\ Rest

\* module_update_queue_push writes before it looks whether the session lives.
QueuePush == /\ Writing
             /\ Len(digest) < session.size /\ Len(queue) < Capacity
             /\ digest' = Append(digest, Head(web.left))
             /\ queue' = Append(queue, Head(web.left))
             /\ web' = [web EXCEPT !.left = Tail(@)]
             /\ UNCHANGED <<session, status, reply>> /\ Rest

ExceedsSize == Writing /\ Len(digest) >= session.size /\ WebFails

PushTimesOut == Writing /\ Len(queue) = Capacity /\ WebFails

UploadAborted == web.pc = "chunk" /\ WebFails

ChunkDone == /\ web.pc = "chunk" /\ (web.left = <<>> \/ status)
             /\ WebReplies(session.live /\ ~status)
             /\ UNCHANGED <<session, status, digest, queue>> /\ Rest

\* web_handle_module_chunk_end: the signature over everything that was queued,
\* then module_update_wait_sent, then FW_END.
\* Only the length is compared.
SameLength == Len(digest) = session.size

Authentic == digest = Image(session.file)

ChunkEnd == /\ session.live => Authentic /\ ~session.finished
            /\ IF session.live THEN Request("end") ELSE Refuse
            /\ session' = [session EXCEPT !.finished = @ \/ session.live]
            /\ UNCHANGED <<status, digest, queue>> /\ Rest

\* Not what was signed, or finished before.
EndRefused == /\ session.live /\ (~Authentic \/ session.finished)
              /\ web.pc = "idle" /\ reply' = "none"
              /\ web' = [Idle EXCEPT !.of = "end", !.pc = "abort"]
              /\ status' = TRUE
              /\ UNCHANGED <<session, digest, queue>> /\ Rest

Drained == session.live /\ ~status /\ session.offset >= Len(digest)

moduleFwEnd == /\ web.pc = "end"
               /\ Drained /\ session.offset = session.size
               /\ io = "none" /\ fw
               /\ StartCall("web", "end")
               /\ UNCHANGED <<web, pump, session, status, digest, queue, fw, reply, module, image>>

\* The session ended, or failed, while the handler waited.
EndWaitFails == /\ web.pc = "end" /\ io # "web"
                /\ ~session.live \/ status
                /\ WebReplies(FALSE)
                /\ UNCHANGED <<session, status, digest, queue>> /\ Rest

\* 30 s without the queue drained, a size that does not match, or an update the
\* scheduler has given up.
EndFails == /\ web.pc = "end" /\ io # "web"
            /\ session.live /\ ~status
            /\ session.offset # session.size \/ (io = "none" /\ ~fw)
            /\ WebFails

EndLockTimesOut == /\ web.pc = "end" /\ io = "pump"
                   /\ Drained /\ session.offset = session.size
                   /\ status' = TRUE
                   /\ WebReplies(FALSE)
                   /\ UNCHANGED <<session, digest, queue>> /\ Rest

\* web_handle_module_chunk_abort
ChunkAbort == /\ Request("abort")
              /\ status' = TRUE
              /\ UNCHANGED <<session, digest, queue>> /\ Rest

WebAborts == /\ web.pc = "abort" /\ io # "web"
             /\ AbortActive("web") \/ AbortTimesOut("web")

---------------------------------------------------------------------------------
Browser == \/ \E f \in Files : ChunkBegin(f)
           \/ \E f \in Files : \E offset \in 0..Size[f] - 1 : ChunkStart(f, offset)
           \/ UploadAborted
           \/ ChunkEnd \/ EndRefused
           \/ ChunkAbort

WebTask == \/ moduleFwBegin \/ BeginFindsBusBusy
           \/ QueuePush \/ ExceedsSize \/ PushTimesOut \/ ChunkDone
           \/ moduleFwEnd \/ EndWaitFails \/ EndFails \/ EndLockTimesOut
           \/ WebAborts

LoopTask == \/ PumpChecks \/ PumpSends \/ PumpReturns \/ PumpAdvances
            \/ PumpFails \/ PumpAborts

Transaction == Answered \/ Unanswered

Next == Browser \/ WebTask \/ LoopTask \/ Transaction \/ ModuleTimeout \/ ModuleRestart

Safety == Init /\ [][Next]_vars

\* The tasks go on, and a transaction ends because its attempts are counted.
Spec == /\ Safety
        /\ WF_vars(WebTask) /\ WF_vars(LoopTask) /\ WF_vars(Transaction)

\* A browser that stays on its page: it sends what is missing and ends the update, as
\* long as nothing has failed (sendModule).  When something has, the page aborts the
\* update once and does not look at the result, or not at all if the begin failed:
\* nothing is assumed of that.
Continues == /\ session.live /\ ~status
             /\ IF Len(digest) < session.size THEN ChunkStart(session.file, Len(digest))
                                              ELSE ChunkEnd \/ EndRefused

BrowserSpec == Spec /\ SF_vars(Continues)

---------------------------------------------------------------------------------
TypeOK == /\ web.pc \in {"idle", "begin", "chunk", "end", "abort"}
          /\ web.of \in {"none", "begin", "chunk", "end", "abort"}
          /\ web.left \in Seq(Frames)
          /\ pump.pc \in {"idle", "lock", "sending", "sent", "failed", "abort"}
          /\ pump.offset \in Nat
          /\ io \in {"none", "web", "pump"}
          /\ session.live \in BOOLEAN /\ session.offset \in Nat
          /\ status \in BOOLEAN /\ fw \in BOOLEAN
          /\ digest \in Seq(Frames) /\ queue \in Seq(Frames) /\ Len(queue) <= Capacity
          /\ \/ call = NoCall
             \/ call.op \in {call.for, "abort"} /\ call.left \in 1..Attempts[call.op]
          /\ module.flash \in Seq(Frames)
          /\ image \in Files \cup {Factory}

\* A module that is being updated has written the frames of this session, each
\* once and in the order the browser sent them, however many requests and
\* answers were lost, and never a frame of a session that was aborted.
FlashFollowsUpload ==
    session.live /\ fw /\ call.for # "begin" /\ module.active => IsPrefix(module.flash, digest)

\* No frame is sent, and the update is not ended, once the session is over: the
\* abort waits for the transaction of the other task ("Stop the producer and
\* consumer before FW_ABORT is sent").
NothingSentAfterSession == call.op \in {"chunk", "end"} => session.live

\* An update is reported as complete only when the module boots the file whose
\* signature was given at its begin.
SuccessMeansInstalled == [][reply = "none" /\ reply' = "complete" => image' = session.file]_vars

\* No request of the browser hangs: the tasks never block each other for good.  While
\* an update is active the scheduler polls no input of any module: an upload that its
\* browser carries on with leaves that mode, or it fails and the browser is told,
\* whatever gets lost.  One abort that is not kept from the bus leaves that mode too,
\* though the module never confirms it; nothing asks for another.
UpdateEnds == /\ web.pc # "idle" ~> web.pc = "idle"
              /\ fw ~> (~fw \/ status \/ ~session.live)
              /\ call.for = "abort" ~> ~fw
=================================================================================
