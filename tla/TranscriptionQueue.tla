------------------------- MODULE TranscriptionQueue -------------------------
(***************************************************************************)
(* Live transcription of one recording. Speech segments pass from the      *)
(* pipeline through a small handoff to a disk writer, are read back by the *)
(* dispatcher, and are recognised one by one by a worker behind a channel  *)
(* of one. Stop closes the queue, waits for the task to drain, cancels it  *)
(* when that takes too long, and says whether the transcript is complete.  *)
(*                                                                         *)
(* The steps are those of the code between two accesses to shared memory   *)
(* (the atomics of QueueShared, Notify, the channel): sender, receiver and *)
(* worker run on different threads.                                        *)
(***************************************************************************)
EXTENDS Integers, Sequences, FiniteSets

CONSTANTS
  S,           \* speech segments of the meeting
  HandoffCap,  \* segments in memory for the disk writer (8 in the code)
  MaxFaults    \* bound: failures in one behaviour

ASSUME QueueAssumption ==
  /\ S \in Nat \ {0} /\ HandoffCap \in Nat \ {0} /\ MaxFaults \in Nat

Segment == 1 .. S
None == 0

VARIABLES
  said,        \* segments the pipeline has produced: 1 .. said
  handoff,     \* the mpsc channel of BufferedSpool
  writer,      \* its worker: pc and segment
  disk,        \* the segments ever published, in order of sequence number
  nextWrite,   \* QueueShared.next_write
  closed,      \* QueueShared.closed
  permit,      \* a stored notify_one
  woken,       \* notify_waiters came after the receiver's future was created
  recv,        \* where TranscriptionQueueReceiver::recv is
  nextRead,
  dispatcher,  \* the task of start_transcription_task: pc and segment
  channel,     \* the mpsc channel of capacity 1
  worker,      \* the transcription worker: pc and segment
  counts,      \* chunks_queued and chunks_completed of the task
  metrics,     \* TranscriptionMetrics: queued, completed, failed
  cancelled,   \* the CancellationToken
  stop,        \* how far stop_recording is
  incomplete,  \* transcription_incomplete
  transcript,  \* segments the engine answered, in order (an empty answer and
               \* AudioTooShort are answers: nothing was lost)
  slow,        \* recognition can outlast the 120 s drain of Stop
  faults

senderVars == <<said, handoff, writer, disk, nextWrite, closed>>
notifyVars == <<permit, woken>>
receiverVars == <<recv, nextRead>>
taskVars == <<dispatcher, channel, counts, cancelled>>
workVars == <<worker, transcript>>
stopVars == <<stop, incomplete, slow>>
vars == <<senderVars, notifyVars, receiverVars, taskVars, workVars, metrics, stopVars, faults>>

At(pc, segment) == [pc |-> pc, segment |-> segment]

TypeOK ==
  /\ said \in 0 .. S
  /\ handoff \in Seq(Segment) /\ Len(handoff) <= HandoffCap
  /\ writer \in [pc : {"idle", "write", "account", "notify", "gone"}, segment : 0 .. S]
  /\ disk \in Seq(Segment)
  /\ nextWrite \in 0 .. Len(disk)
  /\ nextRead \in 0 .. nextWrite
  /\ closed \in BOOLEAN /\ permit \in BOOLEAN /\ woken \in BOOLEAN
  /\ recv \in {"top", "closed?", "listen", "recheck", "closed??", "wait", "read", "none"}
  /\ dispatcher \in [pc : {"init", "recv", "count", "send", "join", "done"}, segment : 0 .. S]
  /\ channel \in Seq(Segment) /\ Len(channel) <= 1
  /\ worker \in [pc : {"idle", "busy", "finished", "dead"}, segment : 0 .. S]
  /\ counts \in [queued : 0 .. S, completed : 0 .. S]
  /\ metrics \in [queued : 0 .. S, completed : 0 .. S, failed : Nat]
  /\ cancelled \in BOOLEAN /\ incomplete \in BOOLEAN /\ slow \in BOOLEAN
  /\ stop \in {"recording", "finishing", "draining", "grace", "stopped"}
  /\ transcript \in Seq(Segment)
  /\ faults \in 0 .. MaxFaults

Init ==
  /\ said = 0 /\ handoff = <<>> /\ writer = At("idle", None)
  /\ disk = <<>> /\ nextWrite = 0 /\ closed = FALSE
  /\ permit = FALSE /\ woken = FALSE
  /\ recv = "top" /\ nextRead = 0
  /\ dispatcher = At("init", None) /\ channel = <<>>
  /\ counts = [queued |-> 0, completed |-> 0] /\ cancelled = FALSE
  /\ worker = At("idle", None) /\ transcript = <<>>
  /\ metrics = [queued |-> 0, completed |-> 0, failed |-> 0]
  /\ stop = "recording" /\ incomplete = FALSE
  /\ slow \in BOOLEAN /\ faults = 0

Fault == faults < MaxFaults /\ faults' = faults + 1
Failed == [metrics EXCEPT !.failed = @ + 1]

-----------------------------------------------------------------------------
(* The sender: BufferedSpool and TranscriptionQueueSender.                   *)

Say ==
  /\ stop = "recording" /\ said < S
  /\ said' = said + 1
  /\ IF Len(handoff) < HandoffCap
     THEN handoff' = Append(handoff, said + 1) /\ UNCHANGED metrics
     ELSE metrics' = Failed /\ UNCHANGED handoff
  /\ UNCHANGED <<writer, disk, nextWrite, closed, notifyVars, receiverVars, taskVars,
                 workVars, stopVars, faults>>

TakeSegment ==
  /\ writer.pc = "idle" /\ handoff # <<>>
  /\ writer' = At("write", Head(handoff))
  /\ handoff' = Tail(handoff)
  /\ UNCHANGED <<said, disk, nextWrite, closed, notifyVars, receiverVars, taskVars,
                 workVars, metrics, stopVars, faults>>

\* The file is committed before next_write moves.
Written == Append(SubSeq(disk, 1, nextWrite), writer.segment)

Publish ==
  /\ writer.pc = "write"
  /\ disk' = Written
  /\ nextWrite' = Len(Written)
  /\ writer' = At("account", None)
  /\ UNCHANGED <<said, handoff, closed, notifyVars, receiverVars, taskVars,
                 workVars, metrics, stopVars, faults>>

\* A failed write leaves next_write where it is: the number is used again.
WriteFails ==
  /\ writer.pc = "write"
  /\ Fault
  /\ metrics' = Failed
  /\ writer' = At("idle", None)
  /\ UNCHANGED <<said, handoff, disk, nextWrite, closed, notifyVars, receiverVars,
                 taskVars, workVars, stopVars>>

\* metrics.enqueued and notify_one come after the segment can be read.
NoNotice == permit      \* mutant: notify_one forgotten
Notice == TRUE

Account ==
  /\ writer.pc = "account"
  /\ metrics' = [metrics EXCEPT !.queued = @ + 1]
  /\ permit' = Notice
  /\ writer' = At("idle", None)
  /\ UNCHANGED <<said, handoff, disk, nextWrite, closed, woken, receiverVars, taskVars,
                 workVars, stopVars, faults>>

StopCapture ==
  /\ stop = "recording"
  /\ stop' = "finishing"
  /\ UNCHANGED <<senderVars, notifyVars, receiverVars, taskVars, workVars, metrics,
                 incomplete, slow, faults>>

\* The handoff is drained: the worker of BufferedSpool drops the sender.
CloseQueue ==
  /\ stop = "finishing" /\ handoff = <<>> /\ writer.pc = "idle"
  /\ closed' = TRUE
  /\ writer' = At("notify", None)
  /\ UNCHANGED <<said, handoff, disk, nextWrite, notifyVars, receiverVars, taskVars,
                 workVars, metrics, stopVars, faults>>

\* finish gives up after 30 s, or the pipeline ended without finish.
AbortWriter ==
  /\ stop \in {"recording", "finishing"} /\ ~closed
  /\ writer.pc \in {"idle", "write"} /\ (writer.pc = "write" \/ stop = "recording")
  /\ Fault
  /\ closed' = TRUE /\ handoff' = <<>>
  /\ metrics' = Failed
  /\ writer' = At("notify", None)
  /\ stop' = "finishing"
  /\ UNCHANGED <<said, disk, nextWrite, notifyVars, receiverVars, taskVars, workVars, incomplete, slow>>

\* notify_waiters reaches every future that has been created.
Listening == recv \in {"recheck", "closed??", "wait"}

NotifyClosed ==
  /\ writer.pc = "notify"
  /\ woken' = (woken \/ Listening)
  /\ writer' = At("gone", None)
  /\ stop' = "draining"
  /\ UNCHANGED <<said, handoff, disk, nextWrite, closed, permit, receiverVars, taskVars,
                 workVars, metrics, incomplete, slow, faults>>

-----------------------------------------------------------------------------
(* TranscriptionQueueReceiver::recv, inside the select of the dispatcher.    *)

Receiving(pc) == dispatcher.pc = "recv" /\ recv = pc
OthersWhileReceiving == UNCHANGED <<senderVars, workVars, stopVars, channel, counts, cancelled>>

CheckQueue ==
  /\ \E pc \in {"top", "recheck"} :
       /\ Receiving(pc)
       /\ recv' = IF nextRead < nextWrite THEN "read"
                  ELSE IF pc = "top" THEN "closed?" ELSE "closed??"
  /\ OthersWhileReceiving
  /\ UNCHANGED <<notifyVars, nextRead, dispatcher, metrics, faults>>

CheckOpen ==
  /\ Receiving("closed?") /\ ~closed
  /\ recv' = "listen"
  /\ OthersWhileReceiving
  /\ UNCHANGED <<notifyVars, nextRead, dispatcher, metrics, faults>>

\* What was published or closed before the future existed is looked for again.
\* Mutant: the receiver waits at once.
WaitAtOnce == "wait"
AfterListening == "recheck"

Listen ==
  /\ Receiving("listen")
  /\ recv' = AfterListening
  /\ woken' = FALSE
  /\ OthersWhileReceiving
  /\ UNCHANGED <<permit, nextRead, dispatcher, metrics, faults>>

RecheckOpen ==
  /\ Receiving("closed??") /\ ~closed
  /\ recv' = "wait"
  /\ OthersWhileReceiving
  /\ UNCHANGED <<notifyVars, nextRead, dispatcher, metrics, faults>>

Wake ==
  /\ Receiving("wait")
  /\ permit \/ woken
  /\ permit' = FALSE
  /\ recv' = "top"
  /\ OthersWhileReceiving
  /\ UNCHANGED <<woken, nextRead, dispatcher, metrics, faults>>

\* recv returns None and the dispatcher leaves its loop.
EndOfQueue ==
  /\ Receiving("closed?") \/ Receiving("closed??")
  /\ closed
  /\ recv' = "none"
  /\ dispatcher' = At("join", None)
  /\ OthersWhileReceiving
  /\ UNCHANGED <<notifyVars, nextRead, metrics, faults>>

RereadNumber == nextRead           \* mutant: next_read is not advanced
FollowingNumber == nextRead + 1

ReadNext ==
  /\ Receiving("read")
  /\ dispatcher' = At("count", disk[nextRead + 1])
  /\ nextRead' = FollowingNumber
  /\ recv' = "top"
  /\ OthersWhileReceiving
  /\ UNCHANGED <<notifyVars, metrics, faults>>

\* A segment that cannot be read back ends the dispatcher.
ReadFails ==
  /\ Receiving("read")
  /\ Fault
  /\ metrics' = Failed
  /\ dispatcher' = At("join", None)
  /\ OthersWhileReceiving
  /\ UNCHANGED <<notifyVars, receiverVars>>

ReceiveStep == CheckQueue \/ CheckOpen \/ Listen \/ RecheckOpen \/ Wake \/ EndOfQueue \/ ReadNext

-----------------------------------------------------------------------------
(* The dispatcher of start_transcription_task.                               *)

OthersWhileDispatching == UNCHANGED <<senderVars, notifyVars, receiverVars, stopVars, cancelled>>

EngineReady ==
  /\ dispatcher.pc = "init"
  /\ dispatcher' = At("recv", None)
  /\ OthersWhileDispatching
  /\ UNCHANGED <<channel, counts, workVars, metrics, faults>>

EngineFails ==
  /\ dispatcher.pc = "init"
  /\ Fault
  /\ metrics' = Failed
  /\ dispatcher' = At("done", None)
  /\ worker' = At("finished", None)
  /\ OthersWhileDispatching
  /\ UNCHANGED <<channel, counts, transcript>>

CountSegment ==
  /\ dispatcher.pc = "count"
  /\ counts' = [counts EXCEPT !.queued = @ + 1]
  /\ dispatcher' = At("send", dispatcher.segment)
  /\ OthersWhileDispatching
  /\ UNCHANGED <<channel, workVars, metrics, faults>>

\* Nobody closes the channel: the task itself keeps the receiver alive.
SendSegment ==
  /\ dispatcher.pc = "send" /\ channel = <<>>
  /\ channel' = <<dispatcher.segment>>
  /\ dispatcher' = At("recv", None)
  /\ OthersWhileDispatching
  /\ UNCHANGED <<counts, workVars, metrics, faults>>

\* select on the token, while receiving and while sending: the item is dropped.
LeaveWhenCancelled ==
  /\ cancelled /\ dispatcher.pc \in {"recv", "send"}
  /\ dispatcher' = At("join", None)
  /\ OthersWhileDispatching
  /\ UNCHANGED <<channel, counts, workVars, metrics, faults>>

\* join_next; the verification that follows only waits and reports.
JoinWorker ==
  /\ dispatcher.pc = "join" /\ worker.pc \in {"finished", "dead"}
  /\ dispatcher' = At("done", None)
  /\ metrics' = IF worker.pc = "dead" THEN Failed ELSE metrics
  /\ OthersWhileDispatching
  /\ UNCHANGED <<channel, counts, workVars, faults>>

DispatchStep == EngineReady \/ CountSegment \/ SendSegment \/ LeaveWhenCancelled \/ JoinWorker

-----------------------------------------------------------------------------
(* The worker.                                                               *)

OthersWhileWorking == UNCHANGED <<senderVars, notifyVars, receiverVars, stopVars, cancelled, dispatcher>>

TakeWork ==
  /\ dispatcher.pc # "init" /\ worker.pc = "idle" /\ channel # <<>>
  /\ worker' = At("busy", Head(channel))
  /\ channel' = <<>>
  /\ OthersWhileWorking
  /\ UNCHANGED <<counts, transcript, metrics, faults>>

Completed == /\ counts' = [counts EXCEPT !.completed = @ + 1]
             /\ worker' = At("idle", None)

Recognise ==
  /\ worker.pc = "busy"
  /\ transcript' = Append(transcript, worker.segment)
  /\ Completed
  /\ metrics' = [metrics EXCEPT !.completed = @ + 1]
  /\ OthersWhileWorking
  /\ UNCHANGED <<channel, faults>>

RecordedFailure == [metrics EXCEPT !.completed = @ + 1, !.failed = @ + 1]

\* An error leaves nothing behind; a partial answer is emitted and counted as
\* failed all the same.
RecogniseFails ==
  /\ worker.pc = "busy"
  /\ Fault
  /\ Completed
  /\ metrics' = RecordedFailure
  /\ transcript' \in {transcript, Append(transcript, worker.segment)}
  /\ OthersWhileWorking
  /\ UNCHANGED channel

\* A panic unwinds the worker; ProcessingMetricsGuard counts the segment as failed.
WorkerPanics ==
  /\ worker.pc = "busy"
  /\ Fault
  /\ worker' = At("dead", None)
  /\ metrics' = Failed
  /\ OthersWhileWorking
  /\ UNCHANGED <<channel, counts, transcript>>

\* The channel is closed and empty; the worker polls until the counts agree.
WorkerEnds ==
  /\ dispatcher.pc = "join" /\ worker.pc = "idle" /\ channel = <<>>
  /\ counts.completed >= counts.queued
  /\ worker' = At("finished", None)
  /\ OthersWhileWorking
  /\ UNCHANGED <<channel, counts, transcript, metrics, faults>>

WorkStep == TakeWork \/ Recognise \/ WorkerEnds

-----------------------------------------------------------------------------
(* The drain of stop_recording.                                              *)

OthersWhileStopping ==
  UNCHANGED <<senderVars, notifyVars, receiverVars, channel, counts, transcript, slow>>

InQueue == IF metrics.queued > metrics.completed THEN metrics.queued - metrics.completed ELSE 0

OnlyBacklog == InQueue > 0           \* mutant: failed segments are not asked for
Lossy == InQueue > 0 \/ metrics.failed > 0

DrainEnds ==
  /\ stop \in {"draining", "grace"} /\ dispatcher.pc = "done"
  /\ stop' = "stopped"
  /\ incomplete' = (incomplete \/ Lossy)
  /\ OthersWhileStopping
  /\ UNCHANGED <<dispatcher, worker, metrics, cancelled, faults>>

DrainTimeout ==
  /\ slow \/ faults > 0
  /\ stop = "draining" /\ dispatcher.pc # "done"
  /\ stop' = "grace"
  /\ incomplete' = TRUE
  /\ cancelled' = TRUE
  /\ OthersWhileStopping
  /\ UNCHANGED <<dispatcher, worker, metrics, faults>>

\* abort ends the task; its worker dies at its next await, not before.
AbortTask ==
  /\ stop' = "stopped"
  /\ dispatcher' = At("done", None)
  /\ incomplete' = (incomplete \/ Lossy)
  /\ OthersWhileStopping
  /\ UNCHANGED <<worker, metrics, cancelled, faults>>

\* mutant: after the cancellation Stop waits for a worker that is still recognising
PatientGrace == stop = "grace" /\ dispatcher.pc # "done" /\ worker.pc # "busy" /\ AbortTask
GraceTimeout == stop = "grace" /\ dispatcher.pc # "done" /\ AbortTask

StopStep == DrainEnds \/ DrainTimeout \/ GraceTimeout

Done == stop = "stopped" /\ UNCHANGED vars

SenderStep == TakeSegment \/ Publish \/ Account \/ CloseQueue \/ NotifyClosed
FaultStep == WriteFails \/ AbortWriter \/ ReadFails \/ EngineFails \/ RecogniseFails \/ WorkerPanics

Next == \/ Say \/ StopCapture
        \/ SenderStep \/ ReceiveStep \/ DispatchStep \/ WorkStep \/ StopStep
        \/ FaultStep
        \/ Done

Spec == Init /\ [][Next]_vars

(* The sender and Stop always go on. The other threads do as long as nothing *)
(* is slow and nothing failed: from then on only Stop's timers are certain.  *)
(* Nothing obliges the user to stop or to speak.                             *)
Calm == ~slow /\ faults = 0

FairSpec == /\ Spec
            /\ WF_vars(SenderStep) /\ WF_vars(StopStep)
            /\ WF_vars(Calm /\ ReceiveStep)
            /\ WF_vars(Calm /\ DispatchStep)
            /\ WF_vars(Calm /\ WorkStep)

-----------------------------------------------------------------------------
(* Segments are emitted in the order they were spoken and none twice: one    *)
(* producer, one reader, one worker ("Serial processing keeps transcript     *)
(* emission in chronological order"), whatever fails on the way.             *)
SpokenOrder == \A i, j \in 1 .. Len(transcript) : i < j => transcript[i] < transcript[j]

(* A transcript that Stop calls complete has every spoken segment: each loss *)
(* in handoff, disk, channel, engine or Stop itself leaves a count behind.   *)
CompleteIsComplete ==
  stop = "stopped" /\ ~incomplete
    => \A s \in 1 .. said : \E i \in 1 .. Len(transcript) : transcript[i] = s

(* Stop always ends, and nobody sleeps through the end: when nothing fails   *)
(* and nothing is slow it ends without its timers, because recv looks again  *)
(* after it asked to be woken.                                               *)
Drains == stop = "finishing" ~> stop = "stopped"

(* The end of the queue comes after its last segment (test                   *)
(* dropping_sender_closes_receiver_after_spooled_items).                     *)
EndAfterLast == recv = "none" => nextRead = nextWrite

(* Transcription is live: a segment on disk is read without waiting for the  *)
(* next one or for Stop, because notify_one is kept for a receiver that is   *)
(* about to wait.                                                            *)
Prompt == \A n \in Segment :
  nextWrite >= n ~> nextRead >= n \/ dispatcher.pc \in {"join", "done"} \/ ~Calm
=============================================================================
