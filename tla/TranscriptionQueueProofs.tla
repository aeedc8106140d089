------------------------ MODULE TranscriptionQueueProofs -----------------------
(***************************************************************************)
(* Proofs about TranscriptionQueue for every number of segments, every     *)
(* size of the handoff and any number of failures: how segments keep their *)
(* order on the way from the pipeline to the transcript, why the loss of   *)
(* one always leaves a count behind, and why no wake-up is lost.           *)
(***************************************************************************)
EXTENDS TranscriptionQueue, SequenceTheorems, TLAPS

-----------------------------------------------------------------------------
(* Types, one group for each group of variables. Numbers are only natural    *)
(* here: what bounds them is Counted.                                        *)

SenderTypes ==
  /\ said \in 0 .. S
  /\ handoff \in Seq(Segment) /\ Len(handoff) <= HandoffCap
  /\ writer \in [pc : {"idle", "write", "account", "notify", "gone"}, segment : 0 .. S]
  /\ writer.pc = "write" => writer.segment \in Segment
  /\ disk \in Seq(Segment)
  /\ nextWrite = Len(disk)
  /\ closed \in BOOLEAN

ReceiverTypes ==
  /\ permit \in BOOLEAN /\ woken \in BOOLEAN
  /\ recv \in {"top", "closed?", "listen", "recheck", "closed??", "wait", "read", "none"}
  /\ nextRead \in Nat

TaskTypes ==
  /\ dispatcher \in [pc : {"init", "recv", "count", "send", "join", "done"}, segment : 0 .. S]
  /\ dispatcher.pc \in {"count", "send"} => dispatcher.segment \in Segment
  /\ channel \in Seq(Segment) /\ Len(channel) <= 1

WorkTypes ==
  /\ worker \in [pc : {"idle", "busy", "finished", "dead"}, segment : 0 .. S]
  /\ worker.pc = "busy" => worker.segment \in Segment
  /\ transcript \in Seq(Segment)

CountTypes ==
  /\ counts \in [queued : Nat, completed : Nat]
  /\ metrics \in [queued : Nat, completed : Nat, failed : Nat]

StopTypes ==
  /\ cancelled \in BOOLEAN /\ incomplete \in BOOLEAN /\ slow \in BOOLEAN
  /\ stop \in {"recording", "finishing", "draining", "grace", "stopped"}
  /\ faults \in 0 .. MaxFaults

Types == SenderTypes /\ ReceiverTypes /\ TaskTypes /\ WorkTypes /\ CountTypes /\ StopTypes

Count(holds) == IF holds THEN 1 ELSE 0

\* Nothing is written that was not said, read that is not written, or
\* completed that was not queued, and the metrics count the same.
WriteCounted ==
  /\ nextWrite + Count(writer.pc = "write") + Len(handoff) <= said
  /\ metrics.queued + Count(writer.pc = "account") = nextWrite

ReadCounted ==
  /\ nextRead <= nextWrite
  /\ recv = "read" => nextRead < nextWrite

TaskCounted ==
  /\ counts.queued + Count(dispatcher.pc = "count") <= nextRead
  /\ counts.completed + Count(worker.pc = "busy") + Len(channel) + Count(dispatcher.pc = "send")
       <= counts.queued
  /\ metrics.completed = counts.completed

Counted == WriteCounted /\ ReadCounted /\ TaskCounted

QueueSane == Types /\ Counted

LEMMA SaneTypeOK == QueueSane => TypeOK
<1> SUFFICES ASSUME QueueSane PROVE TypeOK
  OBVIOUS
<1>1. SenderTypes /\ ReceiverTypes /\ TaskTypes /\ WorkTypes /\ StopTypes
  BY DEF QueueSane, Types
<1>2. /\ nextRead <= nextWrite /\ nextWrite <= S /\ nextRead \in Nat /\ nextWrite \in Nat
      /\ counts.queued <= S /\ counts.completed <= S /\ metrics.queued <= S /\ metrics.completed <= S
      /\ metrics.failed \in Nat
  <2>1. Len(handoff) \in Nat /\ Len(channel) \in Nat /\ Len(disk) \in Nat /\ nextWrite = Len(disk)
        /\ said \in Nat /\ said <= S /\ nextRead \in Nat
    BY <1>1, QueueAssumption DEF SenderTypes, ReceiverTypes, TaskTypes
  <2>2. /\ counts.queued \in Nat /\ counts.completed \in Nat
        /\ metrics.queued \in Nat /\ metrics.completed \in Nat /\ metrics.failed \in Nat
    BY DEF QueueSane, Types, CountTypes
  <2>3. Count(writer.pc = "write") \in Nat /\ Count(dispatcher.pc = "count") \in Nat
        /\ Count(worker.pc = "busy") \in Nat /\ Count(dispatcher.pc = "send") \in Nat
        /\ Count(writer.pc = "account") \in Nat
    BY DEF Count
  <2>4. Counted /\ S \in Nat
    BY QueueAssumption DEF QueueSane
  <2>5. nextRead <= nextWrite /\ nextWrite <= S
    <3>1. nextRead <= nextWrite
      BY <2>4 DEF Counted, ReadCounted
    <3>2. nextWrite + Count(writer.pc = "write") + Len(handoff) <= said
      BY <2>4 DEF Counted, WriteCounted
    <3> QED
      BY <2>1, <2>3, <2>4, <3>1, <3>2
  <2>6. counts.queued <= S
    <3>1. counts.queued + Count(dispatcher.pc = "count") <= nextRead
      BY <2>4 DEF Counted, WriteCounted, ReadCounted, TaskCounted
    <3> QED
      BY <2>1, <2>2, <2>3, <2>4, <2>5, <3>1
  <2>7. counts.completed <= S
    <3>1. counts.completed + Count(worker.pc = "busy") + Len(channel) + Count(dispatcher.pc = "send")
            <= counts.queued
      BY <2>4 DEF Counted, WriteCounted, ReadCounted, TaskCounted
    <3> QED
      BY <2>1, <2>2, <2>3, <2>4, <2>6, <3>1
  <2>8. metrics.queued <= S /\ metrics.completed <= S
    <3>1. metrics.queued + Count(writer.pc = "account") = nextWrite
      BY <2>4 DEF Counted, WriteCounted
    <3>2. metrics.completed = counts.completed
      BY <2>4 DEF Counted, TaskCounted
    <3>3. metrics.queued <= S
      BY <2>1, <2>2, <2>3, <2>4, <2>5, <3>1
    <3> QED
      BY <2>7, <3>2, <3>3
  <2> QED
    BY <2>1, <2>2, <2>5, <2>6, <2>7, <2>8
<1>3. /\ counts \in [queued : 0 .. S, completed : 0 .. S]
      /\ metrics \in [queued : 0 .. S, completed : 0 .. S, failed : Nat]
  <2>1. CountTypes
    BY DEF QueueSane, Types
  <2> QED
    BY <1>2, <2>1, QueueAssumption DEF CountTypes
<1>4. nextWrite \in 0 .. Len(disk) /\ nextRead \in 0 .. nextWrite
  BY <1>1, <1>2 DEF SenderTypes
<1> QED
  BY <1>1, <1>3, <1>4 DEF TypeOK, SenderTypes, ReceiverTypes, TaskTypes, WorkTypes, StopTypes

LEMMA InitSane == Init => QueueSane
<1> SUFFICES ASSUME Init PROVE QueueSane
  OBVIOUS
<1> USE QueueAssumption DEF Init, At, None
<1>1. SenderTypes /\ ReceiverTypes
  <2>1. handoff \in Seq(Segment) /\ Len(handoff) <= HandoffCap
    OBVIOUS
  <2>2. disk \in Seq(Segment) /\ Len(disk) = 0
    OBVIOUS
  <2>3. writer \in [pc : {"idle", "write", "account", "notify", "gone"}, segment : 0 .. S] /\ writer.pc = "idle"
    OBVIOUS
  <2>4. SenderTypes
    BY <2>1, <2>2, <2>3 DEF SenderTypes
  <2> QED
    BY <2>4 DEF ReceiverTypes
<1>2. TaskTypes /\ WorkTypes
  BY DEF TaskTypes, WorkTypes
<1>3. CountTypes /\ StopTypes
  <2>1. CountTypes
    BY DEF CountTypes
  <2>2. faults \in 0 .. MaxFaults
    OBVIOUS
  <2>3. StopTypes
    BY <2>2, Zenon DEF StopTypes
  <2> QED
    BY <2>1, <2>3
<1>4. Counted
  BY DEF Counted, WriteCounted, ReadCounted, TaskCounted, Count
<1> QED
  BY <1>1, <1>2, <1>3, <1>4 DEF QueueSane, Types

-----------------------------------------------------------------------------
(* Every step belongs to one of the five parts, which leave the variables of *)
(* the others alone.                                                         *)

SenderKind ==
  /\ \/ Say \/ TakeSegment \/ Publish \/ WriteFails \/ Account
     \/ StopCapture \/ CloseQueue \/ AbortWriter \/ NotifyClosed
  /\ UNCHANGED <<receiverVars, taskVars, workVars>>

ReceiverKind ==
  /\ \/ CheckQueue \/ CheckOpen \/ Listen \/ RecheckOpen \/ Wake
     \/ EndOfQueue \/ ReadNext \/ ReadFails
  /\ UNCHANGED <<senderVars, workVars, stopVars, channel, counts, cancelled>>

DispatcherKind ==
  /\ \/ EngineReady \/ EngineFails \/ CountSegment \/ SendSegment
     \/ LeaveWhenCancelled \/ JoinWorker
  /\ UNCHANGED <<senderVars, notifyVars, receiverVars, stopVars, cancelled>>

WorkerKind ==
  /\ TakeWork \/ Recognise \/ RecogniseFails \/ WorkerPanics \/ WorkerEnds
  /\ UNCHANGED <<senderVars, notifyVars, receiverVars, stopVars, cancelled, dispatcher>>

StopKind ==
  /\ DrainEnds \/ DrainTimeout \/ GraceTimeout
  /\ UNCHANGED <<senderVars, notifyVars, receiverVars, channel, counts, workVars, metrics, slow, faults>>

LEMMA Kinds ==
  ASSUME [Next]_vars
  PROVE  SenderKind \/ ReceiverKind \/ DispatcherKind \/ WorkerKind \/ StopKind \/ UNCHANGED vars
<1>1. \/ Say \/ TakeSegment \/ Publish \/ WriteFails \/ Account
      \/ StopCapture \/ CloseQueue \/ AbortWriter \/ NotifyClosed
      \/ CheckQueue \/ CheckOpen \/ Listen \/ RecheckOpen \/ Wake
      \/ EndOfQueue \/ ReadNext \/ ReadFails
      \/ EngineReady \/ EngineFails \/ CountSegment \/ SendSegment
      \/ LeaveWhenCancelled \/ JoinWorker
      \/ TakeWork \/ Recognise \/ RecogniseFails \/ WorkerPanics \/ WorkerEnds
      \/ DrainEnds \/ DrainTimeout \/ GraceTimeout
      \/ UNCHANGED vars
  BY DEF Next, SenderStep, ReceiveStep, DispatchStep, WorkStep, StopStep, FaultStep, Done
<1>2. ASSUME Say \/ TakeSegment \/ Publish \/ WriteFails \/ Account
      \/ StopCapture \/ CloseQueue \/ AbortWriter \/ NotifyClosed
      PROVE SenderKind
  BY <1>2 DEF SenderKind, Say, TakeSegment, Publish, WriteFails, Account, StopCapture, CloseQueue,
     AbortWriter, NotifyClosed
<1>3. ASSUME CheckQueue \/ CheckOpen \/ Listen \/ RecheckOpen \/ Wake
      \/ EndOfQueue \/ ReadNext \/ ReadFails
      PROVE ReceiverKind
  BY <1>3 DEF ReceiverKind, CheckQueue, CheckOpen, Listen, RecheckOpen, Wake, EndOfQueue, ReadNext,
     ReadFails, OthersWhileReceiving
<1>4. ASSUME EngineReady \/ EngineFails \/ CountSegment \/ SendSegment
      \/ LeaveWhenCancelled \/ JoinWorker
      PROVE DispatcherKind
  BY <1>4 DEF DispatcherKind, EngineReady, EngineFails, CountSegment, SendSegment,
     LeaveWhenCancelled, JoinWorker, OthersWhileDispatching
<1>5. ASSUME TakeWork \/ Recognise \/ RecogniseFails \/ WorkerPanics \/ WorkerEnds
      PROVE WorkerKind
  BY <1>5 DEF WorkerKind, TakeWork, Recognise, RecogniseFails, WorkerPanics, WorkerEnds, OthersWhileWorking
<1>6. ASSUME DrainEnds \/ DrainTimeout \/ GraceTimeout
      PROVE StopKind
  BY <1>6 DEF StopKind, DrainEnds, DrainTimeout, GraceTimeout, AbortTask, OthersWhileStopping, workVars
<1> QED
  BY <1>1, <1>2, <1>3, <1>4, <1>5, <1>6

-----------------------------------------------------------------------------
(* The disk after a segment has been published, and the handoff after a      *)
(* segment was said or taken.                                                *)
LEMMA WrittenDisk ==
  ASSUME SenderTypes, writer.pc = "write"
  PROVE  /\ Written \in Seq(Segment) /\ Len(Written) = nextWrite + 1
         /\ Written[nextWrite + 1] = writer.segment
         /\ \A i \in 1 .. nextWrite : Written[i] = disk[i]
<1>0. disk \in Seq(Segment) /\ nextWrite = Len(disk) /\ writer.segment \in Segment
  BY DEF SenderTypes
<1>1. Len(disk) \in Nat
  BY <1>0
<1>2. /\ SubSeq(disk, 1, nextWrite) \in Seq(Segment) /\ Len(SubSeq(disk, 1, nextWrite)) = nextWrite
      /\ \A i \in 1 .. nextWrite : SubSeq(disk, 1, nextWrite)[i] = disk[i]
  BY <1>0, <1>1
<1> QED
  BY <1>0, <1>1, <1>2 DEF Written

LEMMA SenderTypesStep == Types /\ [Next]_vars => SenderTypes'
<1> SUFFICES ASSUME Types, [Next]_vars PROVE SenderTypes'
  OBVIOUS
<1>0. SenderTypes
  BY DEF Types
<1> USE QueueAssumption DEF SenderTypes
<1>1. CASE Say
  <2>1. CASE handoff' = Append(handoff, said + 1) /\ Len(handoff) < HandoffCap
    <3>1. said + 1 \in Segment /\ said' \in 0 .. S
      BY <1>0, <1>1 DEF Say, Segment
    <3>2. handoff' \in Seq(Segment) /\ Len(handoff') = Len(handoff) + 1 /\ Len(handoff) \in Nat
      BY <1>0, <2>1, <3>1
    <3> QED
      BY <1>0, <1>1, <2>1, <3>1, <3>2 DEF Say
  <2>2. CASE UNCHANGED handoff
    BY <1>0, <1>1, <2>2 DEF Say
  <2> QED
    BY <1>1, <2>1, <2>2 DEF Say
<1>2. CASE TakeSegment
  <2>1. /\ Head(handoff) \in Segment /\ Tail(handoff) \in Seq(Segment)
        /\ Len(Tail(handoff)) = Len(handoff) - 1 /\ Len(handoff) \in Nat
    BY <1>0, <1>2 DEF TakeSegment
  <2>2. Head(handoff) \in 0 .. S
    BY <2>1 DEF Segment
  <2> QED
    BY <1>0, <1>2, <2>1, <2>2 DEF TakeSegment, At
<1>3. CASE Publish
  <2>1. /\ Written \in Seq(Segment) /\ Len(Written) = nextWrite + 1
    BY <1>0, <1>3, WrittenDisk DEF Publish
  <2> QED
    BY <1>0, <1>3, <2>1 DEF Publish, At, None
<1>4. CASE WriteFails \/ Account
  BY <1>0, <1>4 DEF WriteFails, Account, At, None
<1>5. CASE CloseQueue \/ AbortWriter \/ NotifyClosed
  <2>1. handoff' \in Seq(Segment) /\ Len(handoff') <= HandoffCap
    <3>1. CASE handoff' = <<>>
      BY <3>1
    <3>2. CASE handoff' = handoff
      BY <1>0, <3>2
    <3> QED
      BY <1>5, <3>1, <3>2 DEF CloseQueue, AbortWriter, NotifyClosed
  <2>2. writer' \in {At("notify", 0), At("gone", 0)} /\ UNCHANGED <<said, disk, nextWrite>>
    BY <1>5 DEF CloseQueue, AbortWriter, NotifyClosed, None
  <2>3. closed' \in BOOLEAN
    BY <1>0, <1>5 DEF CloseQueue, AbortWriter, NotifyClosed
  <2>4. /\ writer' \in [pc : {"idle", "write", "account", "notify", "gone"}, segment : 0 .. S]
        /\ writer'.pc # "write"
    BY <2>2 DEF At
  <2> QED
    BY <1>0, <2>1, <2>2, <2>3, <2>4
<1>6. CASE UNCHANGED senderVars
  BY <1>0, <1>6 DEF senderVars
<1> QED
  <2>1. StopCapture \/ UNCHANGED vars => UNCHANGED senderVars
    BY DEF StopCapture, vars
  <2> QED
    BY <1>1, <1>2, <1>3, <1>4, <1>5, <1>6, <2>1, Kinds
       DEF SenderKind, ReceiverKind, DispatcherKind, WorkerKind, StopKind

LEMMA ReceiverTypesStep == Types /\ [Next]_vars => ReceiverTypes'
<1> SUFFICES ASSUME Types, [Next]_vars PROVE ReceiverTypes'
  OBVIOUS
<1>0. ReceiverTypes
  BY DEF Types
<1> USE DEF ReceiverTypes
<1>1. CASE SenderKind
  <2>1. recv' = recv /\ nextRead' = nextRead
    BY <1>1 DEF SenderKind, receiverVars
  <2>2. permit' \in BOOLEAN /\ woken' \in BOOLEAN
    BY <1>0, <1>1 DEF SenderKind, Say, TakeSegment, Publish, WriteFails, Account, Notice, StopCapture,
       CloseQueue, AbortWriter, NotifyClosed, Listening, notifyVars
  <2> QED
    BY <1>0, <2>1, <2>2
<1>2. CASE ReceiverKind
  <2>1. CASE CheckQueue
    BY <1>0, <2>1 DEF CheckQueue, notifyVars
  <2>2. CASE Listen \/ Wake \/ CheckOpen \/ RecheckOpen
    BY <1>0, <2>2 DEF Listen, AfterListening, Wake, CheckOpen, RecheckOpen, notifyVars
  <2>3. CASE EndOfQueue \/ ReadNext \/ ReadFails
    BY <1>0, <2>3 DEF EndOfQueue, ReadNext, FollowingNumber, ReadFails, notifyVars, receiverVars
  <2> QED
    BY <1>2, <2>1, <2>2, <2>3 DEF ReceiverKind
<1>3. CASE UNCHANGED <<notifyVars, receiverVars>>
  BY <1>0, <1>3 DEF notifyVars, receiverVars
<1> QED
  <2>1. UNCHANGED vars => UNCHANGED <<notifyVars, receiverVars>>
    BY DEF vars
  <2> QED
    BY <1>1, <1>2, <1>3, <2>1, Kinds DEF DispatcherKind, WorkerKind, StopKind

LEMMA TaskTypesStep == QueueSane /\ [Next]_vars => TaskTypes'
<1> SUFFICES ASSUME QueueSane, [Next]_vars PROVE TaskTypes'
  OBVIOUS
<1>0. TaskTypes /\ 0 \in 0 .. S
  BY QueueAssumption DEF QueueSane, Types
<1> USE DEF TaskTypes
<1>1. CASE ReadNext
  <2>1. nextRead + 1 \in 1 .. Len(disk) /\ disk \in Seq(Segment)
    BY <1>1 DEF ReadNext, Receiving, QueueSane, Types, SenderTypes, ReceiverTypes, Counted, ReadCounted
  <2>2. disk[nextRead + 1] \in Segment /\ disk[nextRead + 1] \in 0 .. S
    <3>1. disk[nextRead + 1] \in Segment
      BY <2>1
    <3> QED
      BY <3>1 DEF Segment
  <2>3. UNCHANGED channel
    BY <1>1 DEF ReadNext, OthersWhileReceiving
  <2> QED
    BY <1>0, <1>1, <2>2, <2>3 DEF ReadNext, At
<1>2. CASE ReceiverKind /\ ~ReadNext
  BY <1>0, <1>2 DEF ReceiverKind, CheckQueue, CheckOpen, Listen, RecheckOpen, Wake, EndOfQueue, ReadFails, At, None
<1>3. CASE CountSegment
  <2>1. UNCHANGED channel
    BY <1>3 DEF CountSegment
  <2> QED
    BY <1>0, <1>3, <2>1 DEF CountSegment, At
<1>4. CASE SendSegment
  <2>1. channel' \in Seq(Segment) /\ Len(channel') = 1
    BY <1>0, <1>4 DEF SendSegment
  <2> QED
    BY <1>0, <1>4, <2>1 DEF SendSegment, At, None
<1>5. CASE EngineReady \/ EngineFails \/ LeaveWhenCancelled \/ JoinWorker
  BY <1>0, <1>5 DEF EngineReady, EngineFails, LeaveWhenCancelled, JoinWorker, At, None
<1>6. CASE WorkerKind
  <2>1. channel' \in {channel, <<>>}
    BY <1>6 DEF WorkerKind, TakeWork, Recognise, RecogniseFails, WorkerPanics, WorkerEnds
  <2>2. channel' \in Seq(Segment) /\ Len(channel') <= 1
    <3>1. CASE channel' = <<>>
      BY <3>1
    <3>2. CASE channel' = channel
      BY <1>0, <3>2
    <3> QED
      BY <2>1, <3>1, <3>2
  <2> QED
    BY <1>0, <1>6, <2>2 DEF WorkerKind
<1>7. CASE StopKind
  <2>1. dispatcher' \in {dispatcher, At("done", None)} /\ channel' = channel
    BY <1>7 DEF StopKind, DrainEnds, DrainTimeout, GraceTimeout, AbortTask
  <2> QED
    BY <1>0, <2>1 DEF At, None
<1>8. CASE UNCHANGED taskVars
  BY <1>0, <1>8 DEF taskVars
<1> QED
  <2>1. UNCHANGED vars => UNCHANGED taskVars
    BY DEF vars
  <2> QED
    BY <1>1, <1>2, <1>3, <1>4, <1>5, <1>6, <1>7, <1>8, <2>1, Kinds DEF SenderKind, DispatcherKind

LEMMA WorkTypesStep == Types /\ [Next]_vars => WorkTypes'
<1> SUFFICES ASSUME Types, [Next]_vars PROVE WorkTypes'
  OBVIOUS
<1>0. WorkTypes /\ TaskTypes /\ 0 \in 0 .. S
  BY QueueAssumption DEF Types
<1> USE DEF WorkTypes
<1>1. CASE TakeWork
  <2>1. Head(channel) \in Segment
    BY <1>0, <1>1 DEF TakeWork, TaskTypes
  <2>2. Head(channel) \in 0 .. S /\ transcript' = transcript
    BY <1>1, <2>1 DEF TakeWork, Segment
  <2> QED
    BY <1>0, <1>1, <2>1, <2>2 DEF TakeWork, At
<1>2. CASE Recognise \/ RecogniseFails
  <2>1. worker.segment \in Segment
    BY <1>0, <1>2 DEF Recognise, RecogniseFails
  <2>2. transcript' \in {transcript, Append(transcript, worker.segment)} /\ worker' = At("idle", None)
    BY <1>2 DEF Recognise, RecogniseFails, Completed
  <2>3. transcript' \in Seq(Segment)
    BY <1>0, <2>1, <2>2
  <2> QED
    BY <1>0, <2>2, <2>3 DEF At, None
<1>3. CASE WorkerPanics \/ WorkerEnds \/ EngineFails
  BY <1>0, <1>3 DEF WorkerPanics, WorkerEnds, EngineFails, At, None
<1>4. CASE UNCHANGED workVars
  BY <1>0, <1>4 DEF workVars
<1> QED
  <2>1. UNCHANGED vars \/ EngineReady \/ CountSegment \/ SendSegment \/ LeaveWhenCancelled \/ JoinWorker
          => UNCHANGED workVars
    BY DEF vars, EngineReady, CountSegment, SendSegment, LeaveWhenCancelled, JoinWorker
  <2> QED
    BY <1>1, <1>2, <1>3, <1>4, <2>1, Kinds
       DEF SenderKind, ReceiverKind, DispatcherKind, WorkerKind, StopKind

LEMMA CountTypesStep == Types /\ [Next]_vars => CountTypes'
<1> SUFFICES ASSUME Types, [Next]_vars PROVE CountTypes'
  OBVIOUS
<1>0. CountTypes
  BY DEF Types
<1> USE DEF CountTypes
<1>1. Failed \in [queued : Nat, completed : Nat, failed : Nat]
  BY <1>0 DEF Failed
<1>2. counts' \in [queued : Nat, completed : Nat]
  <2>1. \/ counts' = counts
        \/ counts' = [counts EXCEPT !.queued = @ + 1]
        \/ counts' = [counts EXCEPT !.completed = @ + 1]
    BY Kinds DEF SenderKind, ReceiverKind, DispatcherKind, WorkerKind, StopKind, vars, taskVars, EngineReady,
       EngineFails, CountSegment, SendSegment, LeaveWhenCancelled, JoinWorker, TakeWork, Recognise,
       RecogniseFails, WorkerPanics, WorkerEnds, Completed
  <2> QED
    BY <1>0, <2>1
<1>3. metrics' \in [queued : Nat, completed : Nat, failed : Nat]
  <2>1. \/ metrics' = metrics
        \/ metrics' = Failed
        \/ metrics' = [metrics EXCEPT !.queued = @ + 1]
        \/ metrics' = [metrics EXCEPT !.completed = @ + 1]
        \/ metrics' = RecordedFailure
    <3>1. CASE SenderKind
      BY <3>1 DEF SenderKind, Say, TakeSegment, Publish, WriteFails, Account, StopCapture, CloseQueue,
         AbortWriter, NotifyClosed
    <3>2. CASE ReceiverKind
      BY <3>2 DEF ReceiverKind, CheckQueue, CheckOpen, Listen, RecheckOpen, Wake, EndOfQueue, ReadNext, ReadFails
    <3>3. CASE DispatcherKind
      BY <3>3 DEF DispatcherKind, EngineReady, EngineFails, CountSegment, SendSegment, LeaveWhenCancelled, JoinWorker
    <3>4. CASE WorkerKind
      BY <3>4 DEF WorkerKind, TakeWork, Recognise, RecogniseFails, WorkerPanics, WorkerEnds
    <3>5. CASE StopKind \/ UNCHANGED vars
      BY <3>5 DEF StopKind, vars
    <3> QED
      BY <3>1, <3>2, <3>3, <3>4, <3>5, Kinds
  <2>2. RecordedFailure \in [queued : Nat, completed : Nat, failed : Nat]
    <3>1. metrics.completed + 1 \in Nat /\ metrics.failed + 1 \in Nat
      BY <1>0
    <3> QED
      BY <1>0, <3>1 DEF RecordedFailure
  <2> QED
    BY <1>0, <1>1, <2>1, <2>2
<1> QED
  BY <1>2, <1>3

LEMMA StopTypesStep == Types /\ [Next]_vars => StopTypes'
<1> SUFFICES ASSUME Types, [Next]_vars PROVE StopTypes'
  OBVIOUS
<1>0. StopTypes
  BY DEF Types
<1> USE DEF StopTypes
<1>1. faults' \in 0 .. MaxFaults
  <2>1. faults' = faults \/ Fault
    BY Kinds DEF SenderKind, ReceiverKind, DispatcherKind, WorkerKind, StopKind, vars,
       Say, TakeSegment, Publish, WriteFails, Account, StopCapture, CloseQueue, AbortWriter, NotifyClosed,
       CheckQueue, CheckOpen, Listen, RecheckOpen, Wake, EndOfQueue, ReadNext, ReadFails,
       EngineReady, EngineFails, CountSegment, SendSegment, LeaveWhenCancelled, JoinWorker,
       TakeWork, Recognise, RecogniseFails, WorkerPanics, WorkerEnds
  <2> QED
    BY <1>0, <2>1, QueueAssumption DEF Fault
<1>2. CASE SenderKind
  <2>1. UNCHANGED <<incomplete, slow, cancelled>>
    BY <1>2 DEF SenderKind, Say, TakeSegment, Publish, WriteFails, Account, StopCapture, CloseQueue,
       AbortWriter, NotifyClosed, stopVars, taskVars
  <2>2. stop' \in {stop, "finishing", "draining"}
    BY <1>2 DEF SenderKind, Say, TakeSegment, Publish, WriteFails, Account, StopCapture, CloseQueue,
       AbortWriter, NotifyClosed, stopVars
  <2> QED
    BY <1>0, <1>1, <2>1, <2>2
<1>3. CASE StopKind
  <2>1. /\ UNCHANGED slow /\ stop' \in {"stopped", "grace"} /\ cancelled' \in {cancelled, TRUE}
        /\ incomplete' \in {TRUE, (incomplete \/ Lossy)}
    BY <1>3 DEF StopKind, DrainEnds, DrainTimeout, GraceTimeout, AbortTask
  <2>2. (incomplete \/ Lossy) \in BOOLEAN
    OBVIOUS
  <2> QED
    BY <1>0, <1>1, <2>1, <2>2
<1>4. CASE UNCHANGED <<stopVars, cancelled>>
  BY <1>0, <1>1, <1>4 DEF stopVars
<1> QED
  <2>1. UNCHANGED vars => UNCHANGED <<stopVars, cancelled>>
    BY DEF vars, taskVars
  <2> QED
    BY <1>2, <1>3, <1>4, <2>1, Kinds DEF ReceiverKind, DispatcherKind, WorkerKind

-----------------------------------------------------------------------------
(* What each part counts, step by step.                                      *)

LEMMA WriteCountedStep == QueueSane /\ [Next]_vars => WriteCounted'
<1> SUFFICES ASSUME QueueSane, [Next]_vars PROVE WriteCounted'
  OBVIOUS
<1>0. /\ SenderTypes /\ WriteCounted
      /\ Len(handoff) \in Nat /\ Len(disk) \in Nat /\ said \in Nat /\ metrics.queued \in Nat
      /\ CountTypes
  BY DEF QueueSane, Types, Counted, SenderTypes, CountTypes
<1>1. CASE Say
  <2>1. /\ said' = said + 1 /\ UNCHANGED <<writer, nextWrite>> /\ metrics'.queued = metrics.queued
    BY <1>0, <1>1 DEF Say, Failed, CountTypes
  <2>2. Len(handoff') \in {Len(handoff), Len(handoff) + 1}
    <3>1. CASE handoff' = Append(handoff, said + 1)
      <4>1. Len(handoff') = Len(handoff) + 1
        BY <1>0, <3>1 DEF SenderTypes
      <4> QED
        BY <4>1
    <3>2. CASE handoff' = handoff
      BY <3>2
    <3> QED
      BY <1>1, <3>1, <3>2 DEF Say
  <2> QED
    BY <1>0, <2>1, <2>2 DEF WriteCounted, Count, SenderTypes
<1>2. CASE TakeSegment
  <2>1. Len(handoff') = Len(handoff) - 1
    BY <1>0, <1>2 DEF TakeSegment, SenderTypes
  <2>2. writer.pc = "idle" /\ writer'.pc = "write" /\ UNCHANGED <<said, nextWrite, metrics>>
    BY <1>2 DEF TakeSegment, At
  <2> QED
    BY <1>0, <2>1, <2>2 DEF WriteCounted, Count, SenderTypes
<1>3. CASE Publish
  <2>1. nextWrite' = nextWrite + 1
    BY <1>0, <1>3, WrittenDisk DEF Publish
  <2>2. writer.pc = "write" /\ writer'.pc = "account" /\ UNCHANGED <<said, handoff, metrics>>
    BY <1>3 DEF Publish, At
  <2> QED
    BY <1>0, <2>1, <2>2 DEF WriteCounted, Count, SenderTypes
<1>4. CASE WriteFails
  <2>1. /\ writer.pc = "write" /\ writer'.pc = "idle" /\ UNCHANGED <<said, handoff, nextWrite>>
        /\ metrics'.queued = metrics.queued
    BY <1>0, <1>4 DEF WriteFails, At, Failed, CountTypes
  <2> QED
    BY <1>0, <2>1 DEF WriteCounted, Count, SenderTypes
<1>5. CASE Account
  <2>1. /\ writer.pc = "account" /\ writer'.pc = "idle" /\ UNCHANGED <<said, handoff, nextWrite>>
        /\ metrics'.queued = metrics.queued + 1
    BY <1>0, <1>5 DEF Account, At, CountTypes
  <2> QED
    BY <1>0, <2>1 DEF WriteCounted, Count, SenderTypes
<1>6. CASE CloseQueue \/ AbortWriter \/ NotifyClosed
  <2>1. /\ writer.pc \in {"idle", "write", "notify"} /\ writer'.pc \in {"notify", "gone"}
        /\ UNCHANGED <<said, nextWrite>>
        /\ metrics'.queued = metrics.queued
    BY <1>0, <1>6 DEF CloseQueue, AbortWriter, NotifyClosed, At, Failed, CountTypes
  <2>2. Len(handoff') \in {0, Len(handoff)}
    <3>1. CASE handoff' = <<>>
      BY <3>1
    <3>2. CASE handoff' = handoff
      BY <3>2
    <3> QED
      BY <1>6, <3>1, <3>2 DEF CloseQueue, AbortWriter, NotifyClosed
  <2> QED
    BY <1>0, <2>1, <2>2 DEF WriteCounted, Count, SenderTypes
<1>7. CASE UNCHANGED senderVars
  <2>1. CASE SenderKind \/ StopKind \/ UNCHANGED vars
    <3>1. StopCapture \/ StopKind \/ UNCHANGED vars => UNCHANGED metrics
      BY DEF StopCapture, StopKind, vars
    <3> QED
      BY <1>0, <1>1, <1>2, <1>3, <1>4, <1>5, <1>6, <1>7, <2>1, <3>1 DEF SenderKind, WriteCounted, senderVars
  <2>2. CASE ReceiverKind \/ DispatcherKind \/ WorkerKind
    <3>1. metrics' \in {metrics, Failed, [metrics EXCEPT !.completed = @ + 1], RecordedFailure}
      <4>1. CASE ReceiverKind
        BY <4>1 DEF ReceiverKind, CheckQueue, CheckOpen, Listen, RecheckOpen, Wake, EndOfQueue, ReadNext, ReadFails
      <4>2. CASE DispatcherKind
        BY <4>2 DEF DispatcherKind, EngineReady, EngineFails, CountSegment, SendSegment, LeaveWhenCancelled, JoinWorker
      <4>3. CASE WorkerKind
        BY <4>3 DEF WorkerKind, TakeWork, Recognise, RecogniseFails, WorkerPanics, WorkerEnds
      <4> QED
        BY <2>2, <4>1, <4>2, <4>3
    <3>2. metrics'.queued = metrics.queued
      BY <1>0, <3>1 DEF Failed, RecordedFailure, CountTypes
    <3> QED
      BY <1>0, <1>7, <3>2 DEF WriteCounted, senderVars
  <2> QED
    BY <2>1, <2>2, Kinds
<1> QED
  <2>1. StopCapture \/ UNCHANGED vars => UNCHANGED senderVars
    BY DEF StopCapture, vars
  <2> QED
    BY <1>1, <1>2, <1>3, <1>4, <1>5, <1>6, <1>7, <2>1, Kinds
       DEF SenderKind, ReceiverKind, DispatcherKind, WorkerKind, StopKind

LEMMA ReadCountedStep == QueueSane /\ [Next]_vars => ReadCounted'
<1> SUFFICES ASSUME QueueSane, [Next]_vars PROVE ReadCounted'
  OBVIOUS
<1>0. /\ SenderTypes /\ ReceiverTypes /\ ReadCounted
      /\ nextWrite \in Nat /\ nextRead \in Nat
  BY DEF QueueSane, Types, Counted, SenderTypes, ReceiverTypes
<1>1. CASE SenderKind
  <2>1. UNCHANGED <<recv, nextRead>>
    BY <1>1 DEF SenderKind, receiverVars
  <2>2. nextWrite' \in {nextWrite, nextWrite + 1}
    BY <1>0, <1>1, WrittenDisk DEF SenderKind, Say, TakeSegment, Publish, WriteFails, Account, StopCapture,
       CloseQueue, AbortWriter, NotifyClosed, senderVars
  <2> QED
    BY <1>0, <2>1, <2>2 DEF ReadCounted
<1>2. CASE ReceiverKind
  <2>0. UNCHANGED nextWrite
    BY <1>2 DEF ReceiverKind, senderVars
  <2>1. CASE ReadNext
    <3>1. nextRead < nextWrite /\ nextRead' = nextRead + 1 /\ recv' = "top"
      BY <1>0, <2>1 DEF ReadNext, Receiving, FollowingNumber, ReadCounted
    <3> QED
      BY <1>0, <2>0, <3>1 DEF ReadCounted
  <2>2. CASE CheckQueue
    BY <1>0, <2>0, <2>2 DEF CheckQueue, ReadCounted
  <2>3. CASE CheckOpen \/ Listen \/ RecheckOpen \/ Wake \/ EndOfQueue
    BY <1>0, <2>0, <2>3 DEF CheckOpen, Listen, AfterListening, RecheckOpen, Wake, EndOfQueue, ReadCounted
  <2>4. CASE ReadFails
    BY <1>0, <2>0, <2>4 DEF ReadFails, receiverVars, ReadCounted
  <2> QED
    BY <1>2, <2>1, <2>2, <2>3, <2>4 DEF ReceiverKind
<1>3. CASE UNCHANGED <<senderVars, receiverVars>>
  BY <1>0, <1>3 DEF senderVars, receiverVars, ReadCounted
<1> QED
  <2>1. UNCHANGED vars => UNCHANGED <<senderVars, receiverVars>>
    BY DEF vars
  <2> QED
    BY <1>1, <1>2, <1>3, <2>1, Kinds DEF DispatcherKind, WorkerKind, StopKind

LEMMA TaskCountedStep == QueueSane /\ [Next]_vars => TaskCounted'
<1> SUFFICES ASSUME QueueSane, [Next]_vars PROVE TaskCounted'
  OBVIOUS
<1>0. /\ TaskTypes /\ CountTypes /\ WorkTypes /\ TaskCounted
      /\ nextRead \in Nat /\ Len(channel) \in Nat
      /\ counts.queued \in Nat /\ counts.completed \in Nat
      /\ metrics.completed \in Nat
  BY DEF QueueSane, Types, Counted, TaskTypes, CountTypes, ReceiverTypes
<1>1. CASE SenderKind
  <2>1. UNCHANGED <<dispatcher, channel, counts, worker, nextRead>>
    BY <1>1 DEF SenderKind, receiverVars, taskVars, workVars
  <2>2. metrics' \in {metrics, Failed, [metrics EXCEPT !.queued = @ + 1]}
    BY <1>1 DEF SenderKind, Say, TakeSegment, Publish, WriteFails, Account, StopCapture,
       CloseQueue, AbortWriter, NotifyClosed
  <2>3. metrics'.completed = metrics.completed
    BY <1>0, <2>2 DEF Failed, CountTypes
  <2> QED
    BY <1>0, <2>1, <2>3 DEF TaskCounted
<1>2. CASE ReceiverKind
  <2>0. UNCHANGED <<counts, channel, worker>>
    BY <1>2 DEF ReceiverKind, workVars
  <2>1. CASE ReadNext
    <3>1. /\ dispatcher.pc = "recv" /\ nextRead' = nextRead + 1 /\ dispatcher'.pc = "count"
          /\ UNCHANGED metrics
      BY <2>1 DEF ReadNext, Receiving, FollowingNumber, At
    <3> QED
      BY <1>0, <2>0, <3>1 DEF TaskCounted, Count
  <2>2. CASE ~ReadNext
    <3>1. /\ dispatcher'.pc \notin {"count", "send"} /\ dispatcher.pc = "recv" /\ nextRead' = nextRead
          /\ metrics' \in {metrics, Failed}
      BY <1>2, <2>2 DEF ReceiverKind, CheckQueue, CheckOpen, Listen, RecheckOpen, Wake, EndOfQueue, ReadFails,
         Receiving, At, receiverVars
    <3>2. metrics'.completed = metrics.completed
      BY <1>0, <3>1 DEF Failed, CountTypes
    <3> QED
      BY <1>0, <2>0, <3>1, <3>2 DEF TaskCounted, Count
  <2> QED
    BY <2>1, <2>2
<1>3. CASE DispatcherKind
  <2>0. UNCHANGED nextRead /\ metrics'.completed = metrics.completed
    <3>1. metrics' \in {metrics, Failed}
      BY <1>3 DEF DispatcherKind, EngineReady, EngineFails, CountSegment, SendSegment, LeaveWhenCancelled, JoinWorker
    <3> QED
      BY <1>0, <1>3, <3>1 DEF DispatcherKind, receiverVars, Failed, CountTypes
  <2>1. CASE CountSegment
    <3>1. /\ dispatcher.pc = "count" /\ dispatcher'.pc = "send" /\ UNCHANGED <<channel, worker>>
          /\ counts'.queued = counts.queued + 1 /\ counts'.completed = counts.completed
      BY <1>0, <2>1 DEF CountSegment, At, CountTypes, workVars
    <3> QED
      BY <1>0, <2>0, <3>1 DEF TaskCounted, Count
  <2>2. CASE SendSegment
    <3>1. Len(channel) = 0 /\ Len(channel') = 1
      BY <2>2 DEF SendSegment
    <3>2. /\ dispatcher.pc = "send" /\ dispatcher'.pc = "recv" /\ UNCHANGED <<counts, worker>>
      BY <2>2 DEF SendSegment, At, workVars
    <3> QED
      BY <1>0, <2>0, <3>1, <3>2 DEF TaskCounted, Count
  <2>3. CASE EngineReady \/ EngineFails \/ LeaveWhenCancelled \/ JoinWorker
    <3>1. /\ dispatcher'.pc \notin {"count", "send"} /\ UNCHANGED <<channel, counts>>
          /\ worker' = worker \/ worker'.pc = "finished"
      BY <2>3 DEF EngineReady, EngineFails, LeaveWhenCancelled, JoinWorker, At, workVars
    <3> QED
      BY <1>0, <2>0, <3>1 DEF TaskCounted, Count
  <2> QED
    BY <1>3, <2>1, <2>2, <2>3 DEF DispatcherKind
<1>4. CASE WorkerKind
  <2>0. UNCHANGED <<nextRead, dispatcher>>
    BY <1>4 DEF WorkerKind, receiverVars
  <2>1. CASE TakeWork
    <3>1. Len(channel) = 1 /\ Len(channel') = 0
      <4>1. channel # <<>> /\ channel' = <<>>
        BY <2>1 DEF TakeWork
      <4>2. Len(channel') = 0
        BY <4>1
      <4>3. Len(channel) = 1
        <5>1. channel \in Seq(Segment) /\ Len(channel) <= 1
          BY <1>0 DEF TaskTypes
        <5>2. Len(channel) \in Nat \ {0}
          BY <4>1, <5>1, EmptySeq
        <5>3. Len(channel) <= 1
          BY <5>1
        <5>4. Len(channel) \in Nat
          BY <5>1
        <5>5. Len(channel) # 0
          BY <5>2
        <5>6. \A n \in Nat : n <= 1 /\ n # 0 => n = 1
          OBVIOUS
        <5> QED
          BY <5>3, <5>4, <5>5, <5>6
      <4> QED
        BY <4>2, <4>3
    <3>2. worker.pc = "idle" /\ worker'.pc = "busy" /\ UNCHANGED <<counts, metrics>>
      BY <2>1 DEF TakeWork, At
    <3> QED
      BY <1>0, <2>0, <3>1, <3>2 DEF TaskCounted, Count
  <2>2. CASE Recognise \/ RecogniseFails
    <3>1. /\ worker.pc = "busy" /\ worker'.pc = "idle" /\ UNCHANGED channel
          /\ counts'.completed = counts.completed + 1 /\ counts'.queued = counts.queued
      BY <1>0, <2>2 DEF Recognise, RecogniseFails, Completed, At, CountTypes
    <3>2. metrics'.completed = metrics.completed + 1
      <4>1. metrics' \in {[metrics EXCEPT !.completed = @ + 1], RecordedFailure}
        BY <2>2 DEF Recognise, RecogniseFails
      <4> QED
        BY <1>0, <4>1 DEF RecordedFailure, CountTypes
    <3> QED
      BY <1>0, <2>0, <3>1, <3>2 DEF TaskCounted, Count
  <2>3. CASE WorkerPanics \/ WorkerEnds
    <3>1. worker'.pc \in {"dead", "finished"} /\ UNCHANGED <<channel, counts>>
      BY <2>3 DEF WorkerPanics, WorkerEnds, At
    <3>2. metrics'.completed = metrics.completed
      BY <1>0, <2>3 DEF WorkerPanics, WorkerEnds, Failed, CountTypes
    <3> QED
      BY <1>0, <2>0, <3>1, <3>2 DEF TaskCounted, Count
  <2> QED
    BY <1>4, <2>1, <2>2, <2>3 DEF WorkerKind
<1>5. CASE StopKind
  <2>1. dispatcher'.pc = "done" \/ dispatcher' = dispatcher
    BY <1>5 DEF StopKind, DrainEnds, DrainTimeout, GraceTimeout, AbortTask, At
  <2>2. UNCHANGED <<nextRead, channel, counts, worker, metrics>>
    BY <1>5 DEF StopKind, receiverVars, workVars
  <2> QED
    BY <1>0, <2>1, <2>2 DEF TaskCounted, Count
<1>6. CASE UNCHANGED vars
  BY <1>0, <1>6 DEF vars, receiverVars, taskVars, workVars, TaskCounted
<1> QED
  BY <1>1, <1>2, <1>3, <1>4, <1>5, <1>6, Kinds

LEMMA SaneStep == QueueSane /\ [Next]_vars => QueueSane'
<1>1. QueueSane => Types
  BY DEF QueueSane
<1> QED
  BY <1>1, SenderTypesStep, ReceiverTypesStep, TaskTypesStep, WorkTypesStep, CountTypesStep, StopTypesStep,
     WriteCountedStep, ReadCountedStep, TaskCountedStep DEF QueueSane, Types, Counted

(* Every variable keeps its type: sequence numbers, counters and metrics     *)
(* never pass the number of segments spoken, and the channel never holds     *)
(* more than one (QueueShared, TranscriptionMetrics,                         *)
(* start_transcription_task).                                                *)
THEOREM QueueTypes == Spec => []TypeOK
BY InitSane, SaneStep, SaneTypeOK, PTL DEF Spec

-----------------------------------------------------------------------------
(* The queue is closed once, empty of what was handed off; who gives up on   *)
(* the drain says that the transcript is incomplete.                         *)

Closing ==
  /\ closed <=> writer.pc \in {"notify", "gone"}
  /\ closed => handoff = <<>> /\ stop # "recording"
  /\ stop \in {"draining", "grace", "stopped"} => writer.pc = "gone"
  /\ stop = "grace" => cancelled
  /\ cancelled => incomplete

LEMMA InitClosing == Init => Closing
BY DEF Init, Closing, At

LEMMA ClosingStep == Types /\ Closing /\ [Next]_vars => Closing'
<1> SUFFICES ASSUME Types, Closing, [Next]_vars PROVE Closing'
  OBVIOUS
<1>0. /\ closed \in BOOLEAN /\ cancelled \in BOOLEAN /\ incomplete \in BOOLEAN
      /\ stop \in {"recording", "finishing", "draining", "grace", "stopped"}
      /\ writer.pc \in {"idle", "write", "account", "notify", "gone"}
  BY DEF Types, SenderTypes, StopTypes
<1>1. CASE SenderKind
  <2>1. UNCHANGED <<cancelled, incomplete>>
    BY <1>1 DEF SenderKind, Say, TakeSegment, Publish, WriteFails, Account, StopCapture, CloseQueue,
       AbortWriter, NotifyClosed, stopVars, taskVars
  <2>2. CASE Say \/ TakeSegment \/ StopCapture
    BY <1>0, <2>1, <2>2 DEF Closing, Say, TakeSegment, StopCapture, At, stopVars, senderVars
  <2>3. CASE Publish \/ WriteFails \/ Account
    BY <1>0, <2>1, <2>3 DEF Closing, Publish, WriteFails, Account, At, stopVars
  <2>4. CASE CloseQueue \/ AbortWriter \/ NotifyClosed
    BY <1>0, <2>1, <2>4 DEF Closing, CloseQueue, AbortWriter, NotifyClosed, At, stopVars
  <2> QED
    BY <1>1, <2>2, <2>3, <2>4 DEF SenderKind
<1>2. CASE StopKind
  <2>1. UNCHANGED <<closed, writer, handoff>>
    BY <1>2 DEF StopKind, senderVars
  <2>2. stop \in {"draining", "grace"} /\ stop' \in {"grace", "stopped"}
    BY <1>2 DEF StopKind, DrainEnds, DrainTimeout, GraceTimeout, AbortTask
  <2>3. /\ incomplete => incomplete'
        /\ stop' = "grace" => cancelled' /\ incomplete'
        /\ cancelled' => cancelled \/ incomplete'
    <3>1. CASE DrainEnds
      BY <3>1, Zenon DEF DrainEnds
    <3>2. CASE DrainTimeout
      BY <3>2, Zenon DEF DrainTimeout
    <3>3. CASE GraceTimeout
      BY <3>3, Zenon DEF GraceTimeout, AbortTask
    <3> QED
      BY <1>2, <3>1, <3>2, <3>3 DEF StopKind
  <2> QED
    BY <1>0, <2>1, <2>2, <2>3 DEF Closing
<1>3. CASE UNCHANGED <<senderVars, stopVars, cancelled>>
  BY <1>3 DEF Closing, senderVars, stopVars
<1> QED
  <2>1. UNCHANGED vars => UNCHANGED <<senderVars, stopVars, cancelled>>
    BY DEF vars, taskVars
  <2> QED
    BY <1>1, <1>2, <1>3, <2>1, Kinds DEF ReceiverKind, DispatcherKind, WorkerKind

-----------------------------------------------------------------------------
(* Where a segment can be, from the transcript back to the pipeline.         *)

Elements(q) == {q[i] : i \in 1 .. Len(q)}

Answered    == Elements(transcript)
Working     == IF worker.pc = "busy" THEN {worker.segment} ELSE {}
Sent        == Elements(channel)
Dispatching == IF dispatcher.pc \in {"count", "send"} THEN {dispatcher.segment} ELSE {}
Unread      == {disk[i] : i \in nextRead + 1 .. nextWrite}
Writing     == IF writer.pc = "write" THEN {writer.segment} ELSE {}
Waiting     == Elements(handoff)

Stages == <<Answered, Working, Sent, Dispatching, Unread, Writing, Waiting>>

\* One segment, earlier than what stays behind, moves a stage ahead.
Moves(f, g, k, x) ==
  /\ \A j \in 1 .. 7 : j # k /\ j # k + 1 => g[j] = f[j]
  /\ g[k] = f[k] \cup {x}
  /\ f[k + 1] = g[k + 1] \cup {x}
  /\ \A y \in g[k + 1] : x < y

\* Segments are only lost.
Drops(f, g) == \A j \in 1 .. 7 : g[j] \subseteq f[j]

\* A segment is spoken.
Enters(f, g, x) == (\A j \in 1 .. 6 : g[j] = f[j]) /\ g[7] = f[7] \cup {x}

Ordered(f) == \A j, k \in 1 .. 7 : j < k => \A a \in f[j], b \in f[k] : a < b
Within(f, R) == \A j \in 1 .. 7 : f[j] \subseteq R
Everything(f, n) == \A s \in 1 .. n : \E j \in 1 .. 7 : s \in f[j]

LEMMA MovesKeep ==
  ASSUME NEW f, NEW g, NEW k \in 1 .. 6, NEW x, Moves(f, g, k, x)
  PROVE  /\ Ordered(f) => Ordered(g)
         /\ \A R : Within(f, R) => Within(g, R)
         /\ \A n \in Nat : Everything(f, n) => Everything(g, n)
<1>1. ASSUME Ordered(f) PROVE Ordered(g)
  <2> SUFFICES ASSUME NEW j \in 1 .. 7, NEW l \in 1 .. 7, j < l, NEW a \in g[j], NEW b \in g[l]
               PROVE  a < b
    BY DEF Ordered
  <2>1. CASE a \in f[j] /\ b \in f[l]
    BY <1>1, <2>1 DEF Ordered
  <2>2. CASE a \notin f[j]
    <3>1. j = k /\ a = x
      BY <2>2 DEF Moves
    <3>2. CASE l = k + 1
      BY <3>1, <3>2 DEF Moves
    <3>3. CASE l # k + 1
      <4>1. l > k + 1 /\ b \in f[l] /\ x \in f[k + 1] /\ k + 1 \in 1 .. 7
        BY <3>1, <3>3 DEF Moves
      <4> QED
        BY <1>1, <3>1, <4>1 DEF Ordered
    <3> QED
      BY <3>2, <3>3
  <2>3. CASE a \in f[j] /\ b \notin f[l]
    <3>1. l = k /\ b = x
      BY <2>3 DEF Moves
    <3>2. x \in f[k + 1] /\ k + 1 \in 1 .. 7 /\ j < k + 1
      BY <3>1 DEF Moves
    <3> QED
      BY <1>1, <2>3, <3>1, <3>2 DEF Ordered
  <2> QED
    BY <2>1, <2>2, <2>3
<1>2. ASSUME NEW R, Within(f, R) PROVE Within(g, R)
  <2> SUFFICES ASSUME NEW j \in 1 .. 7 PROVE g[j] \subseteq R
    BY DEF Within
  <2>1. x \in R
    <3>1. k + 1 \in 1 .. 7 /\ x \in f[k + 1]
      BY DEF Moves
    <3> QED
      BY <1>2, <3>1 DEF Within
  <2> QED
    BY <1>2, <2>1 DEF Within, Moves
<1>3. ASSUME NEW n \in Nat, Everything(f, n) PROVE Everything(g, n)
  <2> SUFFICES ASSUME NEW s \in 1 .. n PROVE \E j \in 1 .. 7 : s \in g[j]
    BY DEF Everything
  <2>1. PICK j \in 1 .. 7 : s \in f[j]
    BY <1>3 DEF Everything
  <2>2. CASE s \in g[j]
    BY <2>2
  <2>3. CASE s \notin g[j]
    <3>1. s = x /\ k \in 1 .. 7 /\ x \in g[k]
      BY <2>1, <2>3 DEF Moves
    <3> QED
      BY <3>1
  <2> QED
    BY <2>2, <2>3
<1> QED
  BY <1>1, <1>2, <1>3

LEMMA DropsKeep ==
  ASSUME NEW f, NEW g, Drops(f, g)
  PROVE  /\ Ordered(f) => Ordered(g)
         /\ \A R : Within(f, R) => Within(g, R)
<1>1. ASSUME Ordered(f) PROVE Ordered(g)
  BY <1>1 DEF Ordered, Drops
<1>2. ASSUME NEW R, Within(f, R) PROVE Within(g, R)
  BY <1>2 DEF Within, Drops
<1> QED
  BY <1>1, <1>2

LEMMA EntersKeeps ==
  ASSUME NEW f, NEW g, NEW n \in Nat, Enters(f, g, n + 1)
  PROVE  /\ Ordered(f) /\ Within(f, 1 .. n) => Ordered(g)
         /\ Within(f, 1 .. n) => Within(g, 1 .. n + 1)
         /\ Everything(f, n) => Everything(g, n + 1)
<1>1. ASSUME Ordered(f), Within(f, 1 .. n) PROVE Ordered(g)
  <2> SUFFICES ASSUME NEW j \in 1 .. 7, NEW l \in 1 .. 7, j < l, NEW a \in g[j], NEW b \in g[l]
               PROVE  a < b
    BY DEF Ordered
  <2>1. a \in f[j] /\ a \in 1 .. n
    BY <1>1 DEF Enters, Within
  <2>2. b \in f[l] \/ b = n + 1
    BY DEF Enters
  <2>3. CASE b \in f[l]
    BY <1>1, <2>1, <2>3 DEF Ordered
  <2>4. CASE b = n + 1
    BY <2>1, <2>4
  <2> QED
    BY <2>2, <2>3, <2>4
<1>2. ASSUME Within(f, 1 .. n) PROVE Within(g, 1 .. n + 1)
  <2> SUFFICES ASSUME NEW j \in 1 .. 7, NEW a \in g[j] PROVE a \in 1 .. n + 1
    BY DEF Within
  <2>1. a \in f[j] \/ a = n + 1
    BY DEF Enters
  <2>2. a \in f[j] => a \in 1 .. n
    BY <1>2 DEF Within
  <2> QED
    BY <2>1, <2>2
<1>3. ASSUME Everything(f, n) PROVE Everything(g, n + 1)
  <2> SUFFICES ASSUME NEW s \in 1 .. n + 1 PROVE \E j \in 1 .. 7 : s \in g[j]
    BY DEF Everything
  <2>1. CASE s = n + 1
    BY <2>1 DEF Enters
  <2>2. CASE s \in 1 .. n
    <3>1. PICK j \in 1 .. 7 : s \in f[j]
      BY <1>3, <2>2 DEF Everything
    <3> QED
      BY <3>1 DEF Enters
  <2> QED
    BY <2>1, <2>2
<1> QED
  BY <1>1, <1>2, <1>3

-----------------------------------------------------------------------------
(* Sorted sequences: what Append and Tail do to them and to their elements.  *)

Sorted(q, from, to) == \A i, j \in from .. to : i < j => q[i] < q[j]

LEMMA ElementsAppend ==
  ASSUME NEW q \in Seq(Segment), NEW x \in Segment
  PROVE  /\ Elements(Append(q, x)) = Elements(q) \cup {x}
         /\ Sorted(q, 1, Len(q)) /\ (\A y \in Elements(q) : y < x)
              => Sorted(Append(q, x), 1, Len(Append(q, x)))
<1> DEFINE r == Append(q, x)
<1>1. Len(q) \in Nat /\ Len(r) = Len(q) + 1 /\ r[Len(q) + 1] = x /\ \A i \in 1 .. Len(q) : r[i] = q[i]
  OBVIOUS
<1> HIDE DEF r
<1>2. Elements(r) = Elements(q) \cup {x}
  <2>1. Elements(r) \subseteq Elements(q) \cup {x}
    BY <1>1 DEF Elements
  <2>2. Elements(q) \subseteq Elements(r)
    BY <1>1 DEF Elements
  <2>3. x \in Elements(r)
    BY <1>1 DEF Elements
  <2> QED
    BY <2>1, <2>2, <2>3
<1>3. ASSUME Sorted(q, 1, Len(q)), \A y \in Elements(q) : y < x
      PROVE  Sorted(r, 1, Len(r))
  <2> SUFFICES ASSUME NEW i \in 1 .. Len(r), NEW j \in 1 .. Len(r), i < j PROVE r[i] < r[j]
    BY DEF Sorted
  <2>1. i \in 1 .. Len(q) /\ r[i] = q[i] /\ q[i] \in Elements(q)
    BY <1>1 DEF Elements
  <2>2. CASE j \in 1 .. Len(q)
    BY <1>1, <1>3, <2>1, <2>2 DEF Sorted
  <2>3. CASE j = Len(q) + 1
    BY <1>1, <1>3, <2>1, <2>3
  <2> QED
    BY <1>1, <2>2, <2>3
<1> QED
  BY <1>2, <1>3 DEF r

LEMMA ElementsTail ==
  ASSUME NEW q \in Seq(Segment), q # <<>>
  PROVE  /\ Elements(q) = Elements(Tail(q)) \cup {Head(q)}
         /\ Sorted(q, 1, Len(q)) => Sorted(Tail(q), 1, Len(Tail(q)))
         /\ Sorted(q, 1, Len(q)) => \A y \in Elements(Tail(q)) : Head(q) < y
<1> DEFINE t == Tail(q)
<1>0. Len(q) \in Nat \ {0}
  BY EmptySeq
<1>1. Len(t) \in Nat /\ Len(q) = Len(t) + 1 /\ \A i \in 1 .. Len(t) : t[i] = q[i + 1]
  BY <1>0
<1>2. Head(q) = q[1]
  BY <1>0
<1> HIDE DEF t
<1>3. Elements(q) = Elements(t) \cup {Head(q)}
  <2>1. ASSUME NEW i \in 1 .. Len(q) PROVE q[i] \in Elements(t) \cup {Head(q)}
    <3>1. CASE i = 1
      BY <1>2, <3>1
    <3>2. CASE i # 1
      <4>1. i - 1 \in 1 .. Len(t) /\ (i - 1) + 1 = i
        BY <1>1, <3>2
      <4>2. t[i - 1] = q[i]
        BY <1>1, <4>1
      <4> QED
        BY <4>1, <4>2 DEF Elements
    <3> QED
      BY <3>1, <3>2
  <2>2. ASSUME NEW i \in 1 .. Len(t) PROVE t[i] \in Elements(q)
    BY <1>1 DEF Elements
  <2>3. Head(q) \in Elements(q)
    BY <1>1, <1>2 DEF Elements
  <2> QED
    BY <2>1, <2>2, <2>3 DEF Elements
<1>4. ASSUME Sorted(q, 1, Len(q)) PROVE Sorted(t, 1, Len(t))
  BY <1>1, <1>4 DEF Sorted
<1>5. ASSUME Sorted(q, 1, Len(q)) PROVE \A y \in Elements(t) : Head(q) < y
  <2> SUFFICES ASSUME NEW i \in 1 .. Len(t) PROVE Head(q) < t[i]
    BY DEF Elements
  <2>1. 1 \in 1 .. Len(q) /\ i + 1 \in 1 .. Len(q) /\ 1 < i + 1
    BY <1>1
  <2> QED
    BY <1>1, <1>2, <1>5, <2>1 DEF Sorted
<1> QED
  BY <1>3, <1>4, <1>5 DEF t

-----------------------------------------------------------------------------
(* The stages of the queue.                                                  *)

InOrder ==
  /\ Sorted(transcript, 1, Len(transcript))
  /\ Sorted(disk, nextRead + 1, nextWrite)
  /\ Sorted(handoff, 1, Len(handoff))
  /\ Ordered(Stages)
  /\ Within(Stages, 1 .. said)

QueueInv == QueueSane /\ Closing /\ InOrder

Losing == metrics'.failed > 0 \/ cancelled'

LEMMA StageValues ==
  /\ Stages[1] = Answered /\ Stages[2] = Working /\ Stages[3] = Sent /\ Stages[4] = Dispatching
  /\ Stages[5] = Unread /\ Stages[6] = Writing /\ Stages[7] = Waiting
BY DEF Stages

LEMMA StageValuesNext ==
  /\ Stages'[1] = Answered' /\ Stages'[2] = Working' /\ Stages'[3] = Sent' /\ Stages'[4] = Dispatching'
  /\ Stages'[5] = Unread' /\ Stages'[6] = Writing' /\ Stages'[7] = Waiting'
BY DEF Stages

\* What each part leaves in place.
LEMMA StageFrames ==
  /\ SenderKind => UNCHANGED <<Answered, Working, Sent, Dispatching>>
  /\ ReceiverKind => UNCHANGED <<Answered, Working, Sent, Writing, Waiting>>
  /\ DispatcherKind => UNCHANGED <<Unread, Writing, Waiting>>
  /\ WorkerKind => UNCHANGED <<Dispatching, Unread, Writing, Waiting>>
  /\ StopKind => UNCHANGED <<Answered, Working, Sent, Unread, Writing, Waiting>>
  /\ UNCHANGED vars => UNCHANGED Stages
<1> USE DEF Answered, Working, Sent, Dispatching, Unread, Writing, Waiting
<1>1. SenderKind => UNCHANGED <<Answered, Working, Sent, Dispatching>>
  BY DEF SenderKind, taskVars, workVars
<1>2. ReceiverKind => UNCHANGED <<Answered, Working, Sent, Writing, Waiting>>
  BY DEF ReceiverKind, senderVars, workVars
<1>3. DispatcherKind => UNCHANGED <<Unread, Writing, Waiting>>
  BY DEF DispatcherKind, senderVars, receiverVars
<1>4. WorkerKind => UNCHANGED <<Dispatching, Unread, Writing, Waiting>>
  BY DEF WorkerKind, senderVars, receiverVars
<1>5. StopKind => UNCHANGED <<Answered, Working, Sent, Unread, Writing, Waiting>>
  BY DEF StopKind, senderVars, receiverVars, workVars
<1>6. UNCHANGED vars => UNCHANGED Stages
  BY DEF vars, senderVars, receiverVars, taskVars, workVars, Stages
<1> QED
  BY <1>1, <1>2, <1>3, <1>4, <1>5, <1>6

\* A failure is counted.
LEMMA FailedCounts == CountTypes /\ (metrics' = Failed \/ metrics' = RecordedFailure) => Losing
<1> SUFFICES ASSUME CountTypes, metrics' = Failed \/ metrics' = RecordedFailure PROVE metrics'.failed > 0
  BY DEF Losing
<1>1. metrics.failed \in Nat
  BY DEF CountTypes
<1>2. metrics'.failed = metrics.failed + 1
  BY DEF CountTypes, Failed, RecordedFailure
<1> QED
  BY <1>1, <1>2

\* How a step can treat the stages: one segment enters, nothing moves, one
\* moves a stage ahead, or some are lost and a failure counted.
StageMove ==
  \/ said' = said + 1 /\ Enters(Stages, Stages', said + 1)
  \/ said' = said /\ UNCHANGED Stages
  \/ said' = said /\ \E k \in 1 .. 6 : \E x : Moves(Stages, Stages', k, x)
  \/ said' \in {said, said + 1} /\ Drops(Stages, Stages') /\ Losing

LEMMA SenderStage ==
  ASSUME QueueInv, SenderKind
  PROVE  StageMove
<1>0. /\ SenderTypes /\ CountTypes /\ said \in Nat
      /\ Sorted(handoff, 1, Len(handoff))
      /\ handoff \in Seq(Segment)
  BY DEF QueueInv, QueueSane, Types, SenderTypes, InOrder
<1>1. UNCHANGED <<Answered, Working, Sent, Dispatching>>
  BY StageFrames
<1>2. CASE Say
  <2>1. said' = said + 1 /\ UNCHANGED <<Unread, Writing>>
    BY <1>2 DEF Say, Unread, Writing, receiverVars
  <2>2. CASE handoff' = Append(handoff, said + 1)
    <3>1. said + 1 \in Segment
      BY <1>0, <1>2, QueueAssumption DEF Say, Segment
    <3>2. Waiting' = Waiting \cup {said + 1}
      BY <1>0, <2>2, <3>1, ElementsAppend DEF Waiting
    <3>3. Enters(Stages, Stages', said + 1)
      BY <1>1, <2>1, <3>2, StageValues, StageValuesNext DEF Enters
    <3> QED
      BY <2>1, <3>3 DEF StageMove
  <2>3. CASE metrics' = Failed /\ UNCHANGED handoff
    <3>1. UNCHANGED Waiting
      BY <2>3 DEF Waiting
    <3>2. Drops(Stages, Stages')
      BY <1>1, <2>1, <3>1, StageValues, StageValuesNext DEF Drops
    <3>3. Losing
      BY <1>0, <2>3, FailedCounts
    <3> QED
      BY <2>1, <3>2, <3>3 DEF StageMove
  <2> QED
    BY <1>2, <2>2, <2>3 DEF Say
<1>3. CASE TakeSegment
  <2>1. /\ UNCHANGED said /\ handoff # <<>> /\ handoff' = Tail(handoff)
        /\ Writing = {} /\ Writing' = {Head(handoff)} /\ UNCHANGED Unread
    BY <1>3 DEF TakeSegment, Writing, Unread, At, receiverVars
  <2>2. Waiting = Waiting' \cup {Head(handoff)} /\ \A y \in Waiting' : Head(handoff) < y
    BY <1>0, <2>1, ElementsTail DEF Waiting
  <2>3. Moves(Stages, Stages', 6, Head(handoff))
    BY <1>1, <2>1, <2>2, StageValues, StageValuesNext DEF Moves
  <2> QED
    BY <2>1, <2>3 DEF StageMove
<1>4. CASE Publish
  <2>1. /\ UNCHANGED <<said, nextRead, Waiting>> /\ Writing = {writer.segment} /\ Writing' = {}
        /\ writer.pc = "write" /\ disk' = Written /\ nextWrite' = Len(Written)
    BY <1>4 DEF Publish, Writing, Waiting, At, receiverVars
  <2>2. Unread' = Unread \cup {writer.segment}
    <3>1. /\ nextWrite' = nextWrite + 1 /\ disk'[nextWrite + 1] = writer.segment
          /\ \A i \in 1 .. nextWrite : disk'[i] = disk[i]
      BY <1>0, <2>1, WrittenDisk
    <3>2. nextRead \in Nat /\ nextWrite \in Nat /\ nextRead <= nextWrite
      BY <1>0 DEF QueueInv, QueueSane, Types, SenderTypes, ReceiverTypes, Counted, ReadCounted
    <3>3. Unread' = {disk'[i] : i \in nextRead + 1 .. nextWrite + 1}
      BY <2>1, <3>1 DEF Unread
    <3>4. \A i \in nextRead + 1 .. nextWrite : disk'[i] = disk[i]
      BY <3>1, <3>2
    <3>5. nextRead + 1 .. nextWrite + 1 = (nextRead + 1 .. nextWrite) \cup {nextWrite + 1}
      BY <3>2
    <3> QED
      BY <3>1, <3>3, <3>4, <3>5 DEF Unread
  <2>3. Moves(Stages, Stages', 5, writer.segment)
    BY <1>1, <2>1, <2>2, StageValues, StageValuesNext DEF Moves
  <2> QED
    BY <2>1, <2>3 DEF StageMove
<1>5. CASE WriteFails \/ AbortWriter
  <2>1. /\ UNCHANGED <<said, disk, nextWrite, nextRead>> /\ metrics' = Failed
        /\ handoff' = handoff \/ handoff' = <<>>
        /\ writer'.pc \in {"idle", "notify"}
    BY <1>5 DEF WriteFails, AbortWriter, At, receiverVars
  <2>2. Waiting' \subseteq Waiting
    <3>1. CASE handoff' = <<>>
      BY <3>1 DEF Waiting, Elements
    <3> QED
      BY <2>1, <3>1 DEF Waiting
  <2>3. Writing' \subseteq Writing /\ Unread' = Unread
    BY <2>1 DEF Writing, Unread
  <2>4. Drops(Stages, Stages')
    BY <1>1, <2>2, <2>3, StageValues, StageValuesNext DEF Drops
  <2>5. Losing
    BY <1>0, <2>1, FailedCounts
  <2> QED
    BY <2>1, <2>4, <2>5 DEF StageMove
<1>6. CASE Account \/ StopCapture \/ CloseQueue \/ NotifyClosed
  <2>1. /\ UNCHANGED <<said, handoff, disk, nextWrite, nextRead>>
        /\ \/ writer.pc # "write" /\ writer'.pc # "write"
           \/ writer' = writer
    BY <1>6 DEF Account, StopCapture, CloseQueue, NotifyClosed, At, receiverVars, senderVars
  <2>2. UNCHANGED <<Unread, Writing, Waiting>>
    BY <2>1 DEF Unread, Writing, Waiting
  <2>3. UNCHANGED Stages
    BY <1>1, <2>2 DEF Stages
  <2> QED
    BY <2>1, <2>3 DEF StageMove
<1> QED
  BY <1>2, <1>3, <1>4, <1>5, <1>6 DEF SenderKind

LEMMA ReceiverStage ==
  ASSUME QueueInv, ReceiverKind
  PROVE  StageMove
<1>0. /\ SenderTypes /\ ReceiverTypes /\ CountTypes /\ nextWrite \in Nat /\ nextRead \in Nat
  BY DEF QueueInv, QueueSane, Types, SenderTypes, ReceiverTypes
<1>1. UNCHANGED <<Answered, Working, Sent, Writing, Waiting, said, disk, nextWrite>>
  BY StageFrames DEF ReceiverKind, senderVars
<1>2. CASE ReadNext
  <2>1. /\ dispatcher.pc = "recv" /\ dispatcher' = At("count", disk[nextRead + 1])
        /\ nextRead' = nextRead + 1 /\ recv = "read"
    BY <1>2 DEF ReadNext, Receiving, FollowingNumber
  <2>2. nextRead + 1 <= nextWrite /\ Sorted(disk, nextRead + 1, nextWrite)
    BY <1>0, <2>1 DEF QueueInv, QueueSane, Counted, ReadCounted, InOrder
  <2>3. Dispatching = {} /\ Dispatching' = {disk[nextRead + 1]}
    BY <2>1 DEF Dispatching, At
  <2>4. nextRead + 1 .. nextWrite = (nextRead + 2 .. nextWrite) \cup {nextRead + 1}
    BY <1>0, <2>2
  <2>5. Unread' = {disk[i] : i \in nextRead + 2 .. nextWrite}
    <3>1. (nextRead + 1) + 1 = nextRead + 2
      BY <1>0
    <3> QED
      BY <1>1, <2>1, <3>1 DEF Unread
  <2>6. Unread = Unread' \cup {disk[nextRead + 1]}
    BY <2>4, <2>5 DEF Unread
  <2>7. \A y \in Unread' : disk[nextRead + 1] < y
    <3> SUFFICES ASSUME NEW i \in nextRead + 2 .. nextWrite PROVE disk[nextRead + 1] < disk[i]
      BY <2>5
    <3>1. nextRead + 1 \in nextRead + 1 .. nextWrite /\ i \in nextRead + 1 .. nextWrite /\ nextRead + 1 < i
      BY <1>0, <2>2
    <3> QED
      BY <2>2, <3>1 DEF Sorted
  <2>8. Moves(Stages, Stages', 4, disk[nextRead + 1])
    BY <1>1, <2>3, <2>6, <2>7, StageValues, StageValuesNext DEF Moves
  <2> QED
    BY <1>1, <2>8 DEF StageMove
<1>3. CASE ~ReadNext
  <2>1. UNCHANGED nextRead /\ dispatcher.pc = "recv" /\ dispatcher'.pc \in {"recv", "join"}
    BY <1>3 DEF ReceiverKind, CheckQueue, CheckOpen, Listen, RecheckOpen, Wake, EndOfQueue, ReadFails,
       Receiving, At, receiverVars
  <2>2. UNCHANGED <<Dispatching, Unread>>
    BY <1>1, <2>1 DEF Dispatching, Unread
  <2>3. UNCHANGED Stages
    BY <1>1, <2>2 DEF Stages
  <2> QED
    BY <1>1, <2>3 DEF StageMove
<1> QED
  BY <1>2, <1>3

LEMMA DispatcherStage ==
  ASSUME QueueInv, DispatcherKind
  PROVE  StageMove
<1>0. TaskTypes /\ CountTypes /\ WorkTypes
  BY DEF QueueInv, QueueSane, Types
<1>1. UNCHANGED <<Unread, Writing, Waiting, said, cancelled>>
  BY StageFrames DEF DispatcherKind, senderVars
<1>2. CASE SendSegment
  <2>1. /\ dispatcher.pc = "send" /\ dispatcher' = At("recv", None) /\ channel = <<>>
        /\ channel' = <<dispatcher.segment>> /\ UNCHANGED workVars
    BY <1>2 DEF SendSegment
  <2>2. Dispatching = {dispatcher.segment} /\ Dispatching' = {}
    BY <2>1 DEF Dispatching, At
  <2>3. Sent = {} /\ Sent' = {dispatcher.segment}
    BY <2>1 DEF Sent, Elements
  <2>4. UNCHANGED <<Answered, Working>>
    BY <2>1 DEF Answered, Working, workVars
  <2>5. Moves(Stages, Stages', 3, dispatcher.segment)
    BY <1>1, <2>2, <2>3, <2>4, StageValues, StageValuesNext DEF Moves
  <2> QED
    BY <1>1, <2>5 DEF StageMove
<1>3. CASE EngineReady \/ CountSegment \/ JoinWorker
  <2>1. UNCHANGED <<channel, workVars>>
    BY <1>3 DEF EngineReady, CountSegment, JoinWorker
  <2>2. UNCHANGED Dispatching
    BY <1>3 DEF EngineReady, CountSegment, JoinWorker, Dispatching, At
  <2>3. UNCHANGED <<Answered, Working, Sent>>
    BY <2>1 DEF Answered, Working, Sent, workVars
  <2>4. UNCHANGED Stages
    BY <1>1, <2>2, <2>3 DEF Stages
  <2> QED
    BY <1>1, <2>4 DEF StageMove
<1>4. CASE EngineFails \/ LeaveWhenCancelled
  <2>1. /\ dispatcher'.pc \in {"done", "join"} /\ UNCHANGED <<channel, transcript>>
        /\ worker' = worker \/ worker'.pc = "finished"
    BY <1>4 DEF EngineFails, LeaveWhenCancelled, At, workVars
  <2>2. /\ Dispatching' = {} /\ UNCHANGED <<Answered, Sent>> /\ Working' \subseteq Working
    BY <2>1 DEF Answered, Working, Sent, Dispatching
  <2>3. Drops(Stages, Stages')
    BY <1>1, <2>2, StageValues, StageValuesNext DEF Drops
  <2>4. Losing
    <3>1. CASE EngineFails
      BY <1>0, <3>1, FailedCounts DEF EngineFails
    <3>2. CASE LeaveWhenCancelled
      BY <1>1, <3>2 DEF LeaveWhenCancelled, Losing
    <3> QED
      BY <1>4, <3>1, <3>2
  <2> QED
    BY <1>1, <2>3, <2>4 DEF StageMove
<1> QED
  BY <1>2, <1>3, <1>4 DEF DispatcherKind

LEMMA WorkerStage ==
  ASSUME QueueInv, WorkerKind
  PROVE  StageMove
<1>0. TaskTypes /\ CountTypes /\ WorkTypes
  BY DEF QueueInv, QueueSane, Types
<1>1. UNCHANGED <<Dispatching, Unread, Writing, Waiting, said>>
  BY StageFrames DEF WorkerKind, senderVars
<1>2. CASE TakeWork
  <2>1. /\ worker.pc = "idle" /\ worker' = At("busy", Head(channel)) /\ channel # <<>>
        /\ channel' = <<>> /\ UNCHANGED transcript
    BY <1>2 DEF TakeWork
  <2>2. Working = {} /\ Working' = {Head(channel)} /\ UNCHANGED Answered
    BY <2>1 DEF Working, Answered, At
  <2>3. Sent' = {}
    BY <2>1 DEF Sent, Elements
  <2>4. Sent = {Head(channel)}
    <3>1. channel \in Seq(Segment) /\ Len(channel) <= 1
      BY <1>0 DEF TaskTypes
    <3>2. Len(channel) \in Nat \ {0}
      BY <2>1, <3>1, EmptySeq
    <3>3. 1 .. Len(channel) = {1} /\ Head(channel) = channel[1]
      BY <3>1, <3>2
    <3> QED
      BY <3>3 DEF Sent, Elements
  <2>5. Moves(Stages, Stages', 2, Head(channel))
    BY <1>1, <2>2, <2>3, <2>4, StageValues, StageValuesNext DEF Moves
  <2> QED
    BY <1>1, <2>5 DEF StageMove
<1>3. CASE worker.pc = "busy" /\ transcript' = Append(transcript, worker.segment)
           /\ worker'.pc = "idle" /\ UNCHANGED channel
  <2>1. Working = {worker.segment} /\ Working' = {} /\ UNCHANGED Sent
    BY <1>3 DEF Working, Sent
  <2>2. transcript \in Seq(Segment) /\ worker.segment \in Segment
    BY <1>0, <1>3 DEF WorkTypes
  <2>3. Answered' = Answered \cup {worker.segment}
    BY <1>3, <2>2, ElementsAppend DEF Answered
  <2>4. Moves(Stages, Stages', 1, worker.segment)
    BY <1>1, <2>1, <2>3, StageValues, StageValuesNext DEF Moves
  <2> QED
    BY <1>1, <2>4 DEF StageMove
<1>4. CASE UNCHANGED <<transcript, channel>> /\ worker'.pc \in {"idle", "dead"} /\ Losing
  <2>1. UNCHANGED <<Answered, Sent>> /\ Working' \subseteq Working
    BY <1>4 DEF Answered, Sent, Working
  <2>2. Drops(Stages, Stages')
    BY <1>1, <2>1, StageValues, StageValuesNext DEF Drops
  <2> QED
    BY <1>1, <1>4, <2>2 DEF StageMove
<1>5. CASE WorkerEnds
  <2>1. UNCHANGED <<transcript, channel>> /\ worker.pc = "idle" /\ worker'.pc = "finished"
    BY <1>5 DEF WorkerEnds, At
  <2>2. UNCHANGED <<Answered, Sent, Working>>
    BY <2>1 DEF Answered, Sent, Working
  <2>3. UNCHANGED Stages
    BY <1>1, <2>2 DEF Stages
  <2> QED
    BY <1>1, <2>3 DEF StageMove
<1> QED
  <2>1. CASE Recognise
    BY <1>3, <2>1 DEF Recognise, Completed, At
  <2>2. CASE RecogniseFails
    <3>1. Losing /\ worker.pc = "busy" /\ worker'.pc = "idle" /\ UNCHANGED channel
          /\ transcript' \in {transcript, Append(transcript, worker.segment)}
      BY <1>0, <2>2, FailedCounts DEF RecogniseFails, Completed, At
    <3> QED
      BY <1>3, <1>4, <3>1
  <2>3. CASE WorkerPanics
    <3>1. Losing /\ worker'.pc = "dead" /\ UNCHANGED <<channel, transcript>>
      BY <1>0, <2>3, FailedCounts DEF WorkerPanics, At
    <3> QED
      BY <1>4, <3>1
  <2> QED
    BY <1>2, <1>5, <2>1, <2>2, <2>3 DEF WorkerKind

LEMMA StopStage ==
  ASSUME QueueInv, StopKind
  PROVE  StageMove
<1>1. UNCHANGED <<Answered, Working, Sent, Unread, Writing, Waiting, said>>
  BY StageFrames DEF StopKind, senderVars
<1>2. CASE DrainEnds \/ DrainTimeout
  <2>1. UNCHANGED dispatcher
    BY <1>2 DEF DrainEnds, DrainTimeout
  <2>2. UNCHANGED Stages
    BY <1>1, <2>1 DEF Stages, Dispatching
  <2> QED
    BY <1>1, <2>2 DEF StageMove
<1>3. CASE GraceTimeout
  <2>1. Dispatching' = {}
    BY <1>3 DEF GraceTimeout, AbortTask, Dispatching, At
  <2>2. Drops(Stages, Stages')
    BY <1>1, <2>1, StageValues, StageValuesNext DEF Drops
  <2>3. Losing
    BY <1>3 DEF GraceTimeout, AbortTask, QueueInv, Closing, Losing
  <2> QED
    BY <1>1, <2>2, <2>3 DEF StageMove
<1> QED
  BY <1>2, <1>3 DEF StopKind

LEMMA StageStep == QueueInv /\ [Next]_vars => StageMove
<1> SUFFICES ASSUME QueueInv, [Next]_vars PROVE StageMove
  OBVIOUS
<1>1. CASE UNCHANGED vars
  BY <1>1, StageFrames DEF vars, senderVars, StageMove
<1> QED
  BY <1>1, SenderStage, ReceiverStage, DispatcherStage, WorkerStage, StopStage, Kinds

\* The three sequences stay sorted, and so do the stages.
LEMMA InOrderStep == QueueInv /\ [Next]_vars => InOrder'
<1> SUFFICES ASSUME QueueInv, [Next]_vars PROVE InOrder'
  OBVIOUS
<1>0. /\ SenderTypes /\ ReceiverTypes /\ WorkTypes /\ InOrder /\ Ordered(Stages) /\ Within(Stages, 1 .. said)
      /\ said \in Nat /\ said' \in Nat
  <2>1. SenderTypes'
    BY SenderTypesStep DEF QueueInv, QueueSane
  <2> QED
    BY <2>1 DEF QueueInv, QueueSane, Types, InOrder, SenderTypes
<1>1. Ordered(Stages') /\ Within(Stages', 1 .. said')
  <2>1. CASE said' = said + 1 /\ Enters(Stages, Stages', said + 1)
    BY <1>0, <2>1, EntersKeeps
  <2>2. CASE said' = said /\ UNCHANGED Stages
    BY <1>0, <2>2 DEF Ordered, Within
  <2>3. CASE said' = said /\ \E k \in 1 .. 6 : \E x : Moves(Stages, Stages', k, x)
    BY <1>0, <2>3, MovesKeep
  <2>4. CASE said' \in {said, said + 1} /\ Drops(Stages, Stages') /\ Losing
    <3>1. Ordered(Stages') /\ Within(Stages', 1 .. said)
      BY <1>0, <2>4, DropsKeep
    <3>2. 1 .. said \subseteq 1 .. said'
      BY <1>0, <2>4
    <3> QED
      BY <3>1, <3>2 DEF Within
  <2> QED
    BY <2>1, <2>2, <2>3, <2>4, StageStep DEF StageMove
<1>2. Sorted(transcript, 1, Len(transcript))'
  <2>1. CASE worker.pc = "busy" /\ transcript' = Append(transcript, worker.segment)
    <3>1. transcript \in Seq(Segment) /\ worker.segment \in Segment
      BY <1>0, <2>1 DEF WorkTypes
    <3>2. \A y \in Answered : y < worker.segment
      <4>1. Stages[1] = Answered /\ Stages[2] = {worker.segment}
        BY <2>1, StageValues DEF Working
      <4> QED
        BY <1>0, <4>1 DEF Ordered
    <3> QED
      BY <1>0, <2>1, <3>1, <3>2, ElementsAppend DEF InOrder, Answered
  <2>2. CASE UNCHANGED transcript
    BY <1>0, <2>2 DEF InOrder
  <2> QED
    <3>1. ReceiverKind \/ SenderKind \/ StopKind \/ UNCHANGED vars => UNCHANGED transcript
      BY DEF ReceiverKind, SenderKind, StopKind, workVars, vars
    <3>2. DispatcherKind => UNCHANGED transcript
      BY DEF DispatcherKind, EngineReady, EngineFails, CountSegment, SendSegment, LeaveWhenCancelled,
         JoinWorker, workVars
    <3>3. WorkerKind => \/ UNCHANGED transcript
                        \/ worker.pc = "busy" /\ transcript' = Append(transcript, worker.segment)
      BY DEF WorkerKind, TakeWork, Recognise, RecogniseFails, WorkerPanics, WorkerEnds
    <3> QED
      BY <2>1, <2>2, <3>1, <3>2, <3>3, Kinds
<1>3. Sorted(disk, nextRead + 1, nextWrite)'
  <2>0. /\ nextRead \in Nat /\ nextWrite \in Nat /\ nextRead <= nextWrite
        /\ Sorted(disk, nextRead + 1, nextWrite)
    BY <1>0 DEF QueueInv, QueueSane, Counted, ReadCounted, ReceiverTypes, SenderTypes, InOrder
  <2>1. CASE Publish
    <3>0. writer.pc = "write" /\ disk' = Written /\ nextWrite' = Len(Written) /\ nextRead' = nextRead
      BY <2>1 DEF Publish, receiverVars
    <3>1. /\ nextWrite' = nextWrite + 1 /\ disk'[nextWrite + 1] = writer.segment
          /\ \A i \in 1 .. nextWrite : disk'[i] = disk[i]
      BY <1>0, <3>0, WrittenDisk
    <3>2. \A i \in nextRead + 1 .. nextWrite : disk[i] < writer.segment
      <4>1. Stages[5] = Unread /\ Stages[6] = {writer.segment}
        BY <3>0, StageValues DEF Writing
      <4>2. \A y \in Unread : y < writer.segment
        BY <1>0, <4>1 DEF Ordered
      <4> QED
        BY <4>2 DEF Unread
    <3>3. ASSUME NEW i \in nextRead + 1 .. nextWrite + 1, NEW j \in nextRead + 1 .. nextWrite + 1, i < j
          PROVE  disk'[i] < disk'[j]
      <4>1. i \in 1 .. nextWrite /\ i \in nextRead + 1 .. nextWrite /\ disk'[i] = disk[i]
        BY <2>0, <3>1, <3>3
      <4>2. CASE j = nextWrite + 1
        BY <3>1, <3>2, <4>1, <4>2
      <4>3. CASE j # nextWrite + 1
        <5>1. j \in 1 .. nextWrite /\ j \in nextRead + 1 .. nextWrite
          BY <2>0, <4>3
        <5> QED
          BY <2>0, <3>1, <3>3, <4>1, <5>1 DEF Sorted
      <4> QED
        BY <4>2, <4>3
    <3> QED
      BY <3>0, <3>1, <3>3 DEF Sorted
  <2>2. CASE UNCHANGED <<disk, nextWrite>> /\ nextRead' \in {nextRead, nextRead + 1}
    <3>1. \A i \in nextRead' + 1 .. nextWrite : i \in nextRead + 1 .. nextWrite
      <4>1. CASE nextRead' = nextRead
        BY <4>1
      <4>2. CASE nextRead' = nextRead + 1
        <5>1. \A i \in (nextRead + 1) + 1 .. nextWrite : i \in nextRead + 1 .. nextWrite
          BY <2>0
        <5> QED
          BY <4>2, <5>1
      <4> QED
        BY <2>2, <4>1, <4>2
    <3> QED
      BY <2>0, <2>2, <3>1 DEF Sorted
  <2> QED
    <3>1. SenderKind => Publish \/ UNCHANGED <<disk, nextWrite, nextRead>>
      BY DEF SenderKind, Say, TakeSegment, Publish, WriteFails, Account, StopCapture, CloseQueue,
         AbortWriter, NotifyClosed, senderVars, receiverVars
    <3>2. ReceiverKind => UNCHANGED <<disk, nextWrite>> /\ nextRead' \in {nextRead, nextRead + 1}
      BY DEF ReceiverKind, CheckQueue, CheckOpen, Listen, RecheckOpen, Wake, EndOfQueue, ReadNext,
         FollowingNumber, ReadFails, senderVars, receiverVars
    <3>3. DispatcherKind \/ WorkerKind \/ StopKind \/ UNCHANGED vars => UNCHANGED <<disk, nextWrite, nextRead>>
      BY DEF DispatcherKind, WorkerKind, StopKind, vars, senderVars, receiverVars
    <3> QED
      BY <2>1, <2>2, <3>1, <3>2, <3>3, Kinds
<1>4. Sorted(handoff, 1, Len(handoff))'
  <2>0. handoff \in Seq(Segment) /\ Sorted(handoff, 1, Len(handoff))
    BY <1>0 DEF SenderTypes, InOrder
  <2>1. CASE said < S /\ handoff' = Append(handoff, said + 1)
    <3>1. said + 1 \in Segment
      BY <1>0, <2>1, QueueAssumption DEF Segment
    <3>2. \A y \in Waiting : y < said + 1
      <4>1. Waiting \subseteq 1 .. said
        BY <1>0, StageValues DEF Within
      <4> QED
        BY <1>0, <4>1
    <3> QED
      BY <2>0, <2>1, <3>1, <3>2, ElementsAppend DEF Waiting
  <2>2. CASE handoff # <<>> /\ handoff' = Tail(handoff)
    BY <2>0, <2>2, ElementsTail
  <2>3. CASE handoff' = <<>>
    BY <2>3 DEF Sorted
  <2>4. CASE handoff' = handoff
    BY <2>0, <2>4
  <2> QED
    <3>1. SenderKind => \/ said < S /\ handoff' = Append(handoff, said + 1)
                        \/ handoff # <<>> /\ handoff' = Tail(handoff)
                        \/ handoff' = <<>>
                        \/ handoff' = handoff
      BY DEF SenderKind, Say, TakeSegment, Publish, WriteFails, Account, StopCapture, CloseQueue,
         AbortWriter, NotifyClosed, senderVars
    <3>2. ReceiverKind \/ DispatcherKind \/ WorkerKind \/ StopKind \/ UNCHANGED vars => UNCHANGED handoff
      BY DEF ReceiverKind, DispatcherKind, WorkerKind, StopKind, vars, senderVars
    <3> QED
      BY <2>1, <2>2, <2>3, <2>4, <3>1, <3>2, Kinds
<1> QED
  BY <1>1, <1>2, <1>3, <1>4 DEF InOrder

LEMMA InitQueueInv == Init => QueueInv
<1> SUFFICES ASSUME Init PROVE QueueInv
  OBVIOUS
<1>1. /\ Answered = {} /\ Working = {} /\ Sent = {} /\ Dispatching = {} /\ Unread = {} /\ Writing = {}
      /\ Waiting = {}
  BY DEF Init, Answered, Working, Sent, Dispatching, Unread, Writing, Waiting, Elements, At
<1>2. \A k \in 1 .. 7 : Stages[k] = {}
  BY <1>1, StageValues
<1>3. Ordered(Stages) /\ Within(Stages, 1 .. said)
  BY <1>2 DEF Ordered, Within
<1>4. Sorted(transcript, 1, Len(transcript)) /\ Sorted(handoff, 1, Len(handoff))
  BY DEF Init, Sorted
<1>5. Sorted(disk, nextRead + 1, nextWrite)
  BY DEF Init, Sorted
<1> QED
  BY <1>3, <1>4, <1>5, InitSane, InitClosing DEF QueueInv, InOrder

LEMMA QueueInvStep == QueueInv /\ [Next]_vars => QueueInv'
<1>1. QueueInv => QueueSane /\ Types /\ Closing
  BY DEF QueueInv, QueueSane
<1> QED
  BY <1>1, SaneStep, ClosingStep, InOrderStep DEF QueueInv

(* Segments are emitted in the order they were spoken and none twice,        *)
(* whatever fails on the way: each stage of the queue holds segments spoken  *)
(* later than those of the stage ahead of it, so the one that reaches the    *)
(* transcript is later than all that are there (QueueShared, BufferedSpool,  *)
(* start_transcription_task).                                                *)
THEOREM SpokenInOrder == Spec => []SpokenOrder
<1>1. QueueInv => SpokenOrder
  BY DEF QueueInv, InOrder, Sorted, SpokenOrder
<1> QED
  BY <1>1, InitQueueInv, QueueInvStep, PTL DEF Spec

-----------------------------------------------------------------------------
(* Without a failure or a cancellation every segment is in some stage, and   *)
(* what was read and is not completed is with the task.                      *)

Underway == nextRead = metrics.completed + Count(worker.pc = "busy") + Len(channel)
                         + Count(dispatcher.pc \in {"count", "send"})

NothingLost ==
  metrics.failed = 0 /\ ~cancelled => Everything(Stages, said) /\ Underway

LEMMA NothingLostStep == QueueInv /\ NothingLost /\ [Next]_vars => NothingLost'
<1> SUFFICES ASSUME QueueInv, NothingLost, [Next]_vars, metrics'.failed = 0, ~cancelled'
             PROVE  Everything(Stages', said') /\ Underway'
  BY DEF NothingLost
<1>0. /\ TaskTypes /\ CountTypes /\ WorkTypes /\ TaskCounted
      /\ nextRead \in Nat /\ Len(channel) \in Nat
      /\ metrics.completed \in Nat /\ metrics.failed \in Nat /\ said \in Nat
  BY DEF QueueInv, QueueSane, Types, Counted, TaskTypes, CountTypes, ReceiverTypes, SenderTypes
<1>1. ~Losing
  BY DEF Losing
<1>2. /\ metrics' # Failed /\ metrics' # RecordedFailure
  BY <1>0, <1>1, FailedCounts
<1>3. metrics.failed = 0 /\ ~cancelled
  <2>1. metrics.failed = 0
    <3>1. metrics' \in {metrics, [metrics EXCEPT !.queued = @ + 1], [metrics EXCEPT !.completed = @ + 1]}
      <4>1. CASE SenderKind
        BY <1>2, <4>1 DEF SenderKind, Say, TakeSegment, Publish, WriteFails, Account, StopCapture, CloseQueue,
           AbortWriter, NotifyClosed
      <4>2. CASE ReceiverKind
        BY <1>2, <4>2 DEF ReceiverKind, CheckQueue, CheckOpen, Listen, RecheckOpen, Wake, EndOfQueue, ReadNext,
           ReadFails
      <4>3. CASE DispatcherKind
        BY <1>2, <4>3 DEF DispatcherKind, EngineReady, EngineFails, CountSegment, SendSegment,
           LeaveWhenCancelled, JoinWorker
      <4>4. CASE WorkerKind
        BY <1>2, <4>4 DEF WorkerKind, TakeWork, Recognise, RecogniseFails, WorkerPanics, WorkerEnds
      <4>5. CASE StopKind \/ UNCHANGED vars
        BY <4>5 DEF StopKind, vars
      <4> QED
        BY <4>1, <4>2, <4>3, <4>4, <4>5, Kinds
    <3>2. metrics'.failed = metrics.failed
      BY <1>0, <3>1 DEF CountTypes
    <3> QED
      BY <3>2
  <2>2. cancelled => cancelled'
    <3>1. StopKind => (cancelled => cancelled')
      BY Zenon DEF StopKind, DrainEnds, DrainTimeout, GraceTimeout, AbortTask
    <3>2. SenderKind \/ ReceiverKind \/ DispatcherKind \/ WorkerKind \/ UNCHANGED vars => UNCHANGED cancelled
      BY DEF SenderKind, ReceiverKind, DispatcherKind, WorkerKind, vars, taskVars
    <3> QED
      BY <3>1, <3>2, Kinds
  <2> QED
    BY <2>1, <2>2
<1>4. Everything(Stages, said) /\ Underway
  BY <1>3 DEF NothingLost
<1>5. Everything(Stages', said')
  <2>1. CASE said' = said + 1 /\ Enters(Stages, Stages', said + 1)
    BY <1>0, <1>4, <2>1, EntersKeeps
  <2>2. CASE said' = said /\ UNCHANGED Stages
    BY <1>4, <2>2
  <2>3. CASE said' = said /\ \E k \in 1 .. 6 : \E x : Moves(Stages, Stages', k, x)
    BY <1>0, <1>4, <2>3, MovesKeep
  <2> QED
    BY <1>1, <2>1, <2>2, <2>3, StageStep DEF StageMove
<1>6. Underway'
  <2>1. CASE SenderKind
    <3>1. UNCHANGED <<nextRead, worker, channel, dispatcher>>
      BY <2>1 DEF SenderKind, receiverVars, taskVars, workVars
    <3>2. metrics' \in {metrics, [metrics EXCEPT !.queued = @ + 1]}
      BY <1>2, <2>1 DEF SenderKind, Say, TakeSegment, Publish, WriteFails, Account, StopCapture, CloseQueue,
         AbortWriter, NotifyClosed
    <3>3. metrics'.completed = metrics.completed
      BY <1>0, <3>2 DEF CountTypes
    <3> QED
      BY <1>4, <3>1, <3>3 DEF Underway
  <2>2. CASE ReceiverKind
    <3>0. UNCHANGED <<worker, channel, metrics>>
      BY <1>2, <2>2 DEF ReceiverKind, workVars, CheckQueue, CheckOpen, Listen, RecheckOpen, Wake, EndOfQueue,
         ReadNext, ReadFails
    <3>1. CASE ReadNext
      <4>1. dispatcher.pc = "recv" /\ dispatcher'.pc = "count" /\ nextRead' = nextRead + 1
        BY <3>1 DEF ReadNext, Receiving, FollowingNumber, At
      <4> QED
        BY <1>0, <1>4, <3>0, <4>1 DEF Underway, Count
    <3>2. CASE ~ReadNext
      <4>1. dispatcher.pc = "recv" /\ dispatcher'.pc \in {"recv", "join"} /\ nextRead' = nextRead
        BY <2>2, <3>2 DEF ReceiverKind, CheckQueue, CheckOpen, Listen, RecheckOpen, Wake, EndOfQueue,
           ReadFails, Receiving, At, receiverVars
      <4> QED
        BY <1>0, <1>4, <3>0, <4>1 DEF Underway, Count
    <3> QED
      BY <3>1, <3>2
  <2>3. CASE DispatcherKind
    <3>0. UNCHANGED nextRead /\ metrics' = metrics /\ ~LeaveWhenCancelled /\ ~EngineFails
      BY <1>2, <1>3, <2>3 DEF DispatcherKind, receiverVars, EngineReady, EngineFails, CountSegment,
         SendSegment, LeaveWhenCancelled, JoinWorker
    <3>1. CASE SendSegment
      <4>1. Len(channel) = 0 /\ Len(channel') = 1
        BY <3>1 DEF SendSegment
      <4>2. dispatcher.pc = "send" /\ dispatcher'.pc = "recv" /\ UNCHANGED worker
        BY <3>1 DEF SendSegment, At, workVars
      <4> QED
        BY <1>0, <1>4, <3>0, <4>1, <4>2 DEF Underway, Count
    <3>2. CASE EngineReady \/ CountSegment \/ JoinWorker
      <4>1. /\ dispatcher.pc \in {"count", "send"} <=> dispatcher'.pc \in {"count", "send"}
            /\ UNCHANGED <<worker, channel>>
        BY <3>2 DEF EngineReady, CountSegment, JoinWorker, At, workVars
      <4> QED
        BY <1>0, <1>4, <3>0, <4>1 DEF Underway, Count
    <3> QED
      BY <2>3, <3>0, <3>1, <3>2 DEF DispatcherKind
  <2>4. CASE WorkerKind
    <3>0. UNCHANGED <<nextRead, dispatcher>>
      BY <2>4 DEF WorkerKind, receiverVars
    <3>1. CASE TakeWork
      <4>1. channel # <<>> /\ channel' = <<>>
        BY <3>1 DEF TakeWork
      <4>2. Len(channel') = 0
        BY <4>1
      <4>3. channel \in Seq(Segment) /\ Len(channel) <= 1
        BY <1>0 DEF TaskTypes
      <4>4. Len(channel) \in Nat \ {0}
        BY <4>1, <4>3, EmptySeq
      <4>5. worker.pc = "idle" /\ worker'.pc = "busy" /\ UNCHANGED metrics
        BY <3>1 DEF TakeWork, At
      <4> QED
        BY <1>0, <1>4, <3>0, <4>2, <4>3, <4>4, <4>5 DEF Underway, Count
    <3>2. CASE Recognise
      <4>1. /\ worker.pc = "busy" /\ worker'.pc = "idle" /\ UNCHANGED channel
            /\ metrics'.completed = metrics.completed + 1
        BY <1>0, <3>2 DEF Recognise, Completed, At, CountTypes
      <4> QED
        BY <1>0, <1>4, <3>0, <4>1 DEF Underway, Count
    <3>3. CASE WorkerEnds
      <4>1. worker.pc = "idle" /\ worker'.pc = "finished" /\ UNCHANGED <<channel, metrics>>
        BY <3>3 DEF WorkerEnds, At
      <4> QED
        BY <1>0, <1>4, <3>0, <4>1 DEF Underway, Count
    <3> QED
      BY <1>2, <2>4, <3>1, <3>2, <3>3 DEF WorkerKind, RecogniseFails, WorkerPanics
  <2>5. CASE StopKind
    <3>1. UNCHANGED <<nextRead, worker, channel, metrics>>
      BY <2>5 DEF StopKind, receiverVars, workVars
    <3>2. UNCHANGED dispatcher
      BY <1>3, <2>5 DEF StopKind, DrainEnds, DrainTimeout, GraceTimeout, QueueInv, Closing
    <3> QED
      BY <1>4, <3>1, <3>2 DEF Underway
  <2>6. CASE UNCHANGED vars
    BY <1>4, <2>6 DEF vars, receiverVars, taskVars, workVars, Underway
  <2> QED
    BY <2>1, <2>2, <2>3, <2>4, <2>5, <2>6, Kinds
<1> QED
  BY <1>5, <1>6

\* A drain that ends without a count of something lost has answered everything.
AllAnswered == 1 .. said \subseteq Answered

CompleteInv == stop = "stopped" /\ ~incomplete => AllAnswered

LEMMA CleanDrain ==
  ASSUME QueueInv, NothingLost, DrainEnds, ~incomplete'
  PROVE  AllAnswered
<1>1. /\ ~incomplete /\ ~Lossy /\ stop \in {"draining", "grace"} /\ dispatcher.pc = "done"
  BY DEF DrainEnds
<1>2. ~cancelled /\ writer.pc = "gone" /\ handoff = <<>>
  BY <1>1 DEF QueueInv, Closing
<1>3. /\ SenderTypes /\ ReceiverTypes /\ TaskTypes /\ CountTypes
      /\ WriteCounted /\ ReadCounted /\ TaskCounted
  BY DEF QueueInv, QueueSane, Types, Counted
<1>4. /\ metrics.queued \in Nat /\ metrics.completed \in Nat /\ metrics.failed \in Nat
      /\ nextRead \in Nat /\ nextWrite \in Nat /\ Len(channel) \in Nat
  BY <1>3 DEF CountTypes, ReceiverTypes, SenderTypes, TaskTypes
<1>5. metrics.failed = 0 /\ metrics.queued <= metrics.completed
  BY <1>1, <1>4 DEF Lossy, InQueue
<1>6. Everything(Stages, said) /\ Underway
  BY <1>2, <1>5 DEF NothingLost
<1>7. metrics.queued = nextWrite /\ nextRead <= nextWrite
  BY <1>2, <1>3, <1>4 DEF WriteCounted, ReadCounted, Count
<1>8. nextRead = nextWrite /\ worker.pc # "busy" /\ Len(channel) = 0
  BY <1>1, <1>4, <1>5, <1>6, <1>7 DEF Underway, Count
<1>9. channel = <<>>
  BY <1>3, <1>8, EmptySeq DEF TaskTypes
<1>10. Working = {} /\ Dispatching = {} /\ Writing = {}
  BY <1>1, <1>2, <1>8 DEF Working, Dispatching, Writing
<1>11. Sent = {} /\ Waiting = {}
  BY <1>2, <1>9 DEF Sent, Waiting, Elements
<1>12. Unread = {}
  BY <1>4, <1>8 DEF Unread
<1> QED
  BY <1>6, <1>10, <1>11, <1>12, StageValues DEF Everything, AllAnswered

LEMMA CompleteStep ==
  QueueInv /\ NothingLost /\ CompleteInv /\ [Next]_vars => CompleteInv'
<1> SUFFICES ASSUME QueueInv, NothingLost, CompleteInv, [Next]_vars, stop' = "stopped", ~incomplete'
             PROVE  AllAnswered'
  BY DEF CompleteInv
<1>1. ASSUME AllAnswered, said' = said, Answered \subseteq Answered' PROVE AllAnswered'
  BY <1>1 DEF AllAnswered
<1>2. CASE StopKind
  <2>1. UNCHANGED <<said, Answered>>
    BY <1>2, StageFrames DEF StopKind, senderVars
  <2>2. CASE DrainEnds
    BY <1>1, <2>1, <2>2, CleanDrain
  <2>3. CASE GraceTimeout
    <3>1. stop = "grace" /\ ~incomplete
      BY <2>3 DEF GraceTimeout, AbortTask
    <3> QED
      BY <3>1 DEF QueueInv, Closing
  <2>4. CASE DrainTimeout
    BY <2>4 DEF DrainTimeout
  <2> QED
    BY <1>2, <2>2, <2>3, <2>4 DEF StopKind
<1>3. CASE ~StopKind
  <2>1. stop = "stopped" /\ ~incomplete
    <3>1. SenderKind => UNCHANGED <<stop, incomplete>> \/ stop' # "stopped"
      BY DEF SenderKind, Say, TakeSegment, Publish, WriteFails, Account, StopCapture, CloseQueue,
         AbortWriter, NotifyClosed, stopVars
    <3>2. SenderKind => UNCHANGED incomplete
      BY DEF SenderKind, Say, TakeSegment, Publish, WriteFails, Account, StopCapture, CloseQueue,
         AbortWriter, NotifyClosed, stopVars
    <3>3. ReceiverKind \/ DispatcherKind \/ WorkerKind \/ UNCHANGED vars => UNCHANGED <<stop, incomplete>>
      BY DEF ReceiverKind, DispatcherKind, WorkerKind, stopVars, vars
    <3> QED
      BY <1>3, <3>1, <3>2, <3>3, Kinds
  <2>2. AllAnswered
    BY <2>1 DEF CompleteInv
  <2>3. said' = said
    <3>1. SenderKind => UNCHANGED said
      BY <2>1 DEF SenderKind, Say, TakeSegment, Publish, WriteFails, Account, StopCapture, CloseQueue,
         AbortWriter, NotifyClosed, senderVars
    <3>2. ReceiverKind \/ DispatcherKind \/ WorkerKind \/ UNCHANGED vars => UNCHANGED said
      BY DEF ReceiverKind, DispatcherKind, WorkerKind, senderVars, vars
    <3> QED
      BY <1>3, <3>1, <3>2, Kinds
  <2>4. Answered \subseteq Answered'
    <3>1. CASE worker.pc = "busy" /\ transcript' = Append(transcript, worker.segment)
      <4>1. transcript \in Seq(Segment) /\ worker.segment \in Segment
        BY <3>1 DEF QueueInv, QueueSane, Types, WorkTypes
      <4> QED
        BY <3>1, <4>1, ElementsAppend DEF Answered
    <3>2. CASE UNCHANGED transcript
      BY <3>2 DEF Answered
    <3>3. SenderKind \/ ReceiverKind \/ UNCHANGED vars => UNCHANGED transcript
      BY DEF SenderKind, ReceiverKind, workVars, vars
    <3>4. DispatcherKind => UNCHANGED transcript
      BY DEF DispatcherKind, EngineReady, EngineFails, CountSegment, SendSegment, LeaveWhenCancelled,
         JoinWorker, workVars
    <3>5. WorkerKind => \/ UNCHANGED transcript
                        \/ worker.pc = "busy" /\ transcript' = Append(transcript, worker.segment)
      BY DEF WorkerKind, TakeWork, Recognise, RecogniseFails, WorkerPanics, WorkerEnds
    <3> QED
      BY <1>3, <3>1, <3>2, <3>3, <3>4, <3>5, Kinds
  <2> QED
    BY <1>1, <2>2, <2>3, <2>4
<1> QED
  BY <1>2, <1>3

(* A transcript that Stop calls complete has every spoken segment: as long   *)
(* as no failure is counted and nothing is cancelled every segment is in     *)
(* some stage of the queue, and when the metrics agree at the end of the     *)
(* drain every stage but the transcript is empty (stop_recording,            *)
(* TranscriptionMetrics, ProcessingMetricsGuard).                            *)
THEOREM NothingMissing == Spec => []CompleteIsComplete
<1>1. Init => NothingLost /\ CompleteInv
  <2> SUFFICES ASSUME Init PROVE NothingLost /\ CompleteInv
    OBVIOUS
  <2>1. Everything(Stages, said)
    BY DEF Init, Everything
  <2>2. Underway
    BY DEF Init, Underway, Count, At
  <2> QED
    BY <2>1, <2>2 DEF Init, NothingLost, CompleteInv
<1>2. CompleteInv => CompleteIsComplete
  BY DEF CompleteInv, AllAnswered, Answered, Elements, CompleteIsComplete
<1> QED
  BY <1>1, <1>2, InitQueueInv, QueueInvStep, NothingLostStep, CompleteStep, PTL DEF Spec

-----------------------------------------------------------------------------
(* The receiver looks for segments and for the end of the queue once more    *)
(* after it has asked to be woken. What comes later is followed by a         *)
(* notification, which is kept for it: the part of Drains and Prompt that    *)
(* needs no fairness.                                                        *)

NoLostWakeup ==
  /\ recv \in {"closed??", "wait"} /\ nextRead < nextWrite => permit \/ writer.pc = "account"
  /\ recv = "wait" /\ closed => woken \/ writer.pc = "notify"

\* A receiver that waits although there is something to read, or to end for,
\* is woken or is about to be.
WaitsOnlyWhenIdle ==
  recv = "wait" /\ (nextRead < nextWrite \/ closed)
    => permit \/ woken \/ writer.pc \in {"account", "notify"}

LEMMA WakeupStep == QueueSane /\ NoLostWakeup /\ [Next]_vars => NoLostWakeup'
<1> SUFFICES ASSUME QueueSane, NoLostWakeup, [Next]_vars PROVE NoLostWakeup'
  OBVIOUS
<1>0. /\ SenderTypes /\ ReceiverTypes /\ nextWrite \in Nat /\ nextRead \in Nat
  BY DEF QueueSane, Types, SenderTypes, ReceiverTypes
<1>1. CASE SenderKind
  <2>0. UNCHANGED <<recv, nextRead>>
    BY <1>1 DEF SenderKind, receiverVars
  <2>1. CASE Publish
    <3>1. writer'.pc = "account" /\ writer.pc = "write" /\ UNCHANGED <<closed, woken>>
      BY <2>1 DEF Publish, At, notifyVars
    <3> QED
      BY <2>0, <3>1 DEF NoLostWakeup
  <2>2. CASE Account
    <3>1. permit' /\ writer.pc = "account" /\ UNCHANGED <<closed, woken, nextWrite>>
      BY <2>2 DEF Account, Notice
    <3> QED
      BY <2>0, <3>1 DEF NoLostWakeup
  <2>3. CASE CloseQueue \/ AbortWriter
    <3>1. writer'.pc = "notify" /\ writer.pc # "account" /\ UNCHANGED <<permit, nextWrite>>
      BY <2>3 DEF CloseQueue, AbortWriter, At, notifyVars
    <3> QED
      BY <2>0, <3>1 DEF NoLostWakeup
  <2>4. CASE NotifyClosed
    <3>1. /\ writer.pc = "notify" /\ UNCHANGED <<permit, nextWrite>>
          /\ recv = "wait" => woken'
      BY <2>4 DEF NotifyClosed, Listening
    <3> QED
      BY <2>0, <3>1 DEF NoLostWakeup
  <2>5. CASE Say \/ TakeSegment \/ WriteFails \/ StopCapture
    <3>1. /\ UNCHANGED <<permit, woken, closed, nextWrite>>
          /\ UNCHANGED writer \/ writer.pc \in {"idle", "write"}
      BY <2>5 DEF Say, TakeSegment, WriteFails, StopCapture, notifyVars, senderVars
    <3> QED
      BY <2>0, <3>1 DEF NoLostWakeup
  <2> QED
    BY <1>1, <2>1, <2>2, <2>3, <2>4, <2>5 DEF SenderKind
<1>2. CASE ReceiverKind
  <2>0. UNCHANGED <<writer, closed, nextWrite>>
    BY <1>2 DEF ReceiverKind, senderVars
  <2>1. CASE CheckQueue
    <3>1. recv' # "wait" /\ (recv' = "closed??" => ~(nextRead' < nextWrite'))
      BY <2>0, <2>1 DEF CheckQueue
    <3> QED
      BY <3>1 DEF NoLostWakeup
  <2>2. CASE RecheckOpen
    <3>1. /\ recv = "closed??" /\ recv' = "wait" /\ ~closed /\ UNCHANGED <<permit, nextRead>>
      BY <2>2 DEF RecheckOpen, Receiving, notifyVars
    <3> QED
      BY <2>0, <3>1 DEF NoLostWakeup
  <2>3. CASE CheckOpen \/ Listen \/ Wake \/ EndOfQueue \/ ReadNext
    <3>1. recv' \notin {"closed??", "wait"}
      BY <2>3 DEF CheckOpen, Listen, AfterListening, Wake, EndOfQueue, ReadNext
    <3> QED
      BY <3>1 DEF NoLostWakeup
  <2>4. CASE ReadFails
    BY <2>0, <2>4 DEF ReadFails, notifyVars, receiverVars, NoLostWakeup
  <2> QED
    BY <1>2, <2>1, <2>2, <2>3, <2>4 DEF ReceiverKind
<1>3. CASE UNCHANGED <<senderVars, notifyVars, receiverVars>>
  BY <1>3 DEF senderVars, notifyVars, receiverVars, NoLostWakeup
<1> QED
  <2>1. UNCHANGED vars => UNCHANGED <<senderVars, notifyVars, receiverVars>>
    BY DEF vars
  <2> QED
    BY <1>1, <1>2, <1>3, <2>1, Kinds DEF DispatcherKind, WorkerKind, StopKind

(* No wake-up is lost, wherever publish and close meet recv: whoever waits   *)
(* with something to do has a stored permit or a wake, or the sender is      *)
(* between its store and the notification (TranscriptionQueueReceiver::recv, *)
(* TranscriptionQueueSender::send and drop).                                 *)
THEOREM NobodySleepsThrough == Spec => []WaitsOnlyWhenIdle
<1>1. Init => NoLostWakeup
  BY DEF Init, NoLostWakeup
<1>2. NoLostWakeup => WaitsOnlyWhenIdle
  BY DEF NoLostWakeup, WaitsOnlyWhenIdle
<1> QED
  BY <1>1, <1>2, InitSane, SaneStep, WakeupStep, PTL DEF Spec
=============================================================================
