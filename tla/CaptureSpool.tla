---------------------------- MODULE CaptureSpool ----------------------------
(***************************************************************************)
(* One recording with audio saving on, from the first captured batch to    *)
(* the end of stop_recording: the capture side hands batches to a bounded  *)
(* queue, one worker writes them to the spool, Stop drains the worker,     *)
(* encodes the spool into audio.mp4, saves the outcome and only then       *)
(* removes the originals. The process may crash between any two steps.     *)
(***************************************************************************)
EXTENDS MeetingFolder, Sequences

CONSTANTS
  HandoffCap,    \* batches held in memory for the writer (60 in the code)
  MaxFaults,     \* bound: I/O failures in one behaviour
  DiskMayStall,  \* a write can outlast the 30 s that finish waits for it
  MayCrash       \* the process can be killed

ASSUME CaptureAssumption ==
  /\ HandoffCap \in Nat \ {0}
  /\ MaxFaults \in Nat
  /\ DiskMayStall \in BOOLEAN
  /\ MayCrash \in BOOLEAN

VARIABLES
  captured,    \* batches taken from the mixer so far: 1 .. captured
  handoff,     \* the mpsc channel of BufferedSpool
  writer,      \* write_chunk in progress: pc, batch and sequence number
  orphan,      \* the worker was aborted, its blocking write goes on alone
  nextWrite,   \* QueueShared.next_write
  incomplete,  \* RecordingState.capture_incomplete, in memory only
  stop,        \* how far stop_recording is
  fin,         \* IncrementalAudioSaver::finalize on its blocking thread
  report,      \* RecordingSaveReport and the flags of stop_recording
  faults,      \* I/O failures so far
  accepted,    \* history: batches ever published in the spool
  raced        \* history: finalize began beside an abandoned write

processVars == <<captured, handoff, writer, orphan, nextWrite, incomplete>>
stopVars == <<stop, fin, report>>
vars == <<folderVars, processVars, stopVars, faults, accepted, raced>>

Idle    == [pc |-> "idle", batch |-> NoBatch, seq |-> 0]
NoList  == [seqs |-> {}, tail |-> {}, gaps |-> FALSE, available |-> TRUE]
NotRun  == [pc |-> "none", list |-> NoList, staged |-> {}, gaps |-> FALSE, all |-> FALSE]
NoReport == [capture_incomplete |-> FALSE, audio_save_failed |-> FALSE,
             audio |-> FALSE, raw_fully_encoded |-> FALSE]

StopSteps == {"recording", "finishing", "drained", "saving", "outcome",
              "release", "report", "stopped", "crashed"}
FinSteps  == {"none", "list", "read", "publish", "done", "failed"}

Writer == [pc : {"idle", "fill", "rename"}, batch : Batch \cup {NoBatch}, seq : Nat]
Finalizer == [pc : FinSteps, list : Listing, staged : SUBSET Batch, gaps : BOOLEAN, all : BOOLEAN]
Report == [capture_incomplete : BOOLEAN, audio_save_failed : BOOLEAN,
           audio : BOOLEAN, raw_fully_encoded : BOOLEAN]

TypeOK ==
  /\ FolderTypeOK
  /\ captured \in 0 .. N
  /\ handoff \in Seq(Batch)
  /\ writer \in Writer
  /\ orphan \in BOOLEAN
  /\ nextWrite \in Nat
  /\ incomplete \in BOOLEAN
  /\ stop \in StopSteps
  /\ fin \in Finalizer
  /\ report \in Report
  /\ faults \in Nat
  /\ accepted \in SUBSET Batch
  /\ raced \in BOOLEAN

Init ==
  /\ FolderInit
  /\ captured = 0
  /\ handoff = <<>>
  /\ writer = Idle
  /\ orphan = FALSE
  /\ nextWrite = 0
  /\ incomplete = FALSE
  /\ stop = "recording"
  /\ fin = NotRun
  /\ report = NoReport
  /\ faults = 0
  /\ accepted = {}
  /\ raced = FALSE

Fault == faults < MaxFaults /\ faults' = faults + 1

-----------------------------------------------------------------------------
(* The capture side: flush_recording_buffer and BufferedSpool::send.         *)

HandOff ==
  /\ stop = "recording"
  /\ captured < N
  /\ Len(handoff) < HandoffCap
  /\ captured' = captured + 1
  /\ handoff' = Append(handoff, captured + 1)
  /\ UNCHANGED <<folderVars, writer, orphan, nextWrite, incomplete, stopVars, faults, accepted, raced>>

\* try_send finds the channel full: the batch is gone, and report_loss says so.
LoseBatch ==
  /\ stop = "recording"
  /\ captured < N
  /\ Len(handoff) = HandoffCap
  /\ captured' = captured + 1
  /\ incomplete' = TRUE
  /\ UNCHANGED <<folderVars, handoff, writer, orphan, nextWrite, stopVars, faults, accepted, raced>>

-----------------------------------------------------------------------------
(* The worker of BufferedSpool: TranscriptionQueueSender::send and           *)
(* write_chunk, whose blocking part survives an abort of the worker.         *)

TakeBatch ==
  /\ stop \in {"recording", "finishing"}
  /\ writer.pc = "idle" /\ handoff # <<>>
  /\ writer' = [pc |-> "fill", batch |-> Head(handoff), seq |-> nextWrite]
  /\ handoff' = Tail(handoff)
  /\ tmp' = [seq |-> nextWrite, batch |-> Head(handoff), whole |-> FALSE]
  /\ UNCHANGED <<spoolDir, chunk, bad, marker, finalAudio, outcome,
                 captured, orphan, nextWrite, incomplete, stopVars, faults, accepted, raced>>

FillTmp ==
  /\ spoolDir /\ writer.pc = "fill"
  /\ tmp' = [tmp EXCEPT !.whole = TRUE]
  /\ writer' = [writer EXCEPT !.pc = "rename"]
  /\ UNCHANGED <<spoolDir, chunk, bad, marker, finalAudio, outcome,
                 captured, handoff, orphan, nextWrite, incomplete, stopVars, faults, accepted, raced>>

(* next_write moves only with a committed file, and not when nobody waits    *)
(* for the write any more.                                                   *)
SameNumber == nextWrite          \* mutant: number not advanced
NextNumber == IF orphan THEN nextWrite ELSE writer.seq + 1

PublishChunk ==
  /\ spoolDir /\ writer.pc = "rename"
  /\ chunk' = [chunk EXCEPT ![writer.seq] = writer.batch]
  /\ tmp' = NoTmp
  /\ accepted' = accepted \cup {writer.batch}
  /\ nextWrite' = NextNumber
  /\ writer' = Idle
  /\ UNCHANGED <<spoolDir, bad, marker, finalAudio, outcome,
                 captured, handoff, orphan, incomplete, stopVars, faults, raced>>

(* A failed write leaves its temporary file and its sequence number to the   *)
(* next batch, tries to leave .incomplete, and reports the loss.             *)
WriteFails ==
  /\ spoolDir /\ writer.pc \in {"fill", "rename"}
  /\ Fault
  /\ ~orphan
  /\ \E left \in BOOLEAN : marker' = (marker \/ left)
  /\ incomplete' = TRUE
  /\ writer' = Idle
  /\ UNCHANGED <<spoolDir, chunk, bad, tmp, finalAudio, outcome,
                 captured, handoff, orphan, nextWrite, stopVars, accepted, raced>>

\* Nobody waits for the aborted worker: its write ends with no effect.
OrphanEnds ==
  /\ orphan /\ writer.pc # "idle"
  /\ IF spoolDir THEN Fault ELSE UNCHANGED faults
  /\ writer' = Idle
  /\ UNCHANGED <<folderVars, captured, handoff, orphan, nextWrite, incomplete, stopVars, accepted, raced>>

\* File::create fails: an earlier whole temporary file stays as it is.
CreateFails ==
  /\ stop \in {"recording", "finishing"}
  /\ writer.pc = "idle" /\ handoff # <<>>
  /\ Fault
  /\ handoff' = Tail(handoff)
  /\ \E left \in BOOLEAN : marker' = (marker \/ left)
  /\ incomplete' = TRUE
  /\ UNCHANGED <<spoolDir, chunk, bad, tmp, finalAudio, outcome,
                 captured, writer, orphan, nextWrite, stopVars, accepted, raced>>

WriterStep == TakeBatch \/ CreateFails \/ FillTmp \/ PublishChunk \/ WriteFails \/ OrphanEnds

-----------------------------------------------------------------------------
(* stop_recording: the pipeline ends, BufferedSpool::finish drains the       *)
(* worker for at most 30 s.                                                  *)

StopCapture ==
  /\ stop = "recording"
  /\ stop' = "finishing"
  /\ UNCHANGED <<folderVars, processVars, fin, report, faults, accepted, raced>>

FinishDrained ==
  /\ stop = "finishing"
  /\ handoff = <<>> /\ writer.pc = "idle"
  /\ stop' = "drained"
  /\ UNCHANGED <<folderVars, processVars, fin, report, faults, accepted, raced>>

AbortWorker ==
  /\ stop' = "drained"
  /\ handoff' = <<>>
  /\ orphan' = TRUE
  /\ incomplete' = TRUE
  /\ UNCHANGED <<folderVars, captured, writer, nextWrite, fin, report, accepted, raced>>

\* mutant: the deadline looks at the queue and forgets the write in flight
FinishQueueTimeout == /\ DiskMayStall
                      /\ stop = "finishing" /\ handoff # <<>>
                      /\ AbortWorker
                      /\ UNCHANGED faults

FinishTimeout == /\ DiskMayStall
                 /\ stop = "finishing"
                 /\ handoff # <<>> \/ writer.pc # "idle"
                 /\ AbortWorker
                 /\ UNCHANGED faults

\* The pipeline task ends with an error before finish: BufferedSpool is dropped.
PipelineFails == /\ stop = "recording"
                 /\ Fault
                 /\ AbortWorker

-----------------------------------------------------------------------------
(* RecordingSaver::finalize_files, IncrementalAudioSaver::finalize.          *)

\* Unless the disk stalls, an abandoned write ends long before the drain of
\* the transcription queue that comes first.
StartSave ==
  /\ stop = "drained"
  /\ DiskMayStall \/ writer.pc = "idle"
  /\ stop' = "saving"
  /\ report' = [report EXCEPT !.capture_incomplete = incomplete]
  /\ \E left \in BOOLEAN : marker' = (marker \/ (incomplete /\ left))
  /\ fin' = [fin EXCEPT !.pc = "list"]
  /\ raced' = (writer.pc # "idle")
  /\ UNCHANGED <<spoolDir, chunk, bad, tmp, finalAudio, outcome, processVars, faults, accepted>>

ListCapture ==
  /\ fin.pc = "list"
  /\ fin' = [fin EXCEPT !.pc = "read", !.list = CapturePaths, !.gaps = marker]
  /\ UNCHANGED <<folderVars, processVars, stop, report, faults, accepted, raced>>

ReadCapture ==
  /\ fin.pc = "read"
  /\ Encoded(fin.list) # {}
  /\ fin' = [fin EXCEPT !.pc = "publish",
                        !.staged = Encoded(fin.list),
                        !.gaps = fin.gaps \/ EncodedGaps(fin.list),
                        !.all = EncodedAll(fin.list)]
  /\ UNCHANGED <<folderVars, processVars, stop, report, faults, accepted, raced>>

PublishAudio ==
  /\ fin.pc = "publish"
  /\ finalAudio' = fin.staged
  /\ fin' = [fin EXCEPT !.pc = "done"]
  /\ UNCHANGED <<spoolDir, chunk, bad, tmp, marker, outcome, processVars, stop, report, faults, accepted, raced>>

\* No readable audio, or the encoder, the disk or the rename fails.
FinalizeFails ==
  /\ \/ fin.pc = "read" /\ Encoded(fin.list) = {} /\ UNCHANGED faults
     \/ fin.pc \in {"list", "read", "publish"} /\ Fault
  /\ fin' = [fin EXCEPT !.pc = "failed"]
  /\ UNCHANGED <<folderVars, processVars, stop, report, accepted, raced>>

SaveDone ==
  /\ stop = "saving" /\ fin.pc = "done"
  /\ stop' = "outcome"
  /\ report' = [report EXCEPT !.capture_incomplete = @ \/ fin.gaps,
                              !.audio = TRUE,
                              !.raw_fully_encoded = fin.all]
  /\ UNCHANGED <<folderVars, processVars, fin, faults, accepted, raced>>

SaveFailed ==
  /\ stop = "saving" /\ fin.pc = "failed"
  /\ stop' = "outcome"
  /\ report' = [report EXCEPT !.audio_save_failed = TRUE]
  /\ UNCHANGED <<folderVars, processVars, fin, faults, accepted, raced>>

\* The save deadline of stop_recording: finalize goes on behind its back.
SaveDeadline ==
  /\ stop = "saving" /\ fin.pc \notin {"done", "failed"}
  /\ DiskMayStall
  /\ stop' = "report"
  /\ report' = [report EXCEPT !.audio_save_failed = TRUE]
  /\ UNCHANGED <<folderVars, processVars, fin, faults, accepted, raced>>

\* mutant: the gap flag does not reach the saved outcome
BlindOutcome == [saved |-> TRUE, capture_incomplete |-> FALSE,
                 audio_save_failed |-> report.audio_save_failed]

SavedOutcome == [saved |-> TRUE,
                 capture_incomplete |-> report.capture_incomplete,
                 audio_save_failed |-> report.audio_save_failed]

ReleaseAny == report.audio       \* mutant: released though not all was encoded
MayRelease == report.raw_fully_encoded /\ report.audio

WriteOutcome ==
  /\ stop = "outcome"
  /\ outcome' = SavedOutcome
  /\ stop' = IF MayRelease THEN "release" ELSE "report"
  /\ UNCHANGED <<spoolDir, chunk, bad, tmp, marker, finalAudio,
                 processVars, fin, report, faults, accepted, raced>>

WriteOutcomeFails ==
  /\ stop = "outcome"
  /\ Fault
  /\ stop' = "report"
  /\ UNCHANGED <<folderVars, processVars, fin, report, accepted, raced>>

ReleaseSpool ==
  /\ stop = "release"
  /\ NoSpool
  /\ stop' = "report"
  /\ UNCHANGED <<finalAudio, outcome, processVars, fin, report, faults, accepted, raced>>

\* remove_dir_all fails before it removed a file: its error is ignored.
ReleaseFails ==
  /\ stop = "release"
  /\ Fault
  /\ stop' = "report"
  /\ UNCHANGED <<folderVars, processVars, fin, report, accepted, raced>>

\* stop_recording writes the outcome once more, then gives up the recording.
WriteReport ==
  /\ stop = "report"
  /\ stop' = "stopped"
  /\ \/ outcome' = SavedOutcome /\ UNCHANGED faults
     \/ Fault /\ UNCHANGED outcome
  /\ UNCHANGED <<spoolDir, chunk, bad, tmp, marker, finalAudio, processVars, fin, report, accepted, raced>>

FinalizeStep == ListCapture \/ ReadCapture \/ PublishAudio \/ FinalizeFails

StopStep ==
  \/ FinishDrained \/ FinishTimeout \/ StartSave
  \/ SaveDone \/ SaveFailed \/ SaveDeadline
  \/ WriteOutcome \/ WriteOutcomeFails \/ ReleaseSpool \/ ReleaseFails \/ WriteReport

-----------------------------------------------------------------------------
(* The environment.                                                          *)

\* A published chunk rots: read_chunk refuses it from now on.
Damage(s) ==
  /\ Fault
  /\ s \in ChunkSeqs \ bad
  /\ bad' = bad \cup {s}
  /\ UNCHANGED <<spoolDir, chunk, tmp, marker, finalAudio, outcome, processVars, stopVars, accepted, raced>>

\* The process dies: memory is lost, the folder is what was last written.
Crash ==
  /\ MayCrash
  /\ stop # "crashed"
  /\ stop' = "crashed"
  /\ handoff' = <<>>
  /\ writer' = Idle
  /\ orphan' = FALSE
  /\ incomplete' = FALSE
  /\ fin' = NotRun
  /\ report' = NoReport
  /\ UNCHANGED <<folderVars, captured, nextWrite, faults, accepted, raced>>

Finished == stop \in {"stopped", "crashed"} /\ UNCHANGED vars

Next ==
  \/ HandOff \/ LoseBatch
  \/ WriterStep
  \/ StopCapture \/ PipelineFails \/ StopStep
  \/ FinalizeStep
  \/ \E s \in Seqs : Damage(s)
  \/ Crash
  \/ Finished

Spec == Init /\ [][Next]_vars

(* Stop waits for the writer and for finalize with a deadline. Nothing is    *)
(* assumed of the disk: writer and encoder may stall for ever, and so may    *)
(* the files that Stop writes and removes itself, which have no deadline.    *)
Awaited == FinishDrained \/ FinishTimeout \/ SaveDone \/ SaveFailed \/ SaveDeadline

OwnFiles == {"drained", "outcome", "release", "report"}

StalledSpec == Spec /\ WF_vars(Awaited)

-----------------------------------------------------------------------------
(* What the recording promises.                                              *)

(* Missing audio is never silent: once the originals are gone, either every  *)
(* batch that was captured is in audio.mp4 or the saved outcome says that    *)
(* capture is incomplete (finalize_files persists gaps before it removes).   *)
GapsRecorded ==
  ~spoolDir => /\ outcome.saved
               /\ outcome.capture_incomplete \/ 1 .. captured \subseteq finalAudio

(* A meeting saved without a warning is whole: recording-outcome.json with   *)
(* both flags clear means that audio.mp4 has everything that was captured.   *)
CleanOutcome ==
  outcome.saved /\ ~outcome.capture_incomplete /\ ~outcome.audio_save_failed
    => finalAudio = 1 .. captured

(* What reached the spool is never thrown away: it stays there until         *)
(* audio.mp4 has it, whatever fails and whenever the process dies.           *)
AcceptedKept == accepted \subseteq Stored \cup finalAudio

(* A writer or an encoder that never answers does not keep Stop: the drain   *)
(* and the save both have a deadline. What can keep it for ever is one of    *)
(* its own steps on the folder, the marker, the outcome or the removal of    *)
(* the spool, for which finalize_files and stop_recording set no deadline.   *)
StopFinishes ==
  \/ stop = "finishing" ~> stop \in {"stopped", "crashed"}
  \/ <>[](stop \in OwnFiles)

(* CapturePromise is what the rest of the application relies on: originals   *)
(* are released only for an audio file that has them, and with every missing *)
(* batch admitted. It is kept until finalize races an abandoned write.       *)
Promise == INSTANCE CapturePromise
  WITH heard    <- captured,
       disk     <- Stored,
       saved    <- finalAudio,
       admitted <- outcome.capture_incomplete,
       released <- ~spoolDir
KeepsPromise == Promise!Init /\ [][raced \/ Promise!Next]_Promise!vars

-----------------------------------------------------------------------------
(* GapsRecorded is not inductive: it needs to know how the flag travels from *)
(* memory to the report and the outcome, and that without the flag every     *)
(* batch is on its way from the queue to audio.mp4.                          *)

Before == {"recording", "finishing", "drained"}   \* finalize has not begun
Filling == {"recording", "finishing"}

InHandoff(b) == \E i \in 1 .. Len(handoff) : handoff[i] = b
InWriter(b)  == writer.pc # "idle" /\ writer.batch = b
Busy         == IF writer.pc = "idle" THEN 0 ELSE 1

WriterInv ==
  /\ writer.pc # "idle" => /\ writer.batch \in Batch
                           /\ orphan \/ writer.seq = nextWrite
  /\ stop \in Filling => /\ ~orphan
                          /\ nextWrite + Len(handoff) + Busy <= captured
  /\ orphan => incomplete

NothingForgotten ==
  stop # "crashed" /\ ~incomplete =>
    /\ spoolDir => \A b \in 1 .. captured : b \in Stored \/ InHandoff(b) \/ InWriter(b)
    /\ stop \in Filling => \A s \in ChunkSeqs : s < nextWrite
    /\ stop \notin Filling => handoff = <<>> /\ writer.pc = "idle"

FinalizeInv ==
  /\ fin.pc = "none" <=> stop \in Before \cup {"crashed"}
  /\ stop # "crashed" =>
    /\ spoolDir \/ (stop \in {"report", "stopped"} /\ fin.pc = "done")
    /\ ~incomplete /\ fin.pc = "read" => fin.list.seqs = ChunkSeqs
    /\ ~incomplete /\ fin.pc = "publish" /\ fin.all => 1 .. captured \subseteq fin.staged
    /\ ~incomplete /\ fin.pc = "done" /\ fin.all => 1 .. captured \subseteq finalAudio

ReportInv ==
  stop # "crashed" =>
    /\ stop \notin Before /\ incomplete => report.capture_incomplete
    /\ report.raw_fully_encoded => fin.pc = "done" /\ fin.all
    /\ stop = "release" => outcome = SavedOutcome /\ report.raw_fully_encoded
    /\ ~spoolDir => report.capture_incomplete \/ 1 .. captured \subseteq finalAudio

GapsInv == NothingForgotten /\ FinalizeInv /\ ReportInv /\ GapsRecorded
=============================================================================
