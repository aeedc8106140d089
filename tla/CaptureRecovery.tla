-------------------------- MODULE CaptureRecovery --------------------------
(***************************************************************************)
(* What the library does with a recording after it stopped or crashed. The *)
(* recovery dialog rebuilds audio from the spool, saves the meeting and    *)
(* releases the originals; opening a meeting and transcribing it again     *)
(* rebuild audio when they must. Each of these is a task, tasks run side   *)
(* by side, and nothing in the code locks one out of the folder of another.*)
(***************************************************************************)
EXTENDS CaptureSpool, TLC

CONSTANTS
  Tasks,         \* library commands that can be under way at one time
  RemovalAtomic  \* remove_dir_all removes every file of the spool or none

Commands == Permutations(Tasks)

ASSUME RecoveryAssumption == RemovalAtomic \in BOOLEAN

VARIABLES
  recovered,   \* audio-recovered.mp4 and .wav; an empty set is no file
  row,         \* the recording_outcomes row of the meeting in the library
  task,        \* the commands under way
  undisturbed  \* no two commands overlapped so far, and no removal stopped half-way

libraryVars == <<recovered, row, task>>
allVars == <<vars, libraryVars, undisturbed>>

Formats == {"mp4", "wav"}
Other(fmt) == CHOOSE f \in Formats : f # fmt

NoTask == [kind |-> "none", pc |-> "idle", fmt |-> "none",
           list |-> NoList, staged |-> {}, gaps |-> FALSE, read |-> NoOutcome]

TaskRecord ==
  [kind : {"none", "dialog", "open", "retranscribe"},
   pc : {"idle", "encode", "publish", "supersede", "recovered", "inspect", "transcribe",
         "file", "release", "read", "probe", "write", "remove"},
   fmt : Formats \cup {"none"}, list : Listing,
   staged : SUBSET Batch, gaps : BOOLEAN, read : Outcome]

RecoveryTypeOK ==
  /\ TypeOK
  /\ recovered \in [Formats -> SUBSET Batch]
  /\ row \in [saved : BOOLEAN, capture_incomplete : BOOLEAN]
  /\ task \in [Tasks -> TaskRecord]
  /\ undisturbed \in BOOLEAN

RecoveryInit ==
  /\ Init
  /\ recovered = [f \in Formats |-> {}]
  /\ row = [saved |-> FALSE, capture_incomplete |-> FALSE]
  /\ task = [t \in Tasks |-> NoTask]
  /\ undisturbed = TRUE

NotRecording == stop \in {"stopped", "crashed"}
Running(t, pc) == task[t].pc = pc /\ NotRecording
FolderButOutcome == UNCHANGED <<spoolDir, chunk, bad, tmp, marker, finalAudio,
                              processVars, stopVars, accepted, raced>>
FolderAsIs == UNCHANGED folderVars /\ UNCHANGED <<processVars, stopVars, accepted, raced>>

Goto(t, pc) == task' = [task EXCEPT ![t].pc = pc]
EndTask(t)  == task' = [task EXCEPT ![t] = NoTask]

\* find_valid_recovered_audio_file prefers the compressed recovery.
Preferred  == IF recovered["mp4"] # {} THEN "mp4" ELSE "wav"
Selected   == recovered[Preferred]
HasRecovery == Selected # {}

-----------------------------------------------------------------------------
(* The commands.                                                             *)

\* The frontend saves a stopped meeting with the flags that Stop returned.
SaveMeeting ==
  /\ stop = "stopped" /\ ~row.saved
  /\ row' = [saved |-> TRUE,
             capture_incomplete |-> report.capture_incomplete \/ outcome.capture_incomplete]
  /\ UNCHANGED <<recovered, task, faults>>
  /\ FolderAsIs

ListingGaps == marker \/ CapturePaths.gaps \/ ~Contiguous(CapturePaths.seqs \cup CapturePaths.tail)

Begin(t, kind) == task' = [task EXCEPT ![t] =
  [NoTask EXCEPT !.kind = kind, !.pc = "encode", !.fmt = "mp4",
                 !.list = CapturePaths, !.gaps = ListingGaps]]

\* The dialog lists meetings that an earlier process left unsaved, one at a time,
\* and always rebuilds.
Dialog(t) ==
  /\ Running(t, "idle") /\ stop = "crashed" /\ ~row.saved
  /\ \A other \in Tasks : task[other].kind # "dialog"
  /\ spoolDir
  /\ Begin(t, "dialog")
  /\ UNCHANGED <<recovered, row, faults>>
  /\ FolderAsIs

\* RETRANSCRIPTION_IN_PROGRESS
InProgress == \E t \in Tasks : task[t].kind = "retranscribe"

\* find_or_recover_audio_file: reuse a recovery, else rebuild when there is a
\* spool. One retranscription runs at a time.
Open(t, kind) ==
  /\ Running(t, "idle") /\ row.saved
  /\ kind = "retranscribe" => ~InProgress
  /\ \/ ~HasRecovery /\ spoolDir /\ Begin(t, kind)
     \/ /\ HasRecovery \/ (~spoolDir /\ finalAudio # {})
        /\ kind = "retranscribe"
        /\ task' = [task EXCEPT ![t] =
             [NoTask EXCEPT !.kind = kind, !.pc = "recovered",
                            !.fmt = IF HasRecovery THEN Preferred ELSE "none"]]
  /\ UNCHANGED <<recovered, row, faults>>
  /\ FolderAsIs

-----------------------------------------------------------------------------
(* recover_with_encoder.                                                     *)

\* The files are read in order while the encoder runs, for as long as that takes.
ReadPart(t, cut) ==
  /\ Running(t, "encode")
  /\ LET list == task[t].list
         part == {s \in list.seqs : s < cut}
     IN /\ cut \in list.seqs /\ part # {}
        /\ task' = [task EXCEPT
             ![t].list.seqs = @ \ part,
             ![t].staged = @ \cup {chunk[s] : s \in Readable(part)},
             ![t].gaps = @ \/ Readable(part) # part]
  /\ UNCHANGED <<recovered, row, faults>>
  /\ FolderAsIs

\* A chunk that another program holds open cannot be read this time.
SkipChunk(t, s) ==
  /\ Running(t, "encode")
  /\ s \in task[t].list.seqs
  /\ Fault
  /\ task' = [task EXCEPT ![t].list.seqs = @ \ {s}, ![t].gaps = TRUE]
  /\ UNCHANGED <<recovered, row>>
  /\ FolderAsIs

TrustListing(list) == FALSE    \* mutant: files that vanish while they are read go unnoticed
Unread(list) == \/ Readable(list.seqs) # list.seqs
                \/ list.tail # {} /\ ~TailReadable(list)

Rebuild(t) ==
  /\ Running(t, "encode")
  /\ task[t].staged \cup Encoded(task[t].list) # {}
  /\ task' = [task EXCEPT ![t].pc = "publish",
                          ![t].staged = @ \cup Encoded(task[t].list),
                          ![t].gaps = @ \/ Unread(task[t].list)]
  /\ UNCHANGED <<recovered, row, faults>>
  /\ FolderAsIs

\* The encoder fails or is missing: start over and write a WAV file.
EncoderFails(t) ==
  /\ Running(t, "encode") /\ task[t].fmt = "mp4"
  /\ spoolDir
  /\ Fault
  /\ task' = [task EXCEPT ![t].fmt = "wav", ![t].list = CapturePaths,
                          ![t].staged = {}, ![t].gaps = ListingGaps]
  /\ UNCHANGED <<recovered, row>>
  /\ FolderAsIs

\* No readable audio is left, or a listed file has vanished.
RebuildFails(t) ==
  /\ Running(t, "encode")
  /\ task[t].staged = {}
  /\ Encoded(task[t].list) = {} \/ ~(task[t].list.seqs \subseteq ChunkSeqs)
  /\ EndTask(t)
  /\ UNCHANGED <<recovered, row, faults>>
  /\ FolderAsIs

PublishRecovery(t) ==
  /\ Running(t, "publish")
  /\ recovered' = [recovered EXCEPT ![task[t].fmt] = task[t].staged]
  /\ Goto(t, "supersede")
  /\ UNCHANGED <<row, faults>>
  /\ FolderAsIs

\* remove_superseded_recovery, then the status: partial when anything is missing.
Supersede(t) ==
  /\ Running(t, "supersede")
  /\ recovered' = [recovered EXCEPT ![Other(task[t].fmt)] = {}]
  /\ task' = [task EXCEPT ![t].pc = "recovered",
                          ![t].gaps = @ \/ (marker /\ task[t].fmt = "mp4")]
  /\ UNCHANGED <<row, faults>>
  /\ FolderAsIs

\* The staged file cannot be published, or the superseded one not removed.
RecoverFails(t) ==
  /\ \E pc \in {"publish", "supersede"} : Running(t, pc)
  /\ Fault
  /\ EndTask(t)
  /\ UNCHANGED <<recovered, row>>
  /\ FolderAsIs

-----------------------------------------------------------------------------
(* What each command does with the audio it has.                             *)

ShowRecovered(t) ==
  /\ Running(t, "recovered") /\ task[t].kind = "open"
  /\ EndTask(t)
  /\ UNCHANGED <<recovered, row, faults>>
  /\ FolderAsIs

\* saveMeeting from the dialog, with what the saved outcome already admits.
SaveRecovered(t) ==
  /\ Running(t, "recovered") /\ task[t].kind = "dialog"
  /\ row' = [saved |-> TRUE,
             capture_incomplete |-> task[t].gaps \/ outcome.capture_incomplete]
  /\ Goto(t, "release")
  /\ UNCHANGED <<recovered, faults>>
  /\ FolderAsIs

(* find_or_recover_audio_file_with_status reads the saved outcome, then what *)
(* is left of the capture ...                                                *)
ReadEvidence(t) ==
  /\ Running(t, "recovered") /\ task[t].kind = "retranscribe"
  /\ task' = [task EXCEPT ![t].pc = "inspect", ![t].read = outcome]
  /\ UNCHANGED <<recovered, row, faults>>
  /\ FolderAsIs

GapEvidence(t) == task[t].read.capture_incomplete \/ CaptureHasGaps

InspectCapture(t) ==
  /\ Running(t, "inspect")
  /\ task' = [task EXCEPT ![t].pc = "transcribe", ![t].gaps = GapEvidence(t), ![t].read = NoOutcome]
  /\ UNCHANGED <<recovered, row, faults>>
  /\ FolderAsIs

\* ... and the transcription that took its time commits it to the library.
FreshGap(t) == task[t].gaps    \* mutant: the row forgets what it knew
CommittedGap(t) == row.capture_incomplete \/ task[t].gaps

CommitTranscript(t) ==
  /\ Running(t, "transcribe")
  /\ row' = [row EXCEPT !.capture_incomplete = CommittedGap(t)]
  /\ Goto(t, "file")
  /\ UNCHANGED <<recovered, faults>>
  /\ FolderAsIs

\* The row becomes recording-outcome.json; only recovered audio is then released.
WriteRow(t) ==
  /\ Running(t, "file")
  /\ outcome' = [saved |-> TRUE, capture_incomplete |-> row.capture_incomplete,
                 audio_save_failed |-> FALSE]
  /\ IF task[t].fmt = "none" THEN EndTask(t) ELSE Goto(t, "release")
  /\ UNCHANGED <<recovered, row, faults>>
  /\ FolderButOutcome

-----------------------------------------------------------------------------
(* release_recovered_capture.                                                *)

\* mutant: any valid recovery will do, however short
AnyRecovery(list) == HasRecovery
LongEnough(list) == HasRecovery /\ Cardinality(Selected) >= Cardinality(list.seqs \cup list.tail)

Releasable ==
  LET list == CapturePaths
  IN /\ spoolDir
     /\ list.seqs \cup list.tail # {}
     /\ ~EncodedGaps(list)
     /\ list.available
     /\ LongEnough(list)

CheckRelease(t) ==
  /\ Running(t, "release")
  /\ IF Releasable THEN Goto(t, "read") ELSE EndTask(t)
  /\ UNCHANGED <<recovered, row, faults>>
  /\ FolderAsIs

(* The outcome is read, .incomplete is looked for, and the outcome is        *)
(* written: three steps, between which another command may write it.         *)
ReadOutcome(t) ==
  /\ Running(t, "read")
  /\ task' = [task EXCEPT ![t].pc = "probe", ![t].read = outcome]
  /\ UNCHANGED <<recovered, row, faults>>
  /\ FolderAsIs

\* mutant: the marker goes with the spool and nothing remembers it
ForgetMarker(t) == [task[t].read EXCEPT !.saved = TRUE]
KeptWarning(t) == [task[t].read EXCEPT !.saved = TRUE, !.capture_incomplete = @ \/ marker]

ProbeMarker(t) ==
  /\ Running(t, "probe")
  /\ task' = [task EXCEPT ![t].pc = "write", ![t].read = KeptWarning(t)]
  /\ UNCHANGED <<recovered, row, faults>>
  /\ FolderAsIs

KeepWarning(t) ==
  /\ Running(t, "write")
  /\ outcome' = task[t].read
  /\ Goto(t, "remove")
  /\ UNCHANGED <<recovered, row, faults>>
  /\ FolderButOutcome

RemoveOriginals(t) ==
  /\ Running(t, "remove")
  /\ NoSpool
  /\ EndTask(t)
  /\ UNCHANGED <<finalAudio, outcome, processVars, stopVars, faults, accepted, raced, recovered, row>>

\* The outcome cannot be read or written, the commit or the removal fails.
TaskFails(t) ==
  /\ \E pc \in {"transcribe", "file", "read", "write", "remove"} : Running(t, pc)
  /\ Fault
  /\ EndTask(t)
  /\ UNCHANGED <<recovered, row>>
  /\ FolderAsIs

(* remove_dir_all takes the files one by one. A locked file or a crash stops *)
(* it with some files, perhaps none, and the directory still there.          *)
SpoolLeft(kept) ==
  /\ spoolDir
  /\ chunk' = [s \in Seqs |-> IF s \in kept THEN chunk[s] ELSE NoBatch]
  /\ bad' = bad \cap kept
  /\ tmp' = NoTmp
  /\ marker' = FALSE
  /\ UNCHANGED <<spoolDir, finalAudio, outcome>>

RemovalStops(t, kept) ==
  /\ ~RemovalAtomic
  /\ Running(t, "remove")
  /\ Fault
  /\ SpoolLeft(kept)
  /\ EndTask(t)
  /\ UNCHANGED <<processVars, stopVars, accepted, raced, recovered, row>>

StopRemovalStops(kept) ==
  /\ ~RemovalAtomic
  /\ stop = "release"
  /\ Fault
  /\ SpoolLeft(kept)
  /\ stop' = "report"
  /\ UNCHANGED <<processVars, fin, report, accepted, raced, libraryVars>>

-----------------------------------------------------------------------------
TaskStep(t) ==
  \/ Dialog(t) \/ Open(t, "open") \/ Open(t, "retranscribe")
  \/ (\E s \in Seqs : ReadPart(t, s) \/ SkipChunk(t, s)) \/ Rebuild(t) \/ EncoderFails(t) \/ RebuildFails(t)
  \/ PublishRecovery(t) \/ Supersede(t) \/ RecoverFails(t)
  \/ ShowRecovered(t) \/ SaveRecovered(t) \/ ReadEvidence(t) \/ InspectCapture(t)
  \/ CommitTranscript(t) \/ WriteRow(t)
  \/ CheckRelease(t) \/ ReadOutcome(t) \/ ProbeMarker(t) \/ KeepWarning(t) \/ RemoveOriginals(t) \/ TaskFails(t)

\* The recording of CaptureSpool. A crash ends every task, and a crashed
\* process that has been started again can crash again.
Recording ==
  /\ Next
  /\ task' = IF stop' = "crashed" THEN [t \in Tasks |-> NoTask] ELSE task
  /\ UNCHANGED <<recovered, row>>

Overlap == \E t, other \in Tasks : t # other /\ task[t] # NoTask /\ task[other] # NoTask

RecoveryNext ==
  \/ /\ Recording \/ SaveMeeting \/ \E t \in Tasks : TaskStep(t)
     /\ undisturbed' = (undisturbed /\ ~Overlap')
  \/ /\ \E kept \in SUBSET ChunkSeqs :
          StopRemovalStops(kept) \/ \E t \in Tasks : RemovalStops(t, kept)
     /\ undisturbed' = FALSE

RecoverySpec == RecoveryInit /\ [][RecoveryNext]_allVars

-----------------------------------------------------------------------------
(* The audio one gets by opening the meeting now: a recovery if there is     *)
(* one, else what can be rebuilt from a spool, else audio.mp4.               *)
Heard == IF HasRecovery THEN Selected
         ELSE IF spoolDir THEN Encoded(CapturePaths)
         ELSE finalAudio

(* Originals are removed only when playback has everything that reached the  *)
(* disk: "A longer alternate file must not authorize removing originals      *)
(* while a shorter preferred recovery is still what playback/retranscription *)
(* selects" (release_recovered_capture).                                     *)
PlaybackCovers == ~spoolDir => accepted \subseteq Heard

(* It holds as long as one command has the folder for itself and a removal   *)
(* is not cut short: nothing else in the code keeps it.                      *)
UndisturbedPlayback == undisturbed => PlaybackCovers

(* A stopped meeting without warnings has lost nothing: what was captured is *)
(* still in the folder, as long as no stored chunk rots and the commands on  *)
(* it do not overlap.                                                        *)
WarningFree == /\ stop = "stopped" /\ bad = {} /\ undisturbed
               /\ outcome.saved /\ ~outcome.capture_incomplete /\ ~outcome.audio_save_failed

WarningFreeIsKept ==
  WarningFree => 1 .. captured \subseteq Stored \cup Heard \cup finalAudio

(* A recovery that calls itself a success has every batch that ever reached  *)
(* the disk, unless a removal was cut short.                                 *)
SuccessIsWhole ==
  \A t \in Tasks :
    undisturbed /\ task[t].pc = "recovered" /\ task[t].staged # {} /\ ~task[t].gaps
      => accepted \subseteq task[t].staged

(* "A saved capture warning remains permanent" (find_or_recover_audio_file_  *)
(* with_status). The library never takes it back, and has it whenever the    *)
(* file loses it or .incomplete goes, however commands overlap: a clean-up   *)
(* that read the outcome before another command wrote it writes the old one. *)
(* While commands do not overlap the file keeps the warning as well, and     *)
(* .incomplete goes only when the saved outcome has it.                      *)
WarningPermanent ==
  [][/\ row.capture_incomplete => row'.capture_incomplete
     /\ outcome.capture_incomplete /\ ~outcome'.capture_incomplete => row'.capture_incomplete
     /\ marker /\ ~marker' => outcome'.capture_incomplete \/ row'.capture_incomplete
     /\ undisturbed' => /\ outcome.capture_incomplete => outcome'.capture_incomplete
                        /\ marker /\ ~marker' => outcome'.capture_incomplete]_allVars

(* The comment taken at its word: a warning that recording-outcome.json has  *)
(* stays in it, also while release_recovered_capture reads, probes and       *)
(* writes beside another command.                                            *)
FileWarningPermanent ==
  [][outcome.capture_incomplete => outcome'.capture_incomplete]_outcome
=============================================================================
