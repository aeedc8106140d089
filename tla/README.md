# ClawScribe: formal models and proofs

ClawScribe records meetings on one machine, transcribes them with local or
cloud engines, and keeps audio, transcripts, summaries and answers about them.
The specifications in this directory model the parts of its Rust backend where
order, failure and concurrency decide whether a meeting survives. Paths below
are relative to `src/frontend/src-tauri/src/` unless they start with `src/`.

Contents: [1 Inventory](#1-inventory) ·
[2 Modules](#2-modules-and-the-code) · [3 Runs](#3-runs) ·
[4 Fairness](#4-fairness) · [5 Proofs](#5-proofs) ·
[6 Findings](#6-findings) · [7 Observations](#7-observations) ·
[8 Not modelled](#8-what-is-not-modelled) · [9 Open ends](#9-open-ends)

To repeat a check: `tlc -config CaptureSpool.cfg CaptureSpool` (every `.cfg`
names its specification; the module of each is in section 3), and
`tlapm CaptureSpoolProofs.tla`.

## 1 Inventory

| Component | State | Operations | What is hard | What makes it correct |
|---|---|---|---|---|
| Capture spool (`audio/transcription/queue.rs`, `audio_spool.rs`, `incremental_saver.rs`, `recording_saver.rs`) | handoff channel, `QueueShared`, `.audio-spool/*.chunk`, `.tmp`, `.incomplete`, `audio.mp4`, `recording-outcome.json` | send, write a chunk, finish, finalize, save the outcome, release | failed and half-done writes, deadlines that abandon a thread, crash at any step | no stored batch is thrown away; no gap goes unrecorded |
| Recovery and release (`audio_spool.rs`, `incremental_saver.rs`, `retranscription.rs`) | the folder, `audio-recovered.mp4/.wav`, `recording_outcomes` rows | recovery dialog, opening, retranscription, release of originals | commands interleave without a lock, encoders fall back, removals stop half-way | playback covers what is removed; no warning is lost |
| Live transcription (`audio/transcription/queue.rs`, `worker.rs`) | disk queue, `Notify`, channel of one, counters, `CancellationToken` | publish, recv, dispatch, recognise, drain | lost wake-ups, panic, cancellation between two counters | order, honest completeness, Stop ends |
| Transcript snapshot (`recording_saver.rs`) | segments, dirty flag, lock, `transcripts.json` | add, timer, final write | flag, clone and file are separate steps; a timer thread outlives its abort | a clear flag is true; bounded loss; no older file |
| Start and stop (`recording_commands.rs`, `recording_manager.rs`) | `IS_RECORDING`, `RECORDING_JOB`, `RECORDING_MANAGER`, `TRANSCRIPTION_TASK`, listener, pending segments, live session | start, stop, emit, persist | concurrent starts, segments that arrive while nobody has the manager, workers that outlive a recording | transcripts do not mix; Stop leaves nothing behind |
| Native jobs (`audio/inference.rs`, `knowledge/scheduler.rs`, `summary/service.rs`) | `JOBS`, `NATIVE`, `PRIORITY`, active call, cancellation tokens | claim, preempt, cancel, run, release | native calls cannot be interrupted; guards drop in an order; probes without the lock | one user of the engine; indexing yields; a claim is decided |
| Embedding scheduler (`knowledge/scheduler.rs`) | enabled, verified, model, worker mutex | enable, disable, idle unload, with_backend | the switch is turned under running calls; a panic poisons the mutex | off means off; the memory comes back |
| Live assistance (`knowledge/live.rs`) | session, request slot and lease, early cancellations, history, consent and its row | ask, cancel, clear, load and save the consent, start, stop | late answers, a consent that changes at every await, a failed write of the setting | sharing follows the user's last word; nothing withdrawn leaves |
| Saved answers (`knowledge/answers.rs`, `conversations.rs`) | registry, request rows with dependencies, document permissions | ask, retry, cancel, clear, delete, back up, restore, restart | sources change while an answer is made; a terminal write fails | an answer says what its sources say and goes with them |
| Corrections (`database/transcript_edits.rs`, `audio/retranscription.rs`, `diarization.rs`) | rows, revisions, edit batches, `transcript_file_sync`, `transcripts.json` | correct, undo, retranscribe, detect speakers, rename, restore, copy | database and folder are two writes; long commands read before they write | no text disappears; a stale copy is known |
| Summaries (`summary/`) | `summary_processes`, cancellation registry | generate, cancel, edit, restore, start-up | cancellation races completion; a status that cannot be written | the previous result survives; a pending row has its job |
| Knowledge index (`knowledge/indexer.rs`, `store.rs`, triggers) | source row, job row, chunks, worker | rewrite, reindex, cancel, pass, publish, fail, requeue, switch | the text changes while it is embedded; the process dies | a search sees the present text or nothing; every text gets its turn |
| Reference documents (`knowledge/documents/`, `document_cleanup.rs`) | rows, attachments, original files | import, detach, delete, sweep at start | row and file are two writes; deletion takes no permit | a row has its original; nothing stays behind |
| Backup and restore (`library/backup.rs`) | archive, staged files, rows | back up, restore | crash between stages; deletions go on meanwhile | a restore is whole or not there |
| Exports (`exports/`) | `exports.json`, requests under way | export, resume, retry | a lost answer; a retry of what was done; a crash between request and entry | a selection is created once |
| Microsoft sign-in (`exports/commands.rs`, `ms_auth_state.rs`, `token_store.rs`) | connection, generation, token, keychain, fallback file, sign-in tasks | sign in, consent, cancel, refresh, sign out, start | refreshes and sign-ins come back to another session | a signed-out session stays out |
| Model downloads (`model_download.rs`) | reservations by generation, `.partial` files | start, cancel, resume, verify | late cancellation of an earlier download | not modelled |
| Summary providers, local helper, unsaved edits at exit (`summary/`) | requests, a child process, a dialogue | generate, answer, save or discard | restart of the helper, deadlines | not modelled; their results are steps of MeetingSummary |
| Shell and interface (`lib.rs`, `tray.rs`, `shortcuts.rs`, `src/frontend/src`) | views, preferences | commands and events | several callers of one command | covered where the backend admits them |

How they interact. The audio pipeline produces one-second batches for the
spool and speech segments for the transcription queue; both are the same
`BufferedSpool` over a disk queue. The transcription worker emits events; a
listener turns them into segments of the manager's saver, which writes the
snapshot. Stop ends the pipeline, drains queue and spool, writes the final files
and the outcome, and gives back the permit. Start, imports, retranscription,
speaker detection, corrections and backups claim `JOBS`; whatever calls an
engine also takes `NATIVE`. Indexing runs in the gaps and yields to all of them.
After Stop, the library works on the folder and the rows that the recording
left: whatever rewrites the rows fires the triggers of the index, a summary that
is being generated reads them, and the copy in the folder follows them.
Deleting a meeting, importing a document and signing out claim nothing.

`PROJECT.json` has the same list with every source file, the hazards with the
line where each bites, and the properties that would catch them.

## 2 Modules and the code

```
MeetingFolder --> CaptureSpool --> CaptureRecovery --> CaptureSpoolProofs
                   \-- implements CapturePromise
TranscriptionQueue --> TranscriptionQueueProofs
LiveSession --> LiveSessionProofs
SavedAnswers --> SavedAnswersProofs

RecordingLifecycle ---------------\
TranscriptSnapshot ----------------+--> RecordingProcess
NativeJobs --> KnowledgeScheduler -/
RecordingLifecycle --> RecordingLifecycleProofs
TranscriptSnapshot --> TranscriptSnapshotProofs
KnowledgeScheduler --> NativeJobsProofs

MeetingText --> MeetingSummary --------\
KnowledgeIndex -------------------------+--> MeetingLibrary --> MeetingLibraryProofs
   \-- implements IndexPromise          |
ReferenceDocuments --> LibraryArchive --+
MicrosoftSession --> MeetingExports ---/
```

An arrow is EXTENDS. Constants are values of the program (a capacity, a
threshold) or named bounds; the configurations give them values. Variables that
the program does not have are marked `history` (what a property remembers) or
`bound`.

**MeetingFolder** is the durable side of a recording: what `capture_paths`,
`encode_capture` and `capture_has_gaps` read out of the files. A batch of audio
is its number; an audio file is the set of batches one hears in it.

**CaptureSpool** is the process that fills and finalizes the folder. `HandOff`
and `LoseBatch` are the two results of `try_send`; `TakeBatch`, `FillTmp`,
`PublishChunk` and `WriteFails` are the steps of `write_chunk` that a crash can
separate; `FinishTimeout` aborts the worker after 30 s while its blocking write
lives on as `orphan`; the actions of `fin` are `IncrementalAudioSaver::finalize`
on its blocking thread, which goes on behind a Stop whose save deadline has
passed. `WriteOutcome`, `ReleaseSpool` and `WriteReport` are in the order of
`finalize_files` and `stop_recording`.

**CapturePromise** states the same for a reader with no interest in queues:
batches are heard, kept, saved; originals are released only for an audio file
that has everything on disk, and with every gap admitted. CaptureSpool
implements it (`KeepsPromise`) under the mapping heard = `captured`,
disk = stored batches, saved = `audio.mp4`, admitted = the saved flag,
released = no spool.

**CaptureRecovery** adds the library: the recovery dialog, opening and
retranscription as tasks that interleave with each other, with crashes and with
rot, down to the steps of `recover_with_encoder` and `release_recovered_capture`:
that one reads the outcome, looks for the marker, writes the outcome and removes
the spool in four steps without a lock (`ReadOutcome`, `ProbeMarker`,
`KeepWarning`, `RemoveOriginals`).
`RemovalAtomic = FALSE` lets `remove_dir_all` stop with any subset of the files.

**TranscriptionQueue** is one recording's way from speech to text at the grain
of accesses to shared memory: `recv` is the seven program points between its
loads of `next_write` and `closed` and its use of `Notify`. A stored permit
(`notify_one`) and a wake of existing futures (`notify_waiters`) are different
variables, as in tokio.

**TranscriptSnapshot** is the flag, the lock and the file. Contents are counted:
updates are applied in one order, so a snapshot is its length.

**RecordingLifecycle** has one action for each statement of `start_recording`
and `stop_recording` on process-wide state. A session is a recording generation;
segments carry it, as `live_session_id` does in the code.

**NativeJobs** is admission. `jobs` and `native` are the two semaphores;
`priority`, `waiting` and `active` are the mutex, the counter and the active call
of `knowledge/scheduler.rs`; `pc` follows each caller through `claim_job`,
`claim_job_preempting_local_summary` or `run_indexing`. A job may end while its
last native call is still inside. tokio's semaphore hands a released permit to
its queue, so nobody's `try_acquire` succeeds past a queued caller (`Available`).

**KnowledgeScheduler** runs `with_backend` inside NativeJobs' calls, with
`enable`, the three steps of `disable`, the idle timer and a model that may
panic with the mutex. The steps of NativeJobs are used as they are.

**RecordingProcess** puts Start and Stop, the snapshot and the jobs side by side
in one run; `uses` says which of them a behaviour follows. What one needs of
another is in its module: `Batch` is a job for RecordingLifecycle, and its `Save`
is the final write of TranscriptSnapshot, which succeeds or is reported.

**LiveSession** is `knowledge/live.rs`: a call of `ask` from one await to the
next (claim the slot, resolve the configuration, fetch documents, send, wait,
complete), each of which looks again at lease, session and consent; the consent
with its revision, `consent_io` and the row it is saved to; cancellations that
arrive before their request; history and its cap. What the user last asked for
(`choice`) and the calls withdrawn (`void`) are history.

**SavedAnswers** is the assistant's conversation over a meeting and a document:
registry and tokens in memory, rows with their dependencies in the database. The
triggers that invalidate answers are part of the step that edits or removes a
source. A text is a number, and an answer is the texts it was made from. `Finish`
takes the write lock and the last look at the token (`conversations.rs:415`);
`Commit` is the awaited commit after it. A cancellation, a deadline or a lost task
meanwhile drops the future (`answers.rs:393`), and what was sent to the database
lands or not (`CommitDropped`); nobody else writes until then (`Locked`).

**MeetingText** is the rows of one transcript and the copy in its folder.
Corrections, undo, restore, retranscription and speaker detection are the
transactions of `transcript_edits.rs`, `retranscription.rs` and
`diarization.rs`; `command` is who has the permit of `JOBS` and what it read
when it began. Renaming a speaker takes no permit and is two steps.

**MeetingSummary** adds the row of `summary_processes` and the task of one
generation, by the local helper or a provider elsewhere, with the backup of the
last result, cancellation, statuses that cannot be written, edits and start-up.

**KnowledgeIndex** is one source: the triggers' effect on row and job, and the
worker of `indexer.rs` between taking a job, reading a passage, staging its
vector and publishing, all against a text that may have moved on. `held` is what
makes a turn of its loop pass without a pass (`indexer.rs:37-49`): capture,
foreground work or a failing `invalidate_other_spaces`.
**IndexPromise** is what a search may expect: all of the present text or
nothing.

**ReferenceDocuments** is rows and files of documents with the import that
stages, places and registers, the removal after a deletion, and the sweep at
start that compares the two. **LibraryArchive** adds the backup (rows in one
transaction, files after it) and the restore, which places originals and then
commits.

**MicrosoftSession** is the connection: a sign-in is a task with the generation
it began in; `Loadable` is what a start would find in keychain and fallback
file. **MeetingExports** adds the commands that create pages and tasks: token,
`EXPORT_LOCK`, ledger entry before the request, entry after the answer. `wire`
is the service's side: a request may land after everybody has given up on it. A
ledger key is a page together with all that was chosen with it, as `artifact_hash`
makes it (`planner.rs:180`, `todo.rs:156`, `model.rs:131`); `Selections` is what
may be chosen, and tasks for several buckets are several selections.

**MeetingLibrary** composes the four. Whatever rewrites the transcript fires the
triggers in the same step (`Revised`) and is seen by a generation under way
(`Seen`). `uses` is a bound: a behaviour uses summaries, index, documents,
exports with the account as it is, or exports with the account changing under
them. Only the first two share state (the rows).

## 3 Runs

| Run | Module | What it asks | Bounds |
|---|---|---|---|
| CaptureSpool | CaptureSpool | no silent gap, honest clean outcome, refinement of CapturePromise, Stop ends | 4 batches, handoff 2, 2 faults, stalls, crash |
| CaptureStallLoss | CaptureSpool | a violation: see 6.1 | 2 batches, handoff 1, no fault, stall |
| CaptureRecovery | CaptureRecovery | the library takes no warning back and has what the folder loses, under interleaved commands and half-done removals; undisturbed commands keep it in the folder, release only what playback covers, and success is honest | 3 batches, handoff 1, 2 tasks, 2 faults, crash, no stalls |
| CaptureShadow | CaptureRecovery | a violation: see 6.2 | 2 batches, 1 task, 1 fault |
| CaptureWarningLost | CaptureRecovery | a violation: see 6.4 | 2 batches, 2 tasks, 1 fault, whole removals |
| TranscriptionQueue | TranscriptionQueue | order, completeness, end of Stop, no lost wake-up | 3 segments, handoff 1, 2 faults |
| TranscriptionLast | TranscriptionQueue | a violation: see 6.3 | 1 segment, no fault |
| RecordingProcess | RecordingProcess | no mixing, nothing emitted is lost, clean rest; the dirty flag is true, every update is saved; off is off, the memory comes back, one user of the engine, indexing never costs a start, each claim is decided | 3 recordings, 2 segments each, 2 callers; 5 updates, flush after 2, 2 faults; one actor of each kind: indexing call, read, foreground job, command, summary, probe |
| LiveSession | LiveSession | sharing follows the user, nothing withdrawn is sent or delivered | 2 requests, 2 saves at a time, 2 recordings, 1 fault; 1 early cancellation, 2 answers kept |
| SavedAnswers | SavedAnswers | answers are true, wanted and go with their sources; a running row has its call | 2 requests, registry of 1, 1 edit, 1 backup, 1 fault |
| MeetingLibrary | MeetingLibrary | texts, names and summaries survive; a stale copy is known; a pending row has its job; the index keeps its promise and gets there; documents keep their originals and nothing leaks; a restore is whole; no token of a signed-out account comes back; nothing is created twice under one key | 2 texts after the first, 2 archived revisions, 1 fault, 2 summaries; 2 passages, 3 generations; 2 meetings, 1 content, 2 identities, 1 mishap; 2 exports, 3 pages in a selection of two and one of one, 3 sign-ins, 4 sessions, 1 trouble |
| TaskOnce | MeetingExports | a violation: see 6.5 | 1 export at a time, 2 tasks, both or the first, no trouble |

What the runs show beyond unit tests is the combination: a failed write with a
late encoder, a panic during a drain, a Stop while the listener waits for the
manager, a disable between a call's two looks at its token, a consent withdrawn
while its last setting is being written, a correction while the summary of the
old text comes back, a refresh that returns after the next sign-in.

Why the bounds are enough.

* Sequences: reuse of a failed number needs two batches, a gap behind it a
  third, and an orphan next to both a fourth. Handoff: overflow needs one slot
  more than the capacity; 2 in CaptureSpool also has order inside it. Segments:
  one in the worker, one in the channel, one that waits is the deepest pipeline
  there is. Snapshot: 5 updates are two flush periods of 2 and one on top, so a
  second flush follows a failed one.
* Faults: each error path is one fault; two give the pairs (a lost batch and a
  failed marker, a failed encoder and a failed publish). In MeetingLibrary an
  end of the process is one of the faults: behaviours with summaries or index
  have one fault or one end, those with documents too. Where exports are used the
  process may end at any time, and one trouble comes on top.
  MeetingLibraryProofs has any number of each.
* Recordings: a worker of the first can meet the second, and both the third.
* The three parts of RecordingProcess have no variable in common, so following
  one of them to a behaviour loses nothing.
* Actors of KnowledgeScheduler differ in kind, so one of each is there; two
  indexing calls exclude each other by `JOBS`, and NativeJobsProofs covers any
  number of each kind. Two commands of CaptureRecovery are interchangeable
  (`SYMMETRY`), as are the saves of LiveSession.
* SavedAnswers: with one entry in the registry the second request meets the
  limit; with two the run has more than ten million states and
  SavedAnswersProofs covers every limit.
* MeetingLibrary: two texts let a correction follow a retranscription; restoring
  takes one revision out of the archive and puts the present one in, and asks for
  room before (`Room`), so two are the least with which `Restore` and a second
  archiving happen; two summaries are the
  present and the previous one; two passages let the text change between them;
  the second meeting shares a document with the first and survives its deletion;
  two exports contend for the lock, two pages chosen together let the first
  succeed before the second fails, and a third in a selection of its own is the
  next bucket; three sign-ins are the old account and two new ones that race each
  other, and four changes of the session let sign-outs come between. While accounts
  change only the selection of one page is exported (`Brief`): token and account do
  not know what is exported. Splitting behaviours by `uses` loses nothing else, as the
  parts share only the rows, which both parts that read them have.

LiveSession, MeetingLibrary and TaskOnce may stop (the user asks nothing more,
bounds are spent), so their configurations do not check for deadlock.

The type invariants (`TypeOK` and its kin) are theorems where a module has
proofs. The others hold under the bounds above; as they say little, the
configurations do not list them.

Mutants. Every property of a passing run comes with at least one changed
definition that breaks it (named in `PROJECT.json`, marked `mutant` in the
modules): a dropped lock, a flag that is not set again, a check before the lock,
a marker that is forgotten, an entry written after its request. No property
holds by the shape of its module.

## 4 Fairness

* **CaptureSpool**: weak fairness of Stop only (`StopStep`). Stop awaits the
  writer and the encoder only with a deadline (`queue.rs:260`,
  `recording_commands.rs:1305`), and nothing is assumed of either. Its own steps on
  the folder have no deadline: the synchronous file work of `finalize_files`
  (`recording_saver.rs:481-569`) and the awaited write of the outcome
  (`recording_commands.rs:1367-1368`). `StopFinishes` therefore excuses by name a
  Stop that stays in one of them for ever (`OwnFiles`).
* **TranscriptionQueue**: the sender and Stop go on. Receiver, dispatcher and
  worker are fair only while `Calm`: nothing failed and nothing is slow. So
  `Drains` rests on Stop's deadlines alone when something is wrong, and on
  wake-ups when nothing is; `Prompt` is claimed only while calm.
* **TranscriptSnapshot**: threads that have begun go on and the timer ticks.
  Nobody has to speak or to stop.
* **KnowledgeScheduler**: code between two awaits runs on; retries every 5 ms and
  two deadlines are timers. The deadline of the preemption is strongly fair
  because the retries between can disable it, and so is the idle timer while the
  index is disabled: it runs from the first `enable` to the end of the process.
  Native calls and helpers have to end only when `~slow`; a user's job never has
  to.
* **MeetingLibrary**: the worker of the index goes on (`IndexFair`), since it
  wakes every second (`indexer.rs`) and after each write. `Indexed` excuses by
  name what the code cannot overcome: a job that was cancelled, one that failed
  three times, an index that is off, a worker that is held (`held`: capture,
  foreground work, a failing database), and interruptions without end. `Take` asks
  for what the loop asks for, so no step is forced that the code would skip, and
  a failure that cannot be recorded just ends the pass (`GiveUp`). Nobody
  has to correct, summarise, export or restart anything.
* RecordingLifecycle, CaptureRecovery, LiveSession and SavedAnswers claim safety
  only and assume no fairness.

## 5 Proofs

All eight proof modules are checked to the last leaf; the theorems hold for
every value of the constants that the named assumptions allow. Every safety
property of a passing run is stated by one of them. The assumptions only say
that counts and bounds are natural numbers, that a capacity is positive, that
kinds of actors are disjoint, and that a name for "nobody" or for a place of the
permit is no actor (`NAssumption`, `CaptureAssumption`, `RecoveryAssumption`,
`QueueAssumption`, `SnapshotAssumption`, `LifecycleAssumption`, `ActorAssumption`,
`LiveAssumption`, `AnswersAssumption`, `TextConstants`, `NotesConstant`,
`IndexConstants`, `DocumentAssumption`, `SessionAssumption`, `ExportAssumption`,
`BriefAssumption`).

Five theorems have a hypothesis besides, the value that the run has too:
`~DiskMayStall` for the three about an undisturbed folder (a disk that stalls past
the deadlines of Stop is finding 6.1, and breaks them), and `~Overtaken` for two of
RecordingLifecycle (the first observation of section 7).

**CaptureSpoolProofs, the recording.** `CaptureTypes`: every variable keeps its
type. That sequence numbers stay in range is not a matter of types: it needs
`WriterInv` (`nextWrite + Len(handoff) + Busy <= captured` until the drain ends).
`GapsAlwaysRecorded`: once the spool is gone, either `audio.mp4` has every
captured batch or the saved outcome admits the gap, with stalls, orphans and
crashes. `GapsRecorded` is not inductive. The argument follows a batch and a
flag: as long as `incomplete` is clear, every captured batch is in the handoff,
in the writer or stored, and after the drain it is stored (`NothingForgotten`);
with a clear flag the encoder's listing is all of the spool, so "all encoded"
means that the published audio is whole (`FinalizeInv`); once the flag is set,
it is in the report before the outcome is written, and the spool goes only with
that outcome (`ReportInv`). The conjunction is `GapsInv`. The proof needs no
assumption on the disk.

`CleanIsWhole` (the property `CleanOutcome`) and `PromiseKept` (the refinement of
CapturePromise) rest on `WholeInv` besides: nothing is anywhere that was not captured
(`Known`), no chunk is published under a number that is taken (`Numbered`), what the
spool has when the encoder lists it is all it ever gets unless an abandoned write
races (`Unraced`), and an outcome that admits nothing has everything in the audio
behind it (`Admitted`). For the promise, each action of Next is its `Hear`, `Keep`,
`Save`, `Admit` or `Release`, or a stutter; a step past a race is none of its
business, as the promise ends there.

**CaptureSpoolProofs, the library.** `WarningsStay` (`WarningPermanent`) holds with
any number of commands that overlap step by step, with removals cut short, rot,
stalls and crashes: the row never takes a warning back, and has it whenever the
file loses it or `.incomplete` goes; while no two commands overlapped, the file has
it too. The file alone does lose it under overlap (6.4). The invariant `WarnedInv`:
commands rest while the recording goes on (`Resting`); the row knows what the
outcome admits (`Rows`); what `.incomplete` says comes up in every report (`Noted`);
the row knows of the marker, and of any warning a command has read, before that
command writes or removes anything (`Heed`); and what an undisturbed command has
read is still what the file says (`Care`).

`PlaybackIsCovered`, `NoWarningNoLoss` and `SuccessHasAll` are about a folder that
one command at a time has for itself (`undisturbed`). `KeptInv` says that until the
recording has ended its own invariants hold and there is no recovery (`OnItsOwn`),
that a recovery has nothing which is not in the spool (`Kept`), that a stopped
recording has reported what it lost (`Reported`), and that a command which rebuilds
has, or has still to read, all that it does not report as a gap (`Covering`). The
release compares numbers only: `ReleaseCovers` proves that "at least as long" is
enough, because a recovery is a subset of the spool and every chunk is another batch.

**TranscriptionQueueProofs.** `SpokenInOrder` (`SpokenOrder`), `NothingMissing`
(`CompleteIsComplete`) and `QueueTypes`, for any number of segments, any handoff
and any failures. A segment is in one of seven stages: transcript, worker, channel,
dispatcher, unread on disk, writer, handoff (`Stages`). Each step lets one segment in
at the end, moves the first of a stage to the stage ahead, loses some and leaves a
count or a cancellation behind, or moves nothing (`StageStep`). So stages nearer to
the transcript hold earlier segments (`InOrder`), and without a count or a
cancellation every spoken segment is in some stage (`NothingLost`). When the drain
ends with as many completed as queued, the chain `completed <= queued <= nextRead <=
nextWrite` (`Counted`) closes, and all stages but the transcript are empty
(`CleanDrain`). `Closing` ties the end of the queue to the progress of Stop and every
cancellation to `incomplete`. `NobodySleepsThrough` is the part of `Drains` and
`Prompt` that needs no fairness: a receiver that waits with something to read or to
end for has a permit or a wake, or the sender is between its store and the
notification (`NoLostWakeup`).

**RecordingLifecycleProofs.** `NeverMixed` (`NoMixing`) and `LifecycleTypes` for any
number of starters, recordings and segments, with and without overtaking. `RestIsClean`
(`CleanRest`) needs the invariant `Control`: it says at each step of Start and Stop
who has the permit, whether the flag is up, where the manager is, and that streams,
task and listener belong to the one recording under way, which is the last one made.
`EmittedIsSaved` (`NothingEmittedLost`) adds `Work`: the worker of that recording
runs only while a listener hears it, what was emitted is in the saver's memory or
waits for the manager and comes back to it before Stop saves (`Current`, `Applied`),
and every earlier recording is final (`Finished`).

**TranscriptSnapshotProofs.** One inductive invariant proves `SnapshotTypes`,
`SnapshotClean`, `SnapshotLoss` (what a crash costs is bounded by the flush
threshold and the failed writes), `SnapshotFinal` and `SnapshotNeverBack`. Its
parts: writers exclude each other; a clone lies between file and memory, and
those of the listener and of the final write are memory itself; with a clear
flag, file or clone lacks at most the update whose listener is about to set it;
the listener's counter bounds what the file lacks.

**NativeJobsProofs.** For any sets of actors, finite or not: `EngineOwned`
(an admitted job shares the engine with nobody), `IndexingAlwaysYields`,
`NeverRefusedByIndexing` (the action property `NotRefusedByBackground`) and
`JobTypes`. The strengthening says that the place of an actor decides whether it
has `JOBS` (`Holder`), that a background call is in the engine only while its
closure runs (`InsideRuns`), that the lock of `PRIORITY` is held exactly
during a background claim, when nobody waits (`Locked`), that a foreground job
counts as waiting from its request to its answer (`Claimants`), and that past its
first 2 s no background call has a permit unless one was slow (`Cleared`).
The switch of the index leaves all of this alone (`EngineOwnedUnderSwitch`,
`NeverRefusedUnderSwitch`). `OffMeansOff` (`OffIsOff`): past the first half of
`disable` every call that had found the index on is cancelled (`Told`), and past the
second nobody works, and who is on the way to the model finds none or a poisoned
mutex (`Gone`), although `disable` holds no lock in between.

**LiveSessionProofs.** `ConsentIsKept`, `OnlyWantedSent`, `HistoryIsOwn` and
`LiveTypes`. Consent: only the holder of `consent_io` writes the setting, so
what a save wrote is what the database has (`Locked`); there is one newest save,
it carries the user's word, and the gate stays closed until it is through
(`Closed`); hence an open gate is the user's word (`Agreed`). Answers: a call
past its claim has the slot or has lost its token (`Slot`), and so has every
call that was withdrawn (`Withdrawn`), which each await looks at before
anything leaves.

**SavedAnswersProofs.** `HistoryIsTrue`, `NothingOutlives`,
`RunningIsRegistered`, `SavedIsWanted`, `AnswersAreFinal` and `AnswerTypes`. The
invariant follows a text from the source it was read from to the row that says
it: what is told under a revision is true as long as the source has that
revision, and no edit brings a revision back (`Tell`); a gathered text belongs
to a revision that becomes a dependency (`CallInv`), and the trigger of the
source takes the row back with the dependency (`Saying`). `SavedIsWanted`
(`OnlyWanted`) goes step by step through the commit: what was cancelled or cleared
before the last look is not saved, what comes during the commit may come too late
and is named as that exception, and no source moves under a commit, as it holds the
write lock.

**MeetingLibraryProofs** (over `MeetingSpec`) has a section for each part; a step of
another part leaves its variables alone.

*The transcript and its summary.* `TextStaysRecoverable`, `FolderIsKnown`
(`MirrorKnown`), `SummaryStays` (`NotesKept`) and `OneGeneration`
(`GenerationAlone`). What is owed to the user - every recognised text, and every
typed one that was not taken back - is a text or an original of the rows or of an
archived revision. That undo gives up nothing else needs the stack of batches: the
first text of a segment is where the batch on top says (`Corrected`), also for the
batches under it (`Chained`). The folder has the text of
the rows or is marked, also under a command that has read it before (`Mirrored`).
While a generation works, what the user had is its backup (`Backed`).

*The index.* `IndexKeepsPromise` is the
refinement of IndexPromise; `JobsAccounted` and `IndexTypes` come with it. The
invariant: there is a job exactly as long as the text is not published, for its
present generation (`OneJob`); a vector is made from the text of the revision it
is stored under (`TrueText`); what the worker has passed is staged (`AllStaged`).
A step of the library is one of the index or leaves it alone, and each of the
index is `Replace`, `Forget`, `Publish` or a stutter of the promise.

*Documents and their archive.* `OriginalsStay`,
`NothingStaysBehind`, `RestoreIsWhole`, `ArchiveType`. The invariant: one permit
keeps imports and archives apart (`Apart`); an identity that was not given out
is nowhere (`Unused`); attachments lead to rows (`Owned`); a row has its file,
which nobody is about to remove unless a restore took it back (`Held`); the copy
of an import is its own until the rows commit (`Copying`); what a restore is
going to commit has its file (`Restoring`); the sweep has still to come to
what it is owed (`Sweeping`), and what is left over is in somebody's hands or was
given up (`Left`, `Brought`).

*Exports and sign-in.* `SignedOut`: a token that is being
refreshed is the account's as long as the session is the one it was taken from
(`Refreshed`), a sign-in that nobody cancelled is the one that can be cancelled
(`OpenHeld`), and what is stored is the account's unless a removal failed
(`Stored`). `OnceOnly`: there is one export in the ledger at a time (`Alone`),
and a key whose page was created or may yet be is one that no ledger, on disk or in
memory, lets anybody try (`Sound`) - so a late request finds its entry waiting. It
speaks of keys, for any set of selections; of tasks under another selection 6.5
shows the contrary.

Properties that only theorems state, as their runs would add nothing:
`LossBounded`, `FinalIsWhole`, `NeverBack`, `IndexingYields`, `OwnHistory`,
`AnswerIsFinal`, `WaitsOnlyWhenIdle`.

Model-checked only: the liveness properties (`StopFinishes`, `Drains`, `Prompt`,
`EventuallySaved`, `ClaimDecided`, `OffFreesModel`, `Indexed`), since the
proof system does not treat ENABLED under fairness. What a recursive definition
computes for all data would need induction theorems over operators, which the
provers cannot instantiate; the modules use none.

## 6 Findings

1. **A late write is deleted unencoded** (CaptureStallLoss, `queue.rs:265`).
   `finish` aborts its worker after 30 s, but the blocking write goes on. When it
   renames its `.tmp` after `encode_capture` has listed the spool, the vanished
   `.tmp` counts as a torn tail (`audio_spool.rs:144`), every chunk is reported
   as encoded, and the spool is removed with the new chunk in it.
   `src/docs/meeting-quality.md:103`: "Originals remain until all readable raw
   chunks are encoded". The gap is recorded: `GapsRecorded` holds with stalls.
2. **A half-removed spool hides the finished audio** (CaptureShadow,
   `incremental_saver.rs:346`). If `remove_dir_all` stops half-way, the rest of the
   spool is rebuilt into a shorter `audio-recovered` file that outranks
   `audio.mp4`, and is then released. The comment at `audio_spool.rs:418` asks for
   the opposite.
3. **`recv` can end before the last segment** (TranscriptionLast, `queue.rs:480`).
   The receiver loads `next_write`, then `closed`; a publish and a close between the
   two are taken for an empty, closed queue. Stop then reports an incomplete
   transcript, so `CompleteIsComplete` holds. The test
   `dropping_sender_closes_receiver_after_spooled_items` (`queue.rs:762`) says
   otherwise.
4. **A clean-up writes an old outcome over a warning** (CaptureWarningLost,
   `audio_spool.rs:431`). The recovery dialog's clean-up reads the outcome; a
   retranscription of the same folder commits its gap, writes it and removes the
   spool; the dialog finds no `.incomplete` and writes what it had read.
   `incremental_saver.rs:387`: "a saved capture warning remains permanent". The row
   of the library has the warning (`WarningPermanent`).
5. **Another selection creates a task again** (TaskOnce, `exports/planner.rs:180`).
   The key of a task contains the hash of everything chosen with it, in its order.
   `commands.rs:775-777` wants a key that survives "reordering/deselection", and
   `src/docs/integrations/todo-export.md:45-46` says that "Re-exporting the same
   reviewed task skips the already-created task". Order is left out of the model: a
   selection is a set, and deselection alone shows it.

## 7 Observations

Met while modelling; no document disagrees, so no run refutes them. Where one
limits a property, the name of the exception is given.

Recording

* Start raises `IS_RECORDING` (`recording_commands.rs:701`) before it stores
  permit, task and listener. A Stop that ran completely between those statements
  would leave the permit in its slot. `Overtaken = TRUE` shows the trace; the run
  excludes it because Stop has to close streams and write files meanwhile.
* An aborted worker may emit once more after Stop removed the listener. Such a
  recording is marked `transcription_incomplete`.
* Nothing locks a folder against two recoveries at a time, and two of them break
  `PlaybackCovers` even with atomic removals. `UndisturbedPlayback` therefore
  speaks of commands that do not overlap; with overlap the library alone keeps
  every warning (6.4).
* A batch dropped by a full handoff is remembered in memory until Stop
  (`queue.rs:229`); a crash before forgets it. A `.incomplete` marker is written
  for failed writes only.
* After a worker's panic the dispatcher can wait for room in a channel that its
  own task keeps open; Stop's 120 s deadline ends that.
* A cancellation between `chunks_queued` and the send leaves the worker polling
  counters that never agree, until it is aborted.
* The clean-up probe (`document_cleanup.rs:20`) holds `JOBS` for an instant and
  can refuse a recording. `cancel_local_summaries` (`inference.rs:66`) runs before
  it is known whether the job can start.
* A panic inside the embedding model poisons its mutex: `disable` ends without
  forgetting the verified model, and `enable` answers Busy until a restart
  (`OffFreesModel` excepts that case by name).

Text and summaries

* Retranscription writes `transcripts.json` before its rows commit and does not
  touch `transcript_file_sync`: a failed commit or a crash leaves the folder ahead
  of the rows with no mark (`history.torn`).
* When `api_process_transcript` cannot save the transcript after it has made the
  row pending, or when no status can be written at the end, the row stays pending
  without a job until the next start, and holds up corrections
  (`promised.stranded`).
* A cloud summary goes on across a retranscription and completes for the old
  text (`generation.moved`); a cancellation is not looked at once the provider
  has answered.
* A renamed speaker is not copied to the folder. Renaming holds no permit; the
  fingerprint of speaker detection catches a rename that passed its check before
  detection began.
* A correction is still on offer for undoing after speaker detection has cut its
  segments anew; undo then refuses (`history.resegmented`).
* `update_meeting_summary` without a row in `summary_processes` changes nothing
  and reports success.

Documents and backup

* Temporary files of an import and folders staged by a restore stay after a
  crash; the sweep looks only at originals.
* Restoring a backup for meetings that are still there creates the rows and
  originals of documents that no meeting has any more; they go at the next start
  (`ledger.brought`).
* A removal on its way can delete a file whose identity a restore has just taken
  back, if the file had vanished when the restore looked (`ledger.reused`).
* A restore that inserts nothing but repairs a lost original holds no write lock:
  if the document is deleted meanwhile, the file stays until the next sweep.
* When the spare copy of a document that is already there cannot be removed, the
  import reports an error although the attachment was made.

Exports and sign-in

* An export that is answered 401 marks the connection expired without a look at
  the generation: it may mark the next session, and an open sign-in whose success
  is then discarded keeps its handle, so that later ones are told "already in
  progress" until it is cancelled.
* An export takes its token once for all its pages (`commands.rs:418-446`): one
  that has begun goes on creating pages after a sign-out. `SignedOutStaysOut` is
  about memory and the stored tokens, hence about exports that begin later.
* After a failed write of the history the tasks of the next bucket are still tried
  (`export_selected_planner_tasks`, `NextBucket`), each with a write of its own
  before its request, while `src/docs/integrations/microsoft-graph.md:160` says "A
  history write failure stops the batch". Whether a batch is a bucket or the whole
  choice is not said there.
* Entries that failed for authorisation are never tried again, and `summarize`
  counts them also when they were skipped: exporting the same page after signing
  in again expires the new session without a call.
* Deleting a meeting removes its ledger without `EXPORT_LOCK`, and a restored
  meeting has no export history: exporting it again repeats its pages.
* A failure that leaves open whether the page was made (504, for example) counts
  as failed and may be tried again (`Misreported`, `excused`).
* Removing the fallback token ignores errors, and a stale entry of the keychain
  that cannot be replaced only warns: the next start loads the older account
  (`astray`).

## 8 What is not modelled

`PROJECT.json` lists every component that has no module, with the reason:
providers and helper of summaries, unsaved edits at exit, migrations, audio
devices and mixing, levels and playback monitors, cloud transcription, speech
engines, model downloads, tags and bookmarks, the OpenClaw handoff, Teams
detection, updates, settings, tray and shortcuts, the shell and the interface. In
short: signal processing, encoders and native inference are steps that end, fail
or stall; SQLite transactions are atomic; requests to services, documents, prompts
and layout are input and output; platform devices, tray and preferences keep no
state that the properties tell apart.

Left out inside the modelled components:

* recording: legacy `.checkpoints` recovery, pause and resume, device
  reconnection, the engine unload after Stop, read errors of
  `recording-outcome.json`;
* text: which segments a correction hits, decoding and clustering, import of a
  recording (one transaction), prompts, languages and titles of summaries;
* answers: ranking of evidence, conversations over the whole library, the window
  of live segments, the exemption of the built-in provider;
* index: chunking and vectors, documents as sources (they enter the same worker),
  a change of the embedding model;
* documents and backup: extraction, the checks of a foreign archive, other tables
  of a meeting (they come with its row), conversations in LibraryArchive (they
  are in SavedAnswers);
* exports: Confluence, files and calendar, details patched into a task that
  exists, the section made for an export, the exchange with browser and service
  at sign-in, the hourly limit of refreshes for new scopes.

Abstractions worth knowing: a batch, segment or text is a number; time is the
order of steps, and a deadline is an action that may happen when what it waits for
may be slow; fsync is not told apart from a completed rename, since a crash here is
of the process, not of the machine.

## 9 Open ends

What a continuation would take up, by weight:

1. `ModelDownload` (`model_download.rs`): reservations by generation and late
   cancellation; `EditExit` (`summary/edit_exit.rs`): save, discard and quit under a
   deadline; the helper's exchange lock and quarantine beneath MeetingSummary.
2. Documents as sources of KnowledgeIndex, and several sources for one worker,
   for fairness between them.
3. Theorems: the safety part of the other liveness properties, as
   `NobodySleepsThrough` is for `Prompt`: that a dirty snapshot has a timer or a
   final write to come (`EventuallySaved`), that a job of the index which waits
   can be found (`Indexed`), that a claim which waits has a holder to wait for
   (`ClaimDecided`).
