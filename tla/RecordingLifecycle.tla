------------------------- MODULE RecordingLifecycle -------------------------
(***************************************************************************)
(* Start and Stop of recordings over the process-wide state of             *)
(* recording_commands.rs: the flag, the job permit, the manager, the live  *)
(* session, the transcription task, the transcript listener and the        *)
(* segments that arrive while nobody holds a manager.                      *)
(*                                                                         *)
(* A session is one call of Start that got as far as a recording           *)
(* generation. STOP_OWNER admits one Stop at a time and later ones return  *)
(* without an effect, so there is one Stop; Start calls may overlap. Each  *)
(* action is one statement on the shared state or the work between two.    *)
(***************************************************************************)
EXTENDS Integers, FiniteSets

CONSTANTS
  Starter,     \* callers of Start: the window, the tray, a shortcut
  K,           \* bound: recordings
  E,           \* bound: transcript segments of a recording
  Overtaken    \* Stop and worker can run far while Start stores its state

ASSUME LifecycleAssumption ==
  /\ K \in Nat \ {0} /\ E \in Nat /\ Overtaken \in BOOLEAN
  /\ Starter \cap {"free", "slot", "batch"} = {}

Session == 1 .. K
None == 0
Segment == Session \X (1 .. E)

VARIABLES
  recording,   \* IS_RECORDING
  permit,      \* who has the permit of JOBS: "free", a starter, "slot", "batch"
  manager,     \* RECORDING_MANAGER
  live,        \* LiveState.session
  task,        \* TRANSCRIPTION_TASK
  listeners,   \* sessions whose transcript-update listener is registered
  listener,    \* TRANSCRIPT_LISTENER_ID
  pendingSegments, \* PENDING_TRANSCRIPT_SEGMENTS
  made,        \* last_generation
  start,       \* Start of each starter: pc and session
  stop,        \* Stop: pc, manager it holds, task it waits for
  capture,     \* sessions whose audio streams are open
  workers,     \* of each session: none, on, aborted, gone
  emitted,     \* of each session: transcript-update events
  memory,      \* of each session: segments of its RecordingSaver
  saved,       \* of each session: segments in its final transcripts.json
  lost         \* history: sessions whose worker Stop has aborted

globalVars == <<recording, permit, manager, live>>
taskVars == <<task, listeners, listener>>
sessionVars == <<capture, workers, emitted>>
transcriptVars == <<pendingSegments, memory, saved>>
lifecycleVars == <<globalVars, taskVars, sessionVars, transcriptVars, made, start, stop, lost>>

StartStep == {"idle", "claimed", "opening", "opened", "cleared", "stored", "flagged",
              "released", "spawned"}
StopPc == {"idle", "marked", "taken", "flushed", "restored", "draining", "drained",
           "unlistened", "retaken", "saved", "unflagged"}

LifecycleTypeOK ==
  /\ recording \in BOOLEAN
  /\ permit \in Starter \cup {"free", "slot", "batch"}
  /\ {manager, live, task, listener} \subseteq Session \cup {None}
  /\ listeners \subseteq Session /\ capture \subseteq Session /\ lost \subseteq Session
  /\ pendingSegments \subseteq Segment
  /\ made \in 0 .. K
  /\ start \in [Starter -> [pc : StartStep, session : Session \cup {None}]]
  /\ stop \in [pc : StopPc, manager : Session \cup {None}, task : Session \cup {None}]
  /\ workers \in [Session -> {"none", "on", "aborted", "gone"}]
  /\ emitted \in [Session -> 0 .. E]
  /\ memory \in [Session -> SUBSET Segment] /\ saved \in [Session -> SUBSET Segment]

NotStopping == [pc |-> "idle", manager |-> None, task |-> None]
NotStarting == [pc |-> "idle", session |-> None]

LifecycleInit ==
  /\ recording = FALSE /\ permit = "free" /\ manager = None /\ live = None
  /\ task = None /\ listeners = {} /\ listener = None
  /\ pendingSegments = {} /\ made = 0
  /\ start = [p \in Starter |-> NotStarting] /\ stop = NotStopping
  /\ capture = {} /\ lost = {}
  /\ workers = [s \in Session |-> "none"] /\ emitted = [s \in Session |-> 0]
  /\ memory = [s \in Session |-> {}] /\ saved = [s \in Session |-> {}]

StartAt(p, step) == start[p].pc = step
StartGoes(p, step) == start' = [start EXCEPT ![p].pc = step]
StopAt(step) == stop.pc = step
StopGoes(step) == stop' = [stop EXCEPT !.pc = step]

\* A saver keeps the segments of its own session only.
AnySession(s, segments) == segments          \* mutant: the session is not compared
Own(s, segments) == {x \in segments : x[1] = s}

-----------------------------------------------------------------------------
(* Start.                                                                    *)

PermitFree == permit = "free"

Claim(p) ==
  /\ StartAt(p, "idle") /\ made < K
  /\ PermitFree
  /\ permit' = p
  /\ StartGoes(p, "claimed")
  /\ UNCHANGED <<recording, manager, live, taskVars, sessionVars, transcriptVars, made, stop, lost>>

\* "Recording already in progress", a missing model, a missing microphone.
RefuseStart(p) ==
  /\ StartAt(p, "claimed")
  /\ permit' = "free"
  /\ start' = [start EXCEPT ![p] = NotStarting]
  /\ UNCHANGED <<recording, manager, live, taskVars, sessionVars, transcriptVars, made, stop, lost>>

NextGeneration == made + 1

Prepare(p) ==
  /\ StartAt(p, "claimed") /\ ~recording /\ made < K
  /\ made' = NextGeneration
  /\ live' = NextGeneration
  /\ start' = [start EXCEPT ![p] = [pc |-> "opening", session |-> NextGeneration]]
  /\ UNCHANGED <<recording, permit, manager, taskVars, sessionVars, transcriptVars, stop, lost>>

OpenStreams(p) ==
  /\ StartAt(p, "opening")
  /\ capture' = capture \cup {start[p].session}
  /\ StartGoes(p, "opened")
  /\ UNCHANGED <<globalVars, taskVars, workers, emitted, transcriptVars, made, stop, lost>>

\* Streams are closed again; dropping the uncommitted LiveStartup ends the
\* live session.
LiveAfterFailure(s) == IF live = s THEN None ELSE live

OpenFails(p) ==
  /\ StartAt(p, "opening")
  /\ live' = LiveAfterFailure(start[p].session)
  /\ permit' = "free"
  /\ start' = [start EXCEPT ![p] = NotStarting]
  /\ UNCHANGED <<recording, manager, taskVars, sessionVars, transcriptVars, made, stop, lost>>

ClearWaiting(p) ==
  /\ StartAt(p, "opened")
  /\ pendingSegments' = {}
  /\ StartGoes(p, "cleared")
  /\ UNCHANGED <<globalVars, taskVars, sessionVars, memory, saved, made, stop, lost>>

\* store_recording_manager: the lock is kept while waiting segments are applied.
StoreManager(s) ==
  /\ manager' = s
  /\ memory' = [memory EXCEPT ![s] = @ \cup Own(s, pendingSegments)]
  /\ pendingSegments' = {}
  /\ UNCHANGED saved

Store(p) ==
  /\ StartAt(p, "cleared")
  /\ StoreManager(start[p].session)
  /\ StartGoes(p, "stored")
  /\ UNCHANGED <<recording, permit, live, taskVars, sessionVars, made, stop, lost>>

RaiseFlag(p) ==
  /\ StartAt(p, "stored")
  /\ recording' = TRUE
  /\ StartGoes(p, "flagged")
  /\ UNCHANGED <<permit, manager, live, taskVars, sessionVars, transcriptVars, made, stop, lost>>

KeepPermit(p) ==
  /\ StartAt(p, "flagged")
  /\ permit' = "slot"
  /\ StartGoes(p, "released")
  /\ UNCHANGED <<recording, manager, live, taskVars, sessionVars, transcriptVars, made, stop, lost>>

\* An audio-only recording has neither task nor listener.
SpawnTask(p) ==
  /\ StartAt(p, "released")
  /\ \/ /\ task' = start[p].session
        /\ workers' = [workers EXCEPT ![start[p].session] = "on"]
        /\ StartGoes(p, "spawned")
     \/ /\ start' = [start EXCEPT ![p] = NotStarting]
        /\ UNCHANGED <<task, workers>>
  /\ UNCHANGED <<globalVars, listeners, listener, capture, emitted, transcriptVars, made, stop, lost>>

Listen(p) ==
  /\ StartAt(p, "spawned")
  /\ listeners' = listeners \cup {start[p].session}
  /\ listener' = start[p].session
  /\ start' = [start EXCEPT ![p] = NotStarting]
  /\ UNCHANGED <<globalVars, task, sessionVars, transcriptVars, made, stop, lost>>

\* The statements from the stored manager to the listener do not wait for
\* anything: unless Overtaken, they end before audio has been recognised and
\* before Stop has closed the streams.
Publishing == \E p \in Starter : start[p].pc \notin {"idle", "claimed", "opening"}
StartIsDone == Overtaken \/ ~Publishing

-----------------------------------------------------------------------------
(* The worker of a session and the listener.                                 *)

\* What finds no manager waits for one; mutant: it is dropped.
Dropped(x) == pendingSegments
Kept(x) == pendingSegments \cup {x}

\* persist_transcript_update, in the thread that emits, for each listener.
Persist(s, x) ==
  \/ /\ listeners = {}
     /\ UNCHANGED <<pendingSegments, memory>>
  \/ /\ listeners # {} /\ manager # None
     /\ memory' = [memory EXCEPT ![manager] = @ \cup Own(manager, {x})]
     /\ UNCHANGED pendingSegments
  \/ /\ listeners # {} /\ manager = None
     /\ pendingSegments' = Kept(x)
     /\ UNCHANGED memory

\* An aborted worker can still be between its answer and the event.
Emit(s) ==
  /\ StartIsDone
  /\ workers[s] \in {"on", "aborted"} /\ emitted[s] < E
  /\ emitted' = [emitted EXCEPT ![s] = @ + 1]
  /\ Persist(s, <<s, emitted[s] + 1>>)
  /\ workers' = [workers EXCEPT ![s] = IF @ = "aborted" THEN "gone" ELSE @]
  /\ UNCHANGED <<globalVars, taskVars, capture, saved, made, start, stop, lost>>

\* The queue closes with the capture and is drained; an aborted task ends.
WorkerEnds(s) ==
  /\ \/ workers[s] = "on" /\ s \notin capture
     \/ workers[s] = "aborted"
  /\ workers' = [workers EXCEPT ![s] = "gone"]
  /\ UNCHANGED <<globalVars, taskVars, capture, emitted, transcriptVars, made, start, stop, lost>>

\* A fatal device error ends the capture; the recording is still to be stopped.
CaptureFails(s) ==
  /\ s \in capture
  /\ capture' = capture \ {s}
  /\ UNCHANGED <<globalVars, taskVars, workers, emitted, transcriptVars, made, start, stop, lost>>

-----------------------------------------------------------------------------
(* Stop.                                                                     *)

BeginStop ==
  /\ StopAt("idle") /\ recording
  /\ live' = None
  /\ StopGoes("marked")
  /\ UNCHANGED <<recording, permit, manager, taskVars, sessionVars, transcriptVars, made, start, lost>>

TakeManager(from, to) ==
  /\ StopAt(from)
  /\ manager' = None
  /\ stop' = [stop EXCEPT !.pc = to, !.manager = manager]
  /\ UNCHANGED <<recording, permit, live, taskVars, sessionVars, transcriptVars, made, start, lost>>

Flush ==
  /\ StopAt("taken") /\ StartIsDone
  /\ capture' = capture \ {stop.manager}
  /\ StopGoes("flushed")
  /\ UNCHANGED <<globalVars, taskVars, workers, emitted, transcriptVars, made, start, lost>>

\* The manager goes back so that the drain still reaches its saver.
PutBack ==
  /\ StopAt("flushed")
  /\ IF stop.manager = None THEN UNCHANGED <<manager, transcriptVars>>
                            ELSE StoreManager(stop.manager)
  /\ stop' = [stop EXCEPT !.pc = "restored", !.manager = None]
  /\ UNCHANGED <<recording, permit, live, taskVars, sessionVars, made, start, lost>>

TakeTask ==
  /\ StopAt("restored")
  /\ task' = None
  /\ stop' = [stop EXCEPT !.pc = IF task = None THEN "drained" ELSE "draining", !.task = task]
  /\ UNCHANGED <<globalVars, listeners, listener, sessionVars, transcriptVars, made, start, lost>>

Drained ==
  /\ StopAt("draining") /\ workers[stop.task] = "gone"
  /\ stop' = [stop EXCEPT !.pc = "drained", !.task = None]
  /\ UNCHANGED <<globalVars, taskVars, sessionVars, transcriptVars, made, start, lost>>

\* The drain deadline and the grace after the cancellation have passed.
AbortTask ==
  /\ StopAt("draining") /\ workers[stop.task] = "on"
  /\ workers' = [workers EXCEPT ![stop.task] = "aborted"]
  /\ lost' = lost \cup {stop.task}
  /\ stop' = [stop EXCEPT !.pc = "drained", !.task = None]
  /\ UNCHANGED <<globalVars, taskVars, capture, emitted, transcriptVars, made, start>>

\* mutant: the listener is only forgotten
Forgotten == listeners
StillListening == listeners \ {listener}

Unlisten ==
  /\ StopAt("drained")
  /\ listeners' = StillListening /\ listener' = None
  /\ StopGoes("unlistened")
  /\ UNCHANGED <<globalVars, task, sessionVars, transcriptVars, made, start, lost>>

\* save_recording_only and the outcome; the manager is dropped with it. Writes
\* that fail are the subject of TranscriptSnapshot and CaptureSpool.
Save ==
  /\ StopAt("retaken")
  /\ saved' = IF stop.manager = None THEN saved
              ELSE [saved EXCEPT ![stop.manager] = memory[stop.manager]]
  /\ stop' = [stop EXCEPT !.pc = "saved", !.manager = None]
  /\ UNCHANGED <<globalVars, taskVars, sessionVars, pendingSegments, memory, made, start, lost>>

LowerFlag ==
  /\ StopAt("saved")
  /\ recording' = FALSE
  /\ StopGoes("unflagged")
  /\ UNCHANGED <<permit, manager, live, taskVars, sessionVars, transcriptVars, made, start, lost>>

\* mutant: the slot keeps the permit
PermitKept == permit
PermitTaken == IF permit = "slot" THEN "free" ELSE permit

ReleaseJob ==
  /\ StopAt("unflagged")
  /\ permit' = PermitTaken
  /\ stop' = NotStopping
  /\ UNCHANGED <<recording, manager, live, taskVars, sessionVars, transcriptVars, made, start, lost>>

-----------------------------------------------------------------------------
\* An import, a retranscription, an edit or a local summary has the permit.
Batch ==
  /\ \/ permit = "free" /\ permit' = "batch"
     \/ permit = "batch" /\ permit' = "free"
  /\ UNCHANGED <<recording, manager, live, taskVars, sessionVars, transcriptVars, made, start, stop, lost>>

StartProgress(p) == \/ RefuseStart(p) \/ Prepare(p) \/ OpenStreams(p) \/ OpenFails(p)
                    \/ ClearWaiting(p) \/ Store(p) \/ RaiseFlag(p) \/ KeepPermit(p)
                    \/ SpawnTask(p) \/ Listen(p)
StopProgress == \/ TakeManager("marked", "taken") \/ Flush \/ PutBack
                \/ TakeTask \/ Drained \/ AbortTask \/ Unlisten
                \/ TakeManager("unlistened", "retaken") \/ Save \/ LowerFlag \/ ReleaseJob

LifecycleNext ==
  \/ \E p \in Starter : Claim(p) \/ StartProgress(p)
  \/ \E s \in Session : Emit(s) \/ WorkerEnds(s) \/ CaptureFails(s)
  \/ BeginStop \/ StopProgress
  \/ Batch

LifecycleSpec == LifecycleInit /\ [][LifecycleNext]_lifecycleVars

-----------------------------------------------------------------------------
(* A transcript never gets a segment of another recording: not from a worker *)
(* that outlives its abort, and not from what waited while Stop had the      *)
(* manager.                                                                  *)
NoMixing == \A s \in Session : \A x \in memory[s] \cup saved[s] : x[1] = s

(* Everything the worker of a stopped recording emitted is in its final      *)
(* transcript, however Stop moves the manager around, unless the worker had  *)
(* to be aborted (and transcription_incomplete says so).                     *)
AtRest == stop.pc = "idle" /\ \A p \in Starter : start[p].pc = "idle"
NothingEmittedLost ==
  AtRest /\ ~recording
    => \A s \in Session \ lost : saved[s] = {s} \X (1 .. emitted[s])

(* When nothing is being recorded, started or stopped, nothing is left of    *)
(* the last recording: no open microphone, no listener, no live session, no  *)
(* permit that keeps the next one out, no manager and no task.               *)
CleanRest ==
  AtRest /\ ~recording
    => /\ capture = {} /\ listeners = {} /\ live = None
       /\ manager = None /\ task = None
       /\ permit \in {"free", "batch"}
=============================================================================
