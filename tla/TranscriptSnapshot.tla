------------------------- MODULE TranscriptSnapshot -------------------------
(***************************************************************************)
(* The recovery snapshot of a live transcript (RecordingSaver). Updates are*)
(* applied to the segments in memory by the transcript listener; the file  *)
(* transcripts.json is rewritten as a whole by the listener itself when it *)
(* is due, by a timer that looks at a dirty flag every 15 s, and once more *)
(* when the recording is finalized. The three writers share a lock; the    *)
(* flag, the segments and the file are touched in separate steps.          *)
(*                                                                         *)
(* Only listener threads change the segments, one at a time (they hold the *)
(* manager's lock), so the content of memory or of a file is the number of *)
(* updates applied to it.                                                  *)
(***************************************************************************)
EXTENDS Integers

CONSTANTS
  MaxUpdates,  \* bound: updates of one recording
  FlushAfter,  \* TRANSCRIPT_SNAPSHOT_MAX_UPDATES (32 in the code)
  MaxFaults    \* bound: writes of the file that fail

ASSUME SnapshotAssumption ==
  /\ MaxUpdates \in Nat /\ FlushAfter \in Nat \ {0} /\ MaxFaults \in Nat

Writer == {"listener", "timer", "final"}

VARIABLES
  applied,     \* updates in transcript_segments
  onDisk,      \* updates in transcripts.json
  dirty,       \* snapshot_dirty
  at,          \* where each writer is
  copy,        \* the clone a writer is about to write
  pending,     \* transcript_updates_since_flush
  written,     \* transcript_snapshot_written
  phase,       \* "on", "ended" (finalize_files runs or has run), "crashed"
  faults

fileVars == <<applied, onDisk>>
countVars == <<pending, written>>
snapshotVars == <<fileVars, dirty, at, copy, countVars, phase, faults>>

Step == {"idle", "pushed", "flagged", "want", "locked", "cloned", "saved", "failed"}

SnapshotTypeOK ==
  /\ applied \in 0 .. MaxUpdates /\ onDisk \in 0 .. MaxUpdates
  /\ dirty \in BOOLEAN /\ written \in BOOLEAN
  /\ at \in [Writer -> Step]
  /\ copy \in [Writer -> 0 .. MaxUpdates]
  /\ pending \in Nat /\ faults \in 0 .. MaxFaults
  /\ phase \in {"on", "ended", "crashed"}

SnapshotInit ==
  /\ applied = 0 /\ onDisk = 0 /\ dirty = FALSE
  /\ at = [w \in Writer |-> "idle"]
  /\ copy = [w \in Writer |-> 0]
  /\ pending = 0 /\ written = FALSE
  /\ phase = "on" /\ faults = 0

Alive == phase # "crashed"
Holds(w) == at[w] \in {"locked", "cloned"}
\* snapshot_write_lock; mutant: the writers do not share a lock
NoLock == TRUE
LockFree == \A w \in Writer : ~Holds(w)
GoTo(w, step) == at' = [at EXCEPT ![w] = step]

-----------------------------------------------------------------------------
(* add_transcript_segment, called by a listener that holds the manager.      *)

Push ==
  /\ phase = "on" /\ at["listener"] = "idle"
  /\ applied < MaxUpdates
  /\ applied' = applied + 1
  /\ GoTo("listener", "pushed")
  /\ UNCHANGED <<onDisk, dirty, copy, countVars, phase, faults>>

\* mutant: the listener relies on its own flush and leaves the flag alone
FlagUnset == dirty
FlagSet == TRUE

Flag ==
  /\ Alive /\ at["listener"] = "pushed"
  /\ dirty' = FlagSet
  /\ GoTo("listener", "flagged")
  /\ UNCHANGED <<fileVars, copy, countVars, phase, faults>>

\* transcript_snapshot_due
Due(updates, late) == ~written \/ updates >= FlushAfter \/ late

\* late: more than 15 s since the listener last wrote.
Count ==
  /\ Alive /\ at["listener"] = "flagged"
  /\ pending' = pending + 1
  /\ \E late \in BOOLEAN :
       GoTo("listener", IF Due(pending + 1, late) THEN "want" ELSE "idle")
  /\ UNCHANGED <<fileVars, dirty, copy, written, phase, faults>>

-----------------------------------------------------------------------------
(* The timer, and the end of the recording.                                  *)

\* The task looks at the flag and hands the work to a blocking thread.
Tick ==
  /\ phase = "on" /\ at["timer"] = "idle"
  /\ dirty
  /\ GoTo("timer", "want")
  /\ UNCHANGED <<fileVars, dirty, copy, countVars, phase, faults>>

\* Stop takes the manager, so no listener is at work; the timer task is
\* aborted, but a blocking thread it has started runs on.
EndCapture ==
  /\ phase = "on" /\ at["listener"] = "idle"
  /\ phase' = "ended"
  /\ GoTo("final", "want")
  /\ UNCHANGED <<fileVars, dirty, copy, countVars, faults>>

-----------------------------------------------------------------------------
(* write_transcripts_json and the blocking thread of the timer: take the     *)
(* lock, clear the flag, clone the segments, replace the file.               *)

Lock(w) ==
  /\ Alive /\ at[w] = "want"
  /\ LockFree
  /\ w = "timer" => dirty
  /\ dirty' = FALSE
  /\ GoTo(w, "locked")
  /\ UNCHANGED <<fileVars, copy, countVars, phase, faults>>

\* The swap tells the timer that another writer was there first.
NothingToDo ==
  /\ Alive /\ at["timer"] = "want"
  /\ LockFree
  /\ ~dirty
  /\ GoTo("timer", "idle")
  /\ UNCHANGED <<fileVars, dirty, copy, countVars, phase, faults>>

Segments == applied

Clone(w) ==
  /\ Alive /\ at[w] = "locked"
  /\ copy' = [copy EXCEPT ![w] = Segments]
  /\ GoTo(w, "cloned")
  /\ UNCHANGED <<fileVars, dirty, countVars, phase, faults>>

\* The staged file is synced and renamed over transcripts.json.
Replace(w) ==
  /\ Alive /\ at[w] = "cloned"
  /\ onDisk' = copy[w]
  /\ GoTo(w, IF w = "final" THEN "saved" ELSE "idle")
  /\ pending' = IF w = "listener" THEN 0 ELSE pending
  /\ written' = (written \/ w = "listener")
  /\ UNCHANGED <<applied, dirty, copy, phase, faults>>

\* mutant: the flag stays clear after a failed write
FlagAfterOldFailure == dirty
FlagAfterFailure == TRUE

ReplaceFails(w) ==
  /\ Alive /\ at[w] = "cloned"
  /\ faults < MaxFaults
  /\ faults' = faults + 1
  /\ dirty' = FlagAfterFailure
  /\ GoTo(w, IF w = "final" THEN "failed" ELSE "idle")
  /\ UNCHANGED <<fileVars, copy, countVars, phase>>

\* The process dies: memory is lost, the file stays what it is.
Crash ==
  /\ Alive
  /\ phase' = "crashed"
  /\ UNCHANGED <<fileVars, dirty, at, copy, countVars, faults>>

WriterStep(w) == Lock(w) \/ Clone(w) \/ Replace(w)
ListenerStep == Flag \/ Count \/ WriterStep("listener")
TimerStep == Tick \/ NothingToDo \/ WriterStep("timer")
FinalStep == WriterStep("final")

Stopped ==
  /\ phase = "crashed" \/ at["final"] \in {"saved", "failed"}
  /\ UNCHANGED snapshotVars

SnapshotNext ==
  \/ Push \/ ListenerStep \/ TimerStep \/ EndCapture \/ FinalStep
  \/ \E w \in Writer : ReplaceFails(w)
  \/ Crash
  \/ Stopped

SnapshotSpec == SnapshotInit /\ [][SnapshotNext]_snapshotVars

\* Threads run and the timer ticks; nothing makes people speak or press Stop.
SnapshotFair ==
  /\ WF_snapshotVars(ListenerStep) /\ WF_snapshotVars(TimerStep) /\ WF_snapshotVars(FinalStep)

-----------------------------------------------------------------------------
(* A clear flag means that the file has every update, as soon as no writer   *)
(* holds the lock and no listener is between the segment and the flag: the   *)
(* timer may skip its turn and nothing is forgotten. "Take the dirty flag    *)
(* before cloning. Updates arriving during I/O remain dirty."                *)
CleanIsSaved ==
  ~dirty /\ LockFree /\ at["listener"] # "pushed" => onDisk = applied

(* What a crash can cost: fewer updates than FlushAfter + 1, one more for    *)
(* each write that failed, however timer and listener interleave.            *)
LossBounded == applied - onDisk <= FlushAfter + faults

(* The transcript that the library imports after Stop is the one in memory,  *)
(* even if the aborted timer still has a thread with an older clone.         *)
FinalIsWhole == at["final"] = "saved" => onDisk = applied

(* A snapshot is never replaced by an older one, whichever writer is late.   *)
NeverBack == [][onDisk' >= onDisk]_snapshotVars

(* Every update reaches the disk without waiting for the next one, unless    *)
(* the app dies or the final write failed (recording_files_incomplete).      *)
EventuallySaved ==
  \A n \in 1 .. MaxUpdates :
    applied >= n ~> onDisk >= n \/ phase = "crashed" \/ at["final"] = "failed"
=============================================================================
