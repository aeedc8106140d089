--------------------------- MODULE MeetingSummary ---------------------------
(***************************************************************************)
(* The summary of the meeting of MeetingText: one generation at a time, by *)
(* the local helper (which needs the permit of JOBS for each of its calls) *)
(* or by a provider elsewhere, the edits of the user, and the return to    *)
(* the previous summary. The row of summary_processes outlives the process *)
(* and the registry of jobs does not.                                      *)
(***************************************************************************)
EXTENDS MeetingText

CONSTANT MaxNotes   \* bound: summaries written or generated

ASSUME NotesConstant == MaxNotes \in Nat

VARIABLES
  generation,  \* the job in CANCELLATION_REGISTRY and how far its task is
  written,     \* bound: summaries so far; 0 is none
  promised     \* history: the summary the user had, and whether a status was lost

summaryVars == <<generation, written, promised>>
libraryVars == <<textVars, summaryVars>>

NoGeneration == [pc |-> "none", builtin |-> FALSE, cancelled |-> FALSE, of |-> NoText, moved |-> FALSE]
Generation == [pc : {"none", "accepted", "pending", "asked", "calling", "answered", "failed"},
               builtin : BOOLEAN, cancelled : BOOLEAN, of : Texts \cup {NoText}, moved : BOOLEAN]

SummaryTypeOK ==
  /\ TextTypeOK
  /\ generation \in Generation
  /\ written \in 0 .. MaxNotes
  /\ {process.result, process.previous, process.backup} \subseteq 0 .. written
  /\ promised \in [notes : 0 .. written, stranded : BOOLEAN]

SummaryInit ==
  /\ TextInit
  /\ generation = NoGeneration
  /\ written = 0
  /\ promised = [notes |-> 0, stranded |-> FALSE]

Busy == process.status = "pending"

\* What a failed or cancelled generation leaves: COALESCE(result_backup, result).
Ended(status) == [process EXCEPT !.status = status, !.backup = 0,
                                 !.result = IF process.backup # 0 THEN process.backup ELSE @]

-----------------------------------------------------------------------------
(* api_process_transcript.                                                   *)

Register(local) ==
  /\ generation.pc = "none"
  /\ written < MaxNotes
  /\ generation' = [NoGeneration EXCEPT !.pc = "accepted", !.builtin = local]
  /\ UNCHANGED <<textVars, written, promised>>

CreateOrReset ==
  /\ generation.pc = "accepted"
  /\ process' = [process EXCEPT !.status = "pending", !.backup = process.result]
  /\ generation' = [generation EXCEPT !.pc = "pending"]
  /\ promised' = [promised EXCEPT !.notes = IF process.result # 0 THEN process.result ELSE @,
                                  !.stranded = FALSE]
  /\ UNCHANGED <<rowVars, marker, incomplete, file, command, naming, used, history, written>>

ResetFails ==
  /\ generation.pc = "accepted"
  /\ Fault
  /\ generation' = NoGeneration
  /\ UNCHANGED <<rowVars, marker, incomplete, file, process, command, naming, history, written, promised>>

\* save_transcript_data fails: the command ends and the row stays PENDING.
ChunksFail ==
  /\ generation.pc = "pending"
  /\ Fault
  /\ generation' = NoGeneration
  /\ promised' = [promised EXCEPT !.stranded = TRUE]
  /\ UNCHANGED <<rowVars, marker, incomplete, file, process, command, naming, history, written>>

-----------------------------------------------------------------------------
(* process_transcript_background.                                            *)

\* sources::prepare reads the rows.
Prepare ==
  /\ generation.pc = "pending"
  /\ generation' = [generation EXCEPT !.pc = "asked", !.of = rows.text]
  /\ UNCHANGED <<textVars, written, promised>>

\* Configuration, template, key or output folder is missing.
Refuse ==
  /\ generation.pc \in {"pending", "asked"}
  /\ generation' = [generation EXCEPT !.pc = "failed"]
  /\ UNCHANGED <<textVars, written, promised>>

\* generate_with_builtin claims JOBS for one call, and fails when it is taken.
CallHelper ==
  /\ generation.pc = "asked" /\ generation.builtin
  /\ IF Unclaimed /\ ~generation.cancelled
     THEN /\ command' = Holding("summary")
          /\ generation' = [generation EXCEPT !.pc = "calling"]
     ELSE /\ generation' = [generation EXCEPT !.pc = "failed"]
          /\ UNCHANGED command
  /\ UNCHANGED <<rowVars, marker, incomplete, file, process, naming, used, history, written, promised>>

\* The call is over; a long transcript needs another one.
HelperReturns(pc) ==
  /\ generation.pc = "calling"
  /\ generation' = [generation EXCEPT !.pc = IF generation.cancelled THEN "failed" ELSE pc]
  /\ command' = Free
  /\ UNCHANGED <<rowVars, marker, incomplete, file, process, naming, used, history, written, promised>>

\* A provider elsewhere may answer although the generation was cancelled.
ProviderAnswers(pc) ==
  /\ generation.pc = "asked" /\ ~generation.builtin
  /\ generation' = [generation EXCEPT !.pc = pc]
  /\ UNCHANGED <<textVars, written, promised>>

\* update_process_completed
SaveNotes ==
  /\ generation.pc = "answered"
  /\ written < MaxNotes
  /\ process' = [status |-> "completed", result |-> written + 1, backup |-> 0,
                 previous |-> IF process.result # 0 THEN process.result ELSE process.previous]
  /\ written' = written + 1
  /\ generation' = NoGeneration
  /\ UNCHANGED <<rowVars, marker, incomplete, file, command, naming, used, history, promised>>

\* Three attempts failed, and a fourth write says so.
SaveFails ==
  /\ generation.pc = "answered"
  /\ Fault
  /\ process' = Ended("failed")
  /\ generation' = NoGeneration
  /\ UNCHANGED <<rowVars, marker, incomplete, file, command, naming, history, written, promised>>

Silent == UNCHANGED process            \* mutant: the job ends without a status
Reported == process' = Ended(IF generation.cancelled THEN "cancelled" ELSE "failed")

\* finish_provider_error, update_process_failed
Finish ==
  /\ generation.pc = "failed"
  /\ Reported
  /\ generation' = NoGeneration
  /\ UNCHANGED <<rowVars, marker, incomplete, file, command, naming, used, history, written, promised>>

\* Not even the status can be written.
StatusLost ==
  /\ generation.pc \in {"answered", "failed"}
  /\ Fault
  /\ generation' = NoGeneration
  /\ promised' = [promised EXCEPT !.stranded = TRUE]
  /\ UNCHANGED <<rowVars, marker, incomplete, file, process, command, naming, history, written>>

-----------------------------------------------------------------------------
(* The user.                                                                 *)

\* api_cancel_summary, or cancel_local_summaries for a job that wants the
\* permit of JOBS: only the token is turned; the job writes the status.
CancelSummary ==
  /\ generation.pc # "none" /\ ~generation.cancelled
  /\ generation' = [generation EXCEPT !.cancelled = TRUE]
  /\ UNCHANGED <<textVars, written, promised>>

AnyTime == process.status # "none"     \* mutant: an edit is taken while a summary is generated
Writable == process.status # "none" /\ ~Busy

\* update_meeting_summary; without a row it changes nothing.
EditNotes ==
  /\ Writable
  /\ written < MaxNotes
  /\ process' = [process EXCEPT !.result = written + 1]
  /\ written' = written + 1
  /\ promised' = [promised EXCEPT !.notes = written + 1]
  /\ UNCHANGED <<rowVars, marker, incomplete, file, command, naming, used, history, generation>>

RestoreNotes ==
  /\ Writable /\ process.previous # 0
  /\ process' = [process EXCEPT !.status = "completed", !.result = process.previous,
                                !.previous = process.result]
  /\ promised' = [promised EXCEPT !.notes = process.previous]
  /\ UNCHANGED <<rowVars, marker, incomplete, file, command, naming, used, history, generation, written>>

-----------------------------------------------------------------------------
(* Together with the transcript.                                             *)

Seen(moved) == generation' = IF generation.of = NoText THEN generation
                             ELSE [generation EXCEPT !.moved = @ \/ moved]

\* Only a transcript that is replaced as a whole may change under a summary.
Replaces == CommitRetranscription \/ \E cut \in BOOLEAN : SaveLabels(cut)
Corrects == Correct \/ Undo \/ Restore \/ Name

SummaryStep ==
  \/ \E local \in BOOLEAN : Register(local)
  \/ CreateOrReset \/ ResetFails \/ ChunksFail \/ Prepare \/ Refuse \/ CallHelper
  \/ \E pc \in {"asked", "answered", "failed"} : HelperReturns(pc)
  \/ \E pc \in {"answered", "failed"} : ProviderAnswers(pc)
  \/ SaveNotes \/ SaveFails \/ Finish \/ StatusLost
  \/ CancelSummary \/ EditNotes \/ RestoreNotes

SummaryRestart ==
  /\ TextRestart
  /\ generation' = NoGeneration
  /\ promised' = [promised EXCEPT !.stranded = FALSE]
  /\ UNCHANGED written

-----------------------------------------------------------------------------
(* Properties.                                                               *)

\* What the user had when a generation began, or wrote or brought back since,
\* is the summary shown or the previous one, whether the generation is
\* completed, fails, is cancelled or is interrupted by the end of the process
\* (create_or_reset_process, update_process_*, fail_interrupted_processes).
NotesKept ==
  promised.notes # 0 => promised.notes \in {process.result, process.previous}

\* A row is pending exactly while a generation is at work on it, so that
\* corrections are not held up for nothing and nobody else ends its status -
\* unless the database refused a write. While it is at work the transcript
\* stays as it read it, but for a replacement of the whole.
GenerationAlone ==
  /\ Busy => generation.pc \notin {"none", "accepted"} \/ promised.stranded
  /\ generation.pc \notin {"none", "accepted"} => Busy
  /\ generation.of # NoText /\ ~generation.moved => generation.of = rows.text
=============================================================================
