---------------------------- MODULE MeetingText -----------------------------
(***************************************************************************)
(* The saved transcript of one meeting after the recording: corrections    *)
(* and their undo, retranscription, speaker detection, the return to the   *)
(* previous transcript, and the copy of the rows in the meeting folder.    *)
(* Each writes the rows in one transaction and the folder outside of it;   *)
(* the process can die in between. A text is a number: the segments with   *)
(* their words. Rows that differ in a segment are different texts.         *)
(***************************************************************************)
EXTENDS Integers, SequencesExt

CONSTANTS
  MaxTexts,      \* bound: texts recognised or typed after the first
  MaxRevisions,  \* bound: transcripts that are put away
  MaxFaults      \* bound: failed writes and process deaths

ASSUME TextConstants == {MaxTexts, MaxRevisions, MaxFaults} \subseteq Nat

VARIABLES
  rows,        \* transcripts: text, original_transcript, a speaker was named
  archive,     \* transcript_revisions, oldest first
  batches,     \* transcript_edit_batches that are not undone, oldest first
  marker,      \* transcript_file_sync has the meeting
  incomplete,  \* recording_files_incomplete of its outcome
  file,        \* the text in transcripts.json of the folder
  process,     \* its row of summary_processes
  command,     \* who has the permit of JOBS
  naming,      \* a speaker is being renamed: assert_editable was passed
  used,        \* bound: what has been spent
  history      \* history: see HistoryInit

textVars == <<rows, archive, batches, marker, incomplete, file, process, command, naming, used, history>>
rowVars == <<rows, archive, batches>>

NoText == -1
Texts == 0 .. MaxTexts
Rows == [text : Texts, original : Texts \cup {NoText}, named : BOOLEAN]
Batch == [before : Texts, after : Texts, original : Texts \cup {NoText}]
Process == [status : {"none", "pending", "completed", "failed", "cancelled"},
            result : Nat, previous : Nat, backup : Nat]

FirstRows == [text |-> 0, original |-> NoText, named |-> FALSE]
Free == [kind |-> "none", read |-> FirstRows, saved |-> FALSE, guard |-> FALSE]
Commands == {"none", "sync", "clear", "listen", "commit", "detect", "summary"}

TextTypeOK ==
  /\ rows \in Rows /\ archive \in Seq(Rows) /\ batches \in Seq(Batch)
  /\ marker \in BOOLEAN /\ incomplete \in BOOLEAN /\ file \in Texts
  /\ process \in Process
  /\ command \in [kind : Commands, read : Rows, saved : BOOLEAN, guard : BOOLEAN]
  /\ naming \in BOOLEAN
  /\ used \in [texts : Texts, faults : 0 .. MaxFaults]

\* owed: texts the user has not given up; torn: the folder was rewritten for
\* rows that never were; resegmented: speaker detection has cut segments in
\* two since the last correction; overlooked: it has replaced a name it never saw.
HistoryInit == [owed |-> {0}, torn |-> FALSE, resegmented |-> FALSE, overlooked |-> FALSE]

NoProcess == [status |-> "none", result |-> 0, previous |-> 0, backup |-> 0]

TextInit ==
  /\ rows = FirstRows /\ archive = <<>> /\ batches = <<>>
  /\ marker = FALSE /\ incomplete \in BOOLEAN /\ file = 0
  /\ process = NoProcess
  /\ command = Free /\ naming = FALSE
  /\ used = [texts |-> 0, faults |-> 0]
  /\ history = HistoryInit

Fault == /\ used.faults < MaxFaults
         /\ used' = [used EXCEPT !.faults = @ + 1]
Fresh == used.texts + 1
NewText == /\ used.texts < MaxTexts
           /\ used' = [used EXCEPT !.texts = Fresh]

Room == Len(archive) < MaxRevisions

Holding(kind) == [Free EXCEPT !.kind = kind]
Unclaimed == command.kind = "none"

\* assert_editable; is_diarizing_meeting needs no database. A transaction of
\* SQLite that reads and then writes fails when another wrote in between.
Summarizing == process.status = "pending"
Editable == ~command.guard /\ ~Summarizing

-----------------------------------------------------------------------------
(* Corrections: claim JOBS, one transaction, then sync_file.                 *)

Unmarked == marker                     \* mutant: the folder is left to the copy that follows
Marked == TRUE

Correct ==
  /\ Unclaimed /\ Editable
  /\ NewText
  /\ LET typed == rows.original \notin {NoText, rows.text} IN
     /\ rows' = [rows EXCEPT !.text = Fresh,
                             !.original = IF @ = NoText THEN rows.text ELSE @]
     /\ history' = [history EXCEPT !.owed = (@ \ (IF typed THEN {rows.text} ELSE {})) \cup {Fresh}]
  /\ batches' = Append(batches, [before |-> rows.text, after |-> Fresh, original |-> rows.original])
  /\ marker' = Marked
  /\ command' = Holding("sync")
  /\ UNCHANGED <<archive, incomplete, file, process, naming>>

\* Refused when the rows are not what the correction made of them.
Undo ==
  /\ Unclaimed /\ Editable
  /\ batches # <<>>
  /\ LET b == Last(batches) IN
     /\ rows.text = b.after
     /\ rows' = [rows EXCEPT !.text = b.before, !.original = b.original]
     /\ history' = [history EXCEPT !.owed = (@ \ {b.after}) \cup {b.before}]
  /\ batches' = Front(batches)
  /\ marker' = Marked
  /\ command' = Holding("sync")
  /\ UNCHANGED <<archive, incomplete, file, process, naming, used>>

KeptBatches == batches                 \* mutant: corrections of other rows stay on offer
Retired == <<>>

\* The present rows go to the archive, the newest revision comes back.
Restore ==
  /\ Unclaimed /\ Editable
  /\ archive # <<>> /\ Room
  /\ archive' = Append(archive, rows)
  /\ rows' = Last(archive)
  /\ batches' = Retired
  /\ marker' = Marked
  /\ command' = Holding("sync")
  /\ history' = [history EXCEPT !.resegmented = FALSE]
  /\ UNCHANGED <<incomplete, file, process, naming, used>>

\* api_sync_transcript_file
SyncAgain ==
  /\ Unclaimed
  /\ command' = Holding("sync")
  /\ UNCHANGED <<rowVars, marker, incomplete, file, process, naming, used, history>>

WriteFile ==
  /\ command.kind = "sync"
  /\ file' = rows.text
  /\ history' = [history EXCEPT !.torn = FALSE]
  /\ command' = [command EXCEPT !.kind = "clear"]
  /\ UNCHANGED <<rowVars, marker, incomplete, process, naming, used>>

ClearMarker ==
  /\ command.kind = "clear"
  /\ marker' = FALSE
  /\ command' = Free
  /\ UNCHANGED <<rowVars, incomplete, file, process, naming, used, history>>

\* The folder cannot be written, or the marker not deleted: a warning.
SyncFails ==
  /\ command.kind \in {"sync", "clear"}
  /\ Fault
  /\ command' = Free
  /\ UNCHANGED <<rowVars, marker, incomplete, file, process, naming, history>>

-----------------------------------------------------------------------------
(* Retranscription: the folder is written before the rows are committed.     *)

Listen ==
  /\ Unclaimed
  /\ command' = Holding("listen")
  /\ UNCHANGED <<rowVars, marker, incomplete, file, process, naming, used, history>>

\* Cancelled, no text, or an error before anything is written.
ListenFails ==
  /\ command.kind = "listen"
  /\ command' = Free
  /\ UNCHANGED <<rowVars, marker, incomplete, file, process, naming, used, history>>

RewriteFolder ==
  /\ command.kind = "listen"
  /\ NewText
  /\ command' = [Holding("commit") EXCEPT !.saved = TRUE]
  /\ file' = Fresh
  /\ history' = [history EXCEPT !.torn = TRUE]
  /\ UNCHANGED <<rowVars, marker, incomplete, process, naming>>

FolderFails ==
  /\ command.kind = "listen"
  /\ used.texts < MaxTexts /\ used.faults < MaxFaults
  /\ used' = [used EXCEPT !.texts = Fresh, !.faults = @ + 1]
  /\ command' = Holding("commit")
  /\ UNCHANGED <<rowVars, marker, incomplete, file, process, naming, history>>

Forgotten(r) == archive                \* mutant: the old rows are not archived
Archived(r) == Append(archive, r)

CommitRetranscription ==
  /\ command.kind = "commit" /\ Room
  /\ archive' = Archived(rows)
  /\ rows' = [text |-> used.texts, original |-> NoText, named |-> FALSE]
  /\ batches' = Retired
  /\ incomplete' = ~command.saved
  /\ command' = Free
  /\ history' = [history EXCEPT !.owed = @ \cup {used.texts}, !.torn = FALSE, !.resegmented = FALSE]
  /\ UNCHANGED <<marker, file, process, naming, used>>

CommitFails ==
  /\ command.kind = "commit"
  /\ Fault
  /\ command' = Free
  /\ UNCHANGED <<rowVars, marker, incomplete, file, process, naming, history>>

-----------------------------------------------------------------------------
(* Speaker detection.                                                        *)

Detect ==
  /\ Unclaimed
  /\ command' = [Holding("detect") EXCEPT !.read = rows, !.guard = TRUE]
  /\ UNCHANGED <<rowVars, marker, incomplete, file, process, naming, used, history>>

DetectFails ==
  /\ command.kind = "detect"
  /\ command' = Free
  /\ UNCHANGED <<rowVars, marker, incomplete, file, process, naming, used, history>>

AsRead == command.kind = "detect"      \* mutant: the rows are not compared again
SameRows == rows = command.read

\* Segments keep their identity, or are cut where the speaker changes.
SaveLabels(cut) ==
  /\ command.kind = "detect" /\ SameRows /\ Room
  /\ archive' = Archived(rows)
  /\ IF cut THEN NewText /\ rows' = [text |-> Fresh, original |-> NoText, named |-> FALSE]
            ELSE rows' = [rows EXCEPT !.named = FALSE] /\ UNCHANGED used
  /\ history' = [history EXCEPT !.owed = IF cut THEN @ \cup {Fresh} ELSE @,
                                !.resegmented = @ \/ cut,
                                !.overlooked = @ \/ (rows.named /\ ~command.read.named)]
  /\ marker' = Marked
  /\ command' = [Holding("sync") EXCEPT !.guard = TRUE]
  /\ UNCHANGED <<batches, incomplete, file, process, naming>>

SameLabels ==
  /\ command.kind = "detect" /\ SameRows
  /\ marker' = Marked
  /\ command' = [Holding("sync") EXCEPT !.guard = TRUE]
  /\ UNCHANGED <<rowVars, incomplete, file, process, naming, used, history>>

-----------------------------------------------------------------------------
(* update_transcript_speakers_matching: no permit. Between the two halves of *)
(* assert_editable a command can begin; a retranscription that commits has   *)
(* the database.                                                             *)

AskName ==
  /\ ~naming /\ ~rows.named /\ ~command.guard
  /\ naming' = TRUE
  /\ UNCHANGED <<rowVars, marker, incomplete, file, process, command, used, history>>

Name ==
  /\ naming /\ ~Summarizing /\ command.kind # "commit"
  /\ rows' = [rows EXCEPT !.named = TRUE]
  /\ naming' = FALSE
  /\ UNCHANGED <<archive, batches, marker, incomplete, file, process, command, used, history>>

NameRefused ==
  /\ naming /\ Summarizing
  /\ naming' = FALSE
  /\ UNCHANGED <<rowVars, marker, incomplete, file, process, command, used, history>>

-----------------------------------------------------------------------------
\* The permit, the commands and an open transaction go with the process;
\* start-up fails the summaries that were interrupted.
TextRestart ==
  /\ Fault
  /\ command' = Free /\ naming' = FALSE
  /\ process' = IF process.status = "pending"
                THEN [process EXCEPT !.status = "failed", !.backup = 0,
                                     !.result = IF process.backup # 0 THEN process.backup ELSE @]
                ELSE process
  /\ UNCHANGED <<rowVars, marker, incomplete, file, history>>

Rewrites == \/ Correct \/ Undo \/ Restore \/ CommitRetranscription \/ Name
            \/ \E cut \in BOOLEAN : SaveLabels(cut)
Syncs == WriteFile \/ ClearMarker \/ SyncFails
Others == \/ Syncs \/ SyncAgain \/ Listen \/ ListenFails
          \/ RewriteFolder \/ FolderFails \/ CommitFails
          \/ Detect \/ DetectFails \/ SameLabels \/ AskName \/ NameRefused

-----------------------------------------------------------------------------
(* Properties.                                                               *)

ArchivedRows == {archive[i] : i \in DOMAIN archive}
Recoverable == UNION {{r.text, r.original} : r \in {rows} \cup ArchivedRows}

\* No text that was recognised, and none that the user typed and did not undo
\* or type over, disappears: it is in the rows or in a revision that can be
\* brought back. The newest correction on offer for undoing fits the rows
\* unless speaker detection has cut the segments anew, and detection replaces
\* no name that was given after it had read the rows (undo, restore_previous,
\* save_retranscription_transcripts, save_diarization_labels).
TextRecoverable ==
  /\ history.owed \subseteq Recoverable
  /\ batches # <<>> /\ ~history.resegmented => rows.text = Last(batches).after
  /\ ~history.overlooked

\* When no command is at work, transcripts.json has the text of the rows, or
\* the meeting is marked for another copy, or its outcome admits incomplete
\* files - but for a retranscription that wrote the folder and never committed.
MirrorKnown ==
  Unclaimed /\ ~history.torn => file = rows.text \/ marker \/ incomplete
=============================================================================
