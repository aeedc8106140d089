--------------------------- MODULE MeetingLibrary ---------------------------
(***************************************************************************)
(* The saved meetings: the transcript and summary of one of them with the  *)
(* index that follows its transcript, the documents of all of them with    *)
(* the archive, and the exports of one. Every transaction that writes the  *)
(* transcript fires the triggers of the index with it, whatever the worker *)
(* is doing.                                                               *)
(***************************************************************************)
EXTENDS MeetingSummary, KnowledgeIndex, LibraryArchive, MeetingExports

CONSTANT Brief   \* bound: the selections that are exported while the account changes

ASSUME BriefAssumption == Brief \subseteq Selections

VARIABLE uses   \* bound: see MeetingNext

meetingVars == <<libraryVars, indexVars, archiveVars, sharingVars, uses>>

MeetingInit ==
  /\ SummaryInit /\ IndexInit /\ ArchiveInit /\ ExportInit
  /\ uses \in {"summaries", "index", "documents", "exports", "accounts"}
  /\ (uses # "index" => ~indexOn /\ ~held) /\ (uses # "summaries" => ~incomplete)
  /\ (uses # "accounts" => keychain # 0)

MeetingRestart ==
  /\ uses \in {"summaries", "index"} /\ UNCHANGED <<archiveVars, sharingVars>>
  /\ SummaryRestart /\ IndexRestart /\ (uses # "index" => ~indexOn' /\ ~held')

\* Bound: a behaviour uses the summaries, the index, the documents, or the
\* exports with the account as it is or with its changes. The first two have
\* only the rows in common, and since it is the same to the index what rewrote
\* them, corrections alone rewrite them in a behaviour that uses it; the others
\* have nothing in common with anything.
MeetingNext ==
  /\ UNCHANGED uses
  /\ \/ /\ uses \in {"summaries", "index"} /\ UNCHANGED <<archiveVars, sharingVars>>
        /\ \/ Corrects /\ Seen(FALSE) /\ Revised /\ UNCHANGED <<written, promised>>
           \/ Syncs /\ UNCHANGED <<summaryVars, indexVars>>
     \/ MeetingRestart
     \/ /\ uses = "summaries" /\ UNCHANGED <<archiveVars, sharingVars>>
        /\ \/ Replaces /\ Seen(TRUE) /\ Revised /\ UNCHANGED <<written, promised>>
           \/ Others /\ UNCHANGED <<summaryVars, indexVars>>
           \/ SummaryStep /\ UNCHANGED indexVars
     \/ /\ uses = "index" /\ UNCHANGED <<archiveVars, sharingVars>>
        /\ IndexStep /\ UNCHANGED libraryVars
     \/ /\ uses = "documents" /\ UNCHANGED <<libraryVars, indexVars, sharingVars>>
        /\ ArchiveNext
     \/ /\ uses = "exports" /\ UNCHANGED <<libraryVars, indexVars, archiveVars>>
        /\ ExportStep \/ ExportRestart
     \/ /\ uses = "accounts" /\ UNCHANGED <<libraryVars, indexVars, archiveVars>>
        /\ ExportNext
        /\ \A e \in Exports : export'[e].group \in Brief \cup {{}}

MeetingSpec == MeetingInit /\ [][MeetingNext]_meetingVars /\ IndexFair
=============================================================================
