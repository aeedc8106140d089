--------------------------- MODULE LibraryArchive ---------------------------
(***************************************************************************)
(* Backup and restore of the library with its documents. A backup reads    *)
(* the rows in one transaction and the files after it; a restore adds the  *)
(* meetings that are missing, in one transaction that places the originals *)
(* first. Deletions need no permit and go on meanwhile.                    *)
(***************************************************************************)
EXTENDS ReferenceDocuments

VARIABLES
  zip,        \* the archive at the path the user chose
  archiving   \* the backup or restore under way

archiveVars == <<documentVars, zip, archiving>>

NoArchive == [made |-> FALSE, meetings |-> {}, folders |-> {}, attached |-> {},
              documents |-> [n \in Names |-> Nothing]]
NoWork == [pc |-> "idle", copy |-> NoArchive, staged |-> {}, chosen |-> {},
           ids |-> [n \in Names |-> n], created |-> {}, todo |-> {}, placed |-> {}]

Archive == [made : BOOLEAN, meetings : SUBSET Meetings, folders : SUBSET Meetings,
            attached : SUBSET (Meetings \X Names), documents : [Names -> Contents \cup {Nothing}]]
ArchiveWork == [pc : {"idle", "copy", "rows", "place"}, copy : Archive, staged : SUBSET Meetings,
                chosen : SUBSET Meetings, ids : [Names -> Names], created : SUBSET Names,
                todo : SUBSET Names, placed : SUBSET Names]

ArchiveTypeOK == DocumentTypeOK /\ zip \in Archive /\ archiving \in ArchiveWork

ArchiveInit == DocumentInit /\ zip = NoArchive /\ archiving = NoWork

Begins(work) == archiving.pc = "idle" /\ holder = "free" /\ holder' = "archive" /\ archiving' = work
WorkEnds == archiving' = NoWork /\ holder' = "free"
untouched == <<folders, old, importing, removing, sweep>>

-----------------------------------------------------------------------------
(* backup_library.                                                           *)

\* snapshot_impl: documents of no meeting stay on this computer. Bound: one
\* archive is written in a behaviour.
Snapshot ==
  /\ ~zip.made
  /\ Begins([NoWork EXCEPT !.pc = "copy",
                           !.copy = [NoArchive EXCEPT !.made = TRUE, !.meetings = meetings, !.attached = attached,
                                                      !.documents = Without(documents, Unattached)]])
  /\ UNCHANGED <<documentRows, untouched, originals, made, mishaps, ledger, zip>>

\* write_archive_impl: a folder that is missing is reported, an original that
\* is missing or has changed fails the backup and leaves the last one.
Readable(n) == archiving.copy.documents[n] \in {Nothing, originals[n]}

WriteArchive ==
  /\ archiving.pc = "copy" /\ \A n \in Names : Readable(n)
  /\ zip' = [archiving.copy EXCEPT !.folders = archiving.copy.meetings \cap folders]
  /\ WorkEnds
  /\ UNCHANGED <<documentRows, untouched, originals, made, mishaps, ledger>>

BackupFails ==
  /\ archiving.pc = "copy"
  /\ IF \A n \in Names : Readable(n) THEN Mishap ELSE UNCHANGED mishaps
  /\ WorkEnds
  /\ UNCHANGED <<documentRows, untouched, originals, made, ledger, zip>>

-----------------------------------------------------------------------------
(* restore_library.                                                          *)

\* unpack: the folders of the meetings that are not in the library.
BeginRestore ==
  /\ zip.made
  /\ Begins([NoWork EXCEPT !.pc = "rows", !.staged = zip.folders \ meetings])
  /\ UNCHANGED <<documentRows, untouched, originals, made, mishaps, ledger, zip>>

InArchive == {n \in Names : zip.documents[n] # Nothing}
Missing == zip.meetings \ meetings

\* mutant: what was unpacked is not compared with what the library lacks now
Hopeful == TRUE
Unpacked == Missing \cap zip.folders \subseteq archiving.staged

OldNames(n) == TRUE    \* mutant: a name is taken back although its file is still there
Vacant(n) == ~Row(n) /\ ~File(n)

\* restore_rows: the document that has this content, else its old identity,
\* else a new one.
Identity(n, k) ==
  IF \E d \in Names : documents[d] = zip.documents[n] THEN documents[k] = zip.documents[n]
  ELSE IF Vacant(n) THEN k = n ELSE k > made

RestoreRows ==
  /\ archiving.pc = "rows" /\ Unpacked
  /\ \E ids \in [InArchive -> Names] :
       LET fresh == {k \in {ids[n] : n \in InArchive} : k > made}
       IN /\ \A n \in InArchive : Identity(n, ids[n]) /\ originals[ids[n]] \in {Nothing, zip.documents[n]}
          /\ \A n, d \in InArchive : ids[n] = ids[d] => n = d
          /\ fresh = made + 1 .. made + Cardinality(fresh)
          /\ made' = made + Cardinality(fresh)
          /\ archiving' = [archiving EXCEPT !.pc = "place", !.chosen = Missing,
                                            !.ids = [n \in Names |-> IF n \in InArchive THEN ids[n] ELSE n],
                                            !.created = {n \in InArchive : ~Row(ids[n])},
                                            !.todo = {n \in InArchive : ~File(ids[n])}]
  /\ UNCHANGED <<documentRows, untouched, holder, originals, mishaps, ledger, zip>>

\* The first row it inserts gives the transaction the write lock.
Locked == archiving.pc = "place" /\ archiving.chosen \cup archiving.created # {}

OnTheWay == removing \cup (IF sweep.pc \in {"confirm", "unlink"} THEN {sweep.name} ELSE {})

\* Restore::publish: persist_noclobber.
PlaceRestored(n) ==
  /\ archiving.pc = "place" /\ n \in archiving.todo
  /\ LET k == archiving.ids[n]
     IN /\ ~File(k)
        /\ originals' = [originals EXCEPT ![k] = zip.documents[n]]
        /\ old' = old \ {k}
        /\ archiving' = [archiving EXCEPT !.todo = @ \ {n}, !.placed = @ \cup {k}]
        /\ ledger' = [ledger EXCEPT !.left = @ \ {k}, !.owed = @ \ {k}, !.reused = @ \cup (OnTheWay \cap {k})]
  /\ UNCHANGED <<documentRows, folders, holder, importing, removing, sweep, made, mishaps, zip>>

Attachments == {<<a[1], archiving.ids[a[2]]>> : a \in zip.attached \cap (archiving.chosen \X Names)}

CommitRestore ==
  /\ archiving.pc = "place" /\ archiving.todo = {}
  /\ meetings' = meetings \cup archiving.chosen
  /\ folders' = (folders \ archiving.chosen) \cup (archiving.chosen \cap archiving.staged)
  /\ documents' = [k \in Names |-> IF \E n \in archiving.created : archiving.ids[n] = k
                                   THEN zip.documents[CHOOSE n \in archiving.created : archiving.ids[n] = k]
                                   ELSE documents[k]]
  /\ attached' = attached \cup Attachments
  /\ ledger' = [ledger EXCEPT !.left = @ \cup {k \in archiving.placed : documents'[k] = Nothing},
                              !.brought = {k \in Names : documents'[k] # Nothing /\ ~\E m \in Meetings : <<m, k>> \in attached'}]
  /\ WorkEnds
  /\ UNCHANGED <<originals, old, importing, removing, sweep, made, mishaps, zip>>

LeftBehind == {}    \* mutant: a failed restore keeps what it placed
Withdrawn == archiving.placed

\* The guards drop: files placed so far are removed, which may fail silently.
RestoreFails ==
  /\ archiving.pc \in {"rows", "place"}
  /\ IF archiving.pc = "rows" /\ ~Unpacked THEN UNCHANGED mishaps ELSE Mishap
  /\ \/ originals' = Without(originals, Withdrawn) /\ UNCHANGED ledger
     \/ originals' = originals /\ GivenUp(archiving.placed)
  /\ WorkEnds
  /\ UNCHANGED <<documentRows, untouched, made, zip>>

-----------------------------------------------------------------------------

ArchiveStep ==
  \/ Snapshot \/ WriteArchive \/ BackupFails
  \/ BeginRestore \/ RestoreRows \/ CommitRestore \/ RestoreFails
  \/ \E n \in Names : PlaceRestored(n)

\* The recording folder of a meeting is lost outside of the program.
LoseFolder(m) ==
  /\ m \in folders /\ Mishap
  /\ folders' = folders \ {m}
  /\ UNCHANGED <<documentRows, originals, old, holder, importing, removing, sweep, made, ledger, zip, archiving>>

ArchiveRestart == DocumentRestart /\ archiving' = NoWork /\ UNCHANGED zip

ArchiveNext ==
  \/ DocumentWrite /\ ~Locked /\ UNCHANGED <<zip, archiving>>
  \/ DocumentStep /\ UNCHANGED <<zip, archiving>>
  \/ ArchiveStep
  \/ \E m \in Meetings : LoseFolder(m)
  \/ ArchiveRestart

-----------------------------------------------------------------------------
(* Properties.                                                               *)

\* Every document has its original, with the content of its row, whatever
\* imports, deletions, sweeps, restores and ends of the process leave half
\* done - unless a restore took an identity back whose file somebody was just
\* about to remove.
OriginalsKept == \A n \in Names :
  Row(n) => originals[n] = documents[n] \/ n \in ledger.reused

\* Nothing is left over: a file without a row is in somebody's hands or was
\* given up in a failure, a document without a meeting was restored for one
\* that was there already, and a sweep that gets through has removed what it
\* was owed.
NothingLeaks ==
  /\ Orphans \subseteq removing \cup archiving.placed \cup ledger.left \cup {importing.name, sweep.name}
  /\ Unattached \subseteq ledger.brought
  /\ sweep.pc = "through" => ledger.owed \cap Orphans = {}

\* A restore that succeeds brings back each meeting that was missing with its
\* folder and its documents as they were archived, and changes no other.
RestoresWhole == [][CommitRestore =>
  /\ archiving.chosen \subseteq meetings'
  /\ \A m \in archiving.chosen :
       /\ m \in zip.folders => m \in folders'
       /\ {documents'[n] : n \in {d \in Names : <<m, d>> \in attached'}}
            = {zip.documents[n] : n \in {d \in Names : <<m, d>> \in zip.attached}}
  /\ \A m \in meetings, n \in Names : <<m, n>> \in attached' <=> <<m, n>> \in attached
  /\ \A n \in Names : Row(n) => documents'[n] = documents[n]]_archiveVars
=============================================================================
