------------------------- MODULE ReferenceDocuments -------------------------
(***************************************************************************)
(* Documents attached to meetings. The rows are in the database, the       *)
(* original of each is a file named after its row; imports, deletions and  *)
(* the sweep at start-up write the two one after the other, while nothing  *)
(* but the permit of JOBS keeps some of them apart. A document is its      *)
(* content; meetings that attach the same content share one document.      *)
(***************************************************************************)
EXTENDS Integers, FiniteSets

CONSTANTS
  Meetings,
  Contents,    \* what a document can say: the hash of its original
  MaxNames,    \* bound: identities given out
  MaxMishaps   \* bound: failures, losses and restarts

Nothing == "nothing"

ASSUME DocumentAssumption ==
  /\ Nothing \notin Contents
  /\ {MaxNames, MaxMishaps} \subseteq Nat

VARIABLES
  meetings,   \* the rows of meetings
  folders,    \* the meetings whose recording folder is on disk
  documents,  \* knowledge_documents: its content, by identity
  attached,   \* knowledge_document_attachments: meeting and identity
  originals,  \* the files of reference-documents, by identity
  old,        \* files that have been there for more than a day
  holder,     \* who has the permit of JOBS
  importing,  \* the import under way
  removing,   \* files whose row a command has deleted and that it is to remove
  sweep,      \* the sweep of this start
  made,       \* identities given out
  mishaps,
  ledger      \* history: see LedgerInit

documentRows == <<meetings, documents, attached>>
documentVars == <<documentRows, folders, originals, old, holder, importing, removing, sweep, made, mishaps, ledger>>

Names == 1 .. MaxNames
NoImport == [pc |-> "idle", meeting |-> Nothing, content |-> Nothing, name |-> 0]
NewSweep(these) == [pc |-> "next", phase |-> "rows", name |-> 0, todo |-> these]

\* left: files given up by whoever should have removed them; owed: those of
\* them that this sweep meets; brought: rows restored for no meeting; reused:
\* names given back by a restore while a removal of the file was on its way.
LedgerInit == [left |-> {}, owed |-> {}, brought |-> {}, reused |-> {}]

Import == [pc : {"idle", "staged", "placed", "discard"}, meeting : Meetings \cup {Nothing},
           content : Contents \cup {Nothing}, name : 0 .. MaxNames]
Sweep == [pc : {"next", "confirm", "unlink", "through", "stopped"}, phase : {"rows", "files"},
          name : 0 .. MaxNames, todo : SUBSET Names]
Ledger == [left : SUBSET Names, owed : SUBSET Names, brought : SUBSET Names, reused : SUBSET Names]

DocumentTypeOK ==
  /\ meetings \subseteq Meetings /\ folders \subseteq Meetings
  /\ documents \in [Names -> Contents \cup {Nothing}]
  /\ originals \in [Names -> Contents \cup {Nothing}]
  /\ attached \subseteq Meetings \X Names
  /\ old \subseteq Names /\ removing \subseteq Names
  /\ holder \in {"free", "import", "archive"}
  /\ importing \in Import /\ sweep \in Sweep /\ ledger \in Ledger
  /\ made \in 0 .. MaxNames /\ mishaps \in 0 .. MaxMishaps

DocumentInit ==
  /\ meetings = Meetings /\ folders = Meetings
  /\ documents = [n \in Names |-> Nothing] /\ originals = documents
  /\ attached = {} /\ old = {} /\ removing = {}
  /\ holder = "free" /\ importing = NoImport
  /\ sweep = [NewSweep({}) EXCEPT !.pc = "stopped"]
  /\ made = 0 /\ mishaps = 0 /\ ledger = LedgerInit

Without(files, these) == [n \in Names |-> IF n \in these THEN Nothing ELSE files[n]]
Owners(n) == {m \in Meetings : <<m, n>> \in attached}
Row(n) == documents[n] # Nothing
File(n) == originals[n] # Nothing
Unattached == {n \in Names : Row(n) /\ Owners(n) = {}}
Orphans == {n \in Names : File(n) /\ ~Row(n)}

Mishap == mishaps < MaxMishaps /\ mishaps' = mishaps + 1
GivenUp(these) == ledger' = [ledger EXCEPT !.left = @ \cup these, !.owed = @ \ these]

-----------------------------------------------------------------------------
(* import_document: the copy is put in its place before the rows commit.     *)

BeginImport(m, c) ==
  /\ importing.pc = "idle" /\ holder = "free" /\ m \in meetings
  /\ holder' = "import"
  /\ importing' = [pc |-> "staged", meeting |-> m, content |-> c, name |-> 0]
  /\ UNCHANGED <<documentRows, folders, originals, old, removing, sweep, made, mishaps, ledger>>

PlaceOriginal ==
  /\ importing.pc = "staged" /\ made < MaxNames
  /\ made' = made + 1
  /\ originals' = [originals EXCEPT ![made + 1] = importing.content]
  /\ importing' = [importing EXCEPT !.pc = "placed", !.name = made + 1]
  /\ UNCHANGED <<documentRows, folders, old, holder, removing, sweep, mishaps, ledger>>

ImportEnds == importing' = NoImport /\ holder' = "free"

\* A document with the same content is there: the meeting shares it, and the
\* new copy goes.
Attach ==
  /\ importing.pc = "placed" /\ importing.meeting \in meetings
  /\ LET twins == {n \in Names : documents[n] = importing.content}
     IN IF twins = {}
        THEN /\ documents' = [documents EXCEPT ![importing.name] = importing.content]
             /\ attached' = attached \cup {<<importing.meeting, importing.name>>}
             /\ ImportEnds
        ELSE /\ attached' = attached \cup ({importing.meeting} \X twins)
             /\ importing' = [importing EXCEPT !.pc = "discard"]
             /\ UNCHANGED <<documents, holder>>
  /\ UNCHANGED <<meetings, folders, originals, old, removing, sweep, made, mishaps, ledger>>

\* Cancelled, preempted, not readable, the meeting deleted, or the database busy.
AbandonImport ==
  /\ \/ importing.pc = "staged" /\ ImportEnds
     \/ importing.pc = "placed" /\ importing' = [importing EXCEPT !.pc = "discard"] /\ UNCHANGED holder
  /\ UNCHANGED <<documentRows, folders, originals, old, removing, sweep, made, mishaps, ledger>>

DiscardCopy ==
  /\ importing.pc = "discard" /\ ImportEnds
  /\ \/ originals' = Without(originals, {importing.name}) /\ UNCHANGED <<mishaps, ledger>>
     \/ Mishap /\ GivenUp({importing.name}) /\ UNCHANGED originals
  /\ UNCHANGED <<documentRows, folders, old, removing, sweep, made>>

-----------------------------------------------------------------------------
(* Detaching, deleting: the rows first, then the file, without the permit.  *)

LastOwner(m, n) == IF Owners(n) = {m} THEN {n} ELSE {}

Detach(m, n) ==
  /\ <<m, n>> \in attached
  /\ documents' = Without(documents, LastOwner(m, n))
  /\ attached' = attached \ {<<m, n>>}
  /\ removing' = removing \cup LastOwner(m, n)
  /\ UNCHANGED <<meetings, folders, originals, old, holder, importing, sweep, made, mishaps, ledger>>

DeleteDocument(m, n) ==
  /\ <<m, n>> \in attached
  /\ documents' = Without(documents, {n})
  /\ attached' = attached \ (Meetings \X {n})
  /\ removing' = removing \cup {n}
  /\ UNCHANGED <<meetings, folders, originals, old, holder, importing, sweep, made, mishaps, ledger>>

\* mutant: only the attachments go with the meeting
NoneOf(m) == {}
OnlyOf(m) == {n \in Names : Owners(n) = {m}}

DeleteMeeting(m, files) ==
  /\ m \in meetings /\ (files => holder = "free")
  /\ meetings' = meetings \ {m}
  /\ documents' = Without(documents, OnlyOf(m))
  /\ attached' = attached \ ({m} \X Names)
  /\ removing' = removing \cup OnlyOf(m)
  /\ folders' = IF files THEN folders \ {m} ELSE folders
  /\ UNCHANGED <<originals, old, holder, importing, sweep, made, mishaps, ledger>>

RemoveOriginal(n) ==
  /\ n \in removing
  /\ removing' = removing \ {n}
  /\ \/ originals' = Without(originals, {n}) /\ UNCHANGED <<mishaps, ledger>>
     \/ Mishap /\ GivenUp({n}) /\ UNCHANGED originals
  /\ UNCHANGED <<documentRows, folders, old, holder, importing, sweep, made>>

-----------------------------------------------------------------------------
(* document_cleanup::sweep, once after each start: rows that no meeting has, *)
(* then files that no row has. It gives way to everything else.              *)

Quiet == importing.pc = "idle" /\ holder = "free"

sweepOnly == <<meetings, attached, folders, old, holder, importing, removing, made>>

SweepRow(n) ==
  /\ sweep.pc = "next" /\ sweep.phase = "rows" /\ Quiet
  /\ n \in Unattached
  /\ documents' = Without(documents, {n})
  /\ sweep' = [sweep EXCEPT !.pc = "confirm", !.name = n]
  /\ UNCHANGED <<sweepOnly, originals, mishaps, ledger>>

\* The rows are read in the order of their identities: those that were there
\* when it began are met, later ones perhaps.
SweepFiles ==
  /\ sweep.pc = "next" /\ sweep.phase = "rows" /\ Quiet
  /\ sweep.todo \cap Unattached = {}
  /\ sweep' = [sweep EXCEPT !.phase = "files", !.todo = {n \in Names : File(n)}]
  /\ UNCHANGED <<sweepOnly, documents, originals, mishaps, ledger>>

SweepLook(n) ==
  /\ sweep.pc = "next" /\ sweep.phase = "files" /\ Quiet
  /\ n \in sweep.todo
  /\ \/ /\ n \in Orphans \cap old
        /\ sweep' = [sweep EXCEPT !.todo = @ \ {n}, !.pc = "confirm", !.name = n]
        /\ UNCHANGED ledger
     \/ /\ sweep' = [sweep EXCEPT !.todo = @ \ {n}]
        /\ IF n \in Orphans \cap old THEN GivenUp({n}) ELSE UNCHANGED ledger
  /\ UNCHANGED <<sweepOnly, documents, originals, mishaps>>

\* A last look, after the row was deleted or found missing: work that has
\* started meanwhile, also work that is not modelled here, goes first.
SweepConfirm ==
  /\ sweep.pc = "confirm"
  /\ \/ Quiet /\ sweep' = [sweep EXCEPT !.pc = "unlink"] /\ UNCHANGED ledger
     \/ /\ sweep' = [sweep EXCEPT !.pc = IF sweep.phase = "rows" THEN "stopped" ELSE "next", !.name = 0]
        /\ GivenUp({sweep.name})
  /\ UNCHANGED <<sweepOnly, documents, originals, mishaps>>

SweepUnlink ==
  /\ sweep.pc = "unlink"
  /\ sweep' = [sweep EXCEPT !.pc = "next", !.name = 0]
  /\ \/ originals' = Without(originals, {sweep.name}) /\ UNCHANGED <<mishaps, ledger>>
     \/ Mishap /\ GivenUp({sweep.name}) /\ UNCHANGED originals
  /\ UNCHANGED <<sweepOnly, documents>>

SweepEnds(pc) ==
  /\ sweep.pc = "next"
  /\ pc = "through" => sweep.phase = "files" /\ sweep.todo = {} /\ Quiet
  /\ sweep' = [sweep EXCEPT !.pc = pc, !.todo = {}]
  /\ UNCHANGED <<sweepOnly, documents, originals, mishaps, ledger>>

-----------------------------------------------------------------------------
(* The process ends, perhaps in the middle of something; by the next start a *)
(* day may have passed.                                                      *)

DocumentRestart ==
  /\ Mishap
  /\ importing' = NoImport /\ holder' = "free" /\ removing' = {}
  /\ sweep' = NewSweep(Unattached)
  /\ old' \in {old, {n \in Names : File(n)}}
  /\ ledger' = [ledger EXCEPT !.left = Orphans, !.owed = Orphans \cap old']
  /\ UNCHANGED <<documentRows, folders, originals, made>>

DocumentWrite ==
  \/ Attach
  \/ \E m \in Meetings :
       \/ \E n \in Names : Detach(m, n) \/ DeleteDocument(m, n)
       \/ \E files \in BOOLEAN : DeleteMeeting(m, files)
  \/ \E n \in Names : SweepRow(n)

DocumentStep ==
  \/ \E m \in Meetings, c \in Contents : BeginImport(m, c)
  \/ PlaceOriginal \/ AbandonImport \/ DiscardCopy
  \/ \E n \in Names : RemoveOriginal(n) \/ SweepLook(n)
  \/ SweepFiles \/ SweepConfirm \/ SweepUnlink
  \/ \E pc \in {"through", "stopped"} : SweepEnds(pc)
=============================================================================
