---------------------------- MODULE SavedAnswers ----------------------------
(***************************************************************************)
(* The assistant's conversation about one meeting and its reference        *)
(* document. A call of `ask` holds an entry of the registry, reserves its  *)
(* row in the database, gathers text, has it answered by a provider and    *)
(* saves the answer, while sources change or go, requests are cancelled,   *)
(* the conversation is cleared, sharing is withdrawn, a backup is imported *)
(* and the application restarts.                                           *)
(***************************************************************************)
EXTENDS Naturals, FiniteSets

CONSTANTS
  Requests,      \* request identities; asking one again is a retry
  WithDocument,  \* the requests that quote the reference document
  MaxActive,     \* entries of the registry (16 in the code)
  MaxEdits,      \* bound: changes of the text of a source
  MaxBackups,    \* bound: backups made
  MaxFaults      \* bound: terminal writes that fail

ASSUME AnswersAssumption ==
  /\ WithDocument \subseteq Requests
  /\ MaxActive \in Nat \ {0}
  /\ {MaxEdits, MaxBackups, MaxFaults} \subseteq Nat

Sources == {"meeting", "document"}
Scope(r) == IF r \in WithDocument THEN Sources ELSE {"meeting"}

VARIABLES
  source,    \* knowledge_sources: alive, revision; and which text they have
  row,       \* knowledge_requests with its sources and what its answer says
  permit,    \* knowledge_document_permissions of the conversation
  archive,   \* a backup of sources and rows, if one was made
  active,    \* AnswerRegistry.active
  cancelled, \* the entries whose token is cancelled
  call,      \* how far a call is, and what it gathered
  pending,   \* the command between its cancelled tokens and its write
  edits, backups, faults,
  void,      \* history: calls whose answer nobody may see any more
  stuck      \* history: requests whose terminal write failed

database == <<source, row, permit>>
memory == <<active, cancelled, call, pending>>
vars == <<database, archive, memory, edits, backups, faults, void, stuck>>

Texts == 0 .. MaxEdits + 1     \* 0 is no text
Revisions == 0 .. MaxEdits + 1 \* 0 is no dependency

NoRow == [status |-> "none", restored |-> FALSE,
          deps |-> [s \in Sources |-> 0], says |-> [s \in Sources |-> 0]]
NoCall == [pc |-> "idle", rev |-> [s \in Sources |-> 0], text |-> [s \in Sources |-> 0]]
Gone == [alive |-> FALSE, rev |-> 0, text |-> 0]

NoArchive == [source |-> [s \in Sources |-> Gone], row |-> [r \in Requests |-> NoRow]]

Steps == {"lookup", "reserve", "gather", "ready", "wait", "finish"}
Statuses == {"none", "preparing", "running", "completed", "failed",
             "interrupted", "cancelled", "invalidated"}
Unfinished == {"preparing", "running"}
Retriable == {"failed", "interrupted"}

Source == [alive : BOOLEAN, rev : Revisions, text : Texts]
Row == [status : Statuses, restored : BOOLEAN,
        deps : [Sources -> Revisions], says : [Sources -> Texts]]
Call == [pc : Steps \cup {"idle", "commit", "settle"},
         rev : [Sources -> Revisions], text : [Sources -> Texts]]

TypeOK ==
  /\ source \in [Sources -> Source] /\ row \in [Requests -> Row] /\ permit \in BOOLEAN
  /\ archive \in [source : [Sources -> Source], row : [Requests -> Row]]
  /\ active \subseteq Requests /\ Cardinality(active) <= MaxActive
  /\ cancelled \subseteq active
  /\ call \in [Requests -> Call]
  /\ \A r \in Requests : call[r].pc = "idle" <=> r \notin active
  /\ pending \in Requests \cup {"clear", "unshare", "nothing"}
  /\ edits \in 0 .. MaxEdits /\ backups \in 0 .. MaxBackups /\ faults \in 0 .. MaxFaults
  /\ void \subseteq Requests /\ stuck \subseteq Requests

Init ==
  /\ source = [s \in Sources |-> [alive |-> TRUE, rev |-> 1, text |-> 1]]
  /\ row = [r \in Requests |-> NoRow]
  /\ permit \in BOOLEAN
  /\ archive = NoArchive
  /\ active = {} /\ cancelled = {} /\ pending = "nothing"
  /\ call = [r \in Requests |-> NoCall]
  /\ edits = 0 /\ backups = 0 /\ faults = 0
  /\ void = {} /\ stuck = {}

Goto(r, pc) == call' = [call EXCEPT ![r].pc = pc]
Leave(r) ==
  /\ call' = [call EXCEPT ![r] = NoCall]
  /\ active' = active \ {r}
  /\ cancelled' = cancelled \ {r}
  /\ void' = void \ {r}

-----------------------------------------------------------------------------
(* ask: the registry entry, the saved reply, the reservation.                *)

Ask(r) ==
  /\ r \notin active
  /\ Cardinality(active) < MaxActive
  /\ active' = active \cup {r}
  /\ Goto(r, "lookup")
  /\ UNCHANGED <<database, archive, cancelled, pending, edits, backups, faults, void, stuck>>

\* completed_reply: an answer that was saved is the answer.
SavedReply(r) ==
  /\ call[r].pc \in {"lookup", "reserve"}
  /\ row[r].status = "completed"
  /\ Leave(r)
  /\ UNCHANGED <<database, archive, pending, edits, backups, faults, stuck>>

Lookup(r) ==
  /\ call[r].pc = "lookup" /\ r \notin cancelled
  /\ row[r].status \in Retriable \cup {"none"}
  /\ Goto(r, "reserve")
  /\ UNCHANGED <<database, archive, active, cancelled, pending, edits, backups, faults, void, stuck>>

Permitted(r) == r \in WithDocument => permit
InScope(r) == \A s \in Scope(r) : source[s].alive

Current(r) == [s \in Sources |-> IF s \in Scope(r) THEN source[s].rev ELSE 0]

\* A new row, or the row of a failed attempt with its sources reserved anew.
Reserve(r) ==
  /\ call[r].pc = "reserve" /\ r \notin cancelled
  /\ row[r].status \in Retriable \cup {"none"}
  /\ Permitted(r) /\ InScope(r)
  /\ row' = [row EXCEPT ![r] = [NoRow EXCEPT !.status = "preparing", !.deps = Current(r)]]
  /\ stuck' = stuck \ {r}
  /\ Goto(r, "gather")
  /\ UNCHANGED <<source, permit, archive, active, cancelled, pending, edits, backups, faults, void>>

-----------------------------------------------------------------------------
(* ask_resolved: retrieval reads one source after the other.                 *)

Read(r, s) ==
  /\ call[r].pc = "gather"
  /\ s \in Scope(r) /\ source[s].alive /\ call[r].rev[s] = 0
  /\ call' = [call EXCEPT ![r].rev[s] = source[s].rev, ![r].text[s] = source[s].text]
  /\ UNCHANGED <<database, archive, active, cancelled, pending, edits, backups, faults, void, stuck>>

RestoredToo(q) == TRUE                  \* mutant: restored answers are history as well
OwnAnswer(q) == ~row[q].restored

\* An earlier turn may be sent when all it depends on is selected and unchanged.
Verifiable(q) ==
  /\ row[q].status = "completed" /\ OwnAnswer(q)
  /\ \A s \in Sources : row[q].deps[s] # 0 => source[s].alive /\ source[s].rev = row[q].deps[s]

Inherit(r, q) ==
  /\ call[r].pc = "gather" /\ q # r
  /\ Verifiable(q) /\ Scope(q) \subseteq Scope(r)
  /\ \A s \in Sources : call[r].rev[s] \in {0, row[q].deps[s]} \/ row[q].deps[s] = 0
  /\ call' = [call EXCEPT
       ![r].rev  = [s \in Sources |-> IF row[q].deps[s] # 0 THEN row[q].deps[s] ELSE @[s]],
       ![r].text = [s \in Sources |-> IF row[q].says[s] # 0 THEN row[q].says[s] ELSE @[s]]]
  /\ UNCHANGED <<database, archive, active, cancelled, pending, edits, backups, faults, void, stuck>>

Agree(r) == \A s \in Sources : 0 \in {call[r].rev[s], row[r].deps[s]} \/ call[r].rev[s] = row[r].deps[s]
Unchanged(deps) == \A s \in Sources : deps[s] # 0 => source[s].alive /\ source[s].rev = deps[s]
AllDeps(r) == [s \in Sources |-> IF call[r].rev[s] # 0 THEN call[r].rev[s] ELSE row[r].deps[s]]

Prepare(r) ==
  /\ call[r].pc = "gather"
  /\ row[r].status = "preparing"
  /\ InScope(r) /\ Agree(r) /\ Unchanged(AllDeps(r))
  /\ row' = [row EXCEPT ![r].status = "running", ![r].deps = AllDeps(r)]
  /\ call' = [call EXCEPT ![r].pc = "ready", ![r].rev = NoCall.rev]
  /\ UNCHANGED <<source, permit, archive, active, cancelled, pending, edits, backups, faults, void, stuck>>

AnyRow(r) == TRUE                       \* mutant: whether the request still runs is not asked
StillRunning(r) == row[r].status = "running" /\ ~row[r].restored
StaleSources(r) == TRUE                 \* mutant: revisions are not looked at again
FreshSources(r) == Unchanged(row[r].deps)

\* check_in, alone in check_ready and inside the transaction of finish.
CheckIn(r) == StillRunning(r) /\ Permitted(r) /\ InScope(r) /\ FreshSources(r)

CheckReady(r) ==
  /\ call[r].pc = "ready"
  /\ CheckIn(r)
  /\ Goto(r, "wait")
  /\ UNCHANGED <<database, archive, active, cancelled, pending, edits, backups, faults, void, stuck>>

\* Every 25 ms. Its child token ends the wait for the provider, and `changed`
\* turns whatever came back into a failure.
Monitor(r) ==
  /\ call[r].pc = "wait"
  /\ ~CheckIn(r)
  /\ call' = [call EXCEPT ![r] = [NoCall EXCEPT !.pc = "settle"]]
  /\ UNCHANGED <<database, archive, active, cancelled, pending, edits, backups, faults, void, stuck>>

Reply(r) ==
  /\ call[r].pc = "wait"
  /\ Goto(r, "finish")
  /\ UNCHANGED <<database, archive, active, cancelled, pending, edits, backups, faults, void, stuck>>

TokenIgnored(r) == TRUE                 \* mutant: a cancelled answer is saved all the same
TokenLive(r) == r \notin cancelled

\* The first statement of finish takes the write lock of the database; the
\* last look at the token comes before the commit, which it waits for.
Locked == \E r \in Requests : call[r].pc = "commit"

Finish(r) ==
  /\ call[r].pc = "finish" /\ TokenLive(r)
  /\ ~Locked /\ CheckIn(r)
  /\ Goto(r, "commit")
  /\ UNCHANGED <<database, archive, active, cancelled, pending, edits, backups, faults, void, stuck>>

Committed(r) == [row EXCEPT ![r].status = "completed", ![r].says = call[r].text]

Commit(r) ==
  /\ call[r].pc = "commit" /\ r \notin cancelled
  /\ row' = Committed(r)
  /\ Leave(r)
  /\ UNCHANGED <<source, permit, archive, pending, edits, backups, faults, stuck>>

\* Cancelled, out of time, without its task or failed while it waits for the
\* commit. What was sent to the database may land all the same.
CommitDropped(r) ==
  /\ call[r].pc = "commit"
  /\ row' \in {row, Committed(r)}
  /\ cancelled' \in {cancelled, cancelled \cup {r}}
  /\ call' = [call EXCEPT ![r] = [NoCall EXCEPT !.pc = "settle"]]
  /\ UNCHANGED <<source, permit, archive, active, pending, edits, backups, faults, void, stuck>>

-----------------------------------------------------------------------------
(* Every other end: cancelled, refused, a failed check, a deadline, an error *)
(* of the provider; or the invoking task disappears.                         *)

Fails(r) ==
  /\ call[r].pc \in Steps
  /\ call' = [call EXCEPT ![r] = [NoCall EXCEPT !.pc = "settle"]]
  /\ UNCHANGED <<database, archive, active, cancelled, pending, edits, backups, faults, void, stuck>>

\* RequestLease::drop cancels and leaves the durable part to a task of its own.
Dropped(r) ==
  /\ call[r].pc \in Steps
  /\ cancelled' = cancelled \cup {r}
  /\ void' = void \cup {r}
  /\ call' = [call EXCEPT ![r] = [NoCall EXCEPT !.pc = "settle"]]
  /\ UNCHANGED <<database, archive, active, pending, edits, backups, faults, stuck>>

Cancellable == Unfinished \cup Retriable

Cancelled(r) == IF row[r].status \in Cancellable
                THEN [row EXCEPT ![r].status = "cancelled"] ELSE row
Failed(r) == IF row[r].status \in Unfinished
             THEN [row EXCEPT ![r].status = "failed"] ELSE row

NotSettled(r) == row                    \* mutant: the entry goes, the row stays
Settled(r) == IF r \in cancelled THEN Cancelled(r) ELSE Failed(r)

Settle(r) ==
  /\ call[r].pc = "settle"
  /\ row' = Settled(r)
  /\ stuck' = stuck \ {r}
  /\ Leave(r)
  /\ UNCHANGED <<source, permit, archive, pending, edits, backups, faults>>

\* The terminal write fails: the entry is free, the row is as it was.
SettleFails(r) ==
  /\ call[r].pc = "settle"
  /\ faults < MaxFaults /\ faults' = faults + 1
  /\ stuck' = stuck \cup {r}
  /\ Leave(r)
  /\ UNCHANGED <<database, archive, pending, edits, backups>>

-----------------------------------------------------------------------------
(* The user: each command cancels tokens first and writes afterwards.        *)

\* Too late for an answer that is being committed.
CancelTokens(these) ==
  /\ cancelled' = cancelled \cup (these \cap active)
  /\ void' = void \cup {r \in these \cap active : call[r].pc # "commit"}

Begin(command) == pending = "nothing" /\ pending' = command
Done(command) == pending = command /\ pending' = "nothing"

CancelBegin(r) ==
  /\ Begin(r)
  /\ CancelTokens({r})
  /\ UNCHANGED <<database, archive, active, call, edits, backups, faults, stuck>>

\* The calls that lose their row.
Bereft == {r \in active : call[r].pc \in {"gather", "ready", "wait", "finish"}}

\* The write has 5 s; it may come too late to matter, or not at all.
CancelWrite(r) ==
  /\ Done(r)
  /\ \/ /\ row' = Cancelled(r)
        /\ void' = void \cup ({r} \cap Bereft)
     \/ UNCHANGED <<row, void>>
  /\ UNCHANGED <<source, permit, archive, active, cancelled, call, edits, backups, faults, stuck>>

ClearBegin ==
  /\ Begin("clear")
  /\ CancelTokens(Requests)
  /\ UNCHANGED <<database, archive, active, call, edits, backups, faults, stuck>>

ClearWrite ==
  /\ Done("clear")
  /\ row' = [r \in Requests |-> NoRow]
  /\ void' = void \cup Bereft
  /\ UNCHANGED <<source, permit, archive, active, cancelled, call, edits, backups, faults, stuck>>

UnshareBegin ==
  /\ Begin("unshare")
  /\ CancelTokens(Requests)
  /\ UNCHANGED <<database, archive, active, call, edits, backups, faults, stuck>>

UnshareWrite ==
  /\ Done("unshare")
  /\ permit' = FALSE
  /\ UNCHANGED <<source, row, archive, active, cancelled, call, edits, backups, faults, void, stuck>>

Share ==
  /\ source["meeting"].alive
  /\ permit' = TRUE
  /\ UNCHANGED <<source, row, archive, memory, edits, backups, faults, void, stuck>>

-----------------------------------------------------------------------------
(* Sources change and go.                                                    *)

Edit(s) ==
  /\ source[s].alive /\ edits < MaxEdits
  /\ edits' = edits + 1
  /\ source' = [source EXCEPT ![s].rev = @ + 1, ![s].text = edits' + 1]
  /\ UNCHANGED <<row, permit, archive, memory, backups, faults, void, stuck>>

KeptTurn(r) == row[r]                   \* mutant: what was said about a source outlives it
Tombstone(r) == [NoRow EXCEPT !.status = "invalidated", !.restored = row[r].restored]

\* knowledge_conversation_source_delete redacts every turn that depends on it.
DeleteDocument ==
  /\ source["document"].alive
  /\ source' = [source EXCEPT !["document"] = Gone]
  /\ row' = [r \in Requests |-> IF row[r].deps["document"] # 0 THEN Tombstone(r) ELSE row[r]]
  /\ void' = void \cup {r \in Bereft : row[r].deps["document"] # 0}
  /\ UNCHANGED <<permit, archive, memory, edits, backups, faults, stuck>>

\* What an import will make of a row of the archive.
RestoredRow(r) ==
  IF row[r].status = "none" THEN NoRow
  ELSE [row[r] EXCEPT !.restored = TRUE,
                      !.status = IF @ \in Unfinished THEN "interrupted" ELSE @]

\* A backup counts as made just before the meeting it archives is deleted: what
\* happens in between goes with the meeting, and while the library has the
\* meeting an import skips it.
Backup ==
  \/ UNCHANGED <<archive, backups>>
  \/ /\ backups < MaxBackups /\ backups' = backups + 1
     /\ archive' = [source |-> source, row |-> [r \in Requests |-> RestoredRow(r)]]

\* The conversation, its permission and its own document go with the meeting.
DeleteMeeting ==
  /\ source["meeting"].alive
  /\ Backup
  /\ source' = [s \in Sources |-> Gone]
  /\ row' = [r \in Requests |-> NoRow]
  /\ permit' = FALSE
  /\ void' = void \cup Bereft
  /\ UNCHANGED <<memory, edits, faults, stuck>>

\* A meeting the library still has is skipped with its conversation. Revisions
\* are counted anew, and later meet those of the archive by chance.
Restore ==
  /\ archive.source["meeting"].alive /\ ~source["meeting"].alive
  /\ source' = [s \in Sources |-> IF archive.source[s].alive
                                  THEN [archive.source[s] EXCEPT !.rev = 1] ELSE Gone]
  /\ row' = archive.row
  /\ archive' = NoArchive
  /\ UNCHANGED <<permit, memory, edits, backups, faults, void, stuck>>

\* The application closes or dies, and starts again. A commit under way has
\* landed (CommitDropped comes first) or not.
Restart ==
  /\ row' = [r \in Requests |-> IF row[r].status \in Unfinished
                                THEN [row[r] EXCEPT !.status = "interrupted"] ELSE row[r]]
  /\ active' = {} /\ cancelled' = {} /\ pending' = "nothing"
  /\ call' = [r \in Requests |-> NoCall]
  /\ void' = {} /\ stuck' = {}
  /\ UNCHANGED <<source, permit, archive, edits, backups, faults>>

-----------------------------------------------------------------------------
CallStep(r) ==
  \/ SavedReply(r) \/ Lookup(r) \/ Reserve(r)
  \/ Prepare(r) \/ CheckReady(r) \/ Reply(r) \/ Finish(r)
  \/ Fails(r) \/ Settle(r) \/ SettleFails(r)

Gather(r) == (\E s \in Sources : Read(r, s)) \/ \E q \in Requests : Inherit(r, q)

UserStep ==
  \/ \E r \in Requests : Ask(r) \/ CancelBegin(r) \/ CancelWrite(r)
  \/ ClearBegin \/ ClearWrite \/ UnshareBegin \/ UnshareWrite \/ Share

LibraryStep ==
  \/ \E s \in Sources : Edit(s)
  \/ DeleteDocument \/ DeleteMeeting
  \/ Restore

AnyStep ==
  \/ \E r \in Requests : CallStep(r) \/ Gather(r) \/ Monitor(r) \/ Dropped(r)
  \/ UserStep
  \/ LibraryStep

\* Nobody else writes while a commit has the database.
Next ==
  \/ AnyStep /\ (Locked => UNCHANGED database)
  \/ \E r \in Requests : Commit(r) \/ CommitDropped(r)
  \/ Restart

Spec == Init /\ [][Next]_vars

-----------------------------------------------------------------------------
(* What may be sent as an earlier turn of the conversation says what its     *)
(* sources say now: equal revisions mean equal text, through deletions,      *)
(* imports of old backups and restarts (eligible_history).                   *)
VerifiedIsTrue ==
  \A q \in Requests : Verifiable(q) =>
    \A s \in Sources : row[q].says[s] \in {0, source[s].text}

(* "Retain a redacted tombstone so an in-flight result can never recreate    *)
(* the turn": no answer outlives a source it was made from.                  *)
DeletedIsGone ==
  \A r \in Requests, s \in Sources : row[r].says[s] # 0 => source[s].alive

(* A row that is being worked on has a call that works on it, or else its    *)
(* request could not be asked again before the next start: the entry of the  *)
(* registry outlives the terminal write, also when the invoking task         *)
(* disappears. Only a failed write can break this.                           *)
OnlyRegisteredRun ==
  \A r \in Requests : row[r].status \in Unfinished => r \in active \cup stuck

(* No answer is saved for a call after the user cancelled the request,       *)
(* cleared the conversation or withdrew sharing (unless that was while the   *)
(* answer was being committed), or after its row or a source of it was       *)
(* deleted, whatever was put in their place since; and one that is saved     *)
(* says what its sources say at that moment, through all the waiting         *)
(* ("Evidence changed during generation").                                   *)
Wanted == \A r \in Requests : row[r].status = "running" /\ row'[r].status = "completed" =>
  /\ r \notin void
  /\ \A s \in Sources : row'[r].says[s] \in {0, source[s].text}
OnlyWanted == [][Wanted]_vars

(* An answer is final: retries, late cancellations, failures and restarts    *)
(* neither change nor withdraw it. It only goes with the conversation or     *)
(* with its sources.                                                         *)
Final == \A r \in Requests : row[r].status = "completed" =>
  \/ row'[r] = row[r]
  \/ row'[r].status = "none"
  \/ row'[r].status = "invalidated" /\ \E s \in Sources : source[s].alive /\ ~source'[s].alive
AnswerIsFinal == [][Final]_vars
=============================================================================
