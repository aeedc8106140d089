--------------------------- MODULE MeetingExports ---------------------------
(***************************************************************************)
(* Exports of one meeting to OneNote, Planner and To Do. Each page or task *)
(* has an entry in exports.json under a key made of account, destination,  *)
(* the page and all that was chosen with it; the entry is written before   *)
(* the request that creates the page and after its answer, so that nothing *)
(* is created twice when a request, an answer, a write or the process is   *)
(* lost. The service is external: a request may arrive after everybody has *)
(* given up on it.                                                         *)
(***************************************************************************)
EXTENDS MicrosoftSession

CONSTANTS
  Exports,    \* commands that may be under way at a time
  Pages,      \* bound: pages and tasks there are
  Selections  \* bound: what may be chosen for a destination, in the order of the pages

ASSUME ExportAssumption == Pages \in Nat /\ Selections \subseteq SUBSET (1 .. Pages)

VARIABLES
  export,    \* the commands
  exported,  \* exports.json
  wire,      \* external: the last request under each key
  creations, \* external: how often it created the page; 2 is more than once
  excused    \* history: keys whose creation was denied, see Misreported

exportVars == <<export, exported, wire, creations, excused>>
sharingVars == <<sessionVars, exportVars>>

Page == 1 .. Pages

\* dedupe_key: artifact_hash stands for everything that was chosen, so that the
\* same page in another selection has another key.
Key == {k \in Selections \X Page : k[2] \in k[1]}

Ledgers == [Key -> {"none", "pending", "succeeded", "failed", "auth", "review"}]
NewLedger == [k \in Key |-> "none"]
NoExport == [pc |-> "idle", of |-> 0, token |-> 0, entries |-> NewLedger, group |-> {}, done |-> {},
             page |-> 0, stop |-> FALSE, expired |-> FALSE]
Export == [pc : {"idle", "refreshing", "ready", "next", "asked", "answered", "stopped"},
           of : 0 .. MaxSessions, token : 0 .. MaxSignIns, entries : Ledgers,
           group : Selections \cup {{}}, done : SUBSET (Selections \cup {{}}),
           page : 0 .. Pages + 1, stop : BOOLEAN, expired : BOOLEAN]

ExportTypeOK ==
  /\ SessionTypeOK
  /\ export \in [Exports -> Export] /\ exported \in Ledgers
  /\ wire \in [Key -> {"none", "sent", "landed"}]
  /\ creations \in [Key -> 0 .. 2] /\ excused \subseteq Key

ExportInit ==
  /\ SessionInit
  /\ export = [e \in Exports |-> NoExport]
  /\ exported = NewLedger
  /\ wire = [k \in Key |-> "none"] /\ creations = [k \in Key |-> 0] /\ excused = {}

At(e) == <<export[e].group, export[e].page>>
Handled(e) == export[e].done \cup {export[e].group}
Ends(e) == export' = [export EXCEPT ![e] = NoExport]
Untouched == UNCHANGED <<connection, session, token, keychain, fallback, signIns, handle, account, astray>>

-----------------------------------------------------------------------------
(* get_token_and_context: the token is cloned, refreshed without the lock,   *)
(* and accepted only into the session it was cloned from.                    *)

AskToken(e) ==
  /\ export[e].pc = "idle" /\ connection = "on" /\ token # 0
  /\ export' = [export EXCEPT ![e] = [NoExport EXCEPT !.pc = "refreshing", !.of = session, !.token = token]]
  /\ UNCHANGED <<sessionVars, exported, wire, creations, excused>>

\* mutant: whatever the session is by now
AnySession(e) == connection = "on"

SameSession(e) == export[e].of = session /\ connection = "on"

AcceptToken(e) ==
  /\ export[e].pc = "refreshing" /\ SameSession(e)
  /\ token' = export[e].token
  /\ SaveToken(export[e].token) \/ UNCHANGED <<keychain, fallback, astray, troubles>>
  /\ export' = [export EXCEPT ![e] = [NoExport EXCEPT !.pc = "ready"]]
  /\ UNCHANGED <<connection, session, signIns, handle, account, exported, wire, creations, excused>>

\* The session has changed, the refresh failed, a permission is missing,
\* another export is in progress, or the history cannot be read.
Refused(e) ==
  /\ export[e].pc \in {"refreshing", "ready"}
  /\ Ends(e)
  /\ UNCHANGED <<sessionVars, exported, wire, creations, excused>>

-----------------------------------------------------------------------------
(* The commands of exports/commands.rs and run_item.                         *)

\* mutant: no EXPORT_LOCK
Unlocked == {}

Exporting == {e \in Exports : export[e].pc \in {"next", "asked", "answered", "stopped"}}

\* mutant: an interrupted create is tried again
Replayed == [k \in Key |-> IF exported[k] = "pending" THEN "failed" ELSE exported[k]]

\* "A crash after submission can leave a pending create. Never replay it."
Loaded == [k \in Key |-> IF exported[k] = "pending" THEN "review" ELSE exported[k]]

\* EXPORT_LOCK is taken first.
LoadLedger(e, g) ==
  /\ export[e].pc = "ready" /\ Exporting = {}
  /\ export' = [export EXCEPT ![e].pc = "next", ![e].entries = Loaded, ![e].group = g, ![e].page = 1]
  /\ UNCHANGED <<sessionVars, exported, wire, creations, excused>>

MayAttempt(status) == status \in {"none", "failed"}
Untried(e) == {p \in export[e].group :
                 p >= export[e].page /\ MayAttempt(export[e].entries[<<export[e].group, p>>])}

Due(e, p) == export[e].pc = "next" /\ p \in Untried(e) /\ \A q \in Untried(e) : p <= q
Begun(e, p, status) == [export[e].entries EXCEPT ![<<export[e].group, p>>] = status]

\* The entry is on disk before the request leaves.
Submit(e, p) ==
  /\ Due(e, p)
  /\ exported' = Begun(e, p, "pending")
  /\ export' = [export EXCEPT ![e].pc = "asked", ![e].page = p, ![e].entries = Begun(e, p, "pending")]
  /\ wire' = [wire EXCEPT ![<<export[e].group, p>>] = "sent"]
  /\ UNCHANGED <<sessionVars, creations, excused>>

\* It could not be written: nothing is sent.
NotSubmitted(e, p) ==
  /\ Due(e, p) /\ Trouble /\ Untouched
  /\ export' = [export EXCEPT ![e].pc = "stopped", ![e].page = p + 1, ![e].entries = Begun(e, p, "failed")]
  /\ UNCHANGED <<exported, wire, creations, excused>>

Answered(e, status, stop, expired) ==
  export' = [export EXCEPT ![e].pc = "answered", ![e].entries[At(e)] = status,
                           ![e].stop = stop, ![e].expired = @ \/ expired]

Succeeds(e) ==
  /\ export[e].pc = "asked" /\ wire[At(e)] = "landed"
  /\ Answered(e, "succeeded", FALSE, FALSE)
  /\ wire' = [wire EXCEPT ![At(e)] = "none"]
  /\ UNCHANGED <<sessionVars, exported, creations, excused>>

\* The service answers with a failure: throttled, unavailable, too large and
\* unknown ones may be tried again, refused and expired ones may not.
Fails(e) ==
  /\ export[e].pc = "asked" /\ wire[At(e)] = "sent"
  /\ wire' = [wire EXCEPT ![At(e)] = "none"]
  /\ \/ Answered(e, "failed", FALSE, FALSE)
     \/ Answered(e, "review", FALSE, FALSE)
     \/ Answered(e, "auth", TRUE, TRUE)
  /\ UNCHANGED <<sessionVars, exported, creations, excused>>

\* External: a failure is answered for a page that was created. The client
\* sends it again, or the user may.
Misreported(e) ==
  /\ export[e].pc = "asked" /\ wire[At(e)] = "landed"
  /\ Trouble /\ Untouched
  /\ excused' = excused \cup {At(e)}
  /\ \/ wire' = [wire EXCEPT ![At(e)] = "sent"] /\ UNCHANGED export
     \/ Answered(e, "failed", FALSE, FALSE) /\ wire' = [wire EXCEPT ![At(e)] = "none"]
  /\ UNCHANGED <<exported, creations>>

\* No answer: the request may have arrived, or may still.
Unanswered(e) ==
  /\ export[e].pc = "asked"
  /\ Answered(e, "review", TRUE, FALSE)
  /\ wire' = [wire EXCEPT ![At(e)] = IF @ = "sent" THEN "sent" ELSE "none"]
  /\ UNCHANGED <<sessionVars, exported, creations, excused>>

\* Checkpoint: when it fails, the pending entry on disk stays.
Record(e) ==
  /\ export[e].pc = "answered"
  /\ \/ exported' = export[e].entries /\ UNCHANGED sessionVars
        /\ export' = [export EXCEPT ![e].pc = IF export[e].stop THEN "stopped" ELSE "next",
                                 ![e].page = @ + 1, ![e].stop = FALSE]
     \/ /\ Trouble /\ Untouched /\ UNCHANGED exported
        /\ export' = [export EXCEPT ![e].pc = "stopped", ![e].page = @ + 1, ![e].stop = FALSE]
  /\ UNCHANGED <<wire, creations, excused>>

\* Tasks for several buckets are one export each, with one ledger; the next one
\* is begun also when the last one stopped.
NextBucket(e, g) ==
  /\ export[e].pc = "stopped" \/ (export[e].pc = "next" /\ Untried(e) = {})
  /\ \A h \in Handled(e) : g \cap h = {}
  /\ export' = [export EXCEPT ![e].pc = "next", ![e].group = g, ![e].done = Handled(e), ![e].page = 1]
  /\ UNCHANGED <<sessionVars, exported, wire, creations, excused>>

\* When the token was refused, now or for a page that is therefore skipped,
\* whatever session it is by now is marked as expired. An item that cannot be
\* built ends an export without that.
Close(e) ==
  /\ export[e].pc \in {"next", "stopped"}
  /\ \/ /\ exported' = export[e].entries
        /\ connection' \in {connection, "expired"}
        /\ connection' # connection => \E k \in Key : k[1] \in Handled(e) /\ export[e].entries[k] = "auth"
        /\ export[e].expired /\ export[e].pc = "stopped" => connection' = "expired"
        /\ UNCHANGED <<session, token, keychain, fallback, signIns, handle, account, astray, troubles>>
     \/ Trouble /\ Untouched /\ UNCHANGED exported
  /\ Ends(e)
  /\ UNCHANGED <<wire, creations, excused>>

-----------------------------------------------------------------------------
(* The service and the end of the process.                                   *)

Lands(k) ==
  /\ wire[k] = "sent" /\ creations[k] < 2
  /\ wire' = [wire EXCEPT ![k] = IF \E e \in Exports : export[e].pc = "asked" /\ At(e) = k
                                 THEN "landed" ELSE "none"]
  /\ creations' = [creations EXCEPT ![k] = @ + 1]
  /\ UNCHANGED <<sessionVars, export, exported, excused>>

ExportStep ==
  \/ \E e \in Exports :
       \/ AskToken(e) \/ AcceptToken(e) \/ Refused(e)
       \/ \E g \in Selections : LoadLedger(e, g) \/ NextBucket(e, g)
       \/ \E p \in Page : Submit(e, p) \/ NotSubmitted(e, p)
       \/ Succeeds(e) \/ Fails(e) \/ Misreported(e) \/ Unanswered(e)
       \/ Record(e) \/ Close(e)
  \/ \E k \in Key : Lands(k)

ExportRestart ==
  /\ SessionRestart
  /\ export' = [e \in Exports |-> NoExport]
  /\ UNCHANGED <<exported, wire, creations, excused>>

ExportNext ==
  \/ SessionStep /\ UNCHANGED exportVars
  \/ ExportStep
  \/ ExportRestart

ExportSpec == ExportInit /\ [][ExportNext]_sharingVars

-----------------------------------------------------------------------------
(* Properties.                                                               *)

\* Under one key, that is for one selection, no page or task is created twice,
\* whichever request, answer, write or process is lost and however often the
\* user asks again, unless the service denies a page it has created; and a page
\* that the history calls exported is there.
CreatedOnce ==
  \A k \in Key :
    /\ creations[k] > 1 => k \in excused
    /\ exported[k] = "succeeded" => creations[k] > 0

\* commands.rs (PlannerTaskInput): the key of a task survives reordering and
\* deselection, so that re-exporting it creates no duplicate; todo-export.md:
\* "Re-exporting the same reviewed task skips the already-created task".
TaskOnce ==
  \A p \in Page : Cardinality({k \in Key : k[2] = p /\ creations[k] > 0}) <= 1
=============================================================================
