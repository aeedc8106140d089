---------------------------- MODULE LiveSession ----------------------------
(***************************************************************************)
(* Questions about the recording that is running. A call of `ask` claims   *)
(* the one request slot of the session, sends finalized transcript text to *)
(* the configured provider and puts the answer into the session's history. *)
(* Meanwhile recordings start and stop, requests are cancelled, histories  *)
(* cleared, and the consent to share text is switched and saved.           *)
(***************************************************************************)
EXTENDS Naturals, FiniteSets, Sequences, TLC

CONSTANTS
  Requests,     \* request identities; asking one again is a retry
  WithDocuments, \* the requests that quote reference documents
  Savers,       \* invocations of save_sharing
  EarlyCap,     \* cancellations remembered (32 in the code)
  HistoryCap,   \* answers kept in a session (16 pairs in the code)
  MaxSaves,     \* bound: switches of the consent
  MaxSessions,  \* bound: recordings
  MaxFaults     \* bound: failed writes of the setting

Nobody == "nobody"

ASSUME LiveAssumption ==
  /\ Nobody \notin Requests \cup Savers
  /\ Requests \cap Savers = {} /\ WithDocuments \subseteq Requests
  /\ {EarlyCap, HistoryCap} \subseteq Nat \ {0}
  /\ {MaxSaves, MaxSessions, MaxFaults} \subseteq Nat

VARIABLES
  session,   \* LiveState.inner.session; generation 0 is None
  last,      \* last_generation
  history,   \* the answers of the session: request and session they were asked in
  early,     \* early_cancellations
  consent,   \* sharing, consent_revision, consent_pending, consent_failed
  io,        \* who holds consent_io
  setting,   \* live_text_sharing in the database
  call,      \* the calls under way
  saver,     \* the saves under way
  faults,
  choice,    \* history: what the user last asked for
  void       \* history: calls whose answer nobody may see any more

consentVars == <<consent, io, setting, saver, faults, choice>>
vars == <<session, last, history, early, consentVars, call, void>>

NoSession == [gen |-> 0, transcribes |-> FALSE, docs |-> FALSE, slot |-> Nobody]
IdleCall == [pc |-> "idle", phase |-> 0, gen |-> 0, rev |-> 0,
             seen |-> FALSE, cancelled |-> FALSE]
IdleSaver == [pc |-> "idle", enabled |-> FALSE, rev |-> 0]

Leased == {"resolve", "fetch", "apply", "validate", "send", "wait", "complete"}
HasLease(c) == call[c].pc \in Leased /\ call[c].phase > 1

Session == [gen : 0 .. MaxSessions, transcribes : BOOLEAN, docs : BOOLEAN,
            slot : Requests \cup {Nobody}]
Entry == [req : Requests, gen : 1 .. MaxSessions]
Consent == [sharing : BOOLEAN, rev : Nat, pending : BOOLEAN, failed : BOOLEAN]
Call == [pc : Leased \cup {"idle", "claim", "return"}, phase : 0 .. 3, gen : 0 .. MaxSessions,
         rev : Nat, seen : BOOLEAN, cancelled : BOOLEAN]
Saver == [pc : {"idle", "lock", "write", "apply"}, enabled : BOOLEAN, rev : Nat]

TypeOK ==
  /\ session \in Session
  /\ last \in 0 .. MaxSessions
  /\ history \in Seq(Entry)
  /\ early \in Seq(Requests)
  /\ Len(history) <= HistoryCap /\ Len(early) <= EarlyCap
  /\ consent \in Consent
  /\ io \in Requests \cup Savers \cup {Nobody}
  /\ setting \in BOOLEAN /\ choice \in BOOLEAN /\ faults \in 0 .. MaxFaults
  /\ call \in [Requests -> Call] /\ saver \in [Savers -> Saver]
  /\ void \subseteq Requests

Init ==
  /\ session = NoSession /\ last = 0
  /\ history = <<>> /\ early = <<>>
  /\ consent = [sharing |-> FALSE, rev |-> 0, pending |-> FALSE, failed |-> FALSE]
  /\ io = Nobody /\ setting \in BOOLEAN /\ choice = setting
  /\ call = [c \in Requests |-> IdleCall]
  /\ saver = [s \in Savers |-> IdleSaver]
  /\ faults = 0 /\ void = {}

Members(seq) == {seq[i] : i \in 1 .. Len(seq)}
Owner == {c \in Requests : session.slot = c}

(* Every withdrawal cancels the token of the request in the slot.            *)
CancelToken(these) == call' = [c \in Requests |-> IF c \in these THEN [call[c] EXCEPT !.cancelled = TRUE]
                                                              ELSE call[c]]
NowVoid(these) == void' = void \cup {c \in these : HasLease(c)}

-----------------------------------------------------------------------------
(* The recording: allocate_session and stop.                                 *)

Prepare(transcribes) ==
  /\ last < MaxSessions
  /\ last' = last + 1
  /\ session' = [NoSession EXCEPT !.gen = last + 1, !.transcribes = transcribes]
  /\ history' = <<>> /\ early' = <<>>
  /\ CancelToken(Owner) /\ NowVoid(Requests)
  /\ UNCHANGED consentVars

EndSession ==
  /\ session' = NoSession
  /\ history' = <<>> /\ early' = <<>>
  /\ CancelToken(Owner) /\ NowVoid(Requests)

\* stop, and stop_session for a start that fails after it prepared its session.
Stop ==
  /\ session.gen # 0
  /\ EndSession
  /\ UNCHANGED <<last, consentVars>>

-----------------------------------------------------------------------------
(* The user: cancel, clear_history, set_document_sharing.                    *)

Remember(r) == IF r \in Members(early) THEN early
               ELSE Append(IF Len(early) = EarlyCap THEN Tail(early) ELSE early, r)

Cancel(r) ==
  /\ early' = Remember(r)
  /\ CancelToken(Owner \cap {r})
  /\ NowVoid({r})
  /\ UNCHANGED <<session, last, history, consentVars>>

ClearHistory ==
  /\ session.gen # 0
  /\ history' = <<>>
  /\ CancelToken(Owner) /\ NowVoid(Requests)
  /\ UNCHANGED <<session, last, early, consentVars>>

ShareDocuments(enabled) ==
  /\ session.gen # 0
  /\ session' = [session EXCEPT !.docs = enabled]
  /\ IF enabled THEN UNCHANGED <<call, void>>
                ELSE CancelToken(Owner) /\ NowVoid(Requests)
  /\ UNCHANGED <<last, history, early, consentVars>>

-----------------------------------------------------------------------------
(* save_sharing: fail closed first, write under consent_io, then open again. *)

Effective == consent.sharing /\ ~consent.pending /\ ~consent.failed

SaveBegin(s, enabled) ==
  /\ saver[s].pc = "idle" /\ consent.rev < MaxSaves
  /\ saver' = [saver EXCEPT ![s] = [pc |-> "lock", enabled |-> enabled, rev |-> consent.rev + 1]]
  /\ consent' = [consent EXCEPT !.rev = @ + 1, !.sharing = FALSE, !.pending = TRUE]
  /\ choice' = enabled
  /\ CancelToken(Owner) /\ NowVoid(Requests)
  /\ UNCHANGED <<session, last, history, early, io, setting, faults>>

\* A later save has taken over: this one returns without writing.
SaveLock(s) ==
  /\ saver[s].pc = "lock" /\ io = Nobody
  /\ IF saver[s].rev # consent.rev
     THEN saver' = [saver EXCEPT ![s] = IdleSaver] /\ UNCHANGED io
     ELSE saver' = [saver EXCEPT ![s].pc = "write"] /\ io' = s
  /\ UNCHANGED <<session, last, history, early, consent, setting, call, faults, choice, void>>

SaveWrite(s) ==
  /\ saver[s].pc = "write"
  /\ setting' = saver[s].enabled
  /\ saver' = [saver EXCEPT ![s].pc = "apply"]
  /\ UNCHANGED <<session, last, history, early, consent, io, call, faults, choice, void>>

Blind(s) == TRUE     \* mutant: an overtaken save still opens the gate
Newest(s) == saver[s].rev = consent.rev   \* consent_revision

SaveApply(s) ==
  /\ saver[s].pc = "apply"
  /\ consent' = IF Newest(s)
                THEN [consent EXCEPT !.pending = FALSE, !.failed = FALSE, !.sharing = saver[s].enabled]
                ELSE consent
  /\ saver' = [saver EXCEPT ![s] = IdleSaver]
  /\ io' = Nobody
  /\ UNCHANGED <<session, last, history, early, setting, call, faults, choice, void>>

\* The row cannot be written: sharing stays off until a later save succeeds.
SaveFails(s) ==
  /\ saver[s].pc = "write" /\ faults < MaxFaults
  /\ faults' = faults + 1
  /\ consent' = IF Newest(s) THEN [consent EXCEPT !.pending = FALSE, !.failed = TRUE] ELSE consent
  /\ saver' = [saver EXCEPT ![s] = IdleSaver]
  /\ io' = Nobody
  /\ UNCHANGED <<session, last, history, early, setting, call, choice, void>>

-----------------------------------------------------------------------------
(* load_sharing, which a call runs when it begins (phase 1), before it sends *)
(* (2) and before it delivers (3). It reads the revision, then waits for     *)
(* consent_io, and applies what it read only if no save came in between.     *)

callOnly == <<session, last, history, early, consent, setting, saver, faults, choice, void>>

Goto(c, pc) == call' = [call EXCEPT ![c].pc = pc]
Load(c, phase) == call' = [call EXCEPT ![c].pc = "fetch", ![c].phase = phase, ![c].rev = consent.rev]

Ask(c) ==
  /\ call[c].pc = "idle" /\ session.gen # 0
  /\ call' = [call EXCEPT ![c] = [pc |-> "fetch", phase |-> 1, gen |-> session.gen,
                                  rev |-> consent.rev, seen |-> FALSE, cancelled |-> FALSE]]
  /\ UNCHANGED <<callOnly, io>>

LoadFetch(c) ==
  /\ call[c].pc = "fetch" /\ io = Nobody
  /\ io' = c
  /\ call' = [call EXCEPT ![c].seen = setting, ![c].pc = "apply"]
  /\ UNCHANGED callOnly

Fresh(c) == consent.rev = call[c].rev /\ ~consent.pending /\ ~consent.failed

Loaded(c) == [call EXCEPT ![c].pc = IF call[c].phase = 1 THEN "claim" ELSE "validate",
                          ![c].rev = 0, ![c].seen = FALSE]

LoadApply(c) ==
  /\ call[c].pc = "apply"
  /\ io' = Nobody
  /\ consent' = IF Fresh(c) THEN [consent EXCEPT !.sharing = call[c].seen] ELSE consent
  /\ call' = IF Fresh(c) /\ ~call[c].seen
             THEN [d \in Requests |-> IF d \in Owner THEN [Loaded(c)[d] EXCEPT !.cancelled = TRUE]
                                                  ELSE Loaded(c)[d]]
             ELSE Loaded(c)
  /\ UNCHANGED <<session, last, history, early, setting, saver, faults, choice, void>>

-----------------------------------------------------------------------------
(* ask and answer.                                                           *)

Answered == {history[i].req : i \in 1 .. Len(history)}

Claim(c) ==
  /\ call[c].pc = "claim"
  /\ c \notin Members(early)
  /\ session.gen = call[c].gen /\ session.transcribes
  /\ Effective
  /\ session.slot = Nobody
  /\ c \notin Answered
  /\ session' = [session EXCEPT !.slot = c]
  /\ call' = [call EXCEPT ![c].pc = "resolve", ![c].phase = 2]
  /\ UNCHANGED <<last, history, early, consentVars, void>>

\* Settings missing or late, or one of the guards of claim does not hold.
Refused(c) ==
  /\ call[c].phase = 1
  /\ call' = [call EXCEPT ![c] = IdleCall]
  /\ io' = IF io = c THEN Nobody ELSE io
  /\ UNCHANGED callOnly

Valid(c) ==
  /\ ~call[c].cancelled
  /\ session.gen = call[c].gen
  /\ Effective
  /\ session.slot = c
  /\ c \in WithDocuments => session.docs

\* The provider is resolved; the prompt is built from the snapshot of the session.
BuildPrompt(c) ==
  /\ call[c].pc = "resolve" /\ Valid(c)
  /\ Load(c, 2)
  /\ UNCHANGED <<callOnly, io>>

Validate(c) ==
  /\ call[c].pc = "validate" /\ Valid(c)
  /\ Goto(c, IF call[c].phase = 2 THEN "send" ELSE "complete")
  /\ UNCHANGED <<callOnly, io>>

\* mutant: the prompt leaves without another look at the token
Eager(c) == TRUE
\* dispatch_resolved_text looks at the token once more before it sends.
StillWanted(c) == ~call[c].cancelled

Send(c) ==
  /\ call[c].pc = "send" /\ StillWanted(c)
  /\ Goto(c, "wait")
  /\ UNCHANGED <<callOnly, io>>

Reply(c) ==
  /\ call[c].pc = "wait"
  /\ Load(c, 3)
  /\ UNCHANGED <<callOnly, io>>

\* mutant: complete relies on the token it saw before it waited for the lock
UncheckedToken(c) == session.gen = call[c].gen /\ Effective /\ session.slot = c
Deliverable(c) == Valid(c)

Keep(entries) == IF Len(entries) > HistoryCap THEN Tail(entries) ELSE entries

Complete(c) ==
  /\ call[c].pc = "complete" /\ Deliverable(c)
  /\ history' = Keep(Append(history, [req |-> c, gen |-> call[c].gen]))
  /\ Goto(c, "return")
  /\ UNCHANGED <<session, last, early, consentVars, void>>

\* The drop of a LiveLease frees the slot of its own session only.
AnySlot(c) == session.slot # Nobody    \* mutant: a late drop frees whatever slot there is
OwnSlot(c) == session.gen = call[c].gen /\ session.slot = c

DropLease(c) ==
  /\ call' = [call EXCEPT ![c] = IdleCall]
  /\ session' = IF OwnSlot(c) THEN [session EXCEPT !.slot = Nobody] ELSE session
  /\ void' = void \ {c}

Return(c) ==
  /\ call[c].pc = "return"
  /\ DropLease(c)
  /\ UNCHANGED <<last, history, early, consentVars>>

\* Cancelled, past the deadline, refused by a check, or failed by the provider.
Fail(c) ==
  /\ HasLease(c)
  /\ DropLease(c)
  /\ io' = IF io = c THEN Nobody ELSE io
  /\ UNCHANGED <<last, history, early, consent, setting, saver, faults, choice>>

CallStep(c) ==
  \/ LoadFetch(c) \/ LoadApply(c)
  \/ Claim(c) \/ Refused(c)
  \/ BuildPrompt(c) \/ Validate(c) \/ Send(c) \/ Reply(c)
  \/ Complete(c) \/ Return(c) \/ Fail(c)

SaverStep(s) == SaveLock(s) \/ SaveWrite(s) \/ SaveApply(s) \/ SaveFails(s)

UserStep ==
  \/ \E r \in Requests : Cancel(r)
  \/ ClearHistory
  \/ \E enabled \in BOOLEAN : ShareDocuments(enabled) \/ \E s \in Savers : SaveBegin(s, enabled)

RecordingStep ==
  \/ \E transcribes \in BOOLEAN : Prepare(transcribes)
  \/ Stop

Next ==
  \/ RecordingStep \/ UserStep
  \/ \E c \in Requests : Ask(c) \/ CallStep(c)
  \/ \E s \in Savers : SaverStep(s)

Spec == Init /\ [][Next]_vars

-----------------------------------------------------------------------------
(* Sharing is never on against the user's last word, however saves and loads *)
(* interleave; and once all saves are through without a failure, the         *)
(* database has that word too. While the gate is closed for a save, a save   *)
(* that will open or shut it is still under way.                             *)
ConsentKept ==
  /\ Effective => choice
  /\ consent.pending => \E s \in Savers : saver[s].pc # "idle" /\ Newest(s)
  /\ ~consent.failed /\ (\A s \in Savers : saver[s].pc = "idle") => setting = choice

(* No text is sent and no answer delivered for a call whose recording ended, *)
(* whose request was cancelled, whose history was cleared or whose consent   *)
(* was withdrawn after it claimed the slot, even if consent has come back.   *)
Wanted == \A c \in Requests :
  \/ call[c].pc = "send" /\ call'[c].pc = "wait"
  \/ call[c].pc = "complete" /\ call'[c].pc = "return"
  => c \notin void /\ c \notin Members(early)
OnlyWanted == [][Wanted]_vars

(* The history of a session has answers to its own questions, each once,     *)
(* and the slot belongs to a call of that session that still holds a lease.  *)
OwnHistory ==
  /\ \A i, j \in 1 .. Len(history) :
       /\ history[i].gen = session.gen
       /\ history[i].req = history[j].req => i = j
  /\ session.slot # Nobody =>
       /\ call[session.slot].gen = session.gen
       /\ HasLease(session.slot) \/ call[session.slot].pc = "return"

Interchangeable == Permutations(Savers)
=============================================================================
