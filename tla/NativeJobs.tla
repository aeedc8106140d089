----------------------------- MODULE NativeJobs -----------------------------
(***************************************************************************)
(* Who may use the speech and embedding engines. Two semaphores with one   *)
(* permit each: JOBS is held for a whole job, NATIVE for one native call,  *)
(* which nothing can interrupt. Indexing calls step aside for a recording, *)
(* import, retranscription or speaker detection; so do local summaries.    *)
(***************************************************************************)
EXTENDS Integers, FiniteSets

CONSTANTS
  Indexing,    \* calls of run_indexing: JOBS, then NATIVE
  Reading,     \* background snapshot reads: JOBS alone (claim_snapshot)
  Foreground,  \* callers of claim_job_preempting_local_summary
  Plain,       \* callers of claim_job: edits, model loading, backup, deletion
  Summary,     \* local summaries, which claim JOBS for each generation
  Sweep,       \* the start-up cleanup of documents, which only probes JOBS
  Nobody

Background == Indexing \cup Reading
Actor == Background \cup Foreground \cup Plain \cup Summary \cup Sweep

ASSUME ActorAssumption ==
  /\ Nobody \notin Actor
  /\ Indexing \cap (Reading \cup Foreground \cup Plain \cup Summary \cup Sweep) = {}
  /\ Reading \cap (Foreground \cup Plain \cup Summary \cup Sweep) = {}
  /\ Foreground \cap (Plain \cup Summary \cup Sweep) = {}
  /\ Plain \cap (Summary \cup Sweep) = {}
  /\ Summary \cap Sweep = {}

VARIABLES
  jobs,       \* who has the permit of JOBS
  native,     \* whose call has the permit of NATIVE
  priority,   \* the call that claims with PRIORITY locked
  waiting,    \* Priority.foreground: callers inside ForegroundPriority
  active,     \* Priority.active: the call a foreground job would cancel
  cancelled,  \* tokens set: of background calls and local summaries
  pc,         \* where every actor is
  slow        \* background work and helpers may outlast 2 s and 10 s

permitVars == <<jobs, native>>
vars == <<jobs, native, priority, waiting, active, cancelled, pc, slow>>

Steps == {"idle", "check", "admitted", "running", "ending", "job", "registered", "looked",
          "preempting", "retry", "claiming", "recheck", "stopping", "queued", "handover", "refused"}

TypeOK ==
  /\ jobs \in Actor \cup {Nobody}
  /\ native \in Indexing \cup Foreground \cup Plain \cup {Nobody}
  /\ priority \in Background \cup {Nobody}
  /\ waiting \in SUBSET Foreground
  /\ active \in Background \cup {Nobody}
  /\ cancelled \in SUBSET (Background \cup Summary)
  /\ pc \in [Actor -> Steps]
  /\ slow \in BOOLEAN

Init ==
  /\ jobs = Nobody /\ native = Nobody
  /\ priority = Nobody /\ waiting = {} /\ active = Nobody
  /\ cancelled = {}
  /\ pc = [a \in Actor |-> "idle"]
  /\ slow \in BOOLEAN

Goto(a, step) == pc' = [pc EXCEPT ![a] = step]

\* A released permit goes to the caller that queues for it, past any try.
Queued == {f \in Foreground : pc[f] = "queued"}
Available == jobs = Nobody /\ Queued = {}

-----------------------------------------------------------------------------
(* claim_job takes JOBS, then looks whether a call of an earlier job is      *)
(* still inside the engine. If so the permit is dropped again.               *)

Take(a, from, to) ==
  /\ pc[a] = from
  /\ Available
  /\ jobs' = a
  /\ Goto(a, to)

NativeIgnored == TRUE            \* mutant: the engine is not looked at
NativeFree == native = Nobody

Checked(a, from, to) ==
  /\ pc[a] = from /\ NativeFree
  /\ Goto(a, to)
  /\ UNCHANGED jobs

EngineBusy(a, from, to) ==
  /\ pc[a] = from /\ ~NativeFree
  /\ jobs' = Nobody
  /\ Goto(a, to)

-----------------------------------------------------------------------------
(* Background calls: run_indexing and claim_snapshot. They claim and mark    *)
(* themselves active under the lock of PRIORITY; a refusal changes nothing.  *)

ClaimsAnyway == TRUE             \* mutant: foreground_waiting was asked before the lock
NobodyWaits == waiting = {}

BackgroundTake(c) ==
  /\ priority = Nobody /\ NobodyWaits
  /\ Take(c, "idle", "check")
  /\ priority' = c
  /\ UNCHANGED <<native, waiting, active, cancelled, slow>>

BackgroundAdmitted(c) ==
  /\ Checked(c, "check", "admitted")
  /\ priority' = Nobody
  /\ active' = c
  /\ UNCHANGED <<native, waiting, cancelled, slow>>

BackgroundEngineBusy(c) ==
  /\ EngineBusy(c, "check", "idle")
  /\ priority' = Nobody
  /\ UNCHANGED <<native, waiting, active, cancelled, slow>>

\* run_cancellable_with_guard: NATIVE, then the closure on a blocking thread.
UsesEngine(c) == c \in Indexing

Begin(c) ==
  /\ UsesEngine(c) /\ pc[c] = "admitted"
  /\ native = Nobody
  /\ native' = c
  /\ Goto(c, "running")
  /\ UNCHANGED <<jobs, priority, waiting, active, cancelled, slow>>

\* Dropping the waiter or stopping the index sets the token of the active
\* call; a native call goes on.
CancelCall(c) ==
  /\ active = c
  /\ cancelled' = cancelled \cup {c}
  /\ UNCHANGED <<permitVars, priority, waiting, active, pc, slow>>

(* The closure's locals drop in reverse order: NATIVE before the ActiveCall. *)
MarkDropped(c) == Nobody         \* mutant: the completion guard goes first
MarkKept(c) == active

Return(c) ==
  /\ pc[c] = "running"
  /\ native' = Nobody
  /\ active' = MarkKept(c)
  /\ Goto(c, "ending")
  /\ UNCHANGED <<jobs, priority, waiting, cancelled, slow>>

\* ActiveCall::drop; a snapshot read that ends or stops has nothing else.
DropCall(c) ==
  /\ pc[c] = "ending" \/ (c \in Reading /\ pc[c] = "admitted")
  /\ priority = Nobody
  /\ jobs' = Nobody
  /\ active' = IF active = c THEN Nobody ELSE active
  /\ cancelled' = cancelled \ {c}       \* the token dies with the call
  /\ Goto(c, "idle")
  /\ UNCHANGED <<native, priority, waiting, slow>>

-----------------------------------------------------------------------------
(* claim_job_preempting_local_summary.                                       *)

Preempts(f) == IF active = Nobody THEN "claiming" ELSE "preempting"

Enter(f) ==
  /\ pc[f] = "idle"
  /\ priority = Nobody
  /\ waiting' = waiting \cup {f}
  /\ cancelled' = cancelled \cup ({active} \ {Nobody})
  /\ Goto(f, Preempts(f))
  /\ UNCHANGED <<permitVars, priority, active, slow>>

\* For 2 s the permit is tried again and again; the last try comes after.
TakeAgain(f) ==
  /\ \/ Take(f, "preempting", "retry")
     \/ Take(f, "claiming", "recheck")
  /\ UNCHANGED <<native, priority, waiting, active, cancelled, slow>>

EngineBusyAgain(f) ==
  /\ EngineBusy(f, "retry", "preempting")
  /\ UNCHANGED <<native, priority, waiting, active, cancelled, slow>>

Admitted(f) ==
  /\ \/ Checked(f, "retry", "job")
     \/ Checked(f, "recheck", "job")
     \/ Checked(f, "handover", "job")
  /\ waiting' = waiting \ {f}
  /\ UNCHANGED <<native, priority, active, cancelled, slow>>

PreemptDeadline(f) ==
  /\ pc[f] = "preempting"
  /\ slow \/ (jobs \notin Background /\ native \notin Background)
  /\ Goto(f, "claiming")
  /\ UNCHANGED <<permitVars, priority, waiting, active, cancelled, slow>>

LastTryFails(f) ==
  /\ \/ pc[f] = "claiming" /\ ~Available /\ Goto(f, "stopping") /\ UNCHANGED jobs
     \/ EngineBusy(f, "recheck", "stopping")
  /\ UNCHANGED <<native, priority, waiting, active, cancelled, slow>>

Refuse(f) ==
  /\ Goto(f, "refused")
  /\ waiting' = waiting \ {f}

Running == {s \in Summary : pc[s] # "idle"}   \* has_active_local_summary

NoSummaryToStop(f) ==
  /\ pc[f] = "stopping" /\ Running = {}
  /\ Refuse(f)
  /\ UNCHANGED <<permitVars, priority, active, cancelled, slow>>

StopSummaries(f) ==
  /\ pc[f] = "stopping" /\ Running # {}
  /\ cancelled' = cancelled \cup Running
  /\ Goto(f, "queued")
  /\ UNCHANGED <<permitVars, priority, waiting, active, slow>>

TakeQueued(f) ==
  /\ pc[f] = "queued" /\ jobs = Nobody
  /\ jobs' = f
  /\ Goto(f, "handover")
  /\ UNCHANGED <<native, priority, waiting, active, cancelled, slow>>

HandoverEngineBusy(f) ==
  /\ pc[f] = "handover" /\ ~NativeFree
  /\ jobs' = Nobody
  /\ Refuse(f)
  /\ UNCHANGED <<native, priority, active, cancelled, slow>>

NeverGivesUp == jobs \notin Summary   \* mutant: waits for the helper
HelperTooSlow == slow \/ jobs \notin Summary

QueueDeadline(f) ==
  /\ pc[f] = "queued"
  /\ HelperTooSlow
  /\ Refuse(f)
  /\ UNCHANGED <<permitVars, priority, active, cancelled, slow>>

TryLater(f) ==
  /\ pc[f] = "refused"
  /\ Goto(f, "idle")
  /\ UNCHANGED <<permitVars, priority, waiting, active, cancelled, slow>>

-----------------------------------------------------------------------------
(* Jobs with a permit call the engine; a job may end, its worker aborted,    *)
(* while its last call is still inside.                                      *)

PlainTake(p) ==
  /\ Take(p, "idle", "check")
  /\ UNCHANGED <<native, priority, waiting, active, cancelled, slow>>

PlainChecked(p) ==
  /\ Checked(p, "check", "job") \/ EngineBusy(p, "check", "idle")
  /\ UNCHANGED <<native, priority, waiting, active, cancelled, slow>>

CallEngine(a) ==
  /\ pc[a] = "job" /\ native = Nobody
  /\ native' = a
  /\ UNCHANGED <<jobs, priority, waiting, active, cancelled, pc, slow>>

EngineReturns(a) ==
  /\ native = a
  /\ native' = Nobody
  /\ UNCHANGED <<jobs, priority, waiting, active, cancelled, pc, slow>>

FinishJob(a) ==
  /\ pc[a] = "job"
  /\ a \in Plain => native # a           \* nobody aborts a command
  /\ jobs' = Nobody
  /\ Goto(a, "idle")
  /\ UNCHANGED <<native, priority, waiting, active, cancelled, slow>>

-----------------------------------------------------------------------------
(* A local summary is registered for its whole length and claims JOBS for    *)
(* each generation. The helper is a process of its own: NATIVE stays free.   *)

Register(s) ==
  /\ pc[s] = "idle"
  /\ Goto(s, "registered")
  /\ UNCHANGED <<permitVars, priority, waiting, active, cancelled, slow>>

Generate(s) ==
  /\ s \notin cancelled
  /\ Take(s, "registered", "check")
  /\ UNCHANGED <<native, priority, waiting, active, cancelled, slow>>

GenerateChecked(s) ==
  /\ Checked(s, "check", "job") \/ EngineBusy(s, "check", "registered")
  /\ UNCHANGED <<native, priority, waiting, active, cancelled, slow>>

Generated(s) ==
  /\ pc[s] = "job"
  /\ jobs' = Nobody
  /\ Goto(s, "registered")
  /\ UNCHANGED <<native, priority, waiting, active, cancelled, slow>>

Unregister(s) ==
  /\ pc[s] = "registered"
  /\ Goto(s, "idle")
  /\ cancelled' = cancelled \ {s}
  /\ UNCHANGED <<permitVars, priority, waiting, active, slow>>

-----------------------------------------------------------------------------
(* idle() of the document cleanup: no foreground job waits, then a probe of  *)
(* JOBS whose permit is dropped at once.                                     *)

Look(w) ==
  /\ pc[w] = "idle"
  /\ priority = Nobody /\ NobodyWaits
  /\ Goto(w, "looked")
  /\ UNCHANGED <<permitVars, priority, waiting, active, cancelled, slow>>

Probe(w) ==
  /\ \/ Take(w, "looked", "check")
     \/ pc[w] = "looked" /\ ~Available /\ Goto(w, "idle") /\ UNCHANGED jobs
  /\ UNCHANGED <<native, priority, waiting, active, cancelled, slow>>

DropProbe(w) ==
  /\ pc[w] = "check"
  /\ jobs' = Nobody
  /\ Goto(w, "idle")
  /\ UNCHANGED <<native, priority, waiting, active, cancelled, slow>>

-----------------------------------------------------------------------------
BackgroundClaim(c) == BackgroundTake(c) \/ BackgroundAdmitted(c) \/ BackgroundEngineBusy(c)
BackgroundEnd(c) == Begin(c) \/ Return(c) \/ DropCall(c)

ForegroundClaim(f) ==
  \/ TakeAgain(f) \/ EngineBusyAgain(f) \/ Admitted(f) \/ PreemptDeadline(f)
  \/ LastTryFails(f) \/ NoSummaryToStop(f) \/ StopSummaries(f)
  \/ TakeQueued(f) \/ HandoverEngineBusy(f) \/ QueueDeadline(f)

SummaryStep(s) == Generate(s) \/ GenerateChecked(s) \/ Generated(s) \/ Unregister(s)

Next ==
  \/ \E c \in Background : BackgroundClaim(c) \/ BackgroundEnd(c) \/ CancelCall(c)
  \/ \E f \in Foreground : Enter(f) \/ ForegroundClaim(f) \/ TryLater(f)
  \/ \E p \in Plain : PlainTake(p) \/ PlainChecked(p)
  \/ \E a \in Foreground \cup Plain : CallEngine(a) \/ EngineReturns(a) \/ FinishJob(a)
  \/ \E s \in Summary : Register(s) \/ SummaryStep(s)
  \/ \E w \in Sweep : Look(w) \/ Probe(w) \/ DropProbe(w)

Spec == Init /\ [][Next]_vars

-----------------------------------------------------------------------------
(* What the permits are for.                                                 *)

(* Whoever was admitted finds the engine free or busy with its own call: no  *)
(* call of an earlier, cancelled job is still inside (claim_job looks at     *)
(* NATIVE; run_cancellable_with_guard keeps JOBS until the call returned).   *)
OwnNative ==
  \A a \in Actor : pc[a] \in {"admitted", "running", "job"} => native \in {a, Nobody}

\* As long as a background call has either permit, it is the one that
\* ForegroundPriority::enter cancels and waits for.
PreemptionVisible ==
  \A c \in Background :
    (jobs = c /\ priority # c) \/ native = c => active = c

\* None starts once foreground is raised, and entering cancels the one that
\* had started before.
ToldToStop == waiting # {} /\ active # Nobody => active \in cancelled

(* Indexing yields: it stays visible to preemption until all of its          *)
(* resources are available again, and whatever runs while a foreground job   *)
(* waits has been told to stop (run_cancellable_with_guard, run_indexing).   *)
IndexingYields == PreemptionVisible /\ ToldToStop

(* Indexing never costs a recording its start: unless a bounded input takes  *)
(* longer than the 2 s that the claim waits, no background call has either   *)
(* permit when the last try of a foreground job fails.                       *)
FailsLastTry(f) == pc[f] \in {"claiming", "recheck"} /\ pc'[f] = "stopping"
NotRefusedByBackground ==
  [][\A f \in Foreground :
       ~slow /\ FailsLastTry(f) => jobs \notin Background /\ native \notin Background]_vars

(* Start is never stuck in its claim, whatever holds the permits and even    *)
(* when a native call does not return: both waits have a deadline.           *)
ClaimDecided == \A f \in Foreground : f \in waiting ~> f \notin waiting
=============================================================================
