------------------------- MODULE KnowledgeScheduler -------------------------
(***************************************************************************)
(* The embedding model of the knowledge index: switched on and off by the  *)
(* user, loaded by the first call that needs it, unloaded by the idle      *)
(* timer. Calls run inside the permits of NativeJobs, on a blocking        *)
(* thread, while the switch is turned under their feet.                    *)
(***************************************************************************)
EXTENDS NativeJobs

VARIABLES
  enabled,    \* Scheduler.enabled
  verified,   \* Scheduler.verified is Some
  model,      \* Worker.model is Some
  worker,     \* who has the mutex of Worker
  poisoned,   \* a call panicked with that mutex
  stage,      \* how far the call of with_backend is
  switch      \* how far Scheduler::disable is

schedulerVars == <<enabled, verified, model, worker, poisoned, stage, switch>>
allVars == <<vars, schedulerVars>>

Stages == {"out", "asked", "entered", "checked", "locked", "loaded", "work", "over"}

SchedulerTypeOK ==
  /\ TypeOK
  /\ enabled \in BOOLEAN /\ verified \in BOOLEAN /\ model \in BOOLEAN
  /\ worker \in Indexing \cup {Nobody}
  /\ \A c \in Indexing : worker = c <=> stage[c] \in {"locked", "loaded", "work"}
  /\ poisoned \in BOOLEAN
  /\ stage \in [Indexing -> Stages]
  /\ switch \in {"idle", "cancel", "unload", "forget"}

SchedulerInit ==
  /\ Init
  /\ enabled = FALSE /\ verified = FALSE /\ model = FALSE
  /\ worker = Nobody /\ poisoned = FALSE
  /\ stage = [c \in Indexing |-> "out"]
  /\ switch = "idle"

To(c, s) == stage' = [stage EXCEPT ![c] = s]

-----------------------------------------------------------------------------
(* with_backend: is the index on, then run_indexing.                         *)

Ask(c) ==
  /\ stage[c] = "out" /\ enabled
  /\ To(c, "asked")
  /\ UNCHANGED <<vars, enabled, verified, model, worker, switch, poisoned>>

CallTakes(c) ==
  /\ stage[c] = "asked"
  /\ BackgroundTake(c)
  /\ UNCHANGED schedulerVars

\* Busy: a foreground job waits or somebody has the permit.
CallRefused(c) ==
  /\ stage[c] = "asked" /\ pc[c] = "idle"
  /\ waiting # {} \/ ~Available
  /\ To(c, "out")
  /\ UNCHANGED <<vars, enabled, verified, model, worker, switch, poisoned>>

CallChecked(c) ==
  /\ BackgroundAdmitted(c) \/ BackgroundEngineBusy(c)
  /\ UNCHANGED schedulerVars

CallBegins(c) ==
  /\ Begin(c)
  /\ To(c, "entered")
  /\ UNCHANGED <<enabled, verified, model, worker, switch, poisoned>>

-----------------------------------------------------------------------------
(* The closure.                                                              *)

StillWanted(c) == c \notin cancelled /\ enabled

CheckCall(c) ==
  /\ stage[c] = "entered"
  /\ To(c, IF StillWanted(c) THEN "checked" ELSE "over")
  /\ UNCHANGED <<vars, enabled, verified, model, worker, switch, poisoned>>

LockWorker(c) ==
  /\ stage[c] = "checked" /\ worker = Nobody /\ ~poisoned
  /\ worker' = c
  /\ To(c, "locked")
  /\ UNCHANGED <<vars, enabled, verified, model, switch, poisoned>>

Unlock(c) == worker' = Nobody /\ To(c, "over")

UseModel(c) ==
  /\ stage[c] = "locked" /\ model
  /\ To(c, "work")
  /\ UNCHANGED <<vars, enabled, verified, model, worker, switch, poisoned>>

LoadModel(c) ==
  /\ stage[c] = "locked" /\ ~model /\ verified
  /\ model' = TRUE
  /\ To(c, "loaded")
  /\ UNCHANGED <<vars, enabled, verified, worker, switch, poisoned>>

\* Nothing verified (ModelUnavailable), or the files do not load.
NoModel(c) ==
  /\ stage[c] = "locked" /\ ~model
  /\ Unlock(c)
  /\ UNCHANGED <<vars, enabled, verified, model, switch, poisoned>>

Unasked(c) == TRUE                     \* mutant: no look at the token after loading
Wanted(c) == c \notin cancelled

AfterLoad(c) ==
  /\ stage[c] = "loaded"
  /\ IF Wanted(c) THEN To(c, "work") /\ UNCHANGED worker ELSE Unlock(c)
  /\ UNCHANGED <<vars, enabled, verified, model, switch, poisoned>>

Worked(c) ==
  /\ stage[c] = "work"
  /\ Unlock(c)
  /\ UNCHANGED <<vars, enabled, verified, model, switch, poisoned>>

\* Loading or the work itself panics: the mutex stays poisoned.
Panic(c) ==
  /\ stage[c] \in {"locked", "work"}
  /\ Unlock(c)
  /\ poisoned' = TRUE
  /\ UNCHANGED <<vars, enabled, verified, model, switch>>

\* From then on every lock().unwrap() panics in its turn.
PanicAgain(c) ==
  /\ stage[c] = "checked" /\ poisoned
  /\ To(c, "over")
  /\ UNCHANGED <<vars, enabled, verified, model, worker, poisoned, switch>>

CallReturns(c) ==
  /\ stage[c] = "over"
  /\ Return(c)
  /\ To(c, "out")
  /\ UNCHANGED <<enabled, verified, model, worker, switch, poisoned>>

-----------------------------------------------------------------------------
(* The switch, one command at a time (KnowledgeState.configuration).         *)

Enable ==
  /\ switch = "idle" /\ ~verified
  /\ verified' = TRUE
  /\ enabled' = TRUE
  /\ UNCHANGED <<vars, model, worker, stage, switch, poisoned>>

Disable ==
  /\ switch = "idle"
  /\ enabled' = FALSE
  /\ switch' = "cancel"
  /\ UNCHANGED <<vars, verified, model, worker, stage, poisoned>>

CancelRunning ==
  /\ switch = "cancel"
  /\ IF active \in Indexing THEN CancelCall(active) ELSE UNCHANGED vars
  /\ switch' = "unload"
  /\ UNCHANGED <<enabled, verified, model, worker, stage, poisoned>>

MutexFree == worker = Nobody

Unload ==
  /\ switch = "unload" /\ MutexFree /\ ~poisoned
  /\ model' = FALSE
  /\ switch' = "forget"
  /\ UNCHANGED <<vars, enabled, verified, worker, stage, poisoned>>

\* The blocking task panics, and disable does not look at how it ended.
UnloadPanics ==
  /\ switch = "unload" /\ worker = Nobody /\ poisoned
  /\ switch' = "idle"
  /\ UNCHANGED <<vars, enabled, verified, model, worker, poisoned, stage>>

Forget ==
  /\ switch = "forget"
  /\ verified' = FALSE
  /\ switch' = "idle"
  /\ UNCHANGED <<vars, enabled, model, worker, stage, poisoned>>

TimerWhileEnabled == enabled           \* mutant: the timer ends with disable
TimerRuns == TRUE                      \* started by the first enable, for good

\* Disabled, or 60 s without a call.
UnloadIdle ==
  /\ model /\ MutexFree /\ ~poisoned /\ TimerRuns
  /\ model' = FALSE
  /\ UNCHANGED <<vars, enabled, verified, worker, stage, switch, poisoned>>

-----------------------------------------------------------------------------
CallStep(c) ==
  \/ CallTakes(c) \/ CallRefused(c) \/ CallChecked(c) \/ CallBegins(c)
  \/ CheckCall(c) \/ LockWorker(c) \/ UseModel(c) \/ LoadModel(c) \/ NoModel(c)
  \/ AfterLoad(c) \/ Worked(c) \/ PanicAgain(c) \/ CallReturns(c)

SwitchStep == CancelRunning \/ Unload \/ UnloadPanics \/ Forget

\* Everything of NativeJobs that is not a step of an indexing call.
OtherJobs ==
  /\ \/ \E c \in Reading : BackgroundClaim(c)
     \/ \E c \in Background : DropCall(c) \/ CancelCall(c)
     \/ \E f \in Foreground : Enter(f) \/ ForegroundClaim(f) \/ TryLater(f)
     \/ \E p \in Plain : PlainTake(p) \/ PlainChecked(p)
     \/ \E a \in Foreground \cup Plain : CallEngine(a) \/ EngineReturns(a) \/ FinishJob(a)
     \/ \E s \in Summary : Register(s) \/ SummaryStep(s)
     \/ \E w \in Sweep : Look(w) \/ Probe(w) \/ DropProbe(w)
  /\ UNCHANGED schedulerVars

SchedulerNext ==
  \/ \E c \in Indexing : Ask(c) \/ CallStep(c) \/ Panic(c)
  \/ Enable \/ Disable \/ SwitchStep \/ UnloadIdle
  \/ OtherJobs

(* Code between two awaits runs on; a claim retries every 5 ms and its two   *)
(* deadlines are timers. Only when nothing is slow do native calls and       *)
(* helpers have to end, and nothing at all is assumed of the user's jobs.    *)
(* Disable goes on by itself, and the timer comes back every minute for a    *)
(* mutex that is free at times.                                              *)
SchedulerFair ==
  /\ \A c \in Indexing : WF_allVars(~slow /\ CallStep(c)) /\ WF_allVars(CallChecked(c))
  /\ \A c \in Reading : WF_allVars((BackgroundAdmitted(c) \/ BackgroundEngineBusy(c)) /\ UNCHANGED schedulerVars)
  /\ \A c \in Background : WF_allVars(~slow /\ DropCall(c) /\ UNCHANGED schedulerVars)
  /\ \A f \in Foreground :
       /\ WF_allVars(ForegroundClaim(f) /\ UNCHANGED schedulerVars)
       /\ SF_allVars(PreemptDeadline(f) /\ UNCHANGED schedulerVars)
  /\ \A s \in Summary :
       /\ WF_allVars(GenerateChecked(s) /\ UNCHANGED schedulerVars)
       /\ WF_allVars(~slow /\ Generated(s) /\ UNCHANGED schedulerVars)
  /\ WF_allVars(SwitchStep)
  /\ SF_allVars(~enabled /\ UnloadIdle)

SchedulerSpec == SchedulerInit /\ [][SchedulerNext]_allVars /\ SchedulerFair

-----------------------------------------------------------------------------
(* Once disable has returned nothing is embedded any more, also not by a     *)
(* call that had found the index on and was on its way.                      *)
OffIsOff == \A c \in Indexing : stage[c] = "work" => enabled \/ switch # "idle"

(* A call that loads between the two halves of disable leaves a model        *)
(* behind; the timer finds it, so the memory does come back, unless a call   *)
(* panicked with the mutex.                                                  *)
OffFreesModel == ~enabled /\ ~slow ~> enabled \/ ~model \/ poisoned
=============================================================================
