--------------------------- MODULE NativeJobsProofs ---------------------------
(***************************************************************************)
(* For any number of indexing calls, foreground jobs, commands, summaries  *)
(* and probes: an admitted job never meets a foreign call in the engine,   *)
(* and indexing always yields. The same holds while the index is switched  *)
(* on and off under running calls, and off means off.                      *)
(***************************************************************************)
EXTENDS KnowledgeScheduler, TLAPS

Holding == {"check", "admitted", "running", "ending", "job", "retry", "recheck", "handover"}

\* Where an actor is tells whether it has JOBS.
Holder == \A a \in Actor : pc[a] \in Holding <=> jobs = a

\* A background call is in the engine only while its closure runs.
InsideRuns == \A c \in Background : native = c => pc[c] = "running"

\* PRIORITY is locked exactly during a background claim; nobody waits then.
Locked ==
  /\ \A c \in Background : pc[c] = "check" <=> priority = c
  /\ priority # Nobody => waiting = {}

\* A foreground job waits from its first request to its answer; past the 2 s
\* of its first wait, no background call has a permit, unless one is slow.
Claimants ==
  \A f \in Foreground :
    f \in waiting <=> pc[f] \in {"preempting", "retry", "claiming", "recheck",
                               "stopping", "queued", "handover"}
Cleared ==
  \A f \in Foreground :
    ~slow /\ pc[f] \in {"claiming", "recheck"} => jobs \notin Background /\ native \notin Background

IInv ==
  /\ TypeOK
  /\ Holder /\ InsideRuns /\ Locked /\ Claimants /\ Cleared
  /\ OwnNative /\ PreemptionVisible /\ ToldToStop

USE ActorAssumption

LEMMA InitInv == Init => IInv
BY DEF Init, IInv, TypeOK, Steps, Actor, Background, Holder, Holding, InsideRuns, Locked,
   Claimants, Cleared,
   OwnNative, PreemptionVisible, ToldToStop

(* The claims, calls and ends of background calls.                           *)
LEMMA BackgroundKeeps ==
  ASSUME IInv, NEW c \in Background,
         BackgroundClaim(c) \/ BackgroundEnd(c) \/ CancelCall(c)
  PROVE  IInv'
<1> USE DEF IInv, TypeOK, Steps, Actor, Background, Holder, Holding, InsideRuns, Locked,
            Claimants, Cleared,
            OwnNative, PreemptionVisible, ToldToStop, Goto, Available, permitVars
<1>1. CASE BackgroundTake(c)
  BY <1>1 DEF BackgroundTake, Take, NobodyWaits
<1>2. CASE BackgroundAdmitted(c)
  BY <1>2 DEF BackgroundAdmitted, Checked, NativeFree
<1>3. CASE BackgroundEngineBusy(c)
  BY <1>3 DEF BackgroundEngineBusy, EngineBusy, NativeFree
<1>4. CASE Begin(c)
  BY <1>4 DEF Begin, UsesEngine
<1>5. CASE Return(c)
  BY <1>5 DEF Return, MarkKept
<1>6. CASE DropCall(c)
  BY <1>6 DEF DropCall
<1>7. CASE CancelCall(c)
  BY <1>7 DEF CancelCall
<1> QED
  BY <1>1, <1>2, <1>3, <1>4, <1>5, <1>6, <1>7 DEF BackgroundClaim, BackgroundEnd

(* A foreground job from its first request to its answer.                    *)
LEMMA ForegroundKeeps ==
  ASSUME IInv, NEW f \in Foreground, Enter(f) \/ ForegroundClaim(f) \/ TryLater(f)
  PROVE  IInv'
<1> USE DEF IInv, TypeOK, Steps, Actor, Background, Holder, Holding, InsideRuns, Locked,
            Claimants, Cleared,
            OwnNative, PreemptionVisible, ToldToStop, Goto, Available, permitVars
<1>1. CASE Enter(f)
  BY <1>1 DEF Enter, Preempts
<1>2. CASE TakeAgain(f)
  BY <1>2 DEF TakeAgain, Take
<1>3. CASE EngineBusyAgain(f)
  BY <1>3 DEF EngineBusyAgain, EngineBusy, NativeFree
<1>4. CASE Admitted(f)
  BY <1>4 DEF Admitted, Checked, NativeFree
<1>5. CASE PreemptDeadline(f)
  BY <1>5 DEF PreemptDeadline
<1>6. CASE LastTryFails(f)
  BY <1>6 DEF LastTryFails, EngineBusy, NativeFree
<1>7. CASE NoSummaryToStop(f)
  BY <1>7 DEF NoSummaryToStop, Refuse
<1>8. CASE StopSummaries(f)
  BY <1>8 DEF StopSummaries, Running
<1>9. CASE TakeQueued(f)
  BY <1>9 DEF TakeQueued
<1>10. CASE HandoverEngineBusy(f)
  BY <1>10 DEF HandoverEngineBusy, Refuse, NativeFree
<1>11. CASE QueueDeadline(f)
  BY <1>11 DEF QueueDeadline, Refuse
<1>12. CASE TryLater(f)
  BY <1>12 DEF TryLater
<1> QED
  BY <1>1, <1>2, <1>3, <1>4, <1>5, <1>6, <1>7, <1>8, <1>9, <1>10, <1>11, <1>12
  DEF ForegroundClaim

(* Admitted jobs use the engine and end, aborted ones under a running call.  *)
LEMMA JobKeeps ==
  ASSUME IInv,
         \/ \E p \in Plain : PlainTake(p) \/ PlainChecked(p)
         \/ \E a \in Foreground \cup Plain : CallEngine(a) \/ EngineReturns(a) \/ FinishJob(a)
  PROVE  IInv'
<1> USE DEF IInv, TypeOK, Steps, Actor, Background, Holder, Holding, InsideRuns, Locked,
            Claimants, Cleared,
            OwnNative, PreemptionVisible, ToldToStop, Goto, Available
<1>1. ASSUME NEW p \in Plain, PlainTake(p) PROVE IInv'
  BY <1>1 DEF PlainTake, Take
<1>2. ASSUME NEW p \in Plain, PlainChecked(p) PROVE IInv'
  BY <1>2 DEF PlainChecked, Checked, EngineBusy, NativeFree
<1>3. ASSUME NEW a \in Foreground \cup Plain, CallEngine(a) PROVE IInv'
  BY <1>3 DEF CallEngine
<1>4. ASSUME NEW a \in Foreground \cup Plain, EngineReturns(a) PROVE IInv'
  BY <1>4 DEF EngineReturns
<1>5. ASSUME NEW a \in Foreground \cup Plain, FinishJob(a) PROVE IInv'
  BY <1>5 DEF FinishJob
<1> QED
  BY <1>1, <1>2, <1>3, <1>4, <1>5

(* Local summaries and the clean-up probe.                                   *)
LEMMA SummaryKeeps ==
  ASSUME IInv,
         \/ \E s \in Summary : Register(s) \/ SummaryStep(s)
         \/ \E w \in Sweep : Look(w) \/ Probe(w) \/ DropProbe(w)
  PROVE  IInv'
<1> USE DEF IInv, TypeOK, Steps, Actor, Background, Holder, Holding, InsideRuns, Locked,
            Claimants, Cleared,
            OwnNative, PreemptionVisible, ToldToStop, Goto, Available, permitVars
<1>1. ASSUME NEW s \in Summary, Register(s) PROVE IInv'
  BY <1>1 DEF Register
<1>2. ASSUME NEW s \in Summary, Generate(s) PROVE IInv'
  BY <1>2 DEF Generate, Take
<1>3. ASSUME NEW s \in Summary, GenerateChecked(s) PROVE IInv'
  BY <1>3 DEF GenerateChecked, Checked, EngineBusy, NativeFree
<1>4. ASSUME NEW s \in Summary, Generated(s) PROVE IInv'
  BY <1>4 DEF Generated
<1>5. ASSUME NEW s \in Summary, Unregister(s) PROVE IInv'
  BY <1>5 DEF Unregister
<1>6. ASSUME NEW w \in Sweep, Look(w) PROVE IInv'
  BY <1>6 DEF Look
<1>7. ASSUME NEW w \in Sweep, Probe(w) PROVE IInv'
  BY <1>7 DEF Probe, Take
<1>8. ASSUME NEW w \in Sweep, DropProbe(w) PROVE IInv'
  BY <1>8 DEF DropProbe
<1> QED
  BY <1>1, <1>2, <1>3, <1>4, <1>5, <1>6, <1>7, <1>8 DEF SummaryStep

LEMMA StepInv == IInv /\ [Next]_vars => IInv'
<1> SUFFICES ASSUME IInv, [Next]_vars PROVE IInv'
  OBVIOUS
<1>1. CASE UNCHANGED vars
  BY <1>1 DEF vars, permitVars, IInv, TypeOK, Holder, InsideRuns, Locked, Claimants, Cleared,
     OwnNative, PreemptionVisible, ToldToStop
<1>2. CASE Next
  BY <1>2, BackgroundKeeps, ForegroundKeeps, JobKeeps, SummaryKeeps DEF Next
<1> QED
  BY <1>1, <1>2

LEMMA AlwaysInv == Spec => []IInv
BY InitInv, StepInv, PTL DEF Spec

(* The permits are only ever with actors that may have them.                 *)
THEOREM JobTypes == Spec => []TypeOK
<1>1. IInv => TypeOK
  BY DEF IInv
<1> QED
  BY <1>1, AlwaysInv, PTL

(* Mutual exclusion on the engine, past the abort of a job: an admitted job  *)
(* shares the engine with nobody.                                            *)
THEOREM EngineOwned == Spec => []OwnNative
<1>1. IInv => OwnNative
  BY DEF IInv
<1> QED
  BY <1>1, AlwaysInv, PTL

(* A background call with a permit is the one a foreground job cancels.      *)
THEOREM IndexingAlwaysYields == Spec => []IndexingYields
<1>1. IInv => IndexingYields
  BY DEF IInv, IndexingYields
<1> QED
  BY <1>1, AlwaysInv, PTL

(* Indexing never costs a recording its start: when the last try of a claim  *)
(* fails and nothing was slow, no background call has either permit.         *)
THEOREM NeverRefusedByIndexing == Spec => NotRefusedByBackground
<1>1. IInv /\ [Next]_vars =>
        [\A f \in Foreground :
           ~slow /\ FailsLastTry(f) => jobs \notin Background /\ native \notin Background]_vars
  BY DEF IInv, Cleared, FailsLastTry
<1> QED
  BY <1>1, AlwaysInv, PTL DEF Spec, NotRefusedByBackground

-----------------------------------------------------------------------------
(* The switch of the index, under calls that run.                            *)

Inside == {"entered", "checked", "locked", "loaded", "work", "over"}

\* The closure of a call runs exactly while NativeJobs has it running.
Entered == \A c \in Indexing : stage[c] \in Inside <=> pc[c] = "running"

\* A panic lets go of the mutex, and nobody gets it again.
Unlocked == poisoned => worker = Nobody

\* Past the first half of disable, whoever found the index on has been told.
Told ==
  ~enabled /\ switch # "cancel" =>
    \A c \in Indexing : stage[c] \in {"checked", "locked", "loaded", "work"} => c \in cancelled

\* Past the second, nobody works, and who still gets to the model must load it.
Gone ==
  ~enabled /\ switch \in {"forget", "idle"} =>
    \A c \in Indexing :
      stage[c] # "work" /\ (stage[c] \in {"checked", "locked"} => ~model \/ poisoned)

SwitchInv == IInv /\ SchedulerTypeOK /\ Entered /\ Unlocked /\ Told /\ Gone

LEMMA SwitchInit == SchedulerInit => SwitchInv
<1> SUFFICES ASSUME SchedulerInit PROVE SwitchInv
  OBVIOUS
<1>1. IInv
  BY InitInv DEF SchedulerInit
<1>2. SchedulerTypeOK
  BY <1>1 DEF SchedulerInit, SchedulerTypeOK, IInv, Stages, Actor, Background
<1>3. Entered
  BY DEF SchedulerInit, Init, Entered, Inside, Actor, Background
<1> QED
  BY <1>1, <1>2, <1>3 DEF SwitchInv, SchedulerInit, Unlocked, Told, Gone

\* Only one closure runs, and it is the call that cancellation reaches.
LEMMA OneInside ==
  ASSUME SwitchInv, NEW c \in Indexing, stage[c] \in Inside
  PROVE  /\ active = c
         /\ \A d \in Indexing : stage[d] \in Inside => d = c
<1>1. \A d \in Indexing : stage[d] \in Inside => pc[d] = "running" /\ jobs = d
  BY DEF SwitchInv, IInv, Entered, Holder, Holding, Actor, Background
<1>2. priority # c
  BY <1>1 DEF SwitchInv, IInv, Locked, Background
<1> QED
  BY <1>1, <1>2 DEF SwitchInv, IInv, PreemptionVisible, Background

(* Every step of the rest of NativeJobs leaves a running closure alone and   *)
(* its token set.                                                            *)
LEMMA OthersLeaveIt ==
  ASSUME IInv, OtherJobs
  PROVE  /\ [Next]_vars
         /\ \A c \in Indexing :
              /\ pc'[c] = "running" <=> pc[c] = "running"
              /\ pc[c] = "running" /\ c \in cancelled => c \in cancelled'
<1> DEFINE Kept == \A c \in Indexing :
              /\ pc'[c] = "running" <=> pc[c] = "running"
              /\ pc[c] = "running" /\ c \in cancelled => c \in cancelled'
<1> USE DEF IInv, TypeOK, Steps, Actor, Background, Goto
<1>1. ASSUME NEW c \in Reading, BackgroundClaim(c) PROVE Kept
  BY <1>1 DEF BackgroundClaim, BackgroundTake, BackgroundAdmitted, BackgroundEngineBusy,
     Take, Checked, EngineBusy
<1>2. ASSUME NEW c \in Background, DropCall(c) \/ CancelCall(c) PROVE Kept
  BY <1>2 DEF DropCall, CancelCall
<1>3. ASSUME NEW f \in Foreground, Enter(f) \/ TryLater(f) PROVE Kept
  BY <1>3 DEF Enter, Preempts, TryLater
<1>4. ASSUME NEW f \in Foreground, ForegroundClaim(f) PROVE Kept
  <2>1. CASE TakeAgain(f) \/ EngineBusyAgain(f) \/ Admitted(f) \/ PreemptDeadline(f)
    BY <2>1 DEF TakeAgain, EngineBusyAgain, Admitted, PreemptDeadline, Take, Checked, EngineBusy
  <2>2. CASE LastTryFails(f) \/ NoSummaryToStop(f) \/ StopSummaries(f)
    BY <2>2 DEF LastTryFails, NoSummaryToStop, StopSummaries, EngineBusy, Refuse
  <2>3. CASE TakeQueued(f) \/ HandoverEngineBusy(f) \/ QueueDeadline(f)
    BY <2>3 DEF TakeQueued, HandoverEngineBusy, QueueDeadline, Refuse
  <2> QED
    BY <1>4, <2>1, <2>2, <2>3 DEF ForegroundClaim
<1>5. ASSUME NEW p \in Plain, PlainTake(p) \/ PlainChecked(p) PROVE Kept
  BY <1>5 DEF PlainTake, PlainChecked, Take, Checked, EngineBusy
<1>6. ASSUME NEW a \in Foreground \cup Plain, CallEngine(a) \/ EngineReturns(a) \/ FinishJob(a)
      PROVE  Kept
  BY <1>6 DEF CallEngine, EngineReturns, FinishJob
<1>7. ASSUME NEW s \in Summary, Register(s) \/ SummaryStep(s) PROVE Kept
  BY <1>7 DEF Register, SummaryStep, Generate, GenerateChecked, Generated, Unregister,
     Take, Checked, EngineBusy
<1>8. ASSUME NEW w \in Sweep, Look(w) \/ Probe(w) \/ DropProbe(w) PROVE Kept
  BY <1>8 DEF Look, Probe, DropProbe, Take
<1>9. Kept
  BY <1>1, <1>2, <1>3, <1>4, <1>5, <1>6, <1>7, <1>8 DEF OtherJobs
<1>10. Next
  BY DEF OtherJobs, Next, BackgroundEnd
<1> QED
  BY <1>9, <1>10

(* A call from its request to its permits.                                   *)
LEMMA RequestKeeps ==
  ASSUME SwitchInv, NEW c \in Indexing,
         Ask(c) \/ CallTakes(c) \/ CallRefused(c) \/ CallChecked(c) \/ CallBegins(c)
  PROVE  SwitchInv'
<1> USE DEF SwitchInv, SchedulerTypeOK, Entered, Unlocked, Told, Gone, Inside, Stages
<1>1. CASE Ask(c) \/ CallRefused(c)
  <2>1. UNCHANGED vars /\ UNCHANGED <<enabled, verified, model, worker, switch, poisoned>>
        /\ (To(c, "asked") \/ To(c, "out")) /\ stage[c] \in {"out", "asked"}
    BY <1>1 DEF Ask, CallRefused
  <2>2. IInv'
    BY <2>1, StepInv
  <2> QED
    BY <2>1, <2>2 DEF To, vars, IInv
<1>2. CASE CallTakes(c) \/ CallChecked(c)
  <2>1. UNCHANGED schedulerVars /\ BackgroundClaim(c)
    BY <1>2 DEF CallTakes, CallChecked, BackgroundClaim
  <2>2. IInv'
    BY <2>1, BackgroundKeeps DEF Background
  <2>3. cancelled' = cancelled /\ \A d \in Indexing : pc'[d] = "running" <=> pc[d] = "running"
    BY <2>1 DEF BackgroundClaim, BackgroundTake, BackgroundAdmitted, BackgroundEngineBusy, Take,
       Checked, EngineBusy, Goto, IInv, TypeOK, Actor, Background
  <2> QED
    BY <2>1, <2>2, <2>3 DEF schedulerVars, IInv
<1>3. CASE CallBegins(c)
  <2>1. IInv'
    BY <1>3, BackgroundKeeps DEF CallBegins, BackgroundEnd, Background
  <2>2. pc' = [pc EXCEPT ![c] = "running"] /\ cancelled' = cancelled
    BY <1>3 DEF CallBegins, Begin, Goto
  <2>3. \A d \in Indexing : pc'[d] = IF d = c THEN "running" ELSE pc[d]
    BY <2>2 DEF IInv, TypeOK, Actor, Background
  <2>4. stage[c] \notin Inside
    BY <1>3 DEF CallBegins, Begin
  <2> QED
    BY <1>3, <2>1, <2>2, <2>3, <2>4 DEF CallBegins, To, IInv
<1> QED
  BY <1>1, <1>2, <1>3

(* The closure, under the switch.                                            *)
LEMMA ClosureKeeps ==
  ASSUME SwitchInv, NEW c \in Indexing,
         \/ CheckCall(c) \/ LockWorker(c) \/ UseModel(c) \/ LoadModel(c) \/ NoModel(c)
         \/ AfterLoad(c) \/ Worked(c) \/ PanicAgain(c) \/ Panic(c)
  PROVE  SwitchInv'
<1>1. stage[c] \in Inside /\ UNCHANGED vars
  BY DEF Inside, CheckCall, LockWorker, UseModel, LoadModel, NoModel, AfterLoad, Worked,
     PanicAgain, Panic
<1>2. IInv' /\ TypeOK'
  BY <1>1, StepInv DEF SwitchInv, IInv
<1>3. \A d \in Indexing : stage[d] \in Inside => d = c
  BY <1>1, OneInside
<1>4. UNCHANGED <<pc, cancelled>>
  BY <1>1 DEF vars
<1> USE <1>2, <1>3, <1>4
        DEF SwitchInv, SchedulerTypeOK, Entered, Unlocked, Told, Gone, Inside, Stages, To, Unlock
<1>5. CASE CheckCall(c)
  BY <1>5 DEF CheckCall, StillWanted
<1>6. CASE LockWorker(c)
  BY <1>6, ActorAssumption DEF LockWorker, Actor, Background
<1>7. CASE UseModel(c)
  BY <1>7, ActorAssumption DEF UseModel, Actor, Background
<1>8. CASE LoadModel(c)
  BY <1>8 DEF LoadModel
<1>9. CASE NoModel(c)
  BY <1>9, ActorAssumption DEF NoModel, Actor, Background
<1>10. CASE AfterLoad(c)
  BY <1>10, ActorAssumption DEF AfterLoad, Wanted, Actor, Background
<1>11. CASE Worked(c)
  BY <1>11, ActorAssumption DEF Worked, Actor, Background
<1>12. CASE PanicAgain(c)
  BY <1>12 DEF PanicAgain
<1>13. CASE Panic(c)
  BY <1>13, ActorAssumption DEF Panic, Actor, Background
<1> QED
  BY <1>5, <1>6, <1>7, <1>8, <1>9, <1>10, <1>11, <1>12, <1>13

LEMMA ReturnKeeps ==
  ASSUME SwitchInv, NEW c \in Indexing, CallReturns(c)
  PROVE  SwitchInv'
<1>1. IInv'
  BY BackgroundKeeps DEF CallReturns, BackgroundEnd, Background, SwitchInv
<1>2. pc' = [pc EXCEPT ![c] = "ending"] /\ cancelled' = cancelled
  BY DEF CallReturns, Return, Goto
<1>3. \A d \in Indexing : pc'[d] = IF d = c THEN "ending" ELSE pc[d]
  BY <1>2 DEF SwitchInv, IInv, TypeOK, Actor, Background
<1> QED
  BY <1>1, <1>2, <1>3 DEF CallReturns, To, IInv, SwitchInv, SchedulerTypeOK, Entered, Unlocked,
     Told, Gone, Inside, Stages

(* The two halves of disable, and the timer.                                 *)
LEMMA SwitchKeeps ==
  ASSUME SwitchInv, Enable \/ Disable \/ SwitchStep \/ UnloadIdle
  PROVE  SwitchInv'
<1> USE DEF SwitchInv, SchedulerTypeOK, Entered, Unlocked, Told, Gone, Inside, Stages
<1>1. CASE CancelRunning
  <2>1. IInv' /\ pc' = pc /\ cancelled \subseteq cancelled'
    <3>1. CASE active \in Indexing
      BY <1>1, <3>1, BackgroundKeeps DEF CancelRunning, CancelCall, Background
    <3>2. CASE active \notin Indexing
      BY <1>1, <3>2, StepInv DEF CancelRunning, vars
    <3> QED
      BY <3>1, <3>2
  <2>2. ASSUME NEW c \in Indexing, stage[c] \in Inside PROVE c \in cancelled'
    <3>1. active = c
      BY <2>2, OneInside DEF Inside
    <3> QED
      BY <1>1, <3>1 DEF CancelRunning, CancelCall
  <2> QED
    BY <1>1, <2>1, <2>2 DEF CancelRunning, IInv
<1>2. CASE Enable \/ Disable \/ Unload \/ UnloadPanics \/ Forget \/ UnloadIdle
  <2>1. UNCHANGED vars /\ UNCHANGED <<worker, stage, poisoned>>
    BY <1>2 DEF Enable, Disable, Unload, UnloadPanics, Forget, UnloadIdle
  <2>2. IInv' /\ pc' = pc /\ cancelled' = cancelled
    BY <2>1, StepInv DEF vars
  <2>3. worker = Nobody => \A c \in Indexing : stage[c] \notin {"locked", "loaded", "work"}
    BY ActorAssumption DEF Actor, Background
  <2>4. SchedulerTypeOK'
    BY <1>2, <2>1, <2>2
    DEF Enable, Disable, Unload, UnloadPanics, Forget, UnloadIdle, IInv
  <2>5. Entered' /\ Unlocked'
    BY <2>1, <2>2
  <2>6. Told'
    BY <1>2, <2>1, <2>2 DEF Enable, Disable, Unload, UnloadPanics, Forget, UnloadIdle
  <2>7. CASE Enable \/ Disable
    BY <2>2, <2>4, <2>5, <2>6, <2>7 DEF Enable, Disable
  <2>8. CASE Forget
    BY <2>1, <2>2, <2>4, <2>5, <2>6, <2>8 DEF Forget
  <2>9. CASE UnloadPanics
    BY <2>1, <2>2, <2>3, <2>4, <2>5, <2>6, <2>9 DEF UnloadPanics
  <2>10. CASE Unload \/ UnloadIdle
    BY <2>1, <2>2, <2>3, <2>4, <2>5, <2>6, <2>10 DEF Unload, UnloadIdle, MutexFree
  <2> QED
    BY <1>2, <2>7, <2>8, <2>9, <2>10
<1> QED
  BY <1>1, <1>2 DEF SwitchStep

LEMMA SwitchInvStep == SwitchInv /\ [SchedulerNext]_allVars => SwitchInv'
<1> SUFFICES ASSUME SwitchInv, [SchedulerNext]_allVars PROVE SwitchInv'
  OBVIOUS
<1>1. ASSUME NEW c \in Indexing, Ask(c) \/ CallStep(c) \/ Panic(c) PROVE SwitchInv'
  BY <1>1, RequestKeeps, ClosureKeeps, ReturnKeeps DEF CallStep
<1>2. CASE Enable \/ Disable \/ SwitchStep \/ UnloadIdle
  BY <1>2, SwitchKeeps
<1>3. CASE OtherJobs \/ UNCHANGED allVars
  <2>1. UNCHANGED schedulerVars
    BY <1>3 DEF OtherJobs, allVars
  <2>2. IInv' /\ \A c \in Indexing :
           /\ pc'[c] = "running" <=> pc[c] = "running"
           /\ pc[c] = "running" /\ c \in cancelled => c \in cancelled'
    BY <1>3, OthersLeaveIt, StepInv DEF SwitchInv, allVars, vars
  <2> QED
    BY <2>1, <2>2 DEF SwitchInv, SchedulerTypeOK, Entered, Unlocked, Told, Gone, Inside, Stages,
       schedulerVars, IInv
<1> QED
  BY <1>1, <1>2, <1>3 DEF SchedulerNext

LEMMA AlwaysSwitchInv == SchedulerSpec => []SwitchInv
BY SwitchInit, SwitchInvStep, PTL DEF SchedulerSpec

(* Off is off: once disable has returned, no call embeds any more, at        *)
(* whatever point of run_indexing or its closure disable met it, and also    *)
(* when a panic left the mutex poisoned and the model in memory.             *)
THEOREM OffMeansOff == SchedulerSpec => []OffIsOff
<1>1. SwitchInv => OffIsOff
  BY DEF SwitchInv, SchedulerTypeOK, Gone, OffIsOff
<1> QED
  BY <1>1, AlwaysSwitchInv, PTL

(* The switch takes nothing from the permits: an admitted job owns the       *)
(* engine also while calls are cancelled, panic or find the index off.       *)
THEOREM EngineOwnedUnderSwitch == SchedulerSpec => []OwnNative
<1>1. SwitchInv => OwnNative
  BY DEF SwitchInv, IInv
<1> QED
  BY <1>1, AlwaysSwitchInv, PTL

(* Nor does the switch make indexing cost a recording its start.             *)
THEOREM NeverRefusedUnderSwitch == SchedulerSpec => NotRefusedByBackground
<1>1. SwitchInv /\ [SchedulerNext]_allVars =>
        [\A f \in Foreground :
           ~slow /\ FailsLastTry(f) => jobs \notin Background /\ native \notin Background]_vars
  BY DEF SwitchInv, IInv, Cleared, FailsLastTry
<1> QED
  BY <1>1, AlwaysSwitchInv, PTL DEF SchedulerSpec, NotRefusedByBackground
=============================================================================
