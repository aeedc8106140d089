---------------------- MODULE RecordingLifecycleProofs ----------------------
(***************************************************************************)
(* For any number of starters, recordings and segments: transcripts never  *)
(* mix; and when Stop does not overtake the last statements of Start, its  *)
(* rest is clean and nothing that was emitted is lost. The invariant says  *)
(* at each step of Start and Stop who has what of the one recording that   *)
(* is under way, the last one made; all earlier ones are final.            *)
(***************************************************************************)
EXTENDS RecordingLifecycle, TLAPS

USE LifecycleAssumption

-----------------------------------------------------------------------------
(* Types.                                                                    *)

\* Who works for a session knows which one.
Begun == {"opening", "opened", "cleared", "stored", "flagged", "released", "spawned"}
Identified ==
  /\ \A p \in Starter : start[p].pc \in Begun => start[p].session \in Session
  /\ stop.pc = "draining" => stop.task \in Session

TypeInv == LifecycleTypeOK /\ NoMixing /\ Identified

LEMMA TypeInit == LifecycleInit => TypeInv
<1> SUFFICES ASSUME LifecycleInit PROVE TypeInv
  OBVIOUS
<1>1. start \in [Starter -> [pc : StartStep, session : Session \cup {None}]]
      /\ \A p \in Starter : start[p].pc = "idle"
  BY DEF LifecycleInit, NotStarting, StartStep
<1>2. stop \in [pc : StopPc, manager : Session \cup {None}, task : Session \cup {None}]
      /\ stop.pc = "idle"
  BY DEF LifecycleInit, NotStopping, StopPc
<1>3. /\ workers \in [Session -> {"none", "on", "aborted", "gone"}]
      /\ emitted \in [Session -> 0 .. E]
      /\ memory \in [Session -> SUBSET Segment] /\ saved \in [Session -> SUBSET Segment]
      /\ \A s \in Session : memory[s] = {} /\ saved[s] = {}
  BY DEF LifecycleInit
<1>4. /\ permit = "free" /\ pendingSegments = {} /\ listeners = {} /\ capture = {} /\ lost = {}
      /\ manager = None /\ live = None /\ task = None /\ listener = None /\ made = 0
      /\ recording = FALSE
  BY DEF LifecycleInit
<1>5. made \in 0 .. K /\ {manager, live, task, listener} \subseteq Session \cup {None}
  BY <1>4
<1>6. recording \in BOOLEAN /\ pendingSegments \subseteq Segment
      /\ listeners \subseteq Session /\ capture \subseteq Session /\ lost \subseteq Session
  BY <1>4
<1>7. permit \in Starter \cup {"free", "slot", "batch"}
  BY <1>4
<1>8. LifecycleTypeOK
  BY <1>1, <1>2, <1>3, <1>5, <1>6, <1>7 DEF LifecycleTypeOK
<1> QED
  BY <1>1, <1>2, <1>3, <1>8 DEF TypeInv, NoMixing, Identified, Begun

LEMMA Kinds ==
  ASSUME LifecycleTypeOK
  PROVE  /\ Session \subseteq Nat /\ None \notin Session /\ None = 0
         /\ \A p \in Starter : start[p].pc \in StartStep /\ start[p].session \in Session \cup {None}
         /\ stop.pc \in StopPc /\ stop.manager \in Session \cup {None}
         /\ stop.task \in Session \cup {None}
BY DEF LifecycleTypeOK, Session, None

\* What one starter does leaves the others where they are.
LEMMA Moved ==
  ASSUME LifecycleTypeOK, NEW p \in Starter, NEW step \in StartStep
  PROVE  /\ StartGoes(p, step) =>
              /\ start' \in [Starter -> [pc : StartStep, session : Session \cup {None}]]
              /\ start'[p].pc = step /\ start'[p].session = start[p].session
              /\ \A q \in Starter : q # p => start'[q] = start[q]
         /\ start' = [start EXCEPT ![p] = NotStarting] =>
              /\ start' \in [Starter -> [pc : StartStep, session : Session \cup {None}]]
              /\ start'[p].pc = "idle"
              /\ \A q \in Starter : q # p => start'[q] = start[q]
BY DEF LifecycleTypeOK, StartGoes, NotStarting, StartStep

LEMMA StopMoved ==
  ASSUME LifecycleTypeOK, NEW step \in StopPc, StopGoes(step)
  PROVE  /\ stop' \in [pc : StopPc, manager : Session \cup {None}, task : Session \cup {None}]
         /\ stop'.pc = step /\ stop'.manager = stop.manager /\ stop'.task = stop.task
BY DEF LifecycleTypeOK, StopGoes

\* A saver that takes segments, of its own only.
LEMMA SaverTakes ==
  ASSUME LifecycleTypeOK, NoMixing, NEW s \in Session, NEW segments \in SUBSET Segment,
         memory' = [memory EXCEPT ![s] = @ \cup Own(s, segments)], UNCHANGED saved
  PROVE  /\ memory' \in [Session -> SUBSET Segment] /\ NoMixing'
         /\ memory'[s] = memory[s] \cup Own(s, segments)
         /\ \A t \in Session : t # s => memory'[t] = memory[t]
BY DEF LifecycleTypeOK, NoMixing, Own

LEMMA TypeStart ==
  ASSUME TypeInv, NEW p \in Starter, Claim(p) \/ StartProgress(p)
  PROVE  TypeInv'
<1> USE Kinds, Moved DEF TypeInv
<1>1. CASE Store(p)
  <2> DEFINE s == start[p].session
  <2>1. StartGoes(p, "stored") /\ StoreManager(s) /\ start[p].pc = "cleared"
        /\ UNCHANGED <<recording, permit, live, taskVars, sessionVars, made, stop, lost>>
    BY <1>1 DEF Store, StartAt
  <2>2. s \in Session /\ pendingSegments \in SUBSET Segment
    BY <2>1 DEF Identified, Begun, LifecycleTypeOK
  <2>3. memory' \in [Session -> SUBSET Segment] /\ NoMixing'
    BY <2>1, <2>2, SaverTakes DEF StoreManager
  <2>4. LifecycleTypeOK'
    BY <2>1, <2>2, <2>3 DEF LifecycleTypeOK, StoreManager, taskVars, sessionVars, StartStep
  <2>5. Identified'
    BY <2>1 DEF Identified, Begun, StartStep
  <2> QED
    BY <2>3, <2>4, <2>5
<1>2. CASE Claim(p) \/ RefuseStart(p) \/ OpenFails(p) \/ RaiseFlag(p) \/ KeepPermit(p)
  <2>1. start' \in [Starter -> [pc : StartStep, session : Session \cup {None}]]
    BY <1>2 DEF Claim, RefuseStart, OpenFails, RaiseFlag, KeepPermit, StartStep
  <2>2. LifecycleTypeOK'
    <3>1. recording' \in BOOLEAN /\ permit' \in Starter \cup {"free", "slot", "batch"}
      BY <1>2 DEF Claim, RefuseStart, OpenFails, RaiseFlag, KeepPermit, LifecycleTypeOK
    <3>2. live' \in Session \cup {None} /\ UNCHANGED <<manager, taskVars, sessionVars,
                                                  transcriptVars, made, stop, lost>>
      BY <1>2 DEF Claim, RefuseStart, OpenFails, RaiseFlag, KeepPermit, LiveAfterFailure, LifecycleTypeOK
    <3> QED
      BY <2>1, <3>1, <3>2 DEF LifecycleTypeOK, taskVars, sessionVars, transcriptVars
  <2>3. Identified'
    BY <1>2 DEF Claim, RefuseStart, OpenFails, RaiseFlag, KeepPermit, StartAt, StartStep,
       Identified, Begun
  <2> QED
    BY <1>2, <2>2, <2>3 DEF Claim, RefuseStart, OpenFails, RaiseFlag, KeepPermit, NoMixing,
       transcriptVars
<1>3. CASE OpenStreams(p) \/ ClearWaiting(p) \/ SpawnTask(p) \/ Listen(p)
  <2>1. start[p].session \in Session
    BY <1>3 DEF OpenStreams, ClearWaiting, SpawnTask, Listen, StartAt, Identified, Begun
  <2>2. LifecycleTypeOK'
    BY <1>3, <2>1 DEF OpenStreams, ClearWaiting, SpawnTask, Listen,
       StartStep, LifecycleTypeOK, globalVars, taskVars, sessionVars, transcriptVars
  <2>3. Identified'
    BY <1>3, <2>1 DEF OpenStreams, ClearWaiting, SpawnTask, Listen, StartAt, StartStep,
       Identified, Begun
  <2> QED
    BY <1>3, <2>2, <2>3 DEF OpenStreams, ClearWaiting, SpawnTask, Listen, NoMixing,
       transcriptVars
<1>4. CASE Prepare(p)
  <2>1. made' \in Session /\ live' = made' /\ made' \in 0 .. K
    BY <1>4 DEF Prepare, NextGeneration, LifecycleTypeOK, Session
  <2>2. /\ start' \in [Starter -> [pc : StartStep, session : Session \cup {None}]]
        /\ start'[p].pc = "opening" /\ start'[p].session = made'
        /\ \A q \in Starter : q # p => start'[q] = start[q]
    BY <1>4, <2>1 DEF Prepare, LifecycleTypeOK, StartStep
  <2>3. LifecycleTypeOK'
    BY <1>4, <2>1, <2>2 DEF Prepare, LifecycleTypeOK, taskVars, sessionVars, transcriptVars
  <2>4. Identified'
    BY <1>4, <2>1, <2>2 DEF Prepare, Identified
  <2> QED
    BY <1>4, <2>3, <2>4 DEF Prepare, NoMixing, transcriptVars
<1> QED
  BY <1>1, <1>2, <1>3, <1>4 DEF StartProgress

LEMMA TypeWorker ==
  ASSUME TypeInv, NEW s \in Session, Emit(s) \/ WorkerEnds(s) \/ CaptureFails(s)
  PROVE  TypeInv'
<1> USE Kinds DEF TypeInv
<1>1. CASE Emit(s)
  <2> DEFINE x == <<s, emitted[s] + 1>>
  <2>1. /\ emitted[s] < E /\ emitted' = [emitted EXCEPT ![s] = @ + 1] /\ Persist(s, x)
        /\ workers' = [workers EXCEPT ![s] = IF @ = "aborted" THEN "gone" ELSE @]
        /\ UNCHANGED <<globalVars, taskVars, capture, saved, made, start, stop, lost>>
    BY <1>1 DEF Emit
  <2>2. x \in Segment /\ emitted' \in [Session -> 0 .. E]
    BY <2>1 DEF LifecycleTypeOK, Segment
  <2>3. workers' \in [Session -> {"none", "on", "aborted", "gone"}]
    BY <2>1 DEF LifecycleTypeOK
  <2>4. memory' \in [Session -> SUBSET Segment] /\ pendingSegments' \subseteq Segment /\ NoMixing'
    <3>1. CASE UNCHANGED memory
      BY <2>1, <2>2, <3>1 DEF Persist, Kept, LifecycleTypeOK, NoMixing
    <3>2. CASE manager # None /\ memory' = [memory EXCEPT ![manager] = @ \cup Own(manager, {x})]
               /\ UNCHANGED pendingSegments
      <4>1. manager \in Session /\ {x} \in SUBSET Segment
        BY <3>2, <2>2 DEF LifecycleTypeOK
      <4> QED
        BY <2>1, <3>2, <4>1, SaverTakes DEF LifecycleTypeOK
    <3> QED
      BY <2>1, <3>1, <3>2 DEF Persist
  <2>5. LifecycleTypeOK'
    BY <2>1, <2>2, <2>3, <2>4 DEF LifecycleTypeOK, globalVars, taskVars
  <2> QED
    BY <2>1, <2>4, <2>5 DEF Identified
<1>2. CASE WorkerEnds(s) \/ CaptureFails(s)
  <2>1. LifecycleTypeOK'
    BY <1>2 DEF WorkerEnds, CaptureFails, LifecycleTypeOK, globalVars, taskVars, transcriptVars
  <2> QED
    BY <1>2, <2>1 DEF WorkerEnds, CaptureFails, Identified, NoMixing, transcriptVars
<1> QED
  BY <1>1, <1>2

LEMMA TypeStop ==
  ASSUME TypeInv, BeginStop \/ StopProgress \/ Batch
  PROVE  TypeInv'
<1> USE Kinds DEF TypeInv
<1> DEFINE Stop == [pc : StopPc, manager : Session \cup {None}, task : Session \cup {None}]
<1>1. CASE BeginStop \/ Flush \/ Unlisten \/ LowerFlag
  <2>1. PICK step \in {"marked", "flushed", "unlistened", "unflagged"} : StopGoes(step)
    BY <1>1 DEF BeginStop, Flush, Unlisten, LowerFlag
  <2>2. stop' \in Stop /\ stop'.pc # "draining"
    BY <2>1, StopMoved DEF StopPc
  <2>3. LifecycleTypeOK'
    BY <1>1, <2>2 DEF BeginStop, Flush, Unlisten, LowerFlag, StillListening, LifecycleTypeOK, globalVars,
       taskVars, sessionVars, transcriptVars
  <2> QED
    BY <1>1, <2>2, <2>3 DEF BeginStop, Flush, Unlisten, LowerFlag, Identified, NoMixing,
       transcriptVars
<1>2. CASE TakeManager("marked", "taken") \/ TakeManager("unlistened", "retaken")
  <2>1. stop' \in Stop /\ stop'.pc # "draining"
    BY <1>2 DEF TakeManager, LifecycleTypeOK, StopPc
  <2>2. LifecycleTypeOK'
    BY <1>2, <2>1 DEF TakeManager, LifecycleTypeOK, taskVars, sessionVars, transcriptVars
  <2> QED
    BY <1>2, <2>1, <2>2 DEF TakeManager, Identified, NoMixing, transcriptVars
<1>3. CASE PutBack
  <2>1. stop' \in Stop /\ stop'.pc # "draining"
    BY <1>3 DEF PutBack, LifecycleTypeOK, StopPc
  <2>2. /\ memory' \in [Session -> SUBSET Segment] /\ pendingSegments' \subseteq Segment
        /\ manager' \in Session \cup {None} /\ UNCHANGED saved /\ NoMixing'
    <3>1. CASE stop.manager = None
      BY <1>3, <3>1 DEF PutBack, transcriptVars, LifecycleTypeOK, NoMixing
    <3>2. CASE stop.manager # None
      BY <1>3, <3>2, SaverTakes DEF PutBack, StoreManager, LifecycleTypeOK
    <3> QED
      BY <3>1, <3>2
  <2>3. LifecycleTypeOK'
    BY <1>3, <2>1, <2>2 DEF PutBack, LifecycleTypeOK, taskVars, sessionVars
  <2> QED
    BY <1>3, <2>1, <2>2, <2>3 DEF PutBack, Identified
<1>4. CASE TakeTask \/ Drained \/ AbortTask
  <2>1. stop' \in Stop /\ (stop'.pc = "draining" => stop'.task \in Session)
    BY <1>4 DEF TakeTask, Drained, AbortTask, LifecycleTypeOK, StopPc
  <2>2. workers' \in [Session -> {"none", "on", "aborted", "gone"}] /\ lost' \subseteq Session
    BY <1>4 DEF TakeTask, Drained, AbortTask, LifecycleTypeOK, Identified, StopAt, sessionVars
  <2>3. LifecycleTypeOK'
    BY <1>4, <2>1, <2>2 DEF TakeTask, Drained, AbortTask, LifecycleTypeOK, globalVars, taskVars, sessionVars,
       transcriptVars
  <2> QED
    BY <1>4, <2>1, <2>3 DEF TakeTask, Drained, AbortTask, Identified, NoMixing, transcriptVars
<1>5. CASE Save
  <2>1. stop' \in Stop /\ stop'.pc # "draining"
    BY <1>5 DEF Save, LifecycleTypeOK, StopPc
  <2>2. saved' \in [Session -> SUBSET Segment] /\ NoMixing'
    BY <1>5 DEF Save, LifecycleTypeOK, NoMixing
  <2>3. LifecycleTypeOK'
    BY <1>5, <2>1, <2>2 DEF Save, LifecycleTypeOK, globalVars, taskVars, sessionVars
  <2> QED
    BY <1>5, <2>1, <2>2, <2>3 DEF Save, Identified
<1>6. CASE ReleaseJob \/ Batch
  <2>1. stop' \in Stop /\ (stop'.pc = "draining" => stop'.task \in Session)
    BY <1>6 DEF ReleaseJob, Batch, NotStopping, LifecycleTypeOK, StopPc, Identified
  <2>2. LifecycleTypeOK'
    BY <1>6, <2>1 DEF ReleaseJob, Batch, PermitTaken, LifecycleTypeOK, taskVars, sessionVars, transcriptVars
  <2> QED
    BY <1>6, <2>1, <2>2 DEF ReleaseJob, Batch, Identified, NoMixing, transcriptVars
<1> QED
  BY <1>1, <1>2, <1>3, <1>4, <1>5, <1>6 DEF StopProgress

LEMMA TypeStep == TypeInv /\ [LifecycleNext]_lifecycleVars => TypeInv'
<1> SUFFICES ASSUME TypeInv, [LifecycleNext]_lifecycleVars PROVE TypeInv'
  OBVIOUS
<1>1. CASE UNCHANGED lifecycleVars
  BY <1>1 DEF lifecycleVars, globalVars, taskVars, sessionVars, transcriptVars, TypeInv, LifecycleTypeOK, NoMixing,
     Identified
<1> QED
  BY <1>1, TypeStart, TypeWorker, TypeStop DEF LifecycleNext

LEMMA TypeAlways == LifecycleSpec => []TypeInv
BY TypeInit, TypeStep, PTL DEF LifecycleSpec

(* The state of Start, Stop, workers and savers keeps its types, with every  *)
(* session a recording that was begun.                                       *)
THEOREM LifecycleTypes == LifecycleSpec => []LifecycleTypeOK
<1>1. TypeInv => LifecycleTypeOK
  BY DEF TypeInv
<1> QED
  BY <1>1, TypeAlways, PTL

(* No transcript gets a segment of another recording, however far Stop and   *)
(* the worker run while Start stores its state.                              *)
THEOREM NeverMixed == LifecycleSpec => []NoMixing
<1>1. TypeInv => NoMixing
  BY DEF TypeInv
<1> QED
  BY <1>1, TypeAlways, PTL

-----------------------------------------------------------------------------
(* Who has what of the recording that is under way, the last one made, when  *)
(* Stop does not overtake the last statements of Start.                      *)

\* A starter has the permit until the recording keeps it.
Claiming == {"claimed", "opening", "opened", "cleared", "stored", "flagged"}
Late == {"released", "spawned"}
Held(steps) == permit \in Starter /\ start[permit].pc \in steps

\* Stop before it closes the streams, and around the wait for the task.
Opening == {"idle", "marked", "taken"}
Draining == {"restored", "draining"}
Closing == {"drained", "unlistened", "retaken"}

Permits ==
  /\ \A p \in Starter : start[p].pc \in Claiming <=> permit = p
  /\ \A p, q \in Starter : start[p].pc \in Late /\ start[q].pc \in Late => p = q
  /\ \A p \in Starter : start[p].pc \in Late => permit = "slot" /\ stop.pc \in Opening
  /\ \A p \in Starter : start[p].pc \in Begun => start[p].session = made

\* A recording is under way.
Going == permit = "slot" \/ Held({"opening", "opened", "cleared", "stored", "flagged"})
Opened == permit = "slot" \/ Held({"opened", "cleared", "stored", "flagged"})
Stored == permit = "slot" \/ Held({"stored", "flagged"})

\* The flag is up from the first statement of a recording to its last.
Flag ==
  /\ recording <=> (permit = "slot" /\ stop.pc # "unflagged") \/ Held({"flagged"})
  /\ stop.pc # "idle" => permit = "slot" \/ (stop.pc \in Opening /\ Held({"flagged"}))
  /\ Going => made # 0

Manager ==
  /\ manager = IF Stored /\ stop.pc \in {"idle", "marked", "drained", "unlistened"} \cup Draining
               THEN made ELSE None
  /\ stop.manager = IF stop.pc \in {"taken", "flushed", "retaken"} THEN made ELSE None

Streams ==
  /\ \A s \in capture : s = made /\ Opened /\ stop.pc \in Opening
  /\ live # None => live = made /\ stop.pc = "idle" /\ Going

Tasks ==
  /\ task # None => task = made /\ permit = "slot" /\ stop.pc \in Opening \cup {"flushed", "restored"}
  /\ stop.task = IF stop.pc = "draining" THEN made ELSE None
  /\ listeners = IF listener = None THEN {} ELSE {listener}
  /\ listener # None => /\ listener = made /\ permit = "slot"
                        /\ stop.pc \in Opening \cup Draining \cup {"flushed", "drained"}

Control == Permits /\ Flag /\ Manager /\ Streams /\ Tasks

LEMMA ControlInit == LifecycleInit => Control
<1> SUFFICES ASSUME LifecycleInit PROVE Control
  OBVIOUS
<1>1. /\ permit = "free" /\ listeners = {} /\ capture = {} /\ manager = None /\ live = None
      /\ task = None /\ listener = None /\ recording = FALSE
      /\ stop.pc = "idle" /\ stop.manager = None /\ stop.task = None
      /\ \A p \in Starter : start[p].pc = "idle"
  BY DEF LifecycleInit, NotStarting, NotStopping
<1>2. ~Going /\ ~Opened /\ ~Stored /\ ~Held({"flagged"})
  BY <1>1 DEF Going, Opened, Stored, Held
<1>3. Permits
  BY <1>1 DEF Permits, Claiming, Late, Begun
<1> QED
  BY <1>1, <1>2, <1>3 DEF Control, Flag, Manager, Streams, Tasks

\* The starter that acts is the one that is under way.
LEMMA Holds ==
  ASSUME LifecycleTypeOK, Permits, NEW p \in Starter, start[p].pc \in Claiming
  PROVE  permit = p /\ permit # "slot" /\ \A q \in Starter : start[q].pc \notin Late
BY DEF Permits

LEMMA ControlClaiming ==
  ASSUME TypeInv, Control, NEW p \in Starter,
         Claim(p) \/ RefuseStart(p) \/ OpenFails(p) \/ RaiseFlag(p) \/ KeepPermit(p)
  PROVE  Control'
<1> USE Kinds, Moved DEF TypeInv, Control, StartAt, StartStep
<1>1. CASE Claim(p)
  <2>1. Permits'
    BY <1>1 DEF Claim, PermitFree, Permits, Claiming, Late, Begun
  <2> QED
    BY <1>1, <2>1 DEF Claim, PermitFree, Flag, Manager, Streams, Tasks, Going, Opened, Stored, Held,
       taskVars, sessionVars
<1>2. CASE RefuseStart(p)
  <2>1. Permits'
    BY <1>2, Holds DEF RefuseStart, Permits, Claiming, Late, Begun
  <2> QED
    BY <1>2, <2>1, Holds DEF RefuseStart, Flag, Manager, Streams, Tasks, Going, Opened, Stored, Held,
       taskVars, sessionVars, Claiming
<1>3. CASE OpenFails(p)
  <2>1. Permits'
    BY <1>3, Holds DEF OpenFails, Permits, Claiming, Late, Begun
  <2> QED
    BY <1>3, <2>1, Holds DEF OpenFails, LiveAfterFailure, Permits, Begun, Flag, Manager, Streams,
       Tasks, Going, Opened, Stored, Held, taskVars, sessionVars, Claiming
<1>4. CASE RaiseFlag(p)
  <2>1. Permits'
    BY <1>4, Holds DEF RaiseFlag, Permits, Claiming, Late, Begun
  <2> QED
    BY <1>4, <2>1, Holds DEF RaiseFlag, Flag, Manager, Streams, Tasks, Going, Opened, Stored, Held,
       taskVars, sessionVars, Claiming
<1>5. CASE KeepPermit(p)
  <2>1. Permits'
    BY <1>5, Holds DEF KeepPermit, Permits, Flag, Opening, Claiming, Late, Begun
  <2> QED
    BY <1>5, <2>1, Holds DEF KeepPermit, Flag, Manager, Streams, Tasks, Going, Opened, Stored, Held,
       taskVars, sessionVars, Claiming, Opening
<1> QED
  BY <1>1, <1>2, <1>3, <1>4, <1>5

LEMMA ControlStreams ==
  ASSUME TypeInv, Control, NEW p \in Starter,
         Prepare(p) \/ OpenStreams(p) \/ ClearWaiting(p) \/ Store(p) \/ SpawnTask(p) \/ Listen(p)
  PROVE  Control'
<1> USE Kinds, Moved DEF TypeInv, Control, StartAt, StartStep
<1>1. CASE Prepare(p)
  <2>1. /\ start' \in [Starter -> [pc : StartStep, session : Session \cup {None}]]
        /\ start'[p].pc = "opening" /\ start'[p].session = made'
        /\ \A q \in Starter : q # p => start'[q] = start[q]
        /\ made' \in Session /\ made' # 0 /\ live' = made'
        /\ UNCHANGED <<recording, permit, manager, taskVars, sessionVars, transcriptVars, stop, lost>>
    BY <1>1 DEF Prepare, NextGeneration, LifecycleTypeOK, Session, None
  <2>2. start[p].pc = "claimed" /\ ~recording
    BY <1>1 DEF Prepare
  <2>3. Permits'
    BY <2>1, <2>2, Holds DEF Permits, Claiming, Late, Begun
  <2>4. permit = p /\ permit # "slot" /\ ~Going /\ ~Opened /\ ~Stored /\ ~Held({"flagged"})
    BY <2>2, Holds DEF Claiming, Going, Opened, Stored, Held
  <2>5. stop.pc = "idle" /\ capture = {} /\ task = None /\ listener = None /\ manager = None
    BY <2>4 DEF Flag, Streams, Tasks, Manager, LifecycleTypeOK
  <2>6. /\ Going' /\ ~Opened' /\ ~Stored' /\ ~Held({"flagged"})' /\ permit' # "slot"
    BY <2>1, <2>4 DEF Going, Opened, Stored, Held
  <2> QED
    BY <2>1, <2>2, <2>3, <2>4, <2>5, <2>6 DEF Flag, Manager, Streams, Tasks, taskVars, sessionVars
<1>2. CASE OpenStreams(p) \/ ClearWaiting(p)
  <2>1. Permits'
    BY <1>2, Holds DEF OpenStreams, ClearWaiting, Permits, globalVars, Claiming, Late, Begun
  <2>2. capture' \subseteq capture \cup {start[p].session} /\ UNCHANGED <<globalVars, taskVars, made, stop>>
    BY <1>2 DEF OpenStreams, ClearWaiting, sessionVars
  <2>3. permit = p /\ permit # "slot" /\ start[p].session = made /\ Opened' /\ Going /\ Going'
        /\ ~Stored /\ ~Stored' /\ ~Held({"flagged"}) /\ ~Held({"flagged"})'
    BY <1>2, <2>2, Holds DEF OpenStreams, ClearWaiting, Permits, globalVars, Claiming, Begun, Going,
       Opened, Stored, Held
  <2>4. stop.pc = "idle"
    BY <2>3 DEF Flag
  <2> QED
    BY <2>1, <2>2, <2>3, <2>4 DEF Flag, Manager, Streams, Tasks, globalVars, taskVars, Opening
<1>3. CASE Store(p)
  <2>1. Permits'
    BY <1>3, Holds DEF Store, Permits, Claiming, Late, Begun
  <2>2. manager' = start[p].session
        /\ UNCHANGED <<recording, permit, live, taskVars, sessionVars, made, stop>>
    BY <1>3 DEF Store, StoreManager
  <2>3. permit = p /\ permit # "slot" /\ start[p].session = made /\ Opened /\ Opened' /\ Going /\ Going'
        /\ ~Stored /\ Stored' /\ ~Held({"flagged"}) /\ ~Held({"flagged"})'
    BY <1>3, <2>2, Holds DEF Store, Permits, Claiming, Begun, Going, Opened, Stored, Held
  <2>4. stop.pc = "idle"
    BY <2>3 DEF Flag
  <2> QED
    BY <2>1, <2>2, <2>3, <2>4 DEF Flag, Manager, Streams, Tasks, taskVars, sessionVars
<1>4. CASE SpawnTask(p) \/ Listen(p)
  <2>1. Permits'
    BY <1>4 DEF SpawnTask, Listen, Permits, globalVars, Claiming, Late, Begun
  <2>2. permit = "slot" /\ stop.pc \in Opening /\ start[p].session = made
    BY <1>4 DEF SpawnTask, Listen, Permits, Late, Begun
  <2>3. UNCHANGED <<globalVars, capture, made, stop>>
    BY <1>4 DEF SpawnTask, Listen, sessionVars
  <2>4. /\ task' \in {task, made} /\ (UNCHANGED <<listeners, listener>>
           \/ (listener' = made /\ listeners' = listeners \cup {made}))
    BY <1>4, <2>2 DEF SpawnTask, Listen, sessionVars
  <2>5. permit' = "slot" /\ Going /\ Going' /\ Opened /\ Opened' /\ Stored /\ Stored'
        /\ ~Held({"flagged"}) /\ ~Held({"flagged"})'
    BY <2>2, <2>3 DEF globalVars, Going, Opened, Stored, Held
  <2>6. Flag' /\ Manager' /\ Streams'
    BY <2>2, <2>3, <2>5 DEF Flag, Manager, Streams, globalVars
  <2>7. made # None
    BY <2>5 DEF Flag, None
  <2>8. Tasks'
    BY <2>2, <2>3, <2>4, <2>5, <2>7 DEF Tasks, globalVars
  <2> QED
    BY <2>1, <2>6, <2>8
<1> QED
  BY <1>1, <1>2, <1>3, <1>4

\* What moves neither Start nor the globals moves the control only by Stop.
LEMMA SameControl ==
  ASSUME Control, UNCHANGED <<globalVars, taskVars, made, start, stop>>, capture' \subseteq capture
  PROVE  Control'
<1>1. Permits'
  BY DEF Control, Permits, globalVars
<1>2. Held({"flagged"})' = Held({"flagged"}) /\ Going' = Going /\ Opened' = Opened /\ Stored' = Stored
  BY DEF Held, Going, Opened, Stored, globalVars
<1> QED
  BY <1>1, <1>2 DEF Control, Flag, Manager, Streams, Tasks, globalVars, taskVars

LEMMA ControlWorker ==
  ASSUME Control, NEW s \in Session, Emit(s) \/ WorkerEnds(s) \/ CaptureFails(s)
  PROVE  Control'
BY SameControl DEF Emit, WorkerEnds, CaptureFails, sessionVars

LEMMA ControlStop ==
  ASSUME TypeInv, Control, ~Overtaken, BeginStop \/ StopProgress \/ Batch
  PROVE  Control'
<1> USE Kinds DEF TypeInv, Control, StopAt, StopPc
<1>1. CASE Batch
  <2>1. /\ permit' \in {"free", "batch"} /\ permit \in {"free", "batch"}
        /\ permit \notin Starter /\ permit' \notin Starter /\ permit # "slot" /\ permit' # "slot"
        /\ UNCHANGED <<recording, manager, live, taskVars, sessionVars, made, start, stop>>
    BY <1>1 DEF Batch
  <2>2. Permits'
    BY <2>1 DEF Permits
  <2>3. ~Held({"flagged"}) /\ ~Held({"flagged"})' /\ ~Going /\ ~Going'
        /\ ~Opened /\ ~Opened' /\ ~Stored /\ ~Stored'
    BY <2>1 DEF Held, Going, Opened, Stored
  <2> QED
    BY <2>1, <2>2, <2>3 DEF Flag, Manager, Streams, Tasks, taskVars, sessionVars
\* Every other step leaves Start alone.
<1>2. CASE BeginStop
  <2>1. /\ stop.pc = "idle" /\ recording /\ stop'.pc = "marked" /\ live' = None
        /\ stop'.manager = stop.manager /\ stop'.task = stop.task
        /\ UNCHANGED <<recording, permit, manager, taskVars, sessionVars, made, start>>
    BY <1>2, StopMoved DEF BeginStop
  <2>2. Permits'
    BY <2>1 DEF Permits, Opening
  <2>3. Held({"flagged"})' = Held({"flagged"}) /\ Going' = Going /\ Opened' = Opened /\ Stored' = Stored
    BY <2>1 DEF Held, Going, Opened, Stored
  <2> QED
    BY <2>1, <2>2, <2>3 DEF Flag, Manager, Streams, Tasks, taskVars, sessionVars, Opening, Draining
<1>3. CASE TakeManager("marked", "taken")
  <2>1. /\ stop.pc = "marked" /\ stop'.pc = "taken" /\ manager' = None
        /\ stop'.manager = manager /\ stop'.task = stop.task
        /\ UNCHANGED <<recording, permit, live, taskVars, sessionVars, made, start>>
    BY <1>3 DEF TakeManager, LifecycleTypeOK
  <2>2. Permits'
    BY <2>1 DEF Permits, Opening
  <2>3. Held({"flagged"})' = Held({"flagged"}) /\ Going' = Going /\ Opened' = Opened /\ Stored' = Stored
    BY <2>1 DEF Held, Going, Opened, Stored
  <2>4. Stored
    BY <2>1 DEF Flag, Stored, Held
  <2> QED
    BY <2>1, <2>2, <2>3, <2>4 DEF Flag, Manager, Streams, Tasks, taskVars, sessionVars, Opening, Draining
<1>4. CASE Flush
  <2>1. /\ stop.pc = "taken" /\ stop'.pc = "flushed" /\ capture' = capture \ {stop.manager}
        /\ stop'.manager = stop.manager /\ stop'.task = stop.task
        /\ UNCHANGED <<globalVars, taskVars, made, start>>
    BY <1>4, StopMoved DEF Flush
  <2>2. \A p \in Starter : start[p].pc \in {"idle", "claimed", "opening"}
    BY <1>4 DEF Flush, StartIsDone, Publishing
  <2>3. permit = "slot"
    BY <2>1, <2>2 DEF Flag, Held
  <2>4. Permits'
    BY <2>1, <2>2 DEF Permits, globalVars, Late
  <2>5. ~Held({"flagged"})' /\ Going' /\ Opened' /\ Stored' /\ ~Held({"flagged"}) /\ Going /\ Opened /\ Stored
    BY <2>1, <2>3 DEF Held, Going, Opened, Stored, globalVars
  <2>6. capture' = {}
    BY <2>1 DEF Streams, Manager
  <2> QED
    BY <2>1, <2>3, <2>4, <2>5, <2>6 DEF Flag, Manager, Streams, Tasks, globalVars, taskVars, Opening, Draining
<1>5. CASE \/ PutBack \/ TakeTask \/ Drained \/ AbortTask \/ Unlisten
           \/ TakeManager("unlistened", "retaken") \/ Save \/ LowerFlag \/ ReleaseJob
  <2>1. stop.pc \in StopPc \ Opening /\ stop.pc # "idle"
    BY <1>5 DEF PutBack, TakeTask, Drained, AbortTask, Unlisten, TakeManager, Save, LowerFlag,
       ReleaseJob, Opening
  <2>2. permit = "slot" /\ ~Held({"flagged"}) /\ Going /\ Opened /\ Stored
        /\ made # None /\ \A p \in Starter : start[p].pc \notin Late
    BY <2>1 DEF Flag, Going, Opened, Stored, Held, Permits, None
  <2>3. capture = {} /\ live = None
    BY <2>1 DEF Streams
  <2>4. UNCHANGED <<made, start, capture, live>>
    BY <1>5 DEF PutBack, TakeTask, Drained, AbortTask, Unlisten, TakeManager, Save, LowerFlag,
       ReleaseJob, globalVars, sessionVars
  <2>5. CASE ReleaseJob
    <3>1. /\ stop.pc = "unflagged" /\ permit' = "free" /\ stop' = NotStopping
          /\ UNCHANGED <<recording, manager, taskVars>>
      BY <2>2, <2>5 DEF ReleaseJob, PermitTaken
    <3>2. Permits'
      BY <2>2, <2>4, <3>1 DEF Permits
    <3>3. ~Held({"flagged"})' /\ ~Going' /\ ~Opened' /\ ~Stored'
      BY <3>1 DEF Held, Going, Opened, Stored
    <3> QED
      BY <2>2, <2>3, <2>4, <3>1, <3>2, <3>3 DEF Flag, Manager, Streams, Tasks, taskVars,
         NotStopping, Opening, Draining
  <2>6. CASE ~ReleaseJob
    <3>1. UNCHANGED permit
      BY <1>5, <2>6 DEF PutBack, TakeTask, Drained, AbortTask, Unlisten, TakeManager, Save, LowerFlag,
         globalVars
    <3>2. Permits'
      BY <2>2, <2>4, <3>1 DEF Permits
    <3>3. permit' = "slot" /\ ~Held({"flagged"})' /\ Going' /\ Opened' /\ Stored'
      BY <2>2, <3>1 DEF Held, Going, Opened, Stored
    <3> USE <2>2, <2>3, <2>4, <3>2, <3>3
    <3>4. CASE PutBack
      <4>1. /\ stop.pc = "flushed" /\ stop'.pc = "restored" /\ stop'.manager = None
            /\ stop'.task = stop.task /\ manager' = stop.manager /\ UNCHANGED <<recording, taskVars>>
        BY <3>4 DEF PutBack, StoreManager, LifecycleTypeOK, Manager
      <4> QED
        BY <4>1 DEF Flag, Manager, Streams, Tasks, taskVars, Opening, Draining
    <3>5. CASE TakeTask
      <4>1. /\ stop.pc = "restored" /\ stop'.pc \in {"drained", "draining"}
            /\ stop'.pc = "draining" <=> task # None
            /\ stop'.manager = stop.manager /\ stop'.task = task /\ task' = None
            /\ UNCHANGED <<recording, manager, listeners, listener>>
        BY <3>5 DEF TakeTask, LifecycleTypeOK, globalVars
      <4> QED
        BY <4>1 DEF Flag, Manager, Streams, Tasks, Opening, Draining
    <3>6. CASE Drained \/ AbortTask
      <4>1. /\ stop.pc = "draining" /\ stop'.pc = "drained" /\ stop'.task = None
            /\ stop'.manager = stop.manager /\ UNCHANGED <<recording, manager, taskVars>>
        BY <3>6 DEF Drained, AbortTask, LifecycleTypeOK, globalVars
      <4> QED
        BY <4>1 DEF Flag, Manager, Streams, Tasks, taskVars, Opening, Draining
    <3>7. CASE Unlisten
      <4>1. /\ stop.pc = "drained" /\ stop'.pc = "unlistened" /\ stop'.task = stop.task
            /\ stop'.manager = stop.manager /\ UNCHANGED <<recording, manager, task>>
            /\ listener' = None /\ listeners' = listeners \ {listener}
        BY <3>7, StopMoved DEF Unlisten, StillListening, globalVars
      <4>2. listeners' = {}
        BY <4>1 DEF Tasks
      <4> QED
        BY <4>1, <4>2 DEF Flag, Manager, Streams, Tasks, Opening, Draining
    <3>8. CASE TakeManager("unlistened", "retaken")
      <4>1. /\ stop.pc = "unlistened" /\ stop'.pc = "retaken" /\ stop'.task = stop.task
            /\ stop'.manager = manager /\ manager' = None /\ UNCHANGED <<recording, taskVars>>
        BY <3>8 DEF TakeManager, LifecycleTypeOK
      <4> QED
        BY <4>1 DEF Flag, Manager, Streams, Tasks, taskVars, Opening, Draining
    <3>9. CASE Save
      <4>1. /\ stop.pc = "retaken" /\ stop'.pc = "saved" /\ stop'.task = stop.task
            /\ stop'.manager = None /\ UNCHANGED <<recording, manager, taskVars>>
        BY <3>9 DEF Save, LifecycleTypeOK, globalVars
      <4> QED
        BY <4>1 DEF Flag, Manager, Streams, Tasks, taskVars, Opening, Draining
    <3>10. CASE LowerFlag
      <4>1. /\ stop.pc = "saved" /\ stop'.pc = "unflagged" /\ stop'.task = stop.task
            /\ stop'.manager = stop.manager /\ recording' = FALSE /\ UNCHANGED <<manager, taskVars>>
        BY <3>10, StopMoved DEF LowerFlag
      <4> QED
        BY <4>1 DEF Flag, Manager, Streams, Tasks, taskVars, Opening, Draining
    <3> QED
      BY <1>5, <2>6, <3>4, <3>5, <3>6, <3>7, <3>8, <3>9, <3>10
  <2> QED
    BY <2>5, <2>6
<1> QED
  BY <1>1, <1>2, <1>3, <1>4, <1>5 DEF StopProgress

LEMMA ControlStep == TypeInv /\ Control /\ ~Overtaken /\ [LifecycleNext]_lifecycleVars => Control'
<1> SUFFICES ASSUME TypeInv, Control, ~Overtaken, [LifecycleNext]_lifecycleVars PROVE Control'
  OBVIOUS
<1>1. CASE UNCHANGED lifecycleVars
  BY <1>1, SameControl DEF lifecycleVars, sessionVars
<1> QED
  BY <1>1, ControlClaiming, ControlStreams, ControlWorker, ControlStop DEF LifecycleNext, StartProgress

LEMMA ControlAlways == ASSUME ~Overtaken PROVE LifecycleSpec => []Control
<1>1. LifecycleInit => TypeInv /\ Control
  BY TypeInit, ControlInit
<1>2. TypeInv /\ Control /\ [LifecycleNext]_lifecycleVars => TypeInv' /\ Control'
  BY TypeStep, ControlStep
<1> QED
  BY <1>1, <1>2, PTL DEF LifecycleSpec

(* When Stop does not overtake the last statements of Start: with nothing    *)
(* being recorded, started or stopped, no stream is open, nobody listens,    *)
(* and no live session, manager, task or permit of a recording is left.      *)
THEOREM RestIsClean == ASSUME ~Overtaken PROVE LifecycleSpec => []CleanRest
<1>1. TypeInv /\ Control => CleanRest
  <2> SUFFICES ASSUME TypeInv, Control, AtRest, ~recording PROVE CleanRest
    BY DEF CleanRest
  <2>1. permit \notin Starter /\ permit # "slot" /\ ~Going /\ ~Opened /\ ~Stored
    BY DEF AtRest, Control, Permits, Flag, Claiming, Going, Opened, Stored, Held
  <2>2. stop.pc = "idle" /\ permit \in {"free", "batch"}
    BY <2>1 DEF AtRest, TypeInv, LifecycleTypeOK
  <2> QED
    BY <2>1, <2>2 DEF CleanRest, Control, Manager, Streams, Tasks
<1> QED
  BY <1>1, ControlAlways, TypeAlways, PTL

-----------------------------------------------------------------------------
(* What a session has emitted is in its final transcript or, while it is the *)
(* one under way, in its saver and among the waiting segments.               *)

Workers ==
  \A s \in Session :
    /\ workers[s] = "on" => /\ s = made /\ permit = "slot" /\ (s = task \/ s = stop.task)
                            /\ listener = s \/ \E p \in Starter : start[p].pc = "spawned"
    /\ workers[s] = "aborted" => s \in lost

All(s) == {s} \X (1 .. emitted[s])
Final(s) == s \in lost \/ (saved[s] = All(s) /\ workers[s] \in {"none", "gone"})
Over == ~Going \/ stop.pc \in {"saved", "unflagged"}

Later == \A s \in Session : s > made =>
  workers[s] = "none" /\ emitted[s] = 0 /\ memory[s] = {} /\ saved[s] = {}
Early == \A s \in Session : s = made /\ Going /\ permit # "slot" =>
  workers[s] = "none" /\ emitted[s] = 0 /\ saved[s] = {}
Waited == \A x \in pendingSegments : x[2] <= emitted[x[1]]
Applied == stop.pc \in Draining \cup Closing => \A x \in pendingSegments : x[1] # made
Current == \A s \in Session : s = made /\ ~Over =>
  s \in lost \/ memory[s] \cup Own(s, pendingSegments) = All(s)
Finished == \A s \in Session : s < made \/ (s = made /\ Over) => Final(s)

Work == Workers /\ Later /\ Early /\ Waited /\ Applied /\ Current /\ Finished
State == TypeInv /\ Control /\ Work

LEMMA WorkInit == LifecycleInit => Work
<1> SUFFICES ASSUME LifecycleInit PROVE Work
  OBVIOUS
<1>1. /\ permit = "free" /\ pendingSegments = {} /\ made = 0 /\ stop.pc = "idle"
      /\ \A s \in Session : /\ workers[s] = "none" /\ emitted[s] = 0
                            /\ memory[s] = {} /\ saved[s] = {}
  BY DEF LifecycleInit, NotStopping
<1>2. \A s \in Session : s # made /\ ~(s < made)
  BY <1>1 DEF Session
<1> QED
  BY <1>1, <1>2 DEF Work, Workers, Later, Early, Waited, Applied, Current, Finished, Draining, Closing

\* Who has said nothing has nothing to wait for or to save.
LEMMA Silent ==
  ASSUME LifecycleTypeOK, Waited, NEW s \in Session, emitted[s] = 0
  PROVE  All(s) = {} /\ Own(s, pendingSegments) = {}
<1>1. 1 .. emitted[s] = {}
  OBVIOUS
<1>2. \A x \in pendingSegments : x[1] # s
  <2> SUFFICES ASSUME NEW x \in pendingSegments, x[1] = s PROVE FALSE
    OBVIOUS
  <2>1. x \in Session \X (1 .. E)
    BY DEF LifecycleTypeOK, Segment
  <2>2. x[2] \in 1 .. E /\ x[2] <= 0
    BY <2>1 DEF Waited
  <2> QED
    BY <2>2
<1> QED
  BY <1>1, <1>2 DEF All, Own

\* The parts that look at Start, Stop and permit only through these facts.
LEMMA SameWork ==
  ASSUME State, UNCHANGED <<emitted, workers, transcriptVars, made, lost>>, Over' <=> Over,
         Going' /\ permit' # "slot" => Going /\ permit # "slot",
         stop'.pc \in Draining \cup Closing => stop.pc \in Draining \cup Closing
  PROVE  Later' /\ Early' /\ Waited' /\ Applied' /\ Current' /\ Finished'
<1> USE DEF State, Work, transcriptVars
<1>1. \A s \in Session : All(s)' = All(s) /\ Own(s, pendingSegments)' = Own(s, pendingSegments)
                         /\ Final(s)' = Final(s)
  BY DEF All, Own, Final
<1>2. Later' /\ Early' /\ Waited' /\ Applied'
  BY DEF Later, Early, Waited, Applied
<1> QED
  BY <1>1, <1>2 DEF Current, Finished

\* No worker runs before its starter lets go of the permit.
LEMMA NobodyWorks ==
  ASSUME State, permit # "slot", UNCHANGED <<workers, lost>>
  PROVE  Workers'
BY DEF State, Work, Workers

LEMMA WorkStart ==
  ASSUME State, NEW p \in Starter, Claim(p) \/ StartProgress(p)
  PROVE  Work'
<1> USE Kinds, Moved DEF StartAt, StartStep
<1>a. TypeInv /\ LifecycleTypeOK /\ Control /\ Permits /\ Flag /\ Work
      /\ Workers /\ Later /\ Early /\ Waited /\ Applied /\ Current /\ Finished
  BY DEF State, TypeInv, Control, Work
<1>b. permit # "slot" /\ stop.pc # "idle" => stop.pc \in Opening /\ Held({"flagged"})
  BY <1>a DEF Flag
<1>1. CASE Claim(p) \/ RefuseStart(p)
  <2>1. permit # "slot" /\ permit' # "slot" /\ ~Going /\ ~Going'
        /\ UNCHANGED <<emitted, workers, transcriptVars, made, lost, stop>>
    BY <1>1, <1>a, Holds DEF Claim, RefuseStart, PermitFree, Going, Held, Claiming, sessionVars
  <2>2. Over' /\ Over
    BY <2>1 DEF Over
  <2> QED
    BY <2>1, <2>2, SameWork, NobodyWorks DEF Work
<1>2. CASE OpenStreams(p) \/ RaiseFlag(p) \/ KeepPermit(p)
  <2>1. permit = p /\ permit # "slot" /\ Going /\ Going'
        /\ UNCHANGED <<emitted, workers, transcriptVars, made, lost, stop>>
    BY <1>2, <1>a, Holds DEF OpenStreams, RaiseFlag, KeepPermit, Going, Held, Claiming, globalVars,
       sessionVars
  <2>2. Over' <=> Over
    BY <2>1 DEF Over
  <2> QED
    BY <2>1, <2>2, SameWork, NobodyWorks DEF Work
<1>3. CASE Prepare(p)
  <2>1. /\ permit = p /\ permit # "slot" /\ ~Going /\ start[p].pc = "claimed"
        /\ stop.pc = "idle" /\ made' = made + 1 /\ made' \in Session /\ made \in Nat
        /\ UNCHANGED <<permit, emitted, workers, transcriptVars, lost, stop>>
    <3>1. start[p].pc = "claimed" /\ made < K /\ made' = made + 1
          /\ UNCHANGED <<permit, emitted, workers, transcriptVars, lost, stop>>
      BY <1>3 DEF Prepare, NextGeneration, sessionVars
    <3>2. permit = p /\ permit # "slot"
      BY <3>1, <1>a, Holds DEF Claiming
    <3>3. ~Going /\ ~Held({"flagged"})
      BY <3>1, <3>2 DEF Going, Held
    <3>4. made \in Nat /\ made' \in Session
      BY <3>1, <1>a DEF LifecycleTypeOK, Session
    <3> QED
      BY <3>1, <3>2, <3>3, <3>4, <1>b
  <2>2. Over /\ ~Over' /\ Going'
    <3>1. start'[p].pc = "opening"
      BY <1>3, <1>a DEF Prepare, LifecycleTypeOK
    <3> QED
      BY <2>1, <3>1 DEF Over, Going, Held
  <2>3. Workers'
    BY <2>1, NobodyWorks
  <2>4. \A s \in Session : /\ All(s)' = All(s) /\ Own(s, pendingSegments)' = Own(s, pendingSegments)
                           /\ Final(s)' = Final(s)
    BY <2>1 DEF All, Own, Final, transcriptVars
  <2>5. Later' /\ Early' /\ Waited' /\ Applied'
    BY <2>1, <1>a DEF Later, Early, Waited, Applied, Draining, Closing, Session, transcriptVars
  <2>6. Current'
    <3>1. memory[made'] = {} /\ emitted[made'] = 0
      BY <2>1, <1>a DEF Later
    <3>2. All(made') = {} /\ Own(made', pendingSegments) = {}
      BY <2>1, <3>1, <1>a, Silent
    <3> QED
      BY <2>1, <2>4, <3>1, <3>2 DEF Current, transcriptVars
  <2>7. Finished'
    <3>1. \A s \in Session : s < made' => s < made \/ s = made
      BY <2>1 DEF Session
    <3> QED
      BY <2>1, <2>2, <2>4, <3>1, <1>a DEF Finished
  <2> QED
    BY <2>3, <2>5, <2>6, <2>7 DEF Work
<1>4. CASE OpenFails(p)
  <2>1. /\ permit = p /\ permit # "slot" /\ Going /\ ~Going' /\ permit' = "free"
        /\ UNCHANGED <<emitted, workers, transcriptVars, made, lost, stop>>
    BY <1>4, <1>a, Holds DEF OpenFails, Going, Held, Claiming, sessionVars
  <2>2. Over'
    BY <2>1 DEF Over
  <2>3. Workers'
    BY <2>1, NobodyWorks
  <2>4. \A s \in Session : All(s)' = All(s) /\ Final(s)' = Final(s)
    BY <2>1 DEF All, Final, transcriptVars
  <2>5. Later' /\ Early' /\ Waited' /\ Applied' /\ Current'
    BY <2>1, <2>2, <1>a DEF Later, Early, Waited, Applied, Current, transcriptVars
  <2>6. Finished'
    <3>1. \A s \in Session : s = made => Final(s)
      BY <2>1, <1>a, Silent DEF Early, Final
    <3> QED
      BY <2>1, <2>4, <3>1, <1>a DEF Finished
  <2> QED
    BY <2>3, <2>5, <2>6 DEF Work
<1>5. CASE ClearWaiting(p) \/ Store(p)
  <2>1. /\ permit = p /\ permit # "slot" /\ Going /\ Going' /\ permit' = permit
        /\ start[p].session = made /\ made \in Session /\ pendingSegments' = {}
        /\ UNCHANGED <<emitted, workers, saved, made, lost, stop>>
    BY <1>5, <1>a, Holds DEF ClearWaiting, Store, StoreManager, Going, Held, Claiming, Begun, Permits,
       Identified, TypeInv, globalVars, sessionVars
  <2>2. Workers'
    BY <2>1, NobodyWorks
  <2>3. \A s \in Session : All(s)' = All(s) /\ Final(s)' = Final(s)
    BY <2>1 DEF All, Final
  <2>4. Over' <=> Over
    BY <2>1 DEF Over
  <2>5. emitted[made] = 0 /\ All(made) = {} /\ Own(made, pendingSegments) = {}
    BY <2>1, <1>a, Silent DEF Early
  <2>6. UNCHANGED memory
    <3>1. CASE ClearWaiting(p)
      BY <3>1 DEF ClearWaiting
    <3>2. CASE Store(p)
      <4>1. memory' = [memory EXCEPT ![made] = @ \cup {}]
        BY <2>1, <2>5, <3>2 DEF Store, StoreManager
      <4> QED
        BY <4>1, <1>a DEF LifecycleTypeOK
    <3> QED
      BY <1>5, <3>1, <3>2
  <2>7. Later' /\ Early' /\ Waited' /\ Applied'
    BY <2>1, <2>6, <1>a DEF Later, Early, Waited, Applied
  <2>8. Current'
    <3>1. Own(made, pendingSegments)' = {}
      BY <2>1 DEF Own
    <3> QED
      BY <2>1, <2>3, <2>4, <2>5, <2>6, <3>1, <1>a DEF Current
  <2>9. Finished'
    BY <2>1, <2>3, <2>4, <1>a DEF Finished
  <2> QED
    BY <2>2, <2>7, <2>8, <2>9 DEF Work
<1>6. CASE SpawnTask(p) \/ Listen(p)
  <2>1. /\ permit = "slot" /\ stop.pc \in Opening /\ start[p].session = made /\ made \in Session
        /\ UNCHANGED <<permit, emitted, transcriptVars, made, lost, stop>>
    BY <1>6, <1>a DEF SpawnTask, Listen, Permits, Late, Begun, Identified, TypeInv, globalVars,
       sessionVars
  <2>2. Going /\ Going' /\ ~Over /\ ~Over'
    BY <2>1 DEF Going, Over, Opening
  <2>3. /\ \A s \in Session : s # made => workers'[s] = workers[s]
        /\ \A s \in Session : All(s)' = All(s) /\ Own(s, pendingSegments)' = Own(s, pendingSegments)
    BY <1>6, <1>a, <2>1 DEF SpawnTask, Listen, sessionVars, transcriptVars, All, Own, LifecycleTypeOK
  <2>4. Workers'
    <3>1. CASE SpawnTask(p) /\ UNCHANGED workers
      <4>1. task' \in {task, made} /\ UNCHANGED listener
        BY <2>1, <3>1 DEF SpawnTask
      <4>2. \A q \in Starter : start[q].pc = "spawned" => start'[q].pc = "spawned"
        BY <1>a, <3>1 DEF SpawnTask
      <4> QED
        BY <2>1, <4>1, <4>2, <3>1, <1>a DEF Workers
    <3>2. CASE SpawnTask(p) /\ ~UNCHANGED workers
      <4>1. task' = made /\ StartGoes(p, "spawned") /\ workers' = [workers EXCEPT ![made] = "on"]
        BY <2>1, <3>2 DEF SpawnTask
      <4>2. start'[p].pc = "spawned"
        BY <4>1, <1>a
      <4>3. workers'[made] = "on"
        BY <4>1, <2>1, <1>a DEF LifecycleTypeOK
      <4> QED
        BY <2>1, <2>3, <4>1, <4>2, <4>3, <1>a DEF Workers
    <3>3. CASE Listen(p)
      <4>1. listener' = made /\ UNCHANGED <<task, workers>>
        BY <2>1, <3>3 DEF Listen, sessionVars
      <4> QED
        BY <2>1, <4>1, <1>a DEF Workers
    <3> QED
      BY <1>6, <3>1, <3>2, <3>3
  <2>5. Later' /\ Early' /\ Waited' /\ Applied' /\ Current'
    <3>1. \A s \in Session : s > made => s # made
      BY <2>1 DEF Session
    <3> QED
      BY <2>1, <2>2, <2>3, <3>1, <1>a DEF Later, Early, Waited, Applied, Current, transcriptVars
  <2>6. Finished'
    <3>1. \A s \in Session : s < made => s # made
      BY <2>1 DEF Session
    <3> QED
      BY <2>1, <2>2, <2>3, <3>1, <1>a DEF Finished, Final, transcriptVars
  <2> QED
    BY <2>4, <2>5, <2>6 DEF Work
<1> QED
  BY <1>1, <1>2, <1>3, <1>4, <1>5, <1>6 DEF StartProgress

LEMMA WorkEmit ==
  ASSUME State, Control', ~Overtaken, NEW s \in Session, Emit(s)
  PROVE  Work'
<1> USE Kinds
<1> DEFINE x == <<s, emitted[s] + 1>>
<1>1. TypeInv /\ LifecycleTypeOK /\ Control /\ Permits /\ Flag /\ Manager /\ Tasks /\ Work
      /\ Workers /\ Later /\ Early /\ Waited /\ Applied /\ Current /\ Finished
  BY DEF State, TypeInv, Control, Work
<1>2. /\ workers[s] \in {"on", "aborted"} /\ emitted[s] < E
      /\ emitted' = [emitted EXCEPT ![s] = @ + 1] /\ Persist(s, x)
      /\ workers' = [workers EXCEPT ![s] = IF @ = "aborted" THEN "gone" ELSE @]
      /\ UNCHANGED <<globalVars, taskVars, capture, saved, made, start, stop, lost>>
      /\ \A p \in Starter : start[p].pc \in {"idle", "claimed", "opening"}
  BY DEF Emit, StartIsDone, Publishing
<1>3. /\ emitted'[s] = emitted[s] + 1 /\ emitted[s] \in Nat
      /\ \A t \in Session : t # s => emitted'[t] = emitted[t] /\ workers'[t] = workers[t]
      /\ workers[s] = "on" => workers'[s] = "on"
      /\ workers[s] = "aborted" => workers'[s] = "gone"
  BY <1>1, <1>2 DEF LifecycleTypeOK
<1>4. s <= made /\ made \in Nat /\ s \in Nat
  <2>1. made \in Nat /\ s \in Nat
    BY <1>1 DEF Session, LifecycleTypeOK
  <2>2. ~(s > made)
    BY <1>1, <1>2 DEF Later
  <2> QED
    BY <2>1, <2>2
<1>5. (Over' <=> Over) /\ (Going' <=> Going) /\ permit' = permit
  BY <1>2 DEF Over, Going, Held, globalVars
<1>6. \A t \in Session : t # s => All(t)' = All(t)
  BY <1>3 DEF All
<1>7. All(s)' = All(s) \cup {x}
  <2>1. 1 .. emitted'[s] = (1 .. emitted[s]) \cup {emitted[s] + 1}
    BY <1>3
  <2> QED
    BY <2>1 DEF All
\* What the saver or the waiting segments get of it.
<1>8. /\ manager = None => UNCHANGED memory
      /\ \A t \in Session : t # s \/ t # manager => memory'[t] = memory[t]
      /\ pendingSegments' = pendingSegments \/ (pendingSegments' = pendingSegments \cup {x} /\ listeners # {} /\ manager = None)
      /\ memory' \in [Session -> SUBSET Segment]
  <2>1. CASE UNCHANGED memory
    BY <2>1, <1>1, <1>2 DEF Persist, Kept, LifecycleTypeOK
  <2>2. CASE manager # None /\ memory' = [memory EXCEPT ![manager] = @ \cup Own(manager, {x})]
             /\ UNCHANGED pendingSegments
    <3>1. manager \in Session /\ x \in Segment
      BY <2>2, <1>1, <1>2, <1>3 DEF LifecycleTypeOK, Segment
    <3>2. \A t \in Session : t # manager => memory'[t] = memory[t]
      BY <2>2, <1>1 DEF LifecycleTypeOK
    <3>3. manager # s => memory'[manager] = memory[manager]
      BY <2>2, <3>1, <1>1 DEF LifecycleTypeOK, Own
    <3>4. memory' \in [Session -> SUBSET Segment]
      BY <2>2, <3>1, <1>1 DEF LifecycleTypeOK, Own
    <3> QED
      BY <2>2, <3>1, <3>2, <3>3, <3>4
  <2> QED
    BY <1>2, <2>1, <2>2 DEF Persist
\* A worker that still runs is heard, and Stop has not saved yet.
<1>9. workers[s] = "on" =>
        /\ s = made /\ permit = "slot" /\ listeners # {} /\ ~Over
        /\ stop.pc \notin Closing
  <2> SUFFICES ASSUME workers[s] = "on"
               PROVE  /\ s = made /\ permit = "slot" /\ listeners # {} /\ ~Over
                      /\ stop.pc \notin Closing
    OBVIOUS
  <2>1. s = made /\ permit = "slot" /\ listener = s /\ (s = task \/ s = stop.task)
    BY <1>1, <1>2 DEF Workers
  <2>2. stop.pc \in Opening \cup {"flushed", "restored", "draining"}
    BY <2>1, <1>1 DEF Tasks
  <2> QED
    BY <2>1, <2>2, <1>1 DEF Tasks, Over, Going, Opening, Closing
<1>10. listeners # {} /\ manager = None => stop.pc \notin Draining \cup Closing
  <2> SUFFICES ASSUME listeners # {}, manager = None PROVE stop.pc \notin Draining \cup Closing
    OBVIOUS
  <2>1. listener # None /\ permit = "slot" /\ made # None
    BY <1>1 DEF Tasks, Flag, Going, None
  <2>2. stop.pc \in Opening \cup Draining \cup {"flushed", "drained"}
        /\ stop.pc \notin {"idle", "marked", "drained", "unlistened"} \cup Draining
    BY <2>1, <1>1 DEF Tasks, Manager, Stored
  <2> QED
    BY <2>2 DEF Opening, Draining, Closing
<1>11. Workers'
  BY <1>1, <1>2, <1>3 DEF Workers, globalVars, taskVars
<1>12. Later'
  <2> SUFFICES ASSUME NEW t \in Session, t > made
               PROVE  workers'[t] = "none" /\ emitted'[t] = 0 /\ memory'[t] = {} /\ saved'[t] = {}
    BY <1>2 DEF Later
  <2>1. t # s
    BY <1>4 DEF Session
  <2> QED
    BY <2>1, <1>1, <1>2, <1>3, <1>8 DEF Later
<1>13. Early'
  BY <1>1, <1>2, <1>3, <1>5 DEF Early, Workers
<1>14. Waited'
  <2> SUFFICES ASSUME NEW y \in pendingSegments' PROVE y[2] <= emitted'[y[1]]
    BY DEF Waited
  <2>1. CASE y = x
    BY <2>1, <1>3
  <2>2. CASE y \in pendingSegments
    <3>1. y \in Session \X (1 .. E)
      BY <2>2, <1>1 DEF LifecycleTypeOK, Segment
    <3>2. y[1] \in Session /\ y[2] \in Nat /\ y[2] <= emitted[y[1]] /\ emitted[y[1]] \in Nat
      BY <2>2, <3>1, <1>1 DEF Waited, LifecycleTypeOK
    <3> QED
      BY <3>2, <1>3
  <2> QED
    BY <1>8, <2>1, <2>2
<1>15. Applied'
  <2>1. stop.pc \in Draining \cup Closing => pendingSegments' = pendingSegments
    BY <1>8, <1>10
  <2> QED
    BY <2>1, <1>1, <1>2 DEF Applied
<1>16. Current'
  <2> SUFFICES ASSUME NEW t \in Session, t = made, ~Over, t \notin lost
               PROVE  memory'[t] \cup Own(t, pendingSegments)' = All(t)'
    BY <1>2, <1>5 DEF Current
  <2>1. memory[t] \cup Own(t, pendingSegments) = All(t)
    BY <1>1 DEF Current
  <2>2. CASE t # s
    <3>1. Own(t, pendingSegments)' = Own(t, pendingSegments)
      BY <2>2, <1>8 DEF Own
    <3> QED
      BY <2>1, <2>2, <3>1, <1>6, <1>8
  <2>3. CASE t = s
    <3>1. workers[s] = "on" /\ listeners # {}
      BY <2>3, <1>1, <1>2, <1>9 DEF Workers
    <3>2. CASE manager = None
      <4>1. UNCHANGED memory /\ pendingSegments' = pendingSegments \cup {x}
        BY <3>1, <3>2, <1>2, <1>8 DEF Persist, Kept
      <4>2. Own(t, pendingSegments)' = Own(t, pendingSegments) \cup {x}
        BY <2>3, <4>1 DEF Own
      <4> QED
        BY <2>1, <2>3, <4>1, <4>2, <1>7
    <3>3. CASE manager # None
      <4>1. manager = s
        BY <2>3, <3>3, <1>1 DEF Manager
      <4>2. memory' = [memory EXCEPT ![s] = @ \cup Own(s, {x})] /\ UNCHANGED pendingSegments
        BY <3>1, <3>3, <4>1, <1>2 DEF Persist
      <4>3. memory'[s] = memory[s] \cup {x}
        BY <4>2, <1>1 DEF LifecycleTypeOK, Own
      <4> QED
        BY <2>1, <2>3, <4>2, <4>3, <1>7
    <3> QED
      BY <3>2, <3>3
  <2> QED
    BY <2>2, <2>3
<1>17. Finished'
  <2> SUFFICES ASSUME NEW t \in Session, t < made \/ (t = made /\ Over) PROVE Final(t)'
    BY <1>2, <1>5 DEF Finished
  <2>1. Final(t)
    BY <1>1 DEF Finished
  <2>2. CASE t = s
    <3>1. workers[s] = "aborted"
      BY <2>2, <1>2, <1>4, <1>9
    <3> QED
      BY <2>2, <3>1, <1>1, <1>2 DEF Workers, Final
  <2>3. CASE t # s
    BY <2>1, <2>3, <1>2, <1>3, <1>6 DEF Final
  <2> QED
    BY <2>2, <2>3
<1> QED
  BY <1>11, <1>12, <1>13, <1>14, <1>15, <1>16, <1>17 DEF Work

LEMMA WorkEnds ==
  ASSUME State, NEW s \in Session, WorkerEnds(s) \/ CaptureFails(s)
  PROVE  Work'
<1> USE Kinds
<1>1. TypeInv /\ LifecycleTypeOK /\ Work
      /\ Workers /\ Later /\ Early /\ Waited /\ Applied /\ Current /\ Finished
  BY DEF State, TypeInv, Work
<1>2. /\ UNCHANGED <<globalVars, taskVars, emitted, transcriptVars, made, start, stop, lost>>
      /\ \A t \in Session : workers'[t] = workers[t] \/ (workers'[t] = "gone" /\ workers[t] # "none")
  BY <1>1 DEF WorkerEnds, CaptureFails, sessionVars, LifecycleTypeOK
<1>3. (Over' <=> Over) /\ (Going' <=> Going) /\ permit' = permit
  BY <1>2 DEF Over, Going, Held, globalVars
<1>4. \A t \in Session : /\ All(t)' = All(t) /\ Own(t, pendingSegments)' = Own(t, pendingSegments)
                         /\ Final(t) => Final(t)'
  BY <1>2 DEF All, Own, Final, transcriptVars
<1>5. Workers'
  BY <1>1, <1>2 DEF Workers, globalVars, taskVars
<1>6. Later' /\ Early'
  BY <1>1, <1>2, <1>3 DEF Later, Early, transcriptVars
<1>7. Waited' /\ Applied'
  BY <1>1, <1>2 DEF Waited, Applied, transcriptVars
<1>8. Current' /\ Finished'
  BY <1>1, <1>2, <1>3, <1>4 DEF Current, Finished, transcriptVars
<1> QED
  BY <1>5, <1>6, <1>7, <1>8 DEF Work

LEMMA WorkStop ==
  ASSUME State, ~Overtaken, BeginStop \/ StopProgress \/ Batch
  PROVE  Work'
<1> USE Kinds DEF StopAt, StopPc
<1>1. TypeInv /\ LifecycleTypeOK /\ Control /\ Permits /\ Flag /\ Manager /\ Tasks /\ Work
      /\ Workers /\ Later /\ Early /\ Waited /\ Applied /\ Current /\ Finished
  BY DEF State, TypeInv, Control, Work
<1>2. stop.pc \notin Opening => permit = "slot" /\ Going /\ made \in Session
  BY <1>1 DEF Flag, Going, LifecycleTypeOK, Session, Opening
\* Steps that move neither the task nor a transcript.
<1>3. CASE Batch
  <2>1. permit # "slot" /\ permit' # "slot" /\ ~Going /\ ~Going'
        /\ UNCHANGED <<emitted, workers, transcriptVars, made, lost, stop>>
    BY <1>3 DEF Batch, Going, Held, sessionVars
  <2>2. Over' /\ Over
    BY <2>1 DEF Over
  <2> QED
    BY <2>1, <2>2, SameWork, NobodyWorks DEF Work
<1>4. CASE BeginStop \/ Flush \/ TakeManager("marked", "taken") \/ TakeManager("unlistened", "retaken")
           \/ LowerFlag
  <2>1. /\ UNCHANGED <<permit, emitted, workers, transcriptVars, made, start, lost, taskVars>>
        /\ stop'.task = stop.task
        /\ \/ stop.pc \in {"idle", "marked", "taken"} /\ stop'.pc \in {"marked", "taken", "flushed"}
           \/ stop.pc = "unlistened" /\ stop'.pc = "retaken"
           \/ stop.pc = "saved" /\ stop'.pc = "unflagged"
    BY <1>1, <1>4, StopMoved DEF BeginStop, Flush, TakeManager, LowerFlag, LifecycleTypeOK, globalVars, sessionVars
  <2>2. Going' <=> Going
    BY <2>1 DEF Going, Held
  <2>3. Over' <=> Over
    BY <2>1, <2>2 DEF Over
  <2>4. stop'.pc \in Draining \cup Closing => stop.pc \in Draining \cup Closing
    BY <2>1 DEF Draining, Closing
  <2>5. Workers'
    BY <1>1, <2>1 DEF Workers, taskVars
  <2> QED
    BY <2>1, <2>2, <2>3, <2>4, <2>5, SameWork DEF Work
<1>5. CASE Unlisten
  <2>1. /\ stop.pc = "drained" /\ stop'.pc = "unlistened"
        /\ UNCHANGED <<permit, emitted, workers, transcriptVars, made, start, lost>>
    BY <1>5, StopMoved, <1>1 DEF Unlisten, globalVars, sessionVars
  <2>2. (Going' <=> Going) /\ (Over' <=> Over)
    BY <2>1 DEF Going, Held, Over
  <2>3. stop.pc \in Draining \cup Closing
    BY <2>1 DEF Closing
  <2>4. task = None /\ stop.task = None
    BY <2>1, <1>1 DEF Tasks, Opening
  <2>5. Workers'
    BY <1>1, <2>1, <2>4 DEF Workers
  <2> QED
    BY <2>1, <2>2, <2>3, <2>5, SameWork DEF Work
<1>6. CASE TakeTask
  <2>1. /\ stop.pc = "restored" /\ stop'.pc \in {"drained", "draining"} /\ stop'.task = task
        /\ UNCHANGED <<permit, emitted, workers, transcriptVars, made, start, lost, listener>>
    BY <1>6, <1>1 DEF TakeTask, LifecycleTypeOK, globalVars, sessionVars
  <2>2. (Going' <=> Going) /\ (Over' <=> Over)
    BY <2>1 DEF Going, Held, Over
  <2>3. stop.pc \in Draining \cup Closing /\ stop.task = None
    BY <2>1, <1>1 DEF Draining, Tasks
  <2>4. Workers'
    BY <1>1, <2>1, <2>3 DEF Workers
  <2> QED
    BY <2>1, <2>2, <2>3, <2>4, SameWork DEF Work
<1>7. CASE ReleaseJob
  <2>1. /\ stop.pc = "unflagged" /\ permit = "slot" /\ permit' = "free" /\ stop'.pc = "idle"
        /\ UNCHANGED <<emitted, workers, transcriptVars, made, start, lost>>
    BY <1>2, <1>7 DEF ReleaseJob, PermitTaken, NotStopping, sessionVars, Opening
  <2>2. ~Going' /\ Over /\ Over'
    BY <2>1 DEF Going, Held, Over
  <2>3. task = None /\ stop.task = None
    BY <2>1, <1>1 DEF Tasks, Opening
  <2>4. Workers'
    BY <1>1, <2>1, <2>3 DEF Workers
  <2> QED
    BY <2>1, <2>2, <2>4, SameWork DEF Work, Draining, Closing
\* The saver takes what waits for it.
<1>8. CASE PutBack
  <2>1. /\ stop.pc = "flushed" /\ stop'.pc = "restored" /\ stop'.task = stop.task
        /\ UNCHANGED <<permit, taskVars, emitted, workers, made, start, lost>>
    BY <1>1, <1>8 DEF PutBack, LifecycleTypeOK, sessionVars
  <2>2. permit = "slot" /\ Going /\ Going' /\ ~Over /\ ~Over' /\ made \in Session /\ stop.manager = made
    BY <1>1, <1>2, <2>1 DEF Manager, Opening, Going, Over
  <2>3. memory' = [memory EXCEPT ![made] = @ \cup Own(made, pendingSegments)] /\ pendingSegments' = {}
        /\ UNCHANGED saved
    BY <1>1, <1>8, <2>2 DEF PutBack, StoreManager
  <2>4. /\ memory'[made] = memory[made] \cup Own(made, pendingSegments)
        /\ \A t \in Session : t # made => memory'[t] = memory[t]
    BY <1>1, <2>2, <2>3 DEF LifecycleTypeOK
  <2>5. \A t \in Session : All(t)' = All(t) /\ Final(t)' = Final(t) /\ Own(t, pendingSegments)' = {}
    BY <2>1, <2>3 DEF All, Final, Own
  <2>6. Workers'
    BY <1>1, <2>1 DEF Workers, taskVars
  <2>7. Later' /\ Early' /\ Waited' /\ Applied'
    <3>1. \A t \in Session : t > made => t # made
      BY <2>2 DEF Session
    <3> QED
      BY <1>1, <2>1, <2>2, <2>3, <2>4, <3>1 DEF Later, Early, Waited, Applied
  <2>8. Current' /\ Finished'
    BY <1>1, <2>1, <2>2, <2>4, <2>5 DEF Current, Finished
  <2> QED
    BY <2>6, <2>7, <2>8 DEF Work
<1>9. CASE Drained \/ AbortTask
  <2>1. /\ stop.pc = "draining" /\ stop'.pc = "drained" /\ stop'.task = None
        /\ UNCHANGED <<permit, taskVars, emitted, transcriptVars, made, start>>
    BY <1>1, <1>9 DEF Drained, AbortTask, LifecycleTypeOK, globalVars, sessionVars
  <2>2. permit = "slot" /\ Going /\ Going' /\ ~Over /\ ~Over' /\ made \in Session /\ stop.task = made
        /\ task = None
    BY <1>1, <1>2, <2>1 DEF Tasks, Opening, Going, Over
  <2>3. /\ \A t \in Session : t # made => workers'[t] = workers[t]
        /\ \/ workers'[made] = "gone" /\ UNCHANGED lost
           \/ workers'[made] = "aborted" /\ lost' = lost \cup {made}
    BY <1>1, <1>9, <2>2 DEF Drained, AbortTask, sessionVars, LifecycleTypeOK
  <2>4. Workers'
    BY <1>1, <2>1, <2>2, <2>3 DEF Workers
  <2>5. \A t \in Session : t > made \/ t < made => t # made
    BY <2>2 DEF Session
  <2>6. Later' /\ Early' /\ Waited' /\ Applied'
    BY <1>1, <2>1, <2>2, <2>3, <2>5 DEF Later, Early, Waited, Applied, transcriptVars, Draining, Closing
  <2>7. \A t \in Session : All(t)' = All(t) /\ Own(t, pendingSegments)' = Own(t, pendingSegments)
    BY <2>1 DEF All, Own, transcriptVars
  <2>8. Current'
    BY <1>1, <2>1, <2>2, <2>3, <2>7 DEF Current, transcriptVars
  <2>9. Finished'
    BY <1>1, <2>1, <2>2, <2>3, <2>5, <2>7 DEF Finished, Final, transcriptVars
  <2> QED
    BY <2>4, <2>6, <2>8, <2>9 DEF Work
<1>10. CASE Save
  <2>1. /\ stop.pc = "retaken" /\ stop'.pc = "saved" /\ stop'.task = stop.task
        /\ UNCHANGED <<permit, taskVars, emitted, workers, pendingSegments, memory, made, start, lost>>
    BY <1>1, <1>10 DEF Save, LifecycleTypeOK, globalVars, sessionVars
  <2>2. permit = "slot" /\ Going /\ ~Over /\ made \in Session /\ stop.manager = made
        /\ task = None /\ stop.task = None
    BY <1>1, <1>2, <2>1 DEF Manager, Tasks, Opening, Over
  <2>3. saved'[made] = memory[made] /\ \A t \in Session : t # made => saved'[t] = saved[t]
    BY <1>1, <1>10, <2>2 DEF Save, LifecycleTypeOK
  <2>4. Over' /\ permit' = "slot"
    BY <2>1, <2>2 DEF Over
  <2>5. Workers'
    BY <1>1, <2>1 DEF Workers, taskVars
  <2>6. \A t \in Session : t > made \/ t < made => t # made
    BY <2>2 DEF Session
  <2>7. Later' /\ Early' /\ Waited' /\ Applied' /\ Current'
    BY <1>1, <2>1, <2>3, <2>4, <2>6 DEF Later, Early, Waited, Applied, Current, Draining, Closing
  <2>8. \A t \in Session : All(t)' = All(t)
    BY <2>1 DEF All
  <2>9. Own(made, pendingSegments) = {}
    BY <1>1, <2>1 DEF Applied, Closing, Own
  <2>10. workers[made] # "on" /\ (workers[made] = "aborted" => made \in lost)
    BY <1>1, <2>2 DEF Workers
  <2>11. Final(made)'
    BY <1>1, <2>1, <2>2, <2>3, <2>8, <2>9, <2>10 DEF Current, Final, LifecycleTypeOK
  <2>12. Finished'
    <3> SUFFICES ASSUME NEW t \in Session, t < made \/ t = made PROVE Final(t)'
      BY <2>1 DEF Finished
    <3> QED
      BY <1>1, <2>1, <2>3, <2>6, <2>8, <2>11 DEF Finished, Final
  <2> QED
    BY <2>5, <2>7, <2>12 DEF Work
<1> QED
  BY <1>3, <1>4, <1>5, <1>6, <1>7, <1>8, <1>9, <1>10 DEF StopProgress

LEMMA WorkStep == State /\ ~Overtaken /\ [LifecycleNext]_lifecycleVars => Work'
<1> SUFFICES ASSUME State, ~Overtaken, [LifecycleNext]_lifecycleVars PROVE Work'
  OBVIOUS
<1>1. Control'
  BY ControlStep DEF State
<1>2. CASE UNCHANGED lifecycleVars
  <2>1. UNCHANGED <<emitted, workers, transcriptVars, made, lost, permit, start, stop, task, listener>>
    BY <1>2 DEF lifecycleVars, globalVars, taskVars, sessionVars
  <2>2. (Going' <=> Going) /\ (Over' <=> Over)
    BY <2>1 DEF Going, Held, Over
  <2>3. Workers'
    BY <2>1 DEF State, Work, Workers
  <2> QED
    BY <2>1, <2>2, <2>3, SameWork DEF Work
<1> QED
  BY <1>1, <1>2, WorkStart, WorkEmit, WorkEnds, WorkStop DEF LifecycleNext

(* When Stop does not overtake the last statements of Start: whatever the    *)
(* worker of a stopped recording emitted is in its final transcript, unless  *)
(* the worker had to be aborted; through any number of recordings, and       *)
(* although Stop takes the manager away twice.                               *)
THEOREM EmittedIsSaved == ASSUME ~Overtaken PROVE LifecycleSpec => []NothingEmittedLost
<1>1. LifecycleInit => State
  BY TypeInit, ControlInit, WorkInit DEF State
<1>2. State /\ [LifecycleNext]_lifecycleVars => State'
  BY TypeStep, ControlStep, WorkStep DEF State
<1>3. State => NothingEmittedLost
  <2> SUFFICES ASSUME State, AtRest, ~recording, NEW s \in Session \ lost
               PROVE  saved[s] = {s} \X (1 .. emitted[s])
    BY DEF NothingEmittedLost
  <2>1. ~Going
    BY DEF State, AtRest, Control, Permits, Flag, Claiming, Going, Held
  <2>2. CASE s <= made
    BY <2>1, <2>2 DEF State, TypeInv, LifecycleTypeOK, Session, Work, Finished, Over, Final, All
  <2>3. CASE s > made
    <3>1. saved[s] = {} /\ 1 .. emitted[s] = {}
      BY <2>3 DEF State, Work, Later
    <3> QED
      BY <3>1
  <2> QED
    BY <2>2, <2>3 DEF State, TypeInv, LifecycleTypeOK, Session
<1> QED
  BY <1>1, <1>2, <1>3, PTL DEF LifecycleSpec
=============================================================================
