-------------------------- MODULE RecordingProcess --------------------------
(***************************************************************************)
(* One process of the app around its recordings: Start and Stop over the   *)
(* process-wide state, the recovery snapshot of the transcript of one      *)
(* recording, and the jobs that share the engines, with the switch of the  *)
(* index. Stop takes from the snapshot only that its final write is the    *)
(* whole transcript or is reported, and from the jobs only that the permit *)
(* is given or refused (Batch); each part is otherwise on its own.         *)
(***************************************************************************)
EXTENDS RecordingLifecycle, TranscriptSnapshot, KnowledgeScheduler

VARIABLE uses   \* bound: a behaviour follows one of the three parts

partVars == <<lifecycleVars, snapshotVars, allVars>>
processVars == <<partVars, uses>>

ProcessInit ==
  /\ LifecycleInit /\ SnapshotInit /\ SchedulerInit
  /\ uses \in {"lifecycle", "snapshot", "jobs"}
  /\ (uses # "jobs" => ~slow)

ProcessNext ==
  /\ UNCHANGED uses
  /\ \/ uses = "lifecycle" /\ LifecycleNext /\ UNCHANGED <<snapshotVars, allVars>>
     \/ uses = "snapshot" /\ SnapshotNext /\ UNCHANGED <<lifecycleVars, allVars>>
     \/ uses = "jobs" /\ SchedulerNext /\ UNCHANGED <<lifecycleVars, snapshotVars>>

\* The fairness of a part says nothing of a behaviour that follows another one.
ProcessSpec ==
  /\ ProcessInit /\ [][ProcessNext]_processVars
  /\ (uses = "snapshot" => SnapshotFair) /\ (uses = "jobs" => SchedulerFair)
=============================================================================
