--------------------------- MODULE KnowledgeIndex ---------------------------
(***************************************************************************)
(* The semantic index of one source: its row in knowledge_sources, its job *)
(* in knowledge_index_jobs, its chunks, and the one durable worker that    *)
(* reads a passage, waits for its vector and stages it, while the text is  *)
(* edited, reindexing is asked for or cancelled, the index is switched off *)
(* and the process dies. A text is known by the revision that brought it.  *)
(***************************************************************************)
EXTENDS Integers

CONSTANTS
  Passages,       \* passages of a text
  MaxGeneration   \* bound: changes of the text and demands to reindex

ASSUME IndexConstants == Passages \in Nat \ {0} /\ MaxGeneration \in Nat \ {0}

VARIABLES
  source,     \* the row of knowledge_sources; semantic = 0 is NULL
  job,        \* the row of knowledge_index_jobs, if there is one
  chunks,     \* knowledge_chunks with their vectors
  indexer,    \* the worker: the job it took, its next passage, what it read
  indexOn,    \* Scheduler.is_enabled
  held,       \* a recording, foreground work or a database that fails has the worker wait
  ownFailures \* history: failed passes over the present generation

indexVars == <<source, job, chunks, indexer, indexOn, held, ownFailures>>

NotRead == 0
MaxAttempts == 3
Idle == [pc |-> "idle", revision |-> 0, generation |-> 0, next |-> 0, text |-> NotRead]

Source == [revision : Nat, generation : Nat, semantic : Nat]
Job == [on : BOOLEAN, revision : Nat, generation : Nat, attempts : 0 .. MaxAttempts, paused : BOOLEAN]
Chunk == [revision : Nat, generation : Nat, passage : 0 .. Passages - 1, text : Nat]
Indexer == [pc : {"idle", "pass", "failed"}, revision : Nat, generation : Nat,
            next : 0 .. Passages, text : Nat]

IndexTypeOK ==
  /\ source \in Source /\ job \in Job /\ chunks \subseteq Chunk
  /\ indexer \in Indexer
  /\ indexOn \in BOOLEAN /\ held \in BOOLEAN /\ ownFailures \in Nat

NewJob(s) == [on |-> TRUE, revision |-> s.revision, generation |-> s.generation,
              attempts |-> 0, paused |-> FALSE]

\* A new meeting: knowledge_meeting_insert.
IndexInit ==
  /\ source = [revision |-> 1, generation |-> 1, semantic |-> 0]
  /\ job = NewJob(source)
  /\ chunks = {}
  /\ indexer = Idle
  /\ indexOn \in BOOLEAN /\ held \in BOOLEAN
  /\ ownFailures = 0

-----------------------------------------------------------------------------
(* The worker.                                                               *)

Matches(r) == r.revision = source.revision /\ r.generation = source.generation

\* store::current, and the guard of stage_evidence and of publish.
Current == Matches(indexer) /\ job.on /\ job.generation = source.generation /\ ~job.paused

\* A turn of the worker passes without a pass while it is held.
Take ==
  /\ indexer.pc = "idle" /\ indexOn /\ ~held
  /\ job.on /\ Matches(job) /\ job.attempts < MaxAttempts /\ ~job.paused
  /\ indexer' = [pc |-> "pass", revision |-> job.revision, generation |-> job.generation,
                  next |-> 0, text |-> NotRead]
  /\ UNCHANGED <<source, job, chunks, indexOn, held, ownFailures>>

\* A passage is read in a transaction of its own; its vector is then awaited.
Read ==
  /\ indexer.pc = "pass" /\ indexer.text = NotRead /\ indexer.next < Passages
  /\ indexOn /\ Current
  /\ indexer' = [indexer EXCEPT !.text = source.revision]
  /\ UNCHANGED <<source, job, chunks, indexOn, held, ownFailures>>

ChunkOf(w) == [revision |-> w.revision, generation |-> w.generation, passage |-> w.next, text |-> w.text]
SameId(a, b) == a.revision = b.revision /\ a.passage = b.passage /\ a.text = b.text

\* A chunk staged before, by a pass over the same text, moves to this generation.
Stage ==
  /\ indexer.pc = "pass" /\ indexer.text # NotRead
  /\ Current
  /\ chunks' = {c \in chunks : ~SameId(c, ChunkOf(indexer))} \cup {ChunkOf(indexer)}
  /\ indexer' = [indexer EXCEPT !.next = @ + 1, !.text = NotRead]
  /\ UNCHANGED <<source, job, indexOn, held, ownFailures>>

Unguarded == indexer.generation >= 1    \* mutant: whatever happened to the text meanwhile
Publishable == Current

Publish ==
  /\ indexer.pc = "pass" /\ indexer.next = Passages
  /\ Publishable
  /\ source' = [source EXCEPT !.semantic = source.revision]
  /\ chunks' = {c \in chunks : c.generation = indexer.generation}
  /\ job' = [job EXCEPT !.on = FALSE]
  /\ indexer' = Idle
  /\ UNCHANGED <<indexOn, held, ownFailures>>

\* Superseded, Disabled, Busy or Cancelled: the pass ends and nothing is
\* counted; nor is a failure that the database does not take.
GiveUp ==
  /\ indexer.pc \in {"pass", "failed"}
  /\ indexer' = Idle
  /\ UNCHANGED <<source, job, chunks, indexOn, held, ownFailures>>

\* The model or the storage fails; record_failure comes after index_source.
Fail ==
  /\ indexer.pc = "pass"
  /\ indexer' = [indexer EXCEPT !.pc = "failed"]
  /\ UNCHANGED <<source, job, chunks, indexOn, held, ownFailures>>

AnyJob == job.on                       \* mutant: a late failure is counted against a newer job
CountsAgainst == job.on /\ job.revision = indexer.revision /\ job.generation = indexer.generation

RecordFailure ==
  /\ indexer.pc = "failed"
  /\ job' = IF CountsAgainst /\ job.attempts < MaxAttempts THEN [job EXCEPT !.attempts = @ + 1] ELSE job
  /\ ownFailures' = ownFailures + (IF Matches(indexer) THEN 1 ELSE 0)
  /\ indexer' = Idle
  /\ UNCHANGED <<source, chunks, indexOn, held>>

-----------------------------------------------------------------------------
(* The rest of the program.                                                  *)

\* A new generation: nothing is published, and there is a job for it.
Queue(s) ==
  /\ source' = s
  /\ job' = NewJob(s)
  /\ ownFailures' = 0
Forgetful(s) ==                        \* mutant: a job that exists keeps its generation
  /\ source' = s
  /\ job' = IF job.on THEN [job EXCEPT !.revision = s.revision, !.attempts = 0, !.paused = FALSE] ELSE NewJob(s)
  /\ ownFailures' = 0
Requeue(s) == Queue(s)

\* The rows of the transcript change: the triggers run in the same transaction.
Revised ==
  /\ source.generation < MaxGeneration
  /\ Requeue([revision |-> source.revision + 1, generation |-> source.generation + 1, semantic |-> 0])
  /\ UNCHANGED <<chunks, indexer, indexOn, held>>

Reindex ==
  /\ source.generation < MaxGeneration
  /\ Requeue([source EXCEPT !.generation = @ + 1, !.semantic = 0])
  /\ UNCHANGED <<chunks, indexer, indexOn, held>>

CancelIndex ==
  /\ job.on
  /\ job' = [job EXCEPT !.paused = TRUE]
  /\ UNCHANGED <<source, chunks, indexer, indexOn, held, ownFailures>>

SwitchIndex ==
  /\ indexOn' = ~indexOn
  /\ UNCHANGED <<source, job, chunks, indexer, held, ownFailures>>

\* Capture and foreground work come and go, the database fails and recovers.
Hold ==
  /\ held' = ~held
  /\ UNCHANGED <<source, job, chunks, indexer, indexOn, ownFailures>>

\* The process dies and starts again: only the worker forgets.
IndexRestart ==
  /\ indexer' = Idle
  /\ indexOn' \in BOOLEAN /\ held' \in BOOLEAN
  /\ UNCHANGED <<source, job, chunks, ownFailures>>

Superseded == GiveUp /\ ~(Current /\ indexOn)
Interrupted == GiveUp /\ Current /\ indexOn
Work == Take \/ Read \/ Stage \/ Publish \/ RecordFailure \/ Superseded
IndexStep == Work \/ Interrupted \/ Fail \/ Reindex \/ CancelIndex \/ SwitchIndex \/ Hold

IndexNext == IndexStep \/ Revised \/ IndexRestart

\* The loop of the worker wakes every second; what has it wait, interrupts a
\* pass or fails it may do so for ever.
IndexFair == WF_indexVars(Work)

-----------------------------------------------------------------------------
(* Properties.                                                               *)

\* What the two queries of retrieval.rs join over.
Ready == source.semantic = source.revision
Visible == {<<c.text, c.passage>> : c \in {d \in chunks :
              /\ Ready
              /\ d.revision = source.revision /\ d.generation = source.generation}}

Promise == INSTANCE IndexPromise WITH revision <- source.revision, ready <- Ready, shown <- Visible

\* A source that store::status counts as ready shows a search by meaning all
\* the passages of the present text, any other shows none, and a text that is
\* replaced is hidden in that very step (publish, stage_evidence, triggers).
KeepsIndexPromise == Promise!Spec

\* A text that is not published has a job of its own revision and generation,
\* which the worker can find (next_job joins over both), and a job is given
\* up only for failures of its own text: a pass over an older text that fails
\* late is not counted against it (record_failure).
Accounted ==
  /\ Ready \/ (job.on /\ Matches(job))
  /\ job.on => job.attempts <= ownFailures

\* A text is found in the end, unless its index was cancelled, failed three
\* times or was switched off, or capture, foreground work or the database hold
\* the worker or interrupt it again and again.
Indexed ==
  \/ []<>(Ready \/ job.paused \/ job.attempts = MaxAttempts \/ ~indexOn \/ held)
  \/ []<><<Interrupted>>_indexVars
=============================================================================
