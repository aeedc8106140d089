------------------------- MODULE MeetingLibraryProofs -------------------------
(***************************************************************************)
(* What MeetingLibrary promises of saved meetings, for any number of       *)
(* texts, passages, documents, exports, failures and restarts. One section *)
(* for each part: the index, the transcript with its summary, the exports, *)
(* and the documents with their archive. Every section has an invariant of *)
(* its own part; a step of another part leaves it alone.                   *)
(***************************************************************************)
EXTENDS MeetingLibrary, FiniteSetTheorems, TLAPS

-----------------------------------------------------------------------------
(* The index: it keeps its promise to a search, and no job is lost or given  *)
(* up for failures that are not its own.                                     *)

\* There is a job exactly as long as the text is not published, and it is for
\* the present generation.
OneJob ==
  /\ source.semantic \in {0, source.revision} /\ source.revision # 0
  /\ job.on <=> ~Ready
  /\ job.on => Matches(job)

\* A vector is made from the text of the revision it is stored under.
TrueText ==
  /\ indexer.text \in {NotRead, indexer.revision}
  /\ indexer.text # NotRead => indexer.next < Passages
  /\ \A c \in chunks : c.text = c.revision

\* What a worker has passed is staged for its generation, and all of it when
\* the text is published.
Staged(r, last) ==
  \A p \in 0 .. last : \E c \in chunks :
    c.revision = r.revision /\ c.generation = r.generation /\ c.passage = p
AllStaged ==
  /\ Staged(indexer, indexer.next - 1)
  /\ Ready => Staged(source, Passages - 1)

IndexInv == IndexTypeOK /\ OneJob /\ TrueText /\ AllStaged /\ (job.on => job.attempts <= ownFailures)

LEMMA IndexFirst == IndexInit => IndexInv
BY IndexConstants DEF IndexInit, IndexInv, IndexTypeOK, OneJob, TrueText, AllStaged, Staged, Ready, Matches,
   Source, Job, Chunk, Indexer, NewJob, Idle, NotRead, MaxAttempts

(* One step of the index for each action of the worker and of the rest.      *)
LEMMA IndexKept == ASSUME IndexInv, [IndexNext]_indexVars PROVE IndexInv'
<1> USE IndexConstants DEF IndexInv, IndexTypeOK, OneJob, TrueText, Ready, Matches,
        Source, Job, Chunk, Indexer, NotRead, MaxAttempts
<1>1. CASE Take
  <2>1. IndexTypeOK' /\ OneJob' /\ TrueText' /\ (job.on => job.attempts <= ownFailures)'
    BY <1>1 DEF Take
  <2>2. AllStaged'
    BY <1>1 DEF Take, AllStaged, Staged
  <2> QED
    BY <2>1, <2>2
<1>2. CASE GiveUp \/ RecordFailure \/ IndexRestart
  <2>1. indexer' = Idle /\ UNCHANGED <<source, chunks>>
    BY <1>2 DEF GiveUp, RecordFailure, IndexRestart
  <2>2. TrueText' /\ AllStaged'
    BY <2>1 DEF Idle, AllStaged, Staged
  <2>3. \/ UNCHANGED <<job, ownFailures>>
        \/ UNCHANGED job /\ ownFailures' = ownFailures + 1
        \/ /\ job.attempts < MaxAttempts /\ CountsAgainst
           /\ job' = [job EXCEPT !.attempts = @ + 1]
           /\ ownFailures' = ownFailures + (IF Matches(indexer) THEN 1 ELSE 0)
    BY <1>2 DEF GiveUp, RecordFailure, IndexRestart
  <2>4. IndexTypeOK'
    BY <1>2, <2>1, <2>3 DEF GiveUp, RecordFailure, IndexRestart, Idle
  <2>5. OneJob'
    BY <2>1, <2>3
  <2>6. (job.on => job.attempts <= ownFailures)'
    BY <2>1, <2>3 DEF CountsAgainst
  <2> QED
    BY <2>2, <2>4, <2>5, <2>6
<1>3. CASE Read
  <2>1. IndexTypeOK' /\ OneJob' /\ TrueText' /\ (job.on => job.attempts <= ownFailures)'
    BY <1>3 DEF Read, Current
  <2>2. AllStaged'
    BY <1>3 DEF Read, AllStaged, Staged
  <2> QED
    BY <2>1, <2>2
<1>4. CASE Stage
  <2>1. chunks' = {c \in chunks : ~SameId(c, ChunkOf(indexer))} \cup {ChunkOf(indexer)}
    BY <1>4 DEF Stage
  <2>2. indexer' = [indexer EXCEPT !.next = @ + 1, !.text = NotRead] /\ UNCHANGED <<source, job, indexOn, held, ownFailures>>
    BY <1>4 DEF Stage
  <2>3. ~Ready /\ indexer.text = indexer.revision /\ indexer.next < Passages
    BY <1>4 DEF Stage, Current
  <2>4. ChunkOf(indexer) \in Chunk
    BY <2>3 DEF ChunkOf
  <2>5. indexer' \in Indexer
    <3>1. indexer' = [pc |-> indexer.pc, revision |-> indexer.revision, generation |-> indexer.generation,
                      next |-> indexer.next + 1, text |-> NotRead]
      BY <2>2
    <3> QED
      BY <2>3, <3>1
  <2>6. IndexTypeOK'
    BY <2>1, <2>2, <2>4, <2>5
  <2>7. TrueText'
    BY <2>1, <2>2, <2>3 DEF ChunkOf
  <2>8. Staged(indexer, indexer.next - 1)'
    <3> SUFFICES ASSUME NEW p \in 0 .. indexer'.next - 1
                 PROVE  \E c \in chunks' : c.revision = indexer.revision /\ c.generation = indexer.generation /\ c.passage = p
      BY <2>2 DEF Staged
    <3>1. CASE p = indexer.next
      BY <2>1, <3>1 DEF ChunkOf
    <3>2. CASE p # indexer.next
      <4>1. p \in 0 .. indexer.next - 1
        BY <2>2, <3>2
      <4>2. PICK c \in chunks : c.revision = indexer.revision /\ c.generation = indexer.generation /\ c.passage = p
        BY <4>1 DEF AllStaged, Staged
      <4>3. c \in chunks'
        BY <2>1, <3>2, <4>2 DEF ChunkOf, SameId
      <4> QED
        BY <4>2, <4>3
    <3> QED
      BY <3>1, <3>2
  <2> QED
    BY <2>2, <2>3, <2>6, <2>7, <2>8 DEF AllStaged
<1>5. CASE Publish
  <2>1. indexer.next = Passages /\ Matches(indexer) /\ job.on
    BY <1>5 DEF Publish, Publishable, Current
  <2>2. /\ source' = [source EXCEPT !.semantic = source.revision]
        /\ chunks' = {c \in chunks : c.generation = indexer.generation}
        /\ job' = [job EXCEPT !.on = FALSE]
        /\ indexer' = Idle
        /\ UNCHANGED <<indexOn, held, ownFailures>>
    BY <1>5 DEF Publish
  <2>3. IndexTypeOK'
    <3>1. source' = [revision |-> source.revision, generation |-> source.generation, semantic |-> source.revision]
      BY <2>2
    <3>2. source' \in Source /\ indexer' \in Indexer
      BY <2>2, <3>1 DEF Idle
    <3>3. job' \in Job
      BY <2>2
    <3> QED
      BY <2>2, <3>2, <3>3
  <2>7. TrueText'
    BY <2>2 DEF Idle
  <2>4. OneJob'
    BY <2>2
  <2>5. Staged(source, Passages - 1)'
    BY <2>1, <2>2 DEF AllStaged, Staged
  <2>6. AllStaged'
    BY <2>2, <2>5 DEF Idle, AllStaged, Staged
  <2> QED
    BY <2>2, <2>3, <2>4, <2>6, <2>7
<1>6. CASE Fail
  <2>1. IndexTypeOK' /\ OneJob' /\ TrueText' /\ (job.on => job.attempts <= ownFailures)'
    BY <1>6 DEF Fail
  <2>2. AllStaged'
    BY <1>6 DEF Fail, AllStaged, Staged
  <2> QED
    BY <2>1, <2>2
<1>7. CASE Reindex \/ Revised
  <2>1. /\ \/ source' = [source EXCEPT !.generation = @ + 1, !.semantic = 0]
           \/ source' = [revision |-> source.revision + 1, generation |-> source.generation + 1, semantic |-> 0]
        /\ job' = NewJob(source')
        /\ ownFailures' = 0
        /\ UNCHANGED <<chunks, indexer, indexOn, held>>
    BY <1>7 DEF Reindex, Revised, Requeue, Queue, NewJob
  <2>2. source' \in Source /\ source'.semantic = 0 /\ source'.revision # 0
    <3>1. CASE source' = [source EXCEPT !.generation = @ + 1, !.semantic = 0]
      <4>1. source' = [revision |-> source.revision, generation |-> source.generation + 1, semantic |-> 0]
        BY <3>1
      <4> QED
        BY <4>1
    <3>2. CASE source' = [revision |-> source.revision + 1, generation |-> source.generation + 1, semantic |-> 0]
      BY <3>2
    <3> QED
      BY <2>1, <3>1, <3>2
  <2>3. IndexTypeOK' /\ OneJob' /\ TrueText' /\ (job.on => job.attempts <= ownFailures)'
    BY <2>1, <2>2 DEF NewJob
  <2>4. AllStaged'
    BY <2>1, <2>2 DEF AllStaged, Staged
  <2> QED
    BY <2>3, <2>4
<1>8. CASE CancelIndex \/ SwitchIndex \/ Hold
  <2>1. IndexTypeOK' /\ OneJob' /\ TrueText' /\ (job.on => job.attempts <= ownFailures)'
    BY <1>8 DEF CancelIndex, SwitchIndex, Hold
  <2>2. AllStaged'
    BY <1>8 DEF CancelIndex, SwitchIndex, Hold, AllStaged, Staged
  <2> QED
    BY <2>1, <2>2
<1>9. CASE UNCHANGED indexVars
  BY <1>9 DEF indexVars, AllStaged, Staged
<1> QED
  BY <1>1, <1>2, <1>3, <1>4, <1>5, <1>6, <1>7, <1>8, <1>9
  DEF IndexNext, IndexStep, Work, Superseded, Interrupted

(* The library does nothing to the index but its own steps.                  *)
LEMMA IndexStepped == ASSUME [MeetingNext]_meetingVars PROVE [IndexNext]_indexVars
BY DEF MeetingNext, meetingVars, MeetingRestart, IndexNext

LEMMA IndexAlways == MeetingSpec => []IndexInv /\ [][IndexNext]_indexVars /\ IndexInit
<1>1. MeetingInit => IndexInv /\ IndexInit
  BY IndexFirst DEF MeetingInit
<1>2. IndexInv /\ [MeetingNext]_meetingVars => IndexInv'
  BY IndexKept, IndexStepped
<1>3. [MeetingNext]_meetingVars => [IndexNext]_indexVars
  BY IndexStepped
<1> QED
  BY <1>1, <1>2, <1>3, PTL DEF MeetingSpec

(* The rows of the index keep their types, with any number of passages,     *)
(* changes of the text and failures.                                         *)
THEOREM IndexTypes == MeetingSpec => []IndexTypeOK
<1>1. IndexInv => IndexTypeOK
  BY DEF IndexInv
<1> QED
  BY <1>1, IndexAlways, PTL

(* A text that is not published always has a job of its own, which the worker *)
(* can find, and no job is given up for failures of an older text             *)
(* (next_job, record_failure and the triggers that queue a generation).       *)
THEOREM JobsAccounted == MeetingSpec => []Accounted
<1>1. IndexInv => Accounted
  BY DEF IndexInv, OneJob, Accounted
<1> QED
  BY <1>1, IndexAlways, PTL

(* While there is a job, nothing is ready, and a search is shown nothing.    *)
LEMMA Hidden == ASSUME ~Ready PROVE Visible = {}
BY DEF Visible

(* What is ready is shown whole: every passage was staged, from this text.   *)
LEMMA Shown == IndexInv /\ Ready => Visible = Promise!Whole(source.revision)
<1> SUFFICES ASSUME IndexInv, Ready PROVE Visible = Promise!Whole(source.revision)
  OBVIOUS
<1>1. ASSUME NEW v \in Visible PROVE v \in Promise!Whole(source.revision)
  <2>1. PICK c \in chunks : c.revision = source.revision /\ v = <<c.text, c.passage>>
    BY <1>1 DEF Visible
  <2>2. c.passage \in 0 .. Passages - 1 /\ c.text = source.revision
    BY <2>1 DEF IndexInv, IndexTypeOK, Chunk, TrueText
  <2> QED
    BY <2>1, <2>2 DEF Promise!Whole
<1>2. ASSUME NEW v \in Promise!Whole(source.revision) PROVE v \in Visible
  <2>1. PICK p \in 0 .. Passages - 1 : v = <<source.revision, p>>
    BY <1>2 DEF Promise!Whole
  <2>2. PICK c \in chunks : c.revision = source.revision /\ c.generation = source.generation /\ c.passage = p
    BY DEF IndexInv, AllStaged, Staged
  <2>3. c.text = source.revision
    BY <2>2 DEF IndexInv, TrueText
  <2> QED
    BY <2>1, <2>2, <2>3 DEF Visible
<1> QED
  BY <1>1, <1>2

LEMMA ShownNext == (IndexInv /\ Ready => Visible = Promise!Whole(source.revision))'
BY Shown, PTL

(* A step of the index is a step of what it promises, or changes nothing a   *)
(* search can see.                                                           *)
LEMMA PromiseStep == ASSUME IndexInv, IndexInv', [IndexNext]_indexVars PROVE [Promise!Next]_(Promise!vars)
<1> USE DEF Promise!vars, Promise!Next
<1>1. CASE Publish
  <2>1. Ready' /\ source'.revision = source.revision
    BY <1>1 DEF Publish, Ready, IndexInv, IndexTypeOK, Source
  <2>2. Visible' = Promise!Whole(source.revision)'
    BY <2>1, ShownNext
  <2> QED
    BY <2>1, <2>2 DEF Promise!Publish, Promise!Whole
<1>2. CASE Revised
  <2>1. ~Ready' /\ source'.revision = source.revision + 1
    BY <1>2 DEF Revised, Requeue, Queue, NewJob, Ready, IndexInv, IndexTypeOK, Source
  <2> QED
    BY <2>1, Hidden DEF Promise!Replace, Ready, Visible
<1>3. CASE Reindex
  <2>1. ~Ready' /\ source'.revision = source.revision
    BY <1>3 DEF Reindex, Requeue, Queue, Ready, IndexInv, OneJob, IndexTypeOK, Source
  <2> QED
    BY <2>1, Hidden DEF Promise!Forget, Ready, Visible
<1>4. CASE Stage
  <2>1. ~Ready /\ UNCHANGED source
    BY <1>4 DEF Stage, Current, IndexInv, OneJob
  <2> QED
    BY <2>1, Hidden DEF Ready, Visible
<1>5. CASE UNCHANGED <<source, chunks>>
  BY <1>5 DEF Ready, Visible
<1> QED
  BY <1>1, <1>2, <1>3, <1>4, <1>5
  DEF IndexNext, IndexStep, Work, Superseded, Interrupted, Take, Read, GiveUp, Fail, RecordFailure,
      CancelIndex, SwitchIndex, Hold, IndexRestart, indexVars

(* The rows, the jobs and the worker do what IndexPromise says, for any       *)
(* number of passages: a search by meaning is shown all of the present text   *)
(* or nothing, and a replaced text is hidden in that very step.               *)
THEOREM IndexKeepsPromise == MeetingSpec => KeepsIndexPromise
<1>1. IndexInit => Promise!Init
  <2>1. IndexInit => source.revision = 1 /\ ~Ready /\ chunks = {}
    BY DEF IndexInit, Ready
  <2> QED
    BY <2>1, Hidden DEF Promise!Init
<1>2. IndexInv /\ IndexInv' /\ [IndexNext]_indexVars => [Promise!Next]_(Promise!vars)
  BY PromiseStep
<1> QED
  BY <1>1, <1>2, IndexAlways, PTL DEF KeepsIndexPromise, Promise!Spec

-----------------------------------------------------------------------------
(* The transcript and its summary.                                           *)

\* What a correction makes the text that the segment had before any.
First(b) == IF b.original = NoText THEN b.before ELSE b.original

\* Texts are numbered as they come.
Numbered ==
  /\ rows.text <= used.texts
  /\ \A i \in 1 .. Len(archive) : archive[i].text <= used.texts
  /\ \A i \in 1 .. Len(batches) : {batches[i].before, batches[i].after} \subseteq 0 .. used.texts

\* What undoing gives up is what the correction typed: the first text is where
\* the batch says, also for the batches under it.
Corrected ==
  batches # <<>> /\ rows.text = batches[Len(batches)].after
    => rows.original = First(batches[Len(batches)])
Chained ==
  \A i \in 1 .. Len(batches) - 1 :
    /\ batches[i + 1].before = batches[i].after => batches[i + 1].original = First(batches[i])
    /\ ~history.resegmented => batches[i + 1].before = batches[i].after

\* The folder has the text of the rows or is known not to, also under a
\* command; a copy under way, or a retranscription about to commit, wrote it.
Mirrored ==
  /\ ~history.torn => file = rows.text \/ marker \/ incomplete
  /\ command.kind = "clear" => file = rows.text
  /\ command.kind = "commit" /\ command.saved => history.torn /\ file = used.texts

HistoryOK ==
  /\ history \in [owed : SUBSET Nat, torn : BOOLEAN, resegmented : BOOLEAN, overlooked : BOOLEAN]

TextInv ==
  /\ TextTypeOK /\ HistoryOK
  /\ Numbered /\ Corrected /\ Chained /\ Mirrored /\ TextRecoverable

\* While a generation works, the summary the user has is the backup; it has
\* read the rows only when it is past its preparation.
Backed ==
  Busy => /\ process.backup = process.result
          /\ process.result # 0 => promised.notes = process.result
Unread == generation.pc \in {"none", "accepted", "pending"} => generation.of = NoText

NotesInv == SummaryTypeOK /\ NotesKept /\ GenerationAlone /\ Backed /\ Unread

LEMMA TextFirst == SummaryInit => TextInv /\ NotesInv
<1> SUFFICES ASSUME SummaryInit PROVE TextInv /\ NotesInv
  OBVIOUS
<1> USE TextConstants, NotesConstant DEF SummaryInit, TextInit
<1>1. TextTypeOK
  <2>1. FirstRows \in Rows
    BY DEF FirstRows, Rows, Texts
  <2>2. /\ archive \in Seq(Rows) /\ batches \in Seq(Batch) /\ NoProcess \in Process
        /\ used \in [texts : Texts, faults : 0 .. MaxFaults]
    BY DEF NoProcess, Process, Texts
  <2> QED
    BY <2>1, <2>2 DEF TextTypeOK, Free, Texts, Commands
<1>2. HistoryOK
  BY DEF HistoryOK, HistoryInit
<1>3. Numbered /\ Corrected /\ Chained /\ Mirrored
  BY DEF Numbered, Corrected, Chained, Mirrored, FirstRows, Free
<1>4. TextRecoverable
  BY DEF TextRecoverable, Recoverable, ArchivedRows, HistoryInit, FirstRows
<1>5. NotesInv
  BY <1>1 DEF NotesInv, SummaryTypeOK, NotesKept, GenerationAlone, Backed, Unread, Busy, NoProcess,
     NoGeneration, Generation, NoText
<1> QED
  BY <1>1, <1>2, <1>3, <1>4, <1>5 DEF TextInv

\* A command begins with what its holder is for.
LEMMA CommandMade ==
  ASSUME NEW kind \in Commands
  PROVE  /\ Holding(kind) \in [kind : Commands, read : Rows, saved : BOOLEAN, guard : BOOLEAN]
         /\ Free \in [kind : Commands, read : Rows, saved : BOOLEAN, guard : BOOLEAN]
         /\ Holding(kind).kind = kind /\ ~Holding(kind).saved
<1>1. FirstRows \in Rows
  BY TextConstants DEF FirstRows, Rows, Texts
<1>2. Free \in [kind : Commands, read : Rows, saved : BOOLEAN, guard : BOOLEAN]
  BY <1>1 DEF Free, Commands
<1> QED
  BY <1>2 DEF Holding, Free

\* The last batch of some, and the sequence without it.
LEMMA LastBatch ==
  ASSUME batches \in Seq(Batch), batches # <<>>
  PROVE  /\ Len(batches) \in Nat /\ Len(batches) > 0
         /\ Last(batches) = batches[Len(batches)] /\ Last(batches) \in Batch
         /\ Front(batches) \in Seq(Batch) /\ Len(Front(batches)) = Len(batches) - 1
         /\ \A i \in 1 .. Len(batches) - 1 : Front(batches)[i] = batches[i]
         /\ Front(batches) # <<>> => Len(batches) > 1
<1> DEFINE n == Len(batches)
<1>1. n \in Nat /\ n > 0 /\ Last(batches) = batches[n] /\ batches[n] \in Batch
  BY DEF Last
<1>2. \A i \in 1 .. n - 1 : batches[i] \in Batch
  BY <1>1
<1>3. Front(batches) = SubSeq(batches, 1, n - 1)
  BY DEF Front
<1>4. Front(batches) = [i \in 1 .. n - 1 |-> batches[i]]
  BY <1>1, <1>3
<1>5. Front(batches) \in Seq(Batch) /\ Len(Front(batches)) = n - 1
  BY <1>1, <1>2, <1>4
<1> QED
  BY <1>1, <1>4, <1>5

LEMMA TextNumbers ==
  ASSUME TextTypeOK
  PROVE  /\ used.texts \in Nat /\ rows.text \in Nat /\ Len(archive) \in Nat /\ Len(batches) \in Nat
         /\ \A i \in 1 .. Len(archive) : archive[i] \in Rows /\ archive[i].text \in Nat
         /\ \A i \in 1 .. Len(batches) : batches[i] \in Batch /\ batches[i].after \in Nat
<1>1. Texts \subseteq Nat
  BY TextConstants DEF Texts
<1>2. used.texts \in Nat /\ rows.text \in Nat
  BY <1>1 DEF TextTypeOK, Rows
<1>7. Len(archive) \in Nat /\ Len(batches) \in Nat
  BY DEF TextTypeOK
<1>3. \A i \in 1 .. Len(archive) : archive[i] \in Rows
  BY DEF TextTypeOK
<1>4. \A i \in 1 .. Len(batches) : batches[i] \in Batch
  BY DEF TextTypeOK
<1>5. \A r \in Rows : r.text \in Nat
  BY <1>1 DEF Rows
<1>6. \A b \in Batch : b.after \in Nat
  BY <1>1 DEF Batch
<1> QED
  BY <1>2, <1>7, <1>3, <1>4, <1>5, <1>6

LEMMA CorrectKeeps == ASSUME TextInv, Correct PROVE TextInv'
<1> DEFINE typed == rows.original \notin {NoText, rows.text}
           b == [before |-> rows.text, after |-> Fresh, original |-> rows.original]
<1>1. /\ used.texts < MaxTexts /\ used' = [used EXCEPT !.texts = Fresh]
      /\ rows' = [rows EXCEPT !.text = Fresh,
                             !.original = IF @ = NoText THEN rows.text ELSE @]
      /\ history' = [history EXCEPT !.owed =
                      (@ \ (IF typed THEN {rows.text} ELSE {})) \cup {Fresh}]
      /\ batches' = Append(batches, b)
      /\ marker' = TRUE /\ command' = Holding("sync")
      /\ UNCHANGED <<archive, incomplete, file, process, naming>>
  BY DEF Correct, NewText, Marked
<1>2. /\ rows \in Rows /\ used \in [texts : Texts, faults : 0 .. MaxFaults] /\ HistoryOK
      /\ batches \in Seq(Batch) /\ archive \in Seq(Rows)
  BY DEF TextInv, TextTypeOK
<1>3. Fresh \in Texts /\ Fresh = used.texts + 1 /\ NoText \notin Texts /\ Texts \subseteq Nat
  BY <1>1, <1>2, TextConstants DEF Fresh, Texts, NoText
<1>4. /\ rows'.text = Fresh /\ rows'.named = rows.named
      /\ rows'.original = (IF rows.original = NoText THEN rows.text ELSE rows.original)
      /\ rows' \in Rows
  BY <1>1, <1>2, <1>3 DEF Rows
<1>5. used'.texts = Fresh /\ used' \in [texts : Texts, faults : 0 .. MaxFaults]
  BY <1>1, <1>2, <1>3
<1>6. b \in Batch /\ b.before = rows.text /\ b.after = Fresh /\ b.original = rows.original
  BY <1>2, <1>3 DEF Batch, Rows
<1>7. batches' \in Seq(Batch) /\ Len(batches') = Len(batches) + 1
      /\ batches'[Len(batches')] = b
      /\ \A i \in 1 .. Len(batches) : batches'[i] = batches[i]
  BY <1>1, <1>2, <1>6
<1>8. HistoryOK' /\ history'.torn = history.torn /\ history'.resegmented = history.resegmented
      /\ history'.overlooked = history.overlooked
      /\ history'.owed = (history.owed \ (IF typed THEN {rows.text} ELSE {})) \cup {Fresh}
  BY <1>1, <1>2, <1>3 DEF HistoryOK
<1>9. TextTypeOK'
  <2>1. command' \in [kind : Commands, read : Rows, saved : BOOLEAN, guard : BOOLEAN]
    BY <1>1, CommandMade DEF Commands
  <2> QED
    BY <1>1, <1>4, <1>5, <1>7, <2>1 DEF TextInv, TextTypeOK
<1>10. Numbered'
  <2>1. used.texts \in Nat /\ rows.text \in 0 .. used.texts
    BY <1>2, <1>3 DEF TextInv, Numbered, Rows
  <2>2. \A i \in 1 .. Len(batches) :
          {batches'[i].before, batches'[i].after} \subseteq 0 .. used'.texts
    BY <2>1, <1>3, <1>5, <1>7 DEF TextInv, Numbered
  <2>3. \A i \in 1 .. Len(archive) : archive[i].text \in Nat
    BY TextNumbers DEF TextInv
  <2> QED
    BY <2>1, <2>2, <2>3, <1>1, <1>3, <1>4, <1>5 DEF TextInv, Numbered
<1>11. Corrected'
  BY <1>4, <1>6, <1>7, <1>2 DEF Corrected, First
<1>12. Chained'
  <2> SUFFICES ASSUME NEW i \in 1 .. Len(batches') - 1
               PROVE  /\ batches'[i + 1].before = batches'[i].after
                           => batches'[i + 1].original = First(batches'[i])
                      /\ ~history'.resegmented => batches'[i + 1].before = batches'[i].after
    BY DEF Chained
  <2>1. CASE i = Len(batches)
    BY <2>1, <1>2, <1>6, <1>7, <1>8 DEF TextInv, Corrected, TextRecoverable, Last
  <2>2. CASE i # Len(batches)
    <3>1. i \in 1 .. Len(batches) - 1 /\ i + 1 \in 1 .. Len(batches)
      BY <2>2, <1>2, <1>7
    <3> QED
      BY <3>1, <1>2, <1>7, <1>8 DEF TextInv, Chained
  <2> QED
    BY <2>1, <2>2
<1>13. Mirrored'
  BY <1>1, <1>8 DEF Mirrored, Holding, Free
<1>14. TextRecoverable'
  <2>1. history'.owed \subseteq Recoverable'
    <3>1. ArchivedRows' = ArchivedRows
      BY <1>1 DEF ArchivedRows
    <3>2. ASSUME NEW t \in history.owed, ~typed \/ t # rows.text PROVE t \in Recoverable'
      <4>1. PICK r \in {rows} \cup ArchivedRows : t \in {r.text, r.original}
        BY DEF TextInv, TextRecoverable, Recoverable
      <4>2. CASE r \in ArchivedRows
        BY <4>1, <4>2, <3>1 DEF Recoverable
      <4>3. CASE r = rows
        <5>1. t \in Nat
          BY <1>2 DEF HistoryOK
        <5>2. t \in {rows'.text, rows'.original}
          BY <4>1, <4>3, <3>2, <5>1, <1>4 DEF NoText
        <5> QED
          BY <5>2 DEF Recoverable
      <4> QED
        BY <4>1, <4>2, <4>3
    <3>3. Fresh \in Recoverable'
      BY <1>4 DEF Recoverable
    <3> QED
      BY <3>2, <3>3, <1>8
  <2>2. batches' # <<>> => rows'.text = Last(batches').after
    BY <1>4, <1>6, <1>7 DEF Last
  <2> QED
    BY <2>1, <2>2, <1>8 DEF TextInv, TextRecoverable
<1> QED
  BY <1>8, <1>9, <1>10, <1>11, <1>12, <1>13, <1>14 DEF TextInv

LEMMA UndoKeeps == ASSUME TextInv, Undo PROVE TextInv'
<1> DEFINE n == Len(batches)
           b == batches[n]
<1>1. /\ batches # <<>> /\ rows.text = b.after
      /\ rows' = [rows EXCEPT !.text = b.before, !.original = b.original]
      /\ history' = [history EXCEPT !.owed = (@ \ {b.after}) \cup {b.before}]
      /\ batches' = Front(batches)
      /\ marker' = TRUE /\ command' = Holding("sync")
      /\ UNCHANGED <<archive, incomplete, file, process, naming, used>>
  BY DEF Undo, Marked, Last
<1>2. /\ rows \in Rows /\ used \in [texts : Texts, faults : 0 .. MaxFaults] /\ HistoryOK
      /\ batches \in Seq(Batch)
  BY DEF TextInv, TextTypeOK
<1>3. /\ n \in Nat /\ n > 0 /\ b \in Batch
      /\ batches' \in Seq(Batch) /\ Len(batches') = n - 1
      /\ \A i \in 1 .. n - 1 : batches'[i] = batches[i]
  BY <1>1, <1>2, LastBatch
<1>4. /\ rows'.text = b.before /\ rows'.original = b.original /\ rows'.named = rows.named
      /\ rows' \in Rows
  BY <1>1, <1>2, <1>3 DEF Rows, Batch
<1>5. HistoryOK' /\ history'.torn = history.torn /\ history'.resegmented = history.resegmented
      /\ history'.overlooked = history.overlooked
      /\ history'.owed = (history.owed \ {b.after}) \cup {b.before}
  <2>1. b.before \in Nat
    BY <1>3 DEF Batch, Texts
  <2> QED
    BY <1>1, <1>2, <2>1 DEF HistoryOK
<1>6. TextTypeOK'
  BY <1>1, <1>3, <1>4, CommandMade DEF TextInv, TextTypeOK, Commands
<1>7. n > 1 => batches[n - 1] \in Batch /\ n - 1 \in 1 .. Len(batches) - 1
               /\ batches[n - 1] = batches'[Len(batches')]
  BY <1>2, <1>3
<1>8. Numbered'
  BY <1>1, <1>2, <1>3, <1>4 DEF TextInv, Numbered
<1>9. Corrected'
  <2> SUFFICES ASSUME batches' # <<>>, rows'.text = batches'[Len(batches')].after
               PROVE  rows'.original = First(batches'[Len(batches')])
    BY DEF Corrected
  <2>1. n > 1 /\ (n - 1) + 1 = n
    BY <1>3
  <2>2. b.before = batches[n - 1].after => b.original = First(batches[n - 1])
    BY <2>1, <1>7 DEF TextInv, Chained
  <2> QED
    BY <2>1, <2>2, <1>4, <1>7
<1>10. Chained'
  <2> SUFFICES ASSUME NEW i \in 1 .. Len(batches') - 1
               PROVE  /\ batches'[i + 1].before = batches'[i].after
                           => batches'[i + 1].original = First(batches'[i])
                      /\ ~history'.resegmented => batches'[i + 1].before = batches'[i].after
    BY DEF Chained
  <2>1. i \in 1 .. n - 1 /\ i + 1 \in 1 .. n - 1
    BY <1>3
  <2> QED
    BY <2>1, <1>3, <1>5 DEF TextInv, Chained
<1>11. Mirrored'
  BY <1>1, <1>5, CommandMade DEF Mirrored, Commands
<1>12. TextRecoverable'
  <2>1. ArchivedRows' = ArchivedRows
    BY <1>1 DEF ArchivedRows
  <2>2. ASSUME NEW t \in history.owed, t # b.after PROVE t \in Recoverable'
    <3>1. PICK r \in {rows} \cup ArchivedRows : t \in {r.text, r.original}
      BY DEF TextInv, TextRecoverable, Recoverable
    <3>2. CASE r \in ArchivedRows
      BY <3>1, <3>2, <2>1 DEF Recoverable
    <3>3. CASE r = rows
      <4>1. t = rows.original
        BY <3>1, <3>3, <2>2, <1>1
      <4>2. t = First(b)
        BY <4>1, <1>1 DEF TextInv, Corrected
      <4>3. t \in {rows'.text, rows'.original}
        BY <4>2, <1>4 DEF First
      <4> QED
        BY <4>3 DEF Recoverable
    <3> QED
      BY <3>1, <3>2, <3>3
  <2>3. history'.owed \subseteq Recoverable'
    BY <2>2, <1>4, <1>5 DEF Recoverable
  <2>4. batches' # <<>> /\ ~history'.resegmented => rows'.text = Last(batches').after
    <3> SUFFICES ASSUME batches' # <<>>, ~history'.resegmented
                 PROVE  rows'.text = Last(batches').after
      OBVIOUS
    <3>1. n > 1
      BY <1>3
    <3> QED
      BY <3>1, <1>3, <1>4, <1>5, <1>7 DEF TextInv, Chained, Last
  <2> QED
    BY <2>3, <2>4, <1>5 DEF TextInv, TextRecoverable
<1> QED
  BY <1>5, <1>6, <1>8, <1>9, <1>10, <1>11, <1>12 DEF TextInv

\* Rows that are put away stay with all they had.
LEMMA PutAway ==
  ASSUME archive \in Seq(Rows), rows \in Rows, archive' = Append(archive, rows)
  PROVE  /\ archive' \in Seq(Rows)
         /\ ArchivedRows' = ArchivedRows \cup {rows}
         /\ Recoverable \subseteq Recoverable'
<1>1. archive' \in Seq(Rows) /\ Len(archive') = Len(archive) + 1
      /\ archive'[Len(archive')] = rows
      /\ \A i \in 1 .. Len(archive) : archive'[i] = archive[i]
  OBVIOUS
<1>2. DOMAIN archive = 1 .. Len(archive) /\ DOMAIN archive' = 1 .. Len(archive) + 1
      /\ Len(archive) \in Nat
  BY <1>1
<1>3. ArchivedRows' = ArchivedRows \cup {rows}
  BY <1>1, <1>2 DEF ArchivedRows
<1> QED
  BY <1>1, <1>3 DEF Recoverable

\* What puts the rows away and takes all corrections from the undo.
LEMMA ReplaceKeeps ==
  ASSUME TextInv, TextTypeOK', HistoryOK', Mirrored',
         archive' = Append(archive, rows), batches' = <<>>,
         rows'.text <= used'.texts, used'.texts >= used.texts,
         history'.owed \subseteq history.owed \cup {rows'.text},
         history'.overlooked = history.overlooked
  PROVE  TextInv'
<1>1. Recoverable \subseteq Recoverable' /\ rows'.text \in Recoverable'
  BY PutAway DEF TextInv, TextTypeOK, Recoverable
<1>2. TextRecoverable'
  BY <1>1 DEF TextInv, TextRecoverable
<1>3. Numbered'
  <2>1. /\ Len(archive) \in Nat /\ Len(archive') = Len(archive) + 1
        /\ archive'[Len(archive) + 1] = rows
        /\ \A i \in 1 .. Len(archive) : archive'[i] = archive[i] /\ archive[i].text \in Nat
    BY TextNumbers DEF TextInv, TextTypeOK
  <2>2. used.texts \in Nat /\ used'.texts \in Nat /\ rows.text \in Nat
    BY TextConstants DEF TextInv, TextTypeOK, Texts, Rows
  <2> QED
    BY <2>1, <2>2 DEF TextInv, Numbered
<1>4. Corrected' /\ Chained'
  BY DEF Corrected, Chained
<1> QED
  BY <1>2, <1>3, <1>4 DEF TextInv

\* What leaves the words as they are.
LEMMA QuietKeeps ==
  ASSUME TextInv, TextTypeOK', HistoryOK', Mirrored',
         rows'.text = rows.text, rows'.original = rows.original,
         UNCHANGED <<archive, batches>>, used'.texts >= used.texts,
         history'.owed = history.owed, history'.resegmented = history.resegmented,
         history'.overlooked = history.overlooked
  PROVE  TextInv'
<1>1. Recoverable' = Recoverable
  BY DEF Recoverable, ArchivedRows
<1>2. TextRecoverable'
  BY <1>1 DEF TextInv, TextRecoverable
<1>3. Numbered'
  <2>1. used.texts \in Nat /\ used'.texts \in Nat /\ rows.text \in Nat
        /\ \A i \in 1 .. Len(archive) : archive[i].text \in Nat
    BY TextNumbers, TextConstants DEF TextInv, TextTypeOK, Texts
  <2> QED
    BY <2>1 DEF TextInv, Numbered
<1>4. Corrected' /\ Chained'
  BY DEF TextInv, Corrected, Chained
<1> QED
  BY <1>2, <1>3, <1>4 DEF TextInv

LEMMA RestoreKeeps == ASSUME TextInv, Restore PROVE TextInv'
<1>1. /\ archive # <<>> /\ archive' = Append(archive, rows)
      /\ rows' = archive[Len(archive)] /\ batches' = <<>> /\ marker' = TRUE
      /\ command' = Holding("sync")
      /\ history' = [history EXCEPT !.resegmented = FALSE]
      /\ UNCHANGED <<incomplete, file, process, naming, used>>
  BY DEF Restore, Retired, Marked, Last
<1>2. /\ rows \in Rows /\ used \in [texts : Texts, faults : 0 .. MaxFaults] /\ HistoryOK
      /\ archive \in Seq(Rows)
  BY DEF TextInv, TextTypeOK
<1>3. rows' \in Rows /\ archive' \in Seq(Rows)
  BY <1>1, <1>2
<1>4. HistoryOK' /\ history'.owed = history.owed /\ history'.torn = history.torn
      /\ history'.overlooked = history.overlooked
  BY <1>1, <1>2 DEF HistoryOK
<1>5. TextTypeOK'
  BY <1>1, <1>3, CommandMade DEF TextInv, TextTypeOK, Commands
<1>6. Mirrored'
  BY <1>1, CommandMade DEF Mirrored, Commands
<1>7. rows'.text <= used.texts
  <2>1. Len(archive) \in 1 .. Len(archive)
    BY <1>1, <1>2
  <2> QED
    BY <1>1, <2>1 DEF TextInv, Numbered
<1>8. used'.texts >= used.texts
  BY <1>1, <1>2, TextConstants DEF Texts
<1> QED
  BY <1>1, <1>4, <1>5, <1>6, <1>7, <1>8, ReplaceKeeps

LEMMA CommitKeeps == ASSUME TextInv, CommitRetranscription PROVE TextInv'
<1>1. /\ command.kind = "commit"
      /\ archive' = Append(archive, rows)
      /\ rows' = [text |-> used.texts, original |-> NoText, named |-> FALSE]
      /\ batches' = <<>> /\ incomplete' = ~command.saved /\ command' = Free
      /\ history' = [history EXCEPT !.owed = @ \cup {used.texts}, !.torn = FALSE,
                                    !.resegmented = FALSE]
      /\ UNCHANGED <<marker, file, process, naming, used>>
  BY DEF CommitRetranscription, Retired, Archived
<1>2. /\ rows \in Rows /\ used \in [texts : Texts, faults : 0 .. MaxFaults] /\ HistoryOK
      /\ archive \in Seq(Rows)
      /\ command \in [kind : Commands, read : Rows, saved : BOOLEAN, guard : BOOLEAN]
  BY DEF TextInv, TextTypeOK
<1>3. used.texts \in Texts /\ used.texts \in Nat
  BY <1>2, TextConstants DEF Texts
<1>4. rows' \in Rows /\ archive' \in Seq(Rows) /\ rows'.text = used.texts
  BY <1>1, <1>2, <1>3 DEF Rows
<1>5. HistoryOK' /\ history'.owed = history.owed \cup {used.texts} /\ ~history'.torn
      /\ history'.overlooked = history.overlooked
  BY <1>1, <1>2, <1>3 DEF HistoryOK
<1>6. TextTypeOK'
  <2>1. incomplete' \in BOOLEAN
    BY <1>1, <1>2
  <2> QED
    BY <1>1, <1>4, <2>1, CommandMade DEF TextInv, TextTypeOK, Commands
<1>7. Mirrored'
  BY <1>1, <1>4 DEF TextInv, Mirrored, Free
<1> QED
  BY <1>1, <1>3, <1>4, <1>5, <1>6, <1>7, ReplaceKeeps

LEMMA LabelsKeep == ASSUME TextInv, NEW cut \in BOOLEAN, SaveLabels(cut) PROVE TextInv'
<1>1. /\ command.kind = "detect" /\ rows = command.read
      /\ archive' = Append(archive, rows) /\ marker' = TRUE
      /\ command' = [Holding("sync") EXCEPT !.guard = TRUE]
      /\ history' = [history EXCEPT !.owed = IF cut THEN @ \cup {Fresh} ELSE @,
                                !.resegmented = @ \/ cut,
                                !.overlooked = @ \/ (rows.named /\ ~command.read.named)]
      /\ UNCHANGED <<batches, incomplete, file, process, naming>>
  BY DEF SaveLabels, SameRows, Archived, Marked
<1>2. /\ rows \in Rows /\ used \in [texts : Texts, faults : 0 .. MaxFaults] /\ HistoryOK
      /\ archive \in Seq(Rows) /\ batches \in Seq(Batch)
  BY DEF TextInv, TextTypeOK
<1>3. /\ used.texts \in Nat /\ rows.text \in Nat /\ Len(archive) \in Nat
      /\ \A i \in 1 .. Len(archive) : archive[i].text \in Nat
      /\ \A i \in 1 .. Len(batches) : batches[i].after \in Nat
  BY TextNumbers DEF TextInv
<1>4. archive' \in Seq(Rows) /\ Recoverable \subseteq Recoverable'
      /\ Len(archive') = Len(archive) + 1 /\ archive'[Len(archive) + 1] = rows
      /\ \A i \in 1 .. Len(archive) : archive'[i] = archive[i]
  BY <1>1, <1>2, PutAway
<1>5. HistoryOK' /\ history'.torn = history.torn /\ ~history'.overlooked
      /\ history'.resegmented = (history.resegmented \/ cut)
      /\ history'.owed = IF cut THEN history.owed \cup {Fresh} ELSE history.owed
  <2>1. Fresh \in Nat
    BY <1>3 DEF Fresh
  <2> QED
    BY <1>1, <1>2, <2>1 DEF HistoryOK, TextInv, TextRecoverable
<1>6. command' \in [kind : Commands, read : Rows, saved : BOOLEAN, guard : BOOLEAN]
      /\ command'.kind = "sync"
  BY <1>1, CommandMade DEF Commands
<1>7. Mirrored'
  BY <1>1, <1>6 DEF Mirrored
<1>8. CASE cut
  <2>1. /\ used.texts < MaxTexts /\ used' = [used EXCEPT !.texts = Fresh]
        /\ rows' = [text |-> Fresh, original |-> NoText, named |-> FALSE]
    BY <1>8 DEF SaveLabels, NewText
  <2>2. Fresh = used.texts + 1 /\ Fresh \in Texts
    BY <2>1, <1>3, TextConstants DEF Fresh, Texts
  <2>3. rows' \in Rows /\ rows'.text = Fresh
        /\ used' \in [texts : Texts, faults : 0 .. MaxFaults] /\ used'.texts = Fresh
    BY <2>1, <2>2, <1>2 DEF Rows
  <2>4. TextTypeOK'
    BY <1>1, <1>4, <1>6, <2>3 DEF TextInv, TextTypeOK
  <2>5. Numbered'
    BY <1>1, <1>3, <1>4, <2>2, <2>3 DEF TextInv, Numbered
  <2>6. Corrected'
    <3>1. batches # <<>> => Len(batches) \in 1 .. Len(batches)
      BY <1>2, LastBatch
    <3> QED
      BY <1>1, <1>3, <2>2, <2>3, <3>1 DEF TextInv, Numbered, Corrected
  <2>7. Chained'
    BY <1>1, <1>5, <1>8 DEF TextInv, Chained
  <2>8. TextRecoverable'
    <3>1. Fresh \in Recoverable'
      BY <2>3 DEF Recoverable
    <3> QED
      BY <1>4, <1>5, <1>8, <3>1 DEF TextInv, TextRecoverable
  <2> QED
    BY <1>5, <1>7, <2>4, <2>5, <2>6, <2>7, <2>8 DEF TextInv
<1>9. CASE ~cut
  <2>1. rows' = [rows EXCEPT !.named = FALSE] /\ used' = used
    BY <1>9 DEF SaveLabels
  <2>2. rows' \in Rows /\ rows'.text = rows.text /\ rows'.original = rows.original
    BY <2>1, <1>2 DEF Rows
  <2>3. TextTypeOK'
    BY <1>1, <1>4, <1>6, <2>1, <2>2 DEF TextInv, TextTypeOK
  <2>4. Numbered'
    BY <1>1, <1>3, <1>4, <2>1, <2>2 DEF TextInv, Numbered
  <2>5. Corrected' /\ Chained'
    BY <1>1, <1>5, <1>9, <2>2 DEF TextInv, Corrected, Chained
  <2>6. TextRecoverable'
    BY <1>1, <1>4, <1>5, <1>9, <2>2 DEF TextInv, TextRecoverable, Recoverable
  <2> QED
    BY <1>5, <1>7, <2>3, <2>4, <2>5, <2>6 DEF TextInv
<1> QED
  BY <1>8, <1>9

\* A rename, and what goes on around the permit of JOBS.
LEMMA NameKeeps == ASSUME TextInv, Name PROVE TextInv'
<1>1. /\ rows' = [rows EXCEPT !.named = TRUE] /\ naming' = FALSE
      /\ UNCHANGED <<archive, batches, marker, incomplete, file, process, command, used, history>>
  BY DEF Name
<1>2. rows' \in Rows /\ rows'.text = rows.text /\ rows'.original = rows.original
  BY <1>1 DEF TextInv, TextTypeOK, Rows
<1>3. TextTypeOK' /\ HistoryOK' /\ Mirrored'
  BY <1>1, <1>2 DEF TextInv, TextTypeOK, HistoryOK, Mirrored
<1>4. used'.texts >= used.texts
  BY <1>1, TextNumbers DEF TextInv
<1> QED
  BY <1>1, <1>2, <1>3, <1>4, QuietKeeps

LEMMA AroundKeeps ==
  ASSUME TextInv, UNCHANGED <<rowVars, incomplete, process>>,
         HistoryOK', history'.owed = history.owed, history'.resegmented = history.resegmented,
         history'.overlooked = history.overlooked,
         marker' \in BOOLEAN, naming' \in BOOLEAN, file' \in Texts,
         command' \in [kind : Commands, read : Rows, saved : BOOLEAN, guard : BOOLEAN],
         used' \in [texts : Texts, faults : 0 .. MaxFaults], used'.texts >= used.texts,
         Mirrored'
  PROVE  TextInv'
<1>1. TextTypeOK'
  BY DEF TextInv, TextTypeOK, rowVars
<1> QED
  BY <1>1, QuietKeeps DEF rowVars

\* One more failure, and nothing else of the bounds.
LEMMA FaultBound ==
  ASSUME TextTypeOK, Fault \/ UNCHANGED used
  PROVE  /\ used' \in [texts : Texts, faults : 0 .. MaxFaults]
         /\ used'.texts = used.texts /\ used'.texts >= used.texts
<1>1. used \in [texts : Texts, faults : 0 .. MaxFaults] /\ used.texts \in Nat /\ used.faults \in Nat
  BY TextNumbers, TextConstants DEF TextTypeOK
<1> QED
  BY <1>1, TextConstants DEF Fault

LEMMA OthersKeep == ASSUME TextInv, Others PROVE TextInv'
<1> USE DEF TextInv
<1>1. /\ rows \in Rows /\ rows.text \in Texts /\ marker \in BOOLEAN /\ naming \in BOOLEAN
      /\ file \in Texts /\ HistoryOK /\ used.texts \in Nat
      /\ used \in [texts : Texts, faults : 0 .. MaxFaults]
      /\ command \in [kind : Commands, read : Rows, saved : BOOLEAN, guard : BOOLEAN]
  BY TextNumbers DEF TextTypeOK, Rows
<1>2. CASE WriteFile
  <2>1. command' = [command EXCEPT !.kind = "clear"] /\ file' = rows.text
        /\ history' = [history EXCEPT !.torn = FALSE]
        /\ UNCHANGED <<rowVars, marker, incomplete, process, naming, used>>
    BY <1>2 DEF WriteFile
  <2>2. command' \in [kind : Commands, read : Rows, saved : BOOLEAN, guard : BOOLEAN]
        /\ command'.kind = "clear"
    BY <2>1, <1>1 DEF Commands
  <2>3. Mirrored' /\ HistoryOK' /\ history'.owed = history.owed
        /\ history'.resegmented = history.resegmented /\ history'.overlooked = history.overlooked
    BY <2>1, <2>2, <1>1 DEF Mirrored, rowVars, HistoryOK
  <2> QED
    BY <2>1, <2>2, <2>3, <1>1, FaultBound, AroundKeeps
<1>3. CASE RewriteFolder
  <2>1. used.texts < MaxTexts /\ used' = [used EXCEPT !.texts = Fresh] /\ file' = Fresh
        /\ command' = [Holding("commit") EXCEPT !.saved = TRUE]
        /\ history' = [history EXCEPT !.torn = TRUE]
        /\ UNCHANGED <<rowVars, marker, incomplete, process, naming>>
    BY <1>3 DEF RewriteFolder, NewText
  <2>2. Fresh \in Texts /\ Fresh >= used.texts
        /\ used' \in [texts : Texts, faults : 0 .. MaxFaults] /\ used'.texts = Fresh
    BY <2>1, <1>1, TextConstants DEF Fresh, Texts
  <2>3. command' \in [kind : Commands, read : Rows, saved : BOOLEAN, guard : BOOLEAN]
        /\ command'.kind = "commit"
    BY <2>1, CommandMade DEF Commands
  <2>4. Mirrored' /\ HistoryOK' /\ history'.owed = history.owed
        /\ history'.resegmented = history.resegmented /\ history'.overlooked = history.overlooked
    BY <2>1, <2>2, <2>3, <1>1 DEF Mirrored, HistoryOK
  <2> QED
    BY <2>1, <2>2, <2>3, <2>4, <1>1, AroundKeeps
<1>4. CASE FolderFails
  <2>1. /\ used.texts < MaxTexts /\ used.faults < MaxFaults
        /\ used' = [used EXCEPT !.texts = Fresh, !.faults = @ + 1]
        /\ command' = Holding("commit")
        /\ UNCHANGED <<rowVars, marker, incomplete, file, process, naming, history>>
    BY <1>4 DEF FolderFails
  <2>2. Fresh \in Texts /\ Fresh >= used.texts
        /\ used' \in [texts : Texts, faults : 0 .. MaxFaults] /\ used'.texts = Fresh
    <3>1. Fresh \in Texts /\ Fresh >= used.texts
      BY <2>1, <1>1, TextConstants DEF Fresh, Texts
    <3>2. used.faults \in 0 .. MaxFaults /\ used.faults + 1 \in 0 .. MaxFaults
      BY <2>1, <1>1, TextConstants
    <3> QED
      BY <2>1, <1>1, <3>1, <3>2
  <2>3. command' \in [kind : Commands, read : Rows, saved : BOOLEAN, guard : BOOLEAN]
        /\ command'.kind = "commit" /\ ~command'.saved
    BY <2>1, CommandMade DEF Commands
  <2>4. Mirrored' /\ HistoryOK'
    BY <2>1, <2>3, <1>1 DEF Mirrored, HistoryOK, rowVars
  <2> QED
    BY <2>1, <2>2, <2>3, <2>4, <1>1, AroundKeeps
<1>5. CASE Listen \/ SyncAgain \/ Detect \/ ListenFails \/ DetectFails \/ CommitFails \/ SyncFails
           \/ AskName \/ NameRefused
  <2>1. /\ Fault \/ UNCHANGED used
        /\ UNCHANGED <<rowVars, marker, incomplete, file, process, history>>
        /\ naming' \in BOOLEAN
    BY <1>1, <1>5 DEF Listen, SyncAgain, Detect, ListenFails, DetectFails, CommitFails, SyncFails,
       AskName, NameRefused
  <2>2. \/ command' = command
        \/ /\ command' \in [kind : Commands, read : Rows, saved : BOOLEAN, guard : BOOLEAN]
           /\ command'.kind \notin {"clear", "commit"}
    <3>1. [Holding("detect") EXCEPT !.read = rows, !.guard = TRUE]
             \in [kind : Commands, read : Rows, saved : BOOLEAN, guard : BOOLEAN]
          /\ [Holding("detect") EXCEPT !.read = rows, !.guard = TRUE].kind = "detect"
      BY CommandMade, <1>1 DEF Commands
    <3>2. Free.kind = "none"
      BY DEF Free
    <3>3. \/ command' \in {command, Free, Holding("listen"), Holding("sync")}
          \/ command' = [Holding("detect") EXCEPT !.read = rows, !.guard = TRUE]
      BY <1>5 DEF Listen, SyncAgain, Detect, ListenFails, DetectFails, CommitFails, SyncFails,
         AskName, NameRefused
    <3> QED
      BY <3>1, <3>2, <3>3, CommandMade DEF Commands
  <2>3. used' \in [texts : Texts, faults : 0 .. MaxFaults] /\ used'.texts = used.texts
        /\ used'.texts >= used.texts
    BY <2>1, FaultBound
  <2>4. Mirrored' /\ HistoryOK'
    BY <2>1, <2>2, <2>3, <1>1 DEF Mirrored, HistoryOK, rowVars
  <2> QED
    BY <2>1, <2>2, <2>3, <2>4, <1>1, AroundKeeps
<1>6. CASE ClearMarker \/ SameLabels
  <2>1. /\ UNCHANGED <<rowVars, incomplete, file, process, naming, used, history>>
        /\ marker' \in BOOLEAN
    BY <1>6 DEF ClearMarker, SameLabels, Marked
  <2>2. /\ command' \in [kind : Commands, read : Rows, saved : BOOLEAN, guard : BOOLEAN]
        /\ command'.kind \notin {"clear", "commit"}
    BY <1>6, CommandMade DEF ClearMarker, SameLabels, Commands, Free
  <2>3. Mirrored' /\ HistoryOK'
    BY <1>6, <2>1, <2>2, <1>1 DEF ClearMarker, SameLabels, Marked, Mirrored, HistoryOK, rowVars
  <2> QED
    BY <2>1, <2>2, <2>3, <1>1, FaultBound, AroundKeeps
<1> QED
  BY <1>2, <1>3, <1>4, <1>5, <1>6 DEF Others, Syncs

\* The summary takes the permit and leaves the words alone.
LEMMA SummaryLeaves ==
  ASSUME SummaryStep, TextTypeOK
  PROVE  /\ UNCHANGED <<rowVars, marker, incomplete, file, naming, history>>
         /\ command' \in {command, Free, Holding("summary")}
         /\ Fault \/ UNCHANGED used
BY DEF SummaryStep, Register, CreateOrReset, ResetFails, ChunksFail, Prepare, Refuse, CallHelper,
   HelperReturns, ProviderAnswers, SaveNotes, SaveFails, Finish, StatusLost, CancelSummary, EditNotes,
   RestoreNotes, textVars, rowVars

LEMMA SummaryKeepsText ==
  ASSUME TextInv, process' \in Process, SummaryStep \/ TextRestart
  PROVE  TextInv'
<1>1. /\ UNCHANGED <<rowVars, marker, incomplete, file, history>> /\ naming' \in BOOLEAN
      /\ command' \in {command, Free, Holding("summary")}
      /\ Fault \/ UNCHANGED used
  BY SummaryLeaves DEF TextRestart, TextInv, TextTypeOK
<1>2. used' \in [texts : Texts, faults : 0 .. MaxFaults] /\ used'.texts = used.texts
      /\ used'.texts >= used.texts
  BY <1>1, FaultBound DEF TextInv
<1>3. \/ command' = command
      \/ /\ command' \in [kind : Commands, read : Rows, saved : BOOLEAN, guard : BOOLEAN]
         /\ command'.kind \notin {"clear", "commit"}
  <2>1. Free.kind = "none"
    BY DEF Free
  <2> QED
    BY <2>1, <1>1, CommandMade DEF Commands
<1>4. TextTypeOK' /\ HistoryOK'
  BY <1>1, <1>2, <1>3 DEF TextInv, TextTypeOK, HistoryOK, rowVars
<1>5. Mirrored'
  BY <1>1, <1>2, <1>3 DEF TextInv, Mirrored, rowVars
<1> QED
  BY <1>1, <1>2, <1>4, <1>5, QuietKeeps DEF rowVars

\* The row of summary_processes, as any of them leaves it.
LEMMA ProcessMade ==
  ASSUME SummaryTypeOK
  PROVE  /\ written \in Nat /\ process \in Process /\ generation \in Generation
         /\ {process.result, process.previous, process.backup} \subseteq 0 .. written
         /\ promised \in [notes : 0 .. written, stranded : BOOLEAN]
         /\ process.status \in {"none", "pending", "completed", "failed", "cancelled"}
         /\ promised.notes \in Nat
BY NotesConstant DEF SummaryTypeOK, TextTypeOK, Process

\* A generation leaves the row: ended, it shows what it showed before.
LEMMA EndedKeeps ==
  ASSUME NotesInv, TextTypeOK', generation' = NoGeneration, rows'.text \in Texts,
         NEW status \in {"failed", "cancelled"}, process' = Ended(status),
         generation.pc \notin {"none", "accepted"}, UNCHANGED <<written, promised>>
  PROVE  NotesInv'
<1>1. Busy
  BY DEF NotesInv, GenerationAlone
<1>2. /\ process'.status = status /\ process'.result = process.result
      /\ process'.previous = process.previous /\ process'.backup = 0
  BY <1>1, ProcessMade DEF NotesInv, Backed, Ended, Process
<1>3. SummaryTypeOK'
  BY <1>2, ProcessMade DEF NotesInv, SummaryTypeOK, NoGeneration, Generation
<1> QED
  BY <1>2, <1>3 DEF NotesInv, NotesKept, GenerationAlone, Backed, Unread, Busy, NoGeneration

\* Which process the rest of the actions leave.
LEMMA NotesSteps ==
  ASSUME NotesInv, SummaryStep
  PROVE  process' \in Process
<1> USE ProcessMade DEF NotesInv
<1>1. CASE UNCHANGED process
  BY <1>1
<1>2. CASE CreateOrReset
  BY <1>2 DEF CreateOrReset, Process
<1>3. CASE SaveNotes
  BY <1>3 DEF SaveNotes, Process
<1>4. CASE SaveFails \/ Finish
  <2>1. process' = Ended("failed") \/ process' = Ended("cancelled")
    BY <1>4 DEF SaveFails, Finish, Reported
  <2>2. ASSUME NEW status \in {"failed", "cancelled"} PROVE Ended(status) \in Process
    BY DEF Ended, Process
  <2> QED
    BY <2>1, <2>2
<1>5. CASE EditNotes
  BY <1>5 DEF EditNotes, Process
<1>6. CASE RestoreNotes
  BY <1>6 DEF RestoreNotes, Process
<1> QED
  BY <1>1, <1>2, <1>3, <1>4, <1>5, <1>6
  DEF SummaryStep, Register, ResetFails, ChunksFail, Prepare, Refuse, CallHelper,
     HelperReturns, ProviderAnswers, StatusLost, CancelSummary, textVars

LEMMA SummaryKeepsNotes ==
  ASSUME TextInv, NotesInv, TextTypeOK', SummaryStep
  PROVE  NotesInv'
<1> USE ProcessMade DEF NotesInv
<1>1. rows.text \in Texts /\ rows'.text = rows.text
  BY SummaryLeaves DEF TextInv, TextTypeOK, Rows, rowVars
<1>2. /\ generation.pc \in {"none", "accepted", "pending", "asked", "calling", "answered", "failed"}
      /\ generation.of \in Texts \cup {NoText} /\ generation.cancelled \in BOOLEAN
      /\ generation.moved \in BOOLEAN /\ generation.builtin \in BOOLEAN
  BY DEF Generation
<1>3. ASSUME NEW local \in BOOLEAN, Register(local) PROVE NotesInv'
  <2>1. generation' \in Generation /\ generation'.pc = "accepted" /\ generation'.of = NoText
    BY <1>3 DEF Register, NoGeneration, Generation
  <2>2. SummaryTypeOK'
    BY <1>3, <2>1 DEF Register, SummaryTypeOK, textVars
  <2> QED
    BY <1>3, <2>1, <2>2 DEF Register, textVars, NotesKept, GenerationAlone, Backed, Unread, Busy
<1>4. CASE CreateOrReset
  <2>1. /\ process'.status = "pending" /\ process'.backup = process.result
        /\ process'.result = process.result /\ process'.previous = process.previous
    BY <1>4 DEF CreateOrReset, Process
  <2>2. generation' \in Generation /\ generation'.pc = "pending" /\ generation'.of = NoText
    BY <1>4 DEF CreateOrReset, Generation, Unread
  <2>3. promised' \in [notes : 0 .. written, stranded : BOOLEAN] /\ ~promised'.stranded
        /\ promised'.notes = (IF process.result # 0 THEN process.result ELSE promised.notes)
    BY <1>4 DEF CreateOrReset
  <2>4. SummaryTypeOK'
    BY <1>4, <2>1, <2>2, <2>3 DEF CreateOrReset, SummaryTypeOK
  <2>5. NotesKept' /\ Backed'
    BY <2>1, <2>3 DEF NotesKept, Backed
  <2>6. GenerationAlone' /\ Unread'
    BY <2>1, <2>2 DEF GenerationAlone, Unread, Busy
  <2> QED
    BY <2>4, <2>5, <2>6
<1>5. CASE ResetFails \/ ChunksFail \/ StatusLost
  <2>1. /\ generation' = NoGeneration /\ process' = process /\ written' = written
        /\ \/ promised' = promised /\ generation.pc = "accepted"
           \/ promised' = [promised EXCEPT !.stranded = TRUE]
    BY <1>5 DEF ResetFails, ChunksFail, StatusLost
  <2>2. /\ promised' \in [notes : 0 .. written, stranded : BOOLEAN]
        /\ promised'.notes = promised.notes
        /\ promised'.stranded \/ (promised' = promised /\ generation.pc = "accepted")
    BY <2>1
  <2>3. generation' \in Generation /\ generation'.pc = "none" /\ generation'.of = NoText
    BY <2>1 DEF NoGeneration, Generation
  <2>4. SummaryTypeOK'
    BY <2>1, <2>2, <2>3 DEF SummaryTypeOK
  <2>5. GenerationAlone'
    BY <2>1, <2>2, <2>3 DEF GenerationAlone, Busy
  <2> QED
    BY <2>1, <2>2, <2>3, <2>4, <2>5 DEF NotesKept, Backed, Unread, Busy
<1>6. ASSUME \/ Prepare \/ Refuse \/ CallHelper \/ CancelSummary
             \/ \E pc \in {"asked", "answered", "failed"} : HelperReturns(pc)
             \/ \E pc \in {"answered", "failed"} : ProviderAnswers(pc)
      PROVE  NotesInv'
  <2>1. UNCHANGED <<process, written, promised>>
    BY <1>6 DEF Prepare, Refuse, CallHelper, CancelSummary, HelperReturns, ProviderAnswers, textVars
  <2>2. /\ generation' \in Generation
        /\ generation'.pc \in {"none", "accepted"} <=> generation.pc \in {"none", "accepted"}
        /\ generation'.pc \in {"none", "accepted", "pending"} => generation'.of = generation.of
                                             /\ generation.pc \in {"none", "accepted", "pending"}
        /\ generation'.moved = generation.moved /\ generation'.of \in {generation.of, rows.text}
    BY <1>6, <1>1, <1>2
    DEF Prepare, Refuse, CallHelper, CancelSummary, HelperReturns, ProviderAnswers, Generation
  <2>3. SummaryTypeOK'
    BY <2>1, <2>2 DEF SummaryTypeOK
  <2>4. GenerationAlone' /\ Unread'
    BY <2>1, <2>2, <1>1 DEF GenerationAlone, Unread, Busy
  <2> QED
    BY <2>1, <2>3, <2>4 DEF NotesKept, Backed, Busy
<1>7. CASE SaveNotes
  <2>1. /\ process'.status = "completed" /\ process'.result = written + 1 /\ process'.backup = 0
        /\ process'.previous = IF process.result # 0 THEN process.result ELSE process.previous
        /\ written' = written + 1 /\ written < MaxNotes /\ UNCHANGED promised
    BY <1>7 DEF SaveNotes
  <2>2. generation' \in Generation /\ generation'.pc = "none" /\ generation'.of = NoText
    BY <1>7 DEF SaveNotes, NoGeneration, Generation
  <2>3. SummaryTypeOK'
    BY <2>1, <2>2, NotesConstant DEF SummaryTypeOK
  <2>4. NotesKept'
    BY <1>7, <2>1 DEF SaveNotes, NotesKept, GenerationAlone, Backed
  <2> QED
    BY <2>1, <2>2, <2>3, <2>4 DEF GenerationAlone, Backed, Unread, Busy
<1>8. CASE SaveFails \/ Finish
  <2>1. process' = Ended("failed") \/ process' = Ended("cancelled")
    BY <1>8 DEF SaveFails, Finish, Reported
  <2>2. generation' = NoGeneration /\ UNCHANGED <<written, promised>>
        /\ generation.pc \notin {"none", "accepted"}
    BY <1>8 DEF SaveFails, Finish
  <2> QED
    BY <2>1, <2>2, <1>1, EndedKeeps
<1>9. CASE EditNotes
  <2>1. /\ process'.status = process.status /\ process'.result = written + 1
        /\ process'.previous = process.previous /\ process'.backup = process.backup
        /\ written' = written + 1 /\ written < MaxNotes /\ UNCHANGED generation
        /\ ~Busy
    BY <1>9 DEF EditNotes, Writable, Process
  <2>2. promised' \in [notes : 0 .. written', stranded : BOOLEAN] /\ promised'.notes = written + 1
        /\ promised'.stranded = promised.stranded
    BY <1>9, <2>1 DEF EditNotes
  <2>3. SummaryTypeOK'
    BY <2>1, <2>2, NotesConstant DEF SummaryTypeOK
  <2> QED
    BY <2>1, <2>2, <2>3, <1>1 DEF NotesKept, GenerationAlone, Backed, Unread, Busy
<1>10. CASE RestoreNotes
  <2>1. /\ process'.status = "completed" /\ process'.result = process.previous
        /\ process'.previous = process.result /\ process'.backup = process.backup
        /\ UNCHANGED <<generation, written>> /\ ~Busy
    BY <1>10 DEF RestoreNotes, Writable, Process
  <2>2. promised' \in [notes : 0 .. written, stranded : BOOLEAN]
        /\ promised'.notes = process.previous /\ promised'.stranded = promised.stranded
    BY <1>10 DEF RestoreNotes
  <2>3. SummaryTypeOK'
    BY <2>1, <2>2 DEF SummaryTypeOK
  <2> QED
    BY <2>1, <2>2, <2>3, <1>1 DEF NotesKept, GenerationAlone, Backed, Unread, Busy
<1> QED
  BY <1>3, <1>4, <1>5, <1>6, <1>7, <1>8, <1>9, <1>10 DEF SummaryStep

LEMMA RewritesKeepNotes ==
  ASSUME TextInv, NotesInv, TextTypeOK', UNCHANGED <<written, promised>>,
         (Corrects /\ Seen(FALSE)) \/ (Replaces /\ Seen(TRUE))
  PROVE  NotesInv'
<1> USE DEF NotesInv
<1>1. UNCHANGED process
  BY DEF Corrects, Replaces, Correct, Undo, Restore, Name, CommitRetranscription, SaveLabels
<1>2. /\ generation' \in Generation /\ generation'.pc = generation.pc
      /\ generation'.of = generation.of
      /\ generation.of # NoText /\ ~generation'.moved => ~generation.moved
                                              /\ Corrects
  BY ProcessMade DEF Seen, Generation
<1>3. SummaryTypeOK'
  BY <1>1, <1>2 DEF SummaryTypeOK
<1>4. ASSUME Corrects, generation.of # NoText PROVE rows'.text = rows.text
  <2>1. Busy
    BY <1>4, ProcessMade DEF Generation, Unread, GenerationAlone
  <2>2. Name
    BY <1>4, <2>1 DEF Corrects, Correct, Undo, Restore, Editable, Summarizing, Busy
  <2> QED
    BY <2>2 DEF Name, TextInv, TextTypeOK, Rows
<1>5. GenerationAlone'
  BY <1>1, <1>2, <1>4 DEF GenerationAlone, Busy
<1> QED
  BY <1>1, <1>2, <1>3, <1>5 DEF NotesKept, Backed, Unread, Busy

LEMMA OthersKeepNotes ==
  ASSUME NotesInv, TextTypeOK', UNCHANGED <<rowVars, process, summaryVars>>
  PROVE  NotesInv'
BY DEF NotesInv, SummaryTypeOK, NotesKept, GenerationAlone, Backed, Unread, Busy, rowVars, summaryVars

\* Start-up ends what the process left pending.
LEMMA RestartKeepsNotes ==
  ASSUME TextInv, NotesInv, SummaryRestart
  PROVE  TextInv' /\ NotesInv'
<1> DEFINE ended == [process EXCEPT !.status = "failed", !.backup = 0,
                               !.result = IF process.backup # 0 THEN process.backup ELSE @]
<1>1. /\ process' = (IF Busy THEN ended ELSE process)
      /\ generation' = NoGeneration /\ written' = written
      /\ promised' = [promised EXCEPT !.stranded = FALSE]
  BY DEF SummaryRestart, TextRestart, Busy
<1>2. /\ process' \in Process /\ process'.status # "pending"
      /\ process'.result = process.result /\ process'.previous = process.previous
      /\ process'.backup \in {0, process.backup}
  <2>1. CASE Busy
    BY <2>1, <1>1, ProcessMade DEF NotesInv, Backed, Process
  <2>2. CASE ~Busy
    BY <2>2, <1>1, ProcessMade DEF NotesInv, Busy
  <2> QED
    BY <2>1, <2>2
<1>3. TextInv'
  BY <1>2, SummaryKeepsText DEF SummaryRestart
<1>4. generation' \in Generation /\ generation'.pc = "none" /\ generation'.of = NoText
  BY <1>1 DEF NoGeneration, Generation
<1>5. promised' \in [notes : 0 .. written, stranded : BOOLEAN] /\ promised'.notes = promised.notes
  BY <1>1, ProcessMade DEF NotesInv
<1>6. SummaryTypeOK'
  BY <1>1, <1>2, <1>3, <1>4, <1>5, ProcessMade DEF TextInv, NotesInv, SummaryTypeOK
<1> QED
  BY <1>2, <1>3, <1>4, <1>5, <1>6
  DEF NotesInv, NotesKept, GenerationAlone, Backed, Unread, Busy

LEMMA TextStep == TextInv /\ NotesInv /\ [MeetingNext]_meetingVars => TextInv' /\ NotesInv'
<1> SUFFICES ASSUME TextInv, NotesInv, [MeetingNext]_meetingVars
             PROVE  TextInv' /\ NotesInv'
  OBVIOUS
<1>1. ASSUME (Corrects /\ Seen(FALSE)) \/ (Replaces /\ Seen(TRUE)),
             UNCHANGED <<written, promised>>
      PROVE  TextInv' /\ NotesInv'
  <2>1. TextInv'
    BY <1>1, CorrectKeeps, UndoKeeps, RestoreKeeps, NameKeeps, CommitKeeps, LabelsKeep
    DEF Corrects, Replaces
  <2> QED
    BY <1>1, <2>1, RewritesKeepNotes DEF TextInv
<1>2. ASSUME Others, UNCHANGED summaryVars PROVE TextInv' /\ NotesInv'
  <2>1. TextInv'
    BY <1>2, OthersKeep
  <2>2. UNCHANGED <<rowVars, process>>
    BY <1>2 DEF Others, Syncs, WriteFile, ClearMarker, SyncFails, SyncAgain, Listen, ListenFails,
       RewriteFolder, FolderFails, CommitFails, Detect, DetectFails, SameLabels, AskName,
       NameRefused, rowVars
  <2> QED
    BY <1>2, <2>1, <2>2, OthersKeepNotes DEF TextInv
<1>3. ASSUME SummaryStep PROVE TextInv' /\ NotesInv'
  <2>1. TextInv'
    BY <1>3, NotesSteps, SummaryKeepsText
  <2> QED
    BY <1>3, <2>1, SummaryKeepsNotes DEF TextInv
<1>4. ASSUME UNCHANGED libraryVars PROVE TextInv' /\ NotesInv'
  <2>1. UNCHANGED textVars /\ UNCHANGED summaryVars
    BY <1>4 DEF libraryVars
  <2>2. TextTypeOK' /\ HistoryOK' /\ Mirrored' /\ Recoverable' = Recoverable
    BY <2>1 DEF TextInv, TextTypeOK, HistoryOK, Mirrored, textVars, Recoverable, ArchivedRows
  <2>3. TextInv'
    BY <2>1, <2>2 DEF TextInv, Numbered, Corrected, Chained, TextRecoverable, textVars
  <2>4. UNCHANGED <<rowVars, process>>
    BY <2>1 DEF textVars, rowVars
  <2> QED
    BY <2>1, <2>2, <2>3, <2>4, OthersKeepNotes
<1>5. CASE MeetingNext
  <2>1. CASE uses \in {"summaries", "index"} /\ Syncs /\ UNCHANGED <<summaryVars, indexVars>>
    BY <2>1, <1>2 DEF Others
  <2>2. CASE uses = "summaries" /\ Others /\ UNCHANGED <<summaryVars, indexVars>>
    BY <2>2, <1>2
  <2> QED
    BY <1>5, <1>1, <1>3, <1>4, <2>1, <2>2, RestartKeepsNotes
    DEF MeetingNext, MeetingRestart, libraryVars
<1>6. CASE UNCHANGED meetingVars
  BY <1>6, <1>4 DEF meetingVars
<1> QED
  BY <1>5, <1>6

LEMMA TextAlways == MeetingSpec => [](TextInv /\ NotesInv)
<1>1. MeetingInit => TextInv /\ NotesInv
  BY TextFirst DEF MeetingInit
<1> QED
  BY <1>1, TextStep, PTL DEF MeetingSpec

(* Whatever rewrites the transcript, in whatever order, and wherever the     *)
(* process dies: no text that was recognised, nor one that the user typed    *)
(* and did not take back, is gone, and undo offers what fits the rows.       *)
THEOREM TextStaysRecoverable == MeetingSpec => []TextRecoverable
<1>1. TextInv => TextRecoverable
  BY DEF TextInv
<1> QED
  BY <1>1, TextAlways, PTL

(* Between commands the folder has the text of the rows or is known not to,  *)
(* but for the folder that was rewritten for rows that never came.           *)
THEOREM FolderIsKnown == MeetingSpec => []MirrorKnown
<1>1. TextInv => MirrorKnown
  BY DEF TextInv, Mirrored, MirrorKnown
<1> QED
  BY <1>1, TextAlways, PTL

(* A generation costs the user no summary: what was there when it began, or  *)
(* was written since, is the one shown or the previous one.                  *)
THEOREM SummaryStays == MeetingSpec => []NotesKept
<1>1. NotesInv => NotesKept
  BY DEF NotesInv
<1> QED
  BY <1>1, TextAlways, PTL

(* A row is pending exactly while a generation is at work on it (or a status *)
(* was lost), and nothing but the replacement of the whole changes the       *)
(* transcript that it has read.                                              *)
THEOREM OneGeneration == MeetingSpec => []GenerationAlone
<1>1. NotesInv => GenerationAlone
  BY DEF NotesInv
<1> QED
  BY <1>1, TextAlways, PTL

-----------------------------------------------------------------------------
(* The exports: no token comes back to an account that was signed out, and  *)
(* nothing is created twice. Both rest on what each export under way knows:  *)
(* the session its token is from, and the entry of each page that was sent.  *)

USE DEF SignIns, Page

-----------------------------------------------------------------------------
(* The session.                                                              *)

\* A sign-in that nobody cancelled is the one that can be cancelled.
OpenHeld == \A k \in SignIns : signIns[k].pc = "open" => handle = k

\* A token that is being refreshed is the account's as long as the session is
\* the one it was taken from, and no session is from the future.
Refreshed == \A e \in Exports : export[e].pc = "refreshing" =>
  export[e].of <= session /\ (export[e].of = session => export[e].token = token)

Stored == astray \/ {keychain, fallback} \subseteq {0, account}

SInv == SessionTypeOK /\ OpenHeld /\ Refreshed /\ token \in {0, account} /\ Stored
Calls == export \in [Exports -> Export]

\* What a write or removal of stored tokens leaves.
LEMMA Saves == ASSUME SessionTypeOK, NEW k \in 0 .. MaxSignIns, SaveToken(k) \/ DeleteToken
  PROVE /\ keychain' \in {0, k, keychain} /\ fallback' \in {0, k, fallback}
        /\ astray' \in BOOLEAN /\ troubles' \in 0 .. MaxTroubles
        /\ astray' \/ (keychain' \in {0, k} /\ fallback' \in {0, k})
        /\ DeleteToken => astray' \/ (keychain' = 0 /\ fallback' = 0)
<1>1. Settled \/ GoneAstray
  BY DEF SaveToken, DeleteToken
<1>2. astray' \in BOOLEAN /\ troubles' \in 0 .. MaxTroubles
  <2>1. astray' \in BOOLEAN
    BY <1>1, Zenon DEF SessionTypeOK, Settled, GoneAstray
  <2>2. troubles' = troubles \/ (troubles < MaxTroubles /\ troubles' = troubles + 1)
    BY <1>1 DEF Settled, GoneAstray, Trouble
  <2>3. troubles \in 0 .. MaxTroubles /\ MaxTroubles \in Nat
    BY SessionAssumption DEF SessionTypeOK
  <2> QED
    BY <2>1, <2>2, <2>3
<1>3. CASE SaveToken(k)
  <2>1. keychain' \in {0, k, keychain} /\ fallback' \in {0, k, fallback}
    BY <1>3 DEF SaveToken
  <2>2. astray' \/ (keychain' \in {0, k} /\ fallback' \in {0, k})
    BY <1>3 DEF SaveToken, GoneAstray
  <2>3. DeleteToken => astray' \/ (keychain' = 0 /\ fallback' = 0)
    BY DEF DeleteToken, GoneAstray
  <2> QED
    BY <1>2, <2>1, <2>2, <2>3
<1>4. CASE DeleteToken
  BY <1>2, <1>4 DEF DeleteToken, GoneAstray
<1> QED
  BY <1>3, <1>4

\* A step that has nothing to do with tokens: an export may end or go on, and
\* the session at most expires.
Steady ==
  /\ UNCHANGED <<session, token, keychain, fallback, signIns, handle, account, astray>>
  /\ connection' \in {connection, "expired"}
  /\ UNCHANGED troubles \/ Trouble
  /\ \A e \in Exports : export'[e].pc = "refreshing" => export'[e] = export[e]

LEMMA SteadySafe == ASSUME SInv, Steady PROVE SInv'
<1>1. SessionTypeOK'
  <2>1. troubles' \in 0 .. MaxTroubles
    BY SessionAssumption DEF SInv, SessionTypeOK, Steady, Trouble
  <2>2. astray' \in BOOLEAN
    BY Zenon DEF SInv, SessionTypeOK, Steady
  <2> QED
    BY <2>1, <2>2 DEF SInv, SessionTypeOK, Steady
<1>2. OpenHeld' /\ Refreshed' /\ (token \in {0, account})'
  BY DEF SInv, OpenHeld, Refreshed, Steady
<1>3. Stored'
  BY DEF SInv, Stored, Steady
<1> QED
  BY <1>1, <1>2, <1>3 DEF SInv

\* The steps of exports that take a token, and all others, which take none.
LEMMA AcceptSafe == ASSUME NEW e \in Exports, SInv, Calls, AcceptToken(e) PROVE SInv'
<1> DEFINE k == export[e].token
<1>1. k \in 0 .. MaxSignIns /\ k = token /\ k \in {0, account}
  BY DEF SInv, Calls, Export, Refreshed, AcceptToken, SameSession
<1>2. SaveToken(k) \/ UNCHANGED <<keychain, fallback, astray, troubles>>
  BY DEF AcceptToken
<1>3. /\ keychain' \in {0, k, keychain} /\ fallback' \in {0, k, fallback}
      /\ astray' \in BOOLEAN /\ troubles' \in 0 .. MaxTroubles
      /\ Stored'
  <2>1. CASE SaveToken(k)
    BY <1>1, <2>1, Saves DEF SInv, Stored, AcceptToken
  <2>2. CASE UNCHANGED <<keychain, fallback, astray, troubles>>
    BY <2>2 DEF SInv, SessionTypeOK, Stored, AcceptToken
  <2> QED
    BY <1>2, <2>1, <2>2
<1>4. SessionTypeOK'
  <2>1. token' = k /\ UNCHANGED <<connection, session, signIns, handle, account>>
    BY DEF AcceptToken
  <2>2. {token, keychain, fallback, handle, account} \subseteq 0 .. MaxSignIns
    BY DEF SInv, SessionTypeOK
  <2>3. keychain' \in {0, k, keychain} /\ fallback' \in {0, k, fallback}
    BY <1>3
  <2>4. 0 \in 0 .. MaxSignIns
    BY SessionAssumption
  <2>5. token' \in 0 .. MaxSignIns /\ keychain' \in 0 .. MaxSignIns /\ fallback' \in 0 .. MaxSignIns
        /\ handle' \in 0 .. MaxSignIns /\ account' \in 0 .. MaxSignIns
    BY <1>1, <2>1, <2>2, <2>3, <2>4, Zenon
  <2>6. {token', keychain', fallback', handle', account'} \subseteq 0 .. MaxSignIns
    BY <2>5, Zenon
  <2> QED
    BY <1>3, <2>1, <2>6, Zenon DEF SInv, SessionTypeOK
<1>5. OpenHeld' /\ (token \in {0, account})'
  BY <1>1 DEF SInv, OpenHeld, AcceptToken
<1>6. Refreshed'
  BY <1>1 DEF SInv, Calls, Refreshed, AcceptToken, NoExport
<1> QED
  BY <1>3, <1>4, <1>5, <1>6 DEF SInv

LEMMA AskSafe == ASSUME NEW e \in Exports, SInv, Calls, AskToken(e) PROVE SInv'
<1>1. SessionTypeOK' /\ OpenHeld' /\ (token \in {0, account})' /\ Stored'
  BY DEF SInv, SessionTypeOK, OpenHeld, Stored, AskToken, sessionVars
<1>2. Refreshed'
  BY DEF SInv, SessionTypeOK, Calls, Refreshed, AskToken, NoExport, sessionVars
<1> QED
  BY <1>1, <1>2 DEF SInv

(* Sign-ins.                                                                 *)

LEMMA SignInSafe == ASSUME NEW k \in SignIns, NEW consent \in BOOLEAN, SInv, Calls,
                           SignIn(k, consent), UNCHANGED export
  PROVE SInv'
<1> DEFINE task == [pc |-> "open", of |-> session + 1]
<1>1. handle = 0 /\ handle' = k /\ session' = session + 1 /\ session < MaxSessions
      /\ signIns' = [signIns EXCEPT ![k] = task]
  BY DEF SignIn
<1>2. UNCHANGED <<token, keychain, fallback, account, astray, troubles>>
  BY DEF SignIn
<1>3. SessionTypeOK'
  <2>1. connection' \in {"off", "connecting", "on", "expired"}
    <3>1. CASE consent
      BY <3>1, Zenon DEF SInv, SessionTypeOK, SignIn
    <3>2. CASE ~consent
      BY <3>2, Zenon DEF SignIn
    <3> QED
      BY <3>1, <3>2
  <2>2. {token, keychain, fallback, handle, account} \subseteq 0 .. MaxSignIns
    BY DEF SInv, SessionTypeOK
  <2>3. {token', keychain', fallback', handle', account'} \subseteq 0 .. MaxSignIns
    BY <1>1, <1>2, <2>2, SessionAssumption
  <2>4. session' \in 0 .. MaxSessions
    BY <1>1, SessionAssumption DEF SInv, SessionTypeOK
  <2>5. signIns' \in [SignIns -> [pc : {"none", "open", "cancelled", "over"}, of : 0 .. MaxSessions]]
    BY <1>1, <2>4 DEF SInv, SessionTypeOK
  <2> QED
    BY <1>2, <2>1, <2>3, <2>4, <2>5, Zenon DEF SInv, SessionTypeOK
<1>4. OpenHeld'
  BY <1>1 DEF SInv, SessionTypeOK, OpenHeld
<1>5. Refreshed'
  BY <1>1, <1>2 DEF SInv, SessionTypeOK, Calls, Export, Refreshed
<1>6. (token \in {0, account})' /\ Stored'
  BY <1>2 DEF SInv, Stored
<1> QED
  BY <1>3, <1>4, <1>5, <1>6 DEF SInv

LEMMA SucceedSafe == ASSUME NEW k \in SignIns, SInv, Calls, SignInSucceeds(k), UNCHANGED export
  PROVE SInv'
<1> DEFINE task == [pc |-> "over", of |-> 0]
<1>1. signIns' = [signIns EXCEPT ![k] = task]
  BY DEF SignInSucceeds, Over
<1>2. CASE Accepted(k)
  <2>1. handle = k /\ (SaveToken(k) \/ DeleteToken)
    BY <1>2 DEF SInv, OpenHeld, Accepted, SignInSucceeds
  <2>2. handle = k /\ k \in 0 .. MaxSignIns
    BY <1>2, SessionAssumption DEF SInv, OpenHeld, Accepted
  <2>3. token' = k /\ account' = k /\ handle' = 0 /\ connection' = "on" /\ session' = session + 1 /\ session < MaxSessions
    BY <1>2, <2>2 DEF SignInSucceeds
  <2>4. /\ keychain' \in {0, k, keychain} /\ fallback' \in {0, k, fallback}
        /\ astray' \in BOOLEAN /\ troubles' \in 0 .. MaxTroubles
        /\ astray' \/ (keychain' \in {0, k} /\ fallback' \in {0, k})
    BY <2>1, <2>2, Saves DEF SInv
  <2>5. SessionTypeOK'
    <3>0. {token, keychain, fallback, handle, account} \subseteq 0 .. MaxSignIns
      BY DEF SInv, SessionTypeOK
    <3>a. keychain' \in {0, k, keychain} /\ fallback' \in {0, k, fallback}
      BY <2>4
    <3>b. 0 \in 0 .. MaxSignIns
      BY SessionAssumption
    <3>c. token' \in 0 .. MaxSignIns /\ keychain' \in 0 .. MaxSignIns /\ fallback' \in 0 .. MaxSignIns
          /\ handle' \in 0 .. MaxSignIns /\ account' \in 0 .. MaxSignIns
      BY <2>2, <2>3, <3>0, <3>a, <3>b, Zenon
    <3>1. {token', keychain', fallback', handle', account'} \subseteq 0 .. MaxSignIns
      BY <3>c, Zenon
    <3>2. session' \in 0 .. MaxSessions /\ connection' \in {"off", "connecting", "on", "expired"}
      BY <2>3, SessionAssumption DEF SInv, SessionTypeOK
    <3>3. signIns' \in [SignIns -> [pc : {"none", "open", "cancelled", "over"}, of : 0 .. MaxSessions]]
      BY <1>1, SessionAssumption DEF SInv, SessionTypeOK
    <3> QED
      BY <2>4, <3>1, <3>2, <3>3, Zenon DEF SessionTypeOK
  <2>6. OpenHeld'
    BY <1>1, <2>2 DEF SInv, SessionTypeOK, OpenHeld
  <2>7. Refreshed'
    BY <2>3 DEF SInv, SessionTypeOK, Calls, Export, Refreshed
  <2>8. Stored' /\ (token \in {0, account})'
    BY <2>3, <2>4 DEF Stored
  <2> QED
    BY <2>5, <2>6, <2>7, <2>8 DEF SInv
<1>3. CASE ~Accepted(k)
  <2>1. UNCHANGED <<connection, session, token, keychain, fallback, handle, account, astray, troubles>>
    BY <1>3 DEF SignInSucceeds
  <2>2. SessionTypeOK'
    BY <1>1, <2>1, SessionAssumption DEF SInv, SessionTypeOK
  <2>3. OpenHeld'
    BY <1>1, <2>1 DEF SInv, SessionTypeOK, OpenHeld
  <2>4. Refreshed' /\ (token \in {0, account})' /\ Stored'
    BY <2>1 DEF SInv, Refreshed, Stored
  <2> QED
    BY <2>2, <2>3, <2>4 DEF SInv
<1> QED
  BY <1>2, <1>3

LEMMA FailSafe == ASSUME NEW k \in SignIns, SInv, SignInFails(k), UNCHANGED export PROVE SInv'
<1>1. signIns' = [signIns EXCEPT ![k] = [pc |-> "over", of |-> 0]]
  BY DEF SignInFails, Over
<1>2. UNCHANGED <<session, token, keychain, fallback, account, astray, troubles>>
  BY DEF SignInFails
<1>3. handle' \in {0, handle} /\ connection' \in {"off", "connecting", "on", "expired"}
  BY DEF SInv, SessionTypeOK, SignInFails, Resumed
<1>4. SessionTypeOK'
  BY <1>1, <1>2, <1>3, SessionAssumption DEF SInv, SessionTypeOK
<1>5. OpenHeld'
  BY <1>1 DEF SInv, SessionTypeOK, OpenHeld, SignInFails
<1>6. Refreshed' /\ (token \in {0, account})' /\ Stored'
  BY <1>2 DEF SInv, Refreshed, Stored
<1> QED
  BY <1>4, <1>5, <1>6 DEF SInv

LEMMA EndSafe == ASSUME SInv, Calls, CancelSignIn \/ SignOut, UNCHANGED export PROVE SInv'
<1>1. signIns' = Cancelled /\ handle' = 0
  BY DEF CancelSignIn, SignOut
<1>2. /\ signIns' \in [SignIns -> [pc : {"none", "open", "cancelled", "over"}, of : 0 .. MaxSessions]]
      /\ OpenHeld'
  BY <1>1 DEF SInv, SessionTypeOK, OpenHeld, Cancelled
<1>3. CASE CancelSignIn
  <2>1. UNCHANGED <<session, token, keychain, fallback, account, astray, troubles>>
        /\ connection' \in {"off", "on"}
    BY <1>3 DEF CancelSignIn, Resumed
  <2>2. SessionTypeOK'
    BY <1>1, <1>2, <2>1, SessionAssumption DEF SInv, SessionTypeOK
  <2>3. Refreshed' /\ (token \in {0, account})' /\ Stored'
    BY <2>1 DEF SInv, Refreshed, Stored
  <2> QED
    BY <1>2, <2>2, <2>3 DEF SInv
<1>4. CASE SignOut
  <2>1. token' = 0 /\ account' = 0 /\ connection' = "off" /\ session' = session + 1 /\ session < MaxSessions
    BY <1>4 DEF SignOut
  <2>2. 0 \in 0 .. MaxSignIns /\ DeleteToken
    BY <1>4, SessionAssumption DEF SignOut
  <2>3. /\ keychain' \in {0, keychain} /\ fallback' \in {0, fallback}
        /\ astray' \in BOOLEAN /\ troubles' \in 0 .. MaxTroubles
        /\ astray' \/ (keychain' = 0 /\ fallback' = 0)
    BY <2>2, Saves DEF SInv
  <2>4. SessionTypeOK'
    <3>0. {token, keychain, fallback, handle, account} \subseteq 0 .. MaxSignIns
      BY DEF SInv, SessionTypeOK
    <3>1. {token', keychain', fallback', handle', account'} \subseteq 0 .. MaxSignIns
      BY <1>1, <2>1, <2>2, <2>3, <3>0
    <3>2. session' \in 0 .. MaxSessions /\ connection' \in {"off", "connecting", "on", "expired"}
      BY <2>1, SessionAssumption DEF SInv, SessionTypeOK
    <3> QED
      BY <1>2, <2>3, <3>1, <3>2, Zenon DEF SessionTypeOK
  <2>5. Refreshed'
    BY <2>1 DEF SInv, SessionTypeOK, Calls, Export, Refreshed
  <2>6. (token \in {0, account})' /\ Stored'
    BY <2>1, <2>3 DEF Stored
  <2> QED
    BY <1>2, <2>4, <2>5, <2>6 DEF SInv
<1> QED
  BY <1>3, <1>4

\* What astray tokens a start finds, it finds with the account they are of.
LEMMA RestartSafe == ASSUME SInv, ExportRestart PROVE SInv'
<1>1. /\ token' \in Loadable /\ handle' = 0 /\ session' = 0
      /\ account' = (IF astray THEN token' ELSE account)
      /\ UNCHANGED <<keychain, fallback, astray, troubles>>
      /\ signIns' = [k \in SignIns |-> IF signIns[k].pc = "none" THEN NoSignIn ELSE [pc |-> "over", of |-> 0]]
      /\ export' = [e \in Exports |-> NoExport]
  BY DEF ExportRestart, SessionRestart
<1>2. connection' \in {"on", "off"}
  BY DEF ExportRestart, SessionRestart
<1>3. token' \in {keychain, fallback, 0}
  BY <1>1 DEF Loadable
<1>4. {token, keychain, fallback, handle, account} \subseteq 0 .. MaxSignIns /\ 0 \in 0 .. MaxSignIns
  BY SessionAssumption DEF SInv, SessionTypeOK
<1>5. account' \in {token', account}
  BY <1>1
<1>6. {token', keychain', fallback', handle', account'} \subseteq 0 .. MaxSignIns
  <2>1. token' \in 0 .. MaxSignIns
    BY <1>3, <1>4, Zenon
  <2> QED
    BY <1>1, <1>4, <1>5, <2>1, Zenon
<1>7. /\ session' \in 0 .. MaxSessions
      /\ signIns' \in [SignIns -> [pc : {"none", "open", "cancelled", "over"}, of : 0 .. MaxSessions]]
  BY <1>1, SessionAssumption DEF NoSignIn
<1>8. SessionTypeOK'
  BY <1>1, <1>2, <1>6, <1>7, Zenon DEF SInv, SessionTypeOK
<1>9. OpenHeld' /\ Refreshed'
  BY <1>1 DEF OpenHeld, Refreshed, NoSignIn, NoExport
<1>10. (token \in {0, account})' /\ Stored'
  <2>1. CASE astray
    BY <1>1, <2>1, Zenon DEF Stored
  <2>2. CASE ~astray
    BY <1>1, <1>3, <2>2, Zenon DEF SInv, Stored
  <2> QED
    BY <2>1, <2>2
<1> QED
  BY <1>8, <1>9, <1>10 DEF SInv

-----------------------------------------------------------------------------
(* The shape of the ledgers.                                                 *)

LedgersOK ==
  /\ exported \in Ledgers /\ wire \in [Key -> {"none", "sent", "landed"}]
  /\ creations \in [Key -> 0 .. 2] /\ excused \subseteq Key
Asked == \A e \in Exports : export[e].pc \in {"asked", "answered"} => At(e) \in Key

\* A step of one export, and none of a sign-in.
StepOf(e) ==
  \/ AskToken(e) \/ AcceptToken(e) \/ Refused(e)
  \/ \E g \in Selections : LoadLedger(e, g) \/ NextBucket(e, g)
  \/ \E p \in Page : Submit(e, p) \/ NotSubmitted(e, p)
  \/ Succeeds(e) \/ Fails(e) \/ Misreported(e) \/ Unanswered(e)
  \/ Record(e) \/ Close(e)

LEMMA Blank == NoExport \in Export
BY SessionAssumption, ExportAssumption DEF NoExport, Export, Ledgers, NewLedger

\* A page that is due is one of those chosen, and has a key.
LEMMA Picks == ASSUME NEW e \in Exports, NEW p \in Page, Calls, Due(e, p)
  PROVE  <<export[e].group, p>> \in Key /\ MayAttempt(export[e].entries[<<export[e].group, p>>])
<1>1. export[e].group \in Selections \cup {{}} /\ p \in export[e].group
  BY DEF Calls, Export, Due, Untried
<1> QED
  BY <1>1 DEF Key, Due, Untried

\* What a step does to an export.
LEMMA Shape == ASSUME NEW e \in Exports, SInv, Calls, Asked, LedgersOK, StepOf(e)
  PROVE /\ export'[e] \in Export
        /\ export'[e].pc \in {"asked", "answered"} => At(e)' \in Key
        /\ export' = [export EXCEPT ![e] = export'[e]]
<1> USE DEF Calls
<1>0. export[e] \in Export
  OBVIOUS
<1>1. CASE AskToken(e)
  <2>1. export' = [export EXCEPT ![e] = [NoExport EXCEPT !.pc = "refreshing", !.of = session, !.token = token]]
    BY <1>1 DEF AskToken
  <2>2. session \in 0 .. MaxSessions /\ token \in 0 .. MaxSignIns
    BY DEF SInv, SessionTypeOK
  <2> QED
    BY <2>1, <2>2, Blank DEF Export
<1>2. CASE AcceptToken(e)
  BY <1>2, Blank DEF AcceptToken, Export
<1>3. CASE Refused(e)
  BY <1>3, Blank DEF Refused, Ends, NoExport
<1>4. ASSUME NEW g \in Selections, LoadLedger(e, g) \/ NextBucket(e, g)
      PROVE  /\ export'[e] \in Export
             /\ export'[e].pc \in {"asked", "answered"} => At(e)' \in Key
             /\ export' = [export EXCEPT ![e] = export'[e]]
  <2>1. Loaded \in Ledgers
    BY DEF LedgersOK, Loaded, Ledgers
  <2>2. 1 \in 0 .. Pages + 1
    BY ExportAssumption
  <2>3. Handled(e) \in SUBSET (Selections \cup {{}})
    BY <1>0 DEF Handled, Export
  <2>4. CASE LoadLedger(e, g)
    <3>1. export' = [export EXCEPT ![e] = [export[e] EXCEPT !.pc = "next", !.entries = Loaded, !.group = g, !.page = 1]]
      BY <2>4 DEF LoadLedger
    <3> QED
      BY <1>0, <2>1, <2>2, <3>1 DEF Export
  <2>5. CASE NextBucket(e, g)
    <3>1. export' = [export EXCEPT ![e] = [export[e] EXCEPT !.pc = "next", !.group = g, !.done = Handled(e), !.page = 1]]
      BY <2>5 DEF NextBucket
    <3> QED
      BY <1>0, <2>2, <2>3, <3>1 DEF Export
  <2> QED
    BY <1>4, <2>4, <2>5
<1>5. ASSUME NEW p \in Page, Submit(e, p) \/ NotSubmitted(e, p)
      PROVE  /\ export'[e] \in Export
             /\ export'[e].pc \in {"asked", "answered"} => At(e)' \in Key
             /\ export' = [export EXCEPT ![e] = export'[e]]
  <2>0. <<export[e].group, p>> \in Key
    BY <1>5, Picks DEF Submit, NotSubmitted
  <2>1. Begun(e, p, "pending") \in Ledgers /\ Begun(e, p, "failed") \in Ledgers
    BY <1>0, <2>0 DEF Begun, Export, Ledgers
  <2>2. p \in 0 .. Pages + 1 /\ p + 1 \in 0 .. Pages + 1
    BY ExportAssumption
  <2>3. CASE Submit(e, p)
    <3>1. export' = [export EXCEPT ![e] = [export[e] EXCEPT !.pc = "asked", !.page = p, !.entries = Begun(e, p, "pending")]]
      BY <2>3 DEF Submit
    <3> QED
      BY <1>0, <2>0, <2>1, <2>2, <3>1 DEF Export, At
  <2>4. CASE NotSubmitted(e, p)
    <3>1. export' = [export EXCEPT ![e] = [export[e] EXCEPT !.pc = "stopped", !.page = p + 1, !.entries = Begun(e, p, "failed")]]
      BY <2>4 DEF NotSubmitted
    <3> QED
      BY <1>0, <2>1, <2>2, <3>1 DEF Export
  <2> QED
    BY <1>5, <2>3, <2>4
<1>6. ASSUME NEW status \in {"succeeded", "failed", "auth", "review"}, NEW stop \in BOOLEAN, NEW expired \in BOOLEAN,
             export[e].pc = "asked", Answered(e, status, stop, expired)
      PROVE  /\ export'[e] \in Export
             /\ export'[e].pc \in {"asked", "answered"} => At(e)' \in Key
             /\ export' = [export EXCEPT ![e] = export'[e]]
  <2>0. At(e) \in Key
    BY <1>6 DEF Asked
  <2> DEFINE noted == [export[e].entries EXCEPT ![At(e)] = status]
  <2>1. noted \in Ledgers
    BY <1>0, <2>0 DEF Export, Ledgers
  <2>2. export' = [export EXCEPT ![e] = [export[e] EXCEPT !.pc = "answered", !.entries = noted,
                                                        !.stop = stop, !.expired = @ \/ expired]]
    BY <1>6 DEF Answered
  <2>3. (export[e].expired \/ expired) \in BOOLEAN
    BY <1>0 DEF Export
  <2> HIDE DEF noted
  <2>4. /\ export'[e] = [export[e] EXCEPT !.pc = "answered", !.entries = noted,
                                          !.stop = stop, !.expired = @ \/ expired]
        /\ export' = [export EXCEPT ![e] = export'[e]]
    BY <2>2
  <2>5. export'[e] \in Export
    BY <1>0, <2>1, <2>3, <2>4 DEF Export
  <2>6. At(e)' = At(e)
    BY <1>0, <2>4 DEF At, Export
  <2> QED
    BY <2>0, <2>4, <2>5, <2>6
<1>7. CASE Succeeds(e)
  BY <1>6, <1>7 DEF Succeeds
<1>8. CASE Fails(e)
  BY <1>6, <1>8 DEF Fails
<1>9. CASE Misreported(e)
  <2>1. CASE UNCHANGED export
    BY <1>0, <1>9, <2>1 DEF Misreported, Asked, At
  <2> QED
    BY <1>6, <1>9, <2>1 DEF Misreported
<1>10. CASE Unanswered(e)
  BY <1>6, <1>10 DEF Unanswered
<1>11. CASE Record(e)
  <2>0. At(e) \in Selections \X Page
    BY <1>11 DEF Record, Asked, Key
  <2>1. export[e].page \in Page /\ export[e].page + 1 \in 0 .. Pages + 1
    BY <2>0, ExportAssumption DEF At
  <2> QED
    BY <1>0, <1>11, <2>1 DEF Record, Export
<1>13. CASE Close(e)
  BY <1>13, Blank DEF Close, Ends, NoExport
<1> QED
  BY <1>1, <1>2, <1>3, <1>4, <1>5, <1>7, <1>8, <1>9, <1>10, <1>11, <1>13 DEF StepOf

LEMMA ShapeKept == ASSUME NEW e \in Exports, SInv, Calls, Asked, LedgersOK, StepOf(e) PROVE Calls' /\ Asked'
<1>1. /\ export'[e] \in Export
      /\ export'[e].pc \in {"asked", "answered"} => At(e)' \in Key
      /\ export' = [export EXCEPT ![e] = export'[e]]
  BY Shape
<1> QED
  BY <1>1 DEF Calls, Asked, At

LEMMA LedgersKept == ASSUME NEW e \in Exports, SInv, Calls, Asked, LedgersOK, StepOf(e) PROVE LedgersOK'
<1> USE DEF LedgersOK
<1>0. export[e] \in Export
  BY DEF Calls
<1>1. CASE UNCHANGED <<exported, wire, creations, excused>>
  BY <1>1
<1>2. ASSUME NEW p \in Page, Submit(e, p) PROVE LedgersOK'
  <2>1. <<export[e].group, p>> \in Key
    BY <1>2, Picks DEF Submit
  <2> QED
    BY <1>0, <1>2, <2>1 DEF Submit, Begun, Export, Ledgers
<1>3. CASE Succeeds(e) \/ Fails(e) \/ Misreported(e) \/ Unanswered(e)
  <2>1. UNCHANGED <<exported, creations>>
    BY <1>3 DEF Succeeds, Fails, Misreported, Unanswered
  <2>2. At(e) \in Key
    BY <1>3 DEF Succeeds, Fails, Misreported, Unanswered, Asked
  <2>3. excused' \subseteq Key
    BY <1>3, <2>2 DEF Succeeds, Fails, Misreported, Unanswered
  <2>4. wire' \in [Key -> {"none", "sent", "landed"}]
    BY <1>3, <2>2 DEF Succeeds, Fails, Misreported, Unanswered
  <2> QED
    BY <2>1, <2>3, <2>4
<1>4. CASE Record(e) \/ Close(e)
  <2>1. exported' \in {exported, export[e].entries} /\ UNCHANGED <<wire, creations, excused>>
    BY <1>4 DEF Record, Close
  <2> QED
    BY <1>0, <2>1 DEF Export
<1>5. ASSUME NEW p \in Page, NotSubmitted(e, p) PROVE LedgersOK'
  BY <1>1, <1>5 DEF NotSubmitted
<1>6. CASE AskToken(e) \/ AcceptToken(e) \/ Refused(e) \/ \E g \in Selections : LoadLedger(e, g) \/ NextBucket(e, g)
  BY <1>1, <1>6 DEF AskToken, AcceptToken, Refused, LoadLedger, NextBucket
<1> QED
  BY <1>2, <1>3, <1>4, <1>5, <1>6 DEF StepOf

\* A step of an export as the session sees it.
LEMMA StepSafe == ASSUME NEW e \in Exports, SInv, Calls, Asked, LedgersOK, StepOf(e) PROVE SInv'
<1>1. export' = [export EXCEPT ![e] = export'[e]]
  BY Shape
<1>2. ASSUME export'[e].pc # "refreshing",
             UNCHANGED <<session, token, keychain, fallback, signIns, handle, account, astray>>,
             connection' \in {connection, "expired"}, UNCHANGED troubles \/ Trouble
      PROVE  SInv'
  <2>1. \A d \in Exports : export'[d].pc = "refreshing" => export'[d] = export[d]
    BY <1>1, <1>2 DEF Calls
  <2> QED
    BY <1>2, <2>1, SteadySafe DEF Steady
<1> USE DEF Calls, Trouble, Untouched, sessionVars
<1>3. CASE AskToken(e)
  BY <1>3, AskSafe
<1>4. CASE AcceptToken(e)
  BY <1>4, AcceptSafe
<1>0. export[e] \in Export
  OBVIOUS
<1>5. ASSUME NEW g \in Selections, Refused(e) \/ LoadLedger(e, g) \/ NextBucket(e, g) PROVE SInv'
  <2>1. export'[e].pc # "refreshing"
    BY <1>0, <1>5 DEF Refused, LoadLedger, NextBucket, Ends, NoExport, Export
  <2> QED
    BY <1>2, <1>5, <2>1 DEF Refused, LoadLedger, NextBucket
<1>12. CASE Refused(e)
  <2>1. export'[e].pc # "refreshing"
    BY <1>0, <1>12 DEF Refused, Ends, NoExport, Export
  <2> QED
    BY <1>2, <1>12, <2>1 DEF Refused
<1>6. ASSUME NEW p \in Page, Submit(e, p) \/ NotSubmitted(e, p) PROVE SInv'
  <2>1. CASE Submit(e, p)
    BY <1>2, <2>1 DEF Submit
  <2>2. CASE NotSubmitted(e, p)
    BY <1>2, <2>2 DEF NotSubmitted
  <2> QED
    BY <1>6, <2>1, <2>2
<1>7. CASE Succeeds(e) \/ Fails(e) \/ Unanswered(e)
  <2>1. export'[e].pc # "refreshing"
    BY <1>0, <1>7 DEF Succeeds, Fails, Unanswered, Answered, Export
  <2> QED
    BY <1>2, <1>7, <2>1 DEF Succeeds, Fails, Unanswered
<1>8. CASE Misreported(e)
  <2>1. export'[e].pc # "refreshing"
    BY <1>0, <1>8 DEF Misreported, Answered, Export
  <2> QED
    BY <1>2, <1>8, <2>1 DEF Misreported
<1>9. CASE Record(e)
  <2>1. export'[e].pc # "refreshing"
    BY <1>0, <1>9 DEF Record, Export
  <2> QED
    BY <1>2, <1>9, <2>1 DEF Record
<1>11. CASE Close(e)
  BY <1>2, <1>11 DEF Close, Ends, NoExport
<1> QED
  BY <1>3, <1>4, <1>5, <1>6, <1>7, <1>8, <1>9, <1>11, <1>12 DEF StepOf

-----------------------------------------------------------------------------
(* What was sent is remembered.                                              *)

Taken == {"pending", "succeeded", "auth", "review"}
Alone == \A d, e \in Exporting : d = e
Statuses(p) == {exported[p]} \cup {export[e].entries[p] : e \in Exporting}

\* A page that was created or may yet be is one that no ledger lets anybody
\* try, unless the service denied it; one that a ledger calls exported exists.
Sound(p) ==
  /\ p \notin excused =>
       /\ creations[p] > 0 \/ wire[p] # "none" => Statuses(p) \subseteq Taken
       /\ creations[p] <= 1 /\ (wire[p] = "sent" => creations[p] = 0)
  /\ "succeeded" \in Statuses(p) \/ wire[p] = "landed" => creations[p] > 0

LInv == LedgersOK /\ Alone /\ \A p \in Key : Sound(p)

\* Steps that change what a ledger says at most, and what they add to it.
LEMMA Says == ASSUME LInv, NEW p \in Key, NEW status,
                     Statuses(p)' \subseteq Statuses(p) \cup {status},
                     status \in Taken \/ (creations[p] = 0 /\ wire[p] = "none") \/ p \in excused,
                     status = "succeeded" => creations[p] > 0,
                     UNCHANGED <<wire, creations, excused>>
  PROVE Sound(p)'
BY DEF LInv, Sound, Taken

LEMMA AloneKept == ASSUME NEW e \in Exports, Calls, Alone, export' = [export EXCEPT ![e] = export'[e]],
                          e \in Exporting \/ Exporting = {} \/ e \notin Exporting'
  PROVE Alone'
BY DEF Alone, Exporting, Calls

\* What the ledgers say of a page when one export stays as it is, is done, or
\* has a new entry.
LEMMA SaysLess == ASSUME NEW e \in Exports, NEW p \in Key, Calls, export' = [export EXCEPT ![e] = export'[e]],
                         NEW status,
                         e \in Exporting' => export'[e].entries[p] \in Statuses(p) \cup {status},
                         exported'[p] \in Statuses(p) \cup {status}
  PROVE Statuses(p)' \subseteq Statuses(p) \cup {status}
<1>1. \A d \in Exporting' : d # e => d \in Exporting /\ export'[d] = export[d]
  BY DEF Exporting, Calls
<1>2. \A d \in Exporting' : export'[d].entries[p] \in Statuses(p) \cup {status}
  BY <1>1 DEF Statuses
<1> QED
  BY <1>2 DEF Statuses

\* Exports that neither send nor receive.
LEMMA QuietSafe == ASSUME NEW e \in Exports, SInv, Calls, Asked, LInv,
                          \/ AskToken(e) \/ AcceptToken(e) \/ Refused(e)
                          \/ \E g \in Selections : LoadLedger(e, g) \/ NextBucket(e, g)
                          \/ \E p \in Page : NotSubmitted(e, p)
                          \/ Record(e) \/ Close(e)
  PROVE LInv'
<1>1. StepOf(e)
  BY DEF StepOf
<1>2. export[e] \in Export /\ export'[e] \in Export /\ export' = [export EXCEPT ![e] = export'[e]] /\ LedgersOK'
  BY <1>1, Shape, LedgersKept DEF LInv, Calls
<1>3. UNCHANGED <<wire, creations, excused>>
  BY DEF AskToken, AcceptToken, Refused, LoadLedger, NotSubmitted, Record, NextBucket, Close
<1>0. ASSUME AskToken(e) \/ AcceptToken(e) \/ Refused(e) PROVE e \notin Exporting' /\ UNCHANGED exported
  <2>1. export'[e].pc \in {"refreshing", "ready", "idle"}
    <3>1. CASE AskToken(e)
      BY <1>2, <3>1 DEF AskToken, NoExport, Calls
    <3>2. CASE AcceptToken(e)
      BY <1>2, <3>2 DEF AcceptToken, NoExport, Calls
    <3>3. CASE Refused(e)
      BY <1>2, <3>3 DEF Refused, Ends, NoExport, Calls
    <3> QED
      BY <1>0, <3>1, <3>2, <3>3
  <2> QED
    BY <1>0, <2>1 DEF AskToken, AcceptToken, Refused, Exporting
<1>4. Alone'
  <2>1. e \in Exporting \/ Exporting = {} \/ e \notin Exporting'
    <3>1. CASE AskToken(e) \/ AcceptToken(e) \/ Refused(e)
      BY <1>0, <3>1
    <3>2. ASSUME NEW g \in Selections, LoadLedger(e, g) PROVE Exporting = {}
      BY <3>2 DEF LoadLedger
    <3>5. ASSUME NEW g \in Selections, NextBucket(e, g) PROVE e \in Exporting
      BY <3>5 DEF NextBucket, Exporting
    <3>3. ASSUME NEW p \in Page, NotSubmitted(e, p) PROVE e \in Exporting
      BY <3>3 DEF NotSubmitted, Due, Exporting
    <3>4. CASE Record(e) \/ Close(e)
      BY <3>4 DEF Record, Close, Exporting
    <3> QED
      BY <3>1, <3>2, <3>3, <3>4, <3>5
  <2> QED
    BY <1>2, <2>1, AloneKept DEF LInv
<1>5. ASSUME NEW p \in Key PROVE Sound(p)'
  <2> DEFINE Fits(status) == /\ e \in Exporting' => export'[e].entries[p] \in Statuses(p) \cup {status}
                             /\ exported'[p] \in Statuses(p) \cup {status}
                             /\ status \in Taken \/ (creations[p] = 0 /\ wire[p] = "none") \/ p \in excused
                             /\ status = "succeeded" => creations[p] > 0
  <2>1. ASSUME NEW status, Fits(status) PROVE Sound(p)'
    <3>1. Statuses(p)' \subseteq Statuses(p) \cup {status}
      BY <1>2, <2>1, SaysLess
    <3> QED
      BY <1>3, <2>1, <3>1, Says
  <2>2. exported[p] \in Statuses(p) /\ (e \in Exporting => export[e].entries[p] \in Statuses(p))
    BY DEF Statuses
  <2>3. CASE AskToken(e) \/ AcceptToken(e) \/ Refused(e)
    <3>1. Fits("review")
      BY <1>0, <2>2, <2>3 DEF Taken
    <3> QED
      BY <2>1, <3>1
  <2>4. ASSUME NEW g \in Selections, LoadLedger(e, g) PROVE Sound(p)'
    <3>1. Fits("review")
      <4>1. UNCHANGED exported /\ export'[e].entries[p] = Loaded[p]
        BY <1>2, <2>4 DEF LoadLedger, Export, Calls
      <4> QED
        BY <2>2, <4>1 DEF Loaded, Taken
    <3> QED
      BY <2>1, <3>1
  <2>5. ASSUME NEW n \in Page, NotSubmitted(e, n) PROVE Sound(p)'
    <3>0. PICK q \in Key : q = <<export[e].group, n>> /\ MayAttempt(export[e].entries[q])
      BY <2>5, Picks DEF NotSubmitted
    <3>1. /\ UNCHANGED exported /\ e \in Exporting /\ MayAttempt(export[e].entries[q])
          /\ export'[e].entries = [export[e].entries EXCEPT ![q] = "failed"]
      BY <1>2, <2>5, <3>0 DEF NotSubmitted, Due, Exporting, Begun, Export, Calls
    <3>2. CASE p = q
      <4>1. Fits("failed")
        <5>1. export[e].entries[p] \notin Taken
          BY <3>1, <3>2 DEF MayAttempt, Taken
        <5>2. p \in excused \/ (creations[p] = 0 /\ wire[p] = "none")
          BY <2>2, <3>1, <5>1 DEF LInv, LedgersOK, Sound
        <5>3. export'[e].entries[p] = "failed"
          BY <1>2, <3>1, <3>2 DEF Export, Ledgers
        <5> QED
          BY <2>2, <3>1, <5>2, <5>3
      <4> QED
        BY <2>1, <4>1
    <3>3. CASE p # q
      <4>1. Fits("review")
        <5>1. export'[e].entries[p] = export[e].entries[p]
          BY <1>2, <3>1, <3>3 DEF Export, Ledgers
        <5> QED
          BY <2>2, <3>1, <5>1 DEF Taken
      <4> QED
        BY <2>1, <4>1
    <3> QED
      BY <3>2, <3>3
  <2>6. CASE Record(e) \/ Close(e) \/ \E g \in Selections : NextBucket(e, g)
    <3>1. /\ exported' \in {exported, export[e].entries} /\ e \in Exporting
          /\ e \in Exporting' => export'[e].entries = export[e].entries
      <4>1. CASE Record(e)
        BY <1>2, <4>1 DEF Record, Exporting, Export, Calls
      <4>2. CASE Close(e)
        BY <1>2, <4>2 DEF Close, Ends, NoExport, Exporting, Export, Calls
      <4>3. ASSUME NEW g \in Selections, NextBucket(e, g) PROVE  UNCHANGED exported /\ e \in Exporting /\ export'[e].entries = export[e].entries
        BY <1>2, <4>3 DEF NextBucket, Exporting, Export, Calls
      <4> QED
        BY <2>6, <4>1, <4>2, <4>3
    <3>2. Fits("review")
      BY <2>2, <3>1 DEF Taken
    <3> QED
      BY <2>1, <3>2
  <2> QED
    BY <2>3, <2>4, <2>5, <2>6
<1> QED
  BY <1>2, <1>4, <1>5 DEF LInv

\* Nobody but this export has a word on any page.
LEMMA Only == ASSUME NEW e \in Exporting, Alone, NEW p \in Key PROVE Statuses(p) = {exported[p], export[e].entries[p]}
BY DEF Alone, Statuses

LEMMA SubmitSafe == ASSUME NEW e \in Exports, NEW n \in Page, SInv, Calls, Asked, LInv, Submit(e, n) PROVE LInv'
<1>0. PICK q \in Key : q = <<export[e].group, n>> /\ MayAttempt(export[e].entries[q])
  BY Picks DEF Submit
<1>1. StepOf(e)
  BY DEF StepOf
<1>2. export[e] \in Export /\ export'[e] \in Export /\ export' = [export EXCEPT ![e] = export'[e]] /\ LedgersOK'
  BY <1>1, Shape, LedgersKept DEF LInv, Calls
<1>3. e \in Exporting /\ e \in Exporting' /\ MayAttempt(export[e].entries[q])
  BY <1>0, <1>2 DEF Submit, Due, Exporting, Calls, Export
<1>4. Alone'
  BY <1>2, <1>3, AloneKept DEF LInv
<1>5. export'[e].entries = exported' /\ exported' = [export[e].entries EXCEPT ![q] = "pending"]
  BY <1>0, <1>2 DEF Submit, Begun, Export, Calls
<1>6. wire' = [wire EXCEPT ![q] = "sent"] /\ UNCHANGED <<creations, excused>>
  BY <1>0 DEF Submit
<1>7. ASSUME NEW p \in Key PROVE Sound(p)'
  <2>1. Statuses(p)' = {exported'[p]}
    BY <1>3, <1>4, <1>5, Only DEF Alone, Statuses
  <2>2. Statuses(p) = {exported[p], export[e].entries[p]} /\ Sound(p)
    BY <1>3, Only DEF LInv
  <2>3. CASE p = q
    <3>1. p \in excused \/ (creations[p] = 0 /\ wire[p] = "none")
      BY <1>3, <2>2, <2>3 DEF LInv, LedgersOK, Sound, MayAttempt, Taken
    <3>2. exported'[p] = "pending" /\ wire'[p] = "sent"
      BY <1>2, <1>5, <1>6, <2>3 DEF LInv, LedgersOK, Export, Ledgers
    <3> QED
      BY <1>6, <2>1, <3>1, <3>2 DEF Sound, Taken
  <2>4. CASE p # q
    <3>1. exported'[p] = export[e].entries[p] /\ wire'[p] = wire[p]
      BY <1>2, <1>5, <1>6, <2>4 DEF LInv, LedgersOK, Export, Ledgers
    <3> QED
      BY <1>6, <2>1, <2>2, <3>1 DEF Sound, Taken
  <2> QED
    BY <2>3, <2>4
<1> QED
  BY <1>2, <1>4, <1>7 DEF LInv

\* The answers to a request.
LEMMA AnswerSafe == ASSUME NEW e \in Exports, SInv, Calls, Asked, LInv,
                           Succeeds(e) \/ Fails(e) \/ Misreported(e) \/ Unanswered(e)
  PROVE LInv'
<1>0. PICK q \in Key : q = At(e)
  BY DEF Succeeds, Fails, Misreported, Unanswered, Asked
<1> USE <1>0
<1>1. StepOf(e)
  BY DEF StepOf
<1>2. export[e] \in Export /\ export'[e] \in Export /\ export' = [export EXCEPT ![e] = export'[e]] /\ LedgersOK'
  BY <1>1, Shape, LedgersKept DEF LInv, Calls
<1>3. e \in Exporting /\ q \in Key
  BY DEF Succeeds, Fails, Misreported, Unanswered, Exporting, Asked
<1>4. Alone'
  BY <1>2, <1>3, AloneKept DEF LInv
<1>5. UNCHANGED <<exported, creations>>
  BY DEF Succeeds, Fails, Misreported, Unanswered
<1>6. \A p \in Key : Sound(p) /\ exported[p] \in Statuses(p) /\ export[e].entries[p] \in Statuses(p)
  BY <1>3 DEF LInv, Statuses
<1>7. ASSUME NEW p \in Key, p # q PROVE Sound(p)'
  <2>1. export'[e].entries[p] = export[e].entries[p]
    <3>1. CASE UNCHANGED export
      BY <3>1
    <3>2. ASSUME NEW status, NEW stop, NEW expired, Answered(e, status, stop, expired)
          PROVE  export'[e].entries[p] = export[e].entries[p]
      BY <1>2, <1>7, <3>2 DEF Answered, Export, Ledgers, Calls
    <3> QED
      BY <3>1, <3>2 DEF Succeeds, Fails, Misreported, Unanswered
  <2>2. Statuses(p)' \subseteq Statuses(p) \cup {exported[p]}
    BY <1>2, <1>5, <1>6, <2>1, SaysLess
  <2>3. Statuses(p)' \subseteq Statuses(p)
    BY <1>6, <2>2
  <2>4. wire'[p] = wire[p]
    BY <1>3, <1>7 DEF LInv, LedgersOK, Succeeds, Fails, Misreported, Unanswered
  <2>5. p \in excused' <=> p \in excused
    BY <1>7 DEF Succeeds, Fails, Misreported, Unanswered
  <2> QED
    BY <1>5, <1>6, <2>3, <2>4, <2>5 DEF Sound
<1>8. Sound(q)'
  <2>1. ASSUME NEW status, NEW stop, NEW expired, Answered(e, status, stop, expired)
        PROVE  Statuses(q)' \subseteq Statuses(q) \cup {status}
    <3>1. export'[e].entries[q] = status
      BY <1>2, <1>3, <2>1 DEF Answered, Export, Ledgers, Calls
    <3> QED
      BY <1>2, <1>3, <1>5, <1>6, <3>1, SaysLess
  <2>2. CASE Succeeds(e)
    <3>1. wire[q] = "landed" /\ wire'[q] = "none" /\ UNCHANGED excused
      BY <1>3, <2>2 DEF LInv, LedgersOK, Succeeds
    <3>2. Statuses(q)' \subseteq Statuses(q) \cup {"succeeded"}
      BY <2>1, <2>2 DEF Succeeds
    <3> QED
      BY <1>3, <1>5, <1>6, <3>1, <3>2 DEF Sound, Taken
  <2>3. CASE Fails(e)
    <3>1. wire[q] = "sent" /\ wire'[q] = "none" /\ UNCHANGED excused
      BY <1>3, <2>3 DEF LInv, LedgersOK, Fails
    <3>2. \E status \in {"failed", "auth", "review"} : Statuses(q)' \subseteq Statuses(q) \cup {status}
      BY <2>1, <2>3 DEF Fails
    <3>3. creations[q] \in 0 .. 2
      BY <1>3 DEF LInv, LedgersOK
    <3> QED
      BY <1>3, <1>5, <1>6, <3>1, <3>2, <3>3 DEF Sound, Taken
  <2>4. CASE Misreported(e)
    <3>1. wire[q] = "landed" /\ wire'[q] \in {"sent", "none"} /\ q \in excused'
      BY <1>3, <2>4 DEF LInv, LedgersOK, Misreported
    <3>2. Statuses(q)' \subseteq Statuses(q) \cup {"failed"}
      <4>1. CASE UNCHANGED export
        BY <1>5, <4>1 DEF Statuses, Exporting
      <4> QED
        BY <2>1, <2>4, <4>1 DEF Misreported
    <3> QED
      BY <1>3, <1>5, <1>6, <3>1, <3>2 DEF Sound
  <2>5. CASE Unanswered(e)
    <3>1. wire'[q] = (IF wire[q] = "sent" THEN "sent" ELSE "none") /\ UNCHANGED excused
      BY <1>3, <2>5 DEF LInv, LedgersOK, Unanswered
    <3>2. Statuses(q)' \subseteq Statuses(q) \cup {"review"}
      BY <2>1, <2>5 DEF Unanswered
    <3> QED
      BY <1>3, <1>5, <1>6, <3>1, <3>2 DEF Sound, Taken
  <2> QED
    BY <2>2, <2>3, <2>4, <2>5
<1> QED
  BY <1>2, <1>4, <1>7, <1>8 DEF LInv

LEMMA LandSafe == ASSUME NEW q \in Key, LInv, Lands(q) PROVE LInv'
<1>1. UNCHANGED <<export, exported, excused>> /\ creations' = [creations EXCEPT ![q] = @ + 1]
      /\ wire' \in {[wire EXCEPT ![q] = "landed"], [wire EXCEPT ![q] = "none"]}
      /\ wire[q] = "sent" /\ creations[q] < 2
  BY DEF Lands
<1>2. LedgersOK'
  BY <1>1 DEF LInv, LedgersOK
<1>3. Alone'
  BY <1>1 DEF LInv, Alone, Exporting
<1>4. ASSUME NEW p \in Key PROVE Sound(p)'
  <2>1. Statuses(p)' = Statuses(p) /\ Sound(p) /\ Sound(q)
    BY <1>1 DEF LInv, Statuses, Exporting
  <2>2. CASE p = q
    <3>1. creations[p] \in 0 .. 2 /\ creations'[p] = creations[p] + 1 /\ wire'[p] \in {"landed", "none"} /\ wire[p] = "sent"
      BY <1>1, <2>2 DEF LInv, LedgersOK
    <3> QED
      BY <1>1, <2>1, <3>1 DEF Sound
  <2>3. CASE p # q
    <3>1. wire'[p] = wire[p] /\ creations'[p] = creations[p]
      BY <1>1, <2>3 DEF LInv, LedgersOK
    <3> QED
      BY <1>1, <2>1, <3>1 DEF Sound
  <2> QED
    BY <2>2, <2>3
<1> QED
  BY <1>2, <1>3, <1>4 DEF LInv

LEMMA EndsSafe == ASSUME LInv, ExportRestart PROVE LInv' /\ Calls' /\ Asked'
<1>1. export' = [e \in Exports |-> NoExport] /\ UNCHANGED <<exported, wire, creations, excused>>
  BY DEF ExportRestart
<1>2. Exporting' = {}
  BY <1>1 DEF Exporting, NoExport
<1>3. Calls' /\ Asked'
  BY <1>1, Blank DEF Calls, Asked, NoExport
<1>4. \A p \in Key : Statuses(p)' \subseteq Statuses(p)
  BY <1>1, <1>2 DEF Statuses
<1>5. \A p \in Key : Sound(p)'
  BY <1>1, <1>4 DEF LInv, Sound
<1> QED
  BY <1>1, <1>2, <1>3, <1>5 DEF LInv, LedgersOK, Alone

-----------------------------------------------------------------------------
(* Theorems.                                                                 *)

XInv == SInv /\ Calls /\ Asked /\ LInv

LEMMA FirstExports == ASSUME MeetingInit PROVE XInv
<1>1. ExportInit /\ SessionInit
  BY DEF MeetingInit, ExportInit
<1>2. SessionTypeOK
  <2>1. {token, keychain, fallback, handle, account} \subseteq 0 .. MaxSignIns
    BY <1>1, SessionAssumption DEF SessionInit
  <2>2. signIns \in [SignIns -> [pc : {"none", "open", "cancelled", "over"}, of : 0 .. MaxSessions]]
    BY <1>1, SessionAssumption DEF SessionInit, NoSignIn
  <2>3. session \in 0 .. MaxSessions /\ troubles \in 0 .. MaxTroubles
    BY <1>1, SessionAssumption DEF SessionInit
  <2> QED
    BY <1>1, <2>1, <2>2, <2>3, Zenon DEF SessionInit, SessionTypeOK
<1>3. OpenHeld
  BY <1>1 DEF SessionInit, OpenHeld, NoSignIn
<1>4. Refreshed /\ Calls /\ Asked /\ Exporting = {}
  BY <1>1, Blank DEF ExportInit, Refreshed, Calls, Asked, Exporting, NoExport
<1>5. token \in {0, account} /\ Stored
  <2>1. {keychain, fallback} \subseteq {0, account} /\ token \in {0, account}
    BY <1>1 DEF SessionInit
  <2> QED
    BY <2>1, Zenon DEF Stored
<1>6. LedgersOK
  BY <1>1 DEF ExportInit, LedgersOK, NewLedger, Ledgers
<1>7. ASSUME NEW p \in Key PROVE Sound(p)
  <2>1. Statuses(p) = {"none"}
    BY <1>1, <1>4 DEF ExportInit, NewLedger, Statuses
  <2> QED
    BY <1>1, <2>1 DEF ExportInit, Sound
<1> QED
  BY <1>2, <1>3, <1>4, <1>5, <1>6, <1>7 DEF XInv, SInv, LInv, Alone

LEMMA SessionSafe == ASSUME XInv, SessionStep, UNCHANGED exportVars PROVE XInv'
<1>1. UNCHANGED <<export, exported, wire, creations, excused>>
  BY DEF exportVars
<1>2. SInv'
  <2>1. ASSUME NEW k \in SignIns, NEW consent \in BOOLEAN, SignIn(k, consent) PROVE SInv'
    BY <1>1, <2>1, SignInSafe DEF XInv
  <2>2. ASSUME NEW k \in SignIns, SignInSucceeds(k) PROVE SInv'
    BY <1>1, <2>2, SucceedSafe DEF XInv
  <2>3. ASSUME NEW k \in SignIns, SignInFails(k) PROVE SInv'
    BY <1>1, <2>3, FailSafe DEF XInv
  <2>4. CASE CancelSignIn \/ SignOut
    BY <1>1, <2>4, EndSafe DEF XInv
  <2> QED
    BY <2>1, <2>2, <2>3, <2>4, Zenon DEF SessionStep
<1>3. Calls' /\ Asked' /\ LedgersOK' /\ Alone'
  BY <1>1 DEF XInv, LInv, Calls, Asked, At, LedgersOK, Alone, Exporting
<1>4. \A p \in Key : Sound(p)'
  BY <1>1 DEF XInv, LInv, Sound, Statuses, Exporting
<1> QED
  BY <1>2, <1>3, <1>4 DEF XInv, LInv

LEMMA ExportSafe == ASSUME XInv, ExportStep PROVE XInv'
<1>1. ASSUME NEW e \in Exports, StepOf(e) PROVE XInv'
  <2>1. SInv' /\ Calls' /\ Asked'
    BY <1>1, StepSafe, ShapeKept DEF XInv, LInv
  <2>2. LInv'
    <3>1. ASSUME NEW p \in Page, Submit(e, p) PROVE LInv'
      BY <3>1, SubmitSafe DEF XInv
    <3>2. CASE Succeeds(e) \/ Fails(e) \/ Misreported(e) \/ Unanswered(e)
      BY <3>2, AnswerSafe DEF XInv
    <3>3. CASE \/ AskToken(e) \/ AcceptToken(e) \/ Refused(e)
               \/ \E g \in Selections : LoadLedger(e, g) \/ NextBucket(e, g)
               \/ \E p \in Page : NotSubmitted(e, p)
               \/ Record(e) \/ Close(e)
      BY <3>3, QuietSafe DEF XInv
    <3> QED
      BY <1>1, <3>1, <3>2, <3>3 DEF StepOf
  <2> QED
    BY <2>1, <2>2 DEF XInv
<1>2. ASSUME NEW q \in Key, Lands(q) PROVE XInv'
  <2>1. UNCHANGED <<sessionVars, export>>
    BY <1>2 DEF Lands
  <2>2. SInv' /\ Calls' /\ Asked'
    <3>1. UNCHANGED <<session, token, keychain, fallback, signIns, handle, account, astray, connection, troubles>>
      BY <2>1 DEF sessionVars
    <3> QED
      BY <2>1, <3>1, SteadySafe DEF XInv, Steady, Calls, Asked, At
  <2> QED
    BY <1>2, <2>2, LandSafe DEF XInv
<1> QED
  BY <1>1, <1>2, Zenon DEF ExportStep, StepOf

LEMMA NextSafe == ASSUME XInv, [MeetingNext]_meetingVars PROVE XInv'
<1>1. ExportNext \/ UNCHANGED sharingVars
  BY Zenon DEF MeetingNext, MeetingRestart, ExportNext, meetingVars
<1>2. CASE SessionStep /\ UNCHANGED exportVars
  BY <1>2, SessionSafe
<1>3. CASE ExportStep
  BY <1>3, ExportSafe
<1>4. CASE ExportRestart
  BY <1>4, RestartSafe, EndsSafe DEF XInv
<1>5. CASE UNCHANGED sharingVars
  <2>1. UNCHANGED <<connection, session, token, keychain, fallback, signIns, handle, account, astray, troubles>>
        /\ UNCHANGED <<export, exported, wire, creations, excused>>
    BY <1>5 DEF sharingVars, sessionVars, exportVars
  <2>2. SInv'
    BY <2>1, SteadySafe DEF XInv, Steady
  <2>3. Calls' /\ Asked' /\ LedgersOK' /\ Alone'
    BY <2>1 DEF XInv, LInv, Calls, Asked, At, LedgersOK, Alone, Exporting
  <2>4. \A p \in Key : Sound(p)'
    BY <2>1 DEF XInv, LInv, Sound, Statuses, Exporting
  <2> QED
    BY <2>2, <2>3, <2>4 DEF XInv, LInv
<1> QED
  BY <1>1, <1>2, <1>3, <1>4, <1>5 DEF ExportNext

\* What signing out promises: neither memory nor what a start would load has
\* a token of an account that was signed out of or replaced, whatever comes
\* back late, unless removing or replacing a stored token failed.
THEOREM SignedOut == MeetingSpec => []SignedOutStaysOut
<1>1. MeetingInit => XInv
  BY FirstExports
<1>2. XInv /\ [MeetingNext]_meetingVars => XInv'
  BY NextSafe
<1>3. XInv => SignedOutStaysOut
  <2>1. ASSUME XInv, ~astray PROVE Loadable \subseteq {0, account}
    BY <2>1, Zenon DEF XInv, SInv, Stored, Loadable
  <2> QED
    BY <2>1, Zenon DEF XInv, SInv, SignedOutStaysOut
<1> QED
  BY <1>1, <1>2, <1>3, PTL DEF MeetingSpec

\* What the history of exports promises: under one key, that is for the same
\* selection, no page or task is created twice, unless the service denies one
\* it created, and a page that is said to be exported exists - for any number
\* of exports, pages, selections, losses and restarts. Another selection with
\* the same task is another key (see TaskOnce).
THEOREM OnceOnly == MeetingSpec => []CreatedOnce
<1>1. MeetingInit => XInv
  BY FirstExports
<1>2. XInv /\ [MeetingNext]_meetingVars => XInv'
  BY NextSafe
<1>3. XInv => CreatedOnce
  <2>1. ASSUME XInv, NEW p \in Key
        PROVE  (creations[p] > 1 => p \in excused) /\ (exported[p] = "succeeded" => creations[p] > 0)
    <3>1. Sound(p) /\ exported[p] \in Statuses(p) /\ creations[p] \in 0 .. 2
      BY <2>1 DEF XInv, LInv, LedgersOK, Statuses
    <3> QED
      BY <3>1 DEF Sound
  <2> QED
    BY <2>1 DEF CreatedOnce
<1> QED
  BY <1>1, <1>2, <1>3, PTL DEF MeetingSpec

-----------------------------------------------------------------------------
(* The documents and their files, and the archive.                           *)

HIDE DEF SignIns, Page

(* One permit: an import and an archive exclude each other.                  *)
Apart ==
  /\ importing.pc # "idle" <=> holder = "import"
  /\ archiving.pc # "idle" <=> holder = "archive"

(* An identity that was not given out is nowhere.                            *)
Unused == \A n \in Names : n > made =>
  /\ documents[n] = Nothing /\ originals[n] = Nothing
  /\ n \notin OnTheWay /\ n \notin archiving.placed /\ n \notin ledger.owed
  /\ zip.documents[n] = Nothing /\ archiving.copy.documents[n] = Nothing

(* Attachments lead to rows, in the library and in archives.                 *)
Owned == \A m \in Meetings, n \in Names :
  /\ <<m, n>> \in attached => m \in meetings /\ documents[n] # Nothing
  /\ <<m, n>> \in zip.attached => zip.documents[n] # Nothing
  /\ <<m, n>> \in archiving.copy.attached => archiving.copy.documents[n] # Nothing

(* A row has its file, which nobody is about to remove unless it was reused. *)
Held == \A n \in Names :
  /\ documents[n] # Nothing =>
       /\ n \notin ledger.owed
       /\ originals[n] = documents[n] \/ n \in ledger.reused
       /\ n \in OnTheWay \cup archiving.placed => n \in ledger.reused
  /\ n \in archiving.placed => n \notin ledger.owed

(* The copy of an import is its own until the rows commit.                   *)
Copying ==
  /\ importing.pc # "idle" => importing.meeting \in Meetings /\ importing.content \in Contents
  /\ importing.pc \in {"idle", "staged"} => importing.name = 0
  /\ importing.pc \in {"placed", "discard"} =>
       /\ importing.name \in Names /\ importing.name <= made
       /\ documents[importing.name] = Nothing
       /\ importing.name \notin OnTheWay /\ importing.name \notin ledger.owed
  /\ importing.pc = "placed" => originals[importing.name] = importing.content

(* What a restore is going to commit has its file.                           *)
Ready1(n, k) ==
  /\ k \notin ledger.owed
  /\ originals[k] = zip.documents[n] \/ k \in ledger.reused
  /\ k \in OnTheWay => k \in ledger.reused

Restoring ==
  /\ archiving.pc # "place" => archiving.placed = {} /\ archiving.created = {}
  /\ archiving.created \subseteq InArchive
  /\ archiving.pc = "place" =>
       /\ archiving.todo \subseteq InArchive
       /\ \A n \in InArchive : archiving.ids[n] <= made
       /\ \A n, d \in InArchive : archiving.ids[n] = archiving.ids[d] => n = d
       /\ archiving.chosen \cap meetings = {}
       /\ archiving.chosen \cap zip.folders \subseteq archiving.staged
       /\ \A n \in archiving.created :
            /\ documents[archiving.ids[n]] = Nothing
            /\ n \notin archiving.todo => Ready1(n, archiving.ids[n])
       /\ Locked => \A n \in InArchive \ archiving.created : documents[archiving.ids[n]] = zip.documents[n]

(* The sweep has still to come to what it is owed.                           *)
Sweeping ==
  /\ IF sweep.pc \in {"confirm", "unlink"} THEN sweep.name \in Names ELSE sweep.name = 0
  /\ sweep.pc = "through" => sweep.phase = "files" /\ sweep.todo = {}
  /\ ledger.owed \cap Orphans \subseteq old
  /\ sweep.phase = "files" /\ sweep.pc # "stopped" => ledger.owed \cap Orphans \subseteq sweep.todo \cup {sweep.name}

(* Nothing is left over.                                                     *)
Left == Orphans \subseteq removing \cup archiving.placed \cup ledger.left \cup {importing.name, sweep.name}
Brought == Unattached \subseteq ledger.brought

ArchiveInv ==
  /\ ArchiveTypeOK /\ Apart /\ Unused /\ Owned /\ Held /\ Copying
  /\ Restoring /\ Sweeping /\ Left /\ Brought

USE DEF documentRows, documentVars, archiveVars, untouched, sweepOnly

(* A record that loses names to left keeps its type.                         *)
After(these) ==
  /\ ledger' \in Ledger
  /\ ledger'.left = ledger.left \cup these /\ ledger'.owed = ledger.owed \ these
  /\ ledger'.brought = ledger.brought /\ ledger'.reused = ledger.reused

LEMMA GivesUp ==
  ASSUME ledger \in Ledger, NEW these \in SUBSET Names, GivenUp(these)
  PROVE  After(these)
BY DEF GivenUp, After, Ledger

LEMMA MishapType ==
  ASSUME mishaps \in 0 .. MaxMishaps, Mishap PROVE mishaps' \in 0 .. MaxMishaps
BY DocumentAssumption DEF Mishap

LEMMA NextName ==
  ASSUME made \in 0 .. MaxNames, made < MaxNames PROVE made + 1 \in Names /\ made + 1 \in 0 .. MaxNames
BY DocumentAssumption DEF Names

LEMMA NamesFacts == 0 \notin Names /\ Names \subseteq Nat /\ MaxNames \in Nat
BY DocumentAssumption DEF Names

(* A restore does not mind that files go which somebody was about to remove. *)
LEMMA RestoringKept ==
  ASSUME ArchiveInv, UNCHANGED <<zip, archiving, documents, meetings, made>>,
         \A k \in Names : originals'[k] = originals[k] \/ k \in OnTheWay,
         OnTheWay' \subseteq OnTheWay, ledger'.owed \subseteq ledger.owed, ledger'.reused = ledger.reused
  PROVE  Restoring'
<1>1. archiving.pc = "place" => \A n \in archiving.created : archiving.ids[n] \in Names
  BY DEF ArchiveInv, ArchiveTypeOK, ArchiveWork, Restoring, InArchive
<1>2. InArchive' = InArchive /\ Locked' = Locked
  BY DEF InArchive, Locked
<1>3. ASSUME NEW n \in Names, NEW k \in Names, Ready1(n, k) PROVE Ready1(n, k)'
  BY <1>3 DEF Ready1
<1> QED
  BY <1>1, <1>2, <1>3 DEF ArchiveInv, Restoring, InArchive

LEMMA BeginImportStep ==
  ASSUME NEW m \in Meetings, NEW c \in Contents, ArchiveInv, BeginImport(m, c), UNCHANGED <<zip, archiving>>
  PROVE  ArchiveInv'
<1>t. importing' \in Import
  BY NamesFacts DEF ArchiveInv, BeginImport, Names, ArchiveTypeOK, DocumentTypeOK, Import
<1>1. ArchiveTypeOK'
  BY <1>t, NamesFacts DEF ArchiveInv, BeginImport, Names, ArchiveTypeOK, DocumentTypeOK
<1>2. Apart'
  BY <1>t, NamesFacts DEF ArchiveInv, BeginImport, Names, ArchiveTypeOK, DocumentTypeOK, Apart
<1>3. Unused'
  BY <1>t, NamesFacts DEF ArchiveInv, BeginImport, Names, ArchiveTypeOK, DocumentTypeOK, Unused, OnTheWay, Apart
<1>4. Owned'
  BY <1>t, NamesFacts DEF ArchiveInv, BeginImport, Names, ArchiveTypeOK, DocumentTypeOK, Owned, Apart
<1>5. Held'
  BY <1>t, NamesFacts DEF ArchiveInv, BeginImport, Names, ArchiveTypeOK, DocumentTypeOK, Held, OnTheWay, Apart
<1>6. Copying'
  BY <1>t, NamesFacts DEF ArchiveInv, BeginImport, Names, ArchiveTypeOK, DocumentTypeOK, Copying, OnTheWay, Apart
<1>7. Restoring'
  BY <1>t, NamesFacts DEF ArchiveInv, BeginImport, Names, ArchiveTypeOK, DocumentTypeOK, Restoring, Ready1, OnTheWay, InArchive, Locked, Apart
<1>8. Sweeping'
  BY <1>t, NamesFacts DEF ArchiveInv, BeginImport, Names, ArchiveTypeOK, DocumentTypeOK, Sweeping, Orphans, Row, File, Apart
<1>9. Left'
  BY <1>t, NamesFacts DEF ArchiveInv, BeginImport, Names, ArchiveTypeOK, DocumentTypeOK, Left, Orphans, Row, File, Apart, Copying
<1>10. Brought'
  BY <1>t, NamesFacts DEF ArchiveInv, BeginImport, Names, ArchiveTypeOK, DocumentTypeOK, Brought, Unattached, Row, Owners, Apart
<1> QED
  BY <1>1, <1>2, <1>3, <1>4, <1>5, <1>6, <1>7, <1>8, <1>9, <1>10 DEF ArchiveInv

LEMMA PlaceOriginalStep ==
  ASSUME ArchiveInv, PlaceOriginal, UNCHANGED <<zip, archiving>>
  PROVE  ArchiveInv'
<1>0. /\ importing' = [pc |-> "placed", meeting |-> importing.meeting, content |-> importing.content, name |-> made + 1]
      /\ made + 1 \in Names
      /\ made + 1 \in 0 .. MaxNames
  BY NextName, NamesFacts DEF ArchiveInv, PlaceOriginal, Names, ArchiveTypeOK, DocumentTypeOK, Import
<1>t. importing' \in Import
  BY <1>0, NamesFacts DEF ArchiveInv, ArchiveTypeOK, DocumentTypeOK, Import, Sweep
<1>1. ArchiveTypeOK'
  <2>1. originals' \in [Names -> Contents \cup {Nothing}]
    BY <1>0 DEF ArchiveInv, PlaceOriginal, ArchiveTypeOK, DocumentTypeOK, Import
  <2> QED
    BY <1>0, <1>t, <2>1 DEF ArchiveInv, PlaceOriginal, ArchiveTypeOK, DocumentTypeOK
<1>2. Apart'
  BY <1>0, <1>t, NamesFacts DEF ArchiveInv, PlaceOriginal, Names, ArchiveTypeOK, DocumentTypeOK, Apart
<1>3. Unused'
  BY <1>0, <1>t, NamesFacts DEF ArchiveInv, PlaceOriginal, Names, ArchiveTypeOK, DocumentTypeOK, Unused, OnTheWay, Apart
<1>4. Owned'
  BY <1>0, <1>t, NamesFacts DEF ArchiveInv, PlaceOriginal, Names, ArchiveTypeOK, DocumentTypeOK, Owned, Apart
<1>5. Held'
  BY <1>0, <1>t, NamesFacts DEF ArchiveInv, PlaceOriginal, Names, ArchiveTypeOK, DocumentTypeOK, Held, OnTheWay, Apart, Unused
<1>6. Copying'
  BY <1>0, <1>t, NamesFacts DEF ArchiveInv, PlaceOriginal, Names, ArchiveTypeOK, DocumentTypeOK, Copying, OnTheWay, Apart, Unused
<1>7. Restoring'
  BY <1>0, <1>t, NamesFacts DEF ArchiveInv, PlaceOriginal, Names, ArchiveTypeOK, DocumentTypeOK, Restoring, Ready1, OnTheWay, InArchive, Locked, Apart
<1>8. Sweeping'
  BY <1>0, <1>t, NamesFacts DEF ArchiveInv, PlaceOriginal, Names, ArchiveTypeOK, DocumentTypeOK, Sweeping, Orphans, Row, File, Apart, Unused
<1>9. Left'
  BY <1>0, <1>t, NamesFacts DEF ArchiveInv, PlaceOriginal, Names, ArchiveTypeOK, DocumentTypeOK, Left, Orphans, Row, File, Apart, Copying
<1>10. Brought'
  BY <1>0, <1>t, NamesFacts DEF ArchiveInv, PlaceOriginal, Names, ArchiveTypeOK, DocumentTypeOK, Brought, Unattached, Row, Owners, Apart
<1> QED
  BY <1>1, <1>2, <1>3, <1>4, <1>5, <1>6, <1>7, <1>8, <1>9, <1>10 DEF ArchiveInv

LEMMA AttachStep ==
  ASSUME ArchiveInv, Attach, ~Locked, UNCHANGED <<zip, archiving>>
  PROVE  ArchiveInv'
<1>1. CASE {n \in Names : documents[n] = importing.content} = {}
  <2>0. /\ importing' = [pc |-> "idle", meeting |-> Nothing, content |-> Nothing, name |-> 0]
        /\ holder' = "free"
        /\ documents' = [documents EXCEPT ![importing.name] = importing.content]
        /\ attached' = attached \cup {<<importing.meeting, importing.name>>}
        /\ importing.meeting \in Meetings /\ importing.content # Nothing /\ importing.name \in Names
    BY <1>1, NamesFacts, DocumentAssumption DEF ArchiveInv, Attach, Copying, Names, ArchiveTypeOK, DocumentTypeOK, Import, ImportEnds, NoImport
  <2>t. importing' \in Import
    BY <2>0, NamesFacts DEF ArchiveInv, ArchiveTypeOK, DocumentTypeOK, Import, Sweep
  <2>d. documents' \in [Names -> Contents \cup {Nothing}]
    BY <2>0 DEF ArchiveInv, ArchiveTypeOK, DocumentTypeOK, Import
  <2>a. attached' \subseteq Meetings \X Names
    BY <2>0 DEF ArchiveInv, ArchiveTypeOK, DocumentTypeOK
  <2>1. ArchiveTypeOK'
    BY <2>0, <2>t, <2>d, <2>a, DocumentAssumption DEF ArchiveInv, Attach, ArchiveTypeOK, DocumentTypeOK
  <2>2. Apart'
    BY <1>1, <2>0, <2>t, NamesFacts DEF ArchiveInv, Attach, Names, ArchiveTypeOK, DocumentTypeOK, Apart
  <2>3. Unused'
    BY <1>1, <2>0, <2>t, NamesFacts DEF ArchiveInv, Attach, Names, ArchiveTypeOK, DocumentTypeOK, Unused, OnTheWay, Apart, Copying
  <2>4. Owned'
    BY <1>1, <2>0, <2>t, NamesFacts DEF ArchiveInv, Attach, Names, ArchiveTypeOK, DocumentTypeOK, Owned, Apart, Copying, Import
  <2>5. Held'
    BY <1>1, <2>0, <2>t, NamesFacts DEF ArchiveInv, Attach, Names, ArchiveTypeOK, DocumentTypeOK, Held, OnTheWay, Apart, Copying, Restoring
  <2>6. Copying'
    BY <1>1, <2>0, <2>t, NamesFacts DEF ArchiveInv, Attach, Names, ArchiveTypeOK, DocumentTypeOK, Copying, OnTheWay, Apart
  <2>7. Restoring'
    BY <1>1, <2>0, <2>t, NamesFacts DEF ArchiveInv, Attach, Names, ArchiveTypeOK, DocumentTypeOK, Restoring, Ready1, OnTheWay, InArchive, Locked, Apart
  <2>8. Sweeping'
    BY <1>1, <2>0, <2>t, NamesFacts DEF ArchiveInv, Attach, Names, ArchiveTypeOK, DocumentTypeOK, Sweeping, Orphans, Row, File, Apart, Copying
  <2>9. Left'
    BY <1>1, <2>0, <2>t, NamesFacts DEF ArchiveInv, Attach, Names, ArchiveTypeOK, DocumentTypeOK, Left, Orphans, Row, File, Apart, Copying
  <2>10. Brought'
    BY <1>1, <2>0, <2>t, NamesFacts DEF ArchiveInv, Attach, Names, ArchiveTypeOK, DocumentTypeOK, Brought, Unattached, Row, Owners, Apart
  <2> QED
    BY <2>1, <2>2, <2>3, <2>4, <2>5, <2>6, <2>7, <2>8, <2>9, <2>10 DEF ArchiveInv
<1>2. CASE {n \in Names : documents[n] = importing.content} # {}
  <2>0. /\ importing' = [pc |-> "discard", meeting |-> importing.meeting, content |-> importing.content, name |-> importing.name]
        /\ holder' = holder
        /\ documents' = documents
        /\ attached' = attached \cup ({importing.meeting} \X {n \in Names : documents[n] = importing.content})
        /\ importing.meeting \in Meetings /\ importing.content # Nothing
    BY <1>2, NamesFacts, DocumentAssumption DEF ArchiveInv, Attach, Copying, Names, ArchiveTypeOK, DocumentTypeOK, Import, ImportEnds, NoImport
  <2>t. importing' \in Import
    BY <2>0, NamesFacts DEF ArchiveInv, ArchiveTypeOK, DocumentTypeOK, Import, Sweep
  <2>1. ArchiveTypeOK'
    BY <1>2, <2>0, <2>t, NamesFacts DEF ArchiveInv, Attach, Names, ArchiveTypeOK, DocumentTypeOK
  <2>2. Apart'
    BY <1>2, <2>0, <2>t, NamesFacts DEF ArchiveInv, Attach, Names, ArchiveTypeOK, DocumentTypeOK, Apart
  <2>3. Unused'
    BY <1>2, <2>0, <2>t, NamesFacts DEF ArchiveInv, Attach, Names, ArchiveTypeOK, DocumentTypeOK, Unused, OnTheWay, Apart, Copying
  <2>4. Owned'
    BY <1>2, <2>0, <2>t, NamesFacts DEF ArchiveInv, Attach, Names, ArchiveTypeOK, DocumentTypeOK, Owned, Apart, Copying, Import
  <2>5. Held'
    BY <1>2, <2>0, <2>t, NamesFacts DEF ArchiveInv, Attach, Names, ArchiveTypeOK, DocumentTypeOK, Held, OnTheWay, Apart, Copying, Restoring
  <2>6. Copying'
    BY <1>2, <2>0, <2>t, NamesFacts DEF ArchiveInv, Attach, Names, ArchiveTypeOK, DocumentTypeOK, Copying, OnTheWay, Apart
  <2>7. Restoring'
    BY <1>2, <2>0, <2>t, NamesFacts DEF ArchiveInv, Attach, Names, ArchiveTypeOK, DocumentTypeOK, Restoring, Ready1, OnTheWay, InArchive, Locked, Apart
  <2>8. Sweeping'
    BY <1>2, <2>0, <2>t, NamesFacts DEF ArchiveInv, Attach, Names, ArchiveTypeOK, DocumentTypeOK, Sweeping, Orphans, Row, File, Apart, Copying
  <2>9. Left'
    BY <1>2, <2>0, <2>t, NamesFacts DEF ArchiveInv, Attach, Names, ArchiveTypeOK, DocumentTypeOK, Left, Orphans, Row, File, Apart, Copying
  <2>10. Brought'
    BY <1>2, <2>0, <2>t, NamesFacts DEF ArchiveInv, Attach, Names, ArchiveTypeOK, DocumentTypeOK, Brought, Unattached, Row, Owners, Apart
  <2> QED
    BY <2>1, <2>2, <2>3, <2>4, <2>5, <2>6, <2>7, <2>8, <2>9, <2>10 DEF ArchiveInv
<1> QED
  BY <1>1, <1>2 DEF Attach

LEMMA AbandonImportStep ==
  ASSUME ArchiveInv, AbandonImport, UNCHANGED <<zip, archiving>>
  PROVE  ArchiveInv'
<1>1. CASE importing.pc = "staged"
  <2>0. /\ importing' = [pc |-> "idle", meeting |-> Nothing, content |-> Nothing, name |-> 0]
        /\ holder' = "free"
    BY <1>1, NamesFacts DEF ArchiveInv, AbandonImport, Names, ArchiveTypeOK, DocumentTypeOK, Import, ImportEnds, NoImport
  <2>t. importing' \in Import
    BY <2>0, NamesFacts DEF ArchiveInv, ArchiveTypeOK, DocumentTypeOK, Import, Sweep
  <2>1. ArchiveTypeOK'
    BY <1>1, <2>0, <2>t, NamesFacts DEF ArchiveInv, AbandonImport, Names, ArchiveTypeOK, DocumentTypeOK
  <2>2. Apart'
    BY <1>1, <2>0, <2>t, NamesFacts DEF ArchiveInv, AbandonImport, Names, ArchiveTypeOK, DocumentTypeOK, Apart
  <2>3. Unused'
    BY <1>1, <2>0, <2>t, NamesFacts DEF ArchiveInv, AbandonImport, Names, ArchiveTypeOK, DocumentTypeOK, Unused, OnTheWay, Apart
  <2>4. Owned'
    BY <1>1, <2>0, <2>t, NamesFacts DEF ArchiveInv, AbandonImport, Names, ArchiveTypeOK, DocumentTypeOK, Owned, Apart
  <2>5. Held'
    BY <1>1, <2>0, <2>t, NamesFacts DEF ArchiveInv, AbandonImport, Names, ArchiveTypeOK, DocumentTypeOK, Held, OnTheWay, Apart
  <2>6. Copying'
    BY <1>1, <2>0, <2>t, NamesFacts DEF ArchiveInv, AbandonImport, Names, ArchiveTypeOK, DocumentTypeOK, Copying, OnTheWay, Apart
  <2>7. Restoring'
    BY <1>1, <2>0, <2>t, NamesFacts DEF ArchiveInv, AbandonImport, Names, ArchiveTypeOK, DocumentTypeOK, Restoring, Ready1, OnTheWay, InArchive, Locked, Apart
  <2>8. Sweeping'
    BY <1>1, <2>0, <2>t, NamesFacts DEF ArchiveInv, AbandonImport, Names, ArchiveTypeOK, DocumentTypeOK, Sweeping, Orphans, Row, File, Apart
  <2>9. Left'
    BY <1>1, <2>0, <2>t, NamesFacts DEF ArchiveInv, AbandonImport, Names, ArchiveTypeOK, DocumentTypeOK, Left, Orphans, Row, File, Apart, Copying
  <2>10. Brought'
    BY <1>1, <2>0, <2>t, NamesFacts DEF ArchiveInv, AbandonImport, Names, ArchiveTypeOK, DocumentTypeOK, Brought, Unattached, Row, Owners, Apart
  <2> QED
    BY <2>1, <2>2, <2>3, <2>4, <2>5, <2>6, <2>7, <2>8, <2>9, <2>10 DEF ArchiveInv
<1>2. CASE importing.pc = "placed"
  <2>0. /\ importing' = [pc |-> "discard", meeting |-> importing.meeting, content |-> importing.content, name |-> importing.name]
        /\ holder' = holder
    BY <1>2, NamesFacts DEF ArchiveInv, AbandonImport, Names, ArchiveTypeOK, DocumentTypeOK, Import, ImportEnds, NoImport
  <2>t. importing' \in Import
    BY <2>0, NamesFacts DEF ArchiveInv, ArchiveTypeOK, DocumentTypeOK, Import, Sweep
  <2>1. ArchiveTypeOK'
    BY <1>2, <2>0, <2>t, NamesFacts DEF ArchiveInv, AbandonImport, Names, ArchiveTypeOK, DocumentTypeOK
  <2>2. Apart'
    BY <1>2, <2>0, <2>t, NamesFacts DEF ArchiveInv, AbandonImport, Names, ArchiveTypeOK, DocumentTypeOK, Apart
  <2>3. Unused'
    BY <1>2, <2>0, <2>t, NamesFacts DEF ArchiveInv, AbandonImport, Names, ArchiveTypeOK, DocumentTypeOK, Unused, OnTheWay, Apart
  <2>4. Owned'
    BY <1>2, <2>0, <2>t, NamesFacts DEF ArchiveInv, AbandonImport, Names, ArchiveTypeOK, DocumentTypeOK, Owned, Apart
  <2>5. Held'
    BY <1>2, <2>0, <2>t, NamesFacts DEF ArchiveInv, AbandonImport, Names, ArchiveTypeOK, DocumentTypeOK, Held, OnTheWay, Apart
  <2>6. Copying'
    BY <1>2, <2>0, <2>t, NamesFacts DEF ArchiveInv, AbandonImport, Names, ArchiveTypeOK, DocumentTypeOK, Copying, OnTheWay, Apart
  <2>7. Restoring'
    BY <1>2, <2>0, <2>t, NamesFacts DEF ArchiveInv, AbandonImport, Names, ArchiveTypeOK, DocumentTypeOK, Restoring, Ready1, OnTheWay, InArchive, Locked, Apart
  <2>8. Sweeping'
    BY <1>2, <2>0, <2>t, NamesFacts DEF ArchiveInv, AbandonImport, Names, ArchiveTypeOK, DocumentTypeOK, Sweeping, Orphans, Row, File, Apart
  <2>9. Left'
    BY <1>2, <2>0, <2>t, NamesFacts DEF ArchiveInv, AbandonImport, Names, ArchiveTypeOK, DocumentTypeOK, Left, Orphans, Row, File, Apart, Copying
  <2>10. Brought'
    BY <1>2, <2>0, <2>t, NamesFacts DEF ArchiveInv, AbandonImport, Names, ArchiveTypeOK, DocumentTypeOK, Brought, Unattached, Row, Owners, Apart
  <2> QED
    BY <2>1, <2>2, <2>3, <2>4, <2>5, <2>6, <2>7, <2>8, <2>9, <2>10 DEF ArchiveInv
<1> QED
  BY <1>1, <1>2 DEF AbandonImport

LEMMA DiscardCopyStep ==
  ASSUME ArchiveInv, DiscardCopy, UNCHANGED <<zip, archiving>>
  PROVE  ArchiveInv'
<1>1. CASE originals' = Without(originals, {importing.name}) /\ UNCHANGED <<mishaps, ledger>>
  <2>0. /\ importing' = [pc |-> "idle", meeting |-> Nothing, content |-> Nothing, name |-> 0]
        /\ holder' = "free"
    BY <1>1, NamesFacts DEF ArchiveInv, DiscardCopy, Names, Without, ArchiveTypeOK, DocumentTypeOK, Import, ImportEnds, NoImport, Mishap, GivenUp
  <2>t. importing' \in Import
    BY <2>0, NamesFacts DEF ArchiveInv, ArchiveTypeOK, DocumentTypeOK, Import, Sweep
  <2>1. ArchiveTypeOK'
    BY <1>1, <2>0, <2>t, NamesFacts DEF ArchiveInv, DiscardCopy, Names, Without, ArchiveTypeOK, DocumentTypeOK
  <2>2. Apart'
    BY <1>1, <2>0, <2>t, NamesFacts DEF ArchiveInv, DiscardCopy, Names, Without, ArchiveTypeOK, DocumentTypeOK, Apart
  <2>3. Unused'
    BY <1>1, <2>0, <2>t, NamesFacts DEF ArchiveInv, DiscardCopy, Names, Without, ArchiveTypeOK, DocumentTypeOK, Unused, OnTheWay, Apart
  <2>4. Owned'
    BY <1>1, <2>0, <2>t, NamesFacts DEF ArchiveInv, DiscardCopy, Names, Without, ArchiveTypeOK, DocumentTypeOK, Owned, Apart
  <2>5. Held'
    BY <1>1, <2>0, <2>t, NamesFacts DEF ArchiveInv, DiscardCopy, Names, Without, ArchiveTypeOK, DocumentTypeOK, Held, OnTheWay, Apart, Copying
  <2>6. Copying'
    BY <1>1, <2>0, <2>t, NamesFacts DEF ArchiveInv, DiscardCopy, Names, Without, ArchiveTypeOK, DocumentTypeOK, Copying, OnTheWay, Apart
  <2>7. Restoring'
    BY <1>1, <2>0, <2>t, NamesFacts DEF ArchiveInv, DiscardCopy, Names, Without, ArchiveTypeOK, DocumentTypeOK, Restoring, Ready1, OnTheWay, InArchive, Locked, Apart
  <2>8. Sweeping'
    BY <1>1, <2>0, <2>t, NamesFacts DEF ArchiveInv, DiscardCopy, Names, Without, ArchiveTypeOK, DocumentTypeOK, Sweeping, Orphans, Row, File, Apart, Copying
  <2>9. Left'
    BY <1>1, <2>0, <2>t, NamesFacts DEF ArchiveInv, DiscardCopy, Names, Without, ArchiveTypeOK, DocumentTypeOK, Left, Orphans, Row, File, Apart, Copying
  <2>10. Brought'
    BY <1>1, <2>0, <2>t, NamesFacts DEF ArchiveInv, DiscardCopy, Names, Without, ArchiveTypeOK, DocumentTypeOK, Brought, Unattached, Row, Owners, Apart
  <2> QED
    BY <2>1, <2>2, <2>3, <2>4, <2>5, <2>6, <2>7, <2>8, <2>9, <2>10 DEF ArchiveInv
<1>2. CASE Mishap /\ GivenUp({importing.name}) /\ UNCHANGED originals
  <2>0. /\ importing' = [pc |-> "idle", meeting |-> Nothing, content |-> Nothing, name |-> 0]
        /\ holder' = "free"
        /\ importing.name \in Names
      BY <1>2, NamesFacts DEF ArchiveInv, DiscardCopy, Names, Without, ArchiveTypeOK, DocumentTypeOK, Copying, Import, ImportEnds, NoImport, Mishap, GivenUp
  <2>g. After({importing.name})
    BY <1>2, <2>0, GivesUp DEF ArchiveInv, ArchiveTypeOK, DocumentTypeOK
  <2>m. mishaps' \in 0 .. MaxMishaps
    BY <1>2, MishapType DEF ArchiveInv, ArchiveTypeOK, DocumentTypeOK
  <2>t. importing' \in Import
    BY <2>0, NamesFacts DEF ArchiveInv, ArchiveTypeOK, DocumentTypeOK, Import, Sweep
  <2>1. ArchiveTypeOK'
    BY <1>2, <2>0, <2>t, <2>g, <2>m, NamesFacts DEF ArchiveInv, DiscardCopy, Names, Without, ArchiveTypeOK, DocumentTypeOK, After
  <2>2. Apart'
    BY <1>2, <2>0, <2>t, <2>g, <2>m, NamesFacts DEF ArchiveInv, DiscardCopy, Names, Without, ArchiveTypeOK, DocumentTypeOK, Apart
  <2>3. Unused'
    BY <1>2, <2>0, <2>t, <2>g, <2>m, NamesFacts DEF ArchiveInv, DiscardCopy, Names, Without, ArchiveTypeOK, DocumentTypeOK, Unused, OnTheWay, Apart, After
  <2>4. Owned'
    BY <1>2, <2>0, <2>t, <2>g, <2>m, NamesFacts DEF ArchiveInv, DiscardCopy, Names, Without, ArchiveTypeOK, DocumentTypeOK, Owned, Apart, After
  <2>5. Held'
    BY <1>2, <2>0, <2>t, <2>g, <2>m, NamesFacts DEF ArchiveInv, DiscardCopy, Names, Without, ArchiveTypeOK, DocumentTypeOK, Held, OnTheWay, Apart, Copying, After
  <2>6. Copying'
    BY <1>2, <2>0, <2>t, <2>g, <2>m, NamesFacts DEF ArchiveInv, DiscardCopy, Names, Without, ArchiveTypeOK, DocumentTypeOK, Copying, OnTheWay, Apart, After
  <2>7. Restoring'
    BY <1>2, <2>0, <2>t, <2>g, <2>m, NamesFacts DEF ArchiveInv, DiscardCopy, Names, Without, ArchiveTypeOK, DocumentTypeOK, Restoring, Ready1, OnTheWay, InArchive, Locked, Apart, After
  <2>8. Sweeping'
    BY <1>2, <2>0, <2>t, <2>g, <2>m, NamesFacts DEF ArchiveInv, DiscardCopy, Names, Without, ArchiveTypeOK, DocumentTypeOK, Sweeping, Orphans, Row, File, Apart, Copying, After
  <2>9. Left'
    BY <1>2, <2>0, <2>t, <2>g, <2>m, NamesFacts DEF ArchiveInv, DiscardCopy, Names, Without, ArchiveTypeOK, DocumentTypeOK, Left, Orphans, Row, File, Apart, Copying, After
  <2>10. Brought'
    BY <1>2, <2>0, <2>t, <2>g, <2>m, NamesFacts DEF ArchiveInv, DiscardCopy, Names, Without, ArchiveTypeOK, DocumentTypeOK, Brought, Unattached, Row, Owners, Apart, After
  <2> QED
    BY <2>1, <2>2, <2>3, <2>4, <2>5, <2>6, <2>7, <2>8, <2>9, <2>10 DEF ArchiveInv
<1> QED
  BY <1>1, <1>2 DEF DiscardCopy

LEMMA DetachStep ==
  ASSUME NEW m \in Meetings, NEW n \in Names, ArchiveInv, Detach(m, n), ~Locked, UNCHANGED <<zip, archiving>>
  PROVE  ArchiveInv'
<1>1. ArchiveTypeOK'
  BY NamesFacts DEF ArchiveInv, Detach, Names, LastOwner, Owners, Without, ArchiveTypeOK, DocumentTypeOK
<1>2. Apart'
  BY NamesFacts DEF ArchiveInv, Detach, Names, LastOwner, Owners, Without, ArchiveTypeOK, DocumentTypeOK, Apart
<1>3. Unused'
  BY NamesFacts DEF ArchiveInv, Detach, Names, LastOwner, Owners, Without, ArchiveTypeOK, DocumentTypeOK, Unused, OnTheWay, Apart, Owned
<1>4. Owned'
  BY NamesFacts DEF ArchiveInv, Detach, Names, LastOwner, Owners, Without, ArchiveTypeOK, DocumentTypeOK, Owned, Apart
<1>5. Held'
  BY NamesFacts DEF ArchiveInv, Detach, Names, LastOwner, Owners, Without, ArchiveTypeOK, DocumentTypeOK, Held, OnTheWay, Apart
<1>6. Copying'
  BY NamesFacts DEF ArchiveInv, Detach, Names, LastOwner, Owners, Without, ArchiveTypeOK, DocumentTypeOK, Copying, OnTheWay, Apart, Owned
<1>7. Restoring'
  BY NamesFacts DEF ArchiveInv, Detach, Names, LastOwner, Owners, Without, ArchiveTypeOK, DocumentTypeOK, Restoring, Ready1, OnTheWay, InArchive, Locked, Apart
<1>8. Sweeping'
  BY NamesFacts DEF ArchiveInv, Detach, Names, LastOwner, Owners, Without, ArchiveTypeOK, DocumentTypeOK, Sweeping, Orphans, Row, File, Apart, Held, Owned
<1>9. Left'
  BY NamesFacts DEF ArchiveInv, Detach, Names, LastOwner, Owners, Without, ArchiveTypeOK, DocumentTypeOK, Left, Orphans, Row, File, Apart
<1>10. Brought'
  BY NamesFacts DEF ArchiveInv, Detach, Names, LastOwner, Owners, Without, ArchiveTypeOK, DocumentTypeOK, Brought, Unattached, Row, Apart
<1> QED
  BY <1>1, <1>2, <1>3, <1>4, <1>5, <1>6, <1>7, <1>8, <1>9, <1>10 DEF ArchiveInv

LEMMA DeleteDocumentStep ==
  ASSUME NEW m \in Meetings, NEW n \in Names, ArchiveInv, DeleteDocument(m, n), ~Locked, UNCHANGED <<zip, archiving>>
  PROVE  ArchiveInv'
<1>1. ArchiveTypeOK'
  BY NamesFacts DEF ArchiveInv, DeleteDocument, Names, Without, ArchiveTypeOK, DocumentTypeOK
<1>2. Apart'
  BY NamesFacts DEF ArchiveInv, DeleteDocument, Names, Without, ArchiveTypeOK, DocumentTypeOK, Apart
<1>3. Unused'
  BY NamesFacts DEF ArchiveInv, DeleteDocument, Names, Without, ArchiveTypeOK, DocumentTypeOK, Unused, OnTheWay, Apart, Owned
<1>4. Owned'
  BY NamesFacts DEF ArchiveInv, DeleteDocument, Names, Without, ArchiveTypeOK, DocumentTypeOK, Owned, Apart
<1>5. Held'
  BY NamesFacts DEF ArchiveInv, DeleteDocument, Names, Without, ArchiveTypeOK, DocumentTypeOK, Held, OnTheWay, Apart
<1>6. Copying'
  BY NamesFacts DEF ArchiveInv, DeleteDocument, Names, Without, ArchiveTypeOK, DocumentTypeOK, Copying, OnTheWay, Apart, Owned
<1>7. Restoring'
  BY NamesFacts DEF ArchiveInv, DeleteDocument, Names, Without, ArchiveTypeOK, DocumentTypeOK, Restoring, Ready1, OnTheWay, InArchive, Locked, Apart
<1>8. Sweeping'
  BY NamesFacts DEF ArchiveInv, DeleteDocument, Names, Without, ArchiveTypeOK, DocumentTypeOK, Sweeping, Orphans, Row, File, Apart, Held, Owned
<1>9. Left'
  BY NamesFacts DEF ArchiveInv, DeleteDocument, Names, Without, ArchiveTypeOK, DocumentTypeOK, Left, Orphans, Row, File, Apart
<1>10. Brought'
  BY NamesFacts DEF ArchiveInv, DeleteDocument, Names, Without, ArchiveTypeOK, DocumentTypeOK, Brought, Unattached, Row, Owners, Apart
<1> QED
  BY <1>1, <1>2, <1>3, <1>4, <1>5, <1>6, <1>7, <1>8, <1>9, <1>10 DEF ArchiveInv

LEMMA DeleteMeetingStep ==
  ASSUME NEW m \in Meetings, NEW files \in BOOLEAN, ArchiveInv, DeleteMeeting(m, files), ~Locked, UNCHANGED <<zip, archiving>>
  PROVE  ArchiveInv'
<1>1. ArchiveTypeOK'
  BY NamesFacts DEF ArchiveInv, DeleteMeeting, Names, OnlyOf, Owners, Without, ArchiveTypeOK, DocumentTypeOK
<1>2. Apart'
  BY NamesFacts DEF ArchiveInv, DeleteMeeting, Names, OnlyOf, Owners, Without, ArchiveTypeOK, DocumentTypeOK, Apart
<1>3. Unused'
  BY NamesFacts DEF ArchiveInv, DeleteMeeting, Names, OnlyOf, Owners, Without, ArchiveTypeOK, DocumentTypeOK, Unused, OnTheWay, Apart, Owned
<1>4. Owned'
  BY NamesFacts DEF ArchiveInv, DeleteMeeting, Names, OnlyOf, Owners, Without, ArchiveTypeOK, DocumentTypeOK, Owned, Apart
<1>5. Held'
  BY NamesFacts DEF ArchiveInv, DeleteMeeting, Names, OnlyOf, Owners, Without, ArchiveTypeOK, DocumentTypeOK, Held, OnTheWay, Apart
<1>6. Copying'
  BY NamesFacts DEF ArchiveInv, DeleteMeeting, Names, OnlyOf, Owners, Without, ArchiveTypeOK, DocumentTypeOK, Copying, OnTheWay, Apart, Owned
<1>7. Restoring'
  BY NamesFacts DEF ArchiveInv, DeleteMeeting, Names, OnlyOf, Owners, Without, ArchiveTypeOK, DocumentTypeOK, Restoring, Ready1, OnTheWay, InArchive, Locked, Apart
<1>8. Sweeping'
  BY NamesFacts DEF ArchiveInv, DeleteMeeting, Names, OnlyOf, Owners, Without, ArchiveTypeOK, DocumentTypeOK, Sweeping, Orphans, Row, File, Apart, Held, Owned
<1>9. Left'
  BY NamesFacts DEF ArchiveInv, DeleteMeeting, Names, OnlyOf, Owners, Without, ArchiveTypeOK, DocumentTypeOK, Left, Orphans, Row, File, Apart
<1>10. Brought'
  <2>1. Unattached' \subseteq Unattached
    <3> SUFFICES ASSUME NEW n \in Unattached' PROVE n \in Unattached
      OBVIOUS
    <3>1. n \in Names /\ documents'[n] # Nothing /\ Owners(n)' = {}
      BY DEF Unattached, Row, Names
    <3>2. n \notin OnlyOf(m) /\ documents[n] # Nothing
      BY <3>1 DEF DeleteMeeting, Without
    <3>3. Owners(n) \subseteq {m}
      BY <3>1 DEF DeleteMeeting, Owners
    <3>4. Owners(n) = {}
      BY <3>1, <3>2, <3>3 DEF OnlyOf
    <3> QED
      BY <3>1, <3>2, <3>4 DEF Unattached, Row
  <2>2. UNCHANGED ledger
    BY DEF DeleteMeeting
  <2> QED
    BY <2>1, <2>2 DEF ArchiveInv, Brought
<1> QED
  BY <1>1, <1>2, <1>3, <1>4, <1>5, <1>6, <1>7, <1>8, <1>9, <1>10 DEF ArchiveInv

LEMMA RemoveOriginalStep ==
  ASSUME NEW n \in Names, ArchiveInv, RemoveOriginal(n), UNCHANGED <<zip, archiving>>
  PROVE  ArchiveInv'
<1>1. CASE originals' = Without(originals, {n}) /\ UNCHANGED <<mishaps, ledger>>
  <2>1. ArchiveTypeOK'
    BY <1>1, NamesFacts DEF ArchiveInv, RemoveOriginal, Names, Without, ArchiveTypeOK, DocumentTypeOK
  <2>2. Apart'
    BY <1>1, NamesFacts DEF ArchiveInv, RemoveOriginal, Names, Without, ArchiveTypeOK, DocumentTypeOK, Apart
  <2>3. Unused'
    BY <1>1, NamesFacts DEF ArchiveInv, RemoveOriginal, Names, Without, ArchiveTypeOK, DocumentTypeOK, Unused, OnTheWay, Apart
  <2>4. Owned'
    BY <1>1, NamesFacts DEF ArchiveInv, RemoveOriginal, Names, Without, ArchiveTypeOK, DocumentTypeOK, Owned, Apart
  <2>5. Held'
    BY <1>1, NamesFacts DEF ArchiveInv, RemoveOriginal, Names, Without, ArchiveTypeOK, DocumentTypeOK, Held, OnTheWay, Apart
  <2>6. Copying'
    BY <1>1, NamesFacts DEF ArchiveInv, RemoveOriginal, Names, Without, ArchiveTypeOK, DocumentTypeOK, Copying, OnTheWay, Apart
  <2>7. Restoring'
    BY <1>1, RestoringKept DEF ArchiveInv, RemoveOriginal, OnTheWay, Without, After, ArchiveTypeOK, DocumentTypeOK, Sweep
  <2>8. Sweeping'
    BY <1>1, NamesFacts DEF ArchiveInv, RemoveOriginal, Names, Without, ArchiveTypeOK, DocumentTypeOK, Sweeping, Orphans, Row, File, Apart
  <2>9. Left'
    BY <1>1, NamesFacts DEF ArchiveInv, RemoveOriginal, Names, Without, ArchiveTypeOK, DocumentTypeOK, Left, Orphans, Row, File, Apart
  <2>10. Brought'
    BY <1>1, NamesFacts DEF ArchiveInv, RemoveOriginal, Names, Without, ArchiveTypeOK, DocumentTypeOK, Brought, Unattached, Row, Owners, Apart
  <2> QED
    BY <2>1, <2>2, <2>3, <2>4, <2>5, <2>6, <2>7, <2>8, <2>9, <2>10 DEF ArchiveInv
<1>2. CASE Mishap /\ GivenUp({n}) /\ UNCHANGED originals
  <2>g. After({n})
    BY <1>2, GivesUp DEF ArchiveInv, ArchiveTypeOK, DocumentTypeOK
  <2>m. mishaps' \in 0 .. MaxMishaps
    BY <1>2, MishapType DEF ArchiveInv, ArchiveTypeOK, DocumentTypeOK
  <2>1. ArchiveTypeOK'
    BY <1>2, <2>g, <2>m, NamesFacts DEF ArchiveInv, RemoveOriginal, Names, Without, ArchiveTypeOK, DocumentTypeOK, After
  <2>2. Apart'
    BY <1>2, <2>g, <2>m, NamesFacts DEF ArchiveInv, RemoveOriginal, Names, Without, ArchiveTypeOK, DocumentTypeOK, Apart
  <2>3. Unused'
    BY <1>2, <2>g, <2>m, NamesFacts DEF ArchiveInv, RemoveOriginal, Names, Without, ArchiveTypeOK, DocumentTypeOK, Unused, OnTheWay, Apart, After
  <2>4. Owned'
    BY <1>2, <2>g, <2>m, NamesFacts DEF ArchiveInv, RemoveOriginal, Names, Without, ArchiveTypeOK, DocumentTypeOK, Owned, Apart, After
  <2>5. Held'
    BY <1>2, <2>g, <2>m, NamesFacts DEF ArchiveInv, RemoveOriginal, Names, Without, ArchiveTypeOK, DocumentTypeOK, Held, OnTheWay, Apart, After
  <2>6. Copying'
    BY <1>2, <2>g, <2>m, NamesFacts DEF ArchiveInv, RemoveOriginal, Names, Without, ArchiveTypeOK, DocumentTypeOK, Copying, OnTheWay, Apart, After
  <2>7. Restoring'
    BY <1>2, <2>g, <2>m, RestoringKept DEF ArchiveInv, RemoveOriginal, OnTheWay, Without, After, ArchiveTypeOK, DocumentTypeOK, Sweep
  <2>8. Sweeping'
    BY <1>2, <2>g, <2>m, NamesFacts DEF ArchiveInv, RemoveOriginal, Names, Without, ArchiveTypeOK, DocumentTypeOK, Sweeping, Orphans, Row, File, Apart, After
  <2>9. Left'
    BY <1>2, <2>g, <2>m, NamesFacts DEF ArchiveInv, RemoveOriginal, Names, Without, ArchiveTypeOK, DocumentTypeOK, Left, Orphans, Row, File, Apart, After
  <2>10. Brought'
    BY <1>2, <2>g, <2>m, NamesFacts DEF ArchiveInv, RemoveOriginal, Names, Without, ArchiveTypeOK, DocumentTypeOK, Brought, Unattached, Row, Owners, Apart, After
  <2> QED
    BY <2>1, <2>2, <2>3, <2>4, <2>5, <2>6, <2>7, <2>8, <2>9, <2>10 DEF ArchiveInv
<1> QED
  BY <1>1, <1>2 DEF RemoveOriginal

LEMMA SweepRowStep ==
  ASSUME NEW n \in Names, ArchiveInv, SweepRow(n), ~Locked, UNCHANGED <<zip, archiving>>
  PROVE  ArchiveInv'
<1>0. sweep' = [pc |-> "confirm", phase |-> sweep.phase, name |-> n, todo |-> sweep.todo]
  BY NamesFacts DEF ArchiveInv, SweepRow, Names, Quiet, Without, Unattached, Row, Owners, ArchiveTypeOK, DocumentTypeOK, Sweep
<1>t. sweep' \in Sweep
  BY <1>0, NamesFacts DEF ArchiveInv, Names, ArchiveTypeOK, DocumentTypeOK, Sweep
<1>1. ArchiveTypeOK'
  BY <1>0, <1>t, NamesFacts DEF ArchiveInv, SweepRow, Names, Quiet, Without, Unattached, Row, Owners, ArchiveTypeOK, DocumentTypeOK
<1>2. Apart'
  BY <1>0, <1>t, NamesFacts DEF ArchiveInv, SweepRow, Names, Quiet, Without, Unattached, Row, Owners, ArchiveTypeOK, DocumentTypeOK, Apart
<1>3. Unused'
  BY <1>0, <1>t, NamesFacts DEF ArchiveInv, SweepRow, Names, Quiet, Without, Unattached, Row, Owners, ArchiveTypeOK, DocumentTypeOK, Unused, OnTheWay, Apart
<1>4. Owned'
  BY <1>0, <1>t, NamesFacts DEF ArchiveInv, SweepRow, Names, Quiet, Without, Unattached, Row, Owners, ArchiveTypeOK, DocumentTypeOK, Owned, Apart
<1>5. Held'
  BY <1>0, <1>t, NamesFacts DEF ArchiveInv, SweepRow, Names, Quiet, Without, Unattached, Row, Owners, ArchiveTypeOK, DocumentTypeOK, Held, OnTheWay, Apart
<1>6. Copying'
  BY <1>0, <1>t, NamesFacts DEF ArchiveInv, SweepRow, Names, Quiet, Without, Unattached, Row, Owners, ArchiveTypeOK, DocumentTypeOK, Copying, OnTheWay, Apart
<1>7. Restoring'
  BY <1>0, <1>t, NamesFacts DEF ArchiveInv, SweepRow, Names, Quiet, Without, Unattached, Row, Owners, ArchiveTypeOK, DocumentTypeOK, Restoring, Ready1, OnTheWay, InArchive, Locked, Apart
<1>8. Sweeping'
  BY <1>0, <1>t, NamesFacts DEF ArchiveInv, SweepRow, Names, Quiet, Without, Unattached, Row, Owners, ArchiveTypeOK, DocumentTypeOK, Sweeping, Orphans, File, Apart, Held
<1>9. Left'
  BY <1>0, <1>t, NamesFacts DEF ArchiveInv, SweepRow, Names, Quiet, Without, Unattached, Row, Owners, ArchiveTypeOK, DocumentTypeOK, Left, Orphans, File, Apart, Sweeping
<1>10. Brought'
  BY <1>0, <1>t, NamesFacts DEF ArchiveInv, SweepRow, Names, Quiet, Without, Unattached, Row, Owners, ArchiveTypeOK, DocumentTypeOK, Brought, Apart
<1> QED
  BY <1>1, <1>2, <1>3, <1>4, <1>5, <1>6, <1>7, <1>8, <1>9, <1>10 DEF ArchiveInv

LEMMA SweepFilesStep ==
  ASSUME ArchiveInv, SweepFiles, UNCHANGED <<zip, archiving>>
  PROVE  ArchiveInv'
<1>0. sweep' = [pc |-> "next", phase |-> "files", name |-> sweep.name, todo |-> {n \in Names : File(n)}]
  BY NamesFacts DEF ArchiveInv, SweepFiles, Names, Quiet, File, ArchiveTypeOK, DocumentTypeOK, Sweep
<1>t. sweep' \in Sweep
  BY <1>0, NamesFacts DEF ArchiveInv, ArchiveTypeOK, DocumentTypeOK, Import, Sweep
<1>1. ArchiveTypeOK'
  BY <1>0, <1>t, NamesFacts DEF ArchiveInv, SweepFiles, Names, Quiet, File, ArchiveTypeOK, DocumentTypeOK
<1>2. Apart'
  BY <1>0, <1>t, NamesFacts DEF ArchiveInv, SweepFiles, Names, Quiet, File, ArchiveTypeOK, DocumentTypeOK, Apart
<1>3. Unused'
  BY <1>0, <1>t, NamesFacts DEF ArchiveInv, SweepFiles, Names, Quiet, File, ArchiveTypeOK, DocumentTypeOK, Unused, OnTheWay, Apart
<1>4. Owned'
  BY <1>0, <1>t, NamesFacts DEF ArchiveInv, SweepFiles, Names, Quiet, File, ArchiveTypeOK, DocumentTypeOK, Owned, Apart
<1>5. Held'
  BY <1>0, <1>t, NamesFacts DEF ArchiveInv, SweepFiles, Names, Quiet, File, ArchiveTypeOK, DocumentTypeOK, Held, OnTheWay, Apart
<1>6. Copying'
  BY <1>0, <1>t, NamesFacts DEF ArchiveInv, SweepFiles, Names, Quiet, File, ArchiveTypeOK, DocumentTypeOK, Copying, OnTheWay, Apart
<1>7. Restoring'
  BY <1>0, <1>t, NamesFacts DEF ArchiveInv, SweepFiles, Names, Quiet, File, ArchiveTypeOK, DocumentTypeOK, Restoring, Ready1, OnTheWay, InArchive, Locked, Apart
<1>8. Sweeping'
  BY <1>0, <1>t, NamesFacts DEF ArchiveInv, SweepFiles, Names, Quiet, File, ArchiveTypeOK, DocumentTypeOK, Sweeping, Orphans, Row, Apart
<1>9. Left'
  BY <1>0, <1>t, NamesFacts DEF ArchiveInv, SweepFiles, Names, Quiet, File, ArchiveTypeOK, DocumentTypeOK, Left, Orphans, Row, Apart
<1>10. Brought'
  BY <1>0, <1>t, NamesFacts DEF ArchiveInv, SweepFiles, Names, Quiet, File, ArchiveTypeOK, DocumentTypeOK, Brought, Unattached, Row, Owners, Apart
<1> QED
  BY <1>1, <1>2, <1>3, <1>4, <1>5, <1>6, <1>7, <1>8, <1>9, <1>10 DEF ArchiveInv

LEMMA SweepLookStep ==
  ASSUME NEW n \in Names, ArchiveInv, SweepLook(n), UNCHANGED <<zip, archiving>>
  PROVE  ArchiveInv'
<1>1. CASE n \in Orphans \cap old /\ sweep' = [sweep EXCEPT !.todo = @ \ {n}, !.pc = "confirm", !.name = n] /\ UNCHANGED ledger
  <2>0. sweep' = [pc |-> "confirm", phase |-> sweep.phase, name |-> n, todo |-> sweep.todo \ {n}]
    BY <1>1, NamesFacts DEF ArchiveInv, SweepLook, Names, Quiet, Orphans, File, Row, ArchiveTypeOK, DocumentTypeOK, Sweep, GivenUp
  <2>t. sweep' \in Sweep
    BY <2>0, NamesFacts DEF ArchiveInv, Names, ArchiveTypeOK, DocumentTypeOK, Import, Sweep
  <2>1. ArchiveTypeOK'
    BY <1>1, <2>0, <2>t, NamesFacts DEF ArchiveInv, SweepLook, Names, Quiet, Orphans, File, Row, ArchiveTypeOK, DocumentTypeOK
  <2>2. Apart'
    BY <1>1, <2>0, <2>t, NamesFacts DEF ArchiveInv, SweepLook, Names, Quiet, Orphans, File, Row, ArchiveTypeOK, DocumentTypeOK, Apart
  <2>3. Unused'
    BY <1>1, <2>0, <2>t, NamesFacts DEF ArchiveInv, SweepLook, Names, Quiet, Orphans, File, Row, ArchiveTypeOK, DocumentTypeOK, Unused, OnTheWay, Apart
  <2>4. Owned'
    BY <1>1, <2>0, <2>t, NamesFacts DEF ArchiveInv, SweepLook, Names, Quiet, Orphans, File, Row, ArchiveTypeOK, DocumentTypeOK, Owned, Apart
  <2>5. Held'
    BY <1>1, <2>0, <2>t, NamesFacts DEF ArchiveInv, SweepLook, Names, Quiet, Orphans, File, Row, ArchiveTypeOK, DocumentTypeOK, Held, OnTheWay, Apart
  <2>6. Copying'
    BY <1>1, <2>0, <2>t, NamesFacts DEF ArchiveInv, SweepLook, Names, Quiet, Orphans, File, Row, ArchiveTypeOK, DocumentTypeOK, Copying, OnTheWay, Apart
  <2>7. Restoring'
    BY <1>1, <2>0, <2>t, NamesFacts DEF ArchiveInv, SweepLook, Names, Quiet, Orphans, File, Row, ArchiveTypeOK, DocumentTypeOK, Restoring, Ready1, OnTheWay, InArchive, Locked, Apart
  <2>8. Sweeping'
    BY <1>1, <2>0, <2>t, NamesFacts DEF ArchiveInv, SweepLook, Names, Quiet, Orphans, File, Row, ArchiveTypeOK, DocumentTypeOK, Sweeping, Apart
  <2>9. Left'
    BY <1>1, <2>0, <2>t, NamesFacts DEF ArchiveInv, SweepLook, Names, Quiet, Orphans, File, Row, ArchiveTypeOK, DocumentTypeOK, Left, Apart, Sweeping
  <2>10. Brought'
    BY <1>1, <2>0, <2>t, NamesFacts DEF ArchiveInv, SweepLook, Names, Quiet, Orphans, File, Row, ArchiveTypeOK, DocumentTypeOK, Brought, Unattached, Owners, Apart
  <2> QED
    BY <2>1, <2>2, <2>3, <2>4, <2>5, <2>6, <2>7, <2>8, <2>9, <2>10 DEF ArchiveInv
<1>2. CASE sweep' = [sweep EXCEPT !.todo = @ \ {n}] /\ n \in Orphans \cap old /\ GivenUp({n})
  <2>0. sweep' = [pc |-> "next", phase |-> sweep.phase, name |-> sweep.name, todo |-> sweep.todo \ {n}]
     BY <1>2, NamesFacts DEF ArchiveInv, SweepLook, Names, Quiet, Orphans, File, Row, ArchiveTypeOK, DocumentTypeOK, Sweep, GivenUp
  <2>g. After({n})
    BY <1>2, GivesUp DEF ArchiveInv, ArchiveTypeOK, DocumentTypeOK
  <2>t. sweep' \in Sweep
    BY <2>0, NamesFacts DEF ArchiveInv, ArchiveTypeOK, DocumentTypeOK, Import, Sweep
  <2>1. ArchiveTypeOK'
    BY <1>2, <2>0, <2>t, <2>g, NamesFacts DEF ArchiveInv, SweepLook, Names, Quiet, Orphans, File, Row, ArchiveTypeOK, DocumentTypeOK, After
  <2>2. Apart'
    BY <1>2, <2>0, <2>t, <2>g, NamesFacts DEF ArchiveInv, SweepLook, Names, Quiet, Orphans, File, Row, ArchiveTypeOK, DocumentTypeOK, Apart
  <2>3. Unused'
    BY <1>2, <2>0, <2>t, <2>g, NamesFacts DEF ArchiveInv, SweepLook, Names, Quiet, Orphans, File, Row, ArchiveTypeOK, DocumentTypeOK, Unused, OnTheWay, Apart, After
  <2>4. Owned'
    BY <1>2, <2>0, <2>t, <2>g, NamesFacts DEF ArchiveInv, SweepLook, Names, Quiet, Orphans, File, Row, ArchiveTypeOK, DocumentTypeOK, Owned, Apart, After
  <2>5. Held'
    BY <1>2, <2>0, <2>t, <2>g, NamesFacts DEF ArchiveInv, SweepLook, Names, Quiet, Orphans, File, Row, ArchiveTypeOK, DocumentTypeOK, Held, OnTheWay, Apart, After
  <2>6. Copying'
    BY <1>2, <2>0, <2>t, <2>g, NamesFacts DEF ArchiveInv, SweepLook, Names, Quiet, Orphans, File, Row, ArchiveTypeOK, DocumentTypeOK, Copying, OnTheWay, Apart, After
  <2>7. Restoring'
    BY <1>2, <2>0, <2>t, <2>g, NamesFacts DEF ArchiveInv, SweepLook, Names, Quiet, Orphans, File, Row, ArchiveTypeOK, DocumentTypeOK, Restoring, Ready1, OnTheWay, InArchive, Locked, Apart, After
  <2>8. Sweeping'
    BY <1>2, <2>0, <2>t, <2>g, NamesFacts DEF ArchiveInv, SweepLook, Names, Quiet, Orphans, File, Row, ArchiveTypeOK, DocumentTypeOK, Sweeping, Apart, After
  <2>9. Left'
    BY <1>2, <2>0, <2>t, <2>g, NamesFacts DEF ArchiveInv, SweepLook, Names, Quiet, Orphans, File, Row, ArchiveTypeOK, DocumentTypeOK, Left, Apart, Sweeping, After
  <2>10. Brought'
    BY <1>2, <2>0, <2>t, <2>g, NamesFacts DEF ArchiveInv, SweepLook, Names, Quiet, Orphans, File, Row, ArchiveTypeOK, DocumentTypeOK, Brought, Unattached, Owners, Apart, After
  <2> QED
    BY <2>1, <2>2, <2>3, <2>4, <2>5, <2>6, <2>7, <2>8, <2>9, <2>10 DEF ArchiveInv
<1>3. CASE sweep' = [sweep EXCEPT !.todo = @ \ {n}] /\ n \notin Orphans \cap old /\ UNCHANGED ledger
  <2>0. sweep' = [pc |-> "next", phase |-> sweep.phase, name |-> sweep.name, todo |-> sweep.todo \ {n}]
    BY <1>3, NamesFacts DEF ArchiveInv, SweepLook, Names, Quiet, Orphans, File, Row, ArchiveTypeOK, DocumentTypeOK, Sweep, GivenUp
  <2>t. sweep' \in Sweep
    BY <2>0, NamesFacts DEF ArchiveInv, ArchiveTypeOK, DocumentTypeOK, Import, Sweep
  <2>1. ArchiveTypeOK'
    BY <1>3, <2>0, <2>t, NamesFacts DEF ArchiveInv, SweepLook, Names, Quiet, Orphans, File, Row, ArchiveTypeOK, DocumentTypeOK
  <2>2. Apart'
    BY <1>3, <2>0, <2>t, NamesFacts DEF ArchiveInv, SweepLook, Names, Quiet, Orphans, File, Row, ArchiveTypeOK, DocumentTypeOK, Apart
  <2>3. Unused'
    BY <1>3, <2>0, <2>t, NamesFacts DEF ArchiveInv, SweepLook, Names, Quiet, Orphans, File, Row, ArchiveTypeOK, DocumentTypeOK, Unused, OnTheWay, Apart
  <2>4. Owned'
    BY <1>3, <2>0, <2>t, NamesFacts DEF ArchiveInv, SweepLook, Names, Quiet, Orphans, File, Row, ArchiveTypeOK, DocumentTypeOK, Owned, Apart
  <2>5. Held'
    BY <1>3, <2>0, <2>t, NamesFacts DEF ArchiveInv, SweepLook, Names, Quiet, Orphans, File, Row, ArchiveTypeOK, DocumentTypeOK, Held, OnTheWay, Apart
  <2>6. Copying'
    BY <1>3, <2>0, <2>t, NamesFacts DEF ArchiveInv, SweepLook, Names, Quiet, Orphans, File, Row, ArchiveTypeOK, DocumentTypeOK, Copying, OnTheWay, Apart
  <2>7. Restoring'
    BY <1>3, <2>0, <2>t, NamesFacts DEF ArchiveInv, SweepLook, Names, Quiet, Orphans, File, Row, ArchiveTypeOK, DocumentTypeOK, Restoring, Ready1, OnTheWay, InArchive, Locked, Apart
  <2>8. Sweeping'
    BY <1>3, <2>0, <2>t, NamesFacts DEF ArchiveInv, SweepLook, Names, Quiet, Orphans, File, Row, ArchiveTypeOK, DocumentTypeOK, Sweeping, Apart
  <2>9. Left'
    BY <1>3, <2>0, <2>t, NamesFacts DEF ArchiveInv, SweepLook, Names, Quiet, Orphans, File, Row, ArchiveTypeOK, DocumentTypeOK, Left, Apart, Sweeping
  <2>10. Brought'
    BY <1>3, <2>0, <2>t, NamesFacts DEF ArchiveInv, SweepLook, Names, Quiet, Orphans, File, Row, ArchiveTypeOK, DocumentTypeOK, Brought, Unattached, Owners, Apart
  <2> QED
    BY <2>1, <2>2, <2>3, <2>4, <2>5, <2>6, <2>7, <2>8, <2>9, <2>10 DEF ArchiveInv
<1> QED
  BY <1>1, <1>2, <1>3 DEF SweepLook

LEMMA SweepConfirmStep ==
  ASSUME ArchiveInv, SweepConfirm, UNCHANGED <<zip, archiving>>
  PROVE  ArchiveInv'
<1>1. CASE Quiet /\ sweep' = [sweep EXCEPT !.pc = "unlink"] /\ UNCHANGED ledger
  <2>0. sweep' = [pc |-> "unlink", phase |-> sweep.phase, name |-> sweep.name, todo |-> sweep.todo]
    BY <1>1, NamesFacts DEF ArchiveInv, SweepConfirm, Names, Quiet, ArchiveTypeOK, DocumentTypeOK, Sweep, GivenUp
  <2>t. sweep' \in Sweep
    BY <2>0, NamesFacts DEF ArchiveInv, ArchiveTypeOK, DocumentTypeOK, Import, Sweep
  <2>1. ArchiveTypeOK'
    BY <1>1, <2>0, <2>t, NamesFacts DEF ArchiveInv, SweepConfirm, Names, Quiet, ArchiveTypeOK, DocumentTypeOK
  <2>2. Apart'
    BY <1>1, <2>0, <2>t, NamesFacts DEF ArchiveInv, SweepConfirm, Names, Quiet, ArchiveTypeOK, DocumentTypeOK, Apart
  <2>3. Unused'
    BY <1>1, <2>0, <2>t, NamesFacts DEF ArchiveInv, SweepConfirm, Names, Quiet, ArchiveTypeOK, DocumentTypeOK, Unused, OnTheWay, Apart
  <2>4. Owned'
    BY <1>1, <2>0, <2>t, NamesFacts DEF ArchiveInv, SweepConfirm, Names, Quiet, ArchiveTypeOK, DocumentTypeOK, Owned, Apart
  <2>5. Held'
    BY <1>1, <2>0, <2>t, NamesFacts DEF ArchiveInv, SweepConfirm, Names, Quiet, ArchiveTypeOK, DocumentTypeOK, Held, OnTheWay, Apart
  <2>6. Copying'
    BY <1>1, <2>0, <2>t, NamesFacts DEF ArchiveInv, SweepConfirm, Names, Quiet, ArchiveTypeOK, DocumentTypeOK, Copying, OnTheWay, Apart
  <2>7. Restoring'
    BY <1>1, <2>0, <2>t, NamesFacts DEF ArchiveInv, SweepConfirm, Names, Quiet, ArchiveTypeOK, DocumentTypeOK, Restoring, Ready1, OnTheWay, InArchive, Locked, Apart
  <2>8. Sweeping'
    BY <1>1, <2>0, <2>t, NamesFacts DEF ArchiveInv, SweepConfirm, Names, Quiet, ArchiveTypeOK, DocumentTypeOK, Sweeping, Orphans, Row, File, Apart
  <2>9. Left'
    BY <1>1, <2>0, <2>t, NamesFacts DEF ArchiveInv, SweepConfirm, Names, Quiet, ArchiveTypeOK, DocumentTypeOK, Left, Orphans, Row, File, Apart, Sweeping
  <2>10. Brought'
    BY <1>1, <2>0, <2>t, NamesFacts DEF ArchiveInv, SweepConfirm, Names, Quiet, ArchiveTypeOK, DocumentTypeOK, Brought, Unattached, Row, Owners, Apart
  <2> QED
    BY <2>1, <2>2, <2>3, <2>4, <2>5, <2>6, <2>7, <2>8, <2>9, <2>10 DEF ArchiveInv
<1>2. CASE GivenUp({sweep.name}) /\ sweep' = [sweep EXCEPT !.pc = IF sweep.phase = "rows" THEN "stopped" ELSE "next", !.name = 0]
  <2>0. sweep' = [pc |-> IF sweep.phase = "rows" THEN "stopped" ELSE "next", phase |-> sweep.phase, name |-> 0, todo |-> sweep.todo]
     BY <1>2, NamesFacts DEF ArchiveInv, SweepConfirm, Names, Quiet, ArchiveTypeOK, DocumentTypeOK, Sweep, Sweeping, GivenUp
  <2>n. sweep.name \in Names
    BY NamesFacts DEF ArchiveInv, SweepConfirm, ArchiveTypeOK, DocumentTypeOK, Sweep, Sweeping
  <2>g. After({sweep.name})
    BY <1>2, <2>n, GivesUp DEF ArchiveInv, ArchiveTypeOK, DocumentTypeOK
  <2>t. sweep' \in Sweep
    BY <2>0, NamesFacts DEF ArchiveInv, ArchiveTypeOK, DocumentTypeOK, Import, Sweep
  <2>1. ArchiveTypeOK'
    BY <1>2, <2>0, <2>t, <2>g, NamesFacts DEF ArchiveInv, SweepConfirm, Names, Quiet, ArchiveTypeOK, DocumentTypeOK, After
  <2>2. Apart'
    BY <1>2, <2>0, <2>t, <2>g, NamesFacts DEF ArchiveInv, SweepConfirm, Names, Quiet, ArchiveTypeOK, DocumentTypeOK, Apart
  <2>3. Unused'
    BY <1>2, <2>0, <2>t, <2>g, NamesFacts DEF ArchiveInv, SweepConfirm, Names, Quiet, ArchiveTypeOK, DocumentTypeOK, Unused, OnTheWay, Apart, After
  <2>4. Owned'
    BY <1>2, <2>0, <2>t, <2>g, NamesFacts DEF ArchiveInv, SweepConfirm, Names, Quiet, ArchiveTypeOK, DocumentTypeOK, Owned, Apart, After
  <2>5. Held'
    BY <1>2, <2>0, <2>t, <2>g, NamesFacts DEF ArchiveInv, SweepConfirm, Names, Quiet, ArchiveTypeOK, DocumentTypeOK, Held, OnTheWay, Apart, After
  <2>6. Copying'
    BY <1>2, <2>0, <2>t, <2>g, NamesFacts DEF ArchiveInv, SweepConfirm, Names, Quiet, ArchiveTypeOK, DocumentTypeOK, Copying, OnTheWay, Apart, After
  <2>7. Restoring'
    BY <1>2, <2>0, <2>t, <2>g, NamesFacts DEF ArchiveInv, SweepConfirm, Names, Quiet, ArchiveTypeOK, DocumentTypeOK, Restoring, Ready1, OnTheWay, InArchive, Locked, Apart, After
  <2>8. Sweeping'
    BY <1>2, <2>0, <2>t, <2>g, NamesFacts DEF ArchiveInv, SweepConfirm, Names, Quiet, ArchiveTypeOK, DocumentTypeOK, Sweeping, Orphans, Row, File, Apart, After
  <2>9. Left'
    BY <1>2, <2>0, <2>t, <2>g, NamesFacts DEF ArchiveInv, SweepConfirm, Names, Quiet, ArchiveTypeOK, DocumentTypeOK, Left, Orphans, Row, File, Apart, Sweeping, After
  <2>10. Brought'
    BY <1>2, <2>0, <2>t, <2>g, NamesFacts DEF ArchiveInv, SweepConfirm, Names, Quiet, ArchiveTypeOK, DocumentTypeOK, Brought, Unattached, Row, Owners, Apart, After
  <2> QED
    BY <2>1, <2>2, <2>3, <2>4, <2>5, <2>6, <2>7, <2>8, <2>9, <2>10 DEF ArchiveInv
<1> QED
  BY <1>1, <1>2 DEF SweepConfirm

LEMMA SweepUnlinkStep ==
  ASSUME ArchiveInv, SweepUnlink, UNCHANGED <<zip, archiving>>
  PROVE  ArchiveInv'
<1>1. CASE originals' = Without(originals, {sweep.name}) /\ UNCHANGED <<mishaps, ledger>>
  <2>0. sweep' = [pc |-> "next", phase |-> sweep.phase, name |-> 0, todo |-> sweep.todo]
    BY <1>1, NamesFacts DEF ArchiveInv, SweepUnlink, Names, Without, ArchiveTypeOK, DocumentTypeOK, Sweep, Mishap, GivenUp
  <2>t. sweep' \in Sweep
    BY <2>0, NamesFacts DEF ArchiveInv, ArchiveTypeOK, DocumentTypeOK, Import, Sweep
  <2>1. ArchiveTypeOK'
    BY <1>1, <2>0, <2>t, NamesFacts DEF ArchiveInv, SweepUnlink, Names, Without, ArchiveTypeOK, DocumentTypeOK
  <2>2. Apart'
    BY <1>1, <2>0, <2>t, NamesFacts DEF ArchiveInv, SweepUnlink, Names, Without, ArchiveTypeOK, DocumentTypeOK, Apart
  <2>3. Unused'
    BY <1>1, <2>0, <2>t, NamesFacts DEF ArchiveInv, SweepUnlink, Names, Without, ArchiveTypeOK, DocumentTypeOK, Unused, OnTheWay, Apart
  <2>4. Owned'
    BY <1>1, <2>0, <2>t, NamesFacts DEF ArchiveInv, SweepUnlink, Names, Without, ArchiveTypeOK, DocumentTypeOK, Owned, Apart
  <2>5. Held'
    BY <1>1, <2>0, <2>t, NamesFacts DEF ArchiveInv, SweepUnlink, Names, Without, ArchiveTypeOK, DocumentTypeOK, Held, OnTheWay, Apart
  <2>6. Copying'
    BY <1>1, <2>0, <2>t, NamesFacts DEF ArchiveInv, SweepUnlink, Names, Without, ArchiveTypeOK, DocumentTypeOK, Copying, OnTheWay, Apart
  <2>7. Restoring'
    BY <1>1, <2>0, <2>t, RestoringKept DEF ArchiveInv, SweepUnlink, OnTheWay, Without, After, ArchiveTypeOK, DocumentTypeOK, Sweep
  <2>8. Sweeping'
    BY <1>1, <2>0, <2>t, NamesFacts DEF ArchiveInv, SweepUnlink, Names, Without, ArchiveTypeOK, DocumentTypeOK, Sweeping, Orphans, Row, File, Apart, OnTheWay
  <2>9. Left'
    BY <1>1, <2>0, <2>t, NamesFacts DEF ArchiveInv, SweepUnlink, Names, Without, ArchiveTypeOK, DocumentTypeOK, Left, Orphans, Row, File, Apart, Sweeping
  <2>10. Brought'
    BY <1>1, <2>0, <2>t, NamesFacts DEF ArchiveInv, SweepUnlink, Names, Without, ArchiveTypeOK, DocumentTypeOK, Brought, Unattached, Row, Owners, Apart
  <2> QED
    BY <2>1, <2>2, <2>3, <2>4, <2>5, <2>6, <2>7, <2>8, <2>9, <2>10 DEF ArchiveInv
<1>2. CASE Mishap /\ GivenUp({sweep.name}) /\ UNCHANGED originals
  <2>0. sweep' = [pc |-> "next", phase |-> sweep.phase, name |-> 0, todo |-> sweep.todo]
     BY <1>2, NamesFacts DEF ArchiveInv, SweepUnlink, Names, Without, ArchiveTypeOK, DocumentTypeOK, Sweep, Sweeping, Mishap, GivenUp
  <2>n. sweep.name \in Names
    BY NamesFacts DEF ArchiveInv, SweepUnlink, ArchiveTypeOK, DocumentTypeOK, Sweep, Sweeping
  <2>g. After({sweep.name})
    BY <1>2, <2>n, GivesUp DEF ArchiveInv, ArchiveTypeOK, DocumentTypeOK
  <2>m. mishaps' \in 0 .. MaxMishaps
    BY <1>2, MishapType DEF ArchiveInv, ArchiveTypeOK, DocumentTypeOK
  <2>t. sweep' \in Sweep
    BY <2>0, NamesFacts DEF ArchiveInv, ArchiveTypeOK, DocumentTypeOK, Import, Sweep
  <2>1. ArchiveTypeOK'
    BY <1>2, <2>0, <2>t, <2>g, <2>m, NamesFacts DEF ArchiveInv, SweepUnlink, Names, Without, ArchiveTypeOK, DocumentTypeOK, After
  <2>2. Apart'
    BY <1>2, <2>0, <2>t, <2>g, <2>m, NamesFacts DEF ArchiveInv, SweepUnlink, Names, Without, ArchiveTypeOK, DocumentTypeOK, Apart
  <2>3. Unused'
    BY <1>2, <2>0, <2>t, <2>g, <2>m, NamesFacts DEF ArchiveInv, SweepUnlink, Names, Without, ArchiveTypeOK, DocumentTypeOK, Unused, OnTheWay, Apart, After
  <2>4. Owned'
    BY <1>2, <2>0, <2>t, <2>g, <2>m, NamesFacts DEF ArchiveInv, SweepUnlink, Names, Without, ArchiveTypeOK, DocumentTypeOK, Owned, Apart, After
  <2>5. Held'
    BY <1>2, <2>0, <2>t, <2>g, <2>m, NamesFacts DEF ArchiveInv, SweepUnlink, Names, Without, ArchiveTypeOK, DocumentTypeOK, Held, OnTheWay, Apart, After
  <2>6. Copying'
    BY <1>2, <2>0, <2>t, <2>g, <2>m, NamesFacts DEF ArchiveInv, SweepUnlink, Names, Without, ArchiveTypeOK, DocumentTypeOK, Copying, OnTheWay, Apart, After
  <2>7. Restoring'
    BY <1>2, <2>0, <2>t, <2>g, <2>m, RestoringKept DEF ArchiveInv, SweepUnlink, OnTheWay, Without, After, ArchiveTypeOK, DocumentTypeOK, Sweep
  <2>8. Sweeping'
    BY <1>2, <2>0, <2>t, <2>g, <2>m, NamesFacts DEF ArchiveInv, SweepUnlink, Names, Without, ArchiveTypeOK, DocumentTypeOK, Sweeping, Orphans, Row, File, Apart, OnTheWay, After
  <2>9. Left'
    BY <1>2, <2>0, <2>t, <2>g, <2>m, NamesFacts DEF ArchiveInv, SweepUnlink, Names, Without, ArchiveTypeOK, DocumentTypeOK, Left, Orphans, Row, File, Apart, Sweeping, After
  <2>10. Brought'
    BY <1>2, <2>0, <2>t, <2>g, <2>m, NamesFacts DEF ArchiveInv, SweepUnlink, Names, Without, ArchiveTypeOK, DocumentTypeOK, Brought, Unattached, Row, Owners, Apart, After
  <2> QED
    BY <2>1, <2>2, <2>3, <2>4, <2>5, <2>6, <2>7, <2>8, <2>9, <2>10 DEF ArchiveInv
<1> QED
  BY <1>1, <1>2 DEF SweepUnlink

LEMMA SweepEndsStep ==
  ASSUME NEW pc \in {"through", "stopped"}, ArchiveInv, SweepEnds(pc), UNCHANGED <<zip, archiving>>
  PROVE  ArchiveInv'
<1>t. sweep' \in Sweep
  BY DEF ArchiveInv, SweepEnds, ArchiveTypeOK, DocumentTypeOK, Sweep
<1>1. ArchiveTypeOK'
  BY <1>t DEF ArchiveInv, SweepEnds, ArchiveTypeOK, DocumentTypeOK
<1>2. Apart'
  BY NamesFacts DEF ArchiveInv, SweepEnds, Names, Quiet, ArchiveTypeOK, DocumentTypeOK, Apart
<1>3. Unused'
  BY NamesFacts DEF ArchiveInv, SweepEnds, Names, Quiet, ArchiveTypeOK, DocumentTypeOK, Unused, OnTheWay, Apart
<1>4. Owned'
  BY NamesFacts DEF ArchiveInv, SweepEnds, Names, Quiet, ArchiveTypeOK, DocumentTypeOK, Owned, Apart
<1>5. Held'
  BY NamesFacts DEF ArchiveInv, SweepEnds, Names, Quiet, ArchiveTypeOK, DocumentTypeOK, Held, OnTheWay, Apart
<1>6. Copying'
  BY NamesFacts DEF ArchiveInv, SweepEnds, Names, Quiet, ArchiveTypeOK, DocumentTypeOK, Copying, OnTheWay, Apart
<1>7. Restoring'
  BY NamesFacts DEF ArchiveInv, SweepEnds, Names, Quiet, ArchiveTypeOK, DocumentTypeOK, Restoring, Ready1, OnTheWay, InArchive, Locked, Apart
<1>8. Sweeping'
  BY NamesFacts DEF ArchiveInv, SweepEnds, Names, Quiet, ArchiveTypeOK, DocumentTypeOK, Sweeping, Orphans, Row, File, Apart
<1>9. Left'
  BY NamesFacts DEF ArchiveInv, SweepEnds, Names, Quiet, ArchiveTypeOK, DocumentTypeOK, Left, Orphans, Row, File, Apart
<1>10. Brought'
  BY NamesFacts DEF ArchiveInv, SweepEnds, Names, Quiet, ArchiveTypeOK, DocumentTypeOK, Brought, Unattached, Row, Owners, Apart
<1> QED
  BY <1>1, <1>2, <1>3, <1>4, <1>5, <1>6, <1>7, <1>8, <1>9, <1>10 DEF ArchiveInv

LEMMA DocumentRestartStep ==
  ASSUME ArchiveInv, ArchiveRestart
  PROVE  ArchiveInv'
<1>0. /\ importing' = [pc |-> "idle", meeting |-> Nothing, content |-> Nothing, name |-> 0]
      /\ sweep' = [pc |-> "next", phase |-> "rows", name |-> 0, todo |-> Unattached]
      /\ holder' = "free"
      /\ old' \subseteq Names
      /\ ledger' \in Ledger /\ ledger'.left = Orphans /\ ledger'.owed = Orphans \cap old'
      /\ ledger'.brought = ledger.brought /\ ledger'.reused = ledger.reused
      /\ archiving'.pc = "idle" /\ archiving' \in ArchiveWork /\ archiving'.placed = {} /\ archiving'.created = {}
      /\ archiving'.copy.attached = {} /\ \A n \in Names : archiving'.copy.documents[n] = Nothing
      /\ mishaps' \in 0 .. MaxMishaps
  BY MishapType, NamesFacts DEF ArchiveInv, ArchiveRestart, Names, DocumentRestart, Unattached, Orphans, Row, File, Owners, ArchiveTypeOK, DocumentTypeOK, Ledger, ArchiveWork, Archive, Sweep, Import, Mishap, NewSweep, NoImport, NoWork, NoArchive
<1>t. sweep' \in Sweep /\ importing' \in Import
  BY <1>0, NamesFacts DEF ArchiveInv, Unattached, Row, Names, ArchiveTypeOK, DocumentTypeOK, Import, Sweep
<1>1. ArchiveTypeOK'
  BY <1>0, <1>t DEF ArchiveInv, ArchiveRestart, DocumentRestart, ArchiveTypeOK, DocumentTypeOK
<1>2. Apart'
  BY <1>0, <1>t, NamesFacts DEF ArchiveInv, ArchiveRestart, Names, DocumentRestart, Unattached, Orphans, Row, File, Owners, ArchiveTypeOK, DocumentTypeOK, Apart
<1>3. Unused'
  BY <1>0, <1>t, NamesFacts DEF ArchiveInv, ArchiveRestart, Names, DocumentRestart, Unattached, Orphans, Row, File, Owners, ArchiveTypeOK, DocumentTypeOK, Unused, OnTheWay, Apart
<1>4. Owned'
  BY <1>0, <1>t, NamesFacts DEF ArchiveInv, ArchiveRestart, Names, DocumentRestart, Unattached, Orphans, Row, File, Owners, ArchiveTypeOK, DocumentTypeOK, Owned, Apart
<1>5. Held'
  BY <1>0, <1>t, NamesFacts DEF ArchiveInv, ArchiveRestart, Names, DocumentRestart, Unattached, Orphans, Row, File, Owners, ArchiveTypeOK, DocumentTypeOK, Held, OnTheWay, Apart
<1>6. Copying'
  BY <1>0, <1>t, NamesFacts DEF ArchiveInv, ArchiveRestart, Names, DocumentRestart, Unattached, Orphans, Row, File, Owners, ArchiveTypeOK, DocumentTypeOK, Copying, OnTheWay, Apart
<1>7. Restoring'
  BY <1>0, <1>t, NamesFacts DEF ArchiveInv, ArchiveRestart, Names, DocumentRestart, Unattached, Orphans, Row, File, Owners, ArchiveTypeOK, DocumentTypeOK, Restoring, Ready1, OnTheWay, InArchive, Locked, Apart
<1>8. Sweeping'
  BY <1>0, <1>t, NamesFacts DEF ArchiveInv, ArchiveRestart, Names, DocumentRestart, Unattached, Orphans, Row, File, Owners, ArchiveTypeOK, DocumentTypeOK, Sweeping, Apart
<1>9. Left'
  BY <1>0, <1>t, NamesFacts DEF ArchiveInv, ArchiveRestart, Names, DocumentRestart, Unattached, Orphans, Row, File, Owners, ArchiveTypeOK, DocumentTypeOK, Left, Apart
<1>10. Brought'
  BY <1>0, <1>t, NamesFacts DEF ArchiveInv, ArchiveRestart, Names, DocumentRestart, Unattached, Orphans, Row, File, Owners, ArchiveTypeOK, DocumentTypeOK, Brought, Apart
<1> QED
  BY <1>1, <1>2, <1>3, <1>4, <1>5, <1>6, <1>7, <1>8, <1>9, <1>10 DEF ArchiveInv

LEMMA SnapshotStep ==
  ASSUME ArchiveInv, Snapshot
  PROVE  ArchiveInv'
<1>0. /\ archiving'.pc = "copy" /\ archiving' \in ArchiveWork /\ archiving'.placed = {} /\ archiving'.created = {}
      /\ archiving'.copy.attached = attached /\ archiving'.copy.documents = Without(documents, Unattached)
      /\ holder' = "archive"
  BY NamesFacts DEF ArchiveInv, Snapshot, Names, Without, Unattached, Row, Owners, ArchiveTypeOK, DocumentTypeOK, ArchiveWork, Archive, Begins, NoWork, NoArchive
<1>1. ArchiveTypeOK'
  BY <1>0, NamesFacts DEF ArchiveInv, Snapshot, Names, Without, Unattached, Row, Owners, ArchiveTypeOK, DocumentTypeOK
<1>2. Apart'
  BY <1>0, NamesFacts DEF ArchiveInv, Snapshot, Names, Without, Unattached, Row, Owners, ArchiveTypeOK, DocumentTypeOK, Apart, Begins
<1>3. Unused'
  BY <1>0, NamesFacts DEF ArchiveInv, Snapshot, Names, Without, Unattached, Row, Owners, ArchiveTypeOK, DocumentTypeOK, Unused, OnTheWay, Apart
<1>4. Owned'
  BY <1>0, NamesFacts DEF ArchiveInv, Snapshot, Names, Without, Unattached, Row, Owners, ArchiveTypeOK, DocumentTypeOK, Owned, Apart
<1>5. Held'
  BY <1>0, NamesFacts DEF ArchiveInv, Snapshot, Names, Without, Unattached, Row, Owners, ArchiveTypeOK, DocumentTypeOK, Held, OnTheWay, Apart
<1>6. Copying'
  BY <1>0, NamesFacts DEF ArchiveInv, Snapshot, Names, Without, Unattached, Row, Owners, ArchiveTypeOK, DocumentTypeOK, Copying, OnTheWay, Apart
<1>7. Restoring'
  BY <1>0, NamesFacts DEF ArchiveInv, Snapshot, Names, Without, Unattached, Row, Owners, ArchiveTypeOK, DocumentTypeOK, Restoring, Ready1, OnTheWay, InArchive, Locked, Apart
<1>8. Sweeping'
  BY <1>0, NamesFacts DEF ArchiveInv, Snapshot, Names, Without, Unattached, Row, Owners, ArchiveTypeOK, DocumentTypeOK, Sweeping, Orphans, File, Apart
<1>9. Left'
  BY <1>0, NamesFacts DEF ArchiveInv, Snapshot, Names, Without, Unattached, Row, Owners, ArchiveTypeOK, DocumentTypeOK, Left, Orphans, File, Apart, Restoring, Begins
<1>10. Brought'
  BY <1>0, NamesFacts DEF ArchiveInv, Snapshot, Names, Without, Unattached, Row, Owners, ArchiveTypeOK, DocumentTypeOK, Brought, Apart
<1> QED
  BY <1>1, <1>2, <1>3, <1>4, <1>5, <1>6, <1>7, <1>8, <1>9, <1>10 DEF ArchiveInv

LEMMA WriteArchiveStep ==
  ASSUME ArchiveInv, WriteArchive
  PROVE  ArchiveInv'
<1>0. /\ zip' \in Archive /\ zip'.attached = archiving.copy.attached /\ zip'.documents = archiving.copy.documents
      /\ archiving'.pc = "idle" /\ archiving' \in ArchiveWork /\ archiving'.placed = {} /\ archiving'.created = {}
      /\ archiving'.copy.attached = {} /\ \A n \in Names : archiving'.copy.documents[n] = Nothing
      /\ holder' = "free"
  BY NamesFacts DEF ArchiveInv, WriteArchive, Names, Readable, ArchiveTypeOK, DocumentTypeOK, ArchiveWork, Archive, WorkEnds, NoWork, NoArchive
<1>1. ArchiveTypeOK'
  BY <1>0 DEF ArchiveInv, WriteArchive, ArchiveTypeOK, DocumentTypeOK
<1>2. Apart'
  <2>1. archiving.pc # "idle" /\ importing' = importing
    BY DEF WriteArchive
  <2> QED
    BY <1>0, <2>1 DEF ArchiveInv, Apart
<1>3. Unused'
  BY <1>0, NamesFacts DEF ArchiveInv, WriteArchive, Names, Readable, ArchiveTypeOK, DocumentTypeOK, Unused, OnTheWay, Apart
<1>4. Owned'
  BY <1>0, NamesFacts DEF ArchiveInv, WriteArchive, Names, Readable, ArchiveTypeOK, DocumentTypeOK, Owned, Apart
<1>5. Held'
  BY <1>0, NamesFacts DEF ArchiveInv, WriteArchive, Names, Readable, ArchiveTypeOK, DocumentTypeOK, Held, OnTheWay, Apart
<1>6. Copying'
  BY <1>0, NamesFacts DEF ArchiveInv, WriteArchive, Names, Readable, ArchiveTypeOK, DocumentTypeOK, Copying, OnTheWay, Apart
<1>7. Restoring'
  BY <1>0, NamesFacts DEF ArchiveInv, WriteArchive, Names, Readable, ArchiveTypeOK, DocumentTypeOK, Restoring, Ready1, OnTheWay, InArchive, Locked, Apart
<1>8. Sweeping'
  BY <1>0, NamesFacts DEF ArchiveInv, WriteArchive, Names, Readable, ArchiveTypeOK, DocumentTypeOK, Sweeping, Orphans, Row, File, Apart
<1>9. Left'
  BY <1>0, NamesFacts DEF ArchiveInv, WriteArchive, Names, Readable, ArchiveTypeOK, DocumentTypeOK, Left, Orphans, Row, File, Apart, Restoring
<1>10. Brought'
  BY <1>0, NamesFacts DEF ArchiveInv, WriteArchive, Names, Readable, ArchiveTypeOK, DocumentTypeOK, Brought, Unattached, Row, Owners, Apart
<1> QED
  BY <1>1, <1>2, <1>3, <1>4, <1>5, <1>6, <1>7, <1>8, <1>9, <1>10 DEF ArchiveInv

LEMMA BackupFailsStep ==
  ASSUME ArchiveInv, BackupFails
  PROVE  ArchiveInv'
<1>0. /\ archiving'.pc = "idle" /\ archiving' \in ArchiveWork /\ archiving'.placed = {} /\ archiving'.created = {}
      /\ archiving'.copy.attached = {} /\ \A n \in Names : archiving'.copy.documents[n] = Nothing
      /\ holder' = "free"
      /\ mishaps' \in 0 .. MaxMishaps
  BY MishapType, NamesFacts DEF ArchiveInv, BackupFails, Names, Readable, ArchiveTypeOK, DocumentTypeOK, ArchiveWork, Archive, WorkEnds, NoWork, NoArchive, Mishap
<1>1. ArchiveTypeOK'
  BY <1>0, NamesFacts DEF ArchiveInv, BackupFails, Names, Readable, ArchiveTypeOK, DocumentTypeOK
<1>2. Apart'
  BY <1>0, NamesFacts DEF ArchiveInv, BackupFails, Names, Readable, ArchiveTypeOK, DocumentTypeOK, Apart
<1>3. Unused'
  BY <1>0, NamesFacts DEF ArchiveInv, BackupFails, Names, Readable, ArchiveTypeOK, DocumentTypeOK, Unused, OnTheWay, Apart
<1>4. Owned'
  BY <1>0, NamesFacts DEF ArchiveInv, BackupFails, Names, Readable, ArchiveTypeOK, DocumentTypeOK, Owned, Apart
<1>5. Held'
  BY <1>0, NamesFacts DEF ArchiveInv, BackupFails, Names, Readable, ArchiveTypeOK, DocumentTypeOK, Held, OnTheWay, Apart
<1>6. Copying'
  BY <1>0, NamesFacts DEF ArchiveInv, BackupFails, Names, Readable, ArchiveTypeOK, DocumentTypeOK, Copying, OnTheWay, Apart
<1>7. Restoring'
  BY <1>0, NamesFacts DEF ArchiveInv, BackupFails, Names, Readable, ArchiveTypeOK, DocumentTypeOK, Restoring, Ready1, OnTheWay, InArchive, Locked, Apart
<1>8. Sweeping'
  BY <1>0, NamesFacts DEF ArchiveInv, BackupFails, Names, Readable, ArchiveTypeOK, DocumentTypeOK, Sweeping, Orphans, Row, File, Apart
<1>9. Left'
  BY <1>0, NamesFacts DEF ArchiveInv, BackupFails, Names, Readable, ArchiveTypeOK, DocumentTypeOK, Left, Orphans, Row, File, Apart, Restoring
<1>10. Brought'
  BY <1>0, NamesFacts DEF ArchiveInv, BackupFails, Names, Readable, ArchiveTypeOK, DocumentTypeOK, Brought, Unattached, Row, Owners, Apart
<1> QED
  BY <1>1, <1>2, <1>3, <1>4, <1>5, <1>6, <1>7, <1>8, <1>9, <1>10 DEF ArchiveInv

LEMMA BeginRestoreStep ==
  ASSUME ArchiveInv, BeginRestore
  PROVE  ArchiveInv'
<1>0. /\ archiving' \in ArchiveWork /\ archiving'.pc = "rows" /\ archiving'.placed = {} /\ archiving'.created = {}
      /\ archiving'.copy.attached = {} /\ \A n \in Names : archiving'.copy.documents[n] = Nothing
      /\ holder' = "archive"
  BY NamesFacts DEF ArchiveInv, BeginRestore, Names, ArchiveTypeOK, DocumentTypeOK, ArchiveWork, Archive, Begins, NoWork, NoArchive
<1>1. ArchiveTypeOK'
  BY <1>0, NamesFacts DEF ArchiveInv, BeginRestore, Names, ArchiveTypeOK, DocumentTypeOK
<1>2. Apart'
  BY <1>0, NamesFacts DEF ArchiveInv, BeginRestore, Names, ArchiveTypeOK, DocumentTypeOK, Apart, Begins
<1>3. Unused'
  BY <1>0, NamesFacts DEF ArchiveInv, BeginRestore, Names, ArchiveTypeOK, DocumentTypeOK, Unused, OnTheWay, Apart
<1>4. Owned'
  BY <1>0, NamesFacts DEF ArchiveInv, BeginRestore, Names, ArchiveTypeOK, DocumentTypeOK, Owned, Apart
<1>5. Held'
  BY <1>0, NamesFacts DEF ArchiveInv, BeginRestore, Names, ArchiveTypeOK, DocumentTypeOK, Held, OnTheWay, Apart
<1>6. Copying'
  BY <1>0, NamesFacts DEF ArchiveInv, BeginRestore, Names, ArchiveTypeOK, DocumentTypeOK, Copying, OnTheWay, Apart
<1>7. Restoring'
  BY <1>0, NamesFacts DEF ArchiveInv, BeginRestore, Names, ArchiveTypeOK, DocumentTypeOK, Restoring, Ready1, OnTheWay, InArchive, Locked, Apart
<1>8. Sweeping'
  BY <1>0, NamesFacts DEF ArchiveInv, BeginRestore, Names, ArchiveTypeOK, DocumentTypeOK, Sweeping, Orphans, Row, File, Apart
<1>9. Left'
  BY <1>0, NamesFacts DEF ArchiveInv, BeginRestore, Names, ArchiveTypeOK, DocumentTypeOK, Left, Orphans, Row, File, Apart, Restoring, Begins
<1>10. Brought'
  BY <1>0, NamesFacts DEF ArchiveInv, BeginRestore, Names, ArchiveTypeOK, DocumentTypeOK, Brought, Unattached, Row, Owners, Apart
<1> QED
  BY <1>1, <1>2, <1>3, <1>4, <1>5, <1>6, <1>7, <1>8, <1>9, <1>10 DEF ArchiveInv

LEMMA RestoreRowsStep ==
  ASSUME ArchiveInv, RestoreRows
  PROVE  ArchiveInv'
<1> DEFINE fresh(ids) == {k \in {ids[n] : n \in InArchive} : k > made}
<1>p. PICK ids \in [InArchive -> Names] :
        /\ \A n \in InArchive : Identity(n, ids[n]) /\ originals[ids[n]] \in {Nothing, zip.documents[n]}
        /\ \A n, d \in InArchive : ids[n] = ids[d] => n = d
        /\ fresh(ids) = made + 1 .. made + Cardinality(fresh(ids))
        /\ made' = made + Cardinality(fresh(ids))
        /\ archiving' = [archiving EXCEPT !.pc = "place", !.chosen = Missing,
                                          !.ids = [n \in Names |-> IF n \in InArchive THEN ids[n] ELSE n],
                                          !.created = {n \in InArchive : ~Row(ids[n])},
                                          !.todo = {n \in InArchive : ~File(ids[n])}]
  BY DEF RestoreRows
<1>m. made <= made' /\ made' \in 0 .. MaxNames /\ \A k \in fresh(ids) : k <= made'
  <2>1. fresh(ids) \in SUBSET (1 .. MaxNames)
    BY <1>p DEF Names
  <2>2. IsFiniteSet(fresh(ids))
    <3>1. IsFiniteSet(1 .. MaxNames)
      BY FS_Interval, NamesFacts
    <3> HIDE DEF fresh
    <3> QED
      BY <2>1, <3>1, FS_Subset
  <2>3. Cardinality(fresh(ids)) \in Nat
    BY <2>2, FS_CardinalityType
  <2> HIDE DEF fresh
  <2>4. made \in 0 .. MaxNames
    BY DEF ArchiveInv, ArchiveTypeOK, DocumentTypeOK
  <2>5. CASE Cardinality(fresh(ids)) = 0
    BY <1>p, <2>4, <2>5, NamesFacts
  <2>6. CASE Cardinality(fresh(ids)) > 0
    <3>1. made + Cardinality(fresh(ids)) \in fresh(ids)
      BY <1>p, <2>3, <2>4, <2>6
    <3> QED
      BY <1>p, <2>1, <2>3, <2>4, <3>1, NamesFacts
  <2> QED
    BY <2>3, <2>5, <2>6
<1>0. /\ archiving'.pc = "place" /\ archiving'.chosen = zip.meetings \ meetings
      /\ archiving'.copy = archiving.copy /\ archiving'.staged = archiving.staged /\ archiving'.placed = archiving.placed
      /\ archiving'.ids \in [Names -> Names] /\ \A n \in InArchive : archiving'.ids[n] = ids[n]
      /\ archiving'.created = {n \in InArchive : documents[ids[n]] = Nothing}
      /\ archiving'.todo = {n \in InArchive : originals[ids[n]] = Nothing}
      /\ archiving' \in ArchiveWork
  <2>1. archiving' = [pc |-> "place", copy |-> archiving.copy, staged |-> archiving.staged, chosen |-> Missing,
                      ids |-> [n \in Names |-> IF n \in InArchive THEN ids[n] ELSE n],
                      created |-> {n \in InArchive : ~Row(ids[n])}, todo |-> {n \in InArchive : ~File(ids[n])},
                      placed |-> archiving.placed]
    BY <1>p DEF ArchiveInv, ArchiveTypeOK, ArchiveWork
  <2>2. [n \in Names |-> IF n \in InArchive THEN ids[n] ELSE n] \in [Names -> Names]
    OBVIOUS
  <2>3. /\ archiving.copy \in Archive /\ archiving.staged \subseteq Meetings /\ archiving.placed \subseteq Names
        /\ Missing \subseteq Meetings /\ InArchive \subseteq Names
    BY DEF ArchiveInv, ArchiveTypeOK, ArchiveWork, Archive, Missing, InArchive
  <2> QED
    BY <2>1, <2>2, <2>3 DEF ArchiveWork, Missing, Row, File
<1>c. /\ UNCHANGED <<meetings, folders, documents, attached, originals, old, holder, importing, removing, sweep, mishaps, ledger, zip>>
      /\ InArchive' = InArchive /\ OnTheWay' = OnTheWay /\ archiving.pc = "rows" /\ Unpacked
  BY DEF RestoreRows, InArchive, OnTheWay
<1>1. ArchiveTypeOK'
  BY <1>c, <1>0, <1>m DEF ArchiveInv, ArchiveTypeOK, DocumentTypeOK
<1>2. Apart'
  BY <1>c, <1>0 DEF ArchiveInv, Apart
<1>3. Unused'
  BY <1>c, <1>0, <1>m, NamesFacts DEF ArchiveInv, Unused, ArchiveTypeOK, DocumentTypeOK
<1>4. Owned'
  BY <1>c, <1>0 DEF ArchiveInv, Owned
<1>5. Held'
  BY <1>c, <1>0 DEF ArchiveInv, Held
<1>6. Copying'
  <2>1. importing.pc = "idle"
    BY <1>c DEF ArchiveInv, Apart
  <2> QED
    BY <1>c, <2>1 DEF ArchiveInv, Copying
<1>7. Restoring'
  <2>1. ASSUME NEW n \in InArchive PROVE ids[n] <= made'
    <3>1. ids[n] \in Nat /\ made \in Nat /\ made' \in Nat
      BY <1>p, <1>m, NamesFacts DEF ArchiveInv, ArchiveTypeOK, DocumentTypeOK
    <3>2. ids[n] > made => ids[n] \in fresh(ids)
      BY <1>p
    <3> HIDE DEF fresh
    <3> QED
      BY <1>m, <3>1, <3>2
  <2>2. ASSUME NEW n \in InArchive, documents[ids[n]] = Nothing PROVE originals[ids[n]] = Nothing
    <3>1. n \in Names /\ zip.documents[n] # Nothing /\ ids[n] \in Names
      BY <1>p DEF InArchive
    <3>2. ids[n] > made \/ Vacant(ids[n])
      BY <1>p, <2>2, <3>1 DEF Identity
    <3> QED
      BY <3>1, <3>2 DEF ArchiveInv, Unused, Vacant, File
  <2>3. ASSUME NEW n \in InArchive, documents[ids[n]] # Nothing PROVE documents[ids[n]] = zip.documents[n]
    <3>1. ~(ids[n] > made) /\ ~Vacant(ids[n])
      BY <1>p, <2>3 DEF ArchiveInv, Unused, Vacant, Row
    <3> QED
      BY <1>p, <3>1 DEF Identity
  <2> HIDE DEF fresh
  <2> QED
    BY <1>c, <1>0, <1>p, <2>1, <2>2, <2>3 DEF Restoring, Unpacked, Missing, Locked
<1>8. Sweeping'
  BY <1>c DEF ArchiveInv, Sweeping, Orphans, Row, File
<1>9. Left'
  BY <1>c, <1>0 DEF ArchiveInv, Left, Orphans, Row, File
<1>10. Brought'
  BY <1>c DEF ArchiveInv, Brought, Unattached, Row, Owners
<1> QED
  BY <1>1, <1>2, <1>3, <1>4, <1>5, <1>6, <1>7, <1>8, <1>9, <1>10 DEF ArchiveInv

LEMMA PlaceRestoredStep ==
  ASSUME NEW n \in Names, ArchiveInv, PlaceRestored(n)
  PROVE  ArchiveInv'
<1> DEFINE k == archiving.ids[n]
<1>0. /\ n \in InArchive /\ k \in Names /\ k <= made /\ zip.documents[n] \in Contents
      /\ originals[k] = Nothing /\ originals' = [originals EXCEPT ![k] = zip.documents[n]]
      /\ archiving.pc = "place" /\ archiving' \in ArchiveWork
      /\ archiving'.pc = "place" /\ archiving'.chosen = archiving.chosen /\ archiving'.copy = archiving.copy
      /\ archiving'.staged = archiving.staged /\ archiving'.ids = archiving.ids /\ archiving'.created = archiving.created
      /\ archiving'.todo = archiving.todo \ {n} /\ archiving'.placed = archiving.placed \cup {k}
  <2>1. n \in InArchive /\ k \in Names /\ k <= made /\ archiving.pc = "place" /\ originals[k] = Nothing
    BY DEF ArchiveInv, PlaceRestored, Restoring, ArchiveTypeOK, ArchiveWork, File
  <2>2. archiving' = [pc |-> archiving.pc, copy |-> archiving.copy, staged |-> archiving.staged, chosen |-> archiving.chosen,
                      ids |-> archiving.ids, created |-> archiving.created, todo |-> archiving.todo \ {n},
                      placed |-> archiving.placed \cup {k}]
    BY DEF ArchiveInv, PlaceRestored, ArchiveTypeOK, ArchiveWork
  <2>3. zip.documents[n] \in Contents
    BY <2>1 DEF ArchiveInv, InArchive, ArchiveTypeOK, Archive
  <2> QED
    BY <2>1, <2>2, <2>3 DEF ArchiveInv, PlaceRestored, ArchiveTypeOK, ArchiveWork
<1>l. /\ ledger' \in Ledger /\ ledger'.left = ledger.left \ {k} /\ ledger'.owed = ledger.owed \ {k}
      /\ ledger'.brought = ledger.brought /\ ledger'.reused = ledger.reused \cup (OnTheWay \cap {k})
  BY <1>0 DEF ArchiveInv, PlaceRestored, ArchiveTypeOK, DocumentTypeOK, Ledger
<1>c. /\ UNCHANGED <<meetings, folders, documents, attached, holder, importing, removing, sweep, made, mishaps, zip>>
      /\ old' = old \ {k} /\ InArchive' = InArchive /\ OnTheWay' = OnTheWay
  BY DEF PlaceRestored, InArchive, OnTheWay
<1> HIDE DEF k
<1>1. ArchiveTypeOK'
  BY <1>0, <1>l, <1>c DEF ArchiveInv, ArchiveTypeOK, DocumentTypeOK
<1>2. Apart'
  BY <1>0, <1>c DEF ArchiveInv, Apart
<1>3. Unused'
  <2>1. made \in Nat /\ k \in Nat /\ originals \in [Names -> Contents \cup {Nothing}]
    BY <1>0, NamesFacts DEF ArchiveInv, ArchiveTypeOK, DocumentTypeOK
  <2>2. ASSUME NEW d \in Names, d > made PROVE d # k
    BY <1>0, <2>1, <2>2, NamesFacts
  <2> QED
    BY <1>0, <1>l, <1>c, <2>1, <2>2 DEF ArchiveInv, Unused
<1>4. Owned'
  BY <1>0, <1>c DEF ArchiveInv, Owned
<1>5. Held'
  BY <1>0, <1>l, <1>c DEF ArchiveInv, Held, ArchiveTypeOK, DocumentTypeOK
<1>6. Copying'
  BY <1>0, <1>c DEF ArchiveInv, Apart, Copying
<1>7. Restoring'
  <2>1. ASSUME NEW d \in archiving.created, d \notin archiving.todo \ {n} PROVE Ready1(d, archiving.ids[d])'
    <3>0. d \in InArchive /\ archiving.ids[d] \in Names /\ originals \in [Names -> Contents \cup {Nothing}]
      BY <1>0 DEF ArchiveInv, Restoring, InArchive, ArchiveTypeOK, ArchiveWork, DocumentTypeOK
    <3>1. CASE d = n
      BY <1>0, <1>l, <1>c, <3>0, <3>1 DEF Ready1, k
    <3>2. CASE d # n
      <4>1. archiving.ids[d] # k /\ Ready1(d, archiving.ids[d])
        BY <1>0, <2>1, <3>0, <3>2 DEF ArchiveInv, Restoring, k
      <4> QED
        BY <1>0, <1>l, <1>c, <3>0, <4>1 DEF Ready1
    <3> QED
      BY <3>1, <3>2
  <2> QED
    BY <1>0, <1>c, <2>1 DEF ArchiveInv, Restoring, Locked
<1>8. Sweeping'
  BY <1>0, <1>l, <1>c DEF ArchiveInv, Sweeping, Orphans, Row, File, ArchiveTypeOK, DocumentTypeOK
<1>9. Left'
  BY <1>0, <1>l, <1>c DEF ArchiveInv, Left, Orphans, Row, File, ArchiveTypeOK, DocumentTypeOK
<1>10. Brought'
  BY <1>l, <1>c DEF ArchiveInv, Brought, Unattached, Row, Owners
<1> QED
  BY <1>1, <1>2, <1>3, <1>4, <1>5, <1>6, <1>7, <1>8, <1>9, <1>10 DEF ArchiveInv

(* What a restore is committing: rows for documents that have none, for      *)
(* which it took identities of their own.                                    *)
Committing(created, ids) ==
  /\ archiving.pc = "place" /\ archiving.todo = {} /\ ids \in [Names -> Names]
  /\ created \subseteq InArchive /\ InArchive \subseteq Names
  /\ documents \in [Names -> Contents \cup {Nothing}] /\ zip.documents \in [Names -> Contents \cup {Nothing}]
  /\ \A n, d \in InArchive : ids[n] = ids[d] => n = d

LEMMA CommitRows ==
  ASSUME ArchiveInv, CommitRestore
  PROVE  LET created == archiving.created
             ids == archiving.ids
         IN /\ Committing(created, ids)
            /\ \A n \in created : /\ documents[ids[n]] = Nothing /\ documents'[ids[n]] = zip.documents[n]
                                  /\ zip.documents[n] \in Contents
            /\ \A k \in Names : (\A n \in created : ids[n] # k) => documents'[k] = documents[k]
            /\ \A k \in Names : documents[k] # Nothing => documents'[k] = documents[k]
            /\ \A n \in InArchive : Locked => documents'[ids[n]] = zip.documents[n] /\ zip.documents[n] # Nothing
<1> DEFINE created == archiving.created
           ids == archiving.ids
<1>a. Committing(created, ids)
  BY DEF Committing, ArchiveInv, CommitRestore, Restoring, InArchive, ArchiveTypeOK, DocumentTypeOK, ArchiveWork, Archive
<1>n. ASSUME NEW n \in created
      PROVE  documents[ids[n]] = Nothing /\ documents'[ids[n]] = zip.documents[n] /\ zip.documents[n] \in Contents
  <2>1. (CHOOSE d \in created : ids[d] = ids[n]) = n
    BY <1>a DEF Committing
  <2>2. documents'[ids[n]] = zip.documents[n]
    BY <1>a, <2>1 DEF CommitRestore, Committing
  <2> QED
    BY <1>a, <2>2 DEF ArchiveInv, Committing, Restoring, InArchive
<1>o. ASSUME NEW k \in Names, \A n \in created : ids[n] # k PROVE documents'[k] = documents[k]
  BY <1>o DEF CommitRestore
<1>k. ASSUME NEW k \in Names, documents[k] # Nothing PROVE documents'[k] = documents[k]
  BY <1>k, <1>n, <1>o
<1>v. ASSUME NEW n \in InArchive, Locked PROVE documents'[ids[n]] = zip.documents[n] /\ zip.documents[n] # Nothing
  <2>1. CASE n \in created
    BY <1>n, <2>1 DEF InArchive
  <2>2. CASE n \notin created
    <3>1. documents[ids[n]] = zip.documents[n]
      BY <1>a, <1>v, <2>2 DEF ArchiveInv, Committing, Restoring
    <3>2. ids[n] \in Names /\ zip.documents[n] # Nothing
      BY <1>a DEF InArchive, Committing
    <3> QED
      BY <1>k, <3>1, <3>2
  <2> QED
    BY <2>1, <2>2
<1> QED
  BY <1>a, <1>n, <1>o, <1>k, <1>v

LEMMA CommitAttachments ==
  ASSUME ArchiveInv, CommitRestore
  PROVE  /\ Attachments \subseteq Meetings \X Names
         /\ \A m, k : <<m, k>> \in Attachments <=>
              m \in archiving.chosen /\ \E n \in InArchive : <<m, n>> \in zip.attached /\ k = archiving.ids[n]
<1> DEFINE ids == archiving.ids
<1>a. archiving.chosen \subseteq Meetings /\ InArchive \subseteq Names /\ ids \in [Names -> Names]
  BY DEF ArchiveInv, ArchiveTypeOK, ArchiveWork, InArchive
<1>s. ASSUME NEW m, NEW k, <<m, k>> \in Attachments
      PROVE  m \in archiving.chosen /\ \E n \in InArchive : <<m, n>> \in zip.attached /\ k = ids[n]
  <2>1. PICK a \in zip.attached \cap (archiving.chosen \X Names) : <<m, k>> = <<a[1], ids[a[2]]>>
    BY <1>s DEF Attachments
  <2>2. a = <<a[1], a[2]>> /\ a[1] \in archiving.chosen /\ a[2] \in Names /\ m = a[1] /\ k = ids[a[2]]
    BY <2>1
  <2>3. <<m, a[2]>> \in zip.attached
    BY <2>1, <2>2
  <2>4. a[2] \in InArchive
    BY <1>a, <2>2, <2>3 DEF ArchiveInv, Owned, InArchive
  <2> QED
    BY <2>2, <2>3, <2>4
<1>b. ASSUME NEW m \in archiving.chosen, NEW n \in InArchive, <<m, n>> \in zip.attached
      PROVE  <<m, ids[n]>> \in Attachments
  <2> DEFINE a == <<m, n>>
  <2>1. a \in zip.attached \cap (archiving.chosen \X Names) /\ a[1] = m /\ a[2] = n
    BY <1>a, <1>b
  <2> QED
    BY <2>1 DEF Attachments
<1>t. Attachments \subseteq Meetings \X Names
  <2>1. ASSUME NEW x \in Attachments PROVE x \in Meetings \X Names
    <3>1. PICK m, k : x = <<m, k>>
      BY DEF Attachments
    <3>2. m \in archiving.chosen /\ \E n \in InArchive : k = ids[n]
      BY <1>s, <3>1
    <3>3. m \in Meetings /\ k \in Names
      BY <1>a, <3>2
    <3> QED
      BY <3>1, <3>3
  <2> QED
    BY <2>1
<1> QED
  BY <1>s, <1>b, <1>t

LEMMA CommitRestoreStep ==
  ASSUME ArchiveInv, CommitRestore
  PROVE  ArchiveInv'
<1> DEFINE created == archiving.created
           ids == archiving.ids
<1>a. Committing(created, ids)
  BY CommitRows
<1>n. \A n \in created : documents[ids[n]] = Nothing /\ documents'[ids[n]] = zip.documents[n] /\ zip.documents[n] \in Contents
  BY CommitRows
<1>o. \A k \in Names : (\A n \in created : ids[n] # k) => documents'[k] = documents[k]
  BY CommitRows
<1>k. \A k \in Names : documents[k] # Nothing => documents'[k] = documents[k]
  BY CommitRows
<1>v. \A n \in InArchive : Locked => documents'[ids[n]] = zip.documents[n] /\ zip.documents[n] # Nothing
  BY CommitRows
<1>s. /\ Attachments \subseteq Meetings \X Names
      /\ \A m, k : <<m, k>> \in Attachments => m \in archiving.chosen /\ \E n \in InArchive : k = ids[n]
  BY CommitAttachments
<1>d. documents' \in [Names -> Contents \cup {Nothing}]
  <2>1. documents' = [k \in Names |-> documents'[k]]
    BY DEF CommitRestore
  <2>2. \A k \in Names : documents'[k] \in Contents \cup {Nothing}
    BY <1>a, <1>n, <1>o DEF Committing
  <2> QED
    BY <2>1, <2>2
<1>l. /\ ledger' \in Ledger /\ ledger'.owed = ledger.owed /\ ledger'.reused = ledger.reused
      /\ ledger'.left = ledger.left \cup {k \in archiving.placed : documents'[k] = Nothing}
      /\ ledger'.brought = {k \in Names : documents'[k] # Nothing /\ ~\E m \in Meetings : <<m, k>> \in attached'}
  BY DEF ArchiveInv, CommitRestore, ArchiveTypeOK, DocumentTypeOK, ArchiveWork, Ledger
<1>0. /\ archiving' \in ArchiveWork /\ archiving'.pc = "idle" /\ archiving'.placed = {} /\ archiving'.created = {}
      /\ archiving'.copy.attached = {} /\ \A n \in Names : archiving'.copy.documents[n] = Nothing
      /\ holder' = "free"
  BY DEF CommitRestore, WorkEnds, NoWork, NoArchive, ArchiveWork, Archive
<1>c. /\ UNCHANGED <<originals, old, importing, removing, sweep, made, mishaps, zip>> /\ OnTheWay' = OnTheWay
      /\ meetings' = meetings \cup archiving.chosen /\ attached' = attached \cup Attachments
      /\ folders' = (folders \ archiving.chosen) \cup (archiving.chosen \cap archiving.staged)
  BY DEF CommitRestore, OnTheWay
<1> HIDE DEF created, ids
<1>1. ArchiveTypeOK'
  BY <1>0, <1>c, <1>d, <1>l, <1>s DEF ArchiveInv, ArchiveTypeOK, DocumentTypeOK, ArchiveWork
<1>2. Apart'
  <2>1. importing.pc = "idle"
    BY <1>a DEF Committing, ArchiveInv, Apart
  <2> QED
    BY <1>0, <1>c, <2>1 DEF Apart
<1>3. Unused'
  <2>1. ASSUME NEW k \in Names, k > made PROVE documents'[k] = Nothing
    <3>1. \A n \in created : ids[n] # k
      BY <1>a, <2>1, NamesFacts DEF Committing, ArchiveInv, Restoring, ArchiveTypeOK, DocumentTypeOK, ids
    <3> QED
      BY <1>o, <2>1, <3>1 DEF ArchiveInv, Unused
  <2> QED
    BY <1>0, <1>c, <1>l, <2>1 DEF ArchiveInv, Unused
<1>4. Owned'
  <2>1. ASSUME NEW m \in Meetings, NEW k \in Names, <<m, k>> \in attached' PROVE m \in meetings' /\ documents'[k] # Nothing
    <3>1. CASE <<m, k>> \in attached
      BY <1>c, <1>k, <3>1 DEF ArchiveInv, Owned
    <3>2. CASE <<m, k>> \in Attachments
      <4>1. m \in archiving.chosen /\ Locked
        BY <1>a, <1>s, <3>2 DEF Committing, Locked
      <4> QED
        BY <1>c, <1>s, <1>v, <3>2, <4>1
    <3> QED
      BY <1>c, <2>1, <3>1, <3>2
  <2> QED
    BY <1>0, <1>c, <2>1 DEF ArchiveInv, Owned
<1>5. Held'
  <2>1. ASSUME NEW k \in Names, documents'[k] # Nothing
        PROVE  /\ k \notin ledger.owed
               /\ originals[k] = documents'[k] \/ k \in ledger.reused
               /\ k \in OnTheWay => k \in ledger.reused
    <3>1. CASE documents[k] # Nothing
      BY <1>k, <3>1 DEF ArchiveInv, Held
    <3>2. CASE documents[k] = Nothing
      <4>1. PICK n \in created : ids[n] = k
        BY <1>o, <2>1, <3>2
      <4>2. Ready1(n, k)
        BY <1>a, <4>1 DEF Committing, ArchiveInv, Restoring, created, ids
      <4> QED
        BY <1>n, <4>1, <4>2 DEF Ready1
    <3> QED
      BY <3>1, <3>2
  <2> QED
    BY <1>0, <1>c, <1>l, <2>1 DEF Held
<1>6. Copying'
  <2>1. importing.pc = "idle"
    BY <1>a DEF Committing, ArchiveInv, Apart
  <2> QED
    BY <1>c, <2>1 DEF ArchiveInv, Copying
<1>7. Restoring'
  BY <1>0 DEF Restoring
<1>8. Sweeping'
  BY <1>c, <1>k, <1>l DEF ArchiveInv, Sweeping, Orphans, Row, File
<1>9. Left'
  BY <1>0, <1>c, <1>k, <1>l DEF ArchiveInv, Left, Orphans, Row, File
<1>10. Brought'
  BY <1>l DEF Brought, Unattached, Row, Owners
<1> QED
  BY <1>1, <1>2, <1>3, <1>4, <1>5, <1>6, <1>7, <1>8, <1>9, <1>10 DEF ArchiveInv

LEMMA RestoreFailsStep ==
  ASSUME ArchiveInv, RestoreFails
  PROVE  ArchiveInv'
<1>1. CASE originals' = Without(originals, Withdrawn) /\ UNCHANGED ledger
  <2>0. /\ archiving'.pc = "idle" /\ archiving' \in ArchiveWork /\ archiving'.placed = {} /\ archiving'.created = {}
        /\ archiving'.copy.attached = {} /\ \A n \in Names : archiving'.copy.documents[n] = Nothing
        /\ holder' = "free"
        /\ mishaps' \in 0 .. MaxMishaps
    BY <1>1, MishapType, NamesFacts DEF ArchiveInv, RestoreFails, Names, Withdrawn, Without, ArchiveTypeOK, DocumentTypeOK, ArchiveWork, Archive, WorkEnds, NoWork, NoArchive, Mishap, GivenUp
  <2>1. ArchiveTypeOK'
    BY <1>1, <2>0 DEF ArchiveInv, RestoreFails, Without, After, ArchiveTypeOK, DocumentTypeOK
  <2>2. Apart'
    <3>1. archiving.pc # "idle" /\ importing' = importing
      BY DEF RestoreFails
    <3> QED
      BY <2>0, <3>1 DEF ArchiveInv, Apart
  <2>3. Unused'
    BY <1>1, <2>0, NamesFacts DEF ArchiveInv, RestoreFails, Names, Withdrawn, Without, ArchiveTypeOK, DocumentTypeOK, Unused, OnTheWay, Apart
  <2>4. Owned'
    BY <1>1, <2>0, NamesFacts DEF ArchiveInv, RestoreFails, Names, Withdrawn, Without, ArchiveTypeOK, DocumentTypeOK, Owned, Apart
  <2>5. Held'
    BY <1>1, <2>0, NamesFacts DEF ArchiveInv, RestoreFails, Names, Withdrawn, Without, ArchiveTypeOK, DocumentTypeOK, Held, OnTheWay, Apart
  <2>6. Copying'
    BY <1>1, <2>0, NamesFacts DEF ArchiveInv, RestoreFails, Names, Withdrawn, Without, ArchiveTypeOK, DocumentTypeOK, Copying, OnTheWay, Apart
  <2>7. Restoring'
    BY <1>1, <2>0, NamesFacts DEF ArchiveInv, RestoreFails, Names, Withdrawn, Without, ArchiveTypeOK, DocumentTypeOK, Restoring, Ready1, OnTheWay, InArchive, Locked, Apart
  <2>8. Sweeping'
    BY <1>1, <2>0, NamesFacts DEF ArchiveInv, RestoreFails, Names, Withdrawn, Without, ArchiveTypeOK, DocumentTypeOK, Sweeping, Orphans, Row, File, Apart, Restoring
  <2>9. Left'
    BY <1>1, <2>0, NamesFacts DEF ArchiveInv, RestoreFails, Names, Withdrawn, Without, ArchiveTypeOK, DocumentTypeOK, Left, Orphans, Row, File, Apart
  <2>10. Brought'
    BY <1>1, <2>0, NamesFacts DEF ArchiveInv, RestoreFails, Names, Withdrawn, Without, ArchiveTypeOK, DocumentTypeOK, Brought, Unattached, Row, Owners, Apart
  <2> QED
    BY <2>1, <2>2, <2>3, <2>4, <2>5, <2>6, <2>7, <2>8, <2>9, <2>10 DEF ArchiveInv
<1>2. CASE originals' = originals /\ GivenUp(archiving.placed)
  <2>0. /\ archiving'.pc = "idle" /\ archiving' \in ArchiveWork /\ archiving'.placed = {} /\ archiving'.created = {}
        /\ archiving'.copy.attached = {} /\ \A n \in Names : archiving'.copy.documents[n] = Nothing
        /\ holder' = "free"
        /\ mishaps' \in 0 .. MaxMishaps
        /\ archiving.placed \in SUBSET Names
        /\ After(archiving.placed)
    BY <1>2, MishapType, GivesUp, NamesFacts DEF ArchiveInv, RestoreFails, Names, Withdrawn, Without, ArchiveTypeOK, DocumentTypeOK, ArchiveWork, Archive, WorkEnds, NoWork, NoArchive, Mishap, GivenUp
  <2>1. ArchiveTypeOK'
    BY <1>2, <2>0 DEF ArchiveInv, RestoreFails, Without, After, ArchiveTypeOK, DocumentTypeOK
  <2>2. Apart'
    <3>1. archiving.pc # "idle" /\ importing' = importing
      BY DEF RestoreFails
    <3> QED
      BY <2>0, <3>1 DEF ArchiveInv, Apart
  <2>3. Unused'
    BY <1>2, <2>0, NamesFacts DEF ArchiveInv, RestoreFails, Names, Withdrawn, Without, ArchiveTypeOK, DocumentTypeOK, Unused, OnTheWay, Apart, After
  <2>4. Owned'
    BY <1>2, <2>0, NamesFacts DEF ArchiveInv, RestoreFails, Names, Withdrawn, Without, ArchiveTypeOK, DocumentTypeOK, Owned, Apart, After
  <2>5. Held'
    BY <1>2, <2>0, NamesFacts DEF ArchiveInv, RestoreFails, Names, Withdrawn, Without, ArchiveTypeOK, DocumentTypeOK, Held, OnTheWay, Apart, After
  <2>6. Copying'
    BY <1>2, <2>0, NamesFacts DEF ArchiveInv, RestoreFails, Names, Withdrawn, Without, ArchiveTypeOK, DocumentTypeOK, Copying, OnTheWay, Apart, After
  <2>7. Restoring'
    BY <1>2, <2>0, NamesFacts DEF ArchiveInv, RestoreFails, Names, Withdrawn, Without, ArchiveTypeOK, DocumentTypeOK, Restoring, Ready1, OnTheWay, InArchive, Locked, Apart, After
  <2>8. Sweeping'
    BY <1>2, <2>0, NamesFacts DEF ArchiveInv, RestoreFails, Names, Withdrawn, Without, ArchiveTypeOK, DocumentTypeOK, Sweeping, Orphans, Row, File, Apart, Restoring, After
  <2>9. Left'
    BY <1>2, <2>0, NamesFacts DEF ArchiveInv, RestoreFails, Names, Withdrawn, Without, ArchiveTypeOK, DocumentTypeOK, Left, Orphans, Row, File, Apart, After
  <2>10. Brought'
    BY <1>2, <2>0, NamesFacts DEF ArchiveInv, RestoreFails, Names, Withdrawn, Without, ArchiveTypeOK, DocumentTypeOK, Brought, Unattached, Row, Owners, Apart, After
  <2> QED
    BY <2>1, <2>2, <2>3, <2>4, <2>5, <2>6, <2>7, <2>8, <2>9, <2>10 DEF ArchiveInv
<1> QED
  BY <1>1, <1>2 DEF RestoreFails

LEMMA LoseFolderStep ==
  ASSUME NEW m \in Meetings, ArchiveInv, LoseFolder(m)
  PROVE  ArchiveInv'
<1>0. mishaps' \in 0 .. MaxMishaps
  BY MishapType, NamesFacts DEF ArchiveInv, LoseFolder, Names, ArchiveTypeOK, DocumentTypeOK, Mishap
<1>1. ArchiveTypeOK'
  BY <1>0, NamesFacts DEF ArchiveInv, LoseFolder, Names, ArchiveTypeOK, DocumentTypeOK
<1>2. Apart'
  BY <1>0, NamesFacts DEF ArchiveInv, LoseFolder, Names, ArchiveTypeOK, DocumentTypeOK, Apart
<1>3. Unused'
  BY <1>0, NamesFacts DEF ArchiveInv, LoseFolder, Names, ArchiveTypeOK, DocumentTypeOK, Unused, OnTheWay, Apart
<1>4. Owned'
  BY <1>0, NamesFacts DEF ArchiveInv, LoseFolder, Names, ArchiveTypeOK, DocumentTypeOK, Owned, Apart
<1>5. Held'
  BY <1>0, NamesFacts DEF ArchiveInv, LoseFolder, Names, ArchiveTypeOK, DocumentTypeOK, Held, OnTheWay, Apart
<1>6. Copying'
  BY <1>0, NamesFacts DEF ArchiveInv, LoseFolder, Names, ArchiveTypeOK, DocumentTypeOK, Copying, OnTheWay, Apart
<1>7. Restoring'
  BY <1>0, NamesFacts DEF ArchiveInv, LoseFolder, Names, ArchiveTypeOK, DocumentTypeOK, Restoring, Ready1, OnTheWay, InArchive, Locked, Apart
<1>8. Sweeping'
  BY <1>0, NamesFacts DEF ArchiveInv, LoseFolder, Names, ArchiveTypeOK, DocumentTypeOK, Sweeping, Orphans, Row, File, Apart
<1>9. Left'
  BY <1>0, NamesFacts DEF ArchiveInv, LoseFolder, Names, ArchiveTypeOK, DocumentTypeOK, Left, Orphans, Row, File, Apart
<1>10. Brought'
  BY <1>0, NamesFacts DEF ArchiveInv, LoseFolder, Names, ArchiveTypeOK, DocumentTypeOK, Brought, Unattached, Row, Owners, Apart
<1> QED
  BY <1>1, <1>2, <1>3, <1>4, <1>5, <1>6, <1>7, <1>8, <1>9, <1>10 DEF ArchiveInv

LEMMA ArchiveFirst == ASSUME ArchiveInit PROVE ArchiveInv
<1> USE DEF ArchiveInit, DocumentInit, NewSweep, NoImport, LedgerInit, NoArchive, NoWork
<1>1. sweep = [pc |-> "stopped", phase |-> "rows", name |-> 0, todo |-> {}]
  OBVIOUS
<1>2. ArchiveTypeOK
  BY <1>1, DocumentAssumption DEF ArchiveTypeOK, DocumentTypeOK, Import, Sweep, Ledger, ArchiveWork, Archive
<1>3. Apart /\ Owned /\ Held /\ Restoring
  BY <1>1 DEF Apart, Owned, Held, Restoring, InArchive, OnTheWay
<1>4. Unused
  BY <1>1 DEF Unused, OnTheWay
<1>5. Copying /\ Sweeping /\ Left /\ Brought
  BY <1>1 DEF Copying, Sweeping, Left, Brought, Orphans, Unattached, Row, File
<1> QED
  BY <1>2, <1>3, <1>4, <1>5 DEF ArchiveInv

LEMMA ArchiveStutters == ASSUME ArchiveInv, UNCHANGED archiveVars PROVE ArchiveInv'
<1>1. ArchiveTypeOK' /\ Apart' /\ Owned' /\ Copying'
  BY DEF ArchiveInv, ArchiveTypeOK, DocumentTypeOK, Apart, Owned, Copying, OnTheWay
<1>2. Unused' /\ Held' /\ Restoring'
  BY DEF ArchiveInv, Unused, Held, Restoring, Ready1, OnTheWay, InArchive, Locked
<1>3. Sweeping' /\ Left' /\ Brought'
  BY DEF ArchiveInv, Sweeping, Left, Brought, Orphans, Unattached, Row, File, Owners
<1> QED
  BY <1>1, <1>2, <1>3 DEF ArchiveInv

LEMMA ArchiveKept == ASSUME ArchiveInv, [ArchiveNext]_archiveVars PROVE ArchiveInv'
<1>1. CASE DocumentWrite /\ ~Locked /\ UNCHANGED <<zip, archiving>>
  BY <1>1, AttachStep, DetachStep, DeleteDocumentStep, DeleteMeetingStep, SweepRowStep DEF DocumentWrite
<1>2. CASE DocumentStep /\ UNCHANGED <<zip, archiving>>
  BY <1>2, BeginImportStep, PlaceOriginalStep, AbandonImportStep, DiscardCopyStep, RemoveOriginalStep,
     SweepLookStep, SweepFilesStep, SweepConfirmStep, SweepUnlinkStep, SweepEndsStep DEF DocumentStep
<1>3. CASE ArchiveStep
  BY <1>3, SnapshotStep, WriteArchiveStep, BackupFailsStep, BeginRestoreStep, RestoreRowsStep,
     PlaceRestoredStep, CommitRestoreStep, RestoreFailsStep DEF ArchiveStep
<1>4. CASE (\E m \in Meetings : LoseFolder(m)) \/ ArchiveRestart
  BY <1>4, LoseFolderStep, DocumentRestartStep
<1>5. CASE UNCHANGED archiveVars
  BY <1>5, ArchiveStutters
<1> QED
  BY <1>1, <1>2, <1>3, <1>4, <1>5 DEF ArchiveNext

(* Whatever else happens to the meetings leaves the documents alone.         *)
LEMMA Archives == [MeetingNext]_meetingVars => [ArchiveNext]_archiveVars
BY DEF MeetingNext, MeetingRestart, meetingVars

LEMMA ArchiveAlways == MeetingSpec => []ArchiveInv /\ [][ArchiveNext]_archiveVars
<1>1. MeetingInit => ArchiveInv
  BY ArchiveFirst DEF MeetingInit
<1>2. ArchiveInv /\ [ArchiveNext]_archiveVars => ArchiveInv'
  BY ArchiveKept
<1> QED
  BY <1>1, <1>2, Archives, PTL DEF MeetingSpec

(* Rows, files, the import, the sweep, the archive and its work stay within  *)
(* what the program can hold, and no identity beyond those given out is used. *)
THEOREM ArchiveType == MeetingSpec => []ArchiveTypeOK
<1>1. ArchiveInv => ArchiveTypeOK
  BY DEF ArchiveInv
<1> QED
  BY <1>1, ArchiveAlways, PTL

(* Each document keeps its original, whatever imports, deletions, sweeps,    *)
(* restores, their failures and ends of the process leave half done, unless  *)
(* a restore took an identity back that somebody was about to remove.        *)
THEOREM OriginalsStay == MeetingSpec => []OriginalsKept
<1>1. ArchiveInv => OriginalsKept
  BY DEF ArchiveInv, Held, OriginalsKept, Row
<1> QED
  BY <1>1, ArchiveAlways, PTL

(* A file without a row is in somebody's hands or was given up in a failure, *)
(* a document of no meeting was restored for one that was there, and a sweep *)
(* that got through has removed what it was owed.                            *)
THEOREM NothingStaysBehind == MeetingSpec => []NothingLeaks
<1>1. ArchiveInv => NothingLeaks
  <2>1. ASSUME ArchiveInv PROVE Orphans \subseteq removing \cup archiving.placed \cup ledger.left \cup {importing.name, sweep.name}
    BY <2>1 DEF ArchiveInv, Left
  <2>2. ASSUME ArchiveInv, sweep.pc = "through" PROVE ledger.owed \cap Orphans = {}
    <3>1. ledger.owed \cap Orphans \subseteq {0} /\ Orphans \subseteq Names
      BY <2>2 DEF ArchiveInv, Sweeping, Orphans
    <3> QED
      BY <3>1, NamesFacts
  <2> QED
    BY <2>1, <2>2 DEF ArchiveInv, Brought, NothingLeaks
<1> QED
  BY <1>1, ArchiveAlways, PTL

(* What RestoresWhole says of the step that commits.                         *)
Whole ==
  /\ archiving.chosen \subseteq meetings'
  /\ \A m \in archiving.chosen :
       /\ m \in zip.folders => m \in folders'
       /\ {documents'[n] : n \in {d \in Names : <<m, d>> \in attached'}}
            = {zip.documents[n] : n \in {d \in Names : <<m, d>> \in zip.attached}}
  /\ \A m \in meetings, n \in Names : <<m, n>> \in attached' <=> <<m, n>> \in attached
  /\ \A n \in Names : Row(n) => documents'[n] = documents[n]

LEMMA CommitIsWhole == ASSUME ArchiveInv, CommitRestore PROVE Whole
<1>1. /\ archiving.chosen \subseteq Meetings /\ archiving.chosen \cap meetings = {}
      /\ archiving.chosen \cap zip.folders \subseteq archiving.staged
  BY DEF ArchiveInv, Restoring, CommitRestore, ArchiveTypeOK, ArchiveWork
<1>2. attached' = attached \cup Attachments /\ archiving.pc = "place"
  BY DEF CommitRestore
<1>3. ASSUME NEW m \in archiving.chosen
      PROVE  {documents'[n] : n \in {d \in Names : <<m, d>> \in attached'}}
               = {zip.documents[n] : n \in {d \in Names : <<m, d>> \in zip.attached}}
  <2>1. Locked
    BY <1>2, <1>3 DEF Locked
  <2>2. \A n \in Names : <<m, n>> \notin attached
    BY <1>1 DEF ArchiveInv, Owned
  <2>3. \A d \in Names : <<m, d>> \in attached' <=> \E n \in InArchive : <<m, n>> \in zip.attached /\ d = archiving.ids[n]
    <3>1. \A d : <<m, d>> \in Attachments <=> \E n \in InArchive : <<m, n>> \in zip.attached /\ d = archiving.ids[n]
      BY <1>3, CommitAttachments
    <3> HIDE DEF Attachments
    <3> QED
      BY <1>2, <2>2, <3>1
  <2>4. \A n \in Names : <<m, n>> \in zip.attached => n \in InArchive
    BY <1>1 DEF ArchiveInv, Owned, InArchive
  <2>5. \A n \in InArchive : n \in Names /\ archiving.ids[n] \in Names /\ documents'[archiving.ids[n]] = zip.documents[n]
    BY <2>1, CommitRows DEF Committing
  <2>6. ASSUME NEW d \in Names, <<m, d>> \in attached'
        PROVE  \E n \in Names : <<m, n>> \in zip.attached /\ documents'[d] = zip.documents[n]
    <3>1. PICK n \in InArchive : <<m, n>> \in zip.attached /\ d = archiving.ids[n]
      BY <2>3, <2>6
    <3> QED
      BY <2>5, <3>1
  <2>7. ASSUME NEW n \in Names, <<m, n>> \in zip.attached
        PROVE  \E d \in Names : <<m, d>> \in attached' /\ documents'[d] = zip.documents[n]
    BY <2>3, <2>4, <2>5, <2>7
  <2> DEFINE now == {d \in Names : <<m, d>> \in attached'}
             then == {n \in Names : <<m, n>> \in zip.attached}
  <2>8. \A d \in now : \E n \in then : documents'[d] = zip.documents[n]
    BY <2>6
  <2>9. \A n \in then : \E d \in now : documents'[d] = zip.documents[n]
    BY <2>7
  <2> HIDE DEF now, then
  <2>10. {documents'[d] : d \in now} = {zip.documents[n] : n \in then}
    BY <2>8, <2>9
  <2> QED
    BY <2>10 DEF now, then
<1>4. ASSUME NEW m \in meetings, NEW n \in Names PROVE <<m, n>> \in attached' <=> <<m, n>> \in attached
  BY <1>1, <1>2, CommitAttachments
<1>5. \A n \in Names : Row(n) => documents'[n] = documents[n]
  BY CommitRows DEF Row
<1> QED
  BY <1>1, <1>3, <1>4, <1>5 DEF Whole, CommitRestore

(* A restore that succeeds brings each missing meeting back with its folder  *)
(* and its documents as they were archived, and changes no other.            *)
THEOREM RestoreIsWhole == MeetingSpec => RestoresWhole
<1>1. ArchiveInv /\ [ArchiveNext]_archiveVars => [CommitRestore => Whole]_archiveVars
  BY CommitIsWhole
<1> QED
  BY <1>1, ArchiveAlways, PTL DEF RestoresWhole, Whole
=============================================================================
