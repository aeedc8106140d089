------------------------- MODULE CaptureSpoolProofs -------------------------
(***************************************************************************)
(* Proofs about CaptureSpool and CaptureRecovery for every number of       *)
(* batches and of library commands, every size of the handoff and any      *)
(* number of failures, with and without stalls, crashes and removals that  *)
(* are cut short.                                                          *)
(***************************************************************************)
EXTENDS CaptureRecovery, FiniteSetTheorems, FunctionTheorems, TLAPS

(* Reading the spool only ever yields batches: an audio file that is encoded *)
(* from listed chunks contains nothing else.                                 *)
LEMMA EncodedType ==
  ASSUME FolderTypeOK, NEW list
  PROVE  Encoded(list) \in SUBSET Batch
BY DEF FolderTypeOK, TmpFile, Encoded, Readable, ChunkSeqs, TailReadable, NoBatch, Batch

(* The listing of the spool has the shape finalize keeps.                    *)
LEMMA CapturePathsType ==
  ASSUME FolderTypeOK
  PROVE  CapturePaths \in Listing
BY DEF FolderTypeOK, TmpFile, CapturePaths, ChunkSeqs, IsNext, Listing

(* When every listed chunk can be read, the encoded audio has everything     *)
(* that is stored: raw_fully_encoded is not claimed for less.                *)
LEMMA EncodedAllStored ==
  ASSUME NEW list, list.seqs = ChunkSeqs, EncodedAll(list)
  PROVE  Stored \subseteq Encoded(list)
BY DEF EncodedAll, Encoded, Stored, Readable, ChunkSeqs

\* The absent temporary file and the absent outcome have their type.
LEMMA AbsentTypes == NoTmp \in TmpFile /\ NoOutcome \in Outcome
BY NAssumption DEF NoTmp, TmpFile, NoOutcome, Outcome, NoBatch, Seqs

-----------------------------------------------------------------------------
(* What the writer's counters stay below, so that file names do not run out. *)
Sane == TypeOK /\ WriterInv

LEMMA InitSane == Init => Sane
<1> SUFFICES ASSUME Init PROVE Sane
  OBVIOUS
<1> USE NAssumption DEF Init
<1>1. FolderTypeOK
  BY AbsentTypes DEF FolderInit, FolderTypeOK, NoBatch
<1>2. writer \in Writer
  BY DEF Idle, Writer, NoBatch
<1>3. fin \in Finalizer
  BY DEF NotRun, NoList, Finalizer, FinSteps, Listing
<1>4. report \in Report
  BY DEF NoReport, Report
<1>5. QED
  <2>1. WriterInv
    BY DEF WriterInv, Idle, Filling, Busy
  <2>2. TypeOK
    <3>1. stop \in StopSteps
      BY DEF StopSteps
    <3>2. handoff \in Seq(Batch)
      OBVIOUS
    <3>3. captured \in 0 .. N /\ nextWrite \in Nat /\ faults \in Nat /\ accepted \in SUBSET Batch
      OBVIOUS
    <3>4. orphan \in BOOLEAN /\ incomplete \in BOOLEAN /\ raced \in BOOLEAN
      OBVIOUS
    <3> QED
      BY <1>1, <1>2, <1>3, <1>4, <3>1, <3>2, <3>3, <3>4 DEF TypeOK
  <2> QED
    BY <2>1, <2>2 DEF Sane

LEMMA SaneStep == Sane /\ [Next]_vars => Sane'
<1> SUFFICES ASSUME Sane, [Next]_vars PROVE Sane'
  OBVIOUS
<1> USE NAssumption, CaptureAssumption
<1> USE DEF Sane, TypeOK, WriterInv, Filling, Busy, NoBatch
<1>1. CASE HandOff
  BY <1>1 DEF HandOff, folderVars, stopVars, FolderTypeOK, Batch
<1>2. CASE LoseBatch
  BY <1>2 DEF LoseBatch, folderVars, stopVars, FolderTypeOK
<1>3. CASE TakeBatch
  <2>1. Head(handoff) \in Batch /\ Tail(handoff) \in Seq(Batch)
    BY <1>3 DEF TakeBatch
  <2>2. writer' \in Writer
    BY <1>3, <2>1 DEF TakeBatch, Writer
  <2>3. FolderTypeOK'
    BY <1>3, <2>1 DEF TakeBatch, FolderTypeOK, TmpFile, Seqs, Batch
  <2> QED
    BY <1>3, <2>1, <2>2, <2>3 DEF TakeBatch, stopVars, Batch, Seqs
<1>4. CASE CreateFails
  <2>1. Tail(handoff) \in Seq(Batch)
    BY <1>4 DEF CreateFails
  <2>2. Len(Tail(handoff)) = Len(handoff) - 1
    BY <1>4 DEF CreateFails
  <2> QED
    BY <1>4, <2>1, <2>2 DEF CreateFails, Fault, stopVars, FolderTypeOK
<1>5. CASE FillTmp
  <2>1. writer' \in Writer
    BY <1>5 DEF FillTmp, Writer
  <2>2. FolderTypeOK'
    BY <1>5 DEF FillTmp, FolderTypeOK, TmpFile
  <2>3. writer'.pc = "rename" /\ writer'.batch = writer.batch /\ writer'.seq = writer.seq
    BY <1>5 DEF FillTmp, Writer
  <2> QED
    BY <1>5, <2>1, <2>2, <2>3 DEF FillTmp, stopVars
<1>6. CASE PublishChunk
  <2>1. writer' \in Writer
    BY <1>6 DEF PublishChunk, NextNumber, Writer, Idle
  <2>2. FolderTypeOK'
    BY <1>6, AbsentTypes DEF PublishChunk, NextNumber, FolderTypeOK, Writer
  <2>3. nextWrite' \in Nat
    BY <1>6 DEF PublishChunk, NextNumber, Writer
  <2> QED
    BY <1>6, <2>1, <2>2, <2>3 DEF PublishChunk, NextNumber, stopVars, Idle
<1>7. CASE WriteFails
  <2>1. writer' \in Writer
    BY <1>7 DEF WriteFails, Writer, Idle
  <2> QED
    BY <1>7, <2>1 DEF WriteFails, Fault, stopVars, Idle, FolderTypeOK
<1>8. CASE OrphanEnds
  <2>1. writer' \in Writer
    BY <1>8 DEF OrphanEnds, Writer, Idle
  <2> QED
    BY <1>8, <2>1 DEF OrphanEnds, Fault, folderVars, stopVars, Idle, FolderTypeOK
<1>9. CASE StopCapture
  BY <1>9 DEF StopCapture, folderVars, processVars, FolderTypeOK, StopSteps
<1>10. CASE PipelineFails
  BY <1>10 DEF PipelineFails, AbortWorker, Fault, folderVars, FolderTypeOK, StopSteps
<1>11. CASE FinishDrained
  BY <1>11 DEF FinishDrained, folderVars, processVars, FolderTypeOK, StopSteps
<1>12. CASE FinishTimeout
  BY <1>12 DEF FinishTimeout, AbortWorker, folderVars, FolderTypeOK, StopSteps
<1>13. CASE StartSave
  <2>1. fin' \in Finalizer
    BY <1>13 DEF StartSave, Finalizer, FinSteps
  <2>2. report' \in Report
    BY <1>13 DEF StartSave, Report
  <2> QED
    BY <1>13, <2>1, <2>2 DEF StartSave, processVars, FolderTypeOK, StopSteps
<1>14. CASE SaveDone
  <2>1. report' \in Report
    BY <1>14 DEF SaveDone, Report, Finalizer
  <2> QED
    BY <1>14, <2>1 DEF SaveDone, folderVars, processVars, FolderTypeOK, StopSteps
<1>15. CASE SaveFailed
  <2>1. report' \in Report
    BY <1>15 DEF SaveFailed, Report
  <2> QED
    BY <1>15, <2>1 DEF SaveFailed, folderVars, processVars, FolderTypeOK, StopSteps
<1>16. CASE SaveDeadline
  <2>1. report' \in Report
    BY <1>16 DEF SaveDeadline, Report
  <2> QED
    BY <1>16, <2>1 DEF SaveDeadline, folderVars, processVars, FolderTypeOK, StopSteps
<1>17. CASE WriteOutcome
  <2>1. outcome' \in Outcome
    BY <1>17 DEF WriteOutcome, SavedOutcome, Outcome, Report
  <2> QED
    BY <1>17, <2>1 DEF WriteOutcome, processVars, FolderTypeOK, StopSteps
<1>18. CASE WriteOutcomeFails
  BY <1>18 DEF WriteOutcomeFails, Fault, folderVars, processVars, FolderTypeOK, StopSteps
<1>19. CASE ReleaseSpool
  <2>1. FolderTypeOK'
    BY <1>19, AbsentTypes DEF ReleaseSpool, NoSpool, FolderTypeOK
  <2> QED
    BY <1>19, <2>1 DEF ReleaseSpool, processVars, StopSteps
<1>20. CASE ReleaseFails
  BY <1>20 DEF ReleaseFails, Fault, folderVars, processVars, FolderTypeOK, StopSteps
<1>21. CASE WriteReport
  <2>1. outcome' \in Outcome
    <3>1. SavedOutcome \in Outcome
      BY DEF SavedOutcome, Outcome, Report
    <3> QED
      BY <1>21, <3>1 DEF WriteReport, FolderTypeOK
  <2> QED
    BY <1>21, <2>1 DEF WriteReport, Fault, processVars, FolderTypeOK, StopSteps
<1>22. CASE ListCapture
  <2>1. marker \in BOOLEAN
    BY <1>22 DEF FolderTypeOK
  <2>2. fin' \in Finalizer
    BY <1>22, <2>1, CapturePathsType DEF ListCapture, Finalizer, FinSteps
  <2> QED
    BY <1>22, <2>1, <2>2 DEF ListCapture, folderVars, processVars, FolderTypeOK
<1>23. CASE ReadCapture
  <2>1. Encoded(fin.list) \in SUBSET Batch
    BY <1>23, EncodedType
  <2>2. fin' \in Finalizer
    BY <1>23, <2>1 DEF ReadCapture, Finalizer, FinSteps, EncodedAll, EncodedGaps
  <2> QED
    BY <1>23, <2>1, <2>2 DEF ReadCapture, folderVars, processVars, FolderTypeOK
<1>24. CASE PublishAudio
  <2>1. fin' \in Finalizer
    BY <1>24 DEF PublishAudio, Finalizer, FinSteps
  <2>2. finalAudio' \in SUBSET Batch
    BY <1>24 DEF PublishAudio, Finalizer
  <2> QED
    BY <1>24, <2>1, <2>2 DEF PublishAudio, processVars, FolderTypeOK
<1>25. CASE FinalizeFails
  <2>1. fin' \in Finalizer
    BY <1>25 DEF FinalizeFails, Finalizer, FinSteps
  <2> QED
    BY <1>25, <2>1 DEF FinalizeFails, Fault, folderVars, processVars, FolderTypeOK
<1>26. ASSUME NEW s \in Seqs, Damage(s) PROVE Sane'
  BY <1>26 DEF Damage, Fault, processVars, stopVars, FolderTypeOK
<1>27. CASE Crash
  <2>1. writer' \in Writer
    BY <1>27 DEF Crash, Idle, Writer
  <2>2. fin' \in Finalizer
    BY <1>27 DEF Crash, NotRun, NoList, Finalizer, FinSteps, Listing
  <2>3. report' \in Report
    BY <1>27 DEF Crash, NoReport, Report
  <2> QED
    <3>1. WriterInv'
      BY <1>27 DEF Crash, Idle
    <3>2. TypeOK'
      <4>1. /\ captured' \in 0 .. N /\ nextWrite' \in Nat
            /\ faults' \in Nat /\ accepted' \in SUBSET Batch /\ raced' \in BOOLEAN
        BY <1>27 DEF Crash
      <4>2. handoff' \in Seq(Batch)
        BY <1>27 DEF Crash
      <4>3. orphan' \in BOOLEAN /\ incomplete' \in BOOLEAN
        BY <1>27 DEF Crash
      <4>4. stop' \in StopSteps
        BY <1>27 DEF Crash, StopSteps
      <4>5. FolderTypeOK'
        BY <1>27 DEF Crash, folderVars, FolderTypeOK
      <4> QED
        BY <2>1, <2>2, <2>3, <4>1, <4>2, <4>3, <4>4, <4>5 DEF TypeOK
    <3> QED
      BY <3>1, <3>2
<1>28. CASE UNCHANGED vars
  BY <1>28 DEF vars, folderVars, processVars, stopVars, FolderTypeOK
<1>29. QED
  BY <1>1, <1>2, <1>3, <1>4, <1>5, <1>6, <1>7, <1>8, <1>9, <1>10, <1>11, <1>12, <1>13, <1>14,
     <1>15, <1>16, <1>17, <1>18, <1>19, <1>20, <1>21, <1>22, <1>23, <1>24, <1>25, <1>26, <1>27, <1>28
     DEF Next, WriterStep, StopStep, FinalizeStep, Finished

(* Every variable keeps its type; in particular next_write never names a     *)
(* chunk beyond the batches captured (TranscriptionQueueSender::send).       *)
THEOREM CaptureTypes == Spec => []TypeOK
<1>1. Spec => []Sane
  BY InitSane, SaneStep, PTL DEF Spec
<1>2. Sane => TypeOK
  BY DEF Sane
<1>3. QED
  BY <1>1, <1>2, PTL

-----------------------------------------------------------------------------
(* How the queue and the spool change: what is appended stays, what is taken *)
(* was the head, and a chunk published under a fresh number only adds.       *)

LEMMA HandoffAppend ==
  ASSUME handoff \in Seq(Batch), NEW c \in Batch, handoff' = Append(handoff, c)
  PROVE  /\ InHandoff(c)'
         /\ \A b : InHandoff(b) => InHandoff(b)'
<1>1. /\ Len(handoff') = Len(handoff) + 1
      /\ handoff'[Len(handoff) + 1] = c
      /\ \A i \in 1 .. Len(handoff) : handoff'[i] = handoff[i]
  OBVIOUS
<1>2. Len(handoff) \in Nat
  OBVIOUS
<1>3. QED
  BY <1>1, <1>2 DEF InHandoff

LEMMA HandoffTail ==
  ASSUME handoff \in Seq(Batch), handoff # <<>>, handoff' = Tail(handoff)
  PROVE  \A b : InHandoff(b) => b = Head(handoff) \/ InHandoff(b)'
<1>1. /\ Len(handoff') = Len(handoff) - 1
      /\ \A i \in 1 .. Len(handoff) - 1 : handoff'[i] = handoff[i + 1]
      /\ Head(handoff) = handoff[1]
      /\ Len(handoff) \in Nat
  OBVIOUS
<1>2. SUFFICES ASSUME NEW b, NEW i \in 1 .. Len(handoff), handoff[i] = b, i # 1
               PROVE  InHandoff(b)'
  BY <1>1 DEF InHandoff
<1>3. i - 1 \in 1 .. Len(handoff') /\ handoff'[i - 1] = b
  BY <1>1, <1>2
<1>4. QED
  BY <1>3 DEF InHandoff

LEMMA PublishStored ==
  ASSUME FolderTypeOK, NEW n \in Seqs, NEW b \in Batch,
         n \notin ChunkSeqs, chunk' = [chunk EXCEPT ![n] = b]
  PROVE  Stored' = Stored \cup {b} /\ ChunkSeqs' = ChunkSeqs \cup {n}
BY NAssumption DEF FolderTypeOK, Stored, ChunkSeqs, NoBatch, Batch, Seqs

LEMMA InitGaps == Init => GapsInv
BY DEF Init, FolderInit, GapsInv, NothingForgotten, FinalizeInv, ReportInv, GapsRecorded,
  ChunkSeqs, NotRun, NoReport, Before, Filling

LEMMA GapsStep == Sane /\ GapsInv /\ [Next]_vars => GapsInv'
<1> SUFFICES ASSUME Sane, GapsInv, [Next]_vars PROVE GapsInv'
  OBVIOUS
<1> USE NAssumption, CaptureAssumption
<1> USE DEF GapsInv, NothingForgotten, FinalizeInv, ReportInv, GapsRecorded, Sane, TypeOK, WriterInv,
      Filling, Before, SavedOutcome
<1>1. CASE HandOff
  BY <1>1 DEF HandOff, InHandoff, InWriter, Stored, ChunkSeqs, folderVars, processVars, stopVars
<1>2. CASE LoseBatch
  BY <1>2 DEF LoseBatch, InHandoff, InWriter, Stored, ChunkSeqs, folderVars, processVars, stopVars
<1>3. CASE TakeBatch
  <2>1. /\ writer'.pc = "fill" /\ writer'.batch = Head(handoff)
        /\ \A b : InHandoff(b) => b = Head(handoff) \/ InHandoff(b)'
    BY <1>3, HandoffTail DEF TakeBatch
  <2>2. Stored' = Stored /\ ChunkSeqs' = ChunkSeqs
    BY <1>3 DEF TakeBatch, Stored, ChunkSeqs
  <2> QED
    BY <1>3, <2>1, <2>2 DEF TakeBatch, InWriter, stopVars
<1>4. CASE CreateFails
  BY <1>4 DEF CreateFails, InHandoff, InWriter, Stored, ChunkSeqs, folderVars, processVars, stopVars
<1>5. CASE FillTmp
  <2>1. writer'.pc = "rename" /\ writer'.batch = writer.batch
    BY <1>5 DEF FillTmp, Writer
  <2> QED
    BY <1>5, <2>1 DEF FillTmp, InHandoff, InWriter, Stored, ChunkSeqs, stopVars
<1>6. CASE PublishChunk
  <2>1. CASE stop = "crashed" \/ incomplete
    <3>1. UNCHANGED <<stop, incomplete, fin, report, spoolDir, outcome, finalAudio, captured>>
      BY <1>6 DEF PublishChunk, NextNumber, stopVars
    <3> QED
      BY <2>1, <3>1
  <2>2. CASE stop # "crashed" /\ ~incomplete
    <3>1. stop \in Filling /\ ~orphan /\ writer.seq = nextWrite /\ writer.batch \in Batch
      BY <1>6, <2>2 DEF PublishChunk, NextNumber
    <3>2. writer.seq \in Seqs /\ writer.seq \notin ChunkSeqs
      BY <1>6, <3>1, <2>2 DEF PublishChunk, NextNumber, Busy, ChunkSeqs, Seqs, Writer
    <3>3. Stored' = Stored \cup {writer.batch} /\ ChunkSeqs' = ChunkSeqs \cup {writer.seq}
      BY <1>6, <3>1, <3>2, PublishStored DEF PublishChunk, NextNumber
    <3>4. nextWrite' = nextWrite + 1 /\ \A s \in ChunkSeqs' : s < nextWrite'
      BY <1>6, <2>2, <3>1, <3>3 DEF PublishChunk, NextNumber, ChunkSeqs, Seqs
    <3> QED
      BY <1>6, <2>2, <3>1, <3>3, <3>4 DEF PublishChunk, NextNumber, Idle, InHandoff, InWriter, stopVars
  <2> QED
    BY <2>1, <2>2
<1>7. CASE WriteFails
  BY <1>7 DEF WriteFails, Idle, InHandoff, InWriter, Stored, ChunkSeqs, folderVars, processVars, stopVars
<1>8. CASE OrphanEnds
  BY <1>8 DEF OrphanEnds, Idle, InHandoff, InWriter, Stored, ChunkSeqs, folderVars, processVars, stopVars
<1>9. CASE StopCapture
  BY <1>9 DEF StopCapture, InHandoff, InWriter, Stored, ChunkSeqs, folderVars, processVars, stopVars
<1>10. CASE PipelineFails
  BY <1>10 DEF PipelineFails, AbortWorker, InHandoff, InWriter, Stored, ChunkSeqs, folderVars, processVars, stopVars
<1>11. CASE FinishDrained
  BY <1>11 DEF FinishDrained, InHandoff, InWriter, Stored, ChunkSeqs, folderVars, processVars, stopVars
<1>12. CASE FinishTimeout
  BY <1>12 DEF FinishTimeout, AbortWorker, InHandoff, InWriter, Stored, ChunkSeqs, folderVars, processVars, stopVars
<1>13. CASE StartSave
  BY <1>13 DEF StartSave, InHandoff, InWriter, Stored, ChunkSeqs, folderVars, processVars, stopVars
<1>14. CASE SaveDone
  BY <1>14 DEF SaveDone, InHandoff, InWriter, Stored, ChunkSeqs, folderVars, processVars, stopVars
<1>15. CASE SaveFailed
  BY <1>15 DEF SaveFailed, InHandoff, InWriter, Stored, ChunkSeqs, folderVars, processVars, stopVars
<1>16. CASE SaveDeadline
  BY <1>16 DEF SaveDeadline, InHandoff, InWriter, Stored, ChunkSeqs, folderVars, processVars, stopVars
<1>17. CASE WriteOutcome
  BY <1>17 DEF WriteOutcome, SavedOutcome, MayRelease, InHandoff, InWriter, Stored, ChunkSeqs, folderVars, processVars, stopVars
<1>18. CASE WriteOutcomeFails
  BY <1>18 DEF WriteOutcomeFails, InHandoff, InWriter, Stored, ChunkSeqs, folderVars, processVars, stopVars
<1>19. CASE ReleaseSpool
  BY <1>19 DEF ReleaseSpool, NoSpool, InHandoff, InWriter, Stored, ChunkSeqs, folderVars, processVars, stopVars
<1>20. CASE ReleaseFails
  BY <1>20 DEF ReleaseFails, InHandoff, InWriter, Stored, ChunkSeqs, folderVars, processVars, stopVars
<1>21. CASE WriteReport
  BY <1>21 DEF WriteReport, SavedOutcome, InHandoff, InWriter, Stored, ChunkSeqs, folderVars, processVars, stopVars
<1>22. CASE ListCapture
  <2>1. fin'.pc = "read" /\ fin'.list = CapturePaths /\ fin'.all = fin.all
    BY <1>22 DEF ListCapture, Finalizer
  <2>2. fin'.list.seqs = ChunkSeqs
    BY <2>1 DEF CapturePaths
  <2> QED
    BY <1>22, <2>1, <2>2 DEF ListCapture, InHandoff, InWriter, Stored, ChunkSeqs, folderVars, processVars
<1>23. CASE ReadCapture
  <2>1. fin'.pc = "publish" /\ fin'.staged = Encoded(fin.list) /\ fin'.all = EncodedAll(fin.list)
    BY <1>23 DEF ReadCapture, Finalizer
  <2>2. stop # "crashed" /\ ~incomplete /\ fin'.all => 1 .. captured \subseteq fin'.staged
    <3> SUFFICES ASSUME stop # "crashed", ~incomplete, fin'.all PROVE 1 .. captured \subseteq fin'.staged
      OBVIOUS
    <3>1. Stored \subseteq fin'.staged
      BY <1>23, <2>1, EncodedAllStored DEF ReadCapture
    <3>2. 1 .. captured \subseteq Stored
      BY <1>23 DEF ReadCapture, InHandoff, InWriter
    <3> QED
      BY <3>1, <3>2
  <2> QED
    BY <1>23, <2>1, <2>2 DEF ReadCapture, InHandoff, InWriter, Stored, ChunkSeqs, folderVars, processVars
<1>24. CASE PublishAudio
  <2>1. fin'.pc = "done" /\ fin'.all = fin.all
    BY <1>24 DEF PublishAudio, Finalizer
  <2> QED
    BY <1>24, <2>1 DEF PublishAudio, InHandoff, InWriter, Stored, ChunkSeqs, processVars
<1>25. CASE FinalizeFails
  BY <1>25 DEF FinalizeFails, InHandoff, InWriter, Stored, ChunkSeqs, folderVars, processVars, stopVars
<1>26. ASSUME NEW s \in Seqs, Damage(s) PROVE GapsInv'
  BY <1>26 DEF Damage, InHandoff, InWriter, Stored, ChunkSeqs, processVars, stopVars, SavedOutcome
<1>27. CASE Crash
  <2>1. fin'.pc = "none"
    BY <1>27 DEF Crash, NotRun
  <2> QED
    BY <1>27, <2>1 DEF Crash, folderVars
<1>28. CASE UNCHANGED vars
  <2> USE <1>28 DEF vars, folderVars, processVars, stopVars
  <2>1. NothingForgotten'
    BY DEF InHandoff, InWriter, Stored, ChunkSeqs
  <2>2. FinalizeInv'
    BY DEF ChunkSeqs
  <2>3. ReportInv' /\ GapsRecorded'
    OBVIOUS
  <2> QED
    BY <2>1, <2>2, <2>3
<1>29. QED
  BY <1>1, <1>2, <1>3, <1>4, <1>5, <1>6, <1>7, <1>8, <1>9, <1>10, <1>11, <1>12, <1>13, <1>14,
     <1>15, <1>16, <1>17, <1>18, <1>19, <1>20, <1>21, <1>22, <1>23, <1>24, <1>25, <1>26, <1>27, <1>28
     DEF Next, WriterStep, StopStep, FinalizeStep, Finished

(* Missing audio is never silent (finalize_files saves the outcome before it *)
(* removes the originals): whatever fails, stalls or dies in whatever order, *)
(* once the spool is gone audio.mp4 is whole or the outcome admits the gap.  *)
THEOREM GapsAlwaysRecorded == Spec => []GapsRecorded
<1>1. Spec => [](Sane /\ GapsInv)
  BY InitSane, SaneStep, InitGaps, GapsStep, PTL DEF Spec
<1>2. GapsInv => GapsRecorded
  BY DEF GapsInv
<1>3. QED
  BY <1>1, <1>2, PTL

-----------------------------------------------------------------------------
(* What is not admitted is in audio.mp4: the invariant behind CleanOutcome   *)
(* and behind the promise.                                                   *)

\* Whatever is on its way or stored has been captured.
Known ==
  /\ Stored \cup finalAudio \cup fin.staged \subseteq 1 .. captured
  /\ tmp.batch <= captured
  /\ \A i \in 1 .. Len(handoff) : handoff[i] <= captured
  /\ writer.pc # "idle" => writer.batch <= captured

\* No chunk is published under a number that is taken.
Numbered ==
  /\ stop \in Filling => \A s \in ChunkSeqs : s < nextWrite
  /\ writer.pc # "idle" => writer.seq \notin ChunkSeqs

\* Nothing is added to a spool that finalize has begun to read.
Unraced ==
  ~raced /\ stop \notin Before \cup {"crashed"} =>
    /\ writer.pc = "idle"
    /\ fin.pc = "read" => fin.list.seqs = ChunkSeqs
    /\ fin.pc = "publish" /\ fin.all => Stored \subseteq fin.staged
    /\ fin.pc = "done" /\ fin.all => Stored \subseteq finalAudio

\* Without a gap audio.mp4 has everything, and the outcome says what the
\* report says.
Admitted ==
  /\ outcome.capture_incomplete => outcome.saved
  /\ stop # "crashed" =>
       /\ ~incomplete /\ ~fin.gaps /\ fin.pc = "publish" => 1 .. captured \subseteq fin.staged
       /\ ~incomplete /\ ~fin.gaps /\ fin.pc = "done" => 1 .. captured \subseteq finalAudio
       /\ stop \in {"outcome", "release", "report", "stopped"}
          /\ ~report.capture_incomplete /\ ~report.audio_save_failed => fin.pc = "done" /\ ~fin.gaps
       /\ outcome.saved => outcome = SavedOutcome /\ stop \in {"release", "report", "stopped"}

WholeInv == Known /\ Numbered /\ Unraced /\ Admitted /\ CleanOutcome

LEMMA InitWhole == Init => WholeInv
<1> SUFFICES ASSUME Init PROVE WholeInv
  OBVIOUS
<1> USE NAssumption
<1>1. Stored = {} /\ ChunkSeqs = {}
  BY DEF Init, FolderInit, Stored, ChunkSeqs
<1>2. /\ finalAudio = {} /\ fin.staged = {} /\ fin.pc = "none" /\ captured = 0 /\ tmp.batch = 0
      /\ handoff = <<>> /\ writer.pc = "idle" /\ stop = "recording" /\ outcome.saved = FALSE
      /\ outcome.capture_incomplete = FALSE
  BY DEF Init, FolderInit, NotRun, NoTmp, NoBatch, Idle, NoOutcome
<1> QED
  BY <1>1, <1>2 DEF WholeInv, Known, Numbered, Unraced, Admitted, CleanOutcome, Before

\* Only the writer, an audio file and the removal of the spool touch these.
LEMMA SameSpool ==
  ASSUME UNCHANGED chunk
  PROVE  Stored' = Stored /\ ChunkSeqs' = ChunkSeqs
BY DEF Stored, ChunkSeqs

LEMMA KnownStep == Sane /\ WholeInv /\ [Next]_vars => Known'
<1> SUFFICES ASSUME Sane, WholeInv, [Next]_vars PROVE Known'
  OBVIOUS
<1> USE NAssumption, CaptureAssumption
<1> USE DEF WholeInv, Known, Sane, TypeOK
<1>0. captured \in Nat /\ Len(handoff) \in Nat
  OBVIOUS
<1>1. CASE HandOff
  <2>1. /\ captured' = captured + 1 /\ UNCHANGED <<folderVars, writer, fin>>
        /\ handoff' = Append(handoff, captured + 1)
    BY <1>1 DEF HandOff, stopVars
  <2>2. \A i \in 1 .. Len(handoff') : handoff'[i] <= captured'
    <3> SUFFICES ASSUME NEW i \in 1 .. Len(handoff') PROVE handoff'[i] <= captured'
      OBVIOUS
    <3>1. captured + 1 \in Batch
      BY <1>1 DEF HandOff, Batch
    <3>2. CASE i = Len(handoff) + 1
      BY <2>1, <3>1, <3>2
    <3>3. CASE i \in 1 .. Len(handoff)
      <4>1. handoff'[i] = handoff[i] /\ handoff[i] \in Batch /\ handoff[i] <= captured
        BY <2>1, <3>1, <3>3
      <4> QED
        BY <2>1, <4>1, <1>0 DEF Batch
    <3> QED
      BY <2>1, <3>1, <3>2, <3>3
  <2>3. Stored' = Stored
    BY <2>1, SameSpool DEF folderVars
  <2> QED
    BY <1>0, <2>1, <2>2, <2>3 DEF folderVars, FolderTypeOK, TmpFile, Writer, Batch, NoBatch
<1>2. CASE LoseBatch
  <2>1. captured' = captured + 1 /\ UNCHANGED <<folderVars, writer, fin, handoff>>
    BY <1>2 DEF LoseBatch, stopVars
  <2>2. Stored' = Stored
    BY <2>1, SameSpool DEF folderVars
  <2>3. \A i \in 1 .. Len(handoff) : handoff[i] \in Nat
    BY DEF Batch
  <2>4. writer.batch \in Nat /\ tmp.batch \in Nat
    BY DEF FolderTypeOK, TmpFile, Writer, Batch, NoBatch
  <2>5. 1 .. captured \subseteq 1 .. captured'
    BY <1>0, <2>1
  <2>6. Stored' \cup finalAudio' \cup fin'.staged \subseteq 1 .. captured'
    BY <2>1, <2>2, <2>5 DEF folderVars
  <2> QED
    BY <1>0, <2>1, <2>3, <2>4, <2>6 DEF folderVars
<1>3. CASE TakeBatch
  <2>1. /\ tmp'.batch = Head(handoff) /\ writer'.batch = Head(handoff) /\ handoff # <<>>
        /\ handoff' = Tail(handoff) /\ UNCHANGED <<chunk, finalAudio, fin, captured>>
    BY <1>3 DEF TakeBatch, stopVars
  <2>2. Head(handoff) <= captured
    BY <2>1
  <2>3. \A i \in 1 .. Len(handoff') : handoff'[i] <= captured
    BY <2>1
  <2> QED
    BY <2>1, <2>2, <2>3, SameSpool
<1>4. CASE CreateFails
  <2>1. /\ handoff # <<>> /\ handoff' = Tail(handoff)
        /\ UNCHANGED <<chunk, tmp, finalAudio, fin, captured, writer>>
    BY <1>4 DEF CreateFails, stopVars
  <2>2. \A i \in 1 .. Len(handoff') : handoff'[i] <= captured
    BY <2>1
  <2> QED
    BY <2>1, <2>2, SameSpool
<1>5. CASE PublishChunk
  <2>1. /\ writer.pc = "rename" /\ chunk' = [chunk EXCEPT ![writer.seq] = writer.batch] /\ tmp'.batch = 0
        /\ writer'.pc = "idle" /\ UNCHANGED <<finalAudio, fin, captured, handoff>>
    BY <1>5 DEF PublishChunk, NoTmp, NoBatch, Idle, stopVars
  <2>2. writer.batch \in 1 .. captured
    BY <2>1, <1>0 DEF WriterInv, Batch
  <2>3. Stored' \subseteq Stored \cup {writer.batch}
    BY <2>1 DEF Stored, ChunkSeqs, FolderTypeOK
  <2> QED
    BY <1>0, <2>1, <2>2, <2>3
<1>6. CASE ReadCapture
  <2>1. fin'.staged = Encoded(fin.list) /\ UNCHANGED <<folderVars, captured, handoff, writer>>
    BY <1>6 DEF ReadCapture, Finalizer, processVars
  <2>2. Encoded(fin.list) \subseteq Stored \cup {b \in {tmp.batch} : b # NoBatch}
    BY DEF Encoded, Stored, Readable, TailReadable
  <2>3. {b \in {tmp.batch} : b # NoBatch} \subseteq 1 .. captured
    BY <1>0 DEF FolderTypeOK, TmpFile, Batch, NoBatch
  <2> QED
    BY <2>1, <2>2, <2>3, SameSpool DEF folderVars
<1>7. CASE PublishAudio
  <2>1. finalAudio' = fin.staged /\ fin'.staged = fin.staged
        /\ UNCHANGED <<chunk, tmp, captured, handoff, writer>>
    BY <1>7 DEF PublishAudio, Finalizer, processVars
  <2> QED
    BY <2>1, SameSpool
<1>8. CASE ReleaseSpool
  <2>1. Stored' = {} /\ tmp'.batch = 0 /\ UNCHANGED <<finalAudio, captured, handoff, writer, fin>>
    BY <1>8 DEF ReleaseSpool, NoSpool, Stored, ChunkSeqs, NoTmp, NoBatch, processVars
  <2> QED
    BY <1>0, <2>1
<1>9. CASE Crash
  <2>1. /\ handoff' = <<>> /\ writer'.pc = "idle" /\ fin'.staged = {}
        /\ UNCHANGED <<chunk, tmp, finalAudio, captured>>
    BY <1>9 DEF Crash, Idle, NotRun, folderVars
  <2> QED
    BY <2>1, SameSpool
<1>10. CASE FillTmp
  <2>1. /\ tmp'.batch = tmp.batch /\ writer'.batch = writer.batch /\ writer.pc # "idle"
        /\ UNCHANGED <<chunk, finalAudio, fin, captured, handoff>>
    BY <1>10 DEF FillTmp, FolderTypeOK, TmpFile, Writer, stopVars
  <2> QED
    BY <2>1, SameSpool
<1>11. CASE AbortWorker
  BY <1>11, SameSpool DEF AbortWorker, folderVars
<1>12. CASE \/ WriteFails \/ OrphanEnds \/ StopCapture \/ FinishDrained \/ StartSave \/ ListCapture
            \/ FinalizeFails \/ SaveDone \/ SaveFailed \/ SaveDeadline \/ WriteOutcome
            \/ WriteOutcomeFails \/ ReleaseFails \/ WriteReport
            \/ (\E s \in Seqs : Damage(s)) \/ UNCHANGED vars
  <2> USE DEF WriteFails, OrphanEnds, StopCapture, FinishDrained, StartSave, ListCapture,
        FinalizeFails, SaveDone, SaveFailed, SaveDeadline, WriteOutcome, WriteOutcomeFails,
        ReleaseFails, WriteReport, Damage, vars, folderVars, processVars, stopVars
  <2>1. UNCHANGED <<chunk, tmp, finalAudio, captured, handoff>>
    BY <1>12
  <2>2. UNCHANGED writer \/ writer'.pc = "idle"
    BY <1>12 DEF Idle
  <2>3. fin'.staged = fin.staged
    BY <1>12 DEF Finalizer
  <2> QED
    BY <2>1, <2>2, <2>3, SameSpool
<1> QED
  BY <1>1, <1>2, <1>3, <1>4, <1>5, <1>6, <1>7, <1>8, <1>9, <1>10, <1>11, <1>12
     DEF Next, WriterStep, StopStep, FinalizeStep, Finished, FinishTimeout, PipelineFails

LEMMA NumberedStep == Sane /\ WholeInv /\ [Next]_vars => Numbered'
<1> SUFFICES ASSUME Sane, WholeInv, [Next]_vars PROVE Numbered'
  OBVIOUS
<1> USE NAssumption, CaptureAssumption
<1> USE DEF WholeInv, Numbered, Filling
<1>1. CASE TakeBatch
  BY <1>1, SameSpool DEF TakeBatch, stopVars, Sane, TypeOK, ChunkSeqs, Seqs
<1>2. CASE PublishChunk
  <2>1. /\ writer.pc = "rename" /\ chunk' = [chunk EXCEPT ![writer.seq] = writer.batch]
        /\ nextWrite' = NextNumber /\ writer'.pc = "idle" /\ UNCHANGED stop
    BY <1>2 DEF PublishChunk, Idle, stopVars
  <2>2. CASE stop \in Filling
    <3>1. ~orphan /\ writer.seq = nextWrite /\ nextWrite' = nextWrite + 1 /\ nextWrite \in Nat
      BY <2>1, <2>2 DEF Sane, TypeOK, WriterInv, NextNumber
    <3>2. ChunkSeqs' \subseteq ChunkSeqs \cup {nextWrite}
      BY <2>1, <3>1 DEF ChunkSeqs, Sane, TypeOK, FolderTypeOK
    <3> QED
      BY <2>1, <2>2, <3>1, <3>2 DEF ChunkSeqs, Seqs
  <2> QED
    BY <2>1, <2>2
<1>3. CASE ReleaseSpool
  BY <1>3 DEF ReleaseSpool, NoSpool, ChunkSeqs
<1>4. CASE FillTmp
  BY <1>4, SameSpool DEF FillTmp, Sane, TypeOK, Writer, stopVars
<1>5. CASE \/ HandOff \/ LoseBatch \/ CreateFails \/ WriteFails \/ OrphanEnds
           \/ (\E s \in Seqs : Damage(s)) \/ UNCHANGED vars
  BY <1>5, SameSpool DEF HandOff, LoseBatch, CreateFails, WriteFails, OrphanEnds, Damage, vars,
     folderVars, processVars, stopVars, Idle
<1>6. CASE StopCapture \/ PipelineFails \/ (StopStep /\ ~ReleaseSpool) \/ FinalizeStep \/ Crash
  <2>1. /\ UNCHANGED <<chunk, nextWrite>>
        /\ UNCHANGED writer \/ writer'.pc = "idle"
        /\ stop' \in Filling => stop \in Filling
    BY <1>6 DEF StopCapture, PipelineFails, StopStep, FinalizeStep, Crash, AbortWorker, FinishDrained,
       FinishTimeout, StartSave, ListCapture, ReadCapture, PublishAudio, FinalizeFails, SaveDone,
       SaveFailed, SaveDeadline, WriteOutcome, WriteOutcomeFails, ReleaseFails, WriteReport,
       folderVars, processVars, Idle
  <2> QED
    BY <2>1, SameSpool
<1> QED
  BY <1>1, <1>2, <1>3, <1>4, <1>5, <1>6 DEF Next, WriterStep, StopStep, Finished

LEMMA UnracedStep == Sane /\ GapsInv /\ WholeInv /\ [Next]_vars => Unraced'
<1> SUFFICES ASSUME Sane, GapsInv, WholeInv, [Next]_vars, ~raced',
                    stop' \notin Before \cup {"crashed"}
             PROVE  /\ writer'.pc = "idle"
                    /\ fin'.pc = "read" => fin'.list.seqs = ChunkSeqs'
                    /\ fin'.pc = "publish" /\ fin'.all => Stored' \subseteq fin'.staged
                    /\ fin'.pc = "done" /\ fin'.all => Stored' \subseteq finalAudio'
  BY DEF Unraced
<1> USE NAssumption, CaptureAssumption
<1> USE DEF Before, Filling, WholeInv, Unraced, GapsInv, FinalizeInv, Sane, TypeOK
<1>1. CASE StartSave
  BY <1>1 DEF StartSave, processVars, Finalizer
<1>2. CASE ListCapture
  BY <1>2, SameSpool DEF ListCapture, folderVars, processVars, Finalizer, CapturePaths
<1>3. CASE ReadCapture
  <2>1. /\ fin.pc = "read" /\ fin'.pc = "publish" /\ fin'.staged = Encoded(fin.list)
        /\ fin'.all = EncodedAll(fin.list) /\ UNCHANGED <<folderVars, writer, raced, stop>>
    BY <1>3 DEF ReadCapture, Finalizer, processVars
  <2> QED
    BY <2>1, SameSpool, EncodedAllStored DEF folderVars
<1>4. CASE PublishAudio
  <2>1. /\ fin.pc = "publish" /\ fin'.pc = "done" /\ finalAudio' = fin.staged /\ fin'.all = fin.all
        /\ UNCHANGED <<chunk, writer, raced, stop>>
    BY <1>4 DEF PublishAudio, Finalizer, processVars
  <2> QED
    BY <2>1, SameSpool
<1>5. CASE ReleaseSpool
  <2>1. stop = "release" /\ Stored' = {} /\ UNCHANGED <<fin, writer, raced>>
    BY <1>5 DEF ReleaseSpool, NoSpool, Stored, ChunkSeqs, processVars
  <2>2. fin.pc = "done"
    BY <2>1 DEF ReportInv
  <2> QED
    BY <2>1, <2>2
<1>6. CASE FinalizeFails
  BY <1>6 DEF FinalizeFails, folderVars, processVars, Finalizer
<1>7. CASE WriterStep \/ HandOff \/ LoseBatch
  BY <1>7 DEF WriterStep, TakeBatch, CreateFails, FillTmp, PublishChunk, WriteFails, OrphanEnds,
     HandOff, LoseBatch, stopVars
<1>8. CASE \/ StopCapture \/ PipelineFails \/ FinishDrained \/ FinishTimeout \/ Crash
  BY <1>8 DEF StopCapture, PipelineFails, FinishDrained, FinishTimeout, AbortWorker, Crash
<1>9. CASE \/ SaveDone \/ SaveFailed \/ SaveDeadline \/ WriteOutcome \/ WriteOutcomeFails
           \/ ReleaseFails \/ WriteReport \/ (\E s \in Seqs : Damage(s)) \/ UNCHANGED vars
  <2>1. /\ UNCHANGED <<chunk, finalAudio, writer, fin, raced>>
        /\ stop \notin Before \cup {"crashed"}
    BY <1>9 DEF SaveDone, SaveFailed, SaveDeadline, WriteOutcome, WriteOutcomeFails, ReleaseFails,
       WriteReport, Damage, vars, folderVars, processVars, stopVars
  <2> QED
    BY <2>1, SameSpool
<1> QED
  BY <1>1, <1>2, <1>3, <1>4, <1>5, <1>6, <1>7, <1>8, <1>9 DEF Next, StopStep, FinalizeStep, Finished

\* A listing without gaps misses nothing that is stored.
LEMMA EncodedWhole ==
  ASSUME NEW list, list.seqs = ChunkSeqs, ~EncodedGaps(list)
  PROVE  Stored \subseteq Encoded(list)
BY DEF EncodedGaps, Encoded, Stored, Readable, ChunkSeqs

LEMMA AdmittedStep == Sane /\ GapsInv /\ WholeInv /\ [Next]_vars => Admitted' /\ CleanOutcome'
<1> SUFFICES ASSUME Sane, GapsInv, WholeInv, [Next]_vars PROVE Admitted' /\ CleanOutcome'
  OBVIOUS
<1> USE NAssumption, CaptureAssumption
<1> USE DEF Before, Filling, WholeInv, Admitted, CleanOutcome, GapsInv, FinalizeInv, Sane, TypeOK,
        SavedOutcome
<1>1. CASE HandOff \/ LoseBatch
  <2>1. /\ stop = "recording" /\ UNCHANGED <<folderVars, stopVars>>
    BY <1>1 DEF HandOff, LoseBatch
  <2> QED
    BY <2>1 DEF folderVars, stopVars
<1>2. CASE TakeBatch \/ FillTmp \/ PublishChunk \/ OrphanEnds \/ (\E s \in Seqs : Damage(s))
           \/ UNCHANGED vars
  <2>1. UNCHANGED <<outcome, finalAudio, incomplete, fin, report, captured, stop>>
    BY <1>2 DEF TakeBatch, FillTmp, PublishChunk, OrphanEnds, Damage, vars, folderVars, stopVars,
       processVars
  <2> QED
    BY <2>1
<1>3. CASE CreateFails \/ WriteFails
  <2>1. incomplete' /\ UNCHANGED <<outcome, finalAudio, fin, report, captured, stop>>
    BY <1>3 DEF CreateFails, WriteFails, stopVars
  <2> QED
    BY <2>1
<1>4. CASE StopCapture \/ PipelineFails \/ FinishDrained \/ FinishTimeout
  <2>1. /\ stop \in Before /\ stop' \in {"finishing", "drained"}
        /\ UNCHANGED <<folderVars, fin, report, captured>>
    BY <1>4 DEF StopCapture, PipelineFails, FinishDrained, FinishTimeout, AbortWorker, processVars
  <2> QED
    BY <2>1 DEF folderVars
<1>5. CASE StartSave
  <2>1. /\ stop = "drained" /\ stop' = "saving" /\ fin'.pc = "list"
        /\ UNCHANGED <<outcome, finalAudio, processVars>>
    BY <1>5 DEF StartSave, Finalizer
  <2> QED
    BY <2>1 DEF processVars
<1>6. CASE ListCapture \/ FinalizeFails
  <2>1. /\ fin.pc \in {"list", "read", "publish"} /\ fin'.pc \in {"read", "failed"}
        /\ UNCHANGED <<folderVars, processVars, stop, report>>
    BY <1>6 DEF ListCapture, FinalizeFails, Finalizer
  <2> QED
    BY <2>1 DEF folderVars, processVars
<1>7. CASE ReadCapture
  <2>1. /\ fin.pc = "read" /\ fin'.pc = "publish" /\ fin'.staged = Encoded(fin.list)
        /\ fin'.gaps = (fin.gaps \/ EncodedGaps(fin.list))
        /\ UNCHANGED <<folderVars, processVars, stop, report>>
    BY <1>7 DEF ReadCapture, Finalizer
  <2>2. stop # "crashed" /\ ~incomplete /\ ~fin'.gaps => 1 .. captured \subseteq fin'.staged
    <3> SUFFICES ASSUME stop # "crashed", ~incomplete, ~fin'.gaps
                 PROVE  1 .. captured \subseteq fin'.staged
      OBVIOUS
    <3>1. Stored \subseteq fin'.staged
      BY <2>1, EncodedWhole
    <3>2. 1 .. captured \subseteq Stored
      BY <2>1 DEF NothingForgotten, InHandoff, InWriter
    <3> QED
      BY <3>1, <3>2
  <2> QED
    BY <2>1, <2>2 DEF folderVars, processVars
<1>8. CASE PublishAudio
  <2>1. /\ fin.pc = "publish" /\ fin'.pc = "done" /\ finalAudio' = fin.staged /\ fin'.gaps = fin.gaps
        /\ UNCHANGED <<outcome, processVars, stop, report>>
    BY <1>8 DEF PublishAudio, Finalizer
  <2>2. stop # "crashed"
    BY <2>1
  <2> QED
    BY <2>1, <2>2 DEF processVars
<1>9. CASE SaveDone
  <2>1. /\ stop = "saving" /\ stop' = "outcome" /\ fin.pc = "done"
        /\ report'.capture_incomplete = (report.capture_incomplete \/ fin.gaps)
        /\ UNCHANGED <<folderVars, processVars, fin>>
    BY <1>9 DEF SaveDone, Report
  <2> QED
    BY <2>1 DEF folderVars, processVars
<1>10. CASE SaveFailed \/ SaveDeadline
  <2>1. /\ stop = "saving" /\ stop' \in {"outcome", "report"} /\ report'.audio_save_failed
        /\ UNCHANGED <<folderVars, processVars, fin>>
    BY <1>10 DEF SaveFailed, SaveDeadline, Report
  <2> QED
    BY <2>1 DEF folderVars, processVars
<1>11. CASE WriteOutcome \/ WriteReport
  <2>1. /\ stop \in {"outcome", "report"} /\ stop' \in {"release", "report", "stopped"}
        /\ stop = "report" => stop' = "stopped"
        /\ outcome' = SavedOutcome \/ UNCHANGED outcome
        /\ UNCHANGED <<finalAudio, processVars, fin, report>>
    BY <1>11 DEF WriteOutcome, WriteReport
  <2>2. ~report.capture_incomplete /\ ~report.audio_save_failed => finalAudio = 1 .. captured
    BY <2>1 DEF ReportInv, Known
  <2> QED
    BY <2>1, <2>2 DEF processVars
<1>12. CASE WriteOutcomeFails \/ ReleaseFails \/ ReleaseSpool
  <2>1. /\ stop \in {"outcome", "release"} /\ stop' = "report"
        /\ UNCHANGED <<outcome, finalAudio, processVars, fin, report>>
    BY <1>12 DEF WriteOutcomeFails, ReleaseFails, ReleaseSpool, folderVars
  <2> QED
    BY <2>1 DEF processVars
<1>13. CASE Crash
  BY <1>13 DEF Crash, folderVars
<1> QED
  BY <1>1, <1>2, <1>3, <1>4, <1>5, <1>6, <1>7, <1>8, <1>9, <1>10, <1>11, <1>12, <1>13
     DEF Next, WriterStep, StopStep, FinalizeStep, Finished

LEMMA WholeStep == Sane /\ GapsInv /\ WholeInv /\ [Next]_vars => WholeInv'
BY KnownStep, NumberedStep, UnracedStep, AdmittedStep DEF WholeInv

LEMMA SpoolAlways == Spec => [](Sane /\ GapsInv /\ WholeInv)
BY InitSane, SaneStep, InitGaps, GapsStep, InitWhole, WholeStep, PTL DEF Spec

(* A meeting saved without a warning is whole (finalize_files and the        *)
(* outcome of stop_recording): whatever fails, stalls or dies, an outcome    *)
(* with both flags clear comes with an audio.mp4 of all that was captured.   *)
THEOREM CleanIsWhole == Spec => []CleanOutcome
<1>1. WholeInv => CleanOutcome
  BY DEF WholeInv
<1> QED
  BY <1>1, SpoolAlways, PTL

-----------------------------------------------------------------------------
(* CaptureSpool implements CapturePromise, step by step.                     *)

LEMMA PromiseStep == Sane /\ GapsInv /\ WholeInv /\ [Next]_vars => [raced \/ Promise!Next]_Promise!vars
<1> SUFFICES ASSUME Sane, GapsInv, WholeInv, [Next]_vars, ~raced
             PROVE  Promise!Next \/ UNCHANGED <<captured, Stored, finalAudio,
                                               outcome.capture_incomplete, spoolDir>>
  BY DEF Promise!vars
<1> USE NAssumption, CaptureAssumption
<1> USE DEF Before, Filling, Sane, TypeOK, GapsInv, WholeInv
<1>1. CASE HandOff \/ LoseBatch
  <2>1. /\ stop = "recording" /\ captured < N /\ captured' = captured + 1 /\ UNCHANGED folderVars
    BY <1>1 DEF HandOff, LoseBatch
  <2>2. spoolDir
    BY <2>1 DEF FinalizeInv
  <2>3. Promise!Hear
    BY <2>1, <2>2, SameSpool DEF Promise!Hear, folderVars
  <2> QED
    BY <2>3 DEF Promise!Next
<1>2. CASE PublishChunk
  <2>1. /\ spoolDir /\ writer.pc = "rename" /\ chunk' = [chunk EXCEPT ![writer.seq] = writer.batch]
        /\ UNCHANGED <<spoolDir, finalAudio, outcome, captured>>
    BY <1>2 DEF PublishChunk
  <2>2. writer.batch \in 1 .. captured /\ writer.batch \in Batch
    BY <2>1 DEF WriterInv, Known, Batch
  <2>3. CASE writer.seq \in Seqs
    <3>1. Stored' = Stored \cup {writer.batch}
      BY <2>1, <2>2, <2>3, PublishStored DEF Numbered
    <3>2. Promise!Keep(writer.batch)
      BY <2>1, <3>1 DEF Promise!Keep
    <3> QED
      BY <2>2, <3>2 DEF Promise!Next
  <2>4. CASE writer.seq \notin Seqs
    <3>1. chunk' = chunk
      BY <2>1, <2>4 DEF FolderTypeOK
    <3> QED
      BY <2>1, <3>1, SameSpool
  <2> QED
    BY <2>3, <2>4
<1>3. CASE PublishAudio
  <2>1. fin.pc = "publish" /\ finalAudio' = fin.staged /\ UNCHANGED <<chunk, captured, outcome, spoolDir>>
    BY <1>3 DEF PublishAudio, processVars
  <2>2. spoolDir /\ fin.staged \in SUBSET (1 .. captured)
    BY <2>1 DEF FinalizeInv, Known
  <2>3. Promise!Save(fin.staged)
    BY <2>1, <2>2, SameSpool DEF Promise!Save
  <2> QED
    BY <2>2, <2>3 DEF Promise!Next
<1>4. CASE WriteOutcome \/ WriteReport
  <2>1. /\ stop \in {"outcome", "report"}
        /\ outcome' = SavedOutcome \/ UNCHANGED outcome
        /\ UNCHANGED <<chunk, captured, finalAudio, spoolDir>>
    BY <1>4 DEF WriteOutcome, WriteReport, processVars
  <2>2. outcome.capture_incomplete => outcome = SavedOutcome
    BY <2>1 DEF Admitted
  <2>3. outcome'.capture_incomplete \in BOOLEAN /\ outcome.capture_incomplete \in BOOLEAN
    BY <2>1 DEF FolderTypeOK, Outcome, SavedOutcome, Report
  <2>4. CASE outcome'.capture_incomplete = outcome.capture_incomplete
    BY <2>1, <2>4, SameSpool
  <2>5. CASE outcome'.capture_incomplete # outcome.capture_incomplete
    <3>1. outcome'.capture_incomplete = TRUE
      BY <2>1, <2>2, <2>3, <2>5
    <3>2. Promise!Admit
      BY <2>1, <3>1, SameSpool DEF Promise!Admit
    <3> QED
      BY <3>2 DEF Promise!Next
  <2> QED
    BY <2>4, <2>5
<1>5. CASE ReleaseSpool
  <2>1. /\ stop = "release" /\ ~spoolDir' /\ Stored' = {} /\ UNCHANGED <<finalAudio, outcome, captured>>
    BY <1>5 DEF ReleaseSpool, NoSpool, Stored, ChunkSeqs, processVars
  <2>2. spoolDir /\ fin.pc = "done" /\ fin.all /\ outcome = SavedOutcome
    BY <2>1 DEF FinalizeInv, ReportInv
  <2>3. Stored \subseteq finalAudio
    BY <2>1, <2>2 DEF Unraced
  <2>4. outcome.capture_incomplete \/ finalAudio = 1 .. captured
    BY <2>1, <2>2 DEF FinalizeInv, ReportInv, SavedOutcome, Known
  <2>5. Promise!Release
    BY <2>1, <2>2, <2>3, <2>4 DEF Promise!Release
  <2> QED
    BY <2>5 DEF Promise!Next
<1>6. CASE \/ TakeBatch \/ CreateFails \/ FillTmp \/ WriteFails \/ OrphanEnds
           \/ (\E s \in Seqs : Damage(s)) \/ UNCHANGED vars
  BY <1>6, SameSpool DEF TakeBatch, CreateFails, FillTmp, WriteFails, OrphanEnds, Damage, vars,
     folderVars, processVars
<1>7. CASE \/ StopCapture \/ PipelineFails \/ FinishDrained \/ FinishTimeout \/ StartSave \/ Crash
  BY <1>7, SameSpool DEF StopCapture, PipelineFails, FinishDrained, FinishTimeout, AbortWorker,
     StartSave, Crash, folderVars, processVars
<1>8. CASE \/ ListCapture \/ ReadCapture \/ FinalizeFails \/ SaveDone \/ SaveFailed \/ SaveDeadline
           \/ WriteOutcomeFails \/ ReleaseFails
  BY <1>8, SameSpool DEF ListCapture, ReadCapture, FinalizeFails, SaveDone, SaveFailed, SaveDeadline,
     WriteOutcomeFails, ReleaseFails, folderVars, processVars
<1> QED
  BY <1>1, <1>2, <1>3, <1>4, <1>5, <1>6, <1>7, <1>8
     DEF Next, WriterStep, StopStep, FinalizeStep, Finished

(* The capture path keeps its promise: originals are released only for an    *)
(* audio file that has them, with every missing batch admitted, and an       *)
(* admission is never taken back; until finalize races an abandoned write.   *)
THEOREM PromiseKept == Spec => KeepsPromise
<1>1. Init => Promise!Init
  BY DEF Init, FolderInit, Promise!Init, Stored, ChunkSeqs, NoOutcome
<1> QED
  BY <1>1, SpoolAlways, PromiseStep, PTL DEF Spec, KeepsPromise

-----------------------------------------------------------------------------
(* The commands of the library beside a recording: types.                    *)

RecoverySane == RecoveryTypeOK /\ WriterInv

CommandSteps == {"idle", "encode", "publish", "supersede", "recovered", "inspect", "transcribe",
                 "file", "release", "read", "probe", "write", "remove"}

LEMMA NoTaskType == NoTask \in TaskRecord /\ NoTask.pc = "idle" /\ NoTask.kind = "none" /\ NoTask.staged = {}
BY DEF NoTask, TaskRecord, NoList, Listing, NoOutcome, Outcome

\* What one command does leaves the others where they are.
LEMMA CommandMoves ==
  ASSUME task \in [Tasks -> TaskRecord], NEW t \in Tasks
  PROVE  /\ \A pc \in CommandSteps : Goto(t, pc) =>
              /\ task' \in [Tasks -> TaskRecord]
              /\ task'[t].pc = pc /\ task'[t].kind = task[t].kind /\ task'[t].gaps = task[t].gaps
              /\ task'[t].fmt = task[t].fmt /\ task'[t].staged = task[t].staged
              /\ task'[t].read = task[t].read
              /\ \A other \in Tasks : other # t => task'[other] = task[other]
         /\ EndTask(t) =>
              /\ task' \in [Tasks -> TaskRecord]
              /\ task'[t] = NoTask
              /\ \A other \in Tasks : other # t => task'[other] = task[other]
<1>1. ASSUME NEW pc \in CommandSteps, Goto(t, pc)
      PROVE  /\ task' \in [Tasks -> TaskRecord]
             /\ task'[t].pc = pc /\ task'[t].kind = task[t].kind /\ task'[t].gaps = task[t].gaps
             /\ task'[t].fmt = task[t].fmt /\ task'[t].staged = task[t].staged
             /\ task'[t].read = task[t].read
             /\ \A other \in Tasks : other # t => task'[other] = task[other]
  BY <1>1 DEF Goto, TaskRecord, CommandSteps
<1>2. EndTask(t) => /\ task' \in [Tasks -> TaskRecord]
                    /\ task'[t] = NoTask
                    /\ \A other \in Tasks : other # t => task'[other] = task[other]
  BY NoTaskType DEF EndTask
<1> QED
  BY <1>1, <1>2

LEMMA CommandBegins ==
  ASSUME task \in [Tasks -> TaskRecord], FolderTypeOK, NEW t \in Tasks,
         NEW kind \in {"dialog", "open", "retranscribe"}, Begin(t, kind)
  PROVE  /\ task' \in [Tasks -> TaskRecord]
         /\ task'[t].pc = "encode" /\ task'[t].kind = kind /\ task'[t].gaps = ListingGaps
         /\ task'[t].list = CapturePaths /\ task'[t].staged = {} /\ task'[t].fmt = "mp4"
         /\ \A other \in Tasks : other # t => task'[other] = task[other]
<1> DEFINE new == [NoTask EXCEPT !.kind = kind, !.pc = "encode", !.fmt = "mp4",
                                 !.list = CapturePaths, !.gaps = ListingGaps]
<1>1. CapturePaths \in Listing
  BY CapturePathsType
<1>2. ListingGaps \in BOOLEAN
  BY DEF ListingGaps, Contiguous, CapturePaths, FolderTypeOK
<1>3. /\ new \in TaskRecord
      /\ new.pc = "encode" /\ new.kind = kind /\ new.gaps = ListingGaps
      /\ new.list = CapturePaths /\ new.staged = {} /\ new.fmt = "mp4"
  BY <1>1, <1>2, NoTaskType DEF TaskRecord, Formats
<1>4. new \in TaskRecord
  BY <1>3
<1>5. task' = [task EXCEPT ![t] = new]
  BY DEF Begin
<1> HIDE DEF new
<1>6. task' \in [Tasks -> TaskRecord] /\ task'[t] = new
      /\ \A other \in Tasks : other # t => task'[other] = task[other]
  BY <1>4, <1>5
<1> QED
  BY <1>3, <1>6

\* A command whose record becomes another one.
LEMMA CommandGets ==
  ASSUME task \in [Tasks -> TaskRecord], NEW t \in Tasks, NEW new \in TaskRecord,
         task' = [task EXCEPT ![t] = new]
  PROVE  /\ task' \in [Tasks -> TaskRecord] /\ task'[t] = new
         /\ \A other \in Tasks : other # t => task'[other] = task[other]
OBVIOUS

LEMMA PartRead ==
  ASSUME task \in [Tasks -> TaskRecord], FolderTypeOK, NEW t \in Tasks, NEW cut \in Seqs, ReadPart(t, cut)
  PROVE  LET part == {s \in task[t].list.seqs : s < cut} IN
         /\ task' \in [Tasks -> TaskRecord]
         /\ task'[t].pc = "encode" /\ task'[t].kind = task[t].kind /\ task'[t].fmt = task[t].fmt
         /\ task'[t].list = [task[t].list EXCEPT !.seqs = @ \ part]
         /\ task'[t].staged = task[t].staged \cup {chunk[s] : s \in Readable(part)}
         /\ task'[t].gaps = (task[t].gaps \/ Readable(part) # part)
         /\ \A other \in Tasks : other # t => task'[other] = task[other]
<1> DEFINE part == {s \in task[t].list.seqs : s < cut}
           read == {chunk[s] : s \in Readable(part)}
           new == [task[t] EXCEPT !.list.seqs = @ \ part, !.staged = @ \cup read,
                                  !.gaps = @ \/ Readable(part) # part]
<1>1. read \in SUBSET Batch
  BY DEF Readable, ChunkSeqs, FolderTypeOK
<1>2. task[t].pc = "encode"
      /\ task' = [task EXCEPT ![t].list.seqs = @ \ part, ![t].staged = @ \cup read,
                              ![t].gaps = @ \/ Readable(part) # part]
  BY DEF ReadPart, Running
<1> HIDE DEF part, read
<1>3. /\ new \in TaskRecord
      /\ new.pc = task[t].pc /\ new.kind = task[t].kind /\ new.fmt = task[t].fmt
      /\ new.list = [task[t].list EXCEPT !.seqs = @ \ part]
      /\ new.staged = task[t].staged \cup read
      /\ new.gaps = (task[t].gaps \/ Readable(part) # part)
  BY <1>1 DEF TaskRecord, Listing
<1>4. task' = [task EXCEPT ![t] = new]
  BY <1>2
<1> HIDE DEF new
<1>5. task' \in [Tasks -> TaskRecord] /\ task'[t] = new
      /\ \A other \in Tasks : other # t => task'[other] = task[other]
  BY <1>3, <1>4, CommandGets
<1> QED
  BY <1>2, <1>3, <1>5 DEF part, read

LEMMA ChunkSkipped ==
  ASSUME task \in [Tasks -> TaskRecord], NEW t \in Tasks, NEW s, SkipChunk(t, s)
  PROVE  /\ task' \in [Tasks -> TaskRecord]
         /\ task'[t].pc = "encode" /\ task'[t].kind = task[t].kind /\ task'[t].fmt = task[t].fmt
         /\ task'[t].staged = task[t].staged /\ task'[t].gaps
         /\ task'[t].list = [task[t].list EXCEPT !.seqs = @ \ {s}]
         /\ \A other \in Tasks : other # t => task'[other] = task[other]
<1> DEFINE new == [task[t] EXCEPT !.list.seqs = @ \ {s}, !.gaps = TRUE]
<1>1. task[t].pc = "encode" /\ task' = [task EXCEPT ![t].list.seqs = @ \ {s}, ![t].gaps = TRUE]
  BY DEF SkipChunk, Running
<1>2. /\ new \in TaskRecord
      /\ new.pc = task[t].pc /\ new.kind = task[t].kind /\ new.fmt = task[t].fmt
      /\ new.list = [task[t].list EXCEPT !.seqs = @ \ {s}]
      /\ new.staged = task[t].staged /\ new.gaps
  BY DEF TaskRecord, Listing
<1>3. task' = [task EXCEPT ![t] = new]
  BY <1>1
<1> HIDE DEF new
<1> QED
  BY <1>1, <1>2, <1>3, CommandGets

LEMMA Rebuilt ==
  ASSUME task \in [Tasks -> TaskRecord], FolderTypeOK, NEW t \in Tasks, Rebuild(t)
  PROVE  /\ task' \in [Tasks -> TaskRecord]
         /\ task[t].pc = "encode" /\ task'[t].pc = "publish" /\ task'[t].kind = task[t].kind
         /\ task'[t].fmt = task[t].fmt
         /\ task'[t].staged = task[t].staged \cup Encoded(task[t].list) /\ task'[t].staged # {}
         /\ task'[t].gaps = (task[t].gaps \/ Unread(task[t].list))
         /\ \A other \in Tasks : other # t => task'[other] = task[other]
<1> DEFINE all == Encoded(task[t].list)
           miss == Unread(task[t].list)
           new == [task[t] EXCEPT !.pc = "publish", !.staged = @ \cup all, !.gaps = @ \/ miss]
<1>1. all \in SUBSET Batch /\ miss \in BOOLEAN
  BY EncodedType DEF Unread
<1>2. /\ task[t].pc = "encode" /\ task[t].staged \cup all # {}
      /\ task' = [task EXCEPT ![t].pc = "publish", ![t].staged = @ \cup all, ![t].gaps = @ \/ miss]
  BY DEF Rebuild, Running
<1> HIDE DEF all, miss
<1>3. /\ new \in TaskRecord
      /\ new.pc = "publish" /\ new.kind = task[t].kind /\ new.fmt = task[t].fmt
      /\ new.staged = task[t].staged \cup all /\ new.gaps = (task[t].gaps \/ miss)
  BY <1>1 DEF TaskRecord
<1>4. task' = [task EXCEPT ![t] = new]
  BY <1>2
<1> HIDE DEF new
<1>5. task' \in [Tasks -> TaskRecord] /\ task'[t] = new
      /\ \A other \in Tasks : other # t => task'[other] = task[other]
  BY <1>3, <1>4, CommandGets
<1> QED
  BY <1>2, <1>3, <1>5 DEF all, miss

LEMMA EncoderRetried ==
  ASSUME task \in [Tasks -> TaskRecord], FolderTypeOK, NEW t \in Tasks, EncoderFails(t)
  PROVE  /\ task' \in [Tasks -> TaskRecord]
         /\ task[t].pc = "encode" /\ task'[t].pc = "encode" /\ task'[t].kind = task[t].kind
         /\ task'[t].fmt = "wav" /\ task'[t].list = CapturePaths /\ task'[t].staged = {}
         /\ task'[t].gaps = ListingGaps
         /\ \A other \in Tasks : other # t => task'[other] = task[other]
<1> DEFINE paths == CapturePaths
           holes == ListingGaps
           new == [task[t] EXCEPT !.fmt = "wav", !.list = paths, !.staged = {}, !.gaps = holes]
<1>1. paths \in Listing /\ holes \in BOOLEAN
  BY CapturePathsType DEF ListingGaps, Contiguous, CapturePaths, FolderTypeOK
<1>2. /\ task[t].pc = "encode"
      /\ task' = [task EXCEPT ![t].fmt = "wav", ![t].list = paths, ![t].staged = {}, ![t].gaps = holes]
  BY DEF EncoderFails, Running
<1> HIDE DEF paths, holes
<1>3. /\ new \in TaskRecord
      /\ new.pc = task[t].pc /\ new.kind = task[t].kind /\ new.fmt = "wav" /\ new.list = paths
      /\ new.staged = {} /\ new.gaps = holes
  BY <1>1 DEF TaskRecord, Formats
<1>4. task' = [task EXCEPT ![t] = new]
  BY <1>2
<1> HIDE DEF new
<1>5. task' \in [Tasks -> TaskRecord] /\ task'[t] = new
      /\ \A other \in Tasks : other # t => task'[other] = task[other]
  BY <1>3, <1>4, CommandGets
<1> QED
  BY <1>2, <1>3, <1>5 DEF paths, holes

LEMMA Superseded ==
  ASSUME task \in [Tasks -> TaskRecord], FolderTypeOK, NEW t \in Tasks, Supersede(t)
  PROVE  /\ task' \in [Tasks -> TaskRecord]
         /\ task[t].pc = "supersede" /\ task'[t].pc = "recovered" /\ task'[t].kind = task[t].kind
         /\ task'[t].fmt = task[t].fmt /\ task'[t].staged = task[t].staged
         /\ task'[t].gaps = (task[t].gaps \/ (marker /\ task[t].fmt = "mp4"))
         /\ \A other \in Tasks : other # t => task'[other] = task[other]
<1> DEFINE noted == marker /\ task[t].fmt = "mp4"
           new == [task[t] EXCEPT !.pc = "recovered", !.gaps = @ \/ noted]
<1>1. noted \in BOOLEAN
  BY DEF FolderTypeOK
<1>2. /\ task[t].pc = "supersede"
      /\ task' = [task EXCEPT ![t].pc = "recovered", ![t].gaps = @ \/ noted]
  BY DEF Supersede, Running
<1> HIDE DEF noted
<1>3. /\ new \in TaskRecord
      /\ new.pc = "recovered" /\ new.kind = task[t].kind /\ new.fmt = task[t].fmt
      /\ new.staged = task[t].staged /\ new.gaps = (task[t].gaps \/ noted)
  BY <1>1 DEF TaskRecord
<1>4. task' = [task EXCEPT ![t] = new]
  BY <1>2
<1> HIDE DEF new
<1>5. task' \in [Tasks -> TaskRecord] /\ task'[t] = new
      /\ \A other \in Tasks : other # t => task'[other] = task[other]
  BY <1>3, <1>4, CommandGets
<1> QED
  BY <1>2, <1>3, <1>5 DEF noted

\* The saved outcome is read, as evidence or to be written again.
LEMMA OutcomeRead ==
  ASSUME task \in [Tasks -> TaskRecord], FolderTypeOK, NEW t \in Tasks, NEW pc \in CommandSteps,
         task' = [task EXCEPT ![t].pc = pc, ![t].read = outcome]
  PROVE  /\ task' \in [Tasks -> TaskRecord]
         /\ task'[t].pc = pc /\ task'[t].kind = task[t].kind /\ task'[t].read = outcome
         /\ \A other \in Tasks : other # t => task'[other] = task[other]
<1> DEFINE new == [task[t] EXCEPT !.pc = pc, !.read = outcome]
<1>1. outcome \in Outcome
  BY DEF FolderTypeOK
<1>2. /\ new \in TaskRecord
      /\ new.pc = pc /\ new.kind = task[t].kind /\ new.read = outcome
  BY <1>1 DEF TaskRecord, CommandSteps
<1>3. task' = [task EXCEPT ![t] = new]
  OBVIOUS
<1> HIDE DEF new
<1>4. task' \in [Tasks -> TaskRecord] /\ task'[t] = new
      /\ \A other \in Tasks : other # t => task'[other] = task[other]
  BY <1>2, <1>3, CommandGets
<1> QED
  BY <1>2, <1>4

\* What is left of the capture is looked at.
LEMMA CaptureInspected ==
  ASSUME task \in [Tasks -> TaskRecord], FolderTypeOK, NEW t \in Tasks, InspectCapture(t)
  PROVE  /\ task' \in [Tasks -> TaskRecord]
         /\ task[t].pc = "inspect" /\ task'[t].pc = "transcribe" /\ task'[t].kind = task[t].kind
         /\ task'[t].gaps = GapEvidence(t)
         /\ \A other \in Tasks : other # t => task'[other] = task[other]
<1> DEFINE holes == GapEvidence(t)
           new == [task[t] EXCEPT !.pc = "transcribe", !.gaps = holes, !.read = NoOutcome]
<1>1. holes \in BOOLEAN
  BY DEF GapEvidence, CaptureHasGaps, EncodedGaps, FolderTypeOK, TaskRecord, Outcome
<1>2. /\ task[t].pc = "inspect"
      /\ task' = [task EXCEPT ![t].pc = "transcribe", ![t].gaps = holes, ![t].read = NoOutcome]
  BY DEF InspectCapture, Running
<1>3. NoOutcome \in Outcome
  BY DEF NoOutcome, Outcome
<1> HIDE DEF holes
<1>4. /\ new \in TaskRecord
      /\ new.pc = "transcribe" /\ new.kind = task[t].kind /\ new.gaps = holes
  BY <1>1, <1>3 DEF TaskRecord
<1>5. task' = [task EXCEPT ![t] = new]
  BY <1>2
<1> HIDE DEF new
<1>6. task' \in [Tasks -> TaskRecord] /\ task'[t] = new
      /\ \A other \in Tasks : other # t => task'[other] = task[other]
  BY <1>4, <1>5, CommandGets
<1> QED
  BY <1>2, <1>4, <1>6 DEF holes

\* .incomplete is added to the outcome that was read.
LEMMA MarkerProbed ==
  ASSUME task \in [Tasks -> TaskRecord], FolderTypeOK, NEW t \in Tasks, ProbeMarker(t)
  PROVE  /\ task' \in [Tasks -> TaskRecord]
         /\ task[t].pc = "probe" /\ task'[t].pc = "write" /\ task'[t].kind = task[t].kind
         /\ task'[t].read.capture_incomplete = (task[t].read.capture_incomplete \/ marker)
         /\ \A other \in Tasks : other # t => task'[other] = task[other]
<1> DEFINE warned == task[t].read.capture_incomplete \/ marker
           kept == [task[t].read EXCEPT !.saved = TRUE, !.capture_incomplete = warned]
           new == [task[t] EXCEPT !.pc = "write", !.read = kept]
<1>1. task[t].read \in Outcome /\ marker \in BOOLEAN
  BY DEF TaskRecord, FolderTypeOK
<1>2. warned \in BOOLEAN
  BY <1>1 DEF Outcome
<1>3. task[t].pc = "probe" /\ task' = [task EXCEPT ![t].pc = "write", ![t].read = kept]
  BY DEF ProbeMarker, KeptWarning, Running
<1> HIDE DEF warned
<1>4. kept \in Outcome /\ kept.capture_incomplete = warned
  BY <1>1, <1>2 DEF Outcome
<1> HIDE DEF kept
<1>5. new \in TaskRecord /\ new.pc = "write" /\ new.kind = task[t].kind /\ new.read = kept
  BY <1>4 DEF TaskRecord
<1>6. task' = [task EXCEPT ![t] = new]
  BY <1>3
<1> HIDE DEF new
<1>7. task' \in [Tasks -> TaskRecord] /\ task'[t] = new
      /\ \A other \in Tasks : other # t => task'[other] = task[other]
  BY <1>5, <1>6, CommandGets
<1> QED
  BY <1>3, <1>4, <1>5, <1>7 DEF warned

\* A recovery that is there, or audio.mp4 alone, is taken as it is.
LEMMA RecoveryReused ==
  ASSUME task \in [Tasks -> TaskRecord], NEW t \in Tasks,
         task' = [task EXCEPT ![t] =
           [NoTask EXCEPT !.kind = "retranscribe", !.pc = "recovered",
                          !.fmt = IF HasRecovery THEN Preferred ELSE "none"]]
  PROVE  /\ task' \in [Tasks -> TaskRecord]
         /\ task'[t].pc = "recovered" /\ task'[t].kind = "retranscribe" /\ task'[t].staged = {}
         /\ task'[t].fmt = IF HasRecovery THEN Preferred ELSE "none"
         /\ \A other \in Tasks : other # t => task'[other] = task[other]
<1> DEFINE which == IF HasRecovery THEN Preferred ELSE "none"
           new == [NoTask EXCEPT !.kind = "retranscribe", !.pc = "recovered", !.fmt = which]
<1>1. which \in Formats \cup {"none"} /\ task' = [task EXCEPT ![t] = new]
  BY DEF Preferred, Formats
<1> HIDE DEF which
<1>2. /\ new \in TaskRecord
      /\ new.pc = "recovered" /\ new.kind = "retranscribe" /\ new.fmt = which /\ new.staged = {}
  BY <1>1, NoTaskType DEF TaskRecord
<1> HIDE DEF new
<1>3. task' \in [Tasks -> TaskRecord] /\ task'[t] = new
      /\ \A other \in Tasks : other # t => task'[other] = task[other]
  BY <1>1, <1>2, CommandGets
<1> QED
  BY <1>2, <1>3 DEF which

\* While a command runs, the recording is over: its memory stays as it is.
LEMMA RecoveryTypes ==
  ASSUME RecoverySane, TypeOK', UNCHANGED <<orphan, incomplete, writer, nextWrite, handoff, captured>>,
         stop' = stop \/ stop' \notin Filling,
         recovered' \in [Formats -> SUBSET Batch],
         row' \in [saved : BOOLEAN, capture_incomplete : BOOLEAN],
         task' \in [Tasks -> TaskRecord], undisturbed' \in BOOLEAN
  PROVE  RecoverySane'
BY DEF RecoverySane, RecoveryTypeOK, WriterInv, Busy

LEMMA InitRecoverySane == RecoveryInit => RecoverySane
<1> SUFFICES ASSUME RecoveryInit PROVE RecoverySane
  OBVIOUS
<1>1. TypeOK /\ WriterInv
  BY InitSane DEF RecoveryInit, Sane
<1>2. recovered \in [Formats -> SUBSET Batch] /\ row \in [saved : BOOLEAN, capture_incomplete : BOOLEAN]
      /\ undisturbed \in BOOLEAN
  BY DEF RecoveryInit
<1>3. task \in [Tasks -> TaskRecord]
  BY NoTaskType DEF RecoveryInit
<1> QED
  BY <1>1, <1>2, <1>3 DEF RecoverySane, RecoveryTypeOK

\* Steps of the commands that leave the folder as it is keep its type.
LEMMA AsIsTypes ==
  ASSUME TypeOK, FolderAsIs, faults' \in Nat
  PROVE  TypeOK'
BY DEF FolderAsIs, folderVars, processVars, stopVars, TypeOK, FolderTypeOK

\* A command changes the folder, its own record, the recoveries and the row.
CommandOnly(t) ==
  /\ TypeOK'
  /\ recovered' \in [Formats -> SUBSET Batch]
  /\ row' \in [saved : BOOLEAN, capture_incomplete : BOOLEAN]
  /\ task' \in [Tasks -> TaskRecord]
  /\ \A other \in Tasks : other # t => task'[other] = task[other]
  /\ UNCHANGED <<processVars, stopVars, accepted, raced>>

LEMMA CommandTypes ==
  ASSUME RecoverySane, NEW t \in Tasks, TaskStep(t)
  PROVE  CommandOnly(t) /\ NotRecording
<1>1. /\ TypeOK /\ FolderTypeOK /\ faults \in Nat /\ task \in [Tasks -> TaskRecord]
      /\ recovered \in [Formats -> SUBSET Batch] /\ outcome \in Outcome
      /\ row \in [saved : BOOLEAN, capture_incomplete : BOOLEAN] /\ marker \in BOOLEAN
  BY DEF RecoverySane, RecoveryTypeOK, TypeOK, FolderTypeOK
<1>2. Fault => faults' \in Nat
  BY <1>1 DEF Fault
<1> USE DEF CommandOnly
<1>3. CASE Dialog(t) \/ Open(t, "open") \/ Open(t, "retranscribe")
  <2>1. NotRecording /\ FolderAsIs /\ UNCHANGED <<recovered, row, faults>>
    BY <1>3 DEF Dialog, Open, Running
  <2>2. CASE Begin(t, "dialog") \/ Begin(t, "open") \/ Begin(t, "retranscribe")
    BY <1>1, <2>1, <2>2, AsIsTypes, CommandBegins DEF FolderAsIs
  <2>3. CASE task' = [task EXCEPT ![t] =
                 [NoTask EXCEPT !.kind = "retranscribe", !.pc = "recovered",
                                !.fmt = IF HasRecovery THEN Preferred ELSE "none"]]
    BY <1>1, <2>1, <2>3, AsIsTypes, RecoveryReused DEF FolderAsIs
  <2> QED
    BY <1>3, <2>2, <2>3 DEF Dialog, Open
<1>4. ASSUME NEW s \in Seqs, ReadPart(t, s) \/ SkipChunk(t, s) PROVE CommandOnly(t) /\ NotRecording
  <2>1. /\ NotRecording /\ FolderAsIs /\ UNCHANGED <<recovered, row>> /\ faults' \in Nat
    BY <1>1, <1>2, <1>4 DEF ReadPart, SkipChunk, Running
  <2> QED
    BY <1>1, <1>4, <2>1, PartRead, ChunkSkipped, AsIsTypes DEF FolderAsIs
<1>5. CASE Rebuild(t)
  <2>1. /\ NotRecording /\ FolderAsIs /\ UNCHANGED <<recovered, row, faults>>
    BY <1>5 DEF Rebuild, Running
  <2> QED
    BY <1>1, <1>5, <2>1, Rebuilt, AsIsTypes DEF FolderAsIs
<1>6. CASE EncoderFails(t)
  <2>1. /\ NotRecording /\ FolderAsIs /\ UNCHANGED <<recovered, row>> /\ faults' \in Nat
    BY <1>2, <1>6 DEF EncoderFails, Running
  <2> QED
    BY <1>1, <1>6, <2>1, EncoderRetried, AsIsTypes DEF FolderAsIs
<1>7. CASE RebuildFails(t) \/ RecoverFails(t) \/ ShowRecovered(t) \/ TaskFails(t)
  <2>1. /\ NotRecording /\ FolderAsIs /\ UNCHANGED <<recovered, row>> /\ faults' \in Nat /\ EndTask(t)
    BY <1>1, <1>2, <1>7 DEF RebuildFails, RecoverFails, ShowRecovered, TaskFails, Running
  <2> QED
    BY <1>1, <2>1, AsIsTypes, CommandMoves DEF FolderAsIs
<1>8. CASE PublishRecovery(t) \/ Supersede(t)
  <2>1. /\ NotRecording /\ FolderAsIs /\ UNCHANGED <<row, faults>>
    BY <1>8 DEF PublishRecovery, Supersede, Running
  <2>2. recovered' \in [Formats -> SUBSET Batch]
    BY <1>1, <1>8 DEF PublishRecovery, Supersede, TaskRecord
  <2>3. /\ task' \in [Tasks -> TaskRecord]
        /\ \A other \in Tasks : other # t => task'[other] = task[other]
    <3>1. CASE PublishRecovery(t)
      BY <1>1, <3>1, CommandMoves DEF PublishRecovery, CommandSteps
    <3>2. CASE Supersede(t)
      BY <1>1, <3>2, Superseded
    <3> QED
      BY <1>8, <3>1, <3>2
  <2> QED
    BY <1>1, <2>1, <2>2, <2>3, AsIsTypes DEF FolderAsIs
<1>9. CASE SaveRecovered(t) \/ CommitTranscript(t)
  <2>1. /\ NotRecording /\ FolderAsIs /\ UNCHANGED <<recovered, faults>>
        /\ \E pc \in CommandSteps : Goto(t, pc)
    BY <1>9 DEF SaveRecovered, CommitTranscript, Running, CommandSteps
  <2>2. row' \in [saved : BOOLEAN, capture_incomplete : BOOLEAN]
    <3>1. task[t].gaps \in BOOLEAN /\ outcome.capture_incomplete \in BOOLEAN
          /\ row.capture_incomplete \in BOOLEAN
      BY <1>1 DEF TaskRecord, Outcome
    <3>2. CommittedGap(t) \in BOOLEAN /\ (task[t].gaps \/ outcome.capture_incomplete) \in BOOLEAN
      BY <3>1 DEF CommittedGap
    <3>3. CASE SaveRecovered(t)
      BY <3>2, <3>3 DEF SaveRecovered
    <3>4. CASE CommitTranscript(t)
      BY <1>1, <3>2, <3>4 DEF CommitTranscript
    <3> QED
      BY <1>9, <3>3, <3>4
  <2> QED
    BY <1>1, <2>1, <2>2, AsIsTypes, CommandMoves DEF FolderAsIs
<1>10. CASE ReadEvidence(t) \/ InspectCapture(t) \/ ReadOutcome(t) \/ ProbeMarker(t)
  <2>1. /\ NotRecording /\ FolderAsIs /\ UNCHANGED <<recovered, row, faults>>
    BY <1>10 DEF ReadEvidence, InspectCapture, ReadOutcome, ProbeMarker, Running
  <2>2. /\ task' \in [Tasks -> TaskRecord]
        /\ \A other \in Tasks : other # t => task'[other] = task[other]
    <3>1. CASE InspectCapture(t)
      BY <1>1, <3>1, CaptureInspected
    <3>2. CASE ProbeMarker(t)
      BY <1>1, <3>2, MarkerProbed
    <3>3. CASE ReadEvidence(t)
      <4>1. task' = [task EXCEPT ![t].pc = "inspect", ![t].read = outcome]
        BY <3>3 DEF ReadEvidence
      <4> QED
        BY <1>1, <4>1, OutcomeRead DEF CommandSteps
    <3>4. CASE ReadOutcome(t)
      <4>1. task' = [task EXCEPT ![t].pc = "probe", ![t].read = outcome]
        BY <3>4 DEF ReadOutcome
      <4> QED
        BY <1>1, <4>1, OutcomeRead DEF CommandSteps
    <3> QED
      BY <1>10, <3>1, <3>2, <3>3, <3>4
  <2> QED
    BY <1>1, <2>1, <2>2, AsIsTypes DEF FolderAsIs
<1>11. CASE CheckRelease(t)
  <2>1. /\ NotRecording /\ FolderAsIs /\ UNCHANGED <<recovered, row, faults>>
        /\ EndTask(t) \/ Goto(t, "read")
    BY <1>11 DEF CheckRelease, Running
  <2> QED
    BY <1>1, <2>1, AsIsTypes, CommandMoves DEF FolderAsIs, CommandSteps
<1>12. CASE WriteRow(t) \/ KeepWarning(t)
  <2>1. /\ NotRecording /\ FolderButOutcome /\ UNCHANGED <<recovered, row, faults>>
        /\ EndTask(t) \/ Goto(t, "release") \/ Goto(t, "remove")
    BY <1>12 DEF WriteRow, KeepWarning, Running
  <2>2. outcome' \in Outcome
    <3>1. (outcome.capture_incomplete \/ marker) \in BOOLEAN /\ row.capture_incomplete \in BOOLEAN
      BY <1>1 DEF Outcome
    <3>2. CASE WriteRow(t)
      BY <3>1, <3>2 DEF WriteRow, Outcome
    <3>3. CASE KeepWarning(t)
      BY <1>1, <3>3 DEF KeepWarning, TaskRecord
    <3> QED
      BY <1>12, <3>2, <3>3
  <2>3. TypeOK'
    BY <1>1, <2>1, <2>2 DEF FolderButOutcome, TypeOK, FolderTypeOK, processVars, stopVars
  <2> QED
    BY <1>1, <2>1, <2>3, CommandMoves DEF FolderButOutcome, CommandSteps
<1>13. CASE RemoveOriginals(t)
  <2>1. /\ NotRecording /\ NoSpool /\ EndTask(t)
        /\ UNCHANGED <<finalAudio, outcome, processVars, stopVars, faults, accepted, raced, recovered, row>>
    BY <1>13 DEF RemoveOriginals, Running
  <2>2. TypeOK'
    BY <1>1, <2>1, AbsentTypes DEF NoSpool, TypeOK, FolderTypeOK, processVars, stopVars
  <2> QED
    BY <1>1, <2>1, <2>2, CommandMoves
<1> QED
  BY <1>3, <1>4, <1>5, <1>6, <1>7, <1>8, <1>9, <1>10, <1>11, <1>12, <1>13 DEF TaskStep

LEMMA RecoverySaneStep == RecoverySane /\ [RecoveryNext]_allVars => RecoverySane'
<1> SUFFICES ASSUME RecoverySane, [RecoveryNext]_allVars PROVE RecoverySane'
  OBVIOUS
<1>1. /\ TypeOK /\ FolderTypeOK /\ faults \in Nat /\ task \in [Tasks -> TaskRecord]
      /\ recovered \in [Formats -> SUBSET Batch] /\ outcome \in Outcome /\ report \in Report
      /\ row \in [saved : BOOLEAN, capture_incomplete : BOOLEAN] /\ undisturbed \in BOOLEAN
      /\ WriterInv
  BY DEF RecoverySane, RecoveryTypeOK, TypeOK, FolderTypeOK
<1>2. CASE UNCHANGED allVars
  <2>1. TypeOK' /\ WriterInv'
    BY <1>1, <1>2, SaneStep DEF allVars, Sane
  <2> QED
    BY <1>1, <1>2, <2>1 DEF RecoverySane, RecoveryTypeOK, allVars, libraryVars
<1>3. CASE Recording /\ undisturbed' = (undisturbed /\ ~Overlap')
  <2>1. TypeOK' /\ WriterInv'
    BY <1>1, <1>3, SaneStep DEF Recording, Sane
  <2>2. task' \in [Tasks -> TaskRecord]
    BY <1>1, <1>3, NoTaskType DEF Recording
  <2> QED
    BY <1>1, <1>3, <2>1, <2>2 DEF RecoverySane, RecoveryTypeOK, Recording
<1>4. CASE SaveMeeting /\ undisturbed' = (undisturbed /\ ~Overlap')
  <2>1. row' \in [saved : BOOLEAN, capture_incomplete : BOOLEAN]
    BY <1>1, <1>4 DEF SaveMeeting, Report, Outcome
  <2>2. FolderAsIs /\ UNCHANGED <<recovered, task, faults>> /\ undisturbed' \in BOOLEAN
    BY <1>1, <1>4 DEF SaveMeeting
  <2> QED
    BY <1>1, <2>1, <2>2, AsIsTypes, RecoveryTypes DEF FolderAsIs, processVars, stopVars
<1>5. ASSUME NEW t \in Tasks, TaskStep(t), undisturbed' = (undisturbed /\ ~Overlap')
      PROVE  RecoverySane'
  <2>1. CommandOnly(t) /\ undisturbed' \in BOOLEAN
    BY <1>1, <1>5, CommandTypes
  <2> QED
    BY <2>1, RecoveryTypes DEF CommandOnly, processVars, stopVars
<1>6. ASSUME NEW kept \in SUBSET ChunkSeqs, undisturbed' = FALSE,
             StopRemovalStops(kept) \/ \E t \in Tasks : RemovalStops(t, kept)
      PROVE  RecoverySane'
  <2>1. /\ SpoolLeft(kept) /\ Fault /\ UNCHANGED <<processVars, fin, report, accepted, raced, recovered, row>>
        /\ stop' = stop \/ stop' = "report"
    BY <1>6 DEF StopRemovalStops, RemovalStops, libraryVars, stopVars
  <2>2. task' \in [Tasks -> TaskRecord]
    BY <1>1, <1>6, CommandMoves DEF StopRemovalStops, RemovalStops, libraryVars
  <2>3. FolderTypeOK'
    <3>1. chunk' \in [Seqs -> Batch \cup {NoBatch}] /\ bad' \in SUBSET Seqs
      BY <1>1, <2>1 DEF SpoolLeft, FolderTypeOK
    <3> QED
      BY <1>1, <2>1, <3>1, AbsentTypes DEF SpoolLeft, FolderTypeOK
  <2>4. TypeOK'
    BY <1>1, <2>1, <2>3 DEF TypeOK, Fault, processVars, StopSteps
  <2> QED
    BY <1>1, <1>6, <2>1, <2>2, <2>4, RecoveryTypes DEF processVars, Filling
<1> QED
  BY <1>2, <1>3, <1>4, <1>5, <1>6 DEF RecoveryNext

-----------------------------------------------------------------------------
(* How a warning stays: the invariant behind WarningPermanent.               *)

\* The commands begin when the recording has ended, and end when it crashes.
Resting ==
  ~NotRecording => \A t \in Tasks : task[t].pc = "idle"

\* The library has no row before there is something to save, and the row
\* knows what the outcome admits.
Rows ==
  /\ ~NotRecording => ~row.saved
  /\ ~row.saved => ~row.capture_incomplete
  /\ row.saved /\ outcome.capture_incomplete => row.capture_incomplete

\* What .incomplete says comes up in every report and every outcome.
Noted ==
  /\ writer.pc # "idle" /\ stop \notin Filling => orphan
  /\ fin.pc # "none" => stop \notin Before
  /\ fin.pc \in {"read", "publish", "done"} /\ marker => fin.gaps
  /\ report.audio => stop \notin Before \cup {"saving"}
  /\ report.audio /\ marker => report.capture_incomplete
  /\ ~NotRecording /\ outcome.capture_incomplete =>
       report.capture_incomplete /\ stop \in {"release", "report"}
  /\ stop = "release" /\ marker => outcome.capture_incomplete

\* Whatever a command has read of the folder, it knows of .incomplete, or
\* the row does, before anything is removed.
Rebuilding == {"encode", "publish", "supersede", "recovered"}
Heeded(t) ==
  /\ task[t].pc \in Rebuilding /\ task[t].kind = "dialog" =>
       ~row.saved /\ stop = "crashed" /\ (marker => task[t].gaps)
  /\ task[t].pc \in Rebuilding /\ task[t].kind # "dialog" => row.saved
  /\ task[t].pc = "transcribe" => row.saved /\ (marker => task[t].gaps)
  /\ task[t].pc = "inspect" => row.saved
  /\ task[t].pc \in {"file", "release", "read", "probe", "write", "remove"} =>
       row.saved /\ (marker => row.capture_incomplete)
  /\ task[t].pc \in {"probe", "write"} =>
       (task[t].read.capture_incomplete => row.capture_incomplete)
  /\ task[t].pc = "idle" => task[t].kind = "none"

\* The recovery dialog is modal.
OneDialog ==
  \A t, other \in Tasks : task[t].kind = "dialog" /\ task[other].kind = "dialog" => t = other

Heed == OneDialog /\ \A t \in Tasks : Heeded(t)

\* And what a command that has the folder for itself is about to write keeps
\* the warning in the file, too.
Alone == \A t, other \in Tasks : t # other => task[t] = NoTask \/ task[other] = NoTask
Careful(t) ==
  /\ task[t].pc \in {"probe", "write"} =>
       (outcome.capture_incomplete => task[t].read.capture_incomplete)
  /\ task[t].pc = "write" => (marker => task[t].read.capture_incomplete)
  /\ task[t].pc = "remove" => (marker => outcome.capture_incomplete)
Care == undisturbed => Alone /\ \A t \in Tasks : Careful(t)

WarnedInv == Resting /\ Rows /\ Noted /\ Heed /\ Care

LEMMA InitWarned == RecoveryInit => WarnedInv
<1> SUFFICES ASSUME RecoveryInit PROVE WarnedInv
  OBVIOUS
<1>1. /\ stop = "recording" /\ writer.pc = "idle" /\ fin.pc = "none" /\ ~report.audio
      /\ ~outcome.capture_incomplete /\ ~row.saved /\ ~row.capture_incomplete
  BY DEF RecoveryInit, Init, FolderInit, Idle, NotRun, NoReport, NoOutcome
<1>2. \A t \in Tasks : task[t].pc = "idle" /\ task[t].kind = "none"
  BY DEF RecoveryInit, NoTask
<1> QED
  BY <1>1, <1>2 DEF WarnedInv, Resting, Rows, Noted, Heed, OneDialog, Heeded, Rebuilding, NotRecording,
     Care, Careful, Alone, RecoveryInit

\* A step of the recording: the warning moves on to the report, the outcome
\* and the library's row, and when it has ended the folder's are settled.
LEMMA RecordingNotes ==
  ASSUME RecoverySane, Noted, [Next]_vars
  PROVE  /\ Noted'
         /\ outcome.capture_incomplete => outcome'.capture_incomplete
         /\ marker /\ ~marker' => outcome'.capture_incomplete
         /\ NotRecording => UNCHANGED <<outcome, marker>> /\ stop' \in {stop, "crashed"}
         /\ ~NotRecording' => ~NotRecording
<1> USE DEF Noted, NotRecording, Before, Filling
<1>0. /\ fin \in Finalizer /\ report \in Report /\ writer \in Writer /\ outcome \in Outcome
      /\ marker \in BOOLEAN /\ incomplete \in BOOLEAN
  BY DEF RecoverySane, RecoveryTypeOK, TypeOK, FolderTypeOK
<1>1. CASE \/ HandOff \/ LoseBatch \/ PublishChunk \/ OrphanEnds
           \/ (\E s \in Seqs : Damage(s)) \/ UNCHANGED vars
  BY <1>1 DEF HandOff, LoseBatch, PublishChunk, OrphanEnds, Damage, vars, folderVars, stopVars,
     processVars, Idle
<1>2. CASE TakeBatch \/ FillTmp
  <2>1. /\ UNCHANGED <<marker, outcome, stop, fin, report, orphan>>
        /\ stop \in Filling \/ writer.pc # "idle"
    BY <1>2 DEF TakeBatch, FillTmp, stopVars
  <2> QED
    BY <2>1
<1>3. CASE CreateFails \/ WriteFails
  <2>1. /\ stop \in Filling
        /\ marker => marker'
        /\ UNCHANGED <<outcome, stop, fin, report, orphan>>
    BY <1>3 DEF CreateFails, WriteFails, stopVars
  <2> QED
    BY <2>1
<1>4. CASE StopCapture \/ PipelineFails \/ FinishDrained \/ FinishTimeout
  <2>1. /\ stop \in Filling /\ stop' \in {"finishing", "drained"}
        /\ UNCHANGED <<marker, outcome, fin, report, writer>>
        /\ stop' = "drained" => writer.pc = "idle" \/ orphan'
    BY <1>4 DEF StopCapture, PipelineFails, FinishDrained, FinishTimeout, AbortWorker, folderVars,
       processVars
  <2> QED
    BY <2>1
<1>5. CASE StartSave
  <2>1. /\ stop = "drained" /\ stop' = "saving" /\ fin'.pc = "list" /\ report'.audio = report.audio
        /\ marker => marker'
        /\ UNCHANGED <<outcome, writer, orphan>>
    BY <1>0, <1>5 DEF StartSave, Finalizer, Report, processVars
  <2> QED
    BY <2>1
<1>6. CASE ListCapture \/ ReadCapture \/ PublishAudio \/ FinalizeFails
  <2>1. /\ UNCHANGED <<marker, outcome, stop, report, writer, orphan>>
        /\ fin.pc # "none"
    BY <1>6 DEF ListCapture, ReadCapture, PublishAudio, FinalizeFails, folderVars, processVars
  <2>2. /\ ListCapture => fin'.gaps = marker
        /\ ReadCapture => fin.pc = "read" /\ (fin.gaps => fin'.gaps)
        /\ PublishAudio => fin.pc = "publish" /\ fin'.gaps = fin.gaps
        /\ FinalizeFails => fin'.pc = "failed"
    BY <1>0 DEF ListCapture, ReadCapture, PublishAudio, FinalizeFails, Finalizer
  <2> QED
    BY <1>6, <2>1, <2>2
<1>7. CASE SaveDone \/ SaveFailed \/ SaveDeadline
  <2>1. /\ stop = "saving" /\ stop' \in {"outcome", "report"}
        /\ UNCHANGED <<marker, outcome, fin, writer, orphan>>
    BY <1>7 DEF SaveDone, SaveFailed, SaveDeadline, folderVars, processVars
  <2>2. /\ SaveDone => fin.pc = "done" /\ (fin.gaps => report'.capture_incomplete)
        /\ SaveFailed \/ SaveDeadline => report'.audio = report.audio
    BY <1>0 DEF SaveDone, SaveFailed, SaveDeadline, Report
  <2> QED
    BY <1>7, <2>1, <2>2
<1>8. CASE WriteOutcome
  <2>1. /\ stop = "outcome" /\ outcome' = SavedOutcome /\ stop' = IF MayRelease THEN "release" ELSE "report"
        /\ UNCHANGED <<marker, fin, report, writer, orphan>>
    BY <1>8 DEF WriteOutcome, processVars
  <2>2. outcome'.capture_incomplete = report.capture_incomplete
    BY <2>1 DEF SavedOutcome
  <2> QED
    BY <2>1, <2>2 DEF MayRelease
<1>9. CASE WriteOutcomeFails \/ ReleaseFails
  <2>1. /\ stop \in {"outcome", "release"} /\ stop' = "report"
        /\ UNCHANGED <<marker, outcome, fin, report, writer, orphan>>
    BY <1>9 DEF WriteOutcomeFails, ReleaseFails, folderVars, processVars
  <2> QED
    BY <2>1
<1>10. CASE ReleaseSpool
  <2>1. /\ stop = "release" /\ stop' = "report" /\ ~marker'
        /\ UNCHANGED <<outcome, fin, report, writer, orphan>>
    BY <1>10 DEF ReleaseSpool, NoSpool, processVars
  <2> QED
    BY <2>1
<1>11. CASE WriteReport
  <2>1. /\ stop = "report" /\ stop' = "stopped"
        /\ outcome' = SavedOutcome \/ UNCHANGED outcome
        /\ UNCHANGED <<marker, fin, report, writer, orphan>>
    BY <1>11 DEF WriteReport, processVars
  <2>2. outcome' = SavedOutcome => outcome'.capture_incomplete = report.capture_incomplete
    BY DEF SavedOutcome
  <2> QED
    BY <2>1, <2>2
<1>12. CASE Crash
  <2>1. /\ stop' = "crashed" /\ writer'.pc = "idle" /\ fin'.pc = "none" /\ ~report'.audio
        /\ UNCHANGED <<marker, outcome>>
    BY <1>12 DEF Crash, Idle, NotRun, NoReport, folderVars
  <2> QED
    BY <2>1
<1> QED
  BY <1>1, <1>2, <1>3, <1>4, <1>5, <1>6, <1>7, <1>8, <1>9, <1>10, <1>11, <1>12
     DEF Next, WriterStep, StopStep, FinalizeStep, Finished

LEMMA RecordingWarned ==
  ASSUME RecoverySane, WarnedInv, Recording, undisturbed' => undisturbed
  PROVE  WarnedInv'
<1>1. /\ Noted' /\ UNCHANGED row
      /\ NotRecording => UNCHANGED <<outcome, marker>> /\ stop' \in {stop, "crashed"}
      /\ ~NotRecording' => ~NotRecording
  BY RecordingNotes DEF WarnedInv, Recording
<1>2. \/ stop' = "crashed" /\ \A t \in Tasks : task'[t].pc = "idle" /\ task'[t].kind = "none"
      \/ stop' # "crashed" /\ task' = task
  BY DEF Recording, NoTask
<1>3. Resting' /\ Rows'
  BY <1>1, <1>2 DEF WarnedInv, Resting, Rows
<1>4. Heed'
  <2>1. CASE \A t \in Tasks : task'[t].pc = "idle" /\ task'[t].kind = "none"
    BY <2>1 DEF Heed, OneDialog, Heeded, Rebuilding
  <2>2. CASE task' = task /\ ~NotRecording
    BY <2>2 DEF WarnedInv, Resting, Heed, OneDialog, Heeded, Rebuilding
  <2>3. CASE task' = task /\ NotRecording /\ stop' = stop
    BY <1>1, <2>3 DEF WarnedInv, Heed, OneDialog, Heeded
  <2> QED
    BY <1>1, <1>2, <2>1, <2>2, <2>3
<1>5. Care'
  <2>1. CASE stop' = "crashed"
    <3>1. \A t \in Tasks : task'[t] = NoTask /\ task'[t].pc = "idle"
      BY <2>1, NoTaskType DEF Recording
    <3> QED
      BY <3>1 DEF Care, Alone, Careful
  <2>2. CASE stop' # "crashed" /\ ~NotRecording
    <3>1. task' = task /\ \A t \in Tasks : task[t].pc = "idle"
      BY <2>2 DEF Recording, WarnedInv, Resting
    <3> QED
      BY <3>1 DEF WarnedInv, Care, Alone, Careful
  <2>3. CASE stop' # "crashed" /\ NotRecording
    BY <1>1, <1>2, <2>3 DEF WarnedInv, Care, Alone, Careful
  <2> QED
    BY <2>1, <2>2, <2>3
<1> QED
  BY <1>1, <1>3, <1>4, <1>5 DEF WarnedInv

\* A command, or the removal it ends with, cannot take back what is noted.
LEMMA NotedRest ==
  ASSUME Noted, NotRecording, UNCHANGED <<processVars, stopVars>>, marker' => marker
  PROVE  Noted' /\ NotRecording'
BY DEF Noted, NotRecording, processVars, stopVars, Before, Filling

\* What one command does leaves the others heeding the warning.
LEMMA OthersHeed ==
  ASSUME WarnedInv, NEW t \in Tasks, NotRecording, UNCHANGED stop,
         marker' => marker, row.saved => row'.saved,
         row.capture_incomplete => row'.capture_incomplete,
         row'.saved = row.saved \/ task[t].kind = "dialog",
         \A other \in Tasks : other # t => task'[other] = task[other],
         Heeded(t)', Rows',
         task'[t].kind = "dialog" => \A other \in Tasks : other # t => task[other].kind # "dialog"
  PROVE  Heed' /\ Resting' /\ Rows'
<1>1. ASSUME NEW other \in Tasks, other # t PROVE Heeded(other)'
  <2>1. Heeded(other) /\ task'[other] = task[other]
    BY <1>1 DEF WarnedInv, Heed
  <2>2. task[other].kind = "dialog" => row'.saved = row.saved
    BY <1>1 DEF WarnedInv, Heed, OneDialog
  <2> QED
    BY <2>1, <2>2 DEF Heeded
<1>2. OneDialog'
  BY DEF OneDialog, WarnedInv, Heed
<1>3. Resting'
  BY DEF Resting, NotRecording
<1> QED
  BY <1>1, <1>2, <1>3 DEF Heed

\* What a command owes to the warning.
Heeds(t) ==
  /\ marker' => marker
  /\ marker /\ ~marker' => row'.capture_incomplete
  /\ row.saved => row'.saved
  /\ row.capture_incomplete => row'.capture_incomplete
  /\ outcome.capture_incomplete => outcome'.capture_incomplete \/ row'.capture_incomplete
  /\ Careful(t) =>
       /\ outcome.capture_incomplete => outcome'.capture_incomplete
       /\ marker /\ ~marker' => outcome'.capture_incomplete
       /\ Careful(t)'
  /\ row'.saved = row.saved \/ task[t].kind = "dialog"
  /\ Heeded(t)' /\ Rows'
  /\ task'[t].kind = "dialog" => \A other \in Tasks : other # t => task[other].kind # "dialog"

LEMMA CommandHeeds ==
  ASSUME RecoverySane, WarnedInv, NEW t \in Tasks, TaskStep(t)
  PROVE  Heeds(t)
<1> USE DEF Heeds, Careful
<1>1. /\ FolderTypeOK /\ task \in [Tasks -> TaskRecord] /\ outcome \in Outcome
      /\ row \in [saved : BOOLEAN, capture_incomplete : BOOLEAN]
  BY DEF RecoverySane, RecoveryTypeOK, TypeOK, FolderTypeOK
<1>2. CommandOnly(t) /\ NotRecording /\ UNCHANGED stop
  BY CommandTypes DEF CommandOnly, stopVars
<1>3. Rows /\ Heeded(t) /\ \A other \in Tasks : task[t].kind = "dialog" /\ task[other].kind = "dialog" => t = other
  BY DEF WarnedInv, Heed, OneDialog
<1> USE DEF Rows, NotRecording
<1>4. CASE Dialog(t) \/ Open(t, "open") \/ Open(t, "retranscribe")
  <2>1. FolderAsIs /\ UNCHANGED row /\ task[t].pc = "idle"
    BY <1>4 DEF Dialog, Open, Running
  <2>2. UNCHANGED <<marker, outcome>>
    BY <2>1 DEF FolderAsIs, folderVars
  <2>3. CASE Dialog(t)
    <3>1. /\ stop = "crashed" /\ ~row.saved /\ \A other \in Tasks : task[other].kind # "dialog"
          /\ Begin(t, "dialog")
      BY <2>3 DEF Dialog
    <3>2. task'[t].pc = "encode" /\ task'[t].gaps = ListingGaps /\ task'[t].kind = "dialog"
      BY <1>1, <3>1, CommandBegins
    <3>3. marker => ListingGaps
      BY DEF ListingGaps
    <3>4. Heeded(t)'
      BY <1>2, <2>1, <2>2, <3>1, <3>2, <3>3 DEF Heeded, Rebuilding
    <3> QED
      BY <1>2, <1>3, <2>1, <2>2, <3>1, <3>2, <3>4
  <2>4. ASSUME NEW kind \in {"open", "retranscribe"}, Begin(t, kind), row.saved PROVE Heeds(t)
    <3>1. task'[t].pc = "encode" /\ task'[t].kind = kind
      BY <1>1, <2>4, CommandBegins
    <3>2. Heeded(t)'
      BY <2>1, <2>4, <3>1 DEF Heeded, Rebuilding
    <3> QED
      BY <1>2, <1>3, <2>1, <2>2, <2>4, <3>1, <3>2
  <2>5. CASE row.saved /\ task' = [task EXCEPT ![t] =
                 [NoTask EXCEPT !.kind = "retranscribe", !.pc = "recovered",
                                !.fmt = IF HasRecovery THEN Preferred ELSE "none"]]
    <3>1. task'[t].pc = "recovered" /\ task'[t].kind = "retranscribe"
      BY <1>1, <2>5, RecoveryReused
    <3>2. Heeded(t)'
      BY <2>1, <2>5, <3>1 DEF Heeded, Rebuilding
    <3> QED
      BY <1>2, <1>3, <2>1, <2>2, <2>5, <3>1, <3>2
  <2> HIDE DEF Heeds, Careful
  <2> QED
    BY <1>4, <2>3, <2>4, <2>5 DEF Open
<1>5. ASSUME NEW s \in Seqs, ReadPart(t, s) \/ SkipChunk(t, s) PROVE Heeds(t)
  <2>1. FolderAsIs /\ UNCHANGED row /\ task[t].pc = "encode"
    BY <1>5 DEF ReadPart, SkipChunk, Running
  <2>2. UNCHANGED <<marker, outcome>>
    BY <2>1 DEF FolderAsIs, folderVars
  <2>3. task'[t].pc = "encode" /\ task'[t].kind = task[t].kind /\ (task[t].gaps => task'[t].gaps)
    BY <1>1, <1>5, PartRead, ChunkSkipped
  <2>4. Heeded(t)'
    BY <1>2, <1>3, <2>1, <2>2, <2>3 DEF Heeded, Rebuilding
  <2> QED
    BY <1>2, <1>3, <2>1, <2>2, <2>3, <2>4
<1>6. CASE Rebuild(t) \/ EncoderFails(t) \/ Supersede(t)
  <2>1. FolderAsIs /\ UNCHANGED row
    BY <1>6 DEF Rebuild, EncoderFails, Supersede
  <2>2. UNCHANGED <<marker, outcome>>
    BY <2>1 DEF FolderAsIs, folderVars
  <2>3. /\ task[t].pc \in Rebuilding /\ task'[t].pc \in Rebuilding /\ task'[t].kind = task[t].kind
        /\ (task[t].gaps /\ ~EncoderFails(t) => task'[t].gaps)
        /\ EncoderFails(t) => task'[t].gaps = ListingGaps
    BY <1>1, <1>6, Rebuilt, EncoderRetried, Superseded DEF Rebuilding
  <2>4. marker => ListingGaps
    BY DEF ListingGaps
  <2>5. Heeded(t)'
    BY <1>2, <1>3, <2>1, <2>2, <2>3, <2>4 DEF Heeded, Rebuilding
  <2> QED
    BY <1>2, <1>3, <2>1, <2>2, <2>3, <2>5 DEF Rebuilding
<1>7. CASE RebuildFails(t) \/ RecoverFails(t) \/ ShowRecovered(t) \/ TaskFails(t)
  <2>1. FolderAsIs /\ UNCHANGED row /\ EndTask(t)
    BY <1>7 DEF RebuildFails, RecoverFails, ShowRecovered, TaskFails
  <2>2. UNCHANGED <<marker, outcome>>
    BY <2>1 DEF FolderAsIs, folderVars
  <2>3. task'[t].pc = "idle" /\ task'[t].kind = "none"
    BY <1>1, <2>1, CommandMoves, NoTaskType
  <2>4. Heeded(t)'
    BY <2>3 DEF Heeded, Rebuilding
  <2> QED
    BY <1>2, <1>3, <2>1, <2>2, <2>3, <2>4
<1>8. CASE PublishRecovery(t) \/ CheckRelease(t)
  <2>1. FolderAsIs /\ UNCHANGED row
    BY <1>8 DEF PublishRecovery, CheckRelease
  <2>2. UNCHANGED <<marker, outcome>>
    BY <2>1 DEF FolderAsIs, folderVars
  <2>3. CASE PublishRecovery(t)
    <3>1. task[t].pc = "publish" /\ Goto(t, "supersede")
      BY <2>3 DEF PublishRecovery, Running
    <3>2. task'[t].pc = "supersede" /\ task'[t].kind = task[t].kind /\ task'[t].gaps = task[t].gaps
      BY <1>1, <3>1, CommandMoves DEF CommandSteps
    <3>3. Heeded(t)'
      BY <1>2, <1>3, <2>1, <2>2, <3>1, <3>2 DEF Heeded, Rebuilding
    <3> QED
      BY <1>2, <1>3, <2>1, <2>2, <3>2, <3>3
  <2>4. CASE CheckRelease(t)
    <3>1. task[t].pc = "release" /\ (EndTask(t) \/ Goto(t, "read"))
      BY <2>4 DEF CheckRelease, Running
    <3>2. \/ task'[t].pc = "idle" /\ task'[t].kind = "none"
          \/ task'[t].pc = "read" /\ task'[t].kind = task[t].kind
      BY <1>1, <3>1, CommandMoves, NoTaskType DEF CommandSteps
    <3>3. Heeded(t)'
      BY <1>2, <1>3, <2>1, <2>2, <3>1, <3>2 DEF Heeded, Rebuilding
    <3> QED
      BY <1>2, <1>3, <2>1, <2>2, <3>2, <3>3
  <2> QED
    BY <1>8, <2>3, <2>4
<1>9. CASE ReadEvidence(t) \/ InspectCapture(t)
  <2>1. FolderAsIs /\ UNCHANGED row
    BY <1>9 DEF ReadEvidence, InspectCapture
  <2>2. UNCHANGED <<marker, outcome>>
    BY <2>1 DEF FolderAsIs, folderVars
  <2>3. CASE ReadEvidence(t)
    <3>1. /\ task[t].pc = "recovered" /\ task[t].kind = "retranscribe"
          /\ task' = [task EXCEPT ![t].pc = "inspect", ![t].read = outcome]
      BY <2>3 DEF ReadEvidence, Running
    <3>2. task'[t].pc = "inspect" /\ task'[t].kind = "retranscribe"
      BY <1>1, <3>1, OutcomeRead DEF CommandSteps
    <3>3. row.saved
      BY <1>3, <3>1 DEF Heeded, Rebuilding
    <3>4. Heeded(t)'
      BY <1>2, <2>1, <2>2, <3>2, <3>3 DEF Heeded, Rebuilding
    <3> QED
      BY <1>2, <1>3, <2>1, <2>2, <3>1, <3>2, <3>4
  <2>4. CASE InspectCapture(t)
    <3>1. /\ task[t].pc = "inspect" /\ task'[t].pc = "transcribe" /\ task'[t].kind = task[t].kind
          /\ task'[t].gaps = GapEvidence(t)
      BY <1>1, <2>4, CaptureInspected
    <3>2. marker => GapEvidence(t)
      BY DEF GapEvidence, CaptureHasGaps
    <3>3. row.saved
      BY <1>3, <3>1 DEF Heeded
    <3>4. Heeded(t)'
      BY <1>2, <2>1, <2>2, <3>1, <3>2, <3>3 DEF Heeded, Rebuilding
    <3> QED
      BY <1>2, <1>3, <2>1, <2>2, <3>1, <3>4
  <2> HIDE DEF Heeds, Careful
  <2> QED
    BY <1>9, <2>3, <2>4
<1>10. CASE SaveRecovered(t)
  <2>1. /\ FolderAsIs /\ task[t].pc = "recovered" /\ task[t].kind = "dialog" /\ Goto(t, "release")
        /\ row' = [saved |-> TRUE, capture_incomplete |-> task[t].gaps \/ outcome.capture_incomplete]
    BY <1>10 DEF SaveRecovered, Running
  <2>2. UNCHANGED <<marker, outcome>> /\ row'.saved
        /\ row'.capture_incomplete = (task[t].gaps \/ outcome.capture_incomplete)
    BY <2>1 DEF FolderAsIs, folderVars
  <2>3. task'[t].pc = "release" /\ task'[t].kind = task[t].kind
    BY <1>1, <2>1, CommandMoves DEF CommandSteps
  <2>4. ~row.saved /\ (marker => task[t].gaps)
    BY <1>3, <2>1 DEF Heeded, Rebuilding
  <2>5. Heeded(t)' /\ Rows'
    BY <1>2, <2>2, <2>3, <2>4 DEF Heeded, Rebuilding
  <2> QED
    BY <1>3, <2>1, <2>2, <2>3, <2>4, <2>5
<1>11. CASE CommitTranscript(t)
  <2>1. /\ FolderAsIs /\ task[t].pc = "transcribe" /\ Goto(t, "file")
        /\ row' = [row EXCEPT !.capture_incomplete = CommittedGap(t)]
    BY <1>11 DEF CommitTranscript, Running
  <2>2. UNCHANGED <<marker, outcome>> /\ row'.saved = row.saved
        /\ row'.capture_incomplete = (row.capture_incomplete \/ task[t].gaps)
    BY <1>1, <2>1 DEF FolderAsIs, folderVars, CommittedGap
  <2>3. task'[t].pc = "file" /\ task'[t].kind = task[t].kind
    BY <1>1, <2>1, CommandMoves DEF CommandSteps
  <2>4. row.saved /\ (marker => task[t].gaps)
    BY <1>3, <2>1 DEF Heeded
  <2>5. Heeded(t)' /\ Rows'
    BY <1>2, <1>3, <2>2, <2>3, <2>4 DEF Heeded, Rebuilding
  <2> QED
    BY <1>3, <2>1, <2>2, <2>3, <2>4, <2>5
<1>12. CASE WriteRow(t)
  <2>1. /\ FolderButOutcome /\ UNCHANGED row /\ task[t].pc = "file"
        /\ outcome'.capture_incomplete = row.capture_incomplete
        /\ EndTask(t) \/ Goto(t, "release")
    BY <1>12 DEF WriteRow, Running
  <2>2. UNCHANGED marker
    BY <2>1 DEF FolderButOutcome
  <2>3. \/ task'[t].pc = "idle" /\ task'[t].kind = "none"
        \/ task'[t].pc = "release" /\ task'[t].kind = task[t].kind
    BY <1>1, <2>1, CommandMoves, NoTaskType DEF CommandSteps
  <2>4. row.saved /\ (marker => row.capture_incomplete)
    BY <1>3, <2>1 DEF Heeded
  <2>5. Heeded(t)' /\ Rows'
    BY <1>2, <1>3, <2>1, <2>2, <2>3, <2>4 DEF Heeded, Rebuilding
  <2> QED
    BY <1>3, <2>1, <2>2, <2>3, <2>4, <2>5
<1>13. CASE ReadOutcome(t) \/ ProbeMarker(t)
  <2>1. FolderAsIs /\ UNCHANGED row
    BY <1>13 DEF ReadOutcome, ProbeMarker
  <2>2. UNCHANGED <<marker, outcome>>
    BY <2>1 DEF FolderAsIs, folderVars
  <2>3. CASE ReadOutcome(t)
    <3>1. task[t].pc = "read" /\ task' = [task EXCEPT ![t].pc = "probe", ![t].read = outcome]
      BY <2>3 DEF ReadOutcome, Running
    <3>2. task'[t].pc = "probe" /\ task'[t].kind = task[t].kind /\ task'[t].read = outcome
      BY <1>1, <3>1, OutcomeRead DEF CommandSteps
    <3>3. row.saved /\ (marker => row.capture_incomplete)
      BY <1>3, <3>1 DEF Heeded
    <3>4. Heeded(t)'
      BY <1>2, <1>3, <2>1, <2>2, <3>2, <3>3 DEF Heeded, Rebuilding
    <3> QED
      BY <1>2, <1>3, <2>1, <2>2, <3>2, <3>4
  <2>4. CASE ProbeMarker(t)
    <3>1. /\ task[t].pc = "probe" /\ task'[t].pc = "write" /\ task'[t].kind = task[t].kind
          /\ task'[t].read.capture_incomplete = (task[t].read.capture_incomplete \/ marker)
      BY <1>1, <2>4, MarkerProbed
    <3>2. /\ row.saved /\ (marker => row.capture_incomplete)
          /\ task[t].read.capture_incomplete => row.capture_incomplete
      BY <1>3, <3>1 DEF Heeded
    <3>3. Heeded(t)'
      BY <1>2, <2>1, <2>2, <3>1, <3>2 DEF Heeded, Rebuilding
    <3> QED
      BY <1>2, <1>3, <2>1, <2>2, <3>1, <3>3
  <2> HIDE DEF Heeds, Careful
  <2> QED
    BY <1>13, <2>3, <2>4
<1>14. CASE KeepWarning(t)
  <2>1. /\ FolderButOutcome /\ UNCHANGED row /\ task[t].pc = "write" /\ Goto(t, "remove")
        /\ outcome' = task[t].read
    BY <1>14 DEF KeepWarning, Running
  <2>2. UNCHANGED marker /\ outcome'.capture_incomplete = task[t].read.capture_incomplete
    BY <2>1 DEF FolderButOutcome
  <2>3. task'[t].pc = "remove" /\ task'[t].kind = task[t].kind
    BY <1>1, <2>1, CommandMoves DEF CommandSteps
  <2>4. /\ row.saved /\ (marker => row.capture_incomplete)
        /\ task[t].read.capture_incomplete => row.capture_incomplete
    BY <1>3, <2>1 DEF Heeded
  <2>5. Heeded(t)' /\ Rows'
    BY <1>2, <1>3, <2>1, <2>2, <2>3, <2>4 DEF Heeded, Rebuilding
  <2> QED
    BY <1>3, <2>1, <2>2, <2>3, <2>4, <2>5
<1>15. CASE RemoveOriginals(t)
  <2>1. /\ UNCHANGED <<row, outcome>> /\ task[t].pc = "remove" /\ EndTask(t) /\ ~marker'
    BY <1>15 DEF RemoveOriginals, Running, NoSpool
  <2>2. task'[t].pc = "idle" /\ task'[t].kind = "none"
    BY <1>1, <2>1, CommandMoves, NoTaskType
  <2>3. Heeded(t)' /\ Rows'
    BY <1>2, <1>3, <2>1, <2>2 DEF Heeded, Rebuilding
  <2>4. marker => row.capture_incomplete
    BY <1>3, <2>1 DEF Heeded
  <2> QED
    BY <1>3, <2>1, <2>2, <2>3, <2>4
<1> HIDE DEF Heeds, Careful
<1> QED
  BY <1>4, <1>5, <1>6, <1>7, <1>8, <1>9, <1>10, <1>11, <1>12, <1>13, <1>14, <1>15 DEF TaskStep

\* A step of one command while no two overlap: all others rest.
LEMMA OthersRest ==
  ASSUME RecoverySane, Alone, NEW t \in Tasks, TaskStep(t), ~Overlap'
  PROVE  /\ \A other \in Tasks : other # t => task[other] = NoTask /\ task'[other] = NoTask
         /\ Alone'
<1>1. task \in [Tasks -> TaskRecord] /\ FolderTypeOK /\ CommandOnly(t)
  BY CommandTypes DEF RecoverySane, RecoveryTypeOK, TypeOK
<1>2. task[t] # NoTask \/ task'[t] # NoTask
  <2>1. CASE Dialog(t) \/ Open(t, "open") \/ Open(t, "retranscribe")
    <3>1. CASE Begin(t, "dialog") \/ Begin(t, "open") \/ Begin(t, "retranscribe")
      <4>1. task'[t].pc = "encode"
        BY <1>1, <3>1, CommandBegins
      <4> QED
        BY <4>1, NoTaskType
    <3>2. CASE task' = [task EXCEPT ![t] =
                   [NoTask EXCEPT !.kind = "retranscribe", !.pc = "recovered",
                                  !.fmt = IF HasRecovery THEN Preferred ELSE "none"]]
      BY <1>1, <3>2, RecoveryReused, NoTaskType
    <3> QED
      BY <2>1, <3>1, <3>2 DEF Dialog, Open
  <2>2. CASE task[t].pc # "idle"
    BY <2>2, NoTaskType
  <2>3. CASE ~(Dialog(t) \/ Open(t, "open") \/ Open(t, "retranscribe")) /\ task[t].pc = "idle"
    BY <2>3 DEF TaskStep, ReadPart, SkipChunk, Rebuild, EncoderFails, RebuildFails, PublishRecovery,
       Supersede, RecoverFails, ShowRecovered, SaveRecovered, ReadEvidence,
       InspectCapture, CommitTranscript, WriteRow, CheckRelease, ReadOutcome, ProbeMarker, KeepWarning, RemoveOriginals, TaskFails, Running
  <2> QED
    BY <2>1, <2>2, <2>3
<1>3. ASSUME NEW other \in Tasks, other # t PROVE task[other] = NoTask /\ task'[other] = NoTask
  <2>1. task'[other] = task[other]
    BY <1>1, <1>3 DEF CommandOnly
  <2> QED
    BY <1>2, <1>3, <2>1 DEF Alone, Overlap
<1> QED
  BY <1>3 DEF Alone

\* What no step takes back.
WarningKept ==
  /\ row.capture_incomplete => row'.capture_incomplete
  /\ outcome.capture_incomplete /\ ~outcome'.capture_incomplete => row'.capture_incomplete
  /\ marker /\ ~marker' => outcome'.capture_incomplete \/ row'.capture_incomplete
  /\ undisturbed' => /\ outcome.capture_incomplete => outcome'.capture_incomplete
                     /\ marker /\ ~marker' => outcome'.capture_incomplete

LEMMA CommandWarned ==
  ASSUME RecoverySane, WarnedInv, NEW t \in Tasks, TaskStep(t),
         undisturbed' = (undisturbed /\ ~Overlap')
  PROVE  WarnedInv' /\ WarningKept
<1>1. CommandOnly(t) /\ NotRecording /\ UNCHANGED <<processVars, stopVars, stop>>
  BY CommandTypes DEF CommandOnly, stopVars
<1>2. Heeds(t)
  BY CommandHeeds
<1>3. Noted'
  BY <1>1, <1>2, NotedRest DEF Heeds, WarnedInv
<1>4. Heed' /\ Resting' /\ Rows'
  BY <1>1, <1>2, OthersHeed DEF CommandOnly, Heeds
<1>5. undisturbed' => undisturbed /\ ~Overlap' /\ Alone /\ Careful(t)
  BY DEF WarnedInv, Care
<1>6. ASSUME undisturbed' PROVE Alone' /\ \A other \in Tasks : Careful(other)'
  <2>1. Alone' /\ \A other \in Tasks : other # t => task'[other] = NoTask
    BY <1>5, <1>6, OthersRest
  <2>2. Careful(t)'
    BY <1>2, <1>5, <1>6 DEF Heeds
  <2>3. ASSUME NEW other \in Tasks, other # t PROVE Careful(other)'
    BY <2>1, <2>3, NoTaskType DEF Careful
  <2> QED
    BY <2>1, <2>2, <2>3
<1>7. WarningKept
  BY <1>2, <1>5 DEF Heeds, WarningKept
<1> QED
  BY <1>3, <1>4, <1>6, <1>7 DEF WarnedInv, Care

LEMMA RemovalWarned ==
  ASSUME RecoverySane, WarnedInv, NEW t \in Tasks, NEW kept, RemovalStops(t, kept), undisturbed' = FALSE
  PROVE  WarnedInv' /\ WarningKept
<1>1. /\ NotRecording /\ task[t].pc = "remove" /\ ~marker' /\ EndTask(t)
      /\ UNCHANGED <<outcome, row, processVars, stopVars>>
  BY DEF RemovalStops, Running, SpoolLeft
<1>2. task \in [Tasks -> TaskRecord] /\ Heeded(t) /\ Rows /\ UNCHANGED stop
  BY <1>1 DEF RecoverySane, RecoveryTypeOK, WarnedInv, Heed, stopVars
<1>3. /\ task'[t].pc = "idle" /\ task'[t].kind = "none"
      /\ \A other \in Tasks : other # t => task'[other] = task[other]
  BY <1>1, <1>2, CommandMoves, NoTaskType
<1>4. Noted'
  BY <1>1, NotedRest DEF WarnedInv
<1>5. Heeded(t)' /\ Rows' /\ (marker => row.capture_incomplete)
  BY <1>1, <1>2, <1>3 DEF Heeded, Rebuilding, Rows, NotRecording
<1>6. Heed' /\ Resting' /\ Rows'
  BY <1>1, <1>2, <1>3, <1>5, OthersHeed
<1> QED
  BY <1>1, <1>4, <1>5, <1>6 DEF WarnedInv, Care, WarningKept

LEMMA WarnedStep ==
  ASSUME RecoverySane, WarnedInv, [RecoveryNext]_allVars
  PROVE  WarnedInv' /\ WarningKept
<1>1. CASE UNCHANGED allVars
  <2>1. UNCHANGED vars /\ UNCHANGED <<row, task, undisturbed>>
    BY <1>1 DEF allVars, libraryVars
  <2>2. UNCHANGED <<stop, marker, outcome, row, task, undisturbed>>
    BY <2>1 DEF vars, folderVars, stopVars
  <2>3. Noted'
    BY <2>1, RecordingNotes DEF WarnedInv
  <2>4. Care'
    BY <2>2 DEF WarnedInv, Care, Alone, Careful
  <2> QED
    BY <2>2, <2>3, <2>4 DEF WarnedInv, Resting, Rows, Heed, OneDialog, Heeded, NotRecording, WarningKept
<1>2. CASE Recording /\ undisturbed' = (undisturbed /\ ~Overlap')
  <2>1. WarnedInv'
    BY <1>2, RecordingWarned
  <2>2. /\ outcome.capture_incomplete => outcome'.capture_incomplete
        /\ marker /\ ~marker' => outcome'.capture_incomplete
        /\ UNCHANGED row
    BY <1>2, RecordingNotes DEF Recording, WarnedInv
  <2> QED
    BY <2>1, <2>2 DEF WarningKept
<1>3. CASE SaveMeeting /\ undisturbed' = (undisturbed /\ ~Overlap')
  <2>1. /\ FolderAsIs /\ stop = "stopped" /\ ~row.saved /\ row'.saved /\ UNCHANGED task
        /\ row'.capture_incomplete = (report.capture_incomplete \/ outcome.capture_incomplete)
    BY <1>3 DEF SaveMeeting
  <2>2. UNCHANGED <<marker, outcome, stop>> /\ NotRecording /\ UNCHANGED <<processVars, stopVars>>
    BY <2>1 DEF FolderAsIs, folderVars, stopVars, NotRecording
  <2>3. Noted' /\ NotRecording'
    BY <2>2, NotedRest DEF WarnedInv
  <2>4. ~row.capture_incomplete /\ (outcome.capture_incomplete => row'.capture_incomplete)
    BY <2>1 DEF WarnedInv, Rows
  <2>5. Heed' /\ Resting' /\ Rows'
    BY <2>1, <2>2, <2>3, <2>4 DEF WarnedInv, Heed, OneDialog, Heeded, Resting, Rows
  <2>6. Care'
    BY <1>3, <2>1, <2>2 DEF WarnedInv, Care, Alone, Careful
  <2> QED
    BY <2>2, <2>3, <2>4, <2>5, <2>6 DEF WarnedInv, WarningKept
<1>4. ASSUME NEW t \in Tasks, TaskStep(t), undisturbed' = (undisturbed /\ ~Overlap')
      PROVE  WarnedInv' /\ WarningKept
  BY <1>4, CommandWarned
<1>5. ASSUME NEW kept, NEW t \in Tasks, RemovalStops(t, kept), undisturbed' = FALSE
      PROVE  WarnedInv' /\ WarningKept
  BY <1>5, RemovalWarned
<1>6. ASSUME NEW kept, StopRemovalStops(kept), undisturbed' = FALSE
      PROVE  WarnedInv' /\ WarningKept
  <2>1. /\ stop = "release" /\ stop' = "report" /\ ~marker'
        /\ UNCHANGED <<outcome, row, task, fin, report, processVars>>
    BY <1>6 DEF StopRemovalStops, SpoolLeft, libraryVars
  <2>2. Noted' /\ (marker => outcome.capture_incomplete)
    BY <2>1 DEF WarnedInv, Noted, NotRecording, Before, Filling, processVars
  <2>3. \A t \in Tasks : task[t].pc = "idle"
    BY <2>1 DEF WarnedInv, Resting, NotRecording
  <2>4. Care'
    BY <1>6 DEF Care
  <2> QED
    BY <2>1, <2>2, <2>3, <2>4 DEF WarnedInv, Resting, Rows, Heed, OneDialog, Heeded, Rebuilding,
       NotRecording, WarningKept
<1> QED
  BY <1>1, <1>2, <1>3, <1>4, <1>5, <1>6 DEF RecoveryNext

(* "A saved capture warning remains permanent" (find_or_recover_audio_file_  *)
(* with_status): whatever fails, stalls, overlaps or dies, the library never *)
(* takes a warning back, and it has the warning whenever recording-outcome.  *)
(* json loses it or .incomplete goes. The file keeps it, too, and before     *)
(* .incomplete goes, as long as no two commands overlapped.                  *)
THEOREM WarningsStay == RecoverySpec => WarningPermanent
<1>1. RecoveryInit => RecoverySane /\ WarnedInv
  BY InitRecoverySane, InitWarned
<1>2. RecoverySane /\ WarnedInv /\ [RecoveryNext]_allVars => RecoverySane' /\ WarnedInv'
  BY RecoverySaneStep, WarnedStep
<1>3. RecoverySane /\ WarnedInv /\ [RecoveryNext]_allVars =>
        [/\ row.capture_incomplete => row'.capture_incomplete
         /\ outcome.capture_incomplete /\ ~outcome'.capture_incomplete => row'.capture_incomplete
         /\ marker /\ ~marker' => outcome'.capture_incomplete \/ row'.capture_incomplete
         /\ undisturbed' => /\ outcome.capture_incomplete => outcome'.capture_incomplete
                            /\ marker /\ ~marker' => outcome'.capture_incomplete]_allVars
  BY WarnedStep DEF WarningKept
<1> QED
  BY <1>1, <1>2, <1>3, PTL DEF RecoverySpec, WarningPermanent

-----------------------------------------------------------------------------
(* What an undisturbed folder keeps. A disk that stalls past the deadlines   *)
(* of the drain makes finalize race an abandoned write; without that the     *)
(* recording is quiet before anybody else comes to its folder.               *)

Quiet ==
  /\ ~raced
  /\ stop \notin Before => writer.pc = "idle"
  /\ stop \in {"outcome", "release", "report", "stopped"} => fin.pc \in {"done", "failed"}
  /\ stop = "crashed" => fin.pc = "none"
  /\ writer.pc # "idle" => writer.seq \in Seqs
  /\ Stored \subseteq accepted

\* While it goes on it has what CaptureSpool says of it, and no recovery.
OnItsOwn ==
  ~NotRecording => /\ GapsInv /\ WholeInv
                   /\ \A f \in Formats : recovered[f] = {}
                   /\ stop \notin Filling /\ ~incomplete => 1 .. captured \subseteq accepted

\* All that can be read from the spool.
Spooled == Stored \cup {b \in {tmp.batch} : CapturePaths.tail # {}}

Kept ==
  /\ spoolDir => accepted \subseteq Stored /\ \A f \in Formats : recovered[f] \subseteq Spooled
  /\ ~spoolDir => accepted \subseteq IF HasRecovery THEN Selected ELSE finalAudio

Releasing == {"release", "read", "probe", "write", "remove"}

\* A stopped recording has reported what it lost, and so has what followed.
Reported ==
  stop = "stopped" =>
    /\ ~report.capture_incomplete => 1 .. captured \subseteq accepted
    /\ report.capture_incomplete =>
         /\ row.saved => row.capture_incomplete
         /\ outcome.saved => outcome.capture_incomplete
         /\ \A t \in Tasks :
              /\ task[t].pc \in Releasing => outcome.capture_incomplete
              /\ task[t].pc \in {"probe", "write"} => task[t].read.capture_incomplete

\* A command that rebuilds has, or has still to read, all that it does not
\* report as a gap; one that removes has compared the preferred recovery
\* with the spool.
Covers(t) ==
  /\ task[t].pc \in {"encode", "publish", "supersede"} => spoolDir /\ task[t].staged \subseteq Spooled
  /\ task[t].pc = "encode" =>
       /\ task[t].list.seqs \subseteq ChunkSeqs /\ task[t].list.tail \subseteq CapturePaths.tail
       /\ ~task[t].gaps => accepted \subseteq task[t].staged \cup {chunk[s] : s \in task[t].list.seqs}
  /\ task[t].pc \in {"publish", "supersede", "recovered"} /\ task[t].staged # {} /\ ~task[t].gaps =>
       accepted \subseteq task[t].staged
  /\ task[t].pc \in {"read", "probe", "write", "remove"} => spoolDir /\ HasRecovery /\ accepted \subseteq Selected
Covering == \A t \in Tasks : Covers(t)

CalmInv == Alone /\ OnItsOwn /\ Kept /\ Reported /\ Covering
KeptInv == Quiet /\ (undisturbed => CalmInv)

LEMMA SameListing ==
  ASSUME UNCHANGED <<chunk, tmp>>
  PROVE  Stored' = Stored /\ ChunkSeqs' = ChunkSeqs /\ CapturePaths' = CapturePaths /\ Spooled' = Spooled
BY DEF Stored, ChunkSeqs, CapturePaths, IsNext, Spooled

LEMMA SameRecovery ==
  ASSUME UNCHANGED recovered
  PROVE  Selected' = Selected /\ (HasRecovery' <=> HasRecovery)
BY DEF Selected, Preferred, HasRecovery

LEMMA InitKept == ASSUME RecoveryInit PROVE KeptInv
<1> USE NAssumption
<1>1. Init /\ stop = "recording" /\ writer.pc = "idle" /\ ~raced /\ spoolDir /\ accepted = {}
  BY DEF RecoveryInit, Init, FolderInit, Idle
<1>2. Stored = {}
  BY <1>1 DEF Init, FolderInit, Stored, ChunkSeqs
<1>3. GapsInv /\ WholeInv
  BY <1>1, InitGaps, InitWhole
<1>4. \A t \in Tasks : task[t] = NoTask /\ task[t].pc = "idle"
  BY DEF RecoveryInit, NoTask
<1>5. \A f \in Formats : recovered[f] = {}
  BY DEF RecoveryInit
<1> QED
  BY <1>1, <1>2, <1>3, <1>4, <1>5 DEF KeptInv, Quiet, CalmInv, Alone, OnItsOwn, Kept, Reported,
     Covering, Covers, Filling, Before

\* The recording falls quiet.
LEMMA RecordingQuiet ==
  ASSUME ~DiskMayStall, Sane, Quiet, [Next]_vars
  PROVE  Quiet'
<1> USE NAssumption, CaptureAssumption
<1> USE DEF Quiet, Before, Sane, TypeOK
<1>1. CASE TakeBatch
  <2>1. /\ stop \in Filling /\ writer.pc = "idle" /\ handoff # <<>> /\ writer'.seq = nextWrite
        /\ UNCHANGED <<chunk, accepted, raced, stop, fin>>
    BY <1>1 DEF TakeBatch, stopVars, Filling
  <2>2. Len(handoff) \in Nat /\ Len(handoff) >= 1
    BY <2>1
  <2>3. nextWrite \in Seqs
    BY <2>1, <2>2 DEF WriterInv, Busy, Seqs
  <2> QED
    BY <2>1, <2>3, SameSpool DEF Filling
<1>2. CASE FillTmp
  <2>1. /\ writer.pc = "fill" /\ writer'.pc = "rename" /\ writer'.seq = writer.seq
        /\ UNCHANGED <<chunk, accepted, raced, stop, fin>>
    BY <1>2 DEF FillTmp, stopVars, Writer
  <2> QED
    BY <2>1, SameSpool
<1>3. CASE PublishChunk
  <2>1. /\ writer'.pc = "idle" /\ chunk' = [chunk EXCEPT ![writer.seq] = writer.batch]
        /\ accepted' = accepted \cup {writer.batch} /\ UNCHANGED <<raced, stop, fin>>
    BY <1>3 DEF PublishChunk, stopVars, Idle
  <2>2. Stored' \subseteq Stored \cup {writer.batch}
    BY <2>1 DEF Stored, ChunkSeqs, FolderTypeOK
  <2> QED
    BY <2>1, <2>2
<1>4. CASE \/ HandOff \/ LoseBatch \/ CreateFails \/ WriteFails \/ OrphanEnds
           \/ (\E s \in Seqs : Damage(s)) \/ UNCHANGED vars
  <2>1. /\ UNCHANGED <<chunk, accepted, raced, stop, fin>>
        /\ UNCHANGED writer \/ writer'.pc = "idle"
    BY <1>4 DEF HandOff, LoseBatch, CreateFails, WriteFails, OrphanEnds, Damage, vars, folderVars,
       processVars, stopVars, Idle
  <2> QED
    BY <2>1, SameSpool
<1>5. CASE StopCapture \/ PipelineFails \/ FinishDrained
  <2>1. /\ stop' \in Before /\ UNCHANGED <<chunk, accepted, raced, writer>>
    BY <1>5 DEF StopCapture, PipelineFails, FinishDrained, AbortWorker, folderVars, processVars
  <2> QED
    BY <2>1, SameSpool
<1>6. CASE StartSave
  <2>1. /\ stop' = "saving" /\ writer.pc = "idle" /\ ~raced'
        /\ UNCHANGED <<chunk, accepted, writer>>
    BY <1>6 DEF StartSave, processVars
  <2> QED
    BY <2>1, SameSpool
<1>7. CASE ListCapture \/ ReadCapture \/ PublishAudio \/ FinalizeFails
  <2>1. /\ fin.pc \in {"list", "read", "publish"} /\ UNCHANGED <<chunk, accepted, writer, raced, stop>>
    BY <1>7 DEF ListCapture, ReadCapture, PublishAudio, FinalizeFails, folderVars, processVars
  <2> QED
    BY <2>1, SameSpool
<1>8. CASE \/ SaveDone \/ SaveFailed \/ WriteOutcome \/ WriteOutcomeFails \/ ReleaseFails \/ WriteReport
  <2>1. /\ stop \in {"saving", "outcome", "release", "report"}
        /\ stop' \in {"outcome", "release", "report", "stopped"}
        /\ stop = "saving" => fin.pc \in {"done", "failed"}
        /\ UNCHANGED <<chunk, accepted, writer, raced, fin>>
    BY <1>8 DEF SaveDone, SaveFailed, WriteOutcome, WriteOutcomeFails, ReleaseFails, WriteReport,
       folderVars, processVars
  <2> QED
    BY <2>1, SameSpool
<1>9. CASE ReleaseSpool
  <2>1. /\ stop = "release" /\ stop' = "report" /\ Stored' = {}
        /\ UNCHANGED <<accepted, writer, raced, fin>>
    BY <1>9 DEF ReleaseSpool, NoSpool, Stored, ChunkSeqs, processVars
  <2> QED
    BY <2>1
<1>10. CASE Crash
  <2>1. /\ stop' = "crashed" /\ writer'.pc = "idle" /\ fin'.pc = "none"
        /\ UNCHANGED <<chunk, accepted, raced>>
    BY <1>10 DEF Crash, Idle, NotRun, folderVars
  <2> QED
    BY <2>1, SameSpool
<1>11. ~FinishTimeout /\ ~SaveDeadline
  BY DEF FinishTimeout, SaveDeadline
<1> QED
  BY <1>1, <1>2, <1>3, <1>4, <1>5, <1>6, <1>7, <1>8, <1>9, <1>10, <1>11
     DEF Next, WriterStep, StopStep, FinalizeStep, Finished

\* And then only rot and crashes come to the folder from it.
LEMMA RecordingOver ==
  ASSUME Quiet, NotRecording, [Next]_vars
  PROVE  /\ UNCHANGED <<spoolDir, chunk, tmp, finalAudio, outcome, accepted, raced, captured>>
         /\ stop' # "crashed" => UNCHANGED <<stop, report, incomplete>>
<1>1. writer.pc = "idle" /\ fin.pc \in {"none", "done", "failed"} /\ stop \in {"stopped", "crashed"}
  BY DEF Quiet, NotRecording, Before
<1>2. CASE Next
  <2>1. Crash \/ (\E s \in Seqs : Damage(s)) \/ Finished
    BY <1>1, <1>2 DEF Next, HandOff, LoseBatch, WriterStep, TakeBatch, FillTmp, PublishChunk, WriteFails,
       OrphanEnds, CreateFails, StopCapture, PipelineFails, StopStep, FinishDrained, FinishTimeout,
       StartSave, SaveDone, SaveFailed, SaveDeadline, WriteOutcome, WriteOutcomeFails, ReleaseSpool,
       ReleaseFails, WriteReport, FinalizeStep, ListCapture, ReadCapture, PublishAudio, FinalizeFails
  <2> QED
    BY <2>1 DEF Crash, Damage, Finished, vars, folderVars, processVars, stopVars
<1>3. CASE UNCHANGED vars
  BY <1>3 DEF vars, folderVars, processVars, stopVars
<1> QED
  BY <1>2, <1>3

LEMMA RecordingOwn ==
  ASSUME ~DiskMayStall, RecoverySane, Quiet, OnItsOwn, Kept, ~NotRecording, Recording, stop' # "crashed"
  PROVE  /\ GapsInv' /\ WholeInv'
         /\ stop' \notin Filling /\ ~incomplete' => 1 .. captured' \subseteq accepted'
<1>1. /\ Sane /\ GapsInv /\ WholeInv /\ [Next]_vars
  BY DEF OnItsOwn, RecoverySane, RecoveryTypeOK, Sane, Recording
<1>2. GapsInv' /\ WholeInv'
  BY <1>1, GapsStep, WholeStep
<1>3. ASSUME stop' \notin Filling, ~incomplete' PROVE 1 .. captured' \subseteq accepted'
  <2>1. CASE stop \notin Filling
    <3>1. captured' = captured /\ accepted \subseteq accepted' /\ (incomplete => incomplete')
      BY <1>1, <2>1 DEF Recording, Next, HandOff, LoseBatch, WriterStep, TakeBatch, FillTmp, PublishChunk,
         WriteFails, OrphanEnds, CreateFails, StopCapture, PipelineFails, StopStep, FinishDrained,
         FinishTimeout, StartSave, SaveDone, SaveFailed, SaveDeadline, WriteOutcome, WriteOutcomeFails,
         ReleaseSpool, ReleaseFails, WriteReport, FinalizeStep, ListCapture, ReadCapture, PublishAudio,
         FinalizeFails, Damage, Crash, Finished, AbortWorker, vars, folderVars, processVars, stopVars,
         Filling
    <3> QED
      BY <1>3, <2>1, <3>1 DEF OnItsOwn
  <2>2. CASE stop \in Filling
    <3>1. FinishDrained
      <4>1. Next /\ stop' # stop
        BY <1>3, <2>2 DEF Recording
      <4>2. ~FinishTimeout /\ ~PipelineFails
        BY <1>3 DEF FinishTimeout, PipelineFails, AbortWorker
      <4> QED
        BY <1>3, <2>2, <4>1, <4>2 DEF Next, HandOff, LoseBatch, WriterStep, TakeBatch, FillTmp, PublishChunk,
         WriteFails, OrphanEnds, CreateFails, StopCapture, StopStep,
         StartSave, SaveDone, SaveFailed, SaveDeadline, WriteOutcome, WriteOutcomeFails,
         ReleaseSpool, ReleaseFails, WriteReport, FinalizeStep, ListCapture, ReadCapture, PublishAudio,
         FinalizeFails, Damage, Crash, Finished, vars, folderVars, processVars, stopVars, Filling
    <3>2. /\ handoff = <<>> /\ writer.pc = "idle" /\ stop = "finishing" /\ ~incomplete
          /\ UNCHANGED <<captured, accepted>>
      BY <1>3, <3>1 DEF FinishDrained, processVars
    <3>3. spoolDir
      BY <1>1, <3>2 DEF GapsInv, FinalizeInv
    <3>4. 1 .. captured \subseteq Stored
      BY <1>1, <3>2, <3>3 DEF GapsInv, NothingForgotten, InHandoff, InWriter
    <3> QED
      BY <3>2, <3>4 DEF Quiet
  <2> QED
    BY <2>1, <2>2
<1> QED
  BY <1>2, <1>3

\* Accepted batches stay in the spool until audio.mp4 has them.
LEMMA RecordingStores ==
  ASSUME ~DiskMayStall, RecoverySane, Quiet, OnItsOwn, Kept, ~NotRecording, Recording
  PROVE  Kept'
<1> USE NAssumption
<1>1. /\ Sane /\ GapsInv /\ WholeInv /\ [Next]_vars /\ UNCHANGED recovered
      /\ \A f \in Formats : recovered[f] = {}
  BY DEF OnItsOwn, RecoverySane, RecoveryTypeOK, Sane, Recording
<1>2. ~HasRecovery'
  BY <1>1, SameRecovery DEF HasRecovery, Selected, Preferred, Formats
<1>3. CASE PublishChunk
  <2>1. /\ spoolDir' /\ spoolDir /\ writer.pc = "rename" /\ chunk' = [chunk EXCEPT ![writer.seq] = writer.batch]
        /\ accepted' = accepted \cup {writer.batch}
    BY <1>3 DEF PublishChunk
  <2>2. writer.seq \in Seqs /\ writer.seq \notin ChunkSeqs /\ writer.batch \in Batch
    BY <1>1, <2>1 DEF Quiet, WholeInv, Numbered, Sane, WriterInv
  <2>3. Stored' = Stored \cup {writer.batch}
    BY <1>1, <2>1, <2>2, PublishStored DEF Sane, TypeOK
  <2> QED
    BY <1>1, <2>1, <2>3 DEF Kept
<1>4. CASE ReleaseSpool
  <2>1. /\ stop = "release" /\ ~spoolDir' /\ UNCHANGED <<finalAudio, accepted>>
    BY <1>4 DEF ReleaseSpool, NoSpool
  <2>2. spoolDir /\ fin.pc = "done" /\ fin.all
    BY <1>1, <2>1 DEF GapsInv, FinalizeInv, ReportInv
  <2>3. Stored \subseteq finalAudio
    BY <1>1, <2>1, <2>2 DEF WholeInv, Unraced, Quiet, Before
  <2> QED
    BY <1>2, <2>1, <2>2, <2>3 DEF Kept
<1>5. CASE PublishAudio
  <2>1. fin.pc = "publish" /\ UNCHANGED <<chunk, tmp, spoolDir, accepted>>
    BY <1>5 DEF PublishAudio
  <2>2. stop # "crashed" /\ spoolDir
    BY <1>1, <2>1 DEF GapsInv, FinalizeInv
  <2> QED
    BY <1>1, <2>1, <2>2, SameListing DEF Kept
<1>6. CASE ~PublishChunk /\ ~ReleaseSpool /\ ~PublishAudio
  <2>1. UNCHANGED <<chunk, spoolDir, accepted, finalAudio>>
    BY <1>1, <1>6 DEF Next, HandOff, LoseBatch, WriterStep, TakeBatch, FillTmp,
         WriteFails, OrphanEnds, CreateFails, StopCapture, PipelineFails, StopStep, FinishDrained,
         FinishTimeout, StartSave, SaveDone, SaveFailed, SaveDeadline, WriteOutcome, WriteOutcomeFails,
         ReleaseFails, WriteReport, FinalizeStep, ListCapture, ReadCapture,
         FinalizeFails, Damage, Crash, Finished, AbortWorker, vars, folderVars, processVars, stopVars
  <2> QED
    BY <1>1, <1>2, <2>1, SameSpool, SameRecovery DEF Kept, HasRecovery
<1> QED
  BY <1>3, <1>4, <1>5, <1>6

LEMMA RecordingCalm ==
  ASSUME ~DiskMayStall, RecoverySane, WarnedInv, Quiet, CalmInv, Recording
  PROVE  CalmInv'
<1> USE DEF CalmInv
<1>1. /\ Sane /\ [Next]_vars /\ UNCHANGED <<recovered, row>>
  BY DEF RecoverySane, RecoveryTypeOK, Sane, Recording
<1>2. \/ stop' = "crashed" /\ \A t \in Tasks : task'[t] = NoTask
      \/ stop' # "crashed" /\ task' = task
  BY DEF Recording
<1>3. NoTask.pc = "idle"
  BY DEF NoTask
<1>4. Alone'
  BY <1>2 DEF Alone
<1>5. CASE NotRecording
  <2>1. /\ UNCHANGED <<spoolDir, chunk, tmp, finalAudio, outcome, accepted, raced, captured>>
        /\ stop' # "crashed" => UNCHANGED <<stop, report, incomplete>>
    BY <1>1, <1>5, RecordingOver
  <2>2. NotRecording'
    BY <1>5, <2>1 DEF NotRecording
  <2>3. Kept'
    BY <1>1, <2>1, SameListing, SameRecovery DEF Kept
  <2>4. Reported'
    BY <1>1, <1>2, <2>1 DEF Reported
  <2>5. Covering'
    BY <1>1, <1>2, <1>3, <2>1, SameListing, SameRecovery DEF Covering, Covers
  <2> QED
    BY <1>4, <2>2, <2>3, <2>4, <2>5 DEF OnItsOwn
<1>6. CASE ~NotRecording
  <2>1. \A t \in Tasks : task'[t].pc = "idle"
    BY <1>2, <1>3, <1>6 DEF WarnedInv, Resting
  <2>2. Covering'
    BY <2>1 DEF Covering, Covers
  <2>3. Kept'
    BY <1>6, RecordingStores
  <2>4. stop' # "crashed" =>
          /\ GapsInv' /\ WholeInv'
          /\ stop' \notin Filling /\ ~incomplete' => 1 .. captured' \subseteq accepted'
    BY <1>6, RecordingOwn
  <2>5. OnItsOwn'
    BY <1>1, <1>6, <2>4 DEF OnItsOwn, NotRecording
  <2>6. ASSUME stop' = "stopped" PROVE Reported'
    <3>1. ReportInv' /\ Admitted' /\ stop' \notin Before
      BY <2>4, <2>6 DEF GapsInv, WholeInv, Before
    <3>2. report'.capture_incomplete => (outcome'.saved => outcome'.capture_incomplete)
      BY <2>6, <3>1 DEF Admitted, SavedOutcome
    <3>3. ~report'.capture_incomplete => ~incomplete'
      BY <2>6, <3>1 DEF ReportInv
    <3>4. ~row'.saved
      BY <1>1, <1>6 DEF WarnedInv, Rows
    <3> QED
      BY <2>1, <2>4, <2>6, <3>2, <3>3, <3>4 DEF Reported, Filling, Releasing
  <2> QED
    BY <1>4, <2>2, <2>3, <2>5, <2>6 DEF Reported
<1> QED
  BY <1>5, <1>6

-----------------------------------------------------------------------------
(* Originals are compared with the recovery by number: "longer" is enough    *)
(* because a recovery has nothing that is not in the spool.                  *)

LEMMA ReleaseCovers ==
  ASSUME FolderTypeOK, \A f \in Formats : recovered[f] \subseteq Spooled, Releasable
  PROVE  spoolDir /\ HasRecovery /\ Stored \subseteq Selected
<1> USE NAssumption
<1> DEFINE files == ChunkSeqs \cup CapturePaths.tail
           heard == [s \in files |-> IF s \in ChunkSeqs THEN chunk[s] ELSE tmp.batch]
<1>1. /\ spoolDir /\ HasRecovery /\ Cardinality(Selected) >= Cardinality(files)
  BY DEF Releasable, LongEnough, CapturePaths
<1>2. Selected \subseteq Spooled
  BY DEF Selected, Preferred, Formats
<1>3. files \subseteq Seqs
  BY DEF ChunkSeqs, CapturePaths, FolderTypeOK, TmpFile
<1>4. IsFiniteSet(files)
  <2>1. IsFiniteSet(Seqs)
    <3>1. 0 \in Int /\ N - 1 \in Int
      OBVIOUS
    <3> QED
      BY <3>1, FS_Interval, ZenonT(20) DEF Seqs
  <2> QED
    BY <1>3, <2>1, FS_Subset
<1>5. CapturePaths.tail # {} => CapturePaths.tail = {tmp.seq} /\ tmp.seq \notin ChunkSeqs
  BY DEF CapturePaths, IsNext, ChunkSeqs, Seqs
<1>6. heard \in [files -> Spooled]
  BY <1>5 DEF Spooled, Stored
<1>7. \A b \in Spooled : \E s \in files : heard[s] = b
  <2> SUFFICES ASSUME NEW b \in Spooled PROVE \E s \in files : heard[s] = b
    OBVIOUS
  <2>1. CASE b \in Stored
    BY <2>1 DEF Stored
  <2>2. CASE b = tmp.batch /\ CapturePaths.tail # {}
    BY <1>5, <2>2
  <2> QED
    BY <2>1, <2>2 DEF Spooled
<1>8. heard \in Surjection(files, Spooled)
  BY <1>6, <1>7, Fun_IsSurj
<1> HIDE DEF files, heard
<1>9. IsFiniteSet(Spooled) /\ Cardinality(Spooled) <= Cardinality(files)
  BY <1>4, <1>8, FS_Surjection
<1>10. /\ IsFiniteSet(Selected) /\ Cardinality(Selected) <= Cardinality(Spooled)
       /\ Cardinality(Spooled) = Cardinality(Selected) => Spooled = Selected
  BY <1>2, <1>9, FS_Subset
<1>11. /\ Cardinality(Spooled) \in Nat /\ Cardinality(Selected) \in Nat /\ Cardinality(files) \in Nat
  BY <1>4, <1>9, <1>10, FS_CardinalityType
<1>12. Spooled = Selected
  BY <1>1, <1>9, <1>10, <1>11
<1> QED
  BY <1>1, <1>12 DEF Spooled

-----------------------------------------------------------------------------
(* A command that has the folder for itself.                                 *)

\* A command that changes neither the spool nor a recovery.
LEMMA KeptAsIs ==
  ASSUME Kept, UNCHANGED <<spoolDir, chunk, tmp, finalAudio, accepted, recovered>>
  PROVE  Kept'
BY SameListing, SameRecovery DEF Kept

LEMMA EncodedSpooled ==
  ASSUME NEW list, list.tail \subseteq CapturePaths.tail
  PROVE  Encoded(list) \subseteq Spooled
BY DEF Encoded, Spooled, Stored, Readable, TailReadable

\* What a command owes to the audio.
LEMMA CommandCovers ==
  ASSUME RecoverySane, Kept, NEW t \in Tasks, Covers(t), TaskStep(t)
  PROVE  Kept' /\ Covers(t)'
<1>1. /\ FolderTypeOK /\ task \in [Tasks -> TaskRecord] /\ recovered \in [Formats -> SUBSET Batch]
      /\ task[t] \in TaskRecord
  BY DEF RecoverySane, RecoveryTypeOK, TypeOK
<1>2. FolderAsIs => UNCHANGED <<spoolDir, chunk, tmp, finalAudio, accepted>>
  BY DEF FolderAsIs, folderVars
<1>3. FolderButOutcome => UNCHANGED <<spoolDir, chunk, tmp, finalAudio, accepted>>
  BY DEF FolderButOutcome
<1>4. CapturePaths.seqs = ChunkSeqs /\ Stored = {chunk[s] : s \in ChunkSeqs}
  BY DEF CapturePaths, Stored
<1>5. CASE Dialog(t) \/ Open(t, "open") \/ Open(t, "retranscribe")
  <2>1. UNCHANGED <<spoolDir, chunk, tmp, finalAudio, accepted, recovered>>
    BY <1>2, <1>5 DEF Dialog, Open
  <2>2. CASE spoolDir /\ (Begin(t, "dialog") \/ Begin(t, "open") \/ Begin(t, "retranscribe"))
    <3>1. /\ task'[t].pc = "encode" /\ task'[t].staged = {} /\ task'[t].list = CapturePaths
      BY <1>1, <2>2, CommandBegins
    <3>2. accepted \subseteq {chunk[s] : s \in ChunkSeqs}
      BY <1>4, <2>2 DEF Kept
    <3> QED
      BY <1>4, <2>1, <2>2, <3>1, <3>2, KeptAsIs, SameListing DEF Covers
  <2>3. CASE task' = [task EXCEPT ![t] =
                 [NoTask EXCEPT !.kind = "retranscribe", !.pc = "recovered",
                                !.fmt = IF HasRecovery THEN Preferred ELSE "none"]]
    <3>1. task'[t].pc = "recovered" /\ task'[t].staged = {}
      BY <1>1, <2>3, RecoveryReused
    <3> QED
      BY <2>1, <3>1, KeptAsIs DEF Covers
  <2> QED
    BY <1>5, <2>2, <2>3 DEF Dialog, Open
<1>6. ASSUME NEW cut \in Seqs, ReadPart(t, cut) PROVE Kept' /\ Covers(t)'
  <2> DEFINE part == {s \in task[t].list.seqs : s < cut}
  <2>1. UNCHANGED <<spoolDir, chunk, tmp, finalAudio, accepted, recovered>> /\ task[t].pc = "encode"
    BY <1>2, <1>6 DEF ReadPart, Running
  <2>2. /\ task'[t].pc = "encode" /\ task'[t].list = [task[t].list EXCEPT !.seqs = @ \ part]
        /\ task'[t].staged = task[t].staged \cup {chunk[s] : s \in Readable(part)}
        /\ task'[t].gaps = (task[t].gaps \/ Readable(part) # part)
    BY <1>1, <1>6, PartRead
  <2>3. task'[t].list.seqs = task[t].list.seqs \ part /\ task'[t].list.tail = task[t].list.tail
    BY <1>1, <2>2 DEF TaskRecord, Listing
  <2>4. {chunk[s] : s \in Readable(part)} \subseteq Spooled
    BY DEF Readable, Spooled, Stored
  <2>5. ASSUME ~task'[t].gaps
        PROVE  accepted \subseteq task'[t].staged \cup {chunk[s] : s \in task'[t].list.seqs}
    <3>1. Readable(part) = part /\ ~task[t].gaps
      BY <2>2, <2>5
    <3>2. accepted \subseteq task[t].staged \cup {chunk[s] : s \in task[t].list.seqs}
      BY <2>1, <3>1 DEF Covers
    <3> QED
      BY <2>2, <2>3, <3>1, <3>2
  <2> HIDE DEF part
  <2> QED
    BY <2>1, <2>2, <2>3, <2>4, <2>5, KeptAsIs, SameListing DEF Covers
<1>7. ASSUME NEW s \in Seqs, SkipChunk(t, s) PROVE Kept' /\ Covers(t)'
  <2>1. UNCHANGED <<spoolDir, chunk, tmp, finalAudio, accepted, recovered>> /\ task[t].pc = "encode"
    BY <1>2, <1>7 DEF SkipChunk, Running
  <2>2. /\ task'[t].pc = "encode" /\ task'[t].staged = task[t].staged /\ task'[t].gaps
        /\ task'[t].list = [task[t].list EXCEPT !.seqs = @ \ {s}]
    BY <1>1, <1>7, ChunkSkipped
  <2>3. task'[t].list.seqs = task[t].list.seqs \ {s} /\ task'[t].list.tail = task[t].list.tail
    BY <1>1, <2>2 DEF TaskRecord, Listing
  <2> QED
    BY <2>1, <2>2, <2>3, KeptAsIs, SameListing DEF Covers
<1>8. CASE Rebuild(t)
  <2>1. UNCHANGED <<spoolDir, chunk, tmp, finalAudio, accepted, recovered>>
    BY <1>2, <1>8 DEF Rebuild
  <2>2. /\ task[t].pc = "encode" /\ task'[t].pc = "publish"
        /\ task'[t].staged = task[t].staged \cup Encoded(task[t].list)
        /\ task'[t].gaps = (task[t].gaps \/ Unread(task[t].list))
    BY <1>1, <1>8, Rebuilt
  <2>3. Encoded(task[t].list) \subseteq Spooled
    BY <2>2, EncodedSpooled DEF Covers
  <2>4. ASSUME ~task'[t].gaps PROVE accepted \subseteq task'[t].staged
    <3>1. ~task[t].gaps /\ Readable(task[t].list.seqs) = task[t].list.seqs
      BY <2>2, <2>4 DEF Unread
    <3>2. {chunk[s] : s \in task[t].list.seqs} \subseteq Encoded(task[t].list)
      BY <3>1 DEF Encoded
    <3> QED
      BY <2>2, <3>1, <3>2 DEF Covers
  <2> QED
    BY <2>1, <2>2, <2>3, <2>4, KeptAsIs, SameListing DEF Covers
<1>9. CASE EncoderFails(t)
  <2>1. UNCHANGED <<spoolDir, chunk, tmp, finalAudio, accepted, recovered>> /\ spoolDir
    BY <1>2, <1>9 DEF EncoderFails
  <2>2. /\ task'[t].pc = "encode" /\ task'[t].staged = {} /\ task'[t].list = CapturePaths
    BY <1>1, <1>9, EncoderRetried
  <2>3. accepted \subseteq {chunk[s] : s \in ChunkSeqs}
    BY <1>4, <2>1 DEF Kept
  <2> QED
    BY <1>4, <2>1, <2>2, <2>3, KeptAsIs, SameListing DEF Covers
<1>10. CASE RebuildFails(t) \/ RecoverFails(t) \/ ShowRecovered(t) \/ TaskFails(t)
  <2>1. UNCHANGED <<spoolDir, chunk, tmp, finalAudio, accepted, recovered>> /\ EndTask(t)
    BY <1>2, <1>10 DEF RebuildFails, RecoverFails, ShowRecovered, TaskFails
  <2>2. task'[t].pc = "idle"
    BY <1>1, <2>1, CommandMoves, NoTaskType
  <2> QED
    BY <2>1, <2>2, KeptAsIs DEF Covers
<1>11. CASE PublishRecovery(t)
  <2>1. /\ UNCHANGED <<spoolDir, chunk, tmp, finalAudio, accepted>> /\ Goto(t, "supersede")
        /\ recovered' = [recovered EXCEPT ![task[t].fmt] = task[t].staged] /\ task[t].pc = "publish"
    BY <1>2, <1>11 DEF PublishRecovery, Running
  <2>2. /\ task'[t].pc = "supersede" /\ task'[t].staged = task[t].staged /\ task'[t].gaps = task[t].gaps
    BY <1>1, <2>1, CommandMoves DEF CommandSteps
  <2>3. spoolDir /\ task[t].staged \subseteq Spooled
    BY <2>1 DEF Covers
  <2>4. Kept'
    BY <1>1, <2>1, <2>3, SameListing DEF Kept
  <2> QED
    BY <2>1, <2>2, <2>4, SameListing DEF Covers
<1>12. CASE Supersede(t)
  <2>1. /\ UNCHANGED <<spoolDir, chunk, tmp, finalAudio, accepted>>
        /\ recovered' = [recovered EXCEPT ![Other(task[t].fmt)] = {}]
    BY <1>2, <1>12 DEF Supersede
  <2>2. /\ task[t].pc = "supersede" /\ task'[t].pc = "recovered" /\ task'[t].staged = task[t].staged
        /\ task[t].gaps => task'[t].gaps
    BY <1>1, <1>12, Superseded
  <2>3. spoolDir
    BY <2>2 DEF Covers
  <2>4. Kept'
    BY <1>1, <2>1, <2>3, SameListing DEF Kept
  <2> QED
    BY <2>1, <2>2, <2>4 DEF Covers
<1>13. CASE \/ SaveRecovered(t) \/ CommitTranscript(t) \/ WriteRow(t)
            \/ ReadEvidence(t) \/ InspectCapture(t)
  <2>1. UNCHANGED <<spoolDir, chunk, tmp, finalAudio, accepted, recovered>>
    BY <1>2, <1>3, <1>13 DEF SaveRecovered, CommitTranscript, WriteRow, ReadEvidence, InspectCapture
  <2>2. task'[t].pc \in {"idle", "release", "file", "inspect", "transcribe"}
    <3>1. CASE SaveRecovered(t) \/ CommitTranscript(t) \/ WriteRow(t)
      BY <1>1, <3>1, CommandMoves, NoTaskType
         DEF SaveRecovered, CommitTranscript, WriteRow, CommandSteps
    <3>2. CASE InspectCapture(t)
      BY <1>1, <3>2, CaptureInspected
    <3>3. CASE ReadEvidence(t)
      <4>1. task' = [task EXCEPT ![t].pc = "inspect", ![t].read = outcome]
        BY <3>3 DEF ReadEvidence
      <4> QED
        BY <1>1, <4>1, OutcomeRead DEF CommandSteps
    <3> QED
      BY <1>13, <3>1, <3>2, <3>3
  <2> QED
    BY <2>1, <2>2, KeptAsIs DEF Covers
<1>14. CASE CheckRelease(t)
  <2>1. /\ UNCHANGED <<spoolDir, chunk, tmp, finalAudio, accepted, recovered>>
        /\ IF Releasable THEN Goto(t, "read") ELSE EndTask(t)
    BY <1>2, <1>14 DEF CheckRelease
  <2>2. CASE ~Releasable
    BY <1>1, <2>1, <2>2, KeptAsIs, CommandMoves, NoTaskType DEF Covers
  <2>3. CASE Releasable
    <3>1. task'[t].pc = "read"
      BY <1>1, <2>1, <2>3, CommandMoves DEF CommandSteps
    <3>2. spoolDir
      BY <2>3 DEF Releasable
    <3>3. spoolDir /\ HasRecovery /\ accepted \subseteq Selected
      BY <1>1, <2>3, <3>2, ReleaseCovers DEF Kept
    <3> QED
      BY <2>1, <3>1, <3>3, KeptAsIs, SameRecovery DEF Covers
  <2> QED
    BY <2>2, <2>3
<1>15. CASE KeepWarning(t)
  <2>1. /\ UNCHANGED <<spoolDir, chunk, tmp, finalAudio, accepted, recovered>>
        /\ task[t].pc = "write" /\ Goto(t, "remove")
    BY <1>3, <1>15 DEF KeepWarning, Running
  <2>2. task'[t].pc = "remove"
    BY <1>1, <2>1, CommandMoves DEF CommandSteps
  <2> QED
    BY <2>1, <2>2, KeptAsIs, SameRecovery DEF Covers
<1>16. CASE ReadOutcome(t) \/ ProbeMarker(t)
  <2>1. /\ UNCHANGED <<spoolDir, chunk, tmp, finalAudio, accepted, recovered>>
        /\ task[t].pc \in {"read", "probe"}
    BY <1>2, <1>16 DEF ReadOutcome, ProbeMarker, Running
  <2>2. task'[t].pc \in {"probe", "write"}
    <3>1. CASE ReadOutcome(t)
      <4>1. task' = [task EXCEPT ![t].pc = "probe", ![t].read = outcome]
        BY <3>1 DEF ReadOutcome
      <4> QED
        BY <1>1, <4>1, OutcomeRead DEF CommandSteps
    <3>2. CASE ProbeMarker(t)
      BY <1>1, <3>2, MarkerProbed
    <3> QED
      BY <1>16, <3>1, <3>2
  <2> QED
    BY <2>1, <2>2, KeptAsIs, SameRecovery DEF Covers
<1>17. CASE RemoveOriginals(t)
  <2>1. /\ ~spoolDir' /\ UNCHANGED <<accepted, recovered>> /\ task[t].pc = "remove" /\ EndTask(t)
    BY <1>17 DEF RemoveOriginals, NoSpool, Running
  <2>2. task'[t].pc = "idle"
    BY <1>1, <2>1, CommandMoves, NoTaskType
  <2>3. HasRecovery /\ accepted \subseteq Selected
    BY <2>1 DEF Covers
  <2> QED
    BY <2>1, <2>2, <2>3, SameRecovery DEF Covers, Kept
<1> QED
  BY <1>5, <1>6, <1>7, <1>8, <1>9, <1>10, <1>11, <1>12, <1>13, <1>14, <1>15, <1>16, <1>17 DEF TaskStep

LEMMA CommandReports ==
  ASSUME RecoverySane, WarnedInv, Reported, NEW t \in Tasks, TaskStep(t)
  PROVE  Reported'
<1> USE DEF Releasing
<1>1. CommandOnly(t) /\ Heeds(t) /\ Heeded(t) /\ FolderTypeOK /\ task \in [Tasks -> TaskRecord]
  BY CommandTypes, CommandHeeds DEF WarnedInv, Heed, RecoverySane, RecoveryTypeOK, TypeOK
<1>2. UNCHANGED <<stop, report, accepted, captured>>
  BY <1>1 DEF CommandOnly, processVars, stopVars
<1>3. SUFFICES ASSUME stop = "stopped", report.capture_incomplete
               PROVE  /\ row'.saved => row'.capture_incomplete
                      /\ outcome'.saved => outcome'.capture_incomplete
                      /\ \A o \in Tasks :
                           /\ task'[o].pc \in Releasing => outcome'.capture_incomplete
                           /\ task'[o].pc \in {"probe", "write"} => task'[o].read.capture_incomplete
  BY <1>2 DEF Reported
<1>4. /\ row.saved => row.capture_incomplete
      /\ outcome.saved => outcome.capture_incomplete
      /\ \A o \in Tasks :
           /\ task[o].pc \in Releasing => outcome.capture_incomplete
           /\ task[o].pc \in {"probe", "write"} => task[o].read.capture_incomplete
  BY <1>3 DEF Reported
<1>5. ASSUME outcome.capture_incomplete => outcome'.capture_incomplete,
             outcome'.saved => outcome'.capture_incomplete,
             task'[t].pc \in Releasing => outcome'.capture_incomplete,
             task'[t].pc \in {"probe", "write"} => task'[t].read.capture_incomplete,
             row'.saved => row.saved
      PROVE  /\ row'.saved => row'.capture_incomplete
             /\ outcome'.saved => outcome'.capture_incomplete
             /\ \A o \in Tasks :
                  /\ task'[o].pc \in Releasing => outcome'.capture_incomplete
                  /\ task'[o].pc \in {"probe", "write"} => task'[o].read.capture_incomplete
  <2>1. \A o \in Tasks : o # t => task'[o] = task[o]
    BY <1>1 DEF CommandOnly
  <2> QED
    BY <1>1, <1>4, <1>5, <2>1 DEF Heeds
<1>6. CASE WriteRow(t)
  <2>1. /\ task[t].pc = "file" /\ outcome'.capture_incomplete = row.capture_incomplete /\ UNCHANGED row
        /\ EndTask(t) \/ Goto(t, "release")
    BY <1>6 DEF WriteRow, Running
  <2>2. outcome'.capture_incomplete
    BY <1>1, <1>4, <2>1 DEF Heeded
  <2>3. task'[t].pc \in {"idle", "release"}
    BY <1>1, <2>1, CommandMoves, NoTaskType DEF CommandSteps
  <2> QED
    BY <1>5, <2>1, <2>2, <2>3
<1>7. CASE KeepWarning(t)
  <2>1. task[t].pc = "write" /\ UNCHANGED row /\ outcome' = task[t].read /\ Goto(t, "remove")
    BY <1>7 DEF KeepWarning, Running
  <2>2. outcome'.capture_incomplete
    BY <1>4, <2>1
  <2>3. task'[t].pc = "remove"
    BY <1>1, <2>1, CommandMoves DEF CommandSteps
  <2> QED
    BY <1>5, <2>1, <2>2, <2>3
<1>8. CASE SaveRecovered(t)
  BY <1>1, <1>3, <1>8 DEF SaveRecovered, Running, Heeded, Rebuilding
<1>9. CASE CheckRelease(t)
  <2>1. /\ task[t].pc = "release" /\ FolderAsIs /\ UNCHANGED row
        /\ EndTask(t) \/ Goto(t, "read")
    BY <1>9 DEF CheckRelease, Running
  <2>2. UNCHANGED outcome /\ outcome.capture_incomplete
    BY <1>4, <2>1 DEF FolderAsIs, folderVars, Releasing
  <2>3. task'[t].pc \in {"idle", "read"}
    BY <1>1, <2>1, CommandMoves, NoTaskType DEF CommandSteps
  <2> QED
    BY <1>4, <1>5, <2>1, <2>2, <2>3
<1>10. CASE ReadOutcome(t)
  <2>1. /\ task[t].pc = "read" /\ FolderAsIs /\ UNCHANGED row
        /\ task' = [task EXCEPT ![t].pc = "probe", ![t].read = outcome]
    BY <1>10 DEF ReadOutcome, Running
  <2>2. UNCHANGED outcome /\ outcome.capture_incomplete
    BY <1>4, <2>1 DEF FolderAsIs, folderVars, Releasing
  <2>3. task'[t].read = outcome
    BY <1>1, <2>1, OutcomeRead DEF CommandSteps
  <2> QED
    BY <1>4, <1>5, <2>1, <2>2, <2>3
<1>11. CASE ProbeMarker(t)
  <2>1. FolderAsIs /\ UNCHANGED row
    BY <1>11 DEF ProbeMarker
  <2>2. /\ task[t].pc = "probe"
        /\ task'[t].read.capture_incomplete = (task[t].read.capture_incomplete \/ marker)
    BY <1>1, <1>11, MarkerProbed
  <2>3. /\ UNCHANGED outcome /\ outcome.capture_incomplete
        /\ task'[t].read.capture_incomplete
    BY <1>4, <2>1, <2>2 DEF FolderAsIs, folderVars, Releasing
  <2> QED
    BY <1>4, <1>5, <2>1, <2>3
<1>12. CASE /\ ~WriteRow(t) /\ ~KeepWarning(t) /\ ~SaveRecovered(t) /\ ~CheckRelease(t)
            /\ ~ReadOutcome(t) /\ ~ProbeMarker(t)
  <2>1. row'.saved => row.saved
    BY <1>1, <1>12 DEF TaskStep, Dialog, Open, ReadPart, SkipChunk, Rebuild, EncoderFails, RebuildFails,
       PublishRecovery, Supersede, RecoverFails, ShowRecovered, ReadEvidence, InspectCapture, CommitTranscript,
       RemoveOriginals, TaskFails, RecoverySane, RecoveryTypeOK
  <2>2. UNCHANGED outcome
    BY <1>12 DEF TaskStep, Dialog, Open, ReadPart, SkipChunk, Rebuild, EncoderFails, RebuildFails,
       PublishRecovery, Supersede, RecoverFails, ShowRecovered, ReadEvidence, InspectCapture, CommitTranscript,
       RemoveOriginals, TaskFails, FolderAsIs, folderVars
  <2>3. task'[t].pc \notin Releasing
    <3>1. CASE Dialog(t) \/ Open(t, "open") \/ Open(t, "retranscribe")
      BY <1>1, <3>1, CommandBegins, RecoveryReused DEF Dialog, Open
    <3>2. ASSUME NEW s \in Seqs, ReadPart(t, s) \/ SkipChunk(t, s)
          PROVE  task'[t].pc \notin Releasing
      BY <1>1, <3>2, PartRead, ChunkSkipped
    <3>3. CASE Rebuild(t) \/ EncoderFails(t) \/ Supersede(t) \/ InspectCapture(t)
      BY <1>1, <3>3, Rebuilt, EncoderRetried, Superseded, CaptureInspected
    <3>4. CASE RebuildFails(t) \/ RecoverFails(t) \/ ShowRecovered(t) \/ TaskFails(t) \/ RemoveOriginals(t)
      BY <1>1, <3>4, CommandMoves, NoTaskType
         DEF RebuildFails, RecoverFails, ShowRecovered, TaskFails, RemoveOriginals
    <3>5. CASE PublishRecovery(t) \/ CommitTranscript(t)
      BY <1>1, <3>5, CommandMoves DEF PublishRecovery, CommitTranscript, CommandSteps
    <3>6. CASE ReadEvidence(t)
      <4>1. task' = [task EXCEPT ![t].pc = "inspect", ![t].read = outcome]
        BY <3>6 DEF ReadEvidence
      <4> QED
        BY <1>1, <4>1, OutcomeRead DEF CommandSteps
    <3> QED
      BY <1>12, <3>1, <3>2, <3>3, <3>4, <3>5, <3>6 DEF TaskStep
  <2> QED
    BY <1>4, <1>5, <2>1, <2>2, <2>3
<1> QED
  BY <1>6, <1>7, <1>8, <1>9, <1>10, <1>11, <1>12

LEMMA CommandCalm ==
  ASSUME RecoverySane, WarnedInv, CalmInv, NEW t \in Tasks, TaskStep(t), ~Overlap'
  PROVE  CalmInv'
<1>1. NotRecording /\ UNCHANGED stop
  BY CommandTypes DEF CommandOnly, stopVars
<1>2. Alone' /\ \A other \in Tasks : other # t => task'[other] = NoTask
  BY OthersRest DEF CalmInv
<1>3. Kept' /\ Covers(t)'
  BY CommandCovers DEF CalmInv, Covering
<1>4. Reported'
  BY CommandReports DEF CalmInv
<1>5. Covering'
  BY <1>2, <1>3 DEF Covering, Covers, NoTask
<1> QED
  BY <1>1, <1>2, <1>3, <1>4, <1>5 DEF CalmInv, OnItsOwn, NotRecording

\* Who is not the recording leaves it quiet.
LEMMA QuietRest ==
  ASSUME Quiet, UNCHANGED <<writer, fin, raced, accepted>>,
         stop' = stop \/ (stop = "release" /\ stop' = "report"),
         Stored' \subseteq Stored
  PROVE  Quiet'
BY DEF Quiet, Before

LEMMA CommandQuiet ==
  ASSUME RecoverySane, Quiet, NEW t \in Tasks, TaskStep(t)
  PROVE  Quiet'
<1>1. UNCHANGED <<writer, fin, raced, accepted, stop>>
  BY CommandTypes DEF CommandOnly, processVars, stopVars
<1>2. Stored' \subseteq Stored
  <2>1. CASE RemoveOriginals(t)
    BY <2>1 DEF RemoveOriginals, NoSpool, Stored, ChunkSeqs
  <2>2. CASE ~RemoveOriginals(t)
    <3>1. UNCHANGED chunk
      BY <2>2 DEF TaskStep, Dialog, Open, ReadPart, SkipChunk, Rebuild, EncoderFails, RebuildFails,
         PublishRecovery, Supersede, RecoverFails, ShowRecovered, SaveRecovered, ReadEvidence,
         InspectCapture, CommitTranscript, WriteRow, CheckRelease, ReadOutcome, ProbeMarker, KeepWarning, TaskFails, FolderAsIs, FolderButOutcome,
         folderVars
    <3> QED
      BY <3>1, SameSpool
  <2> QED
    BY <2>1, <2>2
<1> QED
  BY <1>1, <1>2, QuietRest

LEMMA KeptStep ==
  ASSUME ~DiskMayStall, RecoverySane, WarnedInv, KeptInv, [RecoveryNext]_allVars
  PROVE  KeptInv'
<1> USE DEF KeptInv
<1>0. Sane
  BY DEF RecoverySane, RecoveryTypeOK, Sane
<1>1. CASE UNCHANGED allVars
  <2>1. /\ UNCHANGED <<spoolDir, chunk, tmp, finalAudio, outcome, writer, fin, raced, accepted, stop>>
        /\ UNCHANGED <<handoff, nextWrite, incomplete, captured, report, recovered, row, task, undisturbed>>
    BY <1>1 DEF allVars, vars, folderVars, processVars, stopVars, libraryVars
  <2>2. Quiet'
    BY <2>1, SameSpool, QuietRest
  <2>3. ASSUME CalmInv PROVE CalmInv'
    <3>1. Alone' /\ Reported' /\ Kept'
      BY <2>1, <2>3, KeptAsIs DEF CalmInv, Alone, Reported
    <3>2. Covering'
      BY <2>1, <2>3, SameListing, SameRecovery DEF CalmInv, Covering, Covers
    <3>3. OnItsOwn'
      <4>1. GapsInv /\ WholeInv => GapsInv' /\ WholeInv'
        BY <1>0, <1>1, GapsStep, WholeStep DEF allVars
      <4> QED
        BY <2>1, <2>3, <4>1 DEF CalmInv, OnItsOwn, NotRecording
    <3> QED
      BY <3>1, <3>2, <3>3 DEF CalmInv
  <2> QED
    BY <2>1, <2>2, <2>3
<1>2. CASE Recording /\ undisturbed' = (undisturbed /\ ~Overlap')
  <2>1. Quiet'
    BY <1>0, <1>2, RecordingQuiet DEF Recording
  <2> QED
    BY <1>2, <2>1, RecordingCalm
<1>3. CASE SaveMeeting /\ undisturbed' = (undisturbed /\ ~Overlap')
  <2>1. /\ FolderAsIs /\ stop = "stopped" /\ UNCHANGED <<task, recovered>>
        /\ row'.capture_incomplete = (report.capture_incomplete \/ outcome.capture_incomplete)
    BY <1>3 DEF SaveMeeting
  <2>2. /\ UNCHANGED <<spoolDir, chunk, tmp, finalAudio, outcome, writer, fin, raced, accepted, stop>>
        /\ UNCHANGED <<captured, report>>
    BY <2>1 DEF FolderAsIs, folderVars, processVars, stopVars
  <2>3. Quiet'
    BY <2>2, SameSpool, QuietRest
  <2>4. ASSUME CalmInv PROVE CalmInv'
    <3>1. Alone' /\ Kept' /\ OnItsOwn'
      BY <2>1, <2>2, <2>4, KeptAsIs DEF CalmInv, Alone, OnItsOwn, NotRecording
    <3>2. Reported'
      BY <2>1, <2>2, <2>4 DEF CalmInv, Reported
    <3>3. Covering'
      BY <2>1, <2>2, <2>4, SameListing, SameRecovery DEF CalmInv, Covering, Covers
    <3> QED
      BY <3>1, <3>2, <3>3 DEF CalmInv
  <2> QED
    BY <1>3, <2>3, <2>4
<1>4. ASSUME NEW t \in Tasks, TaskStep(t), undisturbed' = (undisturbed /\ ~Overlap') PROVE KeptInv'
  BY <1>4, CommandQuiet, CommandCalm
<1>5. ASSUME NEW kept, undisturbed' = FALSE, StopRemovalStops(kept) \/ \E t \in Tasks : RemovalStops(t, kept)
      PROVE  KeptInv'
  <2>1. /\ UNCHANGED <<writer, fin, raced, accepted>>
        /\ stop' = stop \/ (stop = "release" /\ stop' = "report")
        /\ chunk' = [s \in Seqs |-> IF s \in kept THEN chunk[s] ELSE NoBatch]
    BY <1>5 DEF StopRemovalStops, RemovalStops, SpoolLeft, processVars, stopVars
  <2>2. Stored' \subseteq Stored
    BY <2>1 DEF Stored, ChunkSeqs
  <2> QED
    BY <1>5, <2>1, <2>2, QuietRest
<1> QED
  BY <1>1, <1>2, <1>3, <1>4, <1>5 DEF RecoveryNext

LEMMA RecoveryAlways ==
  ASSUME ~DiskMayStall
  PROVE  RecoverySpec => [](undisturbed => CalmInv)
<1>1. RecoveryInit => RecoverySane /\ WarnedInv /\ KeptInv
  BY InitRecoverySane, InitWarned, InitKept
<1>2. RecoverySane /\ WarnedInv /\ KeptInv /\ [RecoveryNext]_allVars =>
        RecoverySane' /\ WarnedInv' /\ KeptInv'
  BY RecoverySaneStep, WarnedStep, KeptStep
<1>3. KeptInv => (undisturbed => CalmInv)
  BY DEF KeptInv
<1> QED
  BY <1>1, <1>2, <1>3, PTL DEF RecoverySpec

(* Originals are removed only when playback has all that reached the disk    *)
(* (release_recovered_capture): while one command at a time has the folder,  *)
(* no removal is cut short and the disk does not stall past the deadlines of *)
(* Stop, whatever else fails, rots or dies.                                  *)
THEOREM PlaybackIsCovered ==
  ASSUME ~DiskMayStall
  PROVE  RecoverySpec => []UndisturbedPlayback
<1>1. (undisturbed => CalmInv) => UndisturbedPlayback
  BY DEF CalmInv, Kept, UndisturbedPlayback, PlaybackCovers, Heard
<1> QED
  BY <1>1, RecoveryAlways, PTL

(* A stopped meeting without warnings has lost nothing                       *)
(* (find_or_recover_audio_file_with_status and persist_recording_outcome):   *)
(* all that was captured is in the spool or in what playback hears.          *)
THEOREM NoWarningNoLoss ==
  ASSUME ~DiskMayStall
  PROVE  RecoverySpec => []WarningFreeIsKept
<1>1. (undisturbed => CalmInv) => WarningFreeIsKept
  BY DEF CalmInv, Kept, Reported, WarningFreeIsKept, WarningFree, Heard
<1> QED
  BY <1>1, RecoveryAlways, PTL

(* A recovery that calls itself a success has every batch that ever reached  *)
(* the disk (recover_with_encoder), however many encoders failed before it.  *)
THEOREM SuccessHasAll ==
  ASSUME ~DiskMayStall
  PROVE  RecoverySpec => []SuccessIsWhole
<1>1. (undisturbed => CalmInv) => SuccessIsWhole
  BY DEF CalmInv, Covering, Covers, SuccessIsWhole
<1> QED
  BY <1>1, RecoveryAlways, PTL
=============================================================================
