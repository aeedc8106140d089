--------------------------- MODULE MeetingFolder ---------------------------
(***************************************************************************)
(* The durable side of one recording: the files of a meeting folder that   *)
(* survive a crash of ClawScribe, and what the code reads out of them.     *)
(* Audio is captured in one-second batches; a batch is its number, and an  *)
(* audio file is the set of the batches that can be heard in it.           *)
(***************************************************************************)
EXTENDS Integers, FiniteSets

CONSTANT N  \* batches the meeting can produce

ASSUME NAssumption == N \in Nat \ {0}

Batch == 1 .. N
Seqs  == 0 .. N - 1     \* file names {seq:020}.chunk and {seq:020}.tmp
NoBatch == 0            \* there is no such file

VARIABLES
  spoolDir,    \* the directory .audio-spool exists
  chunk,       \* chunk[s]: the batch published as s.chunk, or NoBatch
  bad,         \* published chunks that can no longer be read back
  tmp,         \* the temporary file of the writer: name, batch, whole or torn
  marker,      \* .audio-spool/.incomplete exists
  finalAudio,  \* batches in audio.mp4; empty when there is no such file
  outcome      \* recording-outcome.json, saved = FALSE when there is none

folderVars == <<spoolDir, chunk, bad, tmp, marker, finalAudio, outcome>>

NoTmp == [seq |-> 0, batch |-> NoBatch, whole |-> FALSE]
NoOutcome == [saved |-> FALSE, capture_incomplete |-> FALSE, audio_save_failed |-> FALSE]

TmpFile == [seq : Seqs, batch : Batch \cup {NoBatch}, whole : BOOLEAN]
Outcome == [saved : BOOLEAN, capture_incomplete : BOOLEAN, audio_save_failed : BOOLEAN]
Listing == [seqs : SUBSET Seqs, tail : SUBSET Seqs, gaps : BOOLEAN, available : BOOLEAN]

FolderTypeOK ==
  /\ spoolDir \in BOOLEAN
  /\ chunk \in [Seqs -> Batch \cup {NoBatch}]
  /\ bad \in SUBSET Seqs
  /\ tmp \in TmpFile
  /\ marker \in BOOLEAN
  /\ finalAudio \in SUBSET Batch
  /\ outcome \in Outcome

\* recording_audio_queue creates the spool before the first batch arrives.
FolderInit ==
  /\ spoolDir = TRUE
  /\ chunk = [s \in Seqs |-> NoBatch]
  /\ bad = {}
  /\ tmp = NoTmp
  /\ marker = FALSE
  /\ finalAudio = {}
  /\ outcome = NoOutcome

-----------------------------------------------------------------------------
ChunkSeqs == {s \in Seqs : chunk[s] # NoBatch}
Stored    == {chunk[s] : s \in ChunkSeqs}           \* batches published in the spool
Readable(seqs) == {s \in seqs \cap ChunkSeqs : s \notin bad}

\* The sequence number after the highest published one.
IsNext(s) == /\ \A c \in ChunkSeqs : c < s
             /\ s = 0 \/ s - 1 \in ChunkSeqs

\* Files numbered 0, 1, 2, ... with none missing.
Contiguous(seqs) == \A s \in seqs : s = 0 \/ s - 1 \in seqs

(* capture_paths: the published chunks, and the temporary file only when it  *)
(* is the next one; any other temporary file is a gap, and originals that    *)
(* must be kept when it can be read.                                         *)
CapturePaths ==
  LET present == tmp.batch # NoBatch
      next    == IsNext(tmp.seq)
  IN [seqs      |-> ChunkSeqs,
      tail      |-> IF present /\ next THEN {tmp.seq} ELSE {},
      gaps      |-> present /\ ~next,
      available |-> ~(present /\ ~next /\ tmp.whole)]

(* encode_capture reads the listed files one by one and skips what it cannot *)
(* read. An unreadable temporary tail is only a gap; an unreadable published *)
(* chunk also means that the originals are not all encoded.                  *)
TailReadable(list) == tmp.batch # NoBatch /\ tmp.whole /\ tmp.seq \in list.tail

Encoded(list) ==
  {chunk[s] : s \in Readable(list.seqs)}
    \cup {b \in {tmp.batch} : TailReadable(list)}

EncodedGapsListed(list) == list.gaps \/ ~Contiguous(list.seqs \cup list.tail)  \* mutant: trusts the listing

EncodedGaps(list) ==
  \/ list.gaps
  \/ ~Contiguous(list.seqs \cup list.tail)
  \/ Readable(list.seqs) # list.seqs
  \/ list.tail # {} /\ ~TailReadable(list)

EncodedAll(list) == list.available /\ Readable(list.seqs) = list.seqs

\* capture_has_gaps, with .incomplete: what a later reader of the spool finds.
CaptureHasGaps ==
  \/ marker
  \/ spoolDir /\ EncodedGaps(CapturePaths)

\* remove_dir_all on the spool.
NoSpool == /\ spoolDir' = FALSE
           /\ chunk' = [s \in Seqs |-> NoBatch]
           /\ bad' = {}
           /\ tmp' = NoTmp
           /\ marker' = FALSE
=============================================================================
