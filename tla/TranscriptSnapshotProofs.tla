----------------------- MODULE TranscriptSnapshotProofs -----------------------
(***************************************************************************)
(* For any number of updates and of failed writes: the flag of the recovery*)
(* snapshot never lies, a crash costs a bounded number of updates, and no  *)
(* writer replaces a newer file by an older one.                           *)
(***************************************************************************)
EXTENDS TranscriptSnapshot, TLAPS

Uncounted == IF at["listener"] \in {"pushed", "flagged"} THEN 1 ELSE 0
Unflagged == IF at["listener"] = "pushed" THEN 1 ELSE 0

(* The writers exclude each other, and a clone is between file and memory;   *)
(* the listener's own clone, and the final one, are memory itself.           *)
OneWriter == \A v, w \in Writer : Holds(v) /\ Holds(w) => v = w
Clones ==
  /\ onDisk <= applied
  /\ \A w \in Writer : at[w] = "cloned" => onDisk <= copy[w] /\ copy[w] <= applied
  /\ \A w \in {"listener", "final"} : at[w] = "cloned" => copy[w] = applied

(* Only finalization follows the end of capture.                             *)
Ends ==
  /\ phase = "on" => at["final"] = "idle"
  /\ phase = "ended" => at["listener"] = "idle"
  /\ at["final"] # "idle" => at["listener"] = "idle"
  /\ at["final"] = "saved" => onDisk = applied

(* With a clear flag, what is or will be in the file lacks at most the       *)
(* update whose listener is about to set the flag.                           *)
Covered ==
  ~dirty => /\ LockFree => applied <= onDisk + Unflagged
            /\ \A w \in Writer : at[w] = "cloned" => applied <= copy[w] + Unflagged

(* The counter of the listener bounds what the file lacks.                   *)
Counted ==
  /\ applied - onDisk <= pending + Uncounted
  /\ pending <= FlushAfter + faults
  /\ at["listener"] \in {"idle", "pushed", "flagged"} => pending < FlushAfter + faults
  /\ at["listener"] \notin {"saved", "failed"}

IInv == SnapshotTypeOK /\ OneWriter /\ Clones /\ Ends /\ Covered /\ Counted

USE SnapshotAssumption

LEMMA InitInv == SnapshotInit => IInv
<1> SUFFICES ASSUME SnapshotInit PROVE IInv
  OBVIOUS
<1> USE DEF SnapshotInit, Writer
<1>1. SnapshotTypeOK
  <2>1. at \in [Writer -> Step] /\ copy \in [Writer -> 0 .. MaxUpdates]
    BY DEF Step
  <2>2. dirty \in BOOLEAN /\ written \in BOOLEAN
    OBVIOUS
  <2>3. applied \in 0 .. MaxUpdates /\ onDisk \in 0 .. MaxUpdates
    OBVIOUS
  <2>4. pending \in Nat /\ faults \in 0 .. MaxFaults /\ phase \in {"on", "ended", "crashed"}
    OBVIOUS
  <2> QED
    BY <2>1, <2>2, <2>3, <2>4 DEF SnapshotTypeOK
<1>2. OneWriter /\ Clones /\ Ends /\ Covered
  <2>1. \A w \in Writer : at[w] = "idle"
    OBVIOUS
  <2>2. at["listener"] = "idle" /\ at["final"] = "idle"
    BY <2>1
  <2>3. Unflagged = 0
    BY <2>2 DEF Unflagged
  <2> QED
    BY <2>1, <2>2, <2>3 DEF OneWriter, Holds, Clones, Ends, Covered
<1>3. Counted
  <2>1. Uncounted = 0
    BY DEF Uncounted
  <2>2. FlushAfter + 0 \in Nat \ {0}
    OBVIOUS
  <2> QED
    BY <2>1, <2>2 DEF Counted
<1> QED
  BY <1>1, <1>2, <1>3 DEF IInv

LEMMA StepInv == IInv /\ [SnapshotNext]_snapshotVars => IInv'
<1> SUFFICES ASSUME IInv, [SnapshotNext]_snapshotVars PROVE IInv'
  OBVIOUS
<1> USE DEF IInv, SnapshotTypeOK, Step, Writer, OneWriter, Holds, Clones, Ends, Covered, LockFree,
            Counted, Uncounted, Unflagged, Alive, GoTo, fileVars, countVars
<1>1. CASE Push
  BY <1>1 DEF Push
<1>2. CASE Flag
  BY <1>2 DEF Flag, FlagSet
<1>3. CASE Count
  BY <1>3 DEF Count, Due
<1>4. CASE Tick \/ NothingToDo
  BY <1>4 DEF Tick, NothingToDo
<1>5. CASE EndCapture
  BY <1>5 DEF EndCapture
<1>6. ASSUME NEW w \in Writer, Lock(w) PROVE IInv'
  BY <1>6 DEF Lock
<1>7. ASSUME NEW w \in Writer, Clone(w) PROVE IInv'
  BY <1>7 DEF Clone, Segments
<1>8. ASSUME NEW w \in Writer, Replace(w) PROVE IInv'
  BY <1>8 DEF Replace
<1>9. ASSUME NEW w \in Writer, ReplaceFails(w) PROVE IInv'
  BY <1>9 DEF ReplaceFails, FlagAfterFailure
<1>10. CASE Crash
  BY <1>10 DEF Crash
<1>11. CASE UNCHANGED snapshotVars
  BY <1>11 DEF snapshotVars
<1> QED
  BY <1>1, <1>2, <1>3, <1>4, <1>5, <1>6, <1>7, <1>8, <1>9, <1>10, <1>11
  DEF SnapshotNext, ListenerStep, TimerStep, FinalStep, WriterStep, Stopped

LEMMA AlwaysInv == SnapshotSpec => []IInv
BY InitInv, StepInv, PTL DEF SnapshotSpec

(* Types hold in every reachable state.                                      *)
THEOREM SnapshotTypes == SnapshotSpec => []SnapshotTypeOK
<1>1. IInv => SnapshotTypeOK
  BY DEF IInv
<1> QED
  BY <1>1, AlwaysInv, PTL

(* A timer that finds the flag clear has nothing to save.                    *)
THEOREM SnapshotClean == SnapshotSpec => []CleanIsSaved
<1>1. IInv => CleanIsSaved
  BY DEF IInv, SnapshotTypeOK, Covered, Clones, Unflagged, CleanIsSaved, Step, Writer
<1> QED
  BY <1>1, AlwaysInv, PTL

(* A crash loses at most FlushAfter updates and one per failed write.        *)
THEOREM SnapshotLoss == SnapshotSpec => []LossBounded
<1>1. IInv => LossBounded
  BY DEF IInv, SnapshotTypeOK, Counted, Uncounted, LossBounded, Step, Writer
<1> QED
  BY <1>1, AlwaysInv, PTL

(* What finalize_files wrote is the whole transcript and stays so.           *)
THEOREM SnapshotFinal == SnapshotSpec => []FinalIsWhole
<1>1. IInv => FinalIsWhole
  BY DEF IInv, Ends, FinalIsWhole
<1> QED
  BY <1>1, AlwaysInv, PTL

(* No step takes an update out of the file.                                  *)
THEOREM SnapshotNeverBack == SnapshotSpec => NeverBack
<1>1. IInv /\ [SnapshotNext]_snapshotVars => [onDisk' >= onDisk]_snapshotVars
  <2> SUFFICES ASSUME IInv, SnapshotNext PROVE onDisk' >= onDisk
    BY DEF snapshotVars
  <2> USE DEF IInv, SnapshotTypeOK, Clones
  <2>1. ASSUME NEW w \in Writer, Replace(w) PROVE onDisk' >= onDisk
    BY <2>1 DEF Replace
  <2>2. CASE \A w \in Writer : ~Replace(w)
    <3>1. onDisk' = onDisk
      BY <2>2 DEF SnapshotNext, ListenerStep, TimerStep, FinalStep, WriterStep, Writer, Stopped, Crash,
         Push, Flag, Count, Tick, NothingToDo, EndCapture, Lock, Clone, ReplaceFails, snapshotVars, fileVars
    <3> QED
      BY <3>1
  <2> QED
    BY <2>1, <2>2
<1> QED
  BY <1>1, AlwaysInv, PTL DEF SnapshotSpec, NeverBack
=============================================================================
