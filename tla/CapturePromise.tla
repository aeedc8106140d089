--------------------------- MODULE CapturePromise ---------------------------
(***************************************************************************)
(* What the capture path promises to whoever opens the meeting later, with *)
(* no queue, writer, encoder or Stop in sight: batches are heard, some of  *)
(* them reach the disk, a playable file is saved, and the originals are    *)
(* released only when nothing on disk is lost by it and whatever is        *)
(* missing has been admitted. An admission is never taken back.            *)
(***************************************************************************)
EXTENDS Integers

CONSTANT N

VARIABLES heard, disk, saved, admitted, released
vars == <<heard, disk, saved, admitted, released>>

Init == /\ heard = 0
        /\ disk = {}
        /\ saved = {}
        /\ admitted = FALSE
        /\ released = FALSE

Hear == /\ ~released
        /\ heard < N
        /\ heard' = heard + 1
        /\ UNCHANGED <<disk, saved, admitted, released>>

Keep(b) == /\ ~released
           /\ disk' = disk \cup {b}
           /\ UNCHANGED <<heard, saved, admitted, released>>

Save(audio) == /\ ~released
               /\ saved' = audio
               /\ UNCHANGED <<heard, disk, admitted, released>>

Admit == /\ admitted' = TRUE
         /\ UNCHANGED <<heard, disk, saved, released>>

Release == /\ ~released
           /\ disk \subseteq saved
           /\ admitted \/ saved = 1 .. heard
           /\ released' = TRUE
           /\ disk' = {}
           /\ UNCHANGED <<heard, saved, admitted>>

Next == \/ Hear \/ Admit \/ Release
        \/ \E b \in 1 .. heard : Keep(b)
        \/ \E audio \in SUBSET (1 .. heard) : Save(audio)

Spec == Init /\ [][Next]_vars
=============================================================================
