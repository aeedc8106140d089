---------------------------- MODULE IndexPromise ----------------------------
(***************************************************************************)
(* What the knowledge index promises to a search, with no jobs, workers,   *)
(* generations or failures in sight: a source that is counted as ready     *)
(* shows every passage of the text it has now, and one that is not shows   *)
(* nothing. A text that is replaced is hidden in the same step.            *)
(***************************************************************************)
EXTENDS Integers

CONSTANT Passages     \* the passages of a text, 0 .. Passages - 1

VARIABLES revision,   \* the text the source has
          ready,      \* it is counted as ready
          shown       \* what a search can find: <<text, passage>>
vars == <<revision, ready, shown>>

Whole(text) == {text} \X (0 .. Passages - 1)

Init == revision = 1 /\ ready = FALSE /\ shown = {}

Replace == revision' = revision + 1 /\ ready' = FALSE /\ shown' = {}

Forget == ready' = FALSE /\ shown' = {} /\ UNCHANGED revision

Publish == ready' = TRUE /\ shown' = Whole(revision) /\ UNCHANGED revision

Next == Replace \/ Forget \/ Publish

Spec == Init /\ [][Next]_vars
=============================================================================
