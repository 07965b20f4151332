------------------------- MODULE MCSessionLifecycle -------------------------
(* Small instances of SessionLifecycle. *)
EXTENDS SessionLifecycle, TLC

ThreadSymmetry == Permutations(Threads)

\* Failures the daemon must survive without giving a deleted session back.
SurvivableFaults == {"write", "delete", "clear"}
=============================================================================
