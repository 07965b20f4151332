----------------------------- MODULE SessionStore -----------------------------
(***************************************************************************)
(* What the daemon promises its clients about sessions: an atomic, crash-  *)
(* safe set.  A session exists from its creation until its deletion is     *)
(* announced; the list a client gets while the daemon is up is that set;   *)
(* going down and coming back changes nothing.                             *)
(***************************************************************************)
EXTENDS Naturals

CONSTANT MaxBorn

VARIABLES sessions,   \* the sessions that exist
          listed,     \* the sessions the index lists
          up,         \* whether the daemon serves clients
          born

vars == <<sessions, listed, up, born>>

Init == sessions = {} /\ listed = {} /\ up = FALSE /\ born = 0

Create ==
    /\ up
    /\ born < MaxBorn
    /\ born' = born + 1
    /\ sessions' = sessions \cup {born + 1}
    /\ listed' = listed \cup {born + 1}
    /\ UNCHANGED up

\* A session and its sub-sessions are deleted together.
Delete ==
    /\ up
    /\ \E D \in (SUBSET sessions) \ {{}} :
          /\ sessions' = sessions \ D
          /\ listed' = listed \ D
    /\ UNCHANGED <<up, born>>

Stop ==
    /\ up
    /\ up' = FALSE
    /\ listed' = {}
    /\ UNCHANGED <<sessions, born>>

Start ==
    /\ ~up
    /\ up' = TRUE
    /\ listed' = sessions
    /\ UNCHANGED <<sessions, born>>

Next == Create \/ Delete \/ Stop \/ Start

Spec == Init /\ [][Next]_vars
=============================================================================
