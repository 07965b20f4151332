------------------------------ MODULE MCThreads ------------------------------
(***************************************************************************)
(* The lag accounting and the sub-sessions for TLC.  The two share no      *)
(* state; a behaviour begins with the choice of the one it is about, and   *)
(* the other stays in its initial state.                                   *)
(***************************************************************************)
EXTENDS LagAccounting, Subsessions

VARIABLE part

ThreadsInit ==
    /\ part \in {"lag", "tree"}
    /\ LagInit
    /\ TreeInit
    /\ part = "tree" => \A c \in Clients : tracked[c] = {}

ThreadsNext ==
    \/ part = "lag" /\ LagNext /\ UNCHANGED <<treeVars, part>>
    \/ part = "tree" /\ TreeNext /\ UNCHANGED <<lagVars, part>>

\* LagFairness and TreeFairness, each for its own behaviours.
ThreadsFairness ==
    /\ \A p \in Producers : WF_lagVars(part = "lag" /\ ProducerStep(p))
    /\ \A s \in SessionThreads : WF_lagVars(part = "lag" /\ SessionStep(s))
    /\ \A c \in Clients : /\ WF_lagVars(part = "lag" /\ WriterStep(c))
                          /\ WF_lagVars(part = "lag" /\ CleanupClient(c))
    /\ WF_lagVars(part = "lag" /\ DaemonStep)
    /\ \A s \in Tree : /\ WF_treeVars(part = "tree" /\ WorkerMoves(s))
                       /\ WF_treeVars(part = "tree" /\ SessionMoves(s))
                       /\ WF_treeVars(part = "tree" /\ DaemonMoves(s))
    /\ \A s \in Spawners : WF_treeVars(part = "tree" /\ ToolMoves(s))

ThreadsSpec ==
    /\ ThreadsInit
    /\ [][ThreadsNext]_<<lagVars, treeVars, part>>
    /\ ThreadsFairness
==============================================================================
