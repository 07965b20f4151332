----------------------------- MODULE MCDeliveryLoads ---------------------------
(***************************************************************************)
(* Delivery for TLC.  One run checks three workloads, and a behaviour      *)
(* begins with the choice between them:                                    *)
(*  - "switch": a client that does not stall moves between the sessions,   *)
(*    which are alike, so that it may as well begin with the first; only   *)
(*    that one runs requests;                                              *)
(*  - "orphan": that client and one session, which is shut down with its   *)
(*    parent;                                                              *)
(*  - "share": two clients, one of which may stall, on the other session.  *)
(***************************************************************************)
EXTENDS Delivery

CONSTANTS
    ShareEvents, ShareOps   \* MaxEvents and MaxOps of "share"

VARIABLE load

mcVars == <<vars, load>>

OnlyIn(S) ==
    \A s \in Sessions \ S : \A c \in Clients : awaiting[c].session # s
Queued(op) == \E i \in 1..Len(daemonQ) : daemonQ[i].op = op
OneClient ==
    /\ \A c \in Slow : conn[c] = "new"
    /\ ~Queued("UnregisterActivitySubscriber")
NoShutdown ==
    \A s \in Sessions : \A i \in 1..Len(inbox[s]) : inbox[s][i].op # "Shutdown"

\* What the workload leaves out.
Fits ==
    CASE load = "switch" ->
            /\ OneClient /\ NoShutdown
            /\ \A s \in Orphanable : ~thread[s].busy
            /\ \/ OnlyIn(Sessions \ Orphanable)
               \/ \E s \in Sessions \ Orphanable : thread[s].gen > 0
      [] load = "orphan" -> OneClient /\ OnlyIn(Orphanable)
      [] load = "share"  ->
            /\ OnlyIn(Sessions \ Orphanable)
            /\ \A c \in Clients : ops[c] <= ShareOps
            /\ \A s \in Sessions : emitted[s] <= ShareEvents /\ ~thread[s].busy

MCInit == Init /\ load \in {"switch", "orphan", "share"}
MCNext == Next /\ UNCHANGED load /\ Fits'
MCSpec == MCInit /\ [][MCNext]_mcVars
=============================================================================
