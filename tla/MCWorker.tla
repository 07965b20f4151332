------------------------------ MODULE MCWorker ------------------------------
(***************************************************************************)
(* What the request worker waits for, for TLC: the provider's response and *)
(* the tool calls in it.  The two share no state: a behaviour is about one *)
(* of them, and the other stays as it began.                               *)
(***************************************************************************)
EXTENDS MCToolBatch, ProviderStream

VARIABLE part

WorkerInit ==
    /\ part \in {"stream", "batch"}
    /\ Init
    /\ StreamInit
    /\ part = "stream" => timed = {}
    /\ part = "batch" => ~bounded /\ api = CHOOSE x \in Apis : TRUE

\* Bound: the output of one of the calls is streamed.
OneStreams == \A c \in Calls \ {1} : streamed[c] = 0

WorkerNext ==
    /\ \/ part = "stream" /\ StreamNext /\ UNCHANGED vars
       \/ part = "batch" /\ Next /\ OneStreams' /\ UNCHANGED psVars
    /\ UNCHANGED part

\* Fairness and StreamFairness, each for its own behaviours; what the
\* forwarders of tool output do makes no difference to the end of the batch.
WorkerSpec ==
    /\ WorkerInit
    /\ [][WorkerNext]_<<vars, psVars, part>>
    /\ WF_<<vars, psVars>>(\/ part = "batch" /\ Worker /\ UNCHANGED psVars
                           \/ part = "stream" /\ WorkerMoves /\ UNCHANGED vars)
    /\ \A c \in Calls : WF_vars(/\ part = "batch"
                                /\ WaitResult(c) \/ WaitDeadline(c) \/ WaitKill(c))
    /\ WF_psVars(part = "stream" /\ (ReaderLoops \/ ReaderSends))
    /\ WF_psVars(part = "stream" /\ DeadlinePasses)
=============================================================================
