---------------------------- MODULE Subsessions ----------------------------
(***************************************************************************)
(* Sub-sessions: the spawn_subsession tool (tools/subsession.rs), the      *)
(* daemon's parent-child bookkeeping (daemon.rs) and the child's request   *)
(* (sessions.rs).  Session 1 has a client; the worker of session s may     *)
(* call the tool once, which creates session s+1, hands it its prompt and  *)
(* blocks for the result.  A cancel goes through the daemon, which sends   *)
(* it to the session and to its children; a session that exits takes its   *)
(* children with it.  The thread that runs the tool outlives a cancelled   *)
(* request.                                                                *)
(***************************************************************************)
EXTENDS Naturals, Sequences, FiniteSets, SequencesExt

CONSTANTS
    Depth,          \* sessions in the chain
    MaxTreeCancels, \* cancels of the client
    MayLock         \* whether the child may find the daemon locked

Tree == 1..Depth
Spawners == 1..(Depth - 1)

ASSUME TreeAssumption ==
    Depth \in Nat \ {0} /\ MaxTreeCancels \in Nat /\ MayLock \in BOOLEAN

VARIABLES
    thread,    \* session -> its thread: none, on, off
    watched,   \* session 1 has a subscriber
    active,    \* sessions with an active request
    stopping,  \* sessions with shutdown_requested
    signalled, \* sessions whose cancel channel holds a signal
    box,       \* session -> its command queue
    work,      \* session -> its request worker: none, busy, tool, replied
    spawn,     \* spawner -> the thread of the tool: none, asking, asked,
               \* created, waiting, returned
    answer,    \* spawner -> the child's reply channel: none, sent, closed
    known,     \* active_sessions
    children,  \* session -> its children
    orders,    \* the daemon's command queue
    cancelsSent,
    hit,       \* sessions whose prompt preceded a cancel in their queue
    left       \* sessions that were children when their parent's exit was
               \* handled

treeVars == <<thread, watched, active, stopping, signalled, box, work, spawn,
              answer, known, children, orders, cancelsSent, hit, left>>
sessionVars == <<thread, watched, active, stopping, signalled>>
daemonVars == <<known, children, hit, left>>

TreeInit ==
    /\ thread = [s \in Tree |-> IF s = 1 THEN "on" ELSE "none"]
    /\ watched = TRUE
    /\ active = {1} /\ stopping = {} /\ signalled = {}
    /\ box = [s \in Tree |-> <<>>]
    /\ work = [s \in Tree |-> IF s = 1 THEN "busy" ELSE "none"]
    /\ spawn = [s \in Spawners |-> "none"]
    /\ answer = [s \in Spawners |-> "none"]
    /\ known = {1}
    /\ children = [s \in Tree |-> {}]
    /\ orders = <<>>
    /\ cancelsSent = 0
    /\ hit = {} /\ left = {}

------------------------------------------------------------------------------
(* The request worker and the tool's thread *)

Works(s) == work[s] \in {"busy", "tool"}

CallTool(s) ==
    /\ work[s] = "busy" /\ spawn[s] = "none"
    /\ work' = [work EXCEPT ![s] = "tool"]
    /\ spawn' = [spawn EXCEPT ![s] = "asking"]
    /\ UNCHANGED <<sessionVars, box, answer, daemonVars, orders, cancelsSent>>

ToolReturns(s) ==
    /\ work[s] = "tool" /\ spawn[s] = "returned"
    /\ work' = [work EXCEPT ![s] = "busy"]
    /\ UNCHANGED <<sessionVars, box, spawn, answer, daemonVars, orders,
                   cancelsSent>>

\* The parent's tool gets the outcome first ...
Replies(s) ==
    /\ work' = [work EXCEPT ![s] = "replied"]
    /\ answer' = IF s = 1 THEN answer
                 ELSE [answer EXCEPT ![s - 1] = "sent"]
    /\ UNCHANGED <<sessionVars, box, spawn, daemonVars, orders, cancelsSent>>

Complete(s) == work[s] = "busy" /\ Replies(s)
Cancelled(s) == Works(s) /\ s \in signalled /\ Replies(s)

\* ... then the session learns that the request is over.
Finish(s) ==
    /\ work[s] = "replied"
    /\ work' = [work EXCEPT ![s] = "none"]
    /\ box' = [box EXCEPT ![s] = Append(@, "finished")]
    /\ UNCHANGED <<sessionVars, spawn, answer, daemonVars, orders,
                   cancelsSent>>

AskCreate(s) ==
    /\ spawn[s] = "asking"
    /\ spawn' = [spawn EXCEPT ![s] = "asked"]
    /\ orders' = Append(orders, <<"create", s>>)
    /\ UNCHANGED <<sessionVars, box, work, answer, daemonVars, cancelsSent>>

\* The child may have exited between its creation and the prompt.
SendRunChildInput(s) ==
    /\ spawn[s] = "created"
    /\ IF thread[s + 1] = "on"
       THEN /\ box' = [box EXCEPT ![s + 1] = Append(@, "run")]
            /\ spawn' = [spawn EXCEPT ![s] = "waiting"]
       ELSE /\ spawn' = [spawn EXCEPT ![s] = "returned"]
            /\ UNCHANGED box
    /\ UNCHANGED <<sessionVars, work, answer, daemonVars, orders, cancelsSent>>

ReceiveResult(s) ==
    /\ spawn[s] = "waiting" /\ answer[s] # "none"
    /\ spawn' = [spawn EXCEPT ![s] = "returned"]
    /\ UNCHANGED <<sessionVars, box, work, answer, daemonVars, orders,
                   cancelsSent>>

------------------------------------------------------------------------------
(* The session thread *)

\* Mutant: the reply channel outlives the queue.
Dropped_Kept(s, rest) == answer
\* The loop is left: what is still queued is dropped, a prompt with its
\* reply channel included.
Dropped(s, rest) ==
    IF s > 1 /\ Contains(rest, "run")
    THEN [answer EXCEPT ![s - 1] = "closed"]
    ELSE answer

Exits(s, rest, yes) ==
    IF yes
    THEN /\ thread' = [thread EXCEPT ![s] = "off"]
         /\ box' = [box EXCEPT ![s] = <<>>]
         /\ orders' = Append(orders, <<"exited", s>>)
         /\ answer' = Dropped(s, rest)
    ELSE /\ box' = [box EXCEPT ![s] = rest]
         /\ UNCHANGED <<thread, orders, answer>>

Subscribed(s) == s = 1 /\ watched

\* handle_run_child_input: shutting down, or a request is already active
Refuses(s) == s \in stopping \/ s \in active

HandleRun(s) ==
    /\ thread[s] = "on" /\ box[s] # <<>> /\ Head(box[s]) = "run"
    /\ box' = [box EXCEPT ![s] = Tail(@)]
    /\ \/ /\ Refuses(s) \/ MayLock
          /\ answer' = [answer EXCEPT ![s - 1] = "sent"]
          /\ UNCHANGED <<active, work>>
       \/ /\ ~Refuses(s)
          /\ active' = active \cup {s}
          /\ work' = [work EXCEPT ![s] = "busy"]
          /\ UNCHANGED answer
    /\ UNCHANGED <<thread, watched, stopping, signalled, spawn, daemonVars,
                   orders, cancelsSent>>

HandleCancel(s) ==
    /\ thread[s] = "on" /\ box[s] # <<>> /\ Head(box[s]) = "cancel"
    /\ box' = [box EXCEPT ![s] = Tail(@)]
    /\ signalled' = signalled \cup (active \cap {s})
    /\ UNCHANGED <<thread, watched, active, stopping, work, spawn, answer,
                   daemonVars, orders, cancelsSent>>

MayStop(s) == s \notin active

HandleShutdown(s) ==
    /\ thread[s] = "on" /\ box[s] # <<>> /\ Head(box[s]) = "shutdown"
    /\ stopping' = stopping \cup {s}
    /\ signalled' = signalled \cup (active \cap {s})
    /\ Exits(s, Tail(box[s]), MayStop(s))
    /\ UNCHANGED <<watched, active, work, spawn, daemonVars, cancelsSent>>

HandleFinished(s) ==
    /\ thread[s] = "on" /\ box[s] # <<>> /\ Head(box[s]) = "finished"
    /\ active' = active \ {s}
    /\ Exits(s, Tail(box[s]), ~Subscribed(s) \/ s \in stopping)
    /\ UNCHANGED <<watched, stopping, signalled, work, spawn, daemonVars,
                   cancelsSent>>

\* The client of session 1 detaches.
Detach ==
    /\ watched /\ thread[1] = "on"
    /\ watched' = FALSE
    /\ Exits(1, box[1], 1 \notin active)
    /\ UNCHANGED <<active, stopping, signalled, work, spawn, daemonVars,
                   cancelsSent>>

------------------------------------------------------------------------------
(* The daemon's command loop *)

ClientCancel ==
    /\ cancelsSent < MaxTreeCancels
    /\ cancelsSent' = cancelsSent + 1
    /\ orders' = Append(orders, <<"cancel", 1>>)
    /\ UNCHANGED <<sessionVars, box, work, spawn, answer, daemonVars>>

\* The parent is not asked whether it still runs.
HandleCreate(s) ==
    /\ orders # <<>> /\ Head(orders) = <<"create", s>>
    /\ orders' = Tail(orders)
    /\ thread' = [thread EXCEPT ![s + 1] = "on"]
    /\ known' = known \cup {s + 1}
    /\ children' = [children EXCEPT ![s] = @ \cup {s + 1}]
    /\ spawn' = [spawn EXCEPT ![s] = "created"]
    /\ UNCHANGED <<watched, active, stopping, signalled, box, work, answer,
                   cancelsSent, hit, left>>

\* Mutant: the children of the session are forgotten.
CancelTargets_Self(s) == known \cap {s}
\* handle_cancel_request and cancel_children_of: one level of children
CancelTargets(s) == known \cap ({s} \cup children[s])

HandleCancelRequest(s) ==
    /\ orders # <<>> /\ Head(orders) = <<"cancel", s>>
    /\ orders' = Tail(orders)
    /\ box' = [t \in Tree |-> IF t \in CancelTargets(s)
                                 /\ thread[t] = "on"
                              THEN Append(box[t], "cancel") ELSE box[t]]
    /\ hit' = hit \cup
              {t \in {s} \cup children[s] :
                 thread[t] = "on"
                 /\ (Works(t) \/ Contains(box[t], "run"))}
    /\ UNCHANGED <<sessionVars, work, spawn, answer, known, children, left,
                   cancelsSent>>

\* Mutant: the child is cancelled but not shut down.
Farewell_CancelOnly == <<"cancel">>
\* cancel_and_shutdown_child
Farewell == <<"cancel", "shutdown">>

HandleExited(s) ==
    /\ orders # <<>> /\ Head(orders) = <<"exited", s>>
    /\ orders' = Tail(orders)
    /\ known' = known \ {s}
    /\ children' = [t \in Tree |-> IF t = s THEN {}
                                   ELSE children[t] \ children[s]]
    /\ box' = [t \in Tree |-> IF t \in children[s] \cap known
                                 /\ thread[t] = "on"
                              THEN box[t] \o Farewell ELSE box[t]]
    /\ left' = left \cup (children[s] \cap known)
    /\ UNCHANGED <<sessionVars, work, spawn, answer, hit, cancelsSent>>

------------------------------------------------------------------------------
WorkerMoves(s) == Cancelled(s) \/ Finish(s)
ToolMoves(s) ==
    \/ AskCreate(s)
    \/ SendRunChildInput(s)
    \/ ReceiveResult(s)
SessionMoves(s) ==
    \/ HandleRun(s)
    \/ HandleCancel(s)
    \/ HandleShutdown(s)
    \/ HandleFinished(s)
DaemonMoves(s) ==
    \/ HandleCancelRequest(s)
    \/ HandleExited(s)
    \/ s \in Spawners /\ HandleCreate(s)

TreeNext ==
    \/ Detach
    \/ ClientCancel
    \/ \E s \in Tree : \/ Complete(s)
                       \/ WorkerMoves(s)
                       \/ SessionMoves(s)
                       \/ DaemonMoves(s)
    \/ \E s \in Spawners : CallTool(s) \/ ToolReturns(s) \/ ToolMoves(s)

\* The threads run; a request may go on for as long as the model likes.
TreeFairness ==
    /\ \A s \in Tree : /\ WF_treeVars(WorkerMoves(s))
                       /\ WF_treeVars(SessionMoves(s))
                       /\ WF_treeVars(DaemonMoves(s))
    /\ \A s \in Spawners : WF_treeVars(ToolMoves(s))

TreeSpec == TreeInit /\ [][TreeNext]_treeVars /\ TreeFairness

------------------------------------------------------------------------------
TreeTypeOK ==
    /\ thread \in [Tree -> {"none", "on", "off"}]
    /\ watched \in BOOLEAN
    /\ {active, stopping, signalled, known, hit, left} \subseteq SUBSET Tree
    /\ \A s \in Tree : Range(box[s]) \subseteq
                          {"run", "cancel", "shutdown", "finished"}
    /\ work \in [Tree -> {"none", "busy", "tool", "replied"}]
    /\ spawn \in [Spawners -> {"none", "asking", "asked", "created",
                               "waiting", "returned"}]
    /\ answer \in [Spawners -> {"none", "sent", "closed"}]
    /\ children \in [Tree -> SUBSET Tree]

(* Nobody waits on nobody: while spawn_subsession blocks in recv, the child *)
(* still holds the other end of the channel, in its queue or in its worker, *)
(* or the answer (or the closing of the channel) is already there.  A       *)
(* child that exits, refuses the prompt or is cancelled cannot leave the    *)
(* parent's tool hanging.                                                   *)
WaiterHasSender ==
    \A s \in Spawners :
        spawn[s] = "waiting" =>
            \/ answer[s] # "none"
            \/ Contains(box[s + 1], "run")
            \/ Works(s + 1)

(* A session thread is never left by its worker: the thread that ends has   *)
(* no request, so RequestFinished always finds its session and the turns    *)
(* of the request are merged and persisted.                                 *)
NoWorkAfterExit ==
    \A s \in Tree : thread[s] = "off" => work[s] = "none" /\ s \notin active

(* A cancel stops every request whose prompt was in the child's queue when  *)
(* the daemon handled it: it is ordered behind the prompt and finds the     *)
(* request (handle_cancel_request, cancel_children_of, handle_cancel).      *)
CancelReachesStarted == \A s \in Tree : s \in hit ~> work[s] = "none"

(* An exiting session takes the children it has: each of them ends, whether *)
(* its prompt has come, runs, or is still to come.                          *)
ExitTakesChildren == \A s \in Tree : s \in left ~> thread[s] = "off"

(* What ARCHITECTURE.md says of a cancel: it is propagated to the children, *)
(* so they stop their work.                                                 *)
CancelStopsChildren ==
    \A s \in Spawners :
        s \in signalled ~> ~Works(s + 1)

(* What handle_session_exited says: children do not run as orphans.         *)
NoOrphan ==
    \A s \in Spawners :
        thread[s] = "off" ~> thread[s + 1] \in {"none", "off"}
==============================================================================
