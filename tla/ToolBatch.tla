----------------------------- MODULE ToolBatch -----------------------------
(***************************************************************************)
(* The tool calls of one model response: run_agent_loop (requests.rs) and  *)
(* requests/tool_execution.rs.  The worker runs the session-config calls   *)
(* one after the other, then all other calls at once, each with an         *)
(* execution thread, a forwarding thread for its live output and a wait    *)
(* loop with a deadline; it collects the results in completion order,      *)
(* records them on the turn and mirrors accepted config changes on its     *)
(* copy of the session.  The session's main loop applies those changes     *)
(* when their commands reach it, and merges the worker's copy at the end.  *)
(* A client that has read everything broadcast so far shows "view"         *)
(* (SessionView of choreo-client-core/src/history.rs).                     *)
(***************************************************************************)
EXTENDS Naturals, Sequences, FiniteSets, SequencesExt, FiniteSetsExt

CONSTANTS
    Ids,         \* the call ids of the response, in the model's order
    MaxCancels,  \* how often the client asks to cancel
    MaxChunks,   \* output chunks a tool may stream
    ChanCap,     \* STREAMING_CHANNEL_CAPACITY
    Faulty       \* whether wait-loop threads may die before they deliver

N == Len(Ids)
Calls == 1..N

ASSUME BatchAssumption ==
    /\ Ids \in Seq(Range(Ids)) /\ N > 0
    /\ MaxCancels \in Nat /\ MaxChunks \in Nat
    /\ ChanCap \in Nat \ {0}
    /\ Faulty \in BOOLEAN

NoSkills == N + 1        \* discovered_skills = None
Results == {"ok", "error"}
Answers == Results \cup {"timeout", "cancelled", "panic"}

VARIABLES
    config,      \* the calls that are session-config tools (set_working_dir)
    timed,       \* the calls with a deadline: all, or all but sub-sessions
    pc,          \* the worker: serial, collect, drain, sort, mirror, done,
                 \* merged
    exec,        \* call -> its execution thread and exec channel
    wait,        \* call -> its wait-loop thread
    kill,        \* the calls whose wait loop was sent a kill
    batch,       \* the batch channel: handles in completion order
    cancels,     \* cancel signals queued
    asked,       \* cancel signals sent so far
    cancelled,   \* the worker's sticky flag
    records,     \* call position -> its record on the turn
    results,     \* tool_results, for the next model call
    delivered,   \* call ids collected from the batch
    executed,    \* call ids recorded
    pending,     \* accepted config changes to mirror
    copy,        \* the worker's session: working dir, directory of the skills
    main,        \* the main loop's session: the same
    inbox,       \* config commands on their way to the main loop
    chan,        \* call -> chunks in its output channel
    streamed,    \* call -> chunks the tool has produced
    fwd,         \* call -> forwarding thread: none, on, killed, off
    view         \* call position -> what a client shows: record, live chunks

workerVars == <<pc, cancelled, records, results, delivered, executed, pending, copy>>
threadVars == <<exec, wait, kill, batch>>
streamVars == <<chan, streamed, fwd>>
vars == <<config, timed, workerVars, threadVars, cancels, asked, main, inbox,
          streamVars, view>>

Concurrent == Calls \ config

(* Directories are named by the call that sets them; 0 is the first one. *)
Session(dir, skills) == [dir |-> dir, skills |-> skills]

Init ==
    /\ config \in SUBSET Calls
    /\ timed \in {config, Calls}
    /\ pc = "serial"
    /\ exec = [c \in Calls |-> "none"]
    /\ wait = [c \in Calls |-> "none"]
    /\ kill = {}
    /\ batch = <<>>
    /\ cancels = 0 /\ asked = 0 /\ cancelled = FALSE
    /\ records = [c \in Calls |-> "empty"]
    /\ results = <<>>
    /\ delivered = {} /\ executed = {}
    /\ pending = <<>>
    /\ copy = Session(0, 0) /\ main = Session(0, 0)
    /\ inbox = <<>>
    /\ chan = [c \in Calls |-> 0] /\ streamed = [c \in Calls |-> 0]
    /\ fwd = [c \in Calls |-> "none"]
    /\ view = [c \in Calls |-> [record |-> "empty", chunks |-> 0]]

-----------------------------------------------------------------------------
(* Execution and forwarding threads.                                       *)

ChangeExec(c, s) == exec' = [exec EXCEPT ![c] = s]

(* spawn_tool_execution for the calls of C. *)
Spawned(C) ==
    /\ exec' = [c \in Calls |-> IF c \in C THEN "running" ELSE exec[c]]
    /\ fwd' = [c \in Calls |-> IF c \in C THEN "on" ELSE fwd[c]]
    /\ UNCHANGED <<chan, streamed>>

(* The forwarder of c is told to stop, by a message or a dropped sender. *)
Stopping(c) == [fwd EXCEPT ![c] = IF @ = "on" THEN "killed" ELSE @]

(* A tool streams a chunk: it waits while the channel is full, and its     *)
(* send fails once the forwarder is gone.                                  *)
ToolStreams(c) ==
    /\ exec[c] = "running" /\ c \notin config
    /\ streamed[c] < MaxChunks
    /\ fwd[c] = "off" \/ chan[c] < ChanCap
    /\ streamed' = [streamed EXCEPT ![c] = @ + 1]
    /\ chan' = [chan EXCEPT ![c] = IF fwd[c] = "off" THEN @ ELSE @ + 1]
    /\ UNCHANGED <<config, timed, workerVars, threadVars, cancels, asked, main,
                   inbox, fwd, view>>

(* The execution thread sends its result, or panics and drops the channel. *)
(* A session-config tool succeeds once the main loop has answered.         *)
ToolEnds(c) ==
    /\ \/ exec[c] = "running" /\ \E r \in {"error", "died"} : ChangeExec(c, r)
       \/ exec[c] = "running" /\ c \notin config /\ ChangeExec(c, "ok")
       \/ exec[c] = "answered" /\ ChangeExec(c, "ok")
    /\ UNCHANGED <<config, timed, workerVars, wait, kill, batch, cancels, asked,
                   main, inbox, streamVars, view>>

(* execute_set_working_dir routes the change through the daemon. *)
SetWorkingDir(c) ==
    /\ exec[c] = "running" /\ c \in config
    /\ ChangeExec(c, "asked")
    /\ inbox' = Append(inbox, c)
    /\ UNCHANGED <<config, timed, workerVars, wait, kill, batch, cancels, asked,
                   main, streamVars, view>>

(* handle_set_working_dir of the session's main loop. *)
HandleSetWorkingDir ==
    /\ inbox # <<>>
    /\ main' = Session(Head(inbox), NoSkills)
    /\ ChangeExec(Head(inbox), "answered")
    /\ inbox' = Tail(inbox)
    /\ UNCHANGED <<config, timed, workerVars, wait, kill, batch, cancels, asked,
                   streamVars, view>>

(* update_tool_result and tool_result_chunk find the first record with the *)
(* call's id.                                                              *)
RecordOf(c) == Min({d \in Calls : Ids[d] = Ids[c]})

(* A client appends n chunks to the call's record, until an event of       *)
(* another turn or the end of the request takes the routing away.          *)
ToolResultChunk(c, n) ==
    view' = IF pc = "merged" THEN view
                             ELSE [view EXCEPT ![RecordOf(c)].chunks = @ + n]

(* The forwarding thread broadcasts the next chunk; once told to stop it   *)
(* sends what is queued at that moment and exits.                          *)
Forward(c) ==
    /\ fwd[c] \in {"on", "killed"}
    /\ IF chan[c] > 0
       THEN LET n == IF fwd[c] = "killed" THEN chan[c] ELSE 1 IN
            /\ chan' = [chan EXCEPT ![c] = @ - n]
            /\ ToolResultChunk(c, n)
            /\ fwd' = [fwd EXCEPT ![c] = IF @ = "killed" THEN "off" ELSE @]
       ELSE /\ fwd[c] = "killed" \/ exec[c] \in Results \cup {"died"}
            /\ fwd' = [fwd EXCEPT ![c] = "off"]
            /\ UNCHANGED <<chan, view>>
    /\ UNCHANGED <<config, timed, workerVars, threadVars, cancels, asked, main,
                   inbox, streamed>>

-----------------------------------------------------------------------------
(* Results.                                                                *)

(* tool_result_from_channel, and the stop arms: what is queued is taken,   *)
(* a dead thread is reported as such, and only then the stop itself.       *)
Finished(c) == exec[c] \in Results \cup {"died"}
ToolResult(c) == IF exec[c] = "died" THEN "panic" ELSE exec[c]
DrainQueuedOrSynthesize(c, stop) == IF Finished(c) THEN ToolResult(c) ELSE stop

(* broadcast_turn_appended: a client replaces its turn by the worker's.    *)
TurnAppended(recs) ==
    view' = [c \in Calls |-> [record |-> recs[c], chunks |-> 0]]

(* record_tool_completion for the handles of a sequence, in order: the     *)
(* last one for a record stays.                                            *)
RecordAll(handles) ==
    LET of(c) == {i \in DOMAIN handles : RecordOf(handles[i].call) = c}
        recs == [c \in Calls |-> IF of(c) = {} THEN records[c]
                                              ELSE handles[Max(of(c))].out]
    IN  /\ records' = recs
        /\ results' = results \o handles
        /\ executed' = executed \cup {Ids[handles[i].call] : i \in DOMAIN handles}
        /\ IF handles = <<>> THEN UNCHANGED view ELSE TurnAppended(recs)

Handle(c, out) == [call |-> c, out |-> out]

-----------------------------------------------------------------------------
(* Phase 1: session-config tools, one at a time.                           *)

NextSerial == {c \in config : exec[c] = "none"}
RunningSerial == {c \in config : exec[c] # "none" /\ wait[c] = "none"}

(* is_cancelled_once before each call. *)
SerialStart ==
    /\ pc = "serial" /\ ~cancelled
    /\ RunningSerial = {} /\ NextSerial # {}
    /\ IF cancels > 0
       THEN /\ cancels' = cancels - 1
            /\ cancelled' = TRUE
            /\ UNCHANGED <<exec, streamVars>>
       ELSE /\ Spawned({Min(NextSerial)})
            /\ UNCHANGED <<cancels, cancelled>>
    /\ UNCHANGED <<config, timed, pc, records, results, delivered, executed,
                   pending, copy, wait, kill, batch, asked, main, inbox, view>>

(* Only a change that was accepted is mirrored. *)
Accepted(out) == out = "ok"

(* The end of execute_tool_with_timeout: the result is recorded, and an    *)
(* accepted change is kept for the mirror.                                 *)
SerialRecord(c, out, stopped) ==
    /\ RecordAll(<<Handle(c, out)>>)
    /\ pending' = IF Accepted(out) THEN Append(pending, c) ELSE pending
    /\ cancelled' = stopped
    /\ wait' = [wait EXCEPT ![c] = "sent"]
    /\ fwd' = Stopping(c)
    /\ UNCHANGED <<config, timed, pc, delivered, copy, exec, kill, batch, asked,
                   main, inbox, chan, streamed>>

SerialResult == \E c \in RunningSerial :
    /\ Finished(c)
    /\ SerialRecord(c, ToolResult(c), FALSE)
    /\ UNCHANGED cancels

SerialCancel == \E c \in RunningSerial :
    /\ cancels > 0
    /\ cancels' = cancels - 1
    /\ SerialRecord(c, DrainQueuedOrSynthesize(c, "cancelled"), TRUE)

SerialDeadline == \E c \in RunningSerial :
    /\ SerialRecord(c, DrainQueuedOrSynthesize(c, "timeout"), FALSE)
    /\ UNCHANGED cancels

SerialEnd == pc = "serial" /\ (SerialResult \/ SerialCancel \/ SerialDeadline)

(* After the last serial call: the other calls are spawned, all at once,   *)
(* unless the request was cancelled or there are none.                     *)
Dispatch ==
    /\ pc = "serial"
    /\ RunningSerial = {} /\ (NextSerial = {} \/ cancelled)
    /\ IF cancelled \/ Concurrent = {}
       THEN pc' = "mirror" /\ UNCHANGED <<wait, exec, streamVars>>
       ELSE /\ pc' = "collect"
            /\ Spawned(Concurrent)
            /\ wait' = [c \in Calls |-> IF c \in Concurrent THEN "waiting" ELSE wait[c]]
    /\ UNCHANGED <<config, timed, cancelled, records, results, delivered, executed,
                   pending, copy, kill, batch, cancels, asked, main, inbox, view>>

-----------------------------------------------------------------------------
(* Phase 2: the wait loops of spawn_single_tool.                           *)

Deliver(c, out) ==
    /\ wait[c] = "waiting"
    /\ wait' = [wait EXCEPT ![c] = "sent"]
    /\ batch' = Append(batch, Handle(c, out))
    /\ fwd' = Stopping(c)
    /\ UNCHANGED <<config, timed, workerVars, exec, kill, cancels, asked, main,
                   inbox, chan, streamed, view>>

WaitResult(c) == Finished(c) /\ Deliver(c, ToolResult(c))
WaitDeadline(c) == c \in timed /\ Deliver(c, DrainQueuedOrSynthesize(c, "timeout"))
WaitKill(c) == c \in kill /\ Deliver(c, "cancelled")

(* A wait loop that panics drops its channels without delivering. *)
WaitDies(c) ==
    /\ Faulty
    /\ wait[c] = "waiting"
    /\ wait' = [wait EXCEPT ![c] = "died"]
    /\ fwd' = Stopping(c)
    /\ UNCHANGED <<config, timed, workerVars, exec, kill, batch, cancels, asked,
                   main, inbox, chan, streamed, view>>

(* The collecting loop. *)
Collecting == pc \in {"collect", "drain"}
Undelivered == Cardinality(delivered) < Cardinality(Concurrent)

CollectNext ==
    /\ Collecting /\ Undelivered
    /\ batch # <<>>
    /\ delivered' = delivered \cup {Ids[Head(batch).call]}
    /\ RecordAll(<<Head(batch)>>)
    /\ batch' = Tail(batch)
    /\ UNCHANGED <<config, timed, pc, cancelled, pending, copy, exec, wait, kill,
                   cancels, asked, main, inbox, streamVars>>

\* Mutant: every call counts as missing.
Missing_All == Concurrent
(* The channel is disconnected: the calls missing by id are reported.      *)
Missing == {c \in Concurrent : Ids[c] \notin delivered}

(* The one way to go through the calls of C in the order of the response.  *)
InCallOrder(C) ==
    {order \in [1..Cardinality(C) -> C] :
        \A i, j \in DOMAIN order : i < j => order[i] < order[j]}

CollectSynthesize ==
    /\ Collecting /\ Undelivered
    /\ batch = <<>>
    /\ \A c \in Concurrent : wait[c] # "waiting"
    /\ \E order \in InCallOrder(Missing) :
         RecordAll([i \in DOMAIN order |-> Handle(order[i], "panic")])
    /\ pc' = "sort"
    /\ UNCHANGED <<config, timed, cancelled, delivered, pending, copy, threadVars,
                   cancels, asked, main, inbox, streamVars>>

\* Mutant: the wait loops are not killed.
KillAll_None == {}
(* The calls whose wait loops are sent a kill. *)
KillAll == Concurrent

(* The cancel arm: kill every wait loop, keep what has arrived already.    *)
CollectCancel ==
    /\ pc = "collect" /\ Undelivered
    /\ cancels > 0
    /\ cancels' = cancels - 1
    /\ cancelled' = TRUE
    /\ kill' = KillAll
    /\ delivered' = delivered \cup {Ids[batch[i].call] : i \in DOMAIN batch}
    /\ RecordAll(batch)
    /\ batch' = <<>>
    /\ pc' = "drain"
    /\ UNCHANGED <<config, timed, pending, copy, exec, wait, asked, main, inbox,
                   streamVars>>

CollectDone ==
    /\ Collecting /\ ~Undelivered
    /\ pc' = "sort"
    /\ UNCHANGED <<config, timed, cancelled, records, results, delivered, executed,
                   pending, copy, threadVars, cancels, asked, main, inbox,
                   streamVars, view>>

(* sort_by_call_order, a stable sort. *)
CallOrder(a, b) ==
    LET key(h) == Max({d \in Calls : Ids[d] = Ids[h.call]}) IN key(a) < key(b)
SortByCallOrder ==
    /\ pc = "sort"
    /\ results' = SortSeq(results, CallOrder)
    /\ pc' = "mirror"
    /\ UNCHANGED <<config, timed, cancelled, records, delivered, executed, pending,
                   copy, threadVars, cancels, asked, main, inbox, streamVars, view>>

-----------------------------------------------------------------------------
(* Phase 3, and the end of the request.                                    *)

MarkUnexecuted ==
    [c \in Calls |-> IF Ids[c] \in executed THEN records[c] ELSE "unexecuted"]

(* apply_pending_config_change, for every accepted change in order. *)
Mirrored == IF pending = <<>> THEN copy ELSE Session(Last(pending), NoSkills)

Mirror ==
    /\ pc = "mirror"
    /\ copy' = Mirrored
    /\ pc' = "done"
    /\ IF cancelled
       THEN records' = MarkUnexecuted /\ TurnAppended(MarkUnexecuted)
       ELSE UNCHANGED <<records, view>>
    /\ UNCHANGED <<config, timed, cancelled, results, delivered, executed, pending,
                   threadVars, cancels, asked, main, inbox, streamVars>>

(* handle_request_finished takes over the worker's skill cache; the        *)
(* working directory stays the main loop's.  RequestFinished goes straight *)
(* to the session and may overtake a change that goes through the daemon.  *)
HandleRequestFinished ==
    /\ pc = "done"
    /\ main' = [main EXCEPT !.skills = copy.skills]
    /\ pc' = "merged"
    /\ UNCHANGED <<config, timed, cancelled, records, results, delivered, executed,
                   pending, copy, threadVars, cancels, asked, inbox, streamVars, view>>

(* The client presses escape. *)
Cancel ==
    /\ asked < MaxCancels /\ pc # "merged"
    /\ cancels' = cancels + 1 /\ asked' = asked + 1
    /\ UNCHANGED <<config, timed, workerVars, threadVars, main, inbox, streamVars, view>>

Worker == SerialStart \/ SerialEnd \/ Dispatch \/ CollectNext \/ CollectSynthesize
          \/ CollectCancel \/ CollectDone \/ SortByCallOrder \/ Mirror

WaitLoop(c) == WaitResult(c) \/ WaitDeadline(c) \/ WaitKill(c) \/ WaitDies(c)

Tool(c) == ToolStreams(c) \/ ToolEnds(c) \/ SetWorkingDir(c)

Next ==
    \/ Worker
    \/ \E c \in Calls : WaitLoop(c) \/ Tool(c) \/ Forward(c)
    \/ HandleSetWorkingDir \/ HandleRequestFinished
    \/ Cancel

(* Threads of the daemon run when they can; a tool may hang for ever.      *)
Fairness ==
    /\ WF_vars(Worker)
    /\ \A c \in Calls : WF_vars(WaitResult(c) \/ WaitDeadline(c) \/ WaitKill(c))
    /\ \A c \in Calls : WF_vars(Forward(c))

Spec == Init /\ [][Next]_vars /\ Fairness
-----------------------------------------------------------------------------
(* Properties.                                                             *)

Handles == [call : Calls, out : Answers]
Dirs == 0..N

TypeOK ==
    /\ config \subseteq timed /\ timed \subseteq Calls
    /\ pc \in {"serial", "collect", "drain", "sort", "mirror", "done", "merged"}
    /\ exec \in [Calls -> Results \cup {"none", "running", "asked", "answered", "died"}]
    /\ wait \in [Calls -> {"none", "waiting", "sent", "died"}]
    /\ kill \subseteq Concurrent
    /\ batch \in Seq(Handles) /\ results \in Seq(Handles)
    /\ cancels \in 0..asked /\ asked \in 0..MaxCancels
    /\ cancelled \in BOOLEAN
    /\ records \in [Calls -> Answers \cup {"empty", "unexecuted"}]
    /\ delivered \subseteq Range(Ids) /\ executed \subseteq Range(Ids)
    /\ pending \in Seq(config) /\ inbox \in Seq(config)
    /\ copy \in [dir : Dirs, skills : Dirs \cup {NoSkills}]
    /\ main \in [dir : Dirs, skills : Dirs \cup {NoSkills}]
    /\ chan \in [Calls -> 0..ChanCap] /\ streamed \in [Calls -> 0..MaxChunks]
    /\ fwd \in [Calls -> {"none", "on", "killed", "off"}]

Ended == pc \in {"done", "merged"}

(* requests.rs: "so the turn still records a result for every call".       *)
(* Whatever tools hang, panic, are cancelled or time out, and whichever    *)
(* wait loop dies, no record of the turn is left empty when the batch is   *)
(* over.                                                                   *)
EveryCallAnswered == Ended => \A c \in Calls : records[c] # "empty"

(* What the next model call is sent answers the calls of the response one  *)
(* for one, in the model's order, with what the turn shows; results        *)
(* collected in completion order and synthesized ones included.            *)
ResultsInCallOrder ==
    Ended /\ ~cancelled =>
        results = [c \in Calls |-> Handle(c, records[c])]

(* A config change is mirrored on the worker's copy only after the main    *)
(* loop has applied it; the copy's directory is one the session really     *)
(* had, and the last one when every config call was answered.              *)
MirrorFollowsMain ==
    /\ \A i \in DOMAIN pending : exec[pending[i]] = "ok"
    /\ Ended /\ (\A c \in config : records[c] = "ok") => copy.dir = main.dir

(* The skill cache a request hands back was discovered in the session's    *)
(* working directory: no stale cache survives the request, as long as no   *)
(* config call was reported cancelled or timed out while its change was    *)
(* under way.                                                              *)
SkillsOfWorkingDir ==
    pc = "merged" /\ (\A c \in config : records[c] \notin {"cancelled", "timeout"})
        => main.skills \in {main.dir, NoSkills}

(* history.rs: "no more chunks arrive for its calls" once the turn with    *)
(* the final records has replaced the accumulated one: what the client     *)
(* shows when the request is over is the turn.                             *)
ViewShowsRecords ==
    pc = "merged" => \A c \in Calls : view[c] = [record |-> records[c], chunks |-> 0]

(* A batch whose calls all have a deadline ends whatever its tools do, and *)
(* a cancel ends any batch.                                                *)
BatchEnds == (timed = Calls \/ cancels > 0) ~> Ended

(* Every forwarding thread exits once its call was answered, however the   *)
(* tool goes on: none is left waiting for output.                          *)
ForwardersExit == Ended ~> \A c \in Calls : fwd[c] \in {"none", "off"}

Abstract == INSTANCE BatchAnswers WITH
    Calls <- Calls, Answers <- Answers, answer <- records,
    over <- IF ~Ended THEN "no" ELSE IF cancelled THEN "cancelled" ELSE "completed"

(* The batch implements its promise: every call answered exactly once.     *)
AnsweredOnce == Abstract!Spec
=============================================================================
