----------------------------- MODULE AcpAdapter -----------------------------
(***************************************************************************)
(* The ACP bridge (choreo-acp): one event loop between an editor that      *)
(* speaks JSON-RPC and the daemon's connection.  The daemon's answers      *)
(* carry no JSON-RPC id; the bridge finds the request an answer belongs to *)
(* by the kind of the message, or by the request id of a prompt.           *)
(*                                                                         *)
(* A session is named by its daemon id: the "sess_<n>" name is in          *)
(* one-to-one correspondence with it while the mapping exists.  Messages   *)
(* the bridge ignores (SessionAttached, ModelSelected, SessionFailed) and  *)
(* the chunks of a stream are left out.  SessionDeleted goes to            *)
(* subscribers of the session list or of all activity, and the bridge      *)
(* subscribes to neither.                                                  *)
(***************************************************************************)
EXTENDS Naturals, Sequences

CONSTANTS
    MaxSessions,    \* sessions the editor creates
    MaxAsked,       \* requests the editor makes
    MaxCancels,     \* session/cancel notifications
    MaxForeign,     \* requests of another client in a session of the bridge
    DaemonMayDie    \* whether the connection to the daemon may be lost

ASSUME AcpBounds ==
    /\ {MaxSessions, MaxAsked, MaxCancels, MaxForeign} \subseteq Nat
    /\ DaemonMayDie \in BOOLEAN

Ids == 1 .. MaxAsked
Chats == 1 .. MaxSessions
NoOne == 0              \* no id, no request, no session
Options == {"model", "effort"}
Slots == {"create", "list"} \cup Options
NoPrompt == [id |-> NoOne, req |-> NoOne]

VARIABLES
    \* the bridge
    phase,           \* "new", "ready", and how the loop ended
    models_pending,  \* the session/new that waits for Models
    sync,            \* the request that waits for a kind of answer
    deleting,        \* DeleteSession(s) of the same map
    prompts,         \* the active prompt of a session
    mapped,          \* sessions of the SessionManager
    active_request,  \* its guard
    next_request_id,
    \* the daemon's end
    outq,            \* from the bridge to its connection thread
    daemon,          \* whether the daemon is there
    writing,         \* whether the bridge's writer thread lives
    current,         \* the session the connection is attached to
    stale,           \* the thread whose channel it holds is gone
    deleted,         \* sessions the daemon has deleted
    created,         \* sessions it has created
    cmds,            \* commands of a session thread
    subscribed,      \* sessions that have the bridge as a subscriber
    run,             \* the active request of a session
    ended,           \* requests whose worker has reported its outcome
    cancelled,       \* requests that were told to stop
    cancelling,      \* cancels on their way through the daemon loop
    closing,         \* sessions that were asked to leave
    leaving,         \* threads past their last command
    inq,             \* from the daemon to the bridge
    \* the editor, and what the properties ask about
    asked, answers, cancels, foreign, dropped, strayed

bridge == <<phase, models_pending, sync, deleting, prompts, mapped,
            active_request, next_request_id>>
connection == <<daemon, writing, current, stale, deleted, created>>
threads == <<cmds, subscribed, run, ended, cancelled, cancelling, closing,
             leaving>>
editor == <<asked, answers, cancels>>
history == <<foreign, dropped, strayed>>
acpVars == <<bridge, outq, connection, threads, inq, editor, history>>

Msg(kind, n) == [kind |-> kind, n |-> n]

\* The answer to a failed change of an option
NotSet(k) == Msg(IF k = "model" THEN "ModelSelectionFailed"
                 ELSE "ReasoningEffortSetFailed", NoOne)

AcpInit ==
    /\ phase = "new"
    /\ models_pending = NoOne
    /\ sync = [k \in Slots |-> NoOne]
    /\ deleting = [s \in Chats |-> NoOne]
    /\ prompts = [s \in Chats |-> NoPrompt]
    /\ mapped = {}
    /\ active_request = [s \in Chats |-> NoOne]
    /\ next_request_id = 1
    /\ outq = <<>> /\ inq = <<>>
    /\ daemon = TRUE /\ writing = TRUE
    /\ current = NoOne /\ stale = FALSE
    /\ deleted = {} /\ created = 0
    /\ cmds = [s \in Chats |-> <<>>]
    /\ subscribed = {}
    /\ run = [s \in Chats |-> NoOne]
    /\ ended = {} /\ cancelled = {} /\ cancelling = {} /\ closing = {}
    /\ leaving = {}
    /\ asked = <<>>
    /\ answers = [i \in Ids |-> 0]
    /\ cancels = 0 /\ foreign = 0
    /\ dropped = {} /\ strayed = {}

-----------------------------------------------------------------------------
(* Requests of the editor.                                                 *)

Alive == phase \in {"new", "ready"}
NewId == Len(asked) + 1

Asks(slot, s) ==
    /\ Len(asked) < MaxAsked
    /\ asked' = Append(asked, [slot |-> slot, session |-> s])
    /\ UNCHANGED <<inq, connection, threads, cancels, history>>

Respond(ids) ==
    answers' = [i \in Ids |-> answers[i] + IF i \in ids THEN 1 ELSE 0]

\* respond, respond_err on the spot: an unknown method, a missing session or
\* invalid parameters; session/load and the tool groups.
RespondAtOnce ==
    /\ Asks("none", NoOne)
    /\ Respond({NewId})
    /\ UNCHANGED <<outq, models_pending, sync, deleting, prompts>>

\* Answered in place; its id is not counted.
Initialize ==
    /\ phase = "new"
    /\ phase' = "ready"
    /\ UNCHANGED <<models_pending, sync, deleting, prompts, mapped,
                   active_request, next_request_id, outq, connection, threads,
                   inq, editor, history>>

\* Before initialize everything else is refused; afterwards some requests
\* have their answer in what the bridge holds.  (A notification refused before
\* initialize gets an error response with the id 0, no request's; left out.)
Refuse ==
    /\ Alive
    /\ RespondAtOnce
    /\ UNCHANGED <<phase, mapped, active_request, next_request_id>>

\* The messages are handed to the writer thread, and the loop ends with an
\* error when that is gone; its maps are lost with it.
SendToDaemon(msgs) ==
    IF writing
    THEN outq' = outq \o msgs /\ UNCHANGED phase
    ELSE phase' = "error" /\ UNCHANGED outq

Dispatch(slot, s, msgs) ==
    /\ phase = "ready"
    /\ Asks(slot, s)
    /\ SendToDaemon(msgs)
    /\ UNCHANGED <<answers, mapped>>

\* Mutant: session/new is never refused.
CreationInProgress_Never == FALSE

CreationInProgress == models_pending # NoOne

NewSession ==
    /\ Len(SelectSeq(asked, LAMBDA a : a.slot = "create")) < MaxSessions
    /\ ~CreationInProgress
    /\ Dispatch("create", NoOne, <<Msg("ListModels", NoOne)>>)
    /\ models_pending' = NewId
    /\ UNCHANGED <<sync, deleting, prompts, active_request, next_request_id>>

\* insert_sync: a later request of the kind takes the slot.
ListSessions ==
    /\ Dispatch("list", NoOne, <<Msg("ListSessions", NoOne)>>)
    /\ sync' = [sync EXCEPT !["list"] = NewId]
    /\ UNCHANGED <<models_pending, deleting, prompts, active_request,
                   next_request_id>>

SetConfigOption(k, s) ==
    /\ s \in mapped
    /\ Dispatch(k, NoOne, <<Msg(k, s)>>)
    /\ sync' = [sync EXCEPT ![k] = NewId]
    /\ UNCHANGED <<models_pending, deleting, prompts, active_request,
                   next_request_id>>

DeleteSession(s) ==
    /\ s \in mapped
    /\ Dispatch("delete", s, <<Msg("DeleteSession", s)>>)
    /\ deleting' = [deleting EXCEPT ![s] = NewId]
    /\ UNCHANGED <<models_pending, sync, prompts, active_request,
                   next_request_id>>

\* Only the mapping goes, and the guard with it.
CloseSession(s) ==
    /\ phase = "ready" /\ s \in mapped
    /\ RespondAtOnce
    /\ mapped' = mapped \ {s}
    /\ active_request' = [active_request EXCEPT ![s] = NoOne]
    /\ UNCHANGED <<phase, next_request_id>>

\* try_begin_prompt
Busy(s) == active_request[s] # NoOne

\* Mutant: the input is sent before the attach.
PromptMessages_Swapped(s, r) ==
    <<Msg("RunInput", r), Msg("AttachSession", s)>>

PromptMessages(s, r) == <<Msg("AttachSession", s), Msg("RunInput", r)>>

Prompt(s) ==
    /\ s \in mapped /\ ~Busy(s)
    /\ Dispatch("prompt", s, PromptMessages(s, next_request_id))
    /\ active_request' = [active_request EXCEPT ![s] = next_request_id]
    /\ prompts' = [prompts EXCEPT ![s] = [id |-> NewId,
                                          req |-> next_request_id]]
    /\ next_request_id' = next_request_id + 1
    /\ UNCHANGED <<models_pending, sync, deleting>>

\* A refused prompt has taken a request id.
PromptBusy(s) ==
    /\ phase = "ready" /\ s \in mapped /\ Busy(s)
    /\ RespondAtOnce
    /\ next_request_id' = next_request_id + 1
    /\ UNCHANGED <<phase, mapped, active_request>>

Cancel(s) ==
    /\ phase = "ready" /\ prompts[s] # NoPrompt
    /\ cancels < MaxCancels
    /\ cancels' = cancels + 1
    /\ SendToDaemon(<<Msg("Cancel", prompts[s].req)>>)
    /\ UNCHANGED <<models_pending, sync, deleting, prompts, mapped,
                   active_request, next_request_id, connection, threads, inq,
                   asked, answers, history>>

\* The editor closes its end.
AcpEof ==
    /\ Alive
    /\ phase' = "eof"
    /\ UNCHANGED <<models_pending, sync, deleting, prompts, mapped,
                   active_request, next_request_id, outq, connection, threads,
                   inq, editor, history>>

-----------------------------------------------------------------------------
(* The connection thread of the daemon.                                    *)

\* The daemon as the bridge sees it: its connection is closed with the loop.
Up == daemon /\ Alive

Reply(m) == inq' = Append(inq, m)

\* A command for the attached session; lost when its thread is gone.
Command(m) ==
    /\ cmds' = IF stale THEN cmds
               ELSE [cmds EXCEPT ![current] = Append(@, m)]
    /\ dropped' = IF stale /\ m.kind = "RunInput" THEN dropped \cup {m.n}
                  ELSE dropped

ServeList(m) ==
    /\ \/ m.kind = "ListSessions" /\ Reply(Msg("Sessions", NoOne))
       \/ m.kind = "ListModels" /\ Reply(Msg("Models", NoOne))
       \/ m.kind = "ListModels" /\ Reply(Msg("ModelsFailed", NoOne))
    /\ UNCHANGED <<connection, threads, dropped>>

ServeCreate(m) ==
    /\ m.kind = "CreateSession"
    /\ created' = created + 1
    /\ Reply(Msg("SessionCreated", created'))
    /\ UNCHANGED <<daemon, writing, current, stale, deleted, threads, dropped>>

\* switch_attached_session; a deleted session cannot be attached to, and the
\* connection stays where it was.
ServeAttach(m) ==
    /\ m.kind = "AttachSession"
    /\ IF m.n \in deleted
       THEN UNCHANGED <<current, stale, cmds>>
       ELSE /\ current' = m.n
            /\ stale' = FALSE
            /\ cmds' = [s \in Chats |-> cmds[s] \o
                   CASE s = m.n -> <<Msg("Attach", NoOne)>>
                     [] s = current /\ s # m.n /\ ~stale ->
                                     <<Msg("Detach", NoOne)>>
                     [] OTHER -> <<>>]
    /\ UNCHANGED <<daemon, writing, deleted, created, subscribed, run, ended,
                   cancelled, cancelling, closing, leaving, inq, dropped>>

\* A prompt or an option: "no session attached", or on to the session
ServeForward(m) ==
    /\ m.kind \in {"RunInput"} \cup Options
    /\ IF current = NoOne
       THEN /\ Reply(IF m.kind = "RunInput" THEN Msg("Failed", m.n)
                     ELSE NotSet(m.kind))
            /\ UNCHANGED <<cmds, dropped>>
       ELSE Command(m) /\ UNCHANGED inq
    /\ UNCHANGED <<connection, subscribed, run, ended, cancelled, cancelling,
                   closing, leaving>>

ServeCancel(m) ==
    /\ m.kind = "Cancel"
    /\ cancelling' = cancelling \cup
          (IF current = NoOne THEN {} ELSE {<<current, m.n>>})
    /\ UNCHANGED <<connection, cmds, subscribed, run, ended, cancelled,
                   closing, leaving, inq, dropped>>

\* Success is only broadcast.
ServeDelete(m) ==
    /\ m.kind = "DeleteSession"
    /\ \/ /\ deleted' = deleted \cup {m.n}
          /\ cmds' = IF m.n \in deleted THEN cmds
                     ELSE [cmds EXCEPT ![m.n] =
                              Append(@, Msg("Shutdown", NoOne))]
          /\ UNCHANGED inq
       \/ /\ Reply(Msg("SessionDeleteFailed", m.n))
          /\ UNCHANGED <<deleted, cmds>>
    /\ UNCHANGED <<daemon, writing, current, stale, created, subscribed, run,
                   ended, cancelled, cancelling, closing, leaving, dropped>>

Serve ==
    /\ Up /\ outq # <<>>
    /\ outq' = Tail(outq)
    /\ LET m == Head(outq) IN
       \/ ServeList(m)
       \/ ServeCreate(m)
       \/ ServeAttach(m)
       \/ ServeForward(m)
       \/ ServeCancel(m)
       \/ ServeDelete(m)
    /\ UNCHANGED <<bridge, editor, foreign, strayed>>

-----------------------------------------------------------------------------
(* A session thread and its request worker.                                *)

Tell(s, msgs) == inq' = IF s \in subscribed THEN inq \o msgs ELSE inq

\* The thread leaves when nothing runs and nobody listens, or it was asked to.
Leaves(running, listening, asked_to) ==
    running = NoOne /\ (~listening \/ asked_to)

LeaveIf(s, p) == leaving' = IF p THEN leaving \cup {s} ELSE leaving

SessionCommand(s) ==
    /\ Up /\ cmds[s] # <<>> /\ s \notin leaving
    /\ cmds' = [cmds EXCEPT ![s] = Tail(@)]
    /\ LET m == Head(cmds[s]) IN
       \/ /\ m.kind = "Attach"
          /\ subscribed' = subscribed \cup {s}
          /\ UNCHANGED <<run, cancelled, closing, leaving, inq>>
       \/ /\ m.kind = "Detach"
          /\ subscribed' = subscribed \ {s}
          /\ LeaveIf(s, Leaves(run[s], FALSE, s \in closing))
          /\ UNCHANGED <<run, cancelled, closing, inq>>
       \/ /\ m.kind = "RunInput"
          /\ run[s] = NoOne /\ s \notin closing
          /\ run' = [run EXCEPT ![s] = m.n]
          /\ UNCHANGED <<subscribed, cancelled, closing, leaving, inq>>
       \/ /\ m.kind = "RunInput"
          /\ Tell(s, <<Msg("Failed", m.n)>>)
          /\ UNCHANGED <<subscribed, run, cancelled, closing, leaving>>
       \/ /\ m.kind \in Options
          /\ \/ Tell(s, <<NotSet(m.kind)>>)
             \/ m.kind = "model" /\ UNCHANGED inq
             \/ Tell(s, <<Msg("ReasoningEffortSet", NoOne)>>)
          /\ UNCHANGED <<subscribed, run, cancelled, closing, leaving>>
       \/ /\ m.kind = "Shutdown"
          /\ closing' = closing \cup {s}
          /\ IF run[s] = NoOne
             THEN UNCHANGED <<cancelled, inq>>
             ELSE /\ cancelled' = cancelled \cup {run[s]}
                  /\ Tell(s, <<Msg("Cancelled", run[s]),
                               Msg("Cancelled", run[s])>>)
          /\ LeaveIf(s, Leaves(run[s], s \in subscribed, TRUE))
          /\ UNCHANGED <<subscribed, run>>
    /\ UNCHANGED <<bridge, outq, connection, ended, cancelling, editor,
                   history>>

HandleCancel(s, r) ==
    /\ Up /\ <<s, r>> \in cancelling
    /\ cancelling' = cancelling \ {<<s, r>>}
    /\ IF run[s] = r
       THEN cancelled' = cancelled \cup {r} /\ Tell(s, <<Msg("Cancelled", r)>>)
       ELSE UNCHANGED <<cancelled, inq>>
    /\ UNCHANGED <<bridge, outq, connection, cmds, subscribed, run, ended,
                   closing, leaving, editor, history>>

\* The worker's Done or Failed; a cancelled one says nothing.
RunReports(s) ==
    /\ Up /\ run[s] \notin ended \cup {NoOne}
    /\ ended' = ended \cup {run[s]}
    /\ \/ \E kind \in {"Done", "Failed"} : Tell(s, <<Msg(kind, run[s])>>)
       \/ run[s] \in cancelled /\ UNCHANGED inq
    /\ UNCHANGED <<bridge, outq, connection, cmds, subscribed, run, cancelled,
                   cancelling, closing, leaving, editor, history>>

HandleRequestFinished(s) ==
    /\ Up /\ run[s] \in ended
    /\ run' = [run EXCEPT ![s] = NoOne]
    /\ LeaveIf(s, Leaves(NoOne, s \in subscribed, s \in closing))
    /\ UNCHANGED <<bridge, outq, connection, cmds, subscribed, ended,
                   cancelled, cancelling, closing, inq, editor, history>>

\* The thread is gone and its commands with it; the next attach starts another.
ThreadGone(s) ==
    /\ Up /\ s \in leaving
    /\ leaving' = leaving \ {s}
    /\ cmds' = [cmds EXCEPT ![s] = <<>>]
    /\ subscribed' = subscribed \ {s}
    /\ stale' = (stale \/ current = s)
    /\ dropped' = dropped \cup {cmds[s][i].n : i \in
                      {j \in DOMAIN cmds[s] : cmds[s][j].kind = "RunInput"}}
    /\ UNCHANGED <<bridge, outq, daemon, writing, current, deleted, created,
                   run, ended, cancelled, cancelling, closing, inq, editor,
                   foreign, strayed>>

\* Another client's request in a session both are attached to: request ids
\* are each client's own.
ForeignRunEnds(s) ==
    /\ Up /\ foreign < MaxForeign
    /\ s \in subscribed /\ run[s] = NoOne
    /\ \E r \in 1 .. next_request_id - 1 : Tell(s, <<Msg("ForeignDone", r)>>)
    /\ foreign' = foreign + 1
    /\ UNCHANGED <<bridge, outq, connection, threads, editor, dropped,
                   strayed>>

DaemonDies ==
    /\ DaemonMayDie /\ Up
    /\ daemon' = FALSE
    /\ Reply(Msg("Disconnected", NoOne))
    /\ UNCHANGED <<bridge, outq, writing, current, stale, deleted, created,
                   threads, editor, history>>

\* The writer thread fails on its first write after that.
WriterFails ==
    /\ Alive /\ ~daemon /\ writing /\ outq # <<>>
    /\ writing' = FALSE
    /\ UNCHANGED <<bridge, outq, daemon, current, stale, deleted, created,
                   threads, inq, editor, history>>

-----------------------------------------------------------------------------
(* Messages of the daemon.                                                 *)

Take(kind) ==
    /\ Alive
    /\ inq # <<>> /\ Head(inq).kind = kind
    /\ inq' = Tail(inq)
    /\ UNCHANGED <<connection, threads, asked, cancels, foreign, dropped>>

\* Models answers the session/new that waits for it, else a model change.
HandleModels ==
    /\ Take("Models")
    /\ IF models_pending # NoOne
       THEN /\ models_pending' = NoOne
            /\ sync' = [sync EXCEPT !["create"] = models_pending]
            /\ SendToDaemon(<<Msg("CreateSession", NoOne)>>)
            /\ UNCHANGED answers
       ELSE /\ sync' = [sync EXCEPT !["model"] = NoOne]
            /\ Respond({sync["model"]})
            /\ UNCHANGED <<models_pending, phase, outq>>
    /\ UNCHANGED <<deleting, prompts, mapped, active_request, next_request_id,
                   strayed>>

HandleModelsFailed ==
    /\ Take("ModelsFailed")
    /\ UNCHANGED <<bridge, outq, answers, strayed>>

HandleSessionCreated ==
    /\ Take("SessionCreated")
    /\ IF sync["create"] # NoOne
       THEN /\ mapped' = mapped \cup {Head(inq).n}
            /\ SendToDaemon(<<Msg("AttachSession", Head(inq).n)>>)
            /\ IF writing THEN Respond({sync["create"]}) ELSE UNCHANGED answers
       ELSE UNCHANGED <<mapped, phase, outq, answers>>
    /\ sync' = [sync EXCEPT !["create"] = NoOne]
    /\ UNCHANGED <<models_pending, deleting, prompts, active_request,
                   next_request_id, strayed>>

\* PendingKind of an answer
SyncKind == [Sessions                 |-> "list",
             ModelSelectionFailed     |-> "model",
             ReasoningEffortSet       |-> "effort",
             ReasoningEffortSetFailed |-> "effort"]

\* take_sync and the answer, for Sessions and for the outcome of an option
HandleSync ==
    \E kind \in DOMAIN SyncKind :
    /\ Take(kind)
    /\ LET k == SyncKind[kind] IN
       /\ sync' = [sync EXCEPT ![k] = NoOne]
       /\ Respond({sync[k]})
    /\ UNCHANGED <<phase, models_pending, deleting, prompts, mapped,
                   active_request, next_request_id, outq, strayed>>

HandleSessionDeleteFailed ==
    /\ Take("SessionDeleteFailed")
    /\ deleting' = [deleting EXCEPT ![Head(inq).n] = NoOne]
    /\ Respond({deleting[Head(inq).n]})
    /\ UNCHANGED <<phase, models_pending, sync, prompts, mapped,
                   active_request, next_request_id, outq, strayed>>

Terminal == {"Done", "Failed", "Cancelled", "ForeignDone"}

\* find_by_request_id
Awaiting(r) == {s \in Chats : prompts[s] # NoPrompt /\ prompts[s].req = r}

\* cleanup_prompt: the guard goes with the prompt.
EndPrompts(ss) ==
    [s \in Chats |-> IF s \in ss THEN NoOne ELSE active_request[s]]

HandleTerminal ==
    \E kind \in Terminal :
       /\ Take(kind)
       /\ LET ss == Awaiting(Head(inq).n) IN
          /\ Respond({prompts[s].id : s \in ss})
          /\ prompts' = [s \in Chats |-> IF s \in ss THEN NoPrompt
                                         ELSE prompts[s]]
          /\ active_request' = EndPrompts(ss)
          /\ strayed' = strayed \cup
                (IF kind = "ForeignDone" THEN ss ELSE {})
       /\ UNCHANGED <<phase, models_pending, sync, deleting, mapped,
                      next_request_id, outq>>

\* drain_prompts, drain_sync and take_models_pending, each with an error
HandleDisconnected ==
    /\ Take("Disconnected")
    /\ phase' = "lost"
    /\ Respond({models_pending} \cup {sync[k] : k \in Slots}
               \cup {deleting[s] : s \in Chats}
               \cup {prompts[s].id : s \in Chats})
    /\ models_pending' = NoOne
    /\ sync' = [k \in Slots |-> NoOne]
    /\ deleting' = [s \in Chats |-> NoOne]
    /\ prompts' = [s \in Chats |-> NoPrompt]
    /\ active_request' = EndPrompts({s \in Chats : prompts[s] # NoPrompt})
    /\ UNCHANGED <<mapped, next_request_id, outq, strayed>>

HandleDaemonMessage ==
    \/ HandleModels
    \/ HandleModelsFailed
    \/ HandleSessionCreated
    \/ HandleSync
    \/ HandleSessionDeleteFailed
    \/ HandleTerminal
    \/ HandleDisconnected

-----------------------------------------------------------------------------
EditorMoves ==
    \/ Initialize
    \/ Refuse
    \/ NewSession
    \/ ListSessions
    \/ AcpEof
    \/ \E s \in Chats :
        \/ \E k \in Options : SetConfigOption(k, s)
        \/ DeleteSession(s)
        \/ CloseSession(s)
        \/ Prompt(s)
        \/ PromptBusy(s)
        \/ Cancel(s)

ThreadMoves(s) ==
    \/ SessionCommand(s)
    \/ \E r \in Ids : HandleCancel(s, r)
    \/ RunReports(s)
    \/ HandleRequestFinished(s)
    \/ ThreadGone(s)

AcpNext ==
    \/ EditorMoves
    \/ Serve
    \/ HandleDaemonMessage
    \/ DaemonDies
    \/ WriterFails
    \/ \E s \in Chats : ThreadMoves(s) \/ ForeignRunEnds(s)

\* The loop, the daemon's threads and the workers run; an inference ends,
\* since its transport has timeouts.
AcpFairness ==
    /\ WF_acpVars(Serve)
    /\ WF_acpVars(HandleDaemonMessage)
    /\ \A s \in Chats : /\ WF_acpVars(SessionCommand(s))
                        /\ WF_acpVars(RunReports(s))
                        /\ WF_acpVars(HandleRequestFinished(s))
                        /\ WF_acpVars(ThreadGone(s))

AcpSpec == AcpInit /\ [][AcpNext]_acpVars /\ AcpFairness
-----------------------------------------------------------------------------
(* Properties.                                                             *)

Tracked(i) ==
    \/ i = models_pending
    \/ \E k \in Slots : i = sync[k]
    \/ \E s \in Chats : i = deleting[s] \/ i = prompts[s].id

\* A later request of the same kind has the slot.
Overtaken(i) ==
    /\ i \in DOMAIN asked
    /\ asked[i].slot \in {"list", "delete"} \cup Options
    /\ \E j \in i + 1 .. Len(asked) : asked[j] = asked[i]

\* No request is answered twice, though a prompt can have several terminal
\* events; and while the loop runs, or when it ended with the daemon, an
\* unanswered one is still in a slot, unless a later request of its kind took
\* that over (acp_handler.rs run_event_loop, pending.rs PendingRequests).
AnsweredOrTracked ==
    \A i \in 1 .. Len(asked) :
        /\ answers[i] <= 1
        /\ phase \in {"ready", "lost"} =>
              (answers[i] = 0 <=> Tracked(i)) \/ Overtaken(i)

\* A session of the bridge is busy exactly while a prompt of it waits, and with
\* that prompt's request (sessions.rs try_begin_prompt, end_prompt).
GuardFollowsPrompt ==
    \A s \in mapped : active_request[s] = prompts[s].req

\* The session the connection will be attached to after what was sent
Attaching ==
    LET to == SelectSeq(outq, LAMBDA m : m.kind = "AttachSession") IN
    IF to = <<>> THEN current ELSE to[Len(to)].n

\* A prompt is answered while its loop runs, if the bridge stays with its
\* session and the thread it was sent to did not leave before it read it
\* (acp_handler.rs handle_streaming_message, send_terminal_response).
PromptAnswered ==
    \A r \in 1 .. MaxAsked - 1 :
        (phase = "ready" /\ Attaching \in Awaiting(r)) ~>
            (phase # "ready" \/ Attaching \notin Awaiting(r) \/ r \in dropped)

Answered(i) == phase # "ready" \/ answers[i] > 0

\* What handle_sync_message says of a deletion: the daemon confirms it, and
\* the local state goes then.  The confirmation is only broadcast to clients
\* that follow the session list.
DeleteAnswered ==
    \A i \in Ids :
        (phase = "ready" /\ \E s \in Chats : deleting[s] = i) ~>
            (Answered(i) \/ Overtaken(i))

\* "SetModel produces a ModelSelected + Models broadcast"; the daemon sends
\* the first only, and the bridge answers on the second.
ModelAnswered ==
    \A i \in Ids :
        (phase = "ready" /\ sync["model"] = i) ~>
            (Answered(i) \/ Overtaken(i))

\* A prompt is answered whatever other session is prompted meanwhile: the
\* guard is one of a session, so two sessions may have a prompt at once, yet
\* the second prompt moves the connection away from the first.
PromptAlwaysAnswered ==
    \A r \in 1 .. MaxAsked - 1 :
        (phase = "ready" /\ Awaiting(r) # {}) ~>
            (phase # "ready" \/ Awaiting(r) = {} \/ r \in dropped)
=============================================================================
