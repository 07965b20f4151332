------------------------------- MODULE Delivery -------------------------------
(***************************************************************************)
(* How an event of a session reaches the clients of choreo-daemon.         *)
(*                                                                         *)
(* Every client has one unbounded sink, drained by its writer thread.  An  *)
(* event enters it on one of three paths: straight from the session thread *)
(* (the client is attached), through the daemon's all-activity bus, or     *)
(* through its session-list (summary) bus.  The daemon suppresses the      *)
(* duplicates with client_subscribed_sessions, its own picture of who is   *)
(* attached, which session threads keep current by messages.               *)
(*                                                                         *)
(* The actors are the daemon's command loop, the session threads, and per  *)
(* client a connection thread and a writer thread; all of them communicate *)
(* by FIFO channels.  A sink is modelled by the log of everything ever     *)
(* enqueued, so it is also what the client reads, in order.  How far the   *)
(* writer is behind is left out: whether an enqueue finds the client over  *)
(* its lag limit is an arbitrary choice for the clients in Slow.  The log  *)
(* holds what the properties are about: the events of sessions, snapshots  *)
(* and eviction notices.  Replies and greetings are left out.              *)
(*                                                                         *)
(* The events of a session are numbered.  A session that exits and is      *)
(* attached again gets a new thread, hence a new channel.                  *)
(***************************************************************************)
EXTENDS Naturals, Sequences, FiniteSets, SequencesExt

CONSTANTS
    Clients,
    Sessions,
    None,
    Slow,        \* clients that may stall: over the lag limit, or cut off
    Requests,    \* the subscription messages clients send
    Orphanable,  \* sessions whose parent may exit and shut them down
    MaxEvents,   \* no optional event is broadcast once there are this many
    MaxQueue,    \* nor sent to, or asked of, a daemon this far behind
    MaxGen,      \* bound on the threads ever started for one session
    MaxOps       \* bound on the subscribe and attach requests of one client

SubscriptionOps ==
    {"RegisterActivitySubscriber", "UnregisterActivitySubscriber",
     "RegisterSummarySubscriber", "UnregisterSummarySubscriber"}

ASSUME DeliveryAssumption ==
    /\ IsFiniteSet(Clients) /\ Slow \subseteq Clients
    /\ Requests \subseteq SubscriptionOps
    /\ Orphanable \subseteq Sessions
    /\ None \notin Sessions \cup Clients
    /\ MaxEvents \in Nat /\ MaxQueue \in Nat /\ MaxGen \in Nat \ {0} /\ MaxOps \in Nat

VARIABLES
    \* the daemon's command loop
    daemonQ,
    active,       \* keys of active_sessions
    activity,     \* keys of activity_subscribers
    summary,      \* keys of summary_subscribers
    writers,      \* keys of client_writers
    tracked,      \* client_subscribed_sessions, as pairs <<client, session>>
    \* session threads
    thread,       \* [gen, up, busy, stop, status: a status change on its way]
    inbox,
    subscribers,
    emitted,      \* number of events broadcast so far
    \* connection and writer threads
    conn,         \* "new", "open", "closed"
    awaiting,     \* the AttachSession request the connection is blocked on
    attached,     \* attached_session_id and attached_session_tx
    ops,
    writer,       \* "run", "gone"
    sink,         \* everything enqueued for the client
    \* history
    owed          \* <<client, session, event>> a subscription entitles to

daemonVars  == <<active, activity, summary, writers, tracked>>
sessionVars == <<thread, inbox, subscribers, emitted>>
clientVars  == <<conn, awaiting, attached, ops>>
vars == <<daemonQ, daemonVars, sessionVars, clientVars, writer, sink, owed>>

NoTx == [session |-> None, gen |-> 0]

Item(kind, s, n) == [kind |-> kind, session |-> s, n |-> n]
NoItem == Item("none", None, 0)
\* A command for the daemon or for a session thread.
Cmd(op, c, s, m) == [op |-> op, client |-> c, session |-> s, msg |-> m]

-----------------------------------------------------------------------------
(* Sinks and channels *)

\* send_accounted: the message is queued unless the receiver is gone.
Enqueue(sk, R, m) ==
    [c \in Clients |-> IF c \in R /\ writer[c] = "run" THEN Append(sk[c], m)
                       ELSE sk[c]]

Gone(R) == {c \in R : writer[c] = "gone"}

\* The subscribers an enqueue may find over the lag limits.
OverLag(R) == SUBSET {c \in R \cap Slow : writer[c] = "run"}
\* An enqueue that crosses the daemon-wide budget asks for one more eviction.
OverBudget(R) ==
    {<<>>} \cup {<<Cmd("EvictLargestLagging", None, None, NoItem)>> :
                 c \in {d \in R \cap Slow : writer[d] = "run"}}

\* A command sent through a channel end: it is lost once the thread that held
\* the other end has left its loop.
Reaches(tx, s) == thread[s].up /\ tx = [session |-> s, gen |-> thread[s].gen]

\* A thread just spawned.
Fresh(g) == [gen |-> g, up |-> TRUE, busy |-> FALSE, stop |-> FALSE,
             status |-> NoItem]

-----------------------------------------------------------------------------
Init ==
    /\ daemonQ = <<>>
    /\ active = {}
    /\ activity = {}
    /\ summary = {}
    /\ writers = {}
    /\ tracked = {}
    /\ thread = [s \in Sessions |-> [Fresh(0) EXCEPT !.up = FALSE]]
    /\ inbox = [s \in Sessions |-> <<>>]
    /\ subscribers = [s \in Sessions |-> {}]
    /\ emitted = [s \in Sessions |-> 0]
    /\ conn = [c \in Clients |-> "new"]
    /\ awaiting = [c \in Clients |-> NoTx]
    /\ attached = [c \in Clients |-> NoTx]
    /\ ops = [c \in Clients |-> 0]
    /\ writer = [c \in Clients |-> "run"]
    /\ sink = [c \in Clients |-> <<>>]
    /\ owed = {}

-----------------------------------------------------------------------------
(* The session thread *)

\* broadcast(): forward to the daemon, enqueue for the own subscribers, then
\* report the ones over their limits.
\* Mutant: activity subscribers are left to the daemon.
Broadcast_SkipsActivity(s, kind) ==
    LET m == Item(kind, s, emitted[s] + 1)
        R == subscribers[s] \ activity
    IN
    /\ emitted' = [emitted EXCEPT ![s] = @ + 1]
    /\ sink' = Enqueue(sink, R, m)
    /\ owed' = owed \cup {<<c, s, m.n>> : c \in activity \cup R}
    /\ daemonQ' = daemonQ \o <<Cmd("BroadcastActivity", None, s, m)>>
Broadcast(s, kind) ==
    LET m == Item(kind, s, emitted[s] + 1)
        R == subscribers[s]
    IN
    /\ emitted' = [emitted EXCEPT ![s] = @ + 1]
    /\ sink' = Enqueue(sink, R, m)
    /\ owed' = owed \cup {<<c, s, m.n>> : c \in activity \cup R}
    /\ \E over \in OverLag(R), budget \in OverBudget(R) :
          daemonQ' = daemonQ
              \o <<Cmd("BroadcastActivity", None, s, m)>>
              \o SetToSeq({Cmd("EvictClient", c, None, NoItem) : c \in over})
              \o budget

\* The subscribers left after a fan-out has dropped the dead sinks.
Pruned(s) == subscribers[s] \ Gone(subscribers[s])

Exited(s) == <<Cmd("SessionExited", None, s, NoItem)>>

\* The thread leaves its loop (persist_and_exit) or goes on with state th and
\* subscribers R; a thread that left takes nothing from its inbox any more.
Continue(s, leave, th, R, rest) ==
    /\ thread' = [thread EXCEPT ![s] =
                    IF leave THEN [Fresh(@.gen) EXCEPT !.up = FALSE] ELSE th]
    /\ subscribers' = [subscribers EXCEPT ![s] = IF leave THEN {} ELSE R]
    /\ inbox' = [inbox EXCEPT ![s] = IF leave THEN <<>> ELSE rest]

\* The thread is between two commands.
Free(s) == thread[s].up /\ thread[s].status = NoItem

\* The bounds on what sessions and clients do of their own accord.
Unhurried == Len(daemonQ) < MaxQueue
MayEmit(k) ==
    /\ MapThenSumSet(LAMBDA s : emitted[s], Sessions) + k <= MaxEvents
    /\ Unhurried

\* Handlers whose only effect here is a broadcast (handle_broadcast,
\* handle_set_title, handle_sync_accumulated_usage, ...).
SessionEvent(s) ==
    /\ Free(s)
    /\ MayEmit(1)
    /\ Broadcast(s, "event")
    /\ Continue(s, FALSE, thread[s], Pruned(s), inbox[s])
    /\ UNCHANGED <<daemonVars, clientVars, writer>>

\* handle_run_input, the accepting branch: Started is broadcast.
RunInput(s) ==
    /\ Free(s)
    /\ ~thread[s].busy
    /\ ~thread[s].stop
    /\ MayEmit(2)      \* room for the end of the request
    /\ Broadcast(s, "event")
    /\ Continue(s, FALSE, [thread[s] EXCEPT !.busy = TRUE], Pruned(s), inbox[s])
    /\ UNCHANGED <<daemonVars, clientVars, writer>>

\* handle_status_changed, on behalf of the request worker, up to the broadcast
\* and handle_request_finished up to the same point: the daemon's other
\* senders may come between it and the status forward.
StatusChanged(s) ==
    /\ Free(s)
    /\ thread[s].busy
    /\ \E finished \in BOOLEAN :
          /\ ~finished => MayEmit(1)
          /\ Continue(s, FALSE, [thread[s] EXCEPT
                  !.busy = ~finished, !.status = Item("status", s, emitted[s] + 1)],
                  Pruned(s), inbox[s])
    /\ Broadcast(s, "status")
    /\ UNCHANGED <<daemonVars, clientVars, writer>>

\* The exit predicate of handle_request_finished, handle_detach and
\* handle_remove_subscriber.
LeavesWith(s, R) == ~thread[s].busy /\ (R = {} \/ thread[s].stop)

\* The rest of the two handlers: the status forward, and the exit of a thread
\* that finished its request.
ForwardStatus(s) ==
    LET leave == LeavesWith(s, subscribers[s]) IN
    /\ thread[s].up
    /\ thread[s].status # NoItem
    /\ daemonQ' = daemonQ
           \o <<Cmd("BroadcastSessionStatus", None, s, thread[s].status)>>
           \o (IF leave THEN Exited(s) ELSE <<>>)
    /\ Continue(s, leave, [thread[s] EXCEPT !.status = NoItem], subscribers[s],
                inbox[s])
    /\ UNCHANGED <<emitted, daemonVars, clientVars, writer, sink, owed>>

NextCommand(s, op) ==
    /\ Free(s)
    /\ inbox[s] # <<>>
    /\ Head(inbox[s]).op = op

\* handle_attach: subscribe, tell the daemon, send the snapshot (and Started
\* for an active request just before it).
HandleAttach(s) ==
    LET c == Head(inbox[s]).client IN
    /\ NextCommand(s, "Attach")
    /\ Continue(s, FALSE, thread[s], subscribers[s] \cup {c}, Tail(inbox[s]))
    /\ daemonQ' = Append(daemonQ, Cmd("TrackSessionSubscription", c, s, NoItem))
    /\ sink' = Enqueue(sink, {c}, Item("snapshot", s, emitted[s]))
    /\ UNCHANGED <<emitted, daemonVars, clientVars, writer, owed>>

\* Mutant: the daemon is not told of it.
HandleDetach_NoUntrack(s) ==
    LET R == subscribers[s] \ {Head(inbox[s]).client} IN
    /\ NextCommand(s, "Detach")
    /\ Continue(s, LeavesWith(s, R), thread[s], R, Tail(inbox[s]))
    /\ daemonQ' = daemonQ \o (IF LeavesWith(s, R) THEN Exited(s) ELSE <<>>)
    /\ UNCHANGED <<emitted, daemonVars, clientVars, writer, sink, owed>>
HandleDetach(s) ==
    LET c == Head(inbox[s]).client
        R == subscribers[s] \ {c}
    IN
    /\ NextCommand(s, "Detach")
    /\ Continue(s, LeavesWith(s, R), thread[s], R, Tail(inbox[s]))
    /\ daemonQ' = daemonQ \o <<Cmd("UntrackSessionSubscription", c, s, NoItem)>>
                     \o (IF LeavesWith(s, R) THEN Exited(s) ELSE <<>>)
    /\ UNCHANGED <<emitted, daemonVars, clientVars, writer, sink, owed>>

HandleRemoveSubscriber(s) ==
    LET R == subscribers[s] \ {Head(inbox[s]).client} IN
    /\ NextCommand(s, "RemoveSubscriber")
    /\ Continue(s, LeavesWith(s, R), thread[s], R, Tail(inbox[s]))
    /\ daemonQ' = daemonQ \o (IF LeavesWith(s, R) THEN Exited(s) ELSE <<>>)
    /\ UNCHANGED <<emitted, daemonVars, clientVars, writer, sink, owed>>

\* handle_shutdown: cancel the active request, which then ends the thread, or
\* exit at once.
HandleShutdown(s) ==
    /\ NextCommand(s, "Shutdown")
    /\ IF thread[s].busy
       THEN /\ Broadcast(s, "event")
            /\ Continue(s, FALSE, [thread[s] EXCEPT !.stop = TRUE], Pruned(s),
                        Tail(inbox[s]))
       ELSE /\ Continue(s, TRUE, thread[s], {}, <<>>)
            /\ daemonQ' = daemonQ \o Exited(s)
            /\ UNCHANGED <<emitted, sink, owed>>
    /\ UNCHANGED <<daemonVars, clientVars, writer>>

-----------------------------------------------------------------------------
(* The daemon's command loop *)

Dequeue(op) ==
    /\ daemonQ # <<>>
    /\ Head(daemonQ).op = op
    /\ daemonQ' = Tail(daemonQ)

Received == Head(daemonQ)

\* What was promised to a client ends with its subscription.
Forgive(E) == {o \in owed : o[1] \notin E}

\* The clients E leave every map, A and S being what is left of the activity
\* and summary maps; the sessions they are tracked for are told to drop them
\* (remove_client_from_sessions).
Drop(E, A, S) ==
    /\ activity' = A \ E
    /\ summary' = S \ E
    /\ writers' = writers \ E
    /\ tracked' = {p \in tracked : p[1] \notin E}
    /\ inbox' = [s \in Sessions |->
                    IF s \in active /\ thread[s].up
                    THEN inbox[s] \o SetToSeq({Cmd("RemoveSubscriber", c, s, NoItem) :
                                        c \in {d \in E : <<d, s>> \in tracked}})
                    ELSE inbox[s]]
    /\ owed' = Forgive(E)

\* handle_evict_client for the clients E, after sk was enqueued.
Evict(E, sk, A, S) ==
    /\ sink' = Enqueue(sk, E, Item("evicted", None, 0))
    /\ Drop(E, A, S)

\* One fan-out of the daemon over the recipients R, with the evictions it ends
\* in: any of the over-lag recipients, and one more if over budget.
Victims(R) ==
    {E \in SUBSET (writers \cap Slow) :
        \/ E = {}
        \/ /\ \E c \in R \cap Slow : writer[c] = "run"
           /\ Cardinality(E \ R) <= 1}

\* handle_broadcast_activity: attached clients get the event from the session.
\* Mutant: the subscribers of the session are not left out.
ActivityRecipients_All(s) == activity
ActivityRecipients(s) == {c \in activity : <<c, s>> \notin tracked}

HandleBroadcastActivity ==
    LET R == ActivityRecipients(Received.session) IN
    /\ Dequeue("BroadcastActivity")
    /\ \E E \in Victims(R) :
          Evict(E, Enqueue(sink, R, Received.msg), activity \ Gone(R), summary)
    /\ UNCHANGED <<active, thread, subscribers, emitted, clientVars, writer>>

\* handle_broadcast_session_status: the summary bus serves those that neither
\* of the other paths does.
StatusRecipients(s) ==
    {c \in summary \ activity : <<c, s>> \notin tracked}

HandleBroadcastSessionStatus ==
    LET R == StatusRecipients(Received.session) IN
    /\ Dequeue("BroadcastSessionStatus")
    /\ \E E \in Victims(R) :
          Evict(E, Enqueue(sink, R, Received.msg), activity, summary \ Gone(R))
    /\ UNCHANGED <<active, thread, subscribers, emitted, clientVars, writer>>

\* handle_session_exited: the entry goes, and broadcast() tells both buses.
HandleSessionExited ==
    LET R == activity \cup summary IN
    /\ Dequeue("SessionExited")
    /\ active' = active \ {Received.session}
    /\ \E E \in Victims(R) :
          Evict(E, sink, activity \ Gone(R), summary \ Gone(R))
    /\ UNCHANGED <<thread, subscribers, emitted, clientVars, writer>>

HandleEvictClient ==
    /\ Dequeue("EvictClient")
    /\ Evict({Received.client} \cap writers, sink, activity, summary)
    /\ UNCHANGED <<active, thread, subscribers, emitted, clientVars, writer>>

\* handle_evict_largest_lagging: some connected client, if any has a backlog.
HandleEvictLargestLagging ==
    /\ Dequeue("EvictLargestLagging")
    /\ \E E \in {{}} \cup {{c} : c \in writers \cap Slow} :
          Evict(E, sink, activity, summary)
    /\ UNCHANGED <<active, thread, subscribers, emitted, clientVars, writer>>

HandleTrack ==
    /\ Dequeue("TrackSessionSubscription")
    /\ tracked' = tracked \cup {<<Received.client, Received.session>>}
    /\ UNCHANGED <<active, activity, summary, writers, sessionVars, clientVars,
                   writer, sink, owed>>

HandleUntrack ==
    /\ Dequeue("UntrackSessionSubscription")
    /\ tracked' = tracked \ {<<Received.client, Received.session>>}
    /\ UNCHANGED <<active, activity, summary, writers, sessionVars, clientVars,
                   writer, sink, owed>>

HandleRegisterClientWriter ==
    /\ Dequeue("RegisterClientWriter")
    /\ writers' = writers \cup {Received.client}
    /\ UNCHANGED <<active, activity, summary, tracked, sessionVars, clientVars,
                   writer, sink, owed>>

\* handle_register_activity_subscriber; the catalog and lock state it greets
\* the client with are no events of a session.
HandleRegisterActivity ==
    /\ Dequeue("RegisterActivitySubscriber")
    /\ activity' = activity \cup {Received.client}
    /\ UNCHANGED <<active, summary, writers, tracked, sessionVars, clientVars,
                   writer, sink, owed>>

HandleUnregisterActivity ==
    /\ Dequeue("UnregisterActivitySubscriber")
    /\ activity' = activity \ {Received.client}
    /\ owed' = Forgive({Received.client})
    /\ UNCHANGED <<active, summary, writers, tracked, sessionVars, clientVars,
                   writer, sink>>

HandleRegisterSummary ==
    /\ Dequeue("RegisterSummarySubscriber")
    /\ summary' = summary \cup {Received.client}
    /\ UNCHANGED <<active, activity, writers, tracked, sessionVars, clientVars,
                   writer, sink, owed>>

HandleUnregisterSummary ==
    /\ Dequeue("UnregisterSummarySubscriber")
    /\ summary' = summary \ {Received.client}
    /\ UNCHANGED <<active, activity, writers, tracked, sessionVars, clientVars,
                   writer, sink, owed>>

\* handle_client_disconnected: an eviction without the advisory.
HandleClientDisconnected ==
    /\ Dequeue("ClientDisconnected")
    /\ Drop({Received.client}, activity, summary)
    /\ UNCHANGED <<active, thread, subscribers, emitted, clientVars, writer, sink>>

\* handle_attach_session: reply with the channel of the active entry, or
\* start a thread for the stored session.
HandleAttachSession ==
    LET c == Received.client
        s == Received.session
        g == IF s \in active THEN thread[s].gen ELSE thread[s].gen + 1
    IN
    /\ Dequeue("AttachSession")
    /\ g <= MaxGen
    /\ active' = active \cup {s}
    /\ thread' = [thread EXCEPT ![s] =
                    IF s \in active THEN @
                    ELSE Fresh(g)]
    /\ awaiting' = [awaiting EXCEPT ![c] = [session |-> s, gen |-> g]]
    /\ UNCHANGED <<activity, summary, writers, tracked, inbox, subscribers,
                   emitted, conn, attached, ops, writer, sink, owed>>

\* The SessionExited of the parent is handled: cancel_and_shutdown_child.
ParentExits(s) ==
    /\ s \in Orphanable \cap active
    /\ thread[s].up
    /\ ~\E i \in 1..Len(inbox[s]) : inbox[s][i].op = "Shutdown"
    /\ ~thread[s].stop
    /\ inbox' = [inbox EXCEPT ![s] = Append(@, Cmd("Shutdown", None, s, NoItem))]
    /\ UNCHANGED <<daemonQ, daemonVars, thread, subscribers, emitted,
                   clientVars, writer, sink, owed>>

-----------------------------------------------------------------------------
(* The connection and writer threads of a client *)

Ask(cmd) == daemonQ' = Append(daemonQ, cmd)

\* register_client_writer, in the acceptor.
Connect(c) ==
    /\ conn[c] = "new"
    /\ conn' = [conn EXCEPT ![c] = "open"]
    /\ Ask(Cmd("RegisterClientWriter", c, None, NoItem))
    /\ UNCHANGED <<daemonVars, sessionVars, awaiting, attached, ops, writer,
                   sink, owed>>

Ready(c) == conn[c] = "open" /\ awaiting[c] = NoTx

\* dispatch_client_message for the four subscription messages.
Subscribe(c, op) ==
    /\ Ready(c)
    /\ ops[c] < MaxOps
    /\ Unhurried
    /\ ops' = [ops EXCEPT ![c] = @ + 1]
    /\ Ask(Cmd(op, c, None, NoItem))
    /\ UNCHANGED <<daemonVars, sessionVars, conn, awaiting, attached, writer,
                   sink, owed>>

\* handle_client_attach_session up to the blocking receive of the reply.
AskAttach(c, s) ==
    /\ Ready(c)
    /\ ops[c] < MaxOps
    /\ Unhurried
    /\ ops' = [ops EXCEPT ![c] = @ + 1]
    /\ awaiting' = [awaiting EXCEPT ![c] = [session |-> s, gen |-> 0]]
    /\ Ask(Cmd("AttachSession", c, s, NoItem))
    /\ UNCHANGED <<daemonVars, sessionVars, conn, attached, writer, sink, owed>>

\* ... and from the reply on: SessionAttached, then switch_attached_session,
\* which detaches from another session but not from the same one.
Detaches(c, s) == attached[c] # NoTx /\ attached[c].session # s

FinishAttach(c) ==
    LET tx == awaiting[c] IN
    /\ tx.gen # 0
    /\ inbox' = [s \in Sessions |->
            inbox[s]
            \o (IF Detaches(c, tx.session) /\ Reaches(attached[c], s)
                THEN <<Cmd("Detach", c, s, NoItem)>> ELSE <<>>)
            \o (IF Reaches(tx, s)
                THEN <<Cmd("Attach", c, s, NoItem)>> ELSE <<>>)]
    /\ attached' = [attached EXCEPT ![c] = tx]
    /\ awaiting' = [awaiting EXCEPT ![c] = NoTx]
    /\ UNCHANGED <<daemonQ, daemonVars, thread, subscribers, emitted, conn, ops,
                   writer, sink, owed>>

\* cleanup_client: the client went away, or the writer shut the socket down.
\* Mutant: the session is not told.
Cleanup_NoDetach(c) ==
    /\ Ready(c)
    /\ conn' = [conn EXCEPT ![c] = "closed"]
    /\ Ask(Cmd("ClientDisconnected", c, None, NoItem))
    /\ UNCHANGED <<daemonVars, sessionVars, awaiting, attached, ops, writer,
                   sink, owed>>
Cleanup(c) ==
    /\ Ready(c)
    /\ conn' = [conn EXCEPT ![c] = "closed"]
    /\ inbox' = [s \in Sessions |->
                    IF Reaches(attached[c], s)
                    THEN Append(inbox[s], Cmd("Detach", c, s, NoItem))
                    ELSE inbox[s]]
    /\ Ask(Cmd("ClientDisconnected", c, None, NoItem))
    /\ UNCHANGED <<daemonVars, thread, subscribers, emitted, awaiting, attached,
                   ops, writer, sink, owed>>

\* The writer thread ends: a failed or timed-out socket write, or an advisory
\* that closes the connection.
WriterStops(c) ==
    /\ c \in Slow
    /\ conn[c] # "new"
    /\ writer[c] = "run"
    /\ writer' = [writer EXCEPT ![c] = "gone"]
    /\ UNCHANGED <<daemonQ, daemonVars, sessionVars, clientVars, sink, owed>>

-----------------------------------------------------------------------------
SessionBroadcasts(s) ==
    \/ SessionEvent(s)
    \/ RunInput(s)
    \/ StatusChanged(s)

HandleInbox(s) ==
    \/ ForwardStatus(s)
    \/ HandleAttach(s)
    \/ HandleDetach(s)
    \/ HandleRemoveSubscriber(s)
    \/ HandleShutdown(s)

HandleCommand ==
    \/ HandleBroadcastActivity
    \/ HandleBroadcastSessionStatus
    \/ HandleSessionExited
    \/ HandleEvictClient
    \/ HandleEvictLargestLagging
    \/ HandleTrack
    \/ HandleUntrack
    \/ HandleRegisterClientWriter
    \/ HandleRegisterActivity
    \/ HandleUnregisterActivity
    \/ HandleRegisterSummary
    \/ HandleUnregisterSummary
    \/ HandleClientDisconnected
    \/ HandleAttachSession

ClientStep(c) ==
    \/ Connect(c)
    \/ \E op \in Requests : Subscribe(c, op)
    \/ \E s \in Sessions : AskAttach(c, s)
    \/ FinishAttach(c)
    \/ Cleanup(c)
    \/ WriterStops(c)

Next ==
    \/ HandleCommand
    \/ \E s \in Sessions : SessionBroadcasts(s) \/ HandleInbox(s) \/ ParentExits(s)
    \/ \E c \in Clients : ClientStep(c)

Spec == Init /\ [][Next]_vars

\* The command loop and the session threads drain their channels; a
\* connection thread whose reply has come goes on.
Fairness ==
    /\ WF_vars(HandleCommand)
    /\ \A s \in Sessions : WF_vars(HandleInbox(s))
    /\ \A c \in Clients : WF_vars(FinishAttach(c))

FairSpec == Spec /\ Fairness

-----------------------------------------------------------------------------
(* Properties *)

Tx == [session: Sessions \cup {None}, gen: 0..MaxGen]
Items == [kind: {"none", "event", "status", "snapshot", "evicted"},
          session: Sessions \cup {None}, n: Nat]

\* Types; every map of the daemon is keyed by clients, not by sessions or by
\* the None of a command that names no client.
TypeOK ==
    /\ daemonQ \in Seq([op: STRING, client: Clients \cup {None},
                        session: Sessions \cup {None}, msg: Items])
    /\ active \subseteq Sessions
    /\ activity \subseteq Clients
    /\ summary \subseteq Clients
    /\ writers \subseteq Clients
    /\ tracked \subseteq Clients \X Sessions
    /\ thread \in [Sessions -> [gen: 0..MaxGen, up: BOOLEAN, busy: BOOLEAN,
                                stop: BOOLEAN, status: Items]]
    /\ inbox \in [Sessions -> Seq([op: STRING, client: Clients \cup {None},
                                   session: Sessions, msg: {NoItem}])]
    /\ subscribers \in [Sessions -> SUBSET Clients]
    /\ emitted \in [Sessions -> Nat]
    /\ conn \in [Clients -> {"new", "open", "closed"}]
    /\ awaiting \in [Clients -> Tx]
    /\ attached \in [Clients -> Tx]
    /\ ops \in [Clients -> 0..MaxOps]
    /\ writer \in [Clients -> {"run", "gone"}]
    /\ sink \in [Clients -> Seq(Items)]
    /\ owed \subseteq Clients \X Sessions \X Nat

Notices(c) == {i \in 1..Len(sink[c]) : sink[c][i].kind = "evicted"}
Evicted(c) == Notices(c) # {}

\* What the client reads: its writer stops at an eviction notice.
Seen(c) == IF Evicted(c) THEN SubSeq(sink[c], 1, Min(Notices(c))) ELSE sink[c]

\* The positions at which event n of session s of the given kinds is seen.
Copies(c, s, n, kinds) ==
    {i \in 1..Len(Seen(c)) :
        /\ Seen(c)[i].kind \in kinds
        /\ Seen(c)[i].session = s
        /\ Seen(c)[i].n = n}

\* No client reads an event twice, however its attachments, subscriptions and
\* evictions interleave with the three paths (the duplicate suppression of
\* handle_broadcast_activity against handle_attach and handle_detach).
AtMostOnce ==
    \A c \in Clients, s \in Sessions : \A n \in 1..emitted[s] :
        Cardinality(Copies(c, s, n, {"event"})) <= 1

Forwarded(s, n) ==
    \E i \in 1..Len(daemonQ) : /\ daemonQ[i].op = "BroadcastActivity"
                               /\ daemonQ[i].msg.session = s
                               /\ daemonQ[i].msg.n = n

ReachedOrForwarded(o) ==
    \/ writer[o[1]] = "gone" \/ Evicted(o[1])
    \/ Forwarded(o[2], o[3])
    \/ \E i \in 1..Len(sink[o[1]]) :
          /\ sink[o[1]][i].kind \in {"event", "status"}
          /\ sink[o[1]][i].session = o[2]
          /\ sink[o[1]][i].n = o[3]

\* An event broadcast while a client was subscribed to all activity, or was
\* attached, reaches that client unless it unsubscribes or is evicted ("the
\* daemon NEVER drops a broadcast message"), in the sessions that no parent
\* shuts down.
NoLoss == \A o \in owed : o[2] \notin Orphanable => ReachedOrForwarded(o)

\* ... and in the others too.
NoLossEver == \A o \in owed : ReachedOrForwarded(o)

\* An attached client has the whole session: its last snapshot and, after it,
\* every later event exactly once (handle_attach takes the snapshot and
\* subscribes in one step of the session thread).
AttachedViewComplete ==
    \A s \in Sessions : \A c \in subscribers[s] :
        LET log == sink[c]
            snaps == {i \in 1..Len(log) : log[i].kind = "snapshot" /\ log[i].session = s}
        IN
        (writer[c] = "run" /\ c \in writers) =>
            /\ snaps # {}
            /\ \A n \in (log[Max(snaps)].n + 1)..emitted[s] :
                  Cardinality({i \in Max(snaps)..Len(log) :
                      /\ log[i].kind \in {"event", "status"}
                      /\ log[i].session = s
                      /\ log[i].n = n}) = 1

Known(c) ==
    \/ c \in activity \cup summary \cup writers
    \/ \E s \in Sessions : <<c, s>> \in tracked \/ c \in subscribers[s]

\* A client that disconnected is eventually forgotten everywhere and for good,
\* whatever commands about it were still under way (cleanup_client,
\* handle_client_disconnected, "so stale entries don't accumulate").
DisconnectedIsForgotten ==
    \A c \in Clients : conn[c] = "closed" ~> [](~Known(c))

\* The events of a session reach a client in the order they were broadcast
\* ("in-order (channels are FIFO)").
InOrder ==
    \A c \in Clients : \A i, j \in 1..Len(Seen(c)) :
        (/\ i < j
         /\ Seen(c)[i].kind \in {"event", "status"}
         /\ Seen(c)[j].kind \in {"event", "status"}
         /\ Seen(c)[i].session = Seen(c)[j].session)
        => Seen(c)[i].n <= Seen(c)[j].n

\* No client reads the same status change twice ("so every client receives
\* `SessionStatusChanged` exactly once").
StatusAtMostOnce ==
    \A c \in Clients, s \in Sessions : \A n \in 1..emitted[s] :
        Cardinality(Copies(c, s, n, {"status"})) <= 1

\* A client that is told it is attached gets the snapshot of the session,
\* unless it moves on ("with lossless unbounded channels they are GUARANTEED
\* to arrive").
SnapshotArrives ==
    \A c \in Clients, s \in Sessions :
        (conn[c] = "open" /\ attached[c].session = s) ~>
            \/ conn[c] = "closed"
            \/ attached[c].session # s
            \/ writer[c] = "gone"
            \/ \E i \in 1..Len(sink[c]) :
                  sink[c][i].kind = "snapshot" /\ sink[c][i].session = s

=============================================================================
