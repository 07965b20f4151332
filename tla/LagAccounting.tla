--------------------------- MODULE LagAccounting ---------------------------
(***************************************************************************)
(* The byte counters behind lag eviction: broadcast.rs (SubscriberSink),   *)
(* the fan-outs of session threads and of the daemon command loop, the     *)
(* evictions of daemon/subscriber_handlers.rs and the writer and reader of *)
(* a connection (server/connection.rs).  A send is four shared-memory      *)
(* steps (count daemon-wide, count per client, send, undo both when the    *)
(* receiver is gone) and so is a dequeue; the actors interleave between    *)
(* any two of them.                                                        *)
(***************************************************************************)
EXTENDS Integers, Sequences, FiniteSets, SequencesExt, FiniteSetsExt

CONSTANTS
    Clients,
    SessionThreads,
    Cap,           \* LagLimits.per_client_cap
    Budget,        \* LagLimits.global_budget
    MaxBroadcasts, \* broadcasts of a session thread
    MaxReplies     \* replies of a connection thread

ASSUME LagAssumption ==
    /\ Cap \in Nat /\ Budget \in Nat
    /\ MaxBroadcasts \in Nat /\ MaxReplies \in Nat
    /\ SessionThreads \cap Clients = {}
    /\ "daemon" \notin SessionThreads \cup Clients

\* A connection thread that sends a reply goes by its client's name.
Producers == SessionThreads \cup Clients \cup {"daemon"}

VARIABLES
    globalLag,   \* the daemon-wide counter
    bytes,       \* client -> bytes_in_flight
    queue,       \* client -> its writer channel
    writer,      \* client -> its writer thread
    socket,      \* client -> open, stuck (open but never read again), closed
    reader,      \* client -> whether its connection thread still runs
    shown,       \* client -> the last message written: none, data, evicted
    subscribers, \* session thread -> the clients in its map
    activity,    \* activity_subscribers
    tracked,     \* client_subscribed_sessions
    writers,     \* client_writers
    prod,        \* producer -> what it is sending
    commands,    \* the daemon's command queue
    inbox,       \* session thread -> RemoveSubscriber commands
    said,        \* producer -> broadcasts or replies so far
    leaked       \* client -> bytes sent in the writer's exit window

lagVars == <<globalLag, bytes, queue, writer, socket, reader, shown,
             subscribers, activity, tracked, writers, prod, commands, inbox,
             said, leaked>>

Data == [size |-> 1, last |-> FALSE]
Evicted == [size |-> 1, last |-> TRUE]
Quiet == [pc |-> "idle", msg |-> Data, todo |-> {}, at |-> "none",
          mine |-> 0, total |-> 0, evict |-> {}, largest |-> FALSE]

LagInit ==
    /\ globalLag = 0
    /\ leaked = [c \in Clients |-> 0]
    /\ bytes = [c \in Clients |-> 0]
    /\ queue = [c \in Clients |-> <<>>]
    /\ writer = [c \in Clients |-> [pc |-> "idle", msg |-> Data,
                                    stop |-> FALSE]]
    /\ socket = [c \in Clients |-> "open"]
    /\ reader = [c \in Clients |-> TRUE]
    /\ shown = [c \in Clients |-> "none"]
    /\ \E on \in [Clients -> SUBSET SessionThreads] :
          /\ tracked = on
          /\ subscribers = [s \in SessionThreads |->
                               {c \in Clients : s \in on[c]}]
    /\ activity = Clients
    /\ writers = Clients
    /\ prod = [p \in Producers |-> Quiet]
    /\ commands = <<>>
    /\ inbox = [s \in SessionThreads |-> {}]
    /\ said = [p \in Producers |-> 0]

------------------------------------------------------------------------------
(* SubscriberSink::send_accounted *)

Alive(c) == writer[c].pc # "gone"
Free(p) == prod[p].pc = "idle" /\ prod[p].todo = {}
connVars == <<writer, socket, reader, shown>>
mapVars == <<subscribers, activity, tracked, writers>>

CountGlobal(p, c) ==
    /\ prod[p].pc = "idle" /\ c \in prod[p].todo
    /\ globalLag' = globalLag + prod[p].msg.size
    /\ prod' = [prod EXCEPT ![p].pc = "counted", ![p].at = c,
                            ![p].todo = @ \ {c},
                            ![p].total = globalLag + prod[p].msg.size]
    /\ UNCHANGED <<bytes, queue, connVars, mapVars, commands, inbox, said,
                   leaked>>

CountClient(p) ==
    LET c == prod[p].at IN
    /\ prod[p].pc = "counted"
    /\ bytes' = [bytes EXCEPT ![c] = @ + prod[p].msg.size]
    /\ prod' = [prod EXCEPT ![p].pc = "charged",
                            ![p].mine = bytes[c] + prod[p].msg.size]
    /\ UNCHANGED <<globalLag, queue, connVars, mapVars, commands, inbox,
                   said, leaked>>

\* Replies and advisories go out unchecked; a broadcast is classified.
Checked(p) == p \notin Clients /\ ~prod[p].msg.last
OverLag(p) == Checked(p) /\ prod[p].mine > Cap
OverBudget(p) == Checked(p) /\ ~OverLag(p) /\ prod[p].total > Budget

\* remove_client_from_sessions
ToldSessions(c) == tracked[c]

\* handle_evict_client after its advisory: the client leaves every map.
RemoveClient(c) ==
    /\ activity' = activity \ {c}
    /\ writers' = writers \ {c}
    /\ tracked' = [tracked EXCEPT ![c] = {}]
    /\ inbox' = [s \in SessionThreads |->
                    IF s \in ToldSessions(c) THEN inbox[s] \cup {c} ELSE inbox[s]]
    /\ UNCHANGED subscribers

\* The end of one send; the daemon's eviction goes on to drop the client.
Leave(p, c) ==
    IF prod[p].msg.last
    THEN RemoveClient(c)
    ELSE UNCHANGED <<mapVars, inbox>>

\* The locals of one send go out of scope.
Sent(p) == [Quiet EXCEPT !.todo = prod[p].todo, !.evict = prod[p].evict,
                         !.largest = prod[p].largest]

\* A message sent after the writer's last drain pass is never dequeued.
Send(p) ==
    LET c == prod[p].at IN
    /\ prod[p].pc = "charged" /\ Alive(c)
    /\ IF writer[c].pc = "window"
       THEN /\ leaked' = [leaked EXCEPT ![c] = @ + prod[p].msg.size]
            /\ UNCHANGED queue
       ELSE /\ queue' = [queue EXCEPT ![c] = Append(@, prod[p].msg)]
            /\ UNCHANGED leaked
    /\ prod' = [prod EXCEPT
                  ![p] = Sent(p),
                  ![p].evict = IF OverLag(p) THEN @ \cup {c} ELSE @,
                  ![p].largest = @ \/ OverBudget(p)]
    /\ Leave(p, c)
    /\ UNCHANGED <<globalLag, bytes, connVars, commands, said>>

Refunded(p) == prod[p].msg.size

\* The receiver is gone: both counters are restored, the sink is dropped.
SendFails(p) ==
    LET c == prod[p].at IN
    /\ prod[p].pc = "charged" /\ ~Alive(c)
    /\ bytes' = [bytes EXCEPT ![c] = @ - Refunded(p)]
    /\ prod' = [prod EXCEPT ![p].pc = "refund"]
    /\ UNCHANGED <<globalLag, queue, connVars, mapVars, commands, inbox,
                   said, leaked>>

RefundGlobal(p) ==
    LET c == prod[p].at IN
    /\ prod[p].pc = "refund"
    /\ globalLag' = globalLag - Refunded(p)
    /\ prod' = [prod EXCEPT ![p] = Sent(p)]
    /\ IF prod[p].msg.last
       THEN RemoveClient(c)
       ELSE /\ subscribers' = IF p \in SessionThreads
                              THEN [subscribers EXCEPT ![p] = @ \ {c}]
                              ELSE subscribers
            /\ activity' = IF p = "daemon" THEN activity \ {c} ELSE activity
            /\ UNCHANGED <<tracked, writers, inbox>>
    /\ UNCHANGED <<bytes, queue, connVars, commands, said, leaked>>

------------------------------------------------------------------------------
(* The producers: session threads, connection threads, the daemon loop.    *)

\* sessions.rs broadcast: the forward to the daemon, then the own map.
Broadcast(s) ==
    /\ Free(s) /\ said[s] < MaxBroadcasts
    /\ prod[s].evict = {} /\ ~prod[s].largest
    /\ said' = [said EXCEPT ![s] = @ + 1]
    /\ commands' = Append(commands, <<"activity", s>>)
    /\ prod' = [prod EXCEPT ![s].todo = subscribers[s]]
    /\ UNCHANGED <<globalLag, bytes, queue, connVars, mapVars, inbox, leaked>>

\* The session thread reports the clients its fan-out found lagging.
Report(s) ==
    /\ Free(s) /\ (prod[s].evict # {} \/ prod[s].largest)
    /\ commands' = commands
                   \o SetToSeq({<<"evict", c>> : c \in prod[s].evict})
                   \o IF prod[s].largest THEN <<<<"largest", s>>>> ELSE <<>>
    /\ prod' = [prod EXCEPT ![s] = Quiet]
    /\ UNCHANGED <<globalLag, bytes, queue, connVars, mapVars, inbox, said,
                   leaked>>

HandleRemoveSubscriber(s, c) ==
    /\ Free(s) /\ c \in inbox[s]
    /\ inbox' = [inbox EXCEPT ![s] = @ \ {c}]
    /\ subscribers' = [subscribers EXCEPT ![s] = @ \ {c}]
    /\ UNCHANGED <<globalLag, bytes, queue, connVars, activity, tracked,
                   writers, prod, commands, said, leaked>>

\* send_to_writer
Reply(c) ==
    /\ reader[c] /\ socket[c] # "closed"
    /\ Free(c) /\ said[c] < MaxReplies
    /\ said' = [said EXCEPT ![c] = @ + 1]
    /\ prod' = [prod EXCEPT ![c].todo = {c}]
    /\ UNCHANGED <<globalLag, bytes, queue, connVars, mapVars, commands,
                   inbox, leaked>>

DaemonIdle == /\ Free("daemon")
              /\ prod["daemon"].evict = {} /\ ~prod["daemon"].largest

\* The daemon loop takes its next command.
HandleCommand ==
    /\ DaemonIdle /\ commands # <<>>
    /\ commands' = Tail(commands)
    /\ LET kind == Head(commands)[1]
           who == Head(commands)[2]
       IN  /\ prod' = [prod EXCEPT !["daemon"] =
                 CASE kind = "activity" ->
                        [Quiet EXCEPT !.todo =
                            {c \in activity : who \notin tracked[c]}]
                   [] kind = "evict" -> [Quiet EXCEPT !.evict = {who}]
                   [] kind = "largest" -> [Quiet EXCEPT !.largest = TRUE]
                   [] kind = "disconnected" -> Quiet]
           /\ IF kind = "disconnected"
              THEN RemoveClient(who)
              ELSE UNCHANGED <<mapVars, inbox>>
    /\ UNCHANGED <<globalLag, bytes, queue, connVars, said, leaked>>

\* Mutant: a client that still writes is taken for an unknown one.
Known_Lost(c) == c \in writers /\ queue[c] = <<>>
Known(c) == c \in writers

\* handle_evict_client: idempotent, and the advisory goes first.
HandleEvictClient(c) ==
    /\ Free("daemon") /\ c \in prod["daemon"].evict
    /\ prod' = [prod EXCEPT
                  !["daemon"].evict = @ \ {c},
                  !["daemon"].msg = Evicted,
                  !["daemon"].todo = IF Known(c) THEN {c} ELSE {}]
    /\ UNCHANGED <<globalLag, bytes, queue, connVars, mapVars, commands,
                   inbox, said, leaked>>

\* The scan of the counters is taken at one instant.
Largest == {c \in writers : /\ bytes[c] > 0
                            /\ \A d \in writers : bytes[d] <= bytes[c]}

HandleEvictLargestLagging ==
    /\ Free("daemon") /\ prod["daemon"].evict = {} /\ prod["daemon"].largest
    /\ \E e \in IF Largest = {} THEN {{}} ELSE {{c} : c \in Largest} :
          prod' = [prod EXCEPT !["daemon"].evict = e,
                               !["daemon"].largest = FALSE]
    /\ UNCHANGED <<globalLag, bytes, queue, connVars, mapVars, commands,
                   inbox, said, leaked>>

------------------------------------------------------------------------------
(* writer_thread, the reader and the client at the other end               *)

prodVars == <<subscribers, activity, tracked, writers, prod, commands, inbox,
              said>>

\* One message leaves the queue: written, or dropped by the final drain.
Dequeue(c, stop) ==
    /\ queue[c] # <<>>
    /\ writer' = [writer EXCEPT ![c] = [pc |-> "uncharge",
                                        msg |-> Head(queue[c]),
                                        stop |-> stop]]
    /\ queue' = [queue EXCEPT ![c] = Tail(@)]
    /\ UNCHANGED <<globalLag, bytes, socket, reader, prodVars, leaked>>

\* Mutant: the writer closes after any message.
Closes_Any(msg) == TRUE
Closes(msg) == msg.last

Write(c) ==
    /\ writer[c].pc = "idle" /\ socket[c] = "open" /\ queue[c] # <<>>
    /\ Dequeue(c, Closes(Head(queue[c])))
    /\ shown' = [shown EXCEPT ![c] = IF Head(queue[c]).last THEN "evicted"
                                     ELSE "data"]

\* WRITER_WRITE_TIMEOUT on a client that does not read, or a broken pipe.
WriteFails(c) ==
    /\ writer[c].pc = "idle" /\ socket[c] # "open"
    /\ Dequeue(c, TRUE)
    /\ UNCHANGED shown

Drain(c) ==
    /\ writer[c].pc = "draining"
    /\ Dequeue(c, TRUE)
    /\ UNCHANGED shown

UnchargeClient(c) ==
    /\ writer[c].pc = "uncharge"
    /\ bytes' = [bytes EXCEPT ![c] = @ - writer[c].msg.size]
    /\ writer' = [writer EXCEPT ![c].pc = "unchargeGlobal"]
    /\ UNCHANGED <<globalLag, queue, socket, reader, shown, prodVars, leaked>>

UnchargeGlobal(c) ==
    /\ writer[c].pc = "unchargeGlobal"
    /\ globalLag' = globalLag - writer[c].msg.size
    /\ writer' = [writer EXCEPT ![c].pc = IF writer[c].stop THEN "draining"
                                          ELSE "idle",
                                ![c].msg = Data]
    /\ socket' = [socket EXCEPT ![c] = IF writer[c].stop THEN "closed" ELSE @]
    /\ UNCHANGED <<bytes, queue, reader, shown, prodVars, leaked>>

\* Mutant: the writer stops without draining its queue.
Drained_Skipped(c) == TRUE
Drained(c) == queue[c] = <<>>

\* The last pass of the drain; the receiver is dropped a moment later.
DrainEnds(c) ==
    /\ writer[c].pc = "draining" /\ Drained(c)
    /\ writer' = [writer EXCEPT ![c].pc = "window"]
    /\ UNCHANGED <<globalLag, bytes, queue, socket, reader, shown, prodVars,
                   leaked>>

DropReceiver(c) ==
    /\ writer[c].pc = "window"
    /\ writer' = [writer EXCEPT ![c].pc = "gone"]
    /\ queue' = [queue EXCEPT ![c] = <<>>]
    /\ UNCHANGED <<globalLag, bytes, socket, reader, shown, prodVars, leaked>>

\* Every sender was dropped: the channel closes and the loop ends.
SenderHeld(c) ==
    \/ reader[c] \/ c \in activity \cup writers
    \/ \E s \in SessionThreads : c \in subscribers[s]
    \/ \E p \in Producers : prod[p].at = c /\ prod[p].pc # "idle"
ChannelCloses(c) ==
    /\ writer[c].pc = "idle" /\ queue[c] = <<>> /\ ~SenderHeld(c)
    /\ writer' = [writer EXCEPT ![c].pc = "draining", ![c].stop = TRUE]
    /\ UNCHANGED <<globalLag, bytes, queue, socket, reader, shown, prodVars,
                   leaked>>

\* The client stops reading, or goes away.
ClientFails(c, how) ==
    /\ socket[c] = "open" /\ how \in {"stuck", "closed"}
    /\ socket' = [socket EXCEPT ![c] = how]
    /\ UNCHANGED <<globalLag, bytes, queue, writer, reader, shown, prodVars,
                   leaked>>

\* cleanup_client, once the reader sees the end of the stream
CleanupClient(c) ==
    /\ reader[c] /\ socket[c] = "closed" /\ Free(c)
    /\ reader' = [reader EXCEPT ![c] = FALSE]
    /\ commands' = Append(commands, <<"disconnected", c>>)
    /\ UNCHANGED <<globalLag, bytes, queue, writer, socket, shown,
                   subscribers, activity, tracked, writers, prod, inbox,
                   said, leaked>>

------------------------------------------------------------------------------
ProducerStep(p) ==
    \/ \E c \in Clients : CountGlobal(p, c)
    \/ CountClient(p)
    \/ Send(p)
    \/ SendFails(p)
    \/ RefundGlobal(p)

SessionStep(s) == Report(s) \/ \E c \in Clients : HandleRemoveSubscriber(s, c)

DaemonStep ==
    \/ HandleCommand
    \/ \E c \in Clients : HandleEvictClient(c)
    \/ HandleEvictLargestLagging

WriterStep(c) ==
    \/ Write(c)
    \/ WriteFails(c)
    \/ Drain(c)
    \/ UnchargeClient(c)
    \/ UnchargeGlobal(c)
    \/ DrainEnds(c)
    \/ DropReceiver(c)
    \/ ChannelCloses(c)

LagNext ==
    \/ \E p \in Producers : ProducerStep(p)
    \/ \E s \in SessionThreads : Broadcast(s) \/ SessionStep(s)
    \/ \E c \in Clients : \/ Reply(c)
                          \/ WriterStep(c)
                          \/ CleanupClient(c)
                          \/ \E how \in {"stuck", "closed"} :
                                ClientFails(c, how)
    \/ DaemonStep

\* Every thread runs; broadcasts, replies and failing clients are not owed.
LagFairness ==
    /\ \A p \in Producers : WF_lagVars(ProducerStep(p))
    /\ \A s \in SessionThreads : WF_lagVars(SessionStep(s))
    /\ \A c \in Clients : /\ WF_lagVars(WriterStep(c))
                          /\ WF_lagVars(CleanupClient(c))
    /\ WF_lagVars(DaemonStep)

LagSpec == LagInit /\ [][LagNext]_lagVars /\ LagFairness

------------------------------------------------------------------------------
(* Every counter has the value its actors account for, each variable its    *)
(* type: the type invariant.                                                *)
LagTypeOK ==
    /\ globalLag \in Nat
    /\ bytes \in [Clients -> Nat] /\ leaked \in [Clients -> Nat]
    /\ \A c \in Clients :
          /\ writer[c].pc \in {"idle", "uncharge", "unchargeGlobal",
                               "draining", "window", "gone"}
          /\ socket[c] \in {"open", "stuck", "closed"}
          /\ shown[c] \in {"none", "data", "evicted"}
    /\ reader \in [Clients -> BOOLEAN]
    /\ activity \subseteq Clients /\ writers \subseteq Clients
    /\ subscribers \in [SessionThreads -> SUBSET Clients]
    /\ tracked \in [Clients -> SUBSET SessionThreads]
    /\ inbox \in [SessionThreads -> SUBSET Clients]
    /\ \A p \in Producers :
          prod[p].pc \in {"idle", "counted", "charged", "refund"}

QueuedBytes(c) ==
    MapThenSumSet(LAMBDA i : queue[c][i].size, DOMAIN queue[c])

Held(c) == IF writer[c].pc = "uncharge"
           THEN writer[c].msg.size ELSE 0
Charging(c, steps) ==
    MapThenSumSet(LAMBDA p : prod[p].msg.size,
                  {p \in Producers : prod[p].at = c /\ prod[p].pc \in steps})

(* The counters are balanced at every instant: a client's counter is its    *)
(* queue, the message its writer holds, the sends in progress and what the  *)
(* exit window swallowed; the daemon-wide counter is the sum of those, with *)
(* the steps that lead or trail it.  So no dequeue ever underflows a        *)
(* counter, and the only bytes that stay counted for ever are those of the  *)
(* exit window (broadcast.rs, "The byte counters stay BALANCED").           *)
CountersBalanced ==
    /\ \A c \in Clients :
          bytes[c] = QueuedBytes(c) + Held(c) + Charging(c, {"charged"})
                     + leaked[c]
    /\ globalLag =
          MapThenSumSet(
            LAMBDA c : bytes[c] + Charging(c, {"counted", "refund"})
                       + (IF writer[c].pc = "unchargeGlobal"
                          THEN writer[c].msg.size ELSE 0),
            Clients)

(* A client that reads until the end sees Evicted before the end of the     *)
(* stream, and nothing after it: only its own writer closes the socket, and *)
(* it closes it right after that message (writer_thread).                   *)
ToldBeforeEof ==
    [][\A c \in Clients :
          socket[c] = "open" /\ socket'[c] = "closed" /\ writer'[c] # writer[c]
          => shown[c] = "evicted"]_lagVars

(* Every client a fan-out saw over its cap loses its connection: the report *)
(* reaches the daemon, the advisory is queued behind the backlog, and the   *)
(* writer goes away whether the client reads it or is stuck.                *)
LaggardReaped ==
    \A c \in Clients :
        (\E p \in SessionThreads \cup {"daemon"} : c \in prod[p].evict)
            ~> (writer[c].pc = "gone" /\ ~reader[c] /\ c \notin writers)

(* A session stops streaming to a client the daemon dropped: its map entry  *)
(* goes, by RemoveSubscriber or by the failed send.                         *)
SessionsLetGo ==
    \A c \in Clients :
        c \notin writers
            ~> \A s \in SessionThreads : c \notin subscribers[s]

(* The overshoot broadcast.rs states: producers exceed a client's cap by at *)
(* most one message before the eviction is processed.                       *)
OvershootOneMessage ==
    \A c \in Clients : c \in writers => bytes[c] <= Cap + Data.size
==============================================================================
