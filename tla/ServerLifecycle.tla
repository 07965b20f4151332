-------------------------- MODULE ServerLifecycle --------------------------
(***************************************************************************)
(* Accepting connections and shutting down: run_server (server/            *)
(* lifecycle.rs) with its two accept loops, the connection threads of      *)
(* server/connection.rs and the part of the command loop they talk to.     *)
(* The main thread accepts on the Unix socket, a second thread on TCP;     *)
(* each takes a connection slot, registers the writer channel and spawns   *)
(* the connection thread.  A signal raises the flag and wakes the main     *)
(* thread, which wakes and joins the TCP thread, has ShuttingDown sent to  *)
(* every registered writer, stops and joins the command loop and then      *)
(* joins the connection threads.  Each join has a deadline but the one of  *)
(* the command loop, whose own last wait, for the lock of an MCP client,   *)
(* has none either.                                                        *)
(***************************************************************************)
EXTENDS Integers, Sequences, FiniteSets

CONSTANTS
    UnixClients, TcpClients,
    MaxConnections,   \* MAX_CONCURRENT_CONNECTIONS
    Fragile,          \* connections whose client may break
    SetupMayFail      \* set_write_timeout or try_clone may fail

Conns == UnixClients \cup TcpClients
Acceptors == {"main", "tcp"}

ASSUME ServerAssumption ==
    /\ UnixClients \cap TcpClients = {}
    /\ MaxConnections \in Nat \ {0}
    /\ Fragile \subseteq Conns
    /\ SetupMayFail \in BOOLEAN

VARIABLES
    flag,       \* the shutdown flag
    woken,      \* the signal thread's connect to its own socket: no, yes, lost
    probed,     \* the main thread has tried to connect to the TCP socket
    acceptor,   \* acceptor -> where it is, and the connection in its hand
    stage,      \* the main thread after its accept loop
    conn,       \* connection -> where it is
    failing,    \* connections whose client does not read, or went away
    told,       \* connections whose client read ShuttingDown
    slots,      \* conn_count
    registry,   \* client_writers
    mail,       \* connections with ShuttingDown in their writer channel
    cmds,       \* the command queue
    loop,       \* the command loop: running, teardown, mcp, ended
    wedged,     \* a call that blocks has the lock of an MCP client
    lateAccept  \* the bounded join of the TCP accept thread was abandoned

serverVars == <<flag, woken, probed, acceptor, stage, conn, failing, told,
                slots, registry, mail, cmds, loop, wedged, lateAccept>>

\* out: not connected   backlog: in the listen queue   held: in an acceptor
\* handshake, setup, serving, ending: its thread runs
\* ended, aborted: its thread has returned   dropped: closed by an acceptor
Live == {c \in Conns : conn[c] \in {"handshake", "setup", "serving",
                                    "closing", "ending"}}
Loops == [at |-> "check", with |-> "nobody"]

ServerInit ==
    /\ flag = FALSE /\ woken = "no" /\ probed = FALSE
    /\ wedged = FALSE /\ lateAccept = FALSE
    /\ acceptor = [a \in Acceptors |-> Loops]
    /\ stage = "accepting"
    /\ conn = [c \in Conns |-> "out"]
    /\ failing = {} /\ told = {} /\ registry = {} /\ mail = {}
    /\ slots = 0
    /\ cmds = <<>>
    /\ loop = "running"

------------------------------------------------------------------------------
(* The clients and the signal *)

ClientConnects(c) ==
    /\ conn[c] = "out" /\ stage # "done"
    /\ conn' = [conn EXCEPT ![c] = "backlog"]
    /\ UNCHANGED <<flag, woken, probed, acceptor, stage, failing, told, slots,
                   registry, mail, cmds, loop, wedged, lateAccept>>

\* The client stops reading, or closes its end.
ClientBreaks(c) ==
    /\ conn[c] # "out" /\ c \in Fragile \ failing
    /\ failing' = failing \cup {c}
    /\ UNCHANGED <<flag, woken, probed, acceptor, stage, conn, told, slots,
                   registry, mail, cmds, loop, wedged, lateAccept>>

\* A later signal makes the thread connect again.
Signal ==
    /\ ~flag \/ woken = "lost"
    /\ flag' = TRUE
    /\ woken' = "no"
    /\ UNCHANGED <<probed, acceptor, stage, conn, failing, told, slots,
                   registry, mail, cmds, loop, wedged, lateAccept>>

\* The connect of the signal thread, whose failure is ignored
WakeMain ==
    /\ flag /\ woken = "no"
    /\ woken' \in {"yes", "lost"}
    /\ UNCHANGED <<flag, probed, acceptor, stage, conn, failing, told, slots,
                   registry, mail, cmds, loop, wedged, lateAccept>>

------------------------------------------------------------------------------
(* The accept loops *)

Mine(a) == IF a = "main" THEN UnixClients ELSE TcpClients
Goes(a, at, c) ==
    acceptor' = [acceptor EXCEPT ![a] = [at |-> at, with |-> c]]

CheckFlag(a) ==
    /\ acceptor[a].at = "check"
    /\ Goes(a, IF flag THEN "exited" ELSE "accept", "nobody")
    /\ UNCHANGED <<flag, woken, probed, stage, conn, failing, told, slots,
                   registry, mail, cmds, loop, wedged, lateAccept>>

\* The connection accept() returned is dropped when the flag is up by now.
Accept(a, c) ==
    /\ acceptor[a].at = "accept"
    /\ c \in Mine(a) /\ conn[c] = "backlog"
    /\ conn' = [conn EXCEPT ![c] = IF flag THEN "dropped" ELSE "held"]
    /\ IF flag THEN Goes(a, "exited", "nobody") ELSE Goes(a, "slot", c)
    /\ UNCHANGED <<flag, woken, probed, stage, failing, told, slots, registry,
                   mail, cmds, loop, wedged, lateAccept>>

\* accept() returns the daemon's own connection.
AcceptWakeup(a) ==
    /\ acceptor[a].at = "accept"
    /\ IF a = "main" THEN woken = "yes" ELSE probed
    /\ Goes(a, "exited", "nobody")
    /\ UNCHANGED <<flag, woken, probed, stage, conn, failing, told, slots,
                   registry, mail, cmds, loop, wedged, lateAccept>>

Full == slots >= MaxConnections

\* try_take_connection_slot: add first, undo at the cap
TakeSlot(a) ==
    /\ acceptor[a].at = "slot"
    /\ slots' = slots + 1
    /\ Goes(a, IF Full THEN "undo" ELSE "register", acceptor[a].with)
    /\ UNCHANGED <<flag, woken, probed, stage, conn, failing, told, registry,
                   mail, cmds, loop, wedged, lateAccept>>

UndoSlot(a) ==
    LET c == acceptor[a].with IN
    /\ acceptor[a].at = "undo"
    /\ slots' = slots - 1
    /\ conn' = [conn EXCEPT ![c] = "dropped"]
    /\ Goes(a, "check", "nobody")
    /\ UNCHANGED <<flag, woken, probed, stage, failing, told, registry, mail,
                   cmds, loop, wedged, lateAccept>>

\* register_client_writer, then the spawn
Register(a) ==
    LET c == acceptor[a].with IN
    /\ acceptor[a].at = "register"
    /\ cmds' = IF loop = "running" THEN Append(cmds, <<"register", c>>)
               ELSE cmds
    /\ conn' = [conn EXCEPT ![c] = IF c \in TcpClients THEN "handshake"
                                   ELSE "setup"]
    /\ Goes(a, "check", "nobody")
    /\ UNCHANGED <<flag, woken, probed, stage, failing, told, slots, registry,
                   mail, loop, wedged, lateAccept>>

------------------------------------------------------------------------------
(* The connection threads *)

Moves(c, from, to) == conn[c] = from /\ conn' = [conn EXCEPT ![c] = to]

\* ConnectionSlot::drop
Freed == slots - 1
\* ClientDisconnected, unless the command loop has gone
Disconnected(c) ==
    cmds' = IF loop = "running" THEN Append(cmds, <<"gone", c>>) ELSE cmds

HandshakeDone(c) ==
    /\ Moves(c, "handshake", "setup") /\ c \notin failing
    /\ UNCHANGED <<flag, woken, probed, acceptor, stage, failing, told, slots,
                   registry, mail, cmds, loop, wedged, lateAccept>>

\* Bad preamble, refused key, or HANDSHAKE_TIMEOUT: unregister and return.
HandshakeFails(c) ==
    /\ Moves(c, "handshake", "ended")
    /\ failing' = failing \cup {c}
    /\ Disconnected(c)
    /\ slots' = Freed
    /\ UNCHANGED <<flag, woken, probed, acceptor, stage, told, registry, mail,
                   loop, wedged, lateAccept>>

SetupDone(c) ==
    /\ Moves(c, "setup", "serving")
    /\ UNCHANGED <<flag, woken, probed, acceptor, stage, failing, told, slots,
                   registry, mail, cmds, loop, wedged, lateAccept>>

\* The early return on a failed socket option leaves the registration.
SetupFails(c) ==
    /\ SetupMayFail /\ c \in Fragile
    /\ Moves(c, "setup", "aborted")
    /\ failing' = failing \cup {c}
    /\ slots' = Freed
    /\ UNCHANGED <<flag, woken, probed, acceptor, stage, told, registry, mail,
                   cmds, loop, wedged, lateAccept>>

\* writer_thread writes ShuttingDown and closes the socket, also when the
\* reader has ended before it; a client that does not read costs
\* WRITER_WRITE_TIMEOUT.
WriteShuttingDown(c) ==
    /\ c \in mail /\ conn[c] \in {"serving", "ending"}
    /\ conn' = [conn EXCEPT ![c] = IF conn[c] = "serving" THEN "closing"
                                   ELSE "ending"]
    /\ mail' = mail \ {c}
    /\ told' = IF c \in failing THEN told ELSE told \cup {c}
    /\ UNCHANGED <<flag, woken, probed, acceptor, stage, failing, slots,
                   registry, cmds, loop, wedged, lateAccept>>

\* The reader sees the end of the stream, or its dispatch finds that the
\* command loop has gone: cleanup_client.
ReaderEnds(c) ==
    /\ \/ conn[c] = "closing"
       \/ conn[c] = "serving" /\ (c \in failing \/ loop = "ended")
    /\ conn' = [conn EXCEPT ![c] = "ending"]
    /\ Disconnected(c)
    /\ UNCHANGED <<flag, woken, probed, acceptor, stage, failing, told, slots,
                   registry, mail, loop, wedged, lateAccept>>

\* The writer has written what was queued, or its client does not read and
\* the bounded join gives up; the slot is dropped.
ThreadReturns(c) ==
    /\ c \notin mail \/ c \in failing
    /\ Moves(c, "ending", "ended")
    /\ slots' = Freed
    /\ UNCHANGED <<flag, woken, probed, acceptor, stage, failing, told,
                   registry, mail, cmds, loop, wedged, lateAccept>>

------------------------------------------------------------------------------
(* The command loop *)

\* handle_broadcast_shutting_down: the sinks whose receiver still lives
Notified == {c \in registry : conn[c] \notin {"ended", "aborted"}}

HandleCmd ==
    /\ loop = "running" /\ cmds # <<>>
    /\ cmds' = Tail(cmds)
    /\ LET kind == Head(cmds)[1]
           c == Head(cmds)[2]
       IN  \/ /\ kind = "register"
              /\ registry' = registry \cup {c}
              /\ UNCHANGED <<mail, loop>>
           \/ /\ kind = "gone"
              /\ registry' = registry \ {c}
              /\ UNCHANGED <<mail, loop>>
           \/ /\ kind = "broadcast"
              /\ mail' = mail \cup Notified
              /\ registry' = Notified
              /\ UNCHANGED loop
           \/ /\ kind = "shutdown"
              /\ loop' = "teardown"
              /\ UNCHANGED <<registry, mail>>
    /\ UNCHANGED <<flag, woken, probed, acceptor, stage, conn, failing, told,
                   slots, wedged, lateAccept>>

\* The sessions are told to end and joined with a grace period; those that
\* do not end in time are left behind.
SessionsJoined ==
    /\ loop = "teardown"
    /\ loop' = "mcp"
    /\ UNCHANGED <<flag, woken, probed, acceptor, stage, conn, failing, told,
                   slots, registry, mail, cmds, wedged, lateAccept>>

\* Of a session left behind: its call has the lock of an MCP client and
\* blocks writing to a server that does not read, until the server reads
\* or dies (McpClient, SendRequest).
CallBlocks ==
    /\ loop = "mcp"
    /\ wedged' = ~wedged
    /\ UNCHANGED <<flag, woken, probed, acceptor, stage, conn, failing, told,
                   slots, registry, mail, cmds, loop, lateAccept>>

\* shutdown_all has had the lock of every client and stopped its server; the
\* receiver of the commands is dropped.
ShutdownAll ==
    /\ loop = "mcp" /\ ~wedged
    /\ loop' = "ended"
    /\ cmds' = <<>>
    /\ UNCHANGED <<flag, woken, probed, acceptor, stage, conn, failing, told,
                   slots, registry, mail, wedged, lateAccept>>

------------------------------------------------------------------------------
(* run_server after the accept loop *)

\* The probe connect; its failure is ignored.
Probe ==
    /\ stage = "accepting" /\ acceptor["main"].at = "exited"
    /\ stage' = "joinAccept"
    /\ probed' \in BOOLEAN
    /\ UNCHANGED <<flag, woken, acceptor, conn, failing, told, slots,
                   registry, mail, cmds, loop, wedged, lateAccept>>

\* Mutant: the accept thread is not waited for.
AcceptJoined_Not == TRUE
AcceptJoined == acceptor["tcp"].at = "exited"

\* Mutant: the join has no deadline.
Expired_Never == FALSE
\* CONNECTION_DRAIN_GRACE is over before the thread has ended.
Expired == TRUE

\* join_thread_bounded on the TCP accept thread; then the two commands
JoinAccept ==
    /\ stage = "joinAccept"
    /\ \/ AcceptJoined /\ UNCHANGED lateAccept
       \/ Expired /\ lateAccept' = TRUE
    /\ cmds' = cmds \o <<<<"broadcast", "all">>, <<"shutdown", "all">>>>
    /\ stage' = "joinLoop"
    /\ UNCHANGED <<flag, woken, probed, acceptor, conn, failing, told, slots,
                   registry, mail, loop, wedged>>

JoinLoop ==
    /\ stage = "joinLoop" /\ loop = "ended"
    /\ stage' = "joinThreads"
    /\ UNCHANGED <<flag, woken, probed, acceptor, conn, failing, told, slots,
                   registry, mail, cmds, loop, wedged, lateAccept>>

\* The connection threads share one deadline: the process ends when they
\* all have, or with some of them still running.
JoinThreads ==
    /\ stage = "joinThreads"
    /\ stage' = "done"
    /\ UNCHANGED <<flag, woken, probed, acceptor, conn, failing, told, slots,
                   registry, mail, cmds, loop, wedged, lateAccept>>

------------------------------------------------------------------------------
AcceptorStep(a) ==
    \/ CheckFlag(a)
    \/ \E c \in Conns : Accept(a, c)
    \/ AcceptWakeup(a)
    \/ TakeSlot(a)
    \/ UndoSlot(a)
    \/ Register(a)

ThreadStep(c) ==
    \/ HandshakeDone(c)
    \/ HandshakeFails(c)
    \/ SetupDone(c)
    \/ SetupFails(c)
    \/ WriteShuttingDown(c)
    \/ ReaderEnds(c)
    \/ ThreadReturns(c)

MainStep == Probe \/ JoinAccept \/ JoinLoop \/ JoinThreads
LoopStep == HandleCmd \/ SessionsJoined \/ ShutdownAll

ServerNext ==
    /\ stage # "done"
    /\ \/ Signal
       \/ WakeMain
       \/ MainStep
       \/ LoopStep
       \/ CallBlocks
       \/ \E a \in Acceptors : AcceptorStep(a)
       \/ \E c \in Conns : ClientConnects(c) \/ ClientBreaks(c) \/ ThreadStep(c)

\* The signal thread, the acceptors, the main thread, the command loop and
\* the connection threads run; clients, the signal and a call that blocks
\* owe nothing.
ServerFairness ==
    /\ WF_serverVars(WakeMain)
    /\ WF_serverVars(MainStep)
    /\ WF_serverVars(LoopStep)
    /\ \A a \in Acceptors : WF_serverVars(AcceptorStep(a))
    /\ \A c \in Conns : WF_serverVars(stage # "done" /\ ThreadStep(c))

ServerSpec == ServerInit /\ [][ServerNext]_serverVars /\ ServerFairness

------------------------------------------------------------------------------
ServerTypeOK ==
    /\ {flag, probed, wedged, lateAccept} \subseteq BOOLEAN
    /\ woken \in {"no", "yes", "lost"}
    /\ \A a \in Acceptors :
          /\ acceptor[a].at \in {"check", "accept", "slot", "undo",
                                 "register", "exited"}
          /\ acceptor[a].with \in Conns \cup {"nobody"}
    /\ stage \in {"accepting", "joinAccept", "joinLoop", "joinThreads",
                  "done"}
    /\ conn \in [Conns -> {"out", "backlog", "held", "dropped", "handshake",
                           "setup", "serving", "closing", "ending", "ended",
                           "aborted"}]
    /\ failing \subseteq Conns /\ told \subseteq Conns
    /\ registry \subseteq Conns /\ mail \subseteq Conns
    /\ slots \in Nat
    /\ loop \in {"running", "teardown", "mcp", "ended"}

\* The slots held: by the threads that run and by acceptors in mid-accept.
Holding == {a \in Acceptors : acceptor[a].at \in {"undo", "register"}}

(* The cap holds although the two accept loops share one unlocked counter:  *)
(* never more than MAX_CONCURRENT_CONNECTIONS connection threads, and every *)
(* slot belongs to a thread that runs or to an accept in progress, so no    *)
(* path of a connection leaks one (ConnectionSlot, try_take_connection_     *)
(* slot).                                                                   *)
CapHolds ==
    /\ Cardinality(Live) <= MaxConnections
    /\ slots = Cardinality(Live) + Cardinality(Holding)

(* Once the command loop has handled the broadcast, ShuttingDown is read or *)
(* on its way for every connection an acceptor registered and whose client  *)
(* still reads, those still in their handshake included, unless the join of *)
(* the accept thread was given up (register_client_writer, run_server).  A  *)
(* connection whose reader ended because the loop had gone still has its    *)
(* writer to say it.                                                        *)
RegisteredAreTold ==
    loop # "running" /\ ~lateAccept
        => \A c \in Conns :
              /\ conn[c] \in {"handshake", "setup", "serving"} => c \in mail
              /\ conn[c] \in {"closing", "ended"} => c \in told \cup failing
              /\ conn[c] = "ending" => c \in mail \cup told \cup failing

\* Where a shutdown can come to a stand: the main thread in accept() after
\* the connect that should wake it failed, and shutdown_all behind a call
\* that blocks ("a wedge between those two lines means an MCP client lock is
\* held by a stuck tool call").
Obstructed ==
    \/ woken = "lost" /\ acceptor["main"].at = "accept"
    \/ loop = "mcp" /\ wedged

(* The signal ends the daemon unless one of these two obstructions stays or *)
(* comes back for ever: no client that is stuck, silent in its handshake or *)
(* connecting meanwhile, no accept thread that is not woken and no session  *)
(* left behind keeps run_server from returning (run_server, the command     *)
(* loop's teardown).                                                        *)
ShutdownCompletes == []<>Obstructed \/ (flag ~> stage = "done")

(* The registry forgets a connection whose thread has returned, on every    *)
(* path but the failed socket setup; otherwise stale entries would collect  *)
(* (tcp_handshake_and_client_thread, handle_client_disconnected).           *)
RegistryForgets ==
    \A c \in Conns : conn[c] = "ended"
        ~> (c \notin registry \/ loop # "running")

(* What connection.rs says of the registration in the acceptor: a           *)
(* connection accepted while the daemon shuts down receives ShuttingDown.   *)
AcceptedAreTold ==
    loop # "running" /\ ~lateAccept /\ Cardinality(Conns) <= MaxConnections
        => \A c \in Conns : conn[c] \notin {"out", "backlog"}
              => c \in mail \cup told \cup failing

(* And of the registry: a connection that never produced a working          *)
(* transport leaves no stale writer entry behind.                           *)
NoStaleWriter ==
    \A c \in Conns : conn[c] \in {"ended", "aborted"}
        ~> (c \notin registry \/ loop # "running")
==============================================================================
