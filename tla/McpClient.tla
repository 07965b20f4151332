------------------------------ MODULE McpClient ------------------------------
(***************************************************************************)
(* An MCP server of the daemon: a child process that is asked over its     *)
(* stdin and answers on its stdout in any order, late or never.  The tools *)
(* of a server share one client behind a lock, which a call holds from its *)
(* request to its end; a call that times out leaves its answer to come.    *)
(* Servers share nothing, so one is enough.  A request is its id and what  *)
(* it asks: "init", "list", or the call it is for; the server's answer     *)
(* repeats the id and is about what was asked, and the client looks at the *)
(* id only.  The notification between handshake and list, which nobody     *)
(* answers, and a spawn that fails are left out.                           *)
(***************************************************************************)
EXTENDS Naturals, Sequences

CONSTANTS
    Calls,      \* tool calls of the server
    MaxPipe     \* requests the pipe to the server holds unread

ASSUME McpAssumption ==
    /\ MaxPipe \in Nat \ {0}
    /\ Calls \cap {"manager", "nobody", "teardown", "init", "list"} = {}

Callers == Calls \cup {"manager"}

VARIABLES
    stage,      \* "off", "init", "list", "ready", "bare", "failed"
    next_id,
    holder,     \* who has the client's lock
    call,       \* "idle", "asked", "sending", "waiting", "ok", "error"
    request,    \* the id a caller waits for
    got,        \* the answer it took
    stdin,      \* whether the transport still has it
    pipe,       \* requests in it
    child,      \* whether the server runs
    owed,       \* requests the server has read and not answered
    stdout,     \* answers the reader thread has not read
    reader,     \* whether that thread runs
    responses,  \* its channel
    shutdown,   \* its flag
    teardown    \* "no", "asked", "killed", "done"

mcpVars == <<stage, next_id, holder, call, request, got, stdin, pipe, child,
             owed, stdout, reader, responses, shutdown, teardown>>
wires == <<stdin, pipe, child, owed, stdout, reader, shutdown>>

Nobody == "nobody"
NoId == 0
InitId == 1
NoAnswer == [id |-> NoId, of |-> Nobody]

McpInit ==
    /\ stage = "off"
    /\ next_id = 3
    /\ holder = Nobody
    /\ call = [c \in Callers |-> "idle"]
    /\ request = [c \in Callers |-> NoId]
    /\ got = [c \in Callers |-> NoAnswer]
    /\ stdin = TRUE /\ pipe = <<>>
    /\ child = FALSE /\ owed = {} /\ stdout = <<>>
    /\ reader = FALSE /\ responses = <<>>
    /\ shutdown = FALSE /\ teardown = "no"

-----------------------------------------------------------------------------
(* A request and its answer.                                               *)

\* McpClient::spawn: the child, its reader and the initialize request; the
\* client has no other user yet.
Spawn ==
    /\ stage = "off"
    /\ stage' = "init"
    /\ child' = TRUE /\ reader' = TRUE
    /\ holder' = "manager"
    /\ call' = [call EXCEPT !["manager"] = "sending"]
    /\ request' = [request EXCEPT !["manager"] = InitId]
    /\ UNCHANGED <<next_id, got, stdin, pipe, owed, stdout, responses, shutdown,
                   teardown>>

\* A call of a registered tool
Ask(c) ==
    /\ stage = "ready" /\ call[c] = "idle"
    /\ call' = [call EXCEPT ![c] = "asked"]
    /\ UNCHANGED <<stage, next_id, holder, request, got, wires, responses,
                   teardown>>

\* Mutant: the counter is read and not advanced.
NextId_Same == next_id
\* next_id.fetch_add
NextId == next_id + 1

\* call_with_args: the lock, and an id
Acquire(c) ==
    /\ call[c] = "asked" /\ holder = Nobody
    /\ holder' = c
    /\ call' = [call EXCEPT ![c] = "sending"]
    /\ request' = [request EXCEPT ![c] = next_id]
    /\ next_id' = NextId
    /\ UNCHANGED <<stage, got, wires, responses, teardown>>

\* Transport and client are dropped when the handshake fails.
Dropped ==
    /\ child' = FALSE /\ shutdown' = TRUE /\ stdin' = FALSE
    /\ pipe' = <<>> /\ owed' = {}
    /\ UNCHANGED <<stdout, reader>>

\* The end of a request: a call gives the lock back; the manager goes on from
\* the handshake to the list of tools, and keeps the client without tools
\* when that fails.
Ends(c, how) ==
    IF c = "manager" /\ stage = "init" /\ how = "ok"
    THEN /\ stage' = "list"
         /\ call' = [call EXCEPT ![c] = "sending"]
         /\ request' = [request EXCEPT ![c] = next_id]
         /\ next_id' = NextId
         /\ UNCHANGED <<holder, wires>>
    ELSE /\ call' = [call EXCEPT ![c] = how]
         /\ holder' = Nobody
         /\ stage' = IF c # "manager" THEN stage
                     ELSE IF stage = "init" THEN "failed"
                     ELSE IF how = "ok" THEN "ready" ELSE "bare"
         /\ IF c = "manager" /\ stage = "init" THEN Dropped
            ELSE UNCHANGED wires
         /\ UNCHANGED <<request, next_id>>

Writable == stdin /\ child

\* What a caller asks
Topic(c) ==
    IF c # "manager" THEN c
    ELSE IF request[c] = InitId THEN "init" ELSE "list"

\* send_request; the write blocks while the pipe is full.
SendRequest(c) ==
    /\ call[c] = "sending" /\ Writable
    /\ Len(pipe) < MaxPipe
    /\ pipe' = Append(pipe, [id |-> request[c], of |-> Topic(c)])
    /\ call' = [call EXCEPT ![c] = "waiting"]
    /\ UNCHANGED <<stage, next_id, holder, request, got, stdin, child, owed,
                   stdout, reader, responses, shutdown, teardown>>

\* The transport was shut down, or the pipe is broken.
SendFails(c) ==
    /\ call[c] = "sending" /\ ~Writable
    /\ Ends(c, "error")
    /\ UNCHANGED <<got, responses, teardown>>

\* recv_response: answers to older requests are passed over; the awaited one
\* can carry an error or be malformed.
RecvResponse(c) ==
    /\ call[c] = "waiting" /\ responses # <<>>
    /\ responses' = Tail(responses)
    /\ IF Head(responses).id = request[c]
       THEN /\ got' = [got EXCEPT ![c] = Head(responses)]
            /\ \E how \in {"ok", "error"} : Ends(c, how)
       ELSE UNCHANGED <<stage, next_id, holder, call, request, got, wires>>
    /\ UNCHANGED teardown

\* Mutant: the wait has no deadline.
DeadlinePasses_Never(c) == FALSE

DeadlinePasses(c) == call[c] = "waiting"

TimesOut(c) ==
    /\ DeadlinePasses(c)
    /\ Ends(c, "error")
    /\ UNCHANGED <<got, responses, teardown>>

\* The reader thread dropped its end of the channel.
Disconnected(c) ==
    /\ call[c] = "waiting" /\ responses = <<>> /\ ~reader
    /\ Ends(c, "error")
    /\ UNCHANGED <<got, responses, teardown>>

-----------------------------------------------------------------------------
(* The server and the reader thread.                                       *)

ServerReads ==
    /\ child /\ pipe # <<>>
    /\ pipe' = Tail(pipe)
    /\ owed' = owed \cup {Head(pipe)}
    /\ UNCHANGED <<stage, next_id, holder, call, request, got, stdin, child,
                   stdout, reader, responses, shutdown, teardown>>

ServerAnswers ==
    /\ child
    /\ \E m \in owed : /\ owed' = owed \ {m}
                       /\ stdout' = Append(stdout, m)
    /\ UNCHANGED <<stage, next_id, holder, call, request, got, stdin, pipe,
                   child, reader, responses, shutdown, teardown>>

ServerDies ==
    /\ child
    /\ child' = FALSE
    /\ pipe' = <<>> /\ owed' = {}
    /\ UNCHANGED <<stage, next_id, holder, call, request, got, stdin, stdout,
                   reader, responses, shutdown, teardown>>

\* A line, unless the flag is set; or the end of the stream
ReaderStep ==
    /\ reader
    /\ \/ /\ stdout # <<>> /\ ~shutdown
          /\ responses' = Append(responses, Head(stdout))
          /\ stdout' = Tail(stdout)
          /\ UNCHANGED reader
       \/ /\ \/ stdout # <<>> /\ shutdown
             \/ stdout = <<>> /\ ~child
          /\ reader' = FALSE
          /\ UNCHANGED <<responses, stdout>>
    /\ UNCHANGED <<stage, next_id, holder, call, request, got, stdin, pipe,
                   child, owed, shutdown, teardown>>

-----------------------------------------------------------------------------
(* shutdown_all, at the end of the daemon: sessions may be left behind with *)
(* their calls.                                                             *)

Teardown ==
    /\ stage \in {"ready", "bare"} /\ teardown = "no"
    /\ teardown' = "asked"
    /\ UNCHANGED <<stage, next_id, holder, call, request, got, wires,
                   responses>>

Killed == child' = FALSE /\ pipe' = <<>> /\ owed' = {}

TeardownKills ==
    /\ teardown = "asked" /\ holder = Nobody
    /\ holder' = "teardown"
    /\ teardown' = "killed"
    /\ shutdown' = TRUE
    /\ Killed
    /\ UNCHANGED <<stage, next_id, call, request, got, stdin, stdout, reader,
                   responses>>

\* The reader is joined, or given up after a while.
TeardownEnds ==
    /\ teardown = "killed"
    /\ teardown' = "done"
    /\ stdin' = FALSE
    /\ holder' = Nobody
    /\ UNCHANGED <<stage, next_id, call, request, got, pipe, child, owed,
                   stdout, reader, responses, shutdown>>

-----------------------------------------------------------------------------
\* A caller's thread on its way; whether an answer comes is not its doing.
CallerMoves(c) ==
    \/ Acquire(c)
    \/ SendRequest(c)
    \/ SendFails(c)
    \/ TimesOut(c)

McpNext ==
    \/ Spawn
    \/ \E c \in Calls : Ask(c)
    \/ \E c \in Callers : CallerMoves(c) \/ RecvResponse(c) \/ Disconnected(c)
    \/ ServerReads
    \/ ServerAnswers
    \/ ServerDies
    \/ ReaderStep
    \/ Teardown
    \/ TeardownKills
    \/ TeardownEnds

\* The daemon's threads run and deadlines pass; nothing is asked of the server.
McpFairness ==
    /\ \A c \in Callers : WF_mcpVars(CallerMoves(c))
    /\ WF_mcpVars(ReaderStep)
    /\ WF_mcpVars(TeardownKills \/ TeardownEnds)

McpSpec == McpInit /\ [][McpNext]_mcpVars /\ McpFairness
-----------------------------------------------------------------------------
(* Properties.                                                             *)

\* A call that succeeds has what the server answered to this call, and the
\* tools are what it answered to the list request, though the client tells
\* answers by their ids only and those of requests that timed out are still to
\* come (client.rs next_id, transport.rs recv_response).
OwnAnswer ==
    /\ \A c \in Calls : call[c] = "ok" => got[c].of = c
    /\ stage = "ready" => got["manager"].of = "list"

Pending == {c \in Calls : call[c] \in {"asked", "sending", "waiting"}}

\* Calls end, with an answer or an error, though the server may read late,
\* answer nothing or die, and they wait for each other's lock (client.rs
\* call_tool).  The pipe must have room for what the server leaves unread.
CallsEnd == Pending # {} ~> Pending = {}

\* shutdown_all comes to its end whatever the server and the calls do, and
\* neither the server nor its reader thread is left ("Never blocks forever:
\* every wait is bounded so a misbehaving server cannot wedge shutdown").
TeardownCompletes ==
    teardown = "asked" ~> (teardown = "done" /\ ~child /\ ~reader)

\* register_server_tools of a failed list: "shared is dropped here, killing
\* the subprocess".  The manager keeps its own reference.
UnlistedIsStopped == stage = "bare" ~> ~child
==============================================================================
