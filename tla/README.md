# A TLA+ model of choreo

The repository is a Rust workspace. Its core is `choreo-daemon`, a long-running
process that keeps AI conversations ("sessions"), runs requests against model
providers, executes tools, persists everything in a redb database and streams
events to any number of clients over Unix sockets and TCP. This directory holds
TLA+ modules for the parts of the daemon and of its clients in which threads,
processes, messages, crashes and failing writes meet, the TLC configurations
that check them, and proofs checked by TLAPS.

Paths below are relative to `choreo-daemon/src/` unless they start with another
crate's name.

## 1. The system

### Components, state, operations

| component | state | operations | talks to |
|---|---|---|---|
| daemon command loop (`daemon.rs`) | `active_sessions`, `session_metadata`, `deleted_sessions`, `children`, `next_session_id`, client registries, credentials, providers, model cache | one handler per `DaemonCommand`, handled one at a time from an mpsc queue | connections, session threads, finalizer threads, database |
| boot (`cli.rs`, `db/mod.rs`) | none of its own | purge tombstoned sessions, load the index, derive the next id | database |
| session database (`db/`) | sessions, turns, tombstones, credentials, ACL tables | single-transaction reads and writes, some with retries | command loop, session threads, workers, finalizers |
| session thread (`sessions.rs`) | turns, `next_turn_id`, `last_undo_turn_ids`, `last_response_id`, subscribers, active request | attach, detach, run input, cancel, undo, redo, request finished, shutdown | its worker, the command loop, client sinks |
| request worker (`requests.rs`) | a private copy of the session taken when the request starts | the agent loop: start a turn, call the provider, run tools, persist the last turn, report back | provider, tools, session thread |
| tool batch (`requests.rs`, `requests/tool_execution.rs`) | pending calls, deadlines, cancel flag, results | serial and concurrent phases, cancel, deadline, synthesis of missing results | tools, worker |
| provider protocols (`choreo-ai-protocols`) | the adapter's accumulator, the reader thread and its channel, attempts | send, retry, read events, cancel, time out, assemble the turn | worker, the provider |
| shell tool (`tools/shell_util.rs`) | child process, pipes, byte budget, abort channel | spawn, drain, merge, time out, kill, collect with bounded waits | the process, the client's live output |
| sub-sessions (`tools/subsession.rs`, `daemon.rs`) | parent links, reply channel | create child, run, cascade cancel and delete | command loop, child session |
| subscriber delivery (`broadcast.rs`, `daemon/subscriber_handlers.rs`) | sinks, activity and summary subscribers, `client_subscribed_sessions` | register, track, forward, evict, forget | session threads, command loop, writer threads |
| connection and writer threads (`server/connection.rs`) | attached session and its channel, the sink | decode a client message, forward it, switch session, clean up; drain the sink to the socket | command loop, session threads |
| lag accounting (`broadcast.rs`, `server/connection.rs`) | a byte counter per client and a global one | add before send, subtract after dequeue, drain on stop | producers, writer threads |
| server lifecycle (`server/lifecycle.rs`) | listeners, connection slots, thread handles | accept, register, shut down with joins, all but one of them bounded | connections, command loop |
| keystore lock state (`daemon.rs`, `choreo-keystore`) | binding, credentials in memory, locked flag | bind, unlock, lock, save credential | database, accounts, clients |
| accounts, providers, model prefetch (`accounts/`, `providers/`, `daemon.rs`) | configurations, resolved providers, TTL cache, in-flight guard | add, remove, reload, resolve, prefetch | accounts file, provider threads |
| MCP client (`mcp/`, `choreo-mcp`) | a child process per server, request ids, a lock, a reader thread | spawn, list tools, call, time out, tear down | the server's pipes |
| catalog maintenance (`catalog.rs`), configuration watch (`config_watch.rs`) | catalog, etag and overlay, the watch | timer and forced refresh, overlay reload, re-arm | command loop, models.dev |
| ACL (`server/acl.rs`) | a set of public keys | reload, look up | connections |
| ACP adapter (`choreo-acp`) | pending requests, session map, busy guard | JSON-RPC requests of an editor, events of the daemon | editor, daemon |
| terminal client (`choreo-tui`, `choreo-client-core`) | session shown, input bar and drafts, live output, unlock key | keys, commands, daemon messages | daemon |
| IM bridge, GUI (`choreo-im`, `choreo-gui`) | per-chat text buffers, widgets | polling, rendering | daemon |
| protocols and libraries (`choreo-proto`, `choreo-transport`, `choreo-content`, `choreo-blockchain`, `choreo-markdown`, `choreo-image`, `choreo-sanitize`) | little | encoding, cryptography, rendering, chain access | — |

`PROJECT.json` lists each of them with its status.

### What is hard here

* **Deletion is deferred.** A running session cannot be removed until its
  thread has made its last write; the daemon marks it in memory and on disk and
  lets a chain of four threads finish the job, with stragglers of the dying
  thread arriving in between and a crash possible at every step.
* **Three paths lead to one client.** Session threads write into a client's
  sink directly; the daemon forwards the same events on two buses and
  suppresses duplicates with a picture of who is attached that lags behind.
* **A request works on a copy.** Undo and redo are accepted while a worker
  extends a snapshot of the history that is merged back later, and the
  provider keeps context of its own behind a response id.
* **Single-transaction writes.** What one command changes is stored by several
  transactions; any of them can fail (and is then only logged) and the process
  can die between two.
* **Everything outside may be late or silent.** A tool, a shell command's
  descendants, an MCP server, a client that stops reading: each is waited for
  with a deadline, but for the lock of an MCP client at shutdown, and its late answer
  meets a system that has moved on.
* **Answers carry no name.** The daemon's answers to the ACP bridge and to the
  terminal client name neither a request nor, for a prompt, a session; the client
  matches them by kind and by what it believes it is attached to.

What makes each part correct: a deleted session stays deleted and no other one
disappears; an event reaches every entitled client once; the history shown, the
history stored and the context the provider uses agree; every call, prompt and
command is answered once, and ends; a key or a draft is never lost or given to
the wrong owner. `PROJECT.json` lists under "hazards" the lines where this can
go wrong and the properties aimed at each.

## 2. Modules

| module | what it is |
|---|---|
| `SessionLifecycle` | sessions in the command loop, session threads, finalizers, boot, database |
| `SessionStore` | abstract specification: an atomic, crash-safe set of sessions |
| `SessionLifecycle_proofs` | types, deletion, the refinement of `SessionStore` |
| `Delivery` | command loop, session threads, connection and writer threads as seen by an event |
| `TurnHistory` | one session's turns, undo/redo, worker, database |
| `TurnHistory_proofs` | types, undo, the response chain, the stored history |
| `ProviderStream` | one streaming request to a provider, with its retries, reader thread and adapters |
| `ToolBatch` | the tool calls of one response |
| `BatchAnswers` | abstract specification: every call is answered once |
| `ShellTool` | one shell command with its processes, pipes and threads |
| `Subsessions` | a chain of sessions that spawn one another, cancels and exits |
| `LagAccounting` | the two byte counters, step by step, and eviction |
| `ServerLifecycle` | acceptors, connection slots, signal and shutdown |
| `Keystore` | binding, lock state, and the clients that hold the key |
| `Accounts` | accounts file, credentials, providers, model prefetch |
| `McpClient` | an MCP server process and the calls that share it |
| `Catalog` | catalog maintenance and configuration watch |
| `AcpAdapter` | the ACP bridge between an editor and the daemon |
| `TuiClient` | the terminal client's view, input bar and drafts |
| `Delivery_proofs`, `AcpAdapter_proofs`, `TuiClient_proofs` | proofs about the module each is named after |
| `Tools_proofs` | proofs about `ToolBatch` and `Subsessions` |
| `Server_proofs` | proofs about `ServerLifecycle` and `Keystore` |
| `Services_proofs` | proofs about `Accounts` and `McpClient` |
| `MC…` | instances for TLC |

In a module, a definition named `X_Something` next to `X` is `X` with a
plausible mistake; `PROJECT.json` pairs it with the property that notices.

Some `MC` modules check modules that share no state (`MCThreads`, `MCRecords`,
`MCAccounts`, `MCClients`, `MCWorker`) or several workloads of one (`MCDeliveryLoads`,
`MCAcp`, `MCTui`): a variable `part` or `load`, chosen in the initial state and
never changed, says which one a behaviour is about. The parts that a behaviour is
not about stay in their initial state, and their fairness conditions are
either vacuous there or guarded by `part`; the state space is the sum of the
parts, not their product. These modules only restrict: every step of a part is
a step of its module's own next-state relation.

### SessionLifecycle and SessionStore

The database is `record` and `tombstone` and alone survives `ProcessEnds`.
`active_sessions`, `session_metadata`, `deleted_sessions`, `children` and
`next_session_id` are the fields of `DaemonState` of the same name; `sleeping`
is the index status. `thr` holds the session threads, `finalizers` the detached
threads of `finalize_session_delete`, `queue` the daemon's channel as far as
session threads and finalizers fill it. Client commands carry no session state
and are handled when they arrive, so each is an action instead of an entry.

A session's content is abstracted to an incarnation number, because an id may be
given out again after a restart. `asked` and `deleted` are history variables: the
incarnations a client asked to delete and those whose deletion was announced.

Actions: the boot purge, one tombstone at a time, and the index load; create,
attach and delete (with its fast path for a finished thread, its immediate path
for a sleeping session, its deferred path and the cascade to children); the
handlers of `UpdateMetadata`, `SessionExited` and `SessionDeleteFinalized`; the
three steps of a finalizer; start, metadata update, request, shutdown, persist,
exit and finish of a session thread; orderly teardown and sudden death. Each
database operation named in `Faults` may fail at any time.

`SessionStore` is what a client may rely on: a set that changes only by atomic
creations and deletions. The refinement mapping takes as existing the stored
incarnations whose deletion has not been announced.

### Delivery

A sink is the log of everything ever enqueued for a client, hence also what the
client reads. `daemonQ` and `inbox` are the FIFO channels of the command loop
and the session threads. Session threads are restarted under a new generation,
so that a command sent to an old channel is lost as it is in the code. Lag is
abstracted: for a client in `Slow`, any enqueue may find it over its limit and
its writer may die. Events of a session are numbered; `owed` remembers who was
entitled to which event when it was broadcast. The content of events, replies
and greetings is left out.

Actions: attach, detach, remove-subscriber, shutdown, broadcast, status change
and end of request in a session thread; every subscriber command in the daemon
(register and unregister on both buses, track and untrack, the activity and
status forwards, evict one client, evict the largest, disconnect, attach,
session exited); connect, request, switch session and close on the connection;
death of a writer; the exit of a parent session.

### TurnHistory

One session. `turns`, `next_turn_id`, `last_undo_turn_ids` and `last_response_id`
are fields of `SessionState`. `worker` is the request worker: its copy of the
turns, the state at the time the provider was asked (what a panic or error
falls back to), its phase and iteration. `unsaved` is what the command being
handled still has to write, so that a crash can fall between any two of its
transactions. A turn is a token with a user part, an assistant part and the
undone flag. A response id is abstracted to the set of turns the server had seen when
it answered, which is exactly what a chained request inherits.

Actions: run input, undo, redo, shutdown, load, crash, and the writes in the
session thread; start turn, provider outcome (final answer, tool call, truncated
tool call, error, cancel, panic), tools done, finalize in the worker; the merge
of `handle_request_finished`.

`MCTurnPlain` adds the history variable `plain`: no redo, no truncated tool call
and no crash so far.

### ProviderStream

One request of the worker to a provider: the retry loop, the reader thread that
turns the response into events on a bounded channel, and the consumer that waits for
an event, a cancel or the deadline. `wire` is what the provider has sent, `acc` what
the adapter (chat, responses, Anthropic or Google) has made of it, `shown` what was
forwarded to the clients, `result` what the worker gets. A text is its place in the
response; the arguments of a tool call come in two halves. The provider may send any
events in any order, end the response, break it or stay silent.

### ToolBatch and BatchAnswers

What happens between a response with tool calls and the next model call. The
worker runs the session-config calls one after the other, then all others at
once; each of these has an execution thread (`exec`), a wait loop with a deadline
(`wait`) and a thread that forwards live output. `batch` is the channel of results in
completion order, `records` the turn's record of each call, `delivered` and `executed`
the sets of call ids the collector keeps, `cancelled` the sticky flag; `pending`, `copy`,
`main` and `inbox` follow an accepted configuration change from the tool to the
worker's copy and to the session's main loop. `view` is what a client that has read
every broadcast shows (`choreo-client-core/src/history.rs`).

Actions: execution, panic and late end of a tool, live chunks and their bounded
channel, deadline, kill, a wait loop that dies, collection, cancel at any moment,
synthesis of missing results, the sort into call order, the mirror of
configuration changes and the merge. What a tool computes is a result or a
failure. The calls are numbered; their ids are a parameter because
two providers' adapters make them differently. `BatchAnswers` promises that every
call goes from empty to one answer, once, before the batch is over.

### ShellTool

One command on Unix. The child writes to two pipes, may fork a descendant inside
or outside its process group, and exits; a watchdog waits for the child and
kills the group at the timeout; two drains read the pipes into lines; in
streaming mode a merger forwards each line to the client's bounded channel
within the byte budget and keeps what it forwarded as the record. When the child is
reaped the drains are told to stop, the abort channel is closed or signalled,
and the caller collects every thread with a bounded wait, detaching those that
do not come. A line is its pipe and its number; escaping, line splitting and
a failing `wait()` are left out. A grace of the caller ends only when no thread
of the tool can move or a survivor goes on writing, because it is long compared with a step.

### Subsessions

A chain of sessions, each of which may spawn the next: `thread`, `active`,
`stopping` and `box` are its thread, request and command queue, `work` its worker,
`spawn` the thread of the tool (it outlives a cancelled request), `answer` the
reply channel, `known`, `children` and `orders` the daemon's side. Actions: the
client's cancel and detach, the tool's create, run and receive, the
daemon's handlers with their cascade to children, and the session's handling of run, cancel
and shutdown.

### LagAccounting

`globalLag` and `bytes` are the two atomics; a send and a dequeue are four
shared-memory steps each, of a session thread, of the command loop, of a reply or
of the writer (`prod`, `writer`). Eviction by a client's cap and by the
daemon-wide budget, the advisory `Evicted`, the stuck or closed socket, the exit
window of the writer (`leaked`) and the clean-up of the connection are actions. A message is a
size of one, or zero for the control messages that are not counted.

### ServerLifecycle

The main thread accepts on the Unix socket and a second thread on TCP. Each takes
a slot, registers the writer and spawns the connection thread; the handshake,
the registration and the connection itself may fail. A signal raises
the flag and the signal thread connects to the daemon's own socket to wake the main
thread (`WakeMain`; the connect may fail, and only the next signal repeats it). The
main thread wakes and joins the TCP thread, has `ShuttingDown` broadcast, stops the
command loop and joins it and the connections. The TCP thread and the connections
are joined with a deadline, the command loop is not: after its bounded joins of the session threads
(`SessionsJoined`) it takes the lock of every MCP client in turn (`ShutdownAll`), which a call that
blocks may have (`wedged`; what such a call does is `McpClient`).

### Keystore

The daemon's binding, lock state and decrypted credentials, and, per client, the
frames on their way, the replies, the key it stored (`known_servers`), the key
it has presented and not had confirmed (`pending`) and its lock banner. A client
may reconnect while frames of its old connection are still unread (`Overlaps`).
Actions: connect, disconnect, unlock, add a key, lock, the daemon's handling
of each (with a bind tail that may fail), the confirmation by the connection
thread and what the client does with every answer. A key is itself or another one; the
cryptography is external.

### Accounts

The accounts file, written by the daemon and by an editor; the accounts,
credentials and providers in memory; the credentials in the database; model lists
fetched by prefetch threads and cached; and a session that keeps the provider
it resolved. A configuration is a number, and a provider or a list is named by the
configuration it came from, which is what "stale" means here. From some configurations
(`Unbuildable`: an unknown provider, a client that refuses its settings) no provider can be
built; which ones is fixed, so a catalog refresh that adds or drops the provider of an
account is left out. Every handler of `daemon.rs` on these is an action, with saves and
loads that may fail.

### McpClient

One server from spawn to teardown (servers share nothing): handshake, list of
tools, calls under the client's lock, a write that blocks when the pipe is full,
deadlines, answers that come late, in any order or never, the reader thread,
the server's death and the kill of the teardown. A message on the wires carries its id,
which is all the client looks at, and what it is about (`of`), which it does not see; ids are
handed out by `NextId`. The `initialized` notification, which nothing waits
for, and a spawn that fails are left out.

### Catalog

The maintenance thread (timer, folded requests, conditional fetch), the command
loop (the only one to swap the catalog; it writes the cache file and then the
etag), and the thread that owns the watch on the configuration directory, with
crashes between the two writes, failing fetches, a lost or corrupt
cache, a start that cannot read its etag, its last attempt or the overlay, and a removed
directory. Versions are numbers; time is ticks, of which
only those of a machine that is awake are fair.

### AcpAdapter

The bridge's event loop with the slots of its pending requests, its session map and
busy guard; its connection to the daemon; the connection thread and the session
threads as the bridge sees them; another client that runs requests in the
same sessions; the loss of either side. A request is its place in the order of
asking, and `answers` counts the JSON-RPC responses to it.

### TuiClient

The session on the screen, the one input bar with its saved draft and the drafts
per session, and the list of sessions; the connection with the session it is
attached to; the daemon's sessions. A text is the set of sessions it was
typed in. Actions: typing, history up and down, submit, open, create, delete, back to
the list, `/session switch`; the connection's handling of each; every
message that moves the view; and other clients that create or delete sessions.

## 3. What the runs show

All runs but `tool_same_ids` pass; it shows the code violating what its own
comment says. Every property of a passing run has a mutant of the code that breaks it.

| run | properties | bounds |
|---|---|---|
| `session_lifecycle` | `TypeOK`, `NoResurrection`, `OneThreadPerSession` | 2 ids, 2 creations, 2 threads, queue 1; record writes, removals and tombstone clears may fail |
| `session_store` | `NoGhostEntry`, `OnlyAskedVanish`, `ImplementsStore`, `DeleteCompletes` | the same, reliable database, fair |
| `delivery` | `AtMostOnce`, `NoLoss`, `AttachedViewComplete` | 2 clients, 2 sessions, 2 events and 3 requests (1 and 2 in the shared load), queue 1, 2 thread generations |
| `turns` | `TypeOK`, `NoUndoneContext`, `StoredHistory`, `PlainChainHoldsHistory`, `UndoSticks`; `RecordIsWhole`, `CommandEnds` | 4 turns, loop limit 2, 1 crash, every outcome, undo and redo, writes succeed; 2 lines per command, 1 line of a survivor, every channel 1, limit 3 bytes |
| `tool_batch` | `BatchEnds`, `AnsweredOnce`; `TurnIsTheResponse`, `RequestEnds` | 2 calls, either of them a config tool or without deadline, one of them streaming 1 chunk, 1 cancel, channel 1, dying wait loops; 4 adapters, 2 attempts, 4 events, channel 1, at most 3 calls |
| `tool_same_ids` | `EveryCallAnswered` (violated) | the same with one id for both calls |
| `threads` | `CountersBalanced`, `LaggardReaped`; `WaiterHasSender`, `CancelReachesStarted`, `ExitTakesChildren` | 1 client, 1 session thread and the command loop, cap 1, budget 1, 2 broadcasts, 1 reply; a chain of 3 sessions, 2 cancels |
| `server` | `RegisteredAreTold`, `ShutdownCompletes` | 2 Unix clients, 1 TCP client, cap 2, 1 client that breaks |
| `keystore` | `BindingIsHeld`, `KeyedClientBinds` | 2 clients with a key, 1 user action each, 3 connections, overlaps, failing tail |
| `accounts` | `AccountsAgree`; `OwnAnswer`, `CallsEnd`; `CatalogConverges` | 2 accounts, 3 configurations of which 1 makes no provider, 1 edit, 3 operations; 2 calls, pipe 4; 1 forced requester, interval 1, 3 outside events |
| `clients` | `DisconnectedIsForgotten`; `AnsweredOrTracked`, `PromptAnswered` | 2 clients, 2 requests; 2 sessions, 4 editor requests, 1 cancel, 1 foreign request, a daemon that may die |
| `tui` | `DraftsStayHome`, `PromptRunsWhereShown`, `AttachmentsAgree` | 3 sessions (2 stored), 1 outside event; 1 edit and 3 keys, or 1 edit and 2 keys with `/session switch`, or 2 edits and 2 keys |

Semicolons separate the parts of a run that share no state.

**Why the bounds are enough for the cases that matter.** Two ids give a parent and
a child, or a deleted session and its neighbour; two creations let an id be used
twice across a restart; the queue bound limits only optional metadata updates, and
one straggler ahead of a `SessionExited` is the case deletion has to survive. Two
events are enough for one to repeat or overtake another, three requests for
subscribe, attach and switch, two thread generations for a channel that
outlives its thread; an event that a handler must emit is never suppressed by a bound. Four
turns allow two requests with a tool iteration each, or a request, an undo and two
more. Two calls are a pair that can finish in either order, be cancelled
between, and one of which can die. Four events are a text, a call in its two
halves and what ends or breaks the response. One laggard and three producers
reach every interleaving of two sends with a dequeue. A chain of three has a
session that is child and parent at once. Channels of one make every thread of a
shell command block. Three connections let a client mint a key, reconnect and meet the frames
of its first connection. A pipe of 4 holds everything two calls and the handshake write; `McpPipe` below is the
smaller pipe. In the accounts, three operations and an edit are enough for add, lock and unlock
around a reload. Three events for the catalog are a newer version, a crash between its two writes and a lost
cache. Three keys are open, submit and open again; two edits are a draft and a prompt recalled over it.

**Which failures deletion survives** was found by switching them on one at a
time. `NoResurrection` needs the tombstone write, the boot purge and the index
load to work; `OneThreadPerSession` and `AwakeIsServed` fail only when records fail to load
(an id is then reused under a stored session); `NoGhostEntry` needs record
writes, record removals and the load; `OnlyAskedVanish` needs tombstone clears,
the purge and the load. With failing writes `NoUndoneContext` does not hold after a
restart: the record with the old response id stays in the database when its
rewrite in `handle_undo` fails, which the code only logs. `UndoSticks` holds
then too, by proof.

**Exemptions in the properties** are situations in which the code does otherwise,
each recorded by a history variable or a named condition and listed below: `brought`, `halfway` and `unsaved` in
`Accounts`, `replaced` and `misled` in `Keystore`, `untidy` and `refused` in
`TuiClient`, `Overtaken` and `dropped` in `AcpAdapter`, `lateAccept` in
`ServerLifecycle` with `Obstructed`, `detached` in `ShellTool`, `leaked` in `LagAccounting`, and the calls of
Anthropic's adapter in `ProviderStream`.

**What the names promise, and what not.** `ShutdownCompletes` says that the signal ends the daemon
unless an obstruction stays or comes back for ever: a main thread whose wake-up was lost and that
nobody else connects to, or an MCP client whose lock is held by a call that blocks (`McpPipe` shows
how one comes to do so). No other wait of the shutdown can hold it. `CancelReachesStarted` is about
requests that had begun: a child that is being created, or whose prompt is still to come, is passed
over (`CancelStopsChildren` below). `ExitTakesChildren` is about children the daemon knew when the
parent's exit was handled; `SubOrphan` has the one created afterwards. `KeyedClientBinds` assumes that the
daemon can store its binding (`set_keystore_binding`); a client refused for this reason tries again only
when its user does. `DisconnectedIsForgotten` is checked without slow clients, and fails with
one (below). `OnlyAskedVanish` does not look at tombstones; that none is missing while a deleted record
is there is `TombstoneCoversRecord`, which is proved and on which `NoResurrection` rests. `PlainChainHoldsHistory`
ends with the first crash, and `NoUndoneContext` goes on through one.

**Further properties** are stated in the modules and hold on the same instances,
but are not part of a run because they are weaker than, or follow from, what is:
`TombstoneCoversRecord`, `AwakeIsServed`; `ToldBeforeEof`; `TypeOK` of `Delivery` and `ToolBatch`, `LagTypeOK`,
`ServerTypeOK`, `KeystoreTypeOK`; `StartedPredictsTurn`, `TurnIdsGrowUncrashed`;
`SkillsOfWorkingDir`, `MirrorFollowsMain`, `ForwardersExit`,
`ResultsInCallOrder`, `EveryCallAnswered` (with distinct ids); `NoWorkAfterExit`,
`SessionsLetGo`; `RegistryForgets`, `CapHolds`; `NeverRebound`, `LockedIsWiped`,
`BannerFollows`; `PrefetchReleased`; `CooldownHolds`, `RefreshAnswered`,
`OverlaySettles`, `RefreshShowsOverlay` (these four also with two requesters, which a burst needs);
`GuardFollowsPrompt`.

### Disagreements between code and documentation

`tool_same_ids` is the finding of `PROJECT.json`: the Google adapter names a call
after its function, so two calls of one function in a response share an id, the
batch counts deliveries by id and the second record stays empty, although a comment promises a
result for every call.

The following configurations are kept to reproduce others. TLC finds the
property violated in each; the property's comment quotes the claim.

| configuration (module) | property | what happens |
|---|---|---|
| `DeliveryAttach` (`Delivery`) | `SnapshotArrives` | an attach is lost with the inbox of a thread that leaves, although the client was told it is attached |
| `TurnOverwritten` (`MCTurnHistory`) | `TurnIdsGrow` | after a crash in a tool loop a new turn overwrites a stored one: the worker numbers from the count of turns |
| `ToolBatchLateChunk` (`MCToolBatch`) | `ViewShowsRecords` | a chunk forwarded after the record of its call is shown again by the client |
| `SubOrphan` (`Subsessions`) | `NoOrphan` | a child created after its parent's exit was handled is shut down by nobody |
| `AccountsLock` (`Accounts`) | `LockDestroysCredentials` | a session keeps the provider, and with it the credential, across a lock |
| `AcpDelete` (`MCAcp`) | `DeleteAnswered` | `session/delete` waits for a message the bridge is not subscribed to |
| `McpPipe` (`McpClient`) | `TeardownCompletes` | a call blocked in a write to a full pipe holds the lock the teardown needs |
| `TuiDrafts` (`TuiClient`) | `DraftsSurvive` | text typed while an earlier switch is still being confirmed stays in the one input bar when the view moves back, and ends up in the other session |
| `ShellSurvivor` (`ShellTool`) | `RecordIsAlwaysStream` | a descendant that goes on writing keeps a drain busy; it is detached and the record is empty although the client saw lines |

More of them were found while modelling. Each is reproduced by checking the
property named on the run's instance with the constants changed as stated.

| property (module) | instance | what happens |
|---|---|---|
| `NoGhostEntry` (`SessionLifecycle`) | `Faults = {"delete"}` | a failed removal in `delete_finished_session` leaves an index entry without record or thread |
| `FreshIdIsFree` (`SessionLifecycle`) | `Faults = {"load"}` | a record that cannot be read at boot loses its id, and then its content, to the next session |
| `PurgeIsRedundant` (`SessionLifecycle`) | `Faults = {"clear"}` | a tombstone that could not be cleared makes a later boot remove a new session with the same id |
| `DisconnectedIsForgotten` (`Delivery`) | `Slow = {c1}`, 1 event | a dead sink pruned by a broadcast before its Detach leaves a tracking entry for ever |
| `InOrder` (`Delivery`) | 1 client, activity bus, 2 events, queue 3 | a client that attaches reads a later event before an earlier one still to be forwarded |
| `NoLossEver` (`Delivery`) | `Orphanable = {s1}` | a client of a session that was shut down stays tracked and is skipped on the activity bus |
| `StatusAtMostOnce` (`Delivery`) | both buses, 3 requests | unsubscribing between the two forwards of a status change shows it twice |
| `ChainHoldsHistory` (`TurnHistory`) | a crash; or undo and redo; or a truncated tool call | turns are neither sent nor in the response the request is chained on |
| `NewInputEndsRedo`, `StoredExactly`, `RedoRevertsUndo` (`TurnHistory`) | undo and redo | the redo list is cleared on the worker's copy only; a redo during a request is reverted in memory but not stored; one redo after two undos restores the turns of both |
| `OvershootOneMessage` (`LagAccounting`) | 1 client, cap 1, budget 9, 3 broadcasts | several producers each enqueue one message above the cap |
| `CancelStopsChildren` (`Subsessions`) | depth 2, 1 cancel | a cancel handled between a child's creation and its prompt finds no request, and the child runs on |
| `AcceptedAreTold`, `NoStaleWriter` (`ServerLifecycle`) | as in `server` | a client accepted during shutdown reads a bare end of file; a writer stays registered after its connection |
| `FreshDaemonBinds` (`Keystore`) | `Keyed = {}` | a daemon without a binding is not bound by a client that holds no key |
| `ConfirmedIsRight`, `BindingIsHeld` (`Keystore`) | `WrongKeys = {w}` | an `Unlocked` for an earlier key confirms a wrong one, which replaces the stored key |
| `RecordedMatches`, `BannerShows` (`Keystore`) | overlaps | a client that mints again on a new connection while its old bind is unread records another key than the one bound; the banner does not show the lock state |
| `CachesCurrentProvider`, `InfersWithItsAccount`, `DefaultIsUsable` (`Accounts`) | 2 edits | a list of an old configuration is cached; a session keeps another account's provider; the default account may have none |
| `EveryRefreshShowsOverlay`, `EtagDescribesBin` (`Catalog`) | as in `accounts` | a folded request misses an overlay; a crash between the two writes leaves an etag of another file |
| `UnlistedIsStopped` (`McpClient`) | as in `accounts` | a server whose tools could not be listed keeps its process |
| `ModelAnswered` (`AcpAdapter`, through `MCAcp`) | no cancel, no other client | the daemon answers a model change with `ModelSelected` only, and the bridge waits for `Models` |
| `CallsAreWhole` (`ProviderStream`) | `Apis = {"anthropic"}`, 1 attempt | Anthropic's adapter returns calls whose arguments begin with the empty object that opened them, and empty calls for earlier content blocks |
| `FailureIsReported` (`ProviderStream`) | `Apis = {"anthropic"}` or Google | a failure the provider reports in mid-stream is skipped, and what came before it taken for the answer |
| `DeadlineIsReported`, `FullBatchIsAccepted` (`ProviderStream`) | `Apis = {"chat"}`, 1 call | a deadline that passes while the request is sent is reported as a transport error and retried; of a response with the permitted number of calls, the next piece of the last call is refused |

Without its exemptions `TuiClient` shows three more: after a refused attach (the
session was just deleted) a prompt shown for one session runs in the one the
connection is still attached to; two overlapping switches flip the view back; and
another client's new top-level session moves every terminal on its chat page to it.

### Fairness

* Session lifecycle: the boot sequence goes on, the command loop handles its
  queue, finalizers and winding-down session threads run. These are OS threads
  that block on nothing but their channels. A session thread reaches a Shutdown
  in its inbox, which relies on a cancelled worker returning: workers poll their
  cancel token and a blocked tool is abandoned at its deadline. No fairness is
  assumed of clients, requests, teardown or crashes, and `DeleteCompletes`
  promises nothing once the process leaves normal operation.
* Delivery: the command loop and the session threads drain their channels, and a
  connection whose reply arrived goes on. Nothing makes a client read, a writer
  progress or a session speak.
* Tool batch: the worker and each wait loop run, deadlines pass. Nothing is asked
  of a tool's own thread or of the user.
* Provider stream: the worker and the reader thread run while they are not blocked in a
  read, and time passes. Nothing is asked of the provider or the user.
* Shell tool: one condition over all threads of the tool and its timeout; the
  command and its descendants owe nothing.
* Sub-sessions, lag accounting, server lifecycle: the OS threads run. Clients,
  broadcasts, cancels and signals owe nothing, a writer blocked on a socket
  is released only by its shutdown, and nothing makes a call that blocks let go of
  the lock of its MCP client.
* Keystore: the daemon's threads run and a client reads what arrives.
* Accounts: the daemon handles a reported change of the file and the result of a
  prefetch thread, which sends one even when it panics.
* MCP: the callers, the reader thread and the teardown run and deadlines pass.
* Catalog: its three threads run, and time passes while the machine is awake.
* ACP: the bridge's loop, the daemon's threads and workers run, and an inference ends.
* Turn history and terminal client: only safety is stated, no fairness is assumed.

Most configurations say `CHECK_DEADLOCK FALSE`: once the bounds are used up, the
clients gone or the process ended, the system rightly stops. The session
lifecycle and the turn history, which restart, are checked for deadlock, and so is the
shell command until it has returned.

## 4. What is proved

Every theorem holds for all values of the module's constants that satisfy its
named assumption, except for the hypotheses stated here.

| theorem | statement | hypothesis |
|---|---|---|
| `SessionLifecycle_proofs!TypeCorrect` | `[]TypeOK` | |
| `…!DeletedStaysDeleted`, `OneThreadServes`, `DeletedIsTombstoned`, `FreshIds` | `[]NoResurrection`, `[]OneThreadPerSession`, `[]TombstoneCoversRecord`, `FreshIdIsFree` (no record, thread, entry or marker has the id of a new session) | `Survivable`: tombstone write, purge and load do not fail |
| `…!NoGhosts`, `NobodyElseVanishes`, `StoreRefined` | `[]NoGhostEntry`, `OnlyAskedVanish`, `ImplementsStore` | `NoFaults`: no database operation fails |
| `TurnHistory_proofs!HistoryTypeCorrect`, `UndoIsKept` | `[]TypeOK`, `UndoSticks` | |
| `…!UndoneContextNeverLeaks`, `HistoryIsStored`, `StoredTurnsStay`, `StartedIsRight` | `[]NoUndoneContext`, `[]StoredHistory`, `TurnIdsGrowUncrashed`, `[]StartedPredictsTurn` | `WriteFails = FALSE` |
| `…!PlainChainHolds` | `PlainSpec => []PlainChainHoldsHistory` | `WriteFails = FALSE` |
| `Services_proofs!McpOwnAnswer`, `McpOneRequest` | `[]OwnAnswer`; one request at a time, each with an id of its own | |
| `Server_proofs!KeystoreBindingIsHeld` | `[]BindingIsHeld` | `WrongKeys = {}` |
| `…!KeystoreNeverRebound` | `NeverRebound` | |
| `Tools_proofs!TreeWaiterHasSender`, `TreeNoWorkAfterExit` | `[]WaiterHasSender`, `[]NoWorkAfterExit` | |
| `Server_proofs!ServerRegisteredAreTold` | `[]RegisteredAreTold` | |
| `Services_proofs!AccountsStayInStep`, `LockedHoldsNoCredential` | `[]AccountsAgree`, `[]LockedIsWiped` | |
| `Delivery_proofs!NoEventReadTwice`, `AttachedClientsSeeAll`, `NothingIsLost` | `[]AtMostOnce`, `[]AttachedViewComplete`, `[]NoLoss` | |
| `Tools_proofs!BatchImplementsPromise`, `BatchLeavesNoneEmpty` | `AnsweredOnce`, `[]EveryCallAnswered` | `DistinctIds`: no two calls of the response have one id |
| `AcpAdapter_proofs!BridgeAnswers` | `[]AnsweredOrTracked` | |
| `TuiClient_proofs!ViewsAgree`, `DraftsAtHome`, `PromptsReachTheShown` | `[]AttachmentsAgree`, `[]DraftsStayHome`, `[]PromptRunsWhereShown` | |

None of the properties is inductive alone. The strengthenings were tried with TLC
on small instances first; a hypothesis is there because TLC shows the
property to fail without it (see the tables above).

**Types.** One lemma per group of actions. The parts that need an argument are
the operators that choose a number: `NextId` (the id after the highest loaded
one) and `NextAfter` (the next turn id) are shown to exist and to stay in range
by taking a least upper bound with the library's well-foundedness of `<`; and
that a worker's current turn is always in its own map, which depends on the
order start turn, inference, tools.

**Sessions.** `SessIInv` rests on `OneHand`: a session that is awake or being
deleted is in exactly one hand, of a live thread, of that thread's
`SessionExited` in the queue, of a finalizer, or of the finalizer's report. `HandIsGuarded`
and `DyingIsCovered` say that a deleted session in a hand is covered by the marker in
memory and by the tombstone on disk; `UpdateIsFollowed` that a late
metadata update of a thread is followed by that thread's exit in the queue, so
that the marker is still there when the update arrives; `OneIdEach` that an
incarnation belongs to one id and `UsedIsBelow` that an id in use is not given out
again; `FinalizedIsGone` and `PurgeVisits` that a record once removed stays away until
the marker goes, and that the boot purge still has every deleted record before it. `StoreIInv` adds what holds when
nothing fails: what is listed or served is stored, and what is marked or
tombstoned was asked to be deleted and announced. With it every step is a step of
`SessionStore` or changes nothing the store shows: the database transaction that
removes a record comes after the announcement, so it is a stutter.

**Undone context.** `NoUndoneContext` is not inductive: a step of the worker or a
crash moves into memory or onto disk what another copy held. `IInv` adds
`TokensAtHome` (a token never appears at two turn ids in any of the four copies of
the history), `WorkerUnleaked`, `WorkerFollows` (the worker's copy contains every
turn of the session thread, so what the merge keeps hidden is the same turn),
`CurVisible`, and `RecordSaved` and `HiddenIsKnown`, the order of the database
writes: an undo writes the record with the cleared response id *before* any turn
with its flag, so at every crash point a hidden stored turn comes with a harmless
stored id. The last two fail when a write may fail.

**Stored history.** `HInv`, until the first crash: the ids have no gaps
(`NoGaps`), so the number of turns, from which the worker numbers, is the next id;
the worker's copies hold the thread's turns (`Copies`); every turn the running
command has not still to write is stored (`Written`), and nothing else but the turn a
finished worker has persisted (`NothingElse`). `PInv` adds that every visible turn is in the response's context
or will be sent (`AllCovered`), in memory, in the worker's copies and on disk, and
that a turn hidden in a copy is hidden in the thread and one hidden there is hidden in
the database (`HiddenTogether`), which is what a redo breaks.

**MCP.** `OwnAnswer` is about what an answer belongs to, the client's guard about its id.
Between them stand three facts: one request is made at a time under the client's lock; no two
callers have the same id, and none has one still to be given out (`IdsAreOwn`); and
whatever is on the wires under the id of a request belongs to that request
(`WiresAreKnown`). So an answer that comes after its deadline is dropped by its id and never
taken for the next call's. With an id that is not advanced (`NextId_Same`) it is.

**Keystore.** A bind that is still to be read, on a live or a dropped connection,
carries the key its client holds, one that a later mint replaced, or comes too
late to matter (`BindsKept`); before the daemon is bound a confirmation can only
record what is stored already (`PendingAgrees`); and afterwards some holder of the binding
waits for nothing else, so no confirmation overwrites its key (`SteadyHolder`).

**Sub-sessions.** A session whose worker runs, or whose worker's report is in its
queue, has its request active, and the report is queued once
(`RequestIsActive`); with it, a waiting tool always has a sender that will answer or be
dropped (`WaiterHasSender`), whatever a shutdown meets first.

**Server.** `SrvIInv` follows each connection: an acceptor holds its own
(`InHand`), one that ended was told or does not read (`GoneHasEnded`, `EndedAreTold`), the
stages of the shutdown come in order (`StagesInOrder`), and until the broadcast is
handled a connection is registered or its registration is queued ahead of it
(`Reached`).

**Accounts.** `LockedIsWiped`: a locked daemon holds no credential in memory.
Without it, an account added while the daemon is locked would get a provider.

**Delivery.** Two invariants, both about positions in the daemon's queue, because the
daemon decides who gets an event only when it comes to it. Its knowledge at position
*i* is a function of the queue: the last track or untrack command for the client and
the session before *i*, or the entry in `client_subscribed_sessions` if there is none
(`TrackedAt`).

`DeliveryIInv` is about what must not come twice. `Pairs`: an event the session thread has put in
a client's sink is, wherever its copy stands in the queue, at a position at which the
client is tracked or gone (`Shield`); and a subscriber has a snapshot and every event since, once. `Numbered`:
an event is on the activity bus once, ahead of the status forward of the same change,
and its number was given out. `Logs`: a sink holds no event twice before an eviction notice and nothing newer than a
snapshot in front of it. `Membership` says
which commands about a client may still be in the queue: it registers once, and nothing
enlists it again behind its disconnect. The proof that an activity fan-out repeats
nothing is then local to the head of the queue.

`LossIInv` is the opposite direction: a client the thread did not serve must not be
tracked when the daemon comes to the event. `Untracked` says it for the end of the queue, where
new events go; `Debts` for the place of each event that is owed, unless an
unsubscription or the disconnect stands before it, which forgives it. That `Untracked` survives an exit and a
`RemoveSubscriber`, both of which drop a subscriber without an untrack command, needs
three facts about the session threads: `Threads` (a thread that runs is in
`active_sessions` with no `SessionExited` of its own in the queue; one that left has no subscriber and an
empty inbox; only sessions with a parent are told to shut down), `Waits` (a connection
asks for one attachment at a time and holds no channel end newer than the thread) and
`Subscriptions` (whoever is subscribed once the inbox is handled is an open connection
attached to this very thread, and a `RemoveSubscriber` never meets a subscribed client that is
neither evicted nor cut off). Where a parent shuts a session down the untrack is
missing, which is why `NoLoss` leaves those sessions out and `NoLossEver` fails. The constants
need nothing but what the module assumes: finitely many clients.

**Tool batch.** A record is filled exactly when the id of its call is in `executed`
(`RecordsFollowIds`), so with distinct ids no result can land in a record that has one.
`SerialPhase` and `CollectPhase` follow the two phases: in the first only session-config
calls are recorded; in the second what is recorded is what was taken from the
channel, and the channel holds each call once and none that is recorded; `AfterBatch`
that every call is recorded once the calls of dead wait loops are filled in, unless the request was cancelled. Every step then answers some open calls or leaves the records alone, which is a step of
`BatchAnswers` or a stutter. `tool_same_ids` shows that the hypothesis is needed.

**ACP bridge.** `SlotsMatch`: a pending request is in one slot, of its own kind and
session; `AnswersFit`: what is in a slot is unanswered, and what is unanswered is in a slot or
was displaced by a later request of its kind; `GuardFits` ties the session's active request to its
prompt. A `session/new` goes twice around, and the next may start while the first is in
its second round: `RoundsInOrder` says that the channels keep the two apart, and
`FreshSessions` that the session a `SessionCreated` names has no prompt yet.

**Terminal client.** `Settles`: when no attach is on its way to the daemon, the
last answer the client has still to read names the connection's session, and if there is
none the client shows it. For a client whose attaches follow one another, `OneAttach`
(one is under way at most), `AttachIsShown` (it is for the session shown, unless that was
deleted), `PromptsArrive` (for every prompt in the channel, the attach ahead of it, the
answer being passed on or the connection itself is at its session) and `Bars`. The
steps are sorted into six kinds by what they do to the channels, and the parts
about the channels are proved once for each kind.

Only model-checked, with the reason:

* liveness (`DeleteCompletes`, `DisconnectedIsForgotten`, `BatchEnds`, `RequestEnds`,
  `LaggardReaped`, `CancelReachesStarted`, `ExitTakesChildren`,
  `ShutdownCompletes`, `CommandEnds`, `KeyedClientBinds`, `CallsEnd`, `CatalogConverges`,
  `PromptAnswered`): temporal reasoning under fairness, and ENABLED, are outside
  what the prover handles;
* `CountersBalanced`, `RecordIsWhole` and `TurnIsTheResponse`: sums over queues, and
  the `SelectSeq` and folds that say what a sequence built event by event must be, need an
  induction over data, which the provers cannot instantiate.

## 5. What is not modelled

Within the modelled parts: the text of messages and turns, usage and cost
figures, titles and other session settings, timestamps, provider and model
changes in mid-session (which reset the chain), database corruption, thread spawn
failure, and more than one crash per turn-history behaviour. Retries of a write
are part of its outcome: it fails only after its last retry.

The map covers the code in which several threads, processes or failures meet,
a small share of the workspace's 123,000 lines. Most of the rest is not a state
machine another actor can disturb: rendering and widgets (`choreo-tui` beyond its
session state, `choreo-gui`, `choreo-markdown`, `choreo-image`), the generated
chain interface (`choreo-content/src/acuity_runtime.rs`, `choreo-blockchain`), tools
that are one function call each (grep, file, git, web, vm), wire formats and parsers
(`choreo-proto`, the event formats of `choreo-ai-protocols`), the database codec and
its migrations, Windows variants, transport cryptography, packaging and tests. The
IM bridge and the access control list are small and keep no state across messages
that an interleaving could break.

## 6. What could come next

Every safety property the runs check is proved, but for the three above. Open are

1. `LagAccounting`: a formulation of the counters with a ghost bag per client, in which
   each send and each dequeue moves one element, would bring `CountersBalanced` within
   reach without sums;
2. `Delivery`: the sessions a parent shuts down, once `handle_shutdown` tells the daemon
   who was attached; `NoLossEver` is the property to prove then;
3. the shell tool: `record = seen` in streaming mode, which needs no fold.

## 7. Running it

    tlc -config Turns.cfg MCRecords
    tlapm TurnHistory_proofs.tla

Each run of `PROJECT.json` names its module and configuration. The proofs take
between half a minute and a few minutes per module, `Delivery_proofs` up to a quarter of
an hour.
