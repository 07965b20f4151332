----------------------------- MODULE ShellTool -----------------------------
(***************************************************************************)
(* One command run by a shell tool (tools/shell_util.rs, Unix): the child  *)
(* and what it leaves behind, the watchdog with its timeout, a drain for   *)
(* each of the two pipes, and the caller that collects them.  In streaming *)
(* mode (spawn_with_streaming) the drains feed a merger, which forwards    *)
(* every line to the client's channel and keeps what it forwarded as the   *)
(* body of the record; in buffered mode (spawn_with_watchdog) each drain   *)
(* keeps its own output.                                                   *)
(*                                                                         *)
(* A line is <<pipe, i>>, the i-th line the child wrote there, or <<pipe,  *)
(* 0>> when its survivor wrote it, and LineLen bytes long; escaping, line  *)
(* splitting and the wait() that fails are left out.  A grace of the       *)
(* caller is long compared with a step of a thread: it is over only when   *)
(* no thread can move or a survivor goes on writing.                       *)
(***************************************************************************)
EXTENDS Naturals, Sequences, SequencesExt

CONSTANTS
    MaxLines,   \* lines the child writes
    MaxLate,    \* lines its survivor writes
    PipeCap, MergeCap, OutCap,
    StreamLimit \* MAX_TOOL_OUTPUT_BYTES without the framing of the record

ASSUME ShellBounds ==
    /\ {MaxLines, MaxLate, StreamLimit} \subseteq Nat
    /\ {PipeCap, MergeCap, OutCap} \subseteq Nat \ {0}

Pipes == {"stdout", "stderr"}
LineLen == 2
Marker == [of |-> <<"...[truncated]", 0>>, len |-> 0]
Piece(line, n) == [of |-> line, len |-> n]

VARIABLES
    mode,       \* "streaming" or "buffered"
    child,      \* "running", "exited" (a zombie) or "reaped"
    survivor,   \* a descendant that holds the pipes: "none", "grouped" or
                \* "free" (it left the process group)
    wrote, late, pipe,
    watchdog,   \* "waiting" or "over"
    done,       \* done_tx was signalled
    killed,     \* killed_tx was signalled
    abort,      \* the abort channel: "open", "sent" or "closed"
    drain,      \* pipe -> "read", "send" or "over"
    held,       \* pipe -> the lines a drain has read and not sent
    stop,       \* the drains were told to stop
    merge,      \* the merge channel
    merger,     \* "recv", "send", "select" or "over"
    pieces,     \* what the merger still has to forward of its line
    budget,     \* drain or merger -> its ByteBudget
    body,       \* drain or merger -> what it has accumulated
    outq,       \* the client's channel
    reader,     \* whether its receiver exists
    seen,       \* everything that was put into it
    caller,     \* what the caller has still to do
    detached,   \* threads whose handle was dropped
    record      \* the output returned

processes == <<child, survivor, wrote, late, pipe>>
signals == <<watchdog, done, killed, abort>>
threads == <<drain, held, merge, merger, pieces, budget, body>>
client == <<outq, reader, seen>>
callers == <<caller, detached, record, stop>>
shVars == <<mode, processes, signals, threads, client, callers>>

Keepers == Pipes \cup {"merger"}

ShellInit ==
    /\ mode \in {"streaming", "buffered"}
    /\ child = "running" /\ survivor = "none"
    /\ wrote = [p \in Pipes |-> 0] /\ late = 0 /\ pipe = [p \in Pipes |-> <<>>]
    /\ watchdog = "waiting" /\ done = FALSE /\ killed = FALSE /\ abort = "open"
    /\ drain = [p \in Pipes |-> "read"] /\ held = [p \in Pipes |-> <<>>] /\ merge = <<>>
    /\ merger = IF mode = "streaming" THEN "recv" ELSE "over"
    /\ pieces = <<>>
    /\ budget = [k \in Keepers |-> [used |-> 0, truncated |-> FALSE, marker_sent |-> FALSE]]
    /\ body = [k \in Keepers |-> <<>>]
    /\ outq = <<>> /\ reader = TRUE /\ seen = <<>>
    /\ caller = IF mode = "streaming"
                THEN <<"wait", "signal", "stdout", "stderr", "merger", "watchdog">>
                ELSE <<"wait", "signal", "watchdog", "stdout", "stderr">>
    /\ stop = FALSE /\ detached = {} /\ record = <<>>

(***************************************************************************)
(* The processes and the client, which nothing makes go on.                *)
(***************************************************************************)
WriteLine(p, line) ==
    /\ Len(pipe[p]) < PipeCap /\ drain[p] # "over"
    /\ pipe' = [pipe EXCEPT ![p] = Append(@, line)]

ChildWrites(p) ==
    /\ child = "running" /\ wrote["stdout"] + wrote["stderr"] < MaxLines
    /\ WriteLine(p, <<p, wrote[p] + 1>>)
    /\ wrote' = [wrote EXCEPT ![p] = @ + 1]
    /\ UNCHANGED <<mode, child, survivor, late, signals, threads, client, callers>>

\* "&", a daemon, or setsid
ChildForks ==
    /\ child = "running" /\ survivor = "none" /\ late = 0
    /\ survivor' \in {"grouped", "free"}
    /\ UNCHANGED <<mode, child, wrote, late, pipe, signals, threads, client, callers>>

ChildExits ==
    /\ child = "running" /\ child' = "exited"
    /\ UNCHANGED <<mode, survivor, wrote, late, pipe, signals, threads, client, callers>>

SurvivorWrites(p) ==
    /\ survivor # "none" /\ late < MaxLate
    /\ WriteLine(p, <<p, 0>>) /\ late' = late + 1
    /\ UNCHANGED <<mode, child, survivor, wrote, signals, threads, client, callers>>

SurvivorExits ==
    /\ survivor # "none" /\ survivor' = "none"
    /\ UNCHANGED <<mode, child, wrote, late, pipe, signals, threads, client, callers>>

ReaderTakes ==
    /\ reader /\ outq # <<>> /\ outq' = Tail(outq)
    /\ UNCHANGED <<mode, processes, signals, threads, reader, seen, callers>>

ReaderGoes ==
    /\ reader /\ reader' = FALSE /\ outq' = <<>>
    /\ UNCHANGED <<mode, processes, signals, threads, seen, callers>>

(***************************************************************************)
(* The watchdog.                                                           *)
(***************************************************************************)
WatchdogDone ==
    /\ watchdog = "waiting" /\ done
    /\ watchdog' = "over" /\ abort' = "closed"
    /\ UNCHANGED <<mode, processes, done, killed, threads, client, callers>>

\* kill_child_tree: a child that was not reaped takes the signal (one that
\* has exited may), and then its group is swept.
KillChildTree(lands) ==
    /\ lands \in CASE child = "running" -> {TRUE} [] child = "exited" -> BOOLEAN
                   [] child = "reaped" -> {FALSE}
    /\ child' = IF lands THEN "exited" ELSE child
    /\ survivor' = IF lands /\ survivor = "grouped" THEN "none" ELSE survivor

WatchdogExpires ==
    /\ watchdog = "waiting" /\ ~done
    /\ watchdog' = "over"
    /\ \E lands \in BOOLEAN :
         /\ KillChildTree(lands)
         /\ killed' = lands
         /\ abort' = IF lands THEN "sent" ELSE "closed"
    /\ UNCHANGED <<mode, wrote, late, pipe, done, threads, client, callers>>

(***************************************************************************)
(* ByteBudget: how much of a line may go on, and whether it is cut.        *)
(***************************************************************************)
Fit(b, n) == IF b.used + n > StreamLimit THEN StreamLimit - b.used ELSE n

Spend(b, n) ==
    [b EXCEPT !.used = @ + Fit(b, n), !.truncated = @ \/ Fit(b, n) < n]

Prefix(line, n) == IF n = 0 THEN <<>> ELSE <<Piece(line, n)>>

(***************************************************************************)
(* A drain: drain_fd, poll_readable.                                       *)
(***************************************************************************)
Eof(p) == child # "running" /\ survivor = "none"

DrainTakes(p) ==
    /\ drain[p] = "read" /\ pipe[p] # <<>>
    /\ pipe' = [pipe EXCEPT ![p] = Tail(@)]
    /\ LET line == Head(pipe[p])
           n == Fit(budget[p], LineLen)
       IN \/ /\ mode = "streaming"
             /\ drain' = [drain EXCEPT ![p] = "send"] /\ held' = [held EXCEPT ![p] = <<line>>]
             /\ UNCHANGED <<budget, body>>
          \/ /\ mode = "buffered" /\ UNCHANGED <<drain, held>>
             /\ budget' = [budget EXCEPT ![p] = Spend(@, LineLen)]
             /\ body' = [body EXCEPT ![p] = @ \o Prefix(line, n)]
    /\ UNCHANGED <<mode, child, survivor, wrote, late, signals, merge, merger,
                   pieces, client, callers>>

\* The send fails, and the line is dropped, once the merger is over.
DrainSends(p) ==
    /\ drain[p] = "send" /\ held' = [held EXCEPT ![p] = <<>>]
    /\ \/ merger = "over" /\ UNCHANGED merge
       \/ merger # "over" /\ Len(merge) < MergeCap /\ merge' = merge \o held[p]
    /\ drain' = [drain EXCEPT ![p] = "read"]
    /\ UNCHANGED <<mode, processes, signals, merger, pieces, budget, body, client, callers>>

\* The stop signal is looked at when a poll finds nothing to read.
Drained(p) == drain[p] = "read" /\ pipe[p] = <<>> /\ (stop \/ Eof(p))

DrainEnds(p) ==
    /\ Drained(p)
    /\ drain' = [drain EXCEPT ![p] = "over"]
    /\ UNCHANGED <<mode, processes, signals, held, merge, merger, pieces, budget, body,
                   client, callers>>

(***************************************************************************)
(* The merger.                                                             *)
(***************************************************************************)
MergerTakes ==
    /\ merger = "recv" /\ merge # <<>>
    /\ merge' = Tail(merge)
    /\ LET b == budget["merger"]
           after == Spend(b, LineLen)
           cut == after.truncated /\ ~b.marker_sent
           out == Prefix(Head(merge), Fit(b, LineLen)) \o (IF cut THEN <<Marker>> ELSE <<>>)
       IN /\ budget' = [budget EXCEPT !["merger"] = [after EXCEPT !.marker_sent = @ \/ cut]]
          /\ pieces' = out
          /\ merger' = IF out = <<>> THEN "recv" ELSE "send"
    /\ UNCHANGED <<mode, processes, signals, drain, held, body, client, callers>>

MergerOver ==
    /\ merger' = "over" /\ pieces' = <<>> /\ merge' = <<>>

\* A piece is forwarded, and then part of the body.
Forwarded ==
    /\ outq' = Append(outq, Head(pieces)) /\ seen' = Append(seen, Head(pieces))
    /\ body' = [body EXCEPT !["merger"] = Append(@, Head(pieces))]
    /\ pieces' = Tail(pieces)
    /\ merger' = IF Len(pieces) = 1 THEN "recv" ELSE "send"
    /\ UNCHANGED merge

\* Mutants: a closed channel is taken for an abort; no abort is looked at.
Aborted_Closed == abort # "open"
Aborted_Never == FALSE

\* A closed abort channel is no abort: the send goes on without it.
Aborted == abort = "sent"

HasRoom == Len(outq) < OutCap

\* StreamByteCap::forward: at once when there is room, and otherwise
\* whichever of room and abort comes first.
ForwardPiece ==
    /\ merger \in {"send", "select"}
    /\ \/ ~reader /\ MergerOver /\ UNCHANGED <<outq, seen, body>>
       \/ reader /\ HasRoom /\ Forwarded
       \/ /\ reader /\ ~HasRoom /\ merger = "send" /\ merger' = "select"
          /\ UNCHANGED <<outq, seen, body, pieces, merge>>
       \/ /\ reader /\ merger = "select" /\ Aborted /\ MergerOver
          /\ UNCHANGED <<outq, seen, body>>
    /\ UNCHANGED <<mode, processes, signals, drain, held, budget, reader, callers>>

MergerEnds ==
    /\ merger = "recv" /\ merge = <<>> /\ \A p \in Pipes : drain[p] = "over"
    /\ MergerOver
    /\ UNCHANGED <<mode, processes, signals, drain, held, budget, body, client, callers>>

(***************************************************************************)
(* The caller.                                                             *)
(***************************************************************************)
Doing(what) == caller # <<>> /\ Head(caller) = what /\ caller' = Tail(caller)

Wait ==
    /\ Doing("wait") /\ child = "exited" /\ child' = "reaped"
    /\ UNCHANGED <<mode, survivor, wrote, late, pipe, signals, threads, client,
                   detached, record, stop>>

SignalThreads ==
    /\ Doing("signal") /\ done' = TRUE /\ stop' = TRUE
    /\ UNCHANGED <<mode, processes, watchdog, killed, abort, threads, client,
                   detached, record>>

JoinWatchdog ==
    /\ Doing("watchdog") /\ watchdog = "over"
    /\ UNCHANGED <<mode, processes, signals, threads, client, detached, record, stop>>

Over(k) == IF k = "merger" THEN merger = "over" ELSE drain[k] = "over"

\* Whether some thread of the tool has a step to take
Moving ==
    \/ \E p \in Pipes :
         \/ drain[p] = "read" /\ (pipe[p] # <<>> \/ stop \/ Eof(p))
         \/ drain[p] = "send" /\ (merger = "over" \/ Len(merge) < MergeCap)
    \/ merger = "recv" /\ (merge # <<>> \/ \A p \in Pipes : drain[p] = "over")
    \/ merger = "send"
    \/ merger = "select" /\ (~reader \/ HasRoom \/ Aborted)

\* collect_capped_drain, collect_line_drains, collect_merger_body
Collect(k) ==
    /\ Doing(k)
    /\ \/ Over(k) /\ record' = record \o body[k] /\ UNCHANGED detached
       \/ /\ ~Over(k) /\ ((survivor # "none" /\ late > 0) \/ ~Moving)
          /\ detached' = detached \cup {k} /\ UNCHANGED record
    /\ UNCHANGED <<mode, processes, signals, threads, client, stop>>

(***************************************************************************)
(* The specification.                                                      *)
(***************************************************************************)
Drain(p) == DrainTakes(p) \/ DrainSends(p) \/ DrainEnds(p)
Merger == MergerTakes \/ ForwardPiece \/ MergerEnds
Caller == Wait \/ SignalThreads \/ JoinWatchdog \/ \E k \in Keepers : Collect(k)

ThreadsOfTool ==
    \/ WatchdogDone \/ WatchdogExpires
    \/ \E p \in Pipes : Drain(p)
    \/ Merger
    \/ Caller

ShellNext ==
    \/ \E p \in Pipes : ChildWrites(p) \/ SurvivorWrites(p)
    \/ ChildForks \/ ChildExits \/ SurvivorExits \/ ReaderTakes \/ ReaderGoes
    \/ ThreadsOfTool

\* As long as a thread of the tool has a step to take, the timeout included,
\* one of them takes it; the processes and the client owe nothing.
ShellFairness == WF_shVars(ThreadsOfTool)

ShellSpec == ShellInit /\ [][ShellNext]_shVars /\ ShellFairness

(***************************************************************************)
(* Properties.                                                             *)
(***************************************************************************)
Returned == caller = <<>>

Text(p) == SelectSeq(record, LAMBDA x : x.of[1] = p /\ x.of[2] # 0)
Size(out) == FoldSeq(LAMBDA x, n : x.len + n, 0, out)

\* Every line the child wrote to p is in the record
AllOf(p) == Text(p) = [i \in 1 .. wrote[p] |-> Piece(<<p, i>>, LineLen)]

\* ... or the beginning of what there was, up to the limit
CutAtLimit ==
    /\ \A p \in Pipes : \A i \in DOMAIN Text(p) : Text(p)[i].of[2] = i
    /\ IF mode = "streaming"
       THEN Size(record) = StreamLimit /\ Last(record) = Marker
       ELSE \A p \in Pipes : Size(body[p]) = StreamLimit \/ AllOf(p)

\* The record of a command whose threads were all collected is what the
\* client was sent, to the byte.  If it was not killed and its client
\* stayed, nothing the child wrote is missing, on either stream, although
\* the drains are told to stop as soon as it is reaped, the abort channel
\* closes at that moment, and a survivor may still hold the pipes; only the
\* limit cuts it, with one marker at the cut.
RecordIsWhole ==
    Returned /\ detached = {} =>
      /\ mode = "streaming" => record = seen
      /\ ~killed /\ reader => CutAtLimit \/ \A p \in Pipes : AllOf(p)

\* The tool returns whatever its processes and its client do, and the
\* threads of a command that was killed end although nobody reads its
\* output, unless a survivor outside the group keeps its pipes.
ShellToolEnds ==
    /\ <>Returned
    /\ killed ~> (\A k \in Keepers : Over(k)) \/ survivor = "free"

\* spawn_with_streaming says that the record "is byte-identical to what the
\* client saw live".
RecordIsAlwaysStream ==
    Returned /\ mode = "streaming" /\ ~killed /\ reader => record = seen
=============================================================================
