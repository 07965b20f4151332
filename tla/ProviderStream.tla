---------------------------- MODULE ProviderStream ----------------------------
(***************************************************************************)
(* One streaming request to a model provider (choreo-ai-protocols): the    *)
(* retry loop in front of it, the thread that reads the response's events, *)
(* the consumer that waits for an event, a cancel or the deadline, and     *)
(* what each of the four adapters makes of the events.                     *)
(*                                                                         *)
(* The worker of the request is `phase'; the reader thread is `reader',    *)
(* joined to it by the channel `sse'.  The provider's response is *)
(* `wire', the events it has sent so far; a text is known by its place in  *)
(* it.  The arguments of a tool call come in two halves, 1 and 2; an       *)
(* adapter's protocol adds an event with the whole call (3) or one that    *)
(* opens it with an empty object (0).                                      *)
(***************************************************************************)
EXTENDS Integers, Sequences, FiniteSets

CONSTANTS
    Apis,           \* the adapters a behaviour may be about
    MaxAttempts,    \* retry_max_attempts
    MaxEvents,      \* bound: events of one response
    MaxToolCalls,   \* MAX_TOOL_CALLS
    ChannelCap      \* SSE_CHANNEL_CAPACITY

ASSUME StreamAssumption ==
    /\ Apis \subseteq {"chat", "responses", "anthropic", "google"}
    /\ MaxAttempts \in Nat \ {0} /\ MaxEvents \in Nat
    /\ MaxToolCalls \in Nat \ {0} /\ ChannelCap \in Nat \ {0}

VARIABLES
    api,        \* the adapter
    bounded,      \* total_timeout_secs > 0
    phase,      \* where the worker is
    attempt,    \* retry_loop's counter
    late,       \* the deadline of the attempt has passed
    cancel,     \* cancel_rx: "none", "queued", "taken"
    wire,       \* what the provider has sent, as far as it was read
    reader,     \* the reader thread: where it is and the message it holds
    sse,       \* messages to the consumer: a place in `wire', End or Failed
    acc,        \* the adapter's accumulator
    shown,      \* places of `wire' forwarded to the clients
    result      \* what the worker gets

psVars == <<api, bounded, phase, attempt, late, cancel, wire, reader, sse, acc,
            shown, result>>

End == 0
Failed == -1

Empty == [text |-> <<>>, reasoning |-> <<>>, calls |-> <<>>]

NoTurn(kind) == [kind |-> kind, text |-> <<>>, reasoning |-> <<>>, calls |-> <<>>]

StreamInit ==
    /\ api \in Apis /\ bounded \in BOOLEAN
    /\ phase = "attempt" /\ attempt = 0 /\ late = FALSE
    /\ cancel = "none" /\ wire = <<>>
    /\ reader = [at |-> "none", held |-> End] /\ sse = <<>>
    /\ acc = Empty
    /\ shown = <<>> /\ result = NoTurn("none")

-----------------------------------------------------------------------------
(* The provider's side.                                                     *)

\* The pieces of one tool call, in the order the API sends them
Pieces == CASE api = "chat" -> <<1, 2>>
            [] api = "responses" -> <<1, 2, 3>>
            [] api = "anthropic" -> <<0, 1, 2>>
            [] api = "google" -> <<3>>

Places(w, kind) == SelectSeq([i \in 1..Len(w) |-> i], LAMBDA i : w[i].kind = kind)
CallsIn(w) == {w[i].call : i \in {j \in 1..Len(w) : w[j].kind = "call"}}
Received(w, c) == Cardinality({i \in 1..Len(w) : w[i].kind = "call" /\ w[i].call = c})
WholeCalls(w) == {c \in CallsIn(w) : Received(w, c) = Len(Pieces)}
OpenCalls(w) == CallsIn(w) \ WholeCalls(w)

Event(kind, call, piece) == [kind |-> kind, call |-> call, piece |-> piece]

\* What may follow: Anthropic sends its blocks one after the other, the
\* others may interleave calls; only a whole response ends with a mark.
MaySend ==
    {Event(k, 0, 0) : k \in IF api = "anthropic" /\ OpenCalls(wire) # {}
                            THEN {"failed"} ELSE {"text", "reasoning", "failed"}}
    \cup {Event("call", c, Pieces[Received(wire, c) + 1]) :
            c \in OpenCalls(wire) \cup
                  (IF api = "anthropic" /\ OpenCalls(wire) # {} THEN {}
                   ELSE {Cardinality(CallsIn(wire)) + 1})}
    \cup {Event("stop", 0, 0) : x \in {1} \ (IF OpenCalls(wire) # {} \/ api = "google"
                                             THEN {1} ELSE {})}

\* What is read when the request is over makes no difference
MoreComes ==
    /\ phase # "done" /\ Len(wire) < MaxEvents
    /\ wire # <<>> => wire[Len(wire)].kind \notin {"stop", "failed"}

-----------------------------------------------------------------------------
(* The retry loop.                                                          *)

\* The call returns: its locals, the stream among them, are dropped
Finish(r) ==
    /\ phase' = "done" /\ result' = r
    /\ attempt' = 0 /\ late' = FALSE /\ sse' = <<>> /\ acc' = Empty

GoOn == UNCHANGED <<attempt, late, sse, acc, result>>

\* deadline.reset(); check_cancelled
BeginAttempt ==
    /\ phase = "attempt"
    /\ IF cancel = "queued"
       THEN cancel' = "taken" /\ Finish(NoTurn("cancelled"))
       ELSE /\ phase' = "sending"
            /\ attempt' = attempt + 1 /\ late' = FALSE
            /\ UNCHANGED <<cancel, sse, acc, result>>
    /\ UNCHANGED <<api, bounded, wire, reader, shown>>

\* wait_before_retry
Backoff == phase' = "backoff" /\ GoOn

\* A transport error, or ureq's global timeout
SendFails ==
    /\ phase = "sending"
    /\ IF attempt < MaxAttempts THEN Backoff ELSE Finish(NoTurn("io"))
    /\ UNCHANGED <<api, bounded, cancel, wire, reader, shown>>

IsRetryableStatus(s) == s \in {429, 500, 502, 503, 504}

\* Retry-After is heeded on 429 and 503 only; "long" is above the ceiling
RetryDecision(s, after) == s \in {429, 503} => after # "long"

SendRejected(s, after) ==
    /\ phase = "sending"
    /\ IF IsRetryableStatus(s) /\ attempt < MaxAttempts /\ RetryDecision(s, after)
       THEN Backoff
       ELSE Finish(NoTurn("http"))
    /\ UNCHANGED <<api, bounded, cancel, wire, reader, shown>>

SendAccepted ==
    /\ phase = "sending"
    /\ phase' = "polling"
    /\ reader' = [reader EXCEPT !.at = "boundary"]
    /\ attempt' = 0    \* retry_loop is left
    /\ UNCHANGED <<api, bounded, late, cancel, wire, sse, acc, shown, result>>

\* sleep_or_cancel: a cancel ends the wait, or the timer wins the race
BackoffEnds ==
    /\ phase = "backoff"
    /\ \/ /\ cancel = "queued"
          /\ cancel' = "taken" /\ Finish(NoTurn("cancelled"))
       \/ phase' = "attempt" /\ GoOn /\ UNCHANGED cancel
    /\ UNCHANGED <<api, bounded, wire, reader, shown>>

-----------------------------------------------------------------------------
(* The reader thread.  Its abort signal is sent, and the receiver dropped,  *)
(* when the request is over.                                                *)

\* The abort check at the loop boundary
ReaderLoops ==
    /\ reader.at = "boundary"
    /\ reader' = [reader EXCEPT !.at = IF phase = "done" THEN "gone" ELSE "reading"]
    /\ UNCHANGED <<api, bounded, phase, attempt, late, cancel, wire,
                   sse, acc, shown, result>>

\* next_event returns: an event of the provider, the end of the body, or a
\* failed read (a lost connection, an idle or a global timeout).  What the
\* provider sends earlier than it is read is not seen earlier.  The "[DONE]"
\* of chat completions is not an event, and the read goes on until the body
\* ends.
ReaderReads ==
    /\ reader.at = "reading"
    /\ \/ /\ MoreComes
          /\ \E e \in MaySend :
                /\ wire' = Append(wire, e)
                /\ IF api = "chat" /\ e.kind = "stop"
                   THEN UNCHANGED reader
                   ELSE reader' = [at |-> "sending", held |-> Len(wire) + 1]
       \/ /\ reader' \in [at : {"sending"}, held : {End, Failed}]
          /\ UNCHANGED wire
    /\ UNCHANGED <<api, bounded, phase, attempt, late, cancel, sse, acc, shown, result>>

\* The bounded send, which fails once the receiver is gone
ReaderSends ==
    /\ reader.at = "sending"
    /\ \/ /\ phase = "done"
          /\ reader' = [reader EXCEPT !.at = "gone"]
          /\ UNCHANGED sse
       \/ /\ phase # "done" /\ Len(sse) < ChannelCap
          /\ sse' = Append(sse, reader.held)
          /\ reader' = [reader EXCEPT !.at = IF reader.held \in {End, Failed}
                                             THEN "gone" ELSE "boundary"]
    /\ UNCHANGED <<api, bounded, phase, attempt, late, cancel, wire,
                   acc, shown, result>>

-----------------------------------------------------------------------------
(* The accumulators.  A call is known by its number; `named' says that its  *)
(* name has come.  Each adapter says which piece it refuses and what it     *)
(* makes of the others.                                                     *)

NoCall == [call |-> 0, named |-> FALSE, args |-> <<>>]

Pad(calls, n) == [i \in 1..(IF n > Len(calls) THEN n ELSE Len(calls)) |->
                    IF i <= Len(calls) THEN calls[i] ELSE NoCall]

\* The shared part: text and reasoning are kept as they are forwarded
Say(a, i) == CASE wire[i].kind = "text" -> [a EXCEPT !.text = Append(@, i)]
               [] wire[i].kind = "reasoning" -> [a EXCEPT !.reasoning = Append(@, i)]
               [] OTHER -> a

ChatRefuses(a, e) ==
    \/ e.kind = "failed"     \* does not parse: `choices' is required
    \/ e.kind = "call" /\ (Len(a.calls) >= MaxToolCalls \/ e.call > MaxToolCalls)

ChatApply(a, i) ==
    LET e == wire[i]
    IN  IF e.kind # "call" THEN Say(a, i)
        ELSE [a EXCEPT !.calls =
                [Pad(@, e.call) EXCEPT ![e.call].call = e.call,
                                       ![e.call].named = TRUE,
                                       ![e.call].args = Append(@, e.piece)]]

\* "failed" stands for response.failed and response.incomplete
ResponsesRefuses(a, e) ==
    \/ e.kind = "failed"
    \/ e.kind = "call" /\ e.piece # 3 /\ Len(a.calls) >= MaxToolCalls

ResponsesApply(a, i) ==
    LET e == wire[i]
    IN  IF e.kind # "call" THEN Say(a, i)
        ELSE [a EXCEPT !.calls =
                [Pad(@, e.call) EXCEPT ![e.call].call = e.call,
                                       ![e.call].named = (@ \/ e.piece = 3),
                                       ![e.call].args = IF e.piece = 3 THEN <<1, 2>>
                                                        ELSE Append(@, e.piece)]]

\* The content block an event belongs to, counted from one
Block(i) ==
    Cardinality({j \in 1..i : \/ wire[j].kind = "call" /\ wire[j].piece = 0
                              \/ /\ wire[j].kind \in {"text", "reasoning"}
                                 /\ j = 1 \/ wire[j - 1].kind # wire[j].kind})

AnthropicRefuses(a, i) == wire[i].kind = "call" /\ Block(i) > MaxToolCalls

\* The vector of calls is indexed by the content block, and the empty object
\* that opens a call stays in front of its arguments.
AnthropicApply(a, i) ==
    LET e == wire[i]
        b == Block(i)
    IN  IF e.kind # "call" THEN Say(a, i)
        ELSE [a EXCEPT !.calls =
                [Pad(@, b) EXCEPT ![b].call = e.call,
                                  ![b].named = TRUE,
                                  ![b].args = IF e.piece = 0 THEN <<0>>
                                              ELSE Append(@, e.piece)]]

GoogleRefuses(a, e) == e.kind = "call" /\ Len(a.calls) >= MaxToolCalls

GoogleApply(a, i) ==
    LET e == wire[i]
    IN  IF e.kind # "call" THEN Say(a, i)
        ELSE [a EXCEPT !.calls =
                Append(@, [call |-> e.call, named |-> TRUE, args |-> <<1, 2>>])]

Refuses(a, i) == CASE api = "chat" -> ChatRefuses(a, wire[i])
                   [] api = "responses" -> ResponsesRefuses(a, wire[i])
                   [] api = "anthropic" -> AnthropicRefuses(a, i)
                   [] api = "google" -> GoogleRefuses(a, wire[i])

Apply(a, i) == CASE api = "chat" -> ChatApply(a, i)
                 [] api = "responses" -> ResponsesApply(a, i)
                 [] api = "anthropic" -> AnthropicApply(a, i)
                 [] api = "google" -> GoogleApply(a, i)

-----------------------------------------------------------------------------
(* The turn an accumulated stream becomes.                                  *)

HasOutput(a) == a.text # <<>> \/ a.reasoning # <<>> \/ a.calls # <<>>

Turn(kind, a, calls) ==
    [kind |-> kind, text |-> a.text, reasoning |-> a.reasoning, calls |-> calls]

\* Arguments that parse: all of them, or the empty object alone
Parses(c) == c.args \in {<<1, 2>>, <<0>>}

\* validate_tool_call_arguments
Valid_All(calls) == calls
Valid(calls) == SelectSeq(calls, Parses)

ChatResult(a) ==
    IF ~HasOutput(a) THEN NoTurn("empty")
    ELSE IF Valid(a.calls) # <<>> THEN Turn("tools", a, Valid(a.calls))
    ELSE Turn("final", a, <<>>)

ResponsesResult(a) ==
    LET named == SelectSeq(a.calls, LAMBDA c : c.named)
    IN  IF Valid(named) # <<>> THEN Turn("tools", a, Valid(named))
        ELSE IF a.text # <<>> THEN Turn("final", a, <<>>)
        ELSE IF named # <<>> THEN NoTurn("truncated")
        ELSE NoTurn("empty")

AnthropicResult(a) ==
    IF a.calls # <<>> THEN Turn("tools", a, a.calls)
    ELSE IF a.text # <<>> THEN Turn("final", a, <<>>)
    ELSE NoTurn("empty")

GoogleResult(a) ==
    IF ~HasOutput(a) THEN NoTurn("empty")
    ELSE IF a.calls # <<>> THEN Turn("tools", a, a.calls)
    ELSE Turn("final", a, <<>>)

TurnResult(a) == CASE api = "chat" -> ChatResult(a)
                   [] api = "responses" -> ResponsesResult(a)
                   [] api = "anthropic" -> AnthropicResult(a)
                   [] api = "google" -> GoogleResult(a)

-----------------------------------------------------------------------------
(* The consumer: recv_sse_event and the adapter's loop around it.           *)

Expired == bounded /\ late

\* The exact timer of the select
TimerFires_Never == FALSE
TimerFires == Expired

Deadline == Finish(NoTurn("deadline")) /\ UNCHANGED <<cancel, shown>>

Cancelled ==
    /\ cancel' = "taken"
    /\ Finish(NoTurn("cancelled"))
    /\ UNCHANGED shown

\* An event is kept and forwarded
Take(i) ==
    /\ sse' = Tail(sse)
    /\ acc' = Apply(acc, i)
    /\ shown' = IF wire[i].kind \in {"text", "reasoning"} THEN Append(shown, i)
                                                          ELSE shown
    /\ phase' = "polling"
    /\ UNCHANGED <<attempt, late, result>>

\* A message of the reader: the end of the stream gives the turn, a failed
\* read and a refused event an error.
Message ==
    LET m == Head(sse)
        refused == IF m \in {End, Failed} THEN m = Failed ELSE Refuses(acc, m)
        over == IF m \in {End, Failed} THEN m = End ELSE wire[m].kind = "stop"
    IN  /\ \/ refused /\ Finish(NoTurn("io")) /\ UNCHANGED shown
           \/ ~refused /\ over /\ Finish(TurnResult(acc)) /\ UNCHANGED shown
           \/ ~refused /\ ~over /\ Take(m)
        /\ UNCHANGED cancel

\* The call begins: the deadline, then the arms of the select in their order
Poll ==
    /\ phase = "polling"
    /\ IF Expired THEN Deadline
       ELSE IF cancel = "queued" THEN Cancelled
       ELSE IF sse # <<>> THEN Message
       ELSE phase' = "waiting" /\ GoOn /\ UNCHANGED <<cancel, shown>>
    /\ UNCHANGED <<api, bounded, wire, reader>>

\* Blocked in the select: whatever is ready first
Wake ==
    /\ phase = "waiting"
    /\ \/ TimerFires /\ Deadline
       \/ cancel = "queued" /\ Cancelled
       \/ sse # <<>> /\ Message
    /\ UNCHANGED <<api, bounded, wire, reader>>

-----------------------------------------------------------------------------
(* The user, time, and the specification.                                   *)

CancelRequest ==
    /\ cancel = "none" /\ phase # "done"
    /\ cancel' = "queued"
    /\ UNCHANGED <<api, bounded, phase, attempt, late, wire, reader,
                   sse, acc, shown, result>>

DeadlinePasses ==
    /\ bounded /\ ~late /\ phase \in {"sending", "polling", "waiting"}
    /\ late' = TRUE
    /\ UNCHANGED <<api, bounded, phase, attempt, cancel, wire, reader,
                   sse, acc, shown, result>>

WorkerMoves == \/ BeginAttempt \/ BackoffEnds \/ Poll \/ Wake
               \/ Expired /\ SendFails

StreamNext ==
    \/ WorkerMoves
    \/ ReaderLoops \/ ReaderReads \/ ReaderSends
    \/ SendFails \/ SendAccepted
    \/ \E s \in {404, 429, 500, 503}, after \in {"none", "short", "long"} :
          SendRejected(s, after)
    \/ CancelRequest \/ DeadlinePasses

\* The worker and the reader are threads that run, a wait for a retry is
\* bounded, and time passes; nothing is asked of the provider or the user.
StreamFairness ==
    /\ WF_psVars(WorkerMoves)
    /\ WF_psVars(ReaderLoops \/ ReaderSends)
    /\ WF_psVars(DeadlinePasses)

StreamSpec == StreamInit /\ [][StreamNext]_psVars /\ StreamFairness

-----------------------------------------------------------------------------
(* Properties.                                                              *)

Whole(c) == c.named /\ c.args = <<1, 2>>

(* What the worker stores is what the provider said and what the clients    *)
(* saw: a returned turn holds every text of the response, in order, as it   *)
(* was forwarded once, and exactly the calls whose arguments came whole, in *)
(* the order they began, wherever the stream broke off and however many     *)
(* attempts it took (retry_loop, the accumulators,                          *)
(* validate_tool_call_arguments).  The calls of Anthropic are exempt: see   *)
(* CallsAreWhole.                                                           *)
TurnIsTheResponse ==
    result.kind \in {"final", "tools"} =>
        /\ result.text = Places(wire, "text")
        /\ result.reasoning = Places(wire, "reasoning")
        /\ shown = SelectSeq([i \in 1..Len(wire) |-> i],
                             LAMBDA i : wire[i].kind \in {"text", "reasoning"})
        /\ api # "anthropic" =>
              /\ \A i \in 1..Len(result.calls) : Whole(result.calls[i])
              /\ {result.calls[i].call : i \in 1..Len(result.calls)} = WholeCalls(wire)
              /\ \A i, j \in 1..Len(result.calls) :
                    i < j => result.calls[i].call < result.calls[j].call

(* A request with a total timeout ends, whatever the provider does: every   *)
(* attempt has a deadline and there are finitely many.  Without one, a      *)
(* cancel ends it as soon as no request is being sent.  The reader thread   *)
(* of a request that is over leaves when its read returns (AttemptDeadline, *)
(* recv_sse_event, SseStream::drop).                                        *)
RequestEnds ==
    /\ (bounded \/ (cancel = "queued" /\ phase # "sending")) ~> (phase = "done")
    /\ (phase = "done" /\ reader.at # "reading") ~> (reader.at \in {"none", "gone"})

(* The following do not hold.                                               *)

(* openai/mod.rs:704, of arguments that are not valid JSON: they "would     *)
(* cause tool execution to fail with a JSON parse error and trigger an      *)
(* error-recovery loop".  Anthropic's adapter returns calls whose arguments *)
(* begin with the empty object that opened them, and an empty call for      *)
(* every content block before the first call.                               *)
CallsAreWhole ==
    result.kind = "tools" => \A i \in 1..Len(result.calls) : Whole(result.calls[i])

(* anthropic/requests.rs:387: "content_block_stop, ping - skip".  The       *)
(* events that are skipped include the one that reports a failure, and what *)
(* came before it is taken for the answer; Google's adapter does the same   *)
(* with a chunk that has no candidates.                                     *)
FailureIsReported ==
    (\E i \in 1..Len(wire) : wire[i].kind = "failed") =>
        result.kind \notin {"final", "tools"}

(* README.md:686, of the deadline of an attempt: "Expiry surfaces as a      *)
(* dedicated `deadline_exceeded` error".  While the request is being sent   *)
(* it is a transport error, and is retried.                                 *)
DeadlineIsReported == [][(bounded /\ late /\ phase = "sending" /\ phase' # phase)
                            => result'.kind = "deadline"]_psVars

(* shared.rs:8: MAX_TOOL_CALLS is the "Maximum number of tool calls we      *)
(* accept in a single streaming response".  Chat completions and responses  *)
(* refuse the next piece of the last of so many calls.                      *)
FullBatchIsAccepted ==
    [][(phase = "waiting" /\ result'.kind = "io" /\ Head(sse) # Failed) =>
        \/ wire[Head(sse)].kind = "failed"
        \/ wire[Head(sse)].call > MaxToolCalls]_psVars
=============================================================================
