---------------------------- MODULE TurnHistory ----------------------------
(***************************************************************************)
(* The conversation history of one session: the turns the session thread   *)
(* keeps, the copy a request worker extends while it runs, undo and redo,  *)
(* the merge when the worker reports back, and what the database holds     *)
(* when the process dies in between.                                       *)
(*                                                                         *)
(* The session thread handles one command at a time.  Its database writes  *)
(* are single transactions made after the command changed the memory, so a *)
(* crash can fall between two of them: `unsaved` is what the command being *)
(* handled has still to write.  The worker runs beside it on a private     *)
(* copy and writes only the last turn of its request.                      *)
(*                                                                         *)
(* A turn is identified by a token, its content abstracted to whether it   *)
(* carries a user prompt and an assistant message.  A server-side response *)
(* id is abstracted to the tokens of the turns the server has seen when it *)
(* answered: this is the context a request chained on the id inherits.     *)
(* The provider is one that chains, and provider and model do not change.  *)
(***************************************************************************)
EXTENDS Integers, FiniteSets

CONSTANTS
    None,
    MaxTurns,    \* bound on the turns ever started
    max_turns,   \* limit of the agent loop, 0 for none
    MaxCrashes,  \* bound on process deaths
    Outcomes,    \* how an agent loop iteration may end
    Commands,    \* commands the user may give besides input
    WriteFails   \* whether a database write may fail after its retries

ASSUME HistoryAssumption ==
    /\ MaxTurns \in Nat
    /\ max_turns \in Nat
    /\ MaxCrashes \in Nat
    /\ Outcomes \subseteq {"final", "tool", "truncated", "error", "cancel",
                           "panic"}
    /\ Commands \subseteq {"undo", "redo"}
    /\ WriteFails \in BOOLEAN

TurnIds == 0..(MaxTurns - 1)
Tokens == 0..(MaxTurns - 1)

Turn == [tok: Tokens, user: BOOLEAN, assistant: BOOLEAN, undone: BOOLEAN]
Responses == {None} \cup SUBSET Tokens
Phases == {"idle", "loop", "inference", "tools", "finished"}

VARIABLES
    \* the session thread
    up,                  \* the thread runs
    turns,               \* turn id -> turn
    next_turn_id,
    last_undo_turn_ids,
    last_response_id,
    unsaved,             \* database writes the current command still owes
    \* the request worker, and its RequestFinished once phase is "finished"
    worker,
    \* the database
    storedTurns,
    storedResponseId,
    \* history
    created,             \* number of turns ever started
    crashes,
    hid,                 \* turns the latest undo made invisible
    renewed              \* user input was accepted since the latest undo

memory == <<turns, next_turn_id, last_undo_turn_ids, last_response_id>>
database == <<storedTurns, storedResponseId>>
ghosts == <<hid, renewed>>
vars == <<up, memory, unsaved, worker, database, created, crashes, ghosts>>

NoTurns == [i \in {} |-> 0]
Saved == [record |-> FALSE, ids |-> {}]
NoWorker == [phase |-> "idle", turns |-> NoTurns, response |-> None,
             next |-> 0, iter |-> 0, turn_id |-> 0,
             turns0 |-> NoTurns, response0 |-> None]

-----------------------------------------------------------------------------
(* Turns and what a request sends of them *)

\* BTreeMap::insert.
Insert(ts, id, t) ==
    [i \in DOMAIN ts \cup {id} |-> IF i = id THEN t ELSE ts[i]]

\* Mutant: the counter skips an id.
NextAfter_Skips(ts, n) ==
    CHOOSE m \in {n} \cup {i + 2 : i \in DOMAIN ts} :
        \A k \in {n} \cup {i + 2 : i \in DOMAIN ts} : k <= m

\* The least turn id above all turns of ts and not below n.
NextAfter(ts, n) ==
    CHOOSE m \in {n} \cup {i + 1 : i \in DOMAIN ts} :
        \A k \in {n} \cup {i + 1 : i \in DOMAIN ts} : k <= m

SetUndone(ts, ids, flag) ==
    [i \in DOMAIN ts |-> IF i \in ids THEN [ts[i] EXCEPT !.undone = flag]
                                      ELSE ts[i]]

\* The request builder skips undone turns.
Visible(ts) == {i \in DOMAIN ts : ~ts[i].undone}

\* A chained request sends only what comes after the last assistant message.
ChainTail(ts) ==
    {i \in Visible(ts) : \A j \in Visible(ts) : ts[j].assistant => j < i}

TokensOf(ts, ids) == {ts[i].tok : i \in ids}

\* The turns the server knows once it has answered a request for turn cur.
Answered(ts, response, cur) ==
    {ts[cur].tok} \cup
    IF response = None THEN TokensOf(ts, Visible(ts))
                       ELSE response \cup TokensOf(ts, ChainTail(ts))

-----------------------------------------------------------------------------
(* The session thread between commands *)

Ready == up /\ unsaved = Saved

\* A write that may fail leaves the old value behind.
Write(old, new) == IF WriteFails THEN {old, new} ELSE {new}

Init ==
    /\ up = TRUE
    /\ turns = NoTurns
    /\ next_turn_id = 0
    /\ last_undo_turn_ids = None
    /\ last_response_id = None
    /\ unsaved = Saved
    /\ worker = NoWorker
    /\ storedTurns = NoTurns
    /\ storedResponseId = None
    /\ created = 0
    /\ crashes = 0
    /\ hid = {}
    /\ renewed = FALSE

\* The next write of the command being handled: the record before the turns,
\* the turns in ascending order.
WriteRecord ==
    /\ up
    /\ unsaved.record
    /\ unsaved' = [unsaved EXCEPT !.record = FALSE]
    /\ storedResponseId' \in Write(storedResponseId, last_response_id)
    /\ UNCHANGED <<up, memory, worker, storedTurns, created, crashes, ghosts>>

MayWriteTurn(id) ==
    /\ ~unsaved.record
    /\ \A i \in unsaved.ids : id <= i

WriteTurn(id) ==
    /\ up
    /\ id \in unsaved.ids
    /\ MayWriteTurn(id)
    /\ unsaved' = [unsaved EXCEPT !.ids = @ \ {id}]
    /\ storedTurns' \in Write(storedTurns, Insert(storedTurns, id, turns[id]))
    /\ UNCHANGED <<up, memory, worker, storedResponseId, created, crashes,
                   ghosts>>

-----------------------------------------------------------------------------
(* Requests *)

\* RunInput and RunChildInput: one request at a time.  The worker numbers
\* its turns from the number of turns in its snapshot.
FromSnapshot ==
    [phase |-> "loop", turns |-> turns, response |-> last_response_id,
     next |-> Cardinality(DOMAIN turns), iter |-> 0,
     turn_id |-> next_turn_id,
     turns0 |-> turns, response0 |-> last_response_id]

HandleRunInput ==
    /\ Ready
    /\ worker.phase = "idle"
    /\ created < MaxTurns
    /\ Cardinality(DOMAIN turns) < MaxTurns
    /\ worker' = FromSnapshot
    /\ renewed' = TRUE
    /\ UNCHANGED <<up, memory, unsaved, database, created, crashes, hid>>

\* The worker's own view of the turn it works on.
Cur == worker.next - 1

Loops == max_turns = 0 \/ worker.iter < max_turns

StartTurn ==
    /\ worker.phase = "loop"
    /\ Loops
    /\ created < MaxTurns
    /\ worker.next < MaxTurns
    /\ worker' = [worker EXCEPT
                    !.phase = "inference",
                    !.turns = Insert(@, worker.next,
                                     [tok |-> created,
                                      user |-> worker.iter = 0,
                                      assistant |-> FALSE,
                                      undone |-> FALSE]),
                    !.next = @ + 1]
    /\ created' = created + 1
    /\ UNCHANGED <<up, memory, unsaved, database, crashes, ghosts>>

\* Leave the loop with RequestFinished carrying the worker's snapshot.
Finished(ts, response) ==
    worker' = [worker EXCEPT !.phase = "finished", !.turns = ts,
                             !.response = response]

Replied == Insert(worker.turns, Cur,
                  [worker.turns[Cur] EXCEPT !.assistant = TRUE])

Response == Answered(worker.turns, worker.response, Cur)

\* finalize_turn: the worker persists the turn that ends its request.
Finalize(ts) ==
    storedTurns' \in Write(storedTurns, Insert(storedTurns, Cur, ts[Cur]))

FinalText ==
    /\ worker.phase = "inference"
    /\ "final" \in Outcomes
    /\ Finished(Replied, Response)
    /\ Finalize(Replied)
    /\ UNCHANGED <<up, memory, unsaved, storedResponseId, created, crashes,
                   ghosts>>

\* A truncated tool call becomes an assistant message of the daemon's own;
\* the response id stays that of the previous answer.
TruncatedToolCall ==
    /\ worker.phase = "inference"
    /\ "truncated" \in Outcomes
    /\ Finished(Replied, worker.response)
    /\ Finalize(Replied)
    /\ UNCHANGED <<up, memory, unsaved, storedResponseId, created, crashes,
                   ghosts>>

InferenceError ==
    /\ worker.phase = "inference"
    /\ "error" \in Outcomes
    /\ Finished(worker.turns, worker.response)
    /\ Finalize(worker.turns)
    /\ UNCHANGED <<up, memory, unsaved, storedResponseId, created, crashes,
                   ghosts>>

\* A turn with tool calls is not persisted before the request has finished.
ToolUse ==
    /\ worker.phase = "inference"
    /\ "tool" \in Outcomes
    /\ created < MaxTurns /\ worker.next < MaxTurns   \* room for the next turn
    /\ worker' = [worker EXCEPT !.phase = "tools", !.turns = Replied,
                                !.response = Response]
    /\ UNCHANGED <<up, memory, unsaved, database, created, crashes, ghosts>>

ToolsDone ==
    /\ worker.phase = "tools"
    /\ worker' = [worker EXCEPT !.phase = "loop", !.iter = @ + 1]
    /\ UNCHANGED <<up, memory, unsaved, database, created, crashes, ghosts>>

\* The loop limit, or a cancel seen before a turn, in inference or in tools.
LoopEnds ==
    /\ \/ worker.phase = "loop" /\ ~Loops
       \/ worker.phase \in {"loop", "inference", "tools"} /\ "cancel" \in Outcomes
    /\ Finished(worker.turns, worker.response)
    /\ UNCHANGED <<up, memory, unsaved, database, created, crashes, ghosts>>

\* catch_unwind reports the snapshot the worker was started with.
\* Mutant: the turns of the worker with the response it began with.
Panic_OldResponse ==
    /\ worker.phase \in {"loop", "inference", "tools"}
    /\ "panic" \in Outcomes
    /\ Finished(worker.turns, worker.response0)
    /\ UNCHANGED <<up, memory, unsaved, database, created, crashes, ghosts>>
Panic ==
    /\ worker.phase \in {"loop", "inference", "tools"}
    /\ "panic" \in Outcomes
    /\ Finished(worker.turns0, worker.response0)
    /\ UNCHANGED <<up, memory, unsaved, database, created, crashes, ghosts>>

\* A turn the user has hidden since the worker took its snapshot.
KeepsUndo(ts, snap, i) ==
    /\ i \in DOMAIN ts
    /\ ts[i].undone
    /\ ~snap[i].undone

\* Mutant: the race is not looked for.
UndoDuringRequest_Never(ts, snap) == FALSE

UndoDuringRequest(ts, snap) == \E i \in DOMAIN snap : KeepsUndo(ts, snap, i)

\* Mutant: the worker's copy always wins.
Merge_Overwrites(ts, snap) ==
    [i \in DOMAIN ts \cup DOMAIN snap |->
        IF i \in DOMAIN snap THEN snap[i] ELSE ts[i]]

Merge(ts, snap) ==
    [i \in DOMAIN ts \cup DOMAIN snap |->
        IF i \in DOMAIN snap /\ ~KeepsUndo(ts, snap, i) THEN snap[i] ELSE ts[i]]

\* Mutant: only the turns the worker has finalized reach the database.
NewTurns_None(ts, snap) == {}

\* The turns the merge persists.  The branch for changed turns compares a
\* turn with the copy just inserted, so it never writes one.
NewTurns(ts, snap) == DOMAIN snap \ DOMAIN ts

HandleRequestFinished ==
    /\ Ready
    /\ worker.phase = "finished"
    /\ last_response_id' = IF UndoDuringRequest(turns, worker.turns)
                           THEN None ELSE worker.response
    /\ turns' = Merge(turns, worker.turns)
    /\ next_turn_id' = NextAfter(worker.turns, next_turn_id)
    /\ unsaved' = [record |-> TRUE, ids |-> NewTurns(turns, worker.turns)]
    /\ worker' = NoWorker
    /\ UNCHANGED <<up, last_undo_turn_ids, database, created, crashes, ghosts>>

-----------------------------------------------------------------------------
(* Undo and redo *)

\* The most recent visible turn with a user prompt.
IsUndoTarget(id) ==
    /\ id \in Visible(turns) /\ turns[id].user
    /\ \A i \in Visible(turns) : turns[i].user => i <= id

\* The response id is dropped: its context includes the turns being undone.
HandleUndo ==
    /\ "undo" \in Commands
    /\ Ready
    /\ \E target \in DOMAIN turns :
          /\ IsUndoTarget(target)
          /\ LET ids == {i \in DOMAIN turns : target <= i}
             IN  /\ turns' = SetUndone(turns, ids, TRUE)
                 /\ last_undo_turn_ids' = ids
                 /\ unsaved' = [record |-> last_response_id # None, ids |-> ids]
                 /\ hid' = ids \cap Visible(turns)
    /\ last_response_id' = None
    /\ renewed' = FALSE
    /\ UNCHANGED <<up, next_turn_id, worker, database, created, crashes>>

HandleRedo ==
    /\ "redo" \in Commands
    /\ Ready
    /\ last_undo_turn_ids # None
    /\ turns' = SetUndone(turns, last_undo_turn_ids, FALSE)
    /\ unsaved' = [record |-> FALSE,
                   ids |-> last_undo_turn_ids \cap DOMAIN turns]
    /\ last_undo_turn_ids' = None
    /\ UNCHANGED <<up, next_turn_id, last_response_id, worker, database,
                   created, crashes, ghosts>>

-----------------------------------------------------------------------------
(* The thread ends, the process dies, the session is loaded again *)

Stopped ==
    /\ up' = FALSE
    /\ turns' = NoTurns
    /\ next_turn_id' = 0
    /\ last_undo_turn_ids' = None
    /\ last_response_id' = None
    /\ unsaved' = Saved
    /\ worker' = NoWorker
    /\ hid' = {}
    /\ renewed' = FALSE

\* Without an active request the thread may leave: last subscriber gone, or
\* Shutdown.
PersistAndExit ==
    /\ Ready
    /\ worker.phase = "idle"
    /\ storedResponseId' \in Write(storedResponseId, last_response_id)
    /\ Stopped
    /\ UNCHANGED <<storedTurns, created, crashes>>

Crash ==
    /\ up
    /\ crashes < MaxCrashes
    /\ crashes' = crashes + 1
    /\ Stopped
    /\ UNCHANGED <<database, created>>

SessionMain ==
    /\ ~up
    /\ up' = TRUE
    /\ turns' = storedTurns
    /\ next_turn_id' = NextAfter(storedTurns, 0)
    /\ last_undo_turn_ids' = None
    /\ last_response_id' = storedResponseId
    /\ unsaved' = Saved
    /\ worker' = NoWorker
    /\ UNCHANGED <<database, created, crashes, ghosts>>

-----------------------------------------------------------------------------

Session ==
    \/ WriteRecord
    \/ \E id \in TurnIds : WriteTurn(id)
    \/ HandleRunInput
    \/ HandleRequestFinished
    \/ HandleUndo
    \/ HandleRedo
    \/ PersistAndExit
    \/ Crash
    \/ SessionMain

RequestWorker ==
    \/ StartTurn
    \/ FinalText
    \/ TruncatedToolCall
    \/ InferenceError
    \/ ToolUse
    \/ ToolsDone
    \/ LoopEnds
    \/ Panic

Next == Session \/ RequestWorker

Spec == Init /\ [][Next]_vars

-----------------------------------------------------------------------------
(* Properties *)

TurnMap(ts) == DOMAIN ts \subseteq TurnIds /\ ts \in [DOMAIN ts -> Turn]

WorkerOK ==
    /\ worker = [phase |-> worker.phase, turns |-> worker.turns,
                 response |-> worker.response, next |-> worker.next,
                 iter |-> worker.iter, turn_id |-> worker.turn_id,
                 turns0 |-> worker.turns0, response0 |-> worker.response0]
    /\ worker.phase \in Phases
    /\ TurnMap(worker.turns) /\ TurnMap(worker.turns0)
    /\ worker.response \in Responses /\ worker.response0 \in Responses
    /\ worker.next \in 0..MaxTurns /\ worker.turn_id \in 0..MaxTurns
    /\ worker.iter \in Nat
    /\ worker.phase \in {"inference", "tools"} => Cur \in DOMAIN worker.turns

\* Types; a worker between StartTurn and the end of the turn works on a turn
\* of its own map, and a command owes writes only for turns it can read.
TypeOK ==
    /\ up \in BOOLEAN
    /\ TurnMap(turns)
    /\ next_turn_id \in 0..MaxTurns
    /\ last_undo_turn_ids \in {None} \cup SUBSET TurnIds
    /\ last_response_id \in Responses
    /\ unsaved \in [record: BOOLEAN, ids: SUBSET TurnIds]
    /\ unsaved.ids \subseteq DOMAIN turns
    /\ WorkerOK
    /\ TurnMap(storedTurns)
    /\ storedResponseId \in Responses
    /\ created \in 0..MaxTurns
    /\ crashes \in 0..MaxCrashes
    /\ hid \in SUBSET TurnIds
    /\ renewed \in BOOLEAN

\* The context of a response never contains a turn that is undone.
Unleaked(ts, response) ==
    response # None => \A i \in DOMAIN ts : ts[i].undone => ts[i].tok \notin response

\* A request never inherits, through the response id it is chained on, a turn
\* the user has undone: neither from the session thread nor, after a crash at
\* any point of handle_undo or handle_request_finished, from the database.
NoUndoneContext ==
    /\ Unleaked(turns, last_response_id)
    /\ Unleaked(storedTurns, storedResponseId)

\* Only a redo makes an undone turn visible again: the merge of a worker's
\* snapshot taken before the undo does not.
UndoSticks ==
    [][up /\ up' =>
        \A i \in DOMAIN turns \cap DOMAIN turns' :
            turns[i].undone /\ ~turns'[i].undone =>
                last_undo_turn_ids # None /\ last_undo_turn_ids' = None]_vars

\* Nothing runs and nothing is being written.
Quiet == Ready /\ worker.phase = "idle"

\* Until the process dies, the database holds between requests the turns the
\* session shows, and a turn it keeps hidden is hidden in the session too.
StoredHistory ==
    crashes = 0 /\ Quiet =>
             /\ DOMAIN storedTurns = DOMAIN turns
             /\ \A i \in DOMAIN turns :
                   /\ storedTurns[i].tok = turns[i].tok
                   /\ storedTurns[i].assistant = turns[i].assistant
                   /\ storedTurns[i].undone => turns[i].undone

\* Between requests the database holds each turn exactly as the session
\* thread does, its undone flag included.
StoredExactly == Quiet => storedTurns = turns

KeepsStored ==
    \A i \in DOMAIN storedTurns :
        /\ i \in DOMAIN storedTurns'
        /\ storedTurns'[i].tok = storedTurns[i].tok

\* A stored turn is never replaced by another turn: ids only grow.
TurnIdsGrow == [][KeepsStored]_vars

\* ... until the process dies between two writes of one request.
TurnIdsGrowUncrashed == [][crashes' = 0 => KeepsStored]_vars

\* Until the process dies, the turn id announced by Started is the id of the
\* request's first turn.
StartedPredictsTurn ==
    crashes = 0 /\ worker.phase = "inference" /\ worker.iter = 0 => worker.turn_id = Cur

\* What a chained request leaves out, everything up to the last assistant
\* message, is in the context of the response it is chained on.
ChainHoldsHistory ==
    up /\ last_response_id # None =>
        \A i \in Visible(turns) \ ChainTail(turns) :
            turns[i].tok \in last_response_id

\* New user input ends the possibility to redo.
NewInputEndsRedo ==
    renewed /\ worker.phase = "inference" => last_undo_turn_ids = None

\* A redo shows again exactly the turns the latest undo has hidden.
RedoRevertsUndo ==
    [][up /\ up' /\ last_undo_turn_ids # None /\ last_undo_turn_ids' = None =>
          {i \in DOMAIN turns : turns[i].undone /\ ~turns'[i].undone}
             \subseteq hid]_vars
=============================================================================
