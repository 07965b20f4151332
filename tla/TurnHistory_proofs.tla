------------------------- MODULE TurnHistory_proofs -------------------------
(***************************************************************************)
(* Proofs about TurnHistory for every number of turns, loop limit and      *)
(* number of crashes: the types; that no request inherits an undone turn;  *)
(* that the database holds the history until the process dies; that a      *)
(* chained request of a plain session (MCTurnPlain) loses no context.      *)
(***************************************************************************)
EXTENDS MCTurnPlain, FiniteSetTheorems, WellFoundedInduction, TLAPS

(* Operators on turns *)

\* A map of turns has a next free id, within the bound.
LEMMA NextAfterType ==
    ASSUME NEW ts, TurnMap(ts), NEW n \in 0..MaxTurns
    PROVE  NextAfter(ts, n) \in 0..MaxTurns
<1> DEFINE S == {n} \cup {i + 1 : i \in DOMAIN ts}
           D == {m \in 0..MaxTurns : \A k \in S : k <= m}
           R == OpToRel(<, Nat)
<1>1. S \subseteq 0..MaxTurns
  BY HistoryAssumption DEF TurnMap, TurnIds
<1>2. MaxTurns \in D /\ D \subseteq Nat
  BY <1>1, HistoryAssumption
<1>3. PICK m \in D : \A e \in D : ~(<<e, m>> \in R)
  <2>1. IsWellFoundedOn(R, Nat)
    BY NatLessThanWellFounded
  <2> QED BY <1>2, <2>1, WFMin
<1>4. ASSUME NEW e \in D PROVE m <= e
  <2>1. R = {ss \in Nat \X Nat : ss[1] < ss[2]}
    BY DEF OpToRel
  <2>2. m \in Nat /\ e \in Nat /\ ~(<<e, m>> \in R)
    BY <1>2, <1>3
  <2> HIDE DEF R, D
  <2>3. ~(e < m)
    BY <2>1, <2>2
  <2> QED BY <2>2, <2>3
<1>5. m \in S
  <2> SUFFICES ASSUME m \notin S PROVE FALSE
    OBVIOUS
  <2>0. m \in 0..MaxTurns /\ \A k \in S : k <= m
    OBVIOUS
  <2> HIDE DEF D, S
  <2>1. m \in Nat /\ m <= MaxTurns /\ \A k \in S : k \in Nat /\ k <= m /\ k # m
    BY <1>1, <2>0, HistoryAssumption
  <2>2. n \in S /\ n < m
    BY <2>1 DEF S
  <2>3. m - 1 \in 0..MaxTurns /\ \A k \in S : k <= m - 1
    BY <2>1, <2>2, HistoryAssumption
  <2>4. m - 1 \in D
    BY <2>3 DEF D
  <2>5. m <= m - 1
    BY <2>4, <1>4
  <2> QED BY <2>1, <2>5
<1>6. \E x \in S : \A k \in S : k <= x
  BY <1>3, <1>5
<1>7. NextAfter(ts, n) \in S
  BY <1>6 DEF NextAfter
<1> QED BY <1>1, <1>7

LEMMA InsertType ==
    ASSUME NEW ts, TurnMap(ts), NEW id \in TurnIds, NEW t \in Turn
    PROVE  /\ TurnMap(Insert(ts, id, t))
           /\ DOMAIN Insert(ts, id, t) = DOMAIN ts \cup {id}
           /\ Insert(ts, id, t)[id] = t
           /\ \A i \in DOMAIN ts : i # id => Insert(ts, id, t)[i] = ts[i]
BY DEF TurnMap, Insert

LEMMA SetUndoneType ==
    ASSUME NEW ts, TurnMap(ts), NEW ids, NEW flag \in BOOLEAN
    PROVE  /\ TurnMap(SetUndone(ts, ids, flag))
           /\ DOMAIN SetUndone(ts, ids, flag) = DOMAIN ts
           /\ \A i \in DOMAIN ts :
                 /\ SetUndone(ts, ids, flag)[i].tok = ts[i].tok
                 /\ SetUndone(ts, ids, flag)[i].undone =
                       IF i \in ids THEN flag ELSE ts[i].undone
<1>1. \A i \in DOMAIN ts : ts[i] \in Turn
  BY DEF TurnMap
<1>2. \A i \in DOMAIN ts : [ts[i] EXCEPT !.undone = flag] \in Turn
  BY <1>1 DEF Turn
<1> QED BY <1>1, <1>2 DEF TurnMap, SetUndone, Turn

LEMMA MergeType ==
    ASSUME NEW ts, TurnMap(ts), NEW snap, TurnMap(snap)
    PROVE  /\ TurnMap(Merge(ts, snap))
           /\ DOMAIN Merge(ts, snap) = DOMAIN ts \cup DOMAIN snap
<1>1. \A i \in DOMAIN ts : ts[i] \in Turn
  BY DEF TurnMap
<1>2. \A i \in DOMAIN snap : snap[i] \in Turn
  BY DEF TurnMap
<1>3. DOMAIN Merge(ts, snap) = DOMAIN ts \cup DOMAIN snap
  BY DEF Merge
<1>4. ASSUME NEW i \in DOMAIN Merge(ts, snap) PROVE Merge(ts, snap)[i] \in Turn
  <2>1. CASE i \in DOMAIN snap /\ ~KeepsUndo(ts, snap, i)
    BY <1>2, <1>3, <2>1 DEF Merge
  <2>2. CASE ~(i \in DOMAIN snap /\ ~KeepsUndo(ts, snap, i))
    <3>1. i \in DOMAIN ts
      BY <1>3, <2>2 DEF KeepsUndo
    <3> QED BY <1>1, <1>3, <2>2, <3>1 DEF Merge
  <2> QED BY <2>1, <2>2
<1>5. Merge(ts, snap) \in [DOMAIN ts \cup DOMAIN snap -> Turn]
  BY <1>3, <1>4 DEF Merge
<1> QED BY <1>3, <1>5 DEF TurnMap

LEMMA NoTurnsType == TurnMap(NoTurns) /\ DOMAIN NoTurns = {}
BY DEF TurnMap, NoTurns

LEMMA SavedType ==
    Saved \in [record: BOOLEAN, ids: SUBSET TurnIds] /\ Saved.ids = {} /\ ~Saved.record
BY DEF Saved

LEMMA ZeroType == 0 \in 0..MaxTurns /\ 0 \in 0..MaxCrashes
BY HistoryAssumption

LEMMA CountType ==
    ASSUME NEW ts, TurnMap(ts)
    PROVE  Cardinality(DOMAIN ts) \in Nat
<1>1. IsFiniteSet(TurnIds)
  BY FS_Interval, HistoryAssumption DEF TurnIds
<1>2. IsFiniteSet(DOMAIN ts)
  BY <1>1, FS_Subset DEF TurnMap
<1> QED BY <1>2, FS_CardinalityType

\* What the server knows after an answer is a set of tokens.
LEMMA AnsweredType ==
    ASSUME NEW ts, TurnMap(ts), NEW r \in Responses, NEW cur \in DOMAIN ts
    PROVE  Answered(ts, r, cur) \in SUBSET Tokens
<1>1. \A i \in DOMAIN ts : ts[i].tok \in Tokens
  BY DEF TurnMap, Turn
<1> QED BY <1>1 DEF Answered, Responses, TokensOf, Visible, ChainTail

-----------------------------------------------------------------------------
(* Type correctness *)

LEMMA InitType == Init => TypeOK
<1> SUFFICES ASSUME Init PROVE TypeOK
  OBVIOUS
<1>1. TurnMap(turns) /\ TurnMap(storedTurns) /\ WorkerOK
  BY NoTurnsType, HistoryAssumption
  DEF Init, NoWorker, WorkerOK, Phases, Responses
<1>2. None \in Responses /\ {} \in SUBSET TurnIds
  BY DEF Responses
<1> QED BY <1>1, <1>2, SavedType, NoTurnsType, ZeroType, Zenon DEF Init, TypeOK

\* The fields of a worker after it has left the loop.
LEMMA FinishedType ==
    ASSUME TypeOK, NEW ts, TurnMap(ts), NEW r \in Responses, Finished(ts, r)
    PROVE  /\ WorkerOK'
           /\ worker'.turns = ts /\ worker'.response = r
           /\ worker'.turns0 = worker.turns0
           /\ worker'.response0 = worker.response0
           /\ worker'.phase = "finished"
<1>1. worker' = [phase |-> "finished", turns |-> ts, response |-> r,
                 next |-> worker.next, iter |-> worker.iter,
                 turn_id |-> worker.turn_id,
                 turns0 |-> worker.turns0, response0 |-> worker.response0]
  BY DEF TypeOK, WorkerOK, Finished
<1> QED BY <1>1 DEF TypeOK, WorkerOK, Phases, TurnMap

\* The turn map and the response of an answered turn.
LEMMA ReplyType ==
    ASSUME TypeOK, worker.phase = "inference"
    PROVE  /\ Cur \in TurnIds /\ Cur \in DOMAIN worker.turns
           /\ TurnMap(Replied) /\ DOMAIN Replied = DOMAIN worker.turns
           /\ Replied[Cur] \in Turn
           /\ Replied[Cur].tok = worker.turns[Cur].tok
           /\ Replied[Cur].undone = worker.turns[Cur].undone
           /\ \A i \in DOMAIN worker.turns : i # Cur => Replied[i] = worker.turns[i]
           /\ Response \in SUBSET Tokens
<1>1. Cur \in DOMAIN worker.turns /\ TurnMap(worker.turns)
  BY DEF TypeOK, WorkerOK
<1>2. Cur \in TurnIds /\ worker.turns[Cur] \in Turn
  BY <1>1 DEF TurnMap
<1> DEFINE t == [worker.turns[Cur] EXCEPT !.assistant = TRUE]
<1>3. t \in Turn /\ t.tok = worker.turns[Cur].tok /\ t.undone = worker.turns[Cur].undone
  BY <1>2 DEF Turn
<1>4. Replied = Insert(worker.turns, Cur, t)
  BY DEF Replied
<1> HIDE DEF t
<1>5. Response \in SUBSET Tokens
  BY <1>1, AnsweredType DEF Response, TypeOK, WorkerOK
<1>6. DOMAIN worker.turns \cup {Cur} = DOMAIN worker.turns
  BY <1>1
<1>7. /\ TurnMap(Insert(worker.turns, Cur, t))
      /\ DOMAIN Insert(worker.turns, Cur, t) = DOMAIN worker.turns \cup {Cur}
      /\ Insert(worker.turns, Cur, t)[Cur] = t
      /\ \A i \in DOMAIN worker.turns :
            i # Cur => Insert(worker.turns, Cur, t)[i] = worker.turns[i]
  BY <1>1, <1>2, <1>3, InsertType
<1> QED BY <1>1, <1>2, <1>3, <1>4, <1>5, <1>6, <1>7

\* A database write of turns leaves a map of turns.
LEMMA FinalizeType ==
    ASSUME TypeOK, NEW ts, TurnMap(ts), Cur \in DOMAIN ts, Finalize(ts)
    PROVE  TurnMap(storedTurns')
<1>1. Cur \in TurnIds /\ ts[Cur] \in Turn
  BY DEF TurnMap
<1>2. TurnMap(Insert(storedTurns, Cur, ts[Cur]))
  BY <1>1, InsertType DEF TypeOK
<1> QED BY <1>2 DEF Finalize, Write, TypeOK

LEMMA StoppedType == ASSUME Stopped PROVE
    /\ up' \in BOOLEAN /\ TurnMap(turns') /\ next_turn_id' \in 0..MaxTurns
    /\ last_undo_turn_ids' \in {None} \cup SUBSET TurnIds
    /\ last_response_id' \in Responses
    /\ unsaved' \in [record: BOOLEAN, ids: SUBSET TurnIds]
    /\ unsaved'.ids \subseteq DOMAIN turns'
    /\ WorkerOK'
    /\ hid' \in SUBSET TurnIds /\ renewed' \in BOOLEAN
<1>1. WorkerOK'
  BY NoTurnsType, HistoryAssumption
  DEF Stopped, NoWorker, WorkerOK, Phases, Responses
<1>2. None \in Responses /\ {} \in SUBSET TurnIds
  BY DEF Responses
<1> QED BY <1>1, <1>2, NoTurnsType, SavedType, ZeroType, Zenon DEF Stopped

\* The steps of the session thread keep the types.
LEMMA SessionType == TypeOK /\ Session => TypeOK'
<1> SUFFICES ASSUME TypeOK, Session PROVE TypeOK'
  OBVIOUS
<1>1. CASE WriteRecord
  BY <1>1 DEF TypeOK, WriteRecord, memory, ghosts, Write, WorkerOK, Cur
<1>2. ASSUME NEW id \in TurnIds, WriteTurn(id) PROVE TypeOK'
  <2>1. turns[id] \in Turn
    BY <1>2 DEF TypeOK, WriteTurn, TurnMap
  <2>2. TurnMap(Insert(storedTurns, id, turns[id]))
    BY <2>1, InsertType DEF TypeOK
  <2>3. TurnMap(storedTurns')
    BY <1>2, <2>2 DEF WriteTurn, Write, TypeOK
  <2> QED BY <1>2, <2>3 DEF TypeOK, WriteTurn, memory, ghosts, WorkerOK, Cur
<1>3. CASE HandleRunInput
  <2>1. worker' = FromSnapshot /\ Cardinality(DOMAIN turns) \in 0..MaxTurns
    BY <1>3, CountType, HistoryAssumption DEF HandleRunInput, TypeOK
  <2>2. WorkerOK'
    BY <2>1 DEF WorkerOK, FromSnapshot, TypeOK, Phases
  <2> QED BY <1>3, <2>2 DEF TypeOK, HandleRunInput, memory, database
<1>4. CASE HandleRequestFinished
  <2>1. TurnMap(worker.turns) /\ worker.response \in Responses
    BY DEF TypeOK, WorkerOK
  <2>2. /\ TurnMap(turns')
        /\ DOMAIN turns' = DOMAIN turns \cup DOMAIN worker.turns
    BY <1>4, <2>1, MergeType DEF HandleRequestFinished, TypeOK
  <2>3. next_turn_id' \in 0..MaxTurns
    BY <1>4, <2>1, NextAfterType DEF HandleRequestFinished, TypeOK
  <2>4. last_response_id' \in Responses
    BY <1>4, <2>1 DEF HandleRequestFinished, Responses
  <2>5. WorkerOK'
    BY <1>4, NoTurnsType, HistoryAssumption
    DEF HandleRequestFinished, NoWorker, WorkerOK, Phases, Responses
  <2>6. /\ unsaved' \in [record: BOOLEAN, ids: SUBSET TurnIds]
        /\ unsaved'.ids \subseteq DOMAIN turns'
    BY <1>4, <2>1, <2>2 DEF HandleRequestFinished, NewTurns, TurnMap
  <2> QED BY <1>4, <2>2, <2>3, <2>4, <2>5, <2>6
          DEF TypeOK, HandleRequestFinished, database, ghosts
<1>5. CASE HandleUndo
  <2>1. PICK target \in DOMAIN turns :
          LET ids == {i \in DOMAIN turns : target <= i}
          IN  /\ turns' = SetUndone(turns, ids, TRUE)
              /\ last_undo_turn_ids' = ids
              /\ unsaved' = [record |-> last_response_id # None, ids |-> ids]
              /\ hid' = ids \cap Visible(turns)
    BY <1>5 DEF HandleUndo
  <2> DEFINE ids == {i \in DOMAIN turns : target <= i}
  <2>2. TurnMap(turns') /\ DOMAIN turns' = DOMAIN turns
    <3>1. turns' = SetUndone(turns, ids, TRUE)
      BY <2>1
    <3> HIDE DEF ids
    <3> QED BY <3>1, SetUndoneType DEF TypeOK
  <2>3. DOMAIN turns \subseteq TurnIds
    BY DEF TypeOK, TurnMap
  <2> QED BY <1>5, <2>1, <2>2, <2>3
          DEF TypeOK, HandleUndo, database, Responses, WorkerOK, Cur
<1>6. CASE HandleRedo
  <2>1. TurnMap(turns') /\ DOMAIN turns' = DOMAIN turns
    BY <1>6, SetUndoneType DEF HandleRedo, TypeOK
  <2>2. DOMAIN turns \subseteq TurnIds
    BY DEF TypeOK, TurnMap
  <2> QED BY <1>6, <2>1, <2>2
          DEF TypeOK, HandleRedo, database, ghosts, WorkerOK, Cur
<1>7. CASE PersistAndExit
  BY <1>7, StoppedType DEF TypeOK, PersistAndExit, Write
<1>8. CASE Crash
  BY <1>8, StoppedType, HistoryAssumption DEF TypeOK, Crash, database
<1>9. CASE SessionMain
  <2>1. NextAfter(storedTurns, 0) \in 0..MaxTurns
    BY NextAfterType, HistoryAssumption DEF TypeOK
  <2>2. WorkerOK'
    BY <1>9, NoTurnsType, HistoryAssumption
    DEF SessionMain, NoWorker, WorkerOK, Phases, Responses
  <2> QED BY <1>9, <2>1, <2>2, SavedType DEF TypeOK, SessionMain, database, ghosts
<1> QED BY <1>1, <1>2, <1>3, <1>4, <1>5, <1>6, <1>7, <1>8, <1>9 DEF Session

\* The steps of the request worker keep the types.
LEMMA WorkerType == TypeOK /\ RequestWorker => TypeOK'
<1> SUFFICES ASSUME TypeOK, RequestWorker PROVE TypeOK'
  OBVIOUS
<1> USE DEF memory, database, ghosts
<1>1. CASE StartTurn
  <2> DEFINE t == [tok |-> created, user |-> worker.iter = 0,
                   assistant |-> FALSE, undone |-> FALSE]
  <2>1. worker.next \in TurnIds /\ t \in Turn
    BY <1>1, HistoryAssumption DEF StartTurn, TypeOK, WorkerOK, TurnIds, Turn, Tokens
  <2>3. worker' = [phase |-> "inference",
                   turns |-> Insert(worker.turns, worker.next, t),
                   response |-> worker.response, next |-> worker.next + 1,
                   iter |-> worker.iter, turn_id |-> worker.turn_id,
                   turns0 |-> worker.turns0, response0 |-> worker.response0]
    BY <1>1 DEF StartTurn, TypeOK, WorkerOK
  <2> HIDE DEF t
  <2>0. TurnMap(worker.turns)
    BY DEF TypeOK, WorkerOK
  <2>2. /\ TurnMap(Insert(worker.turns, worker.next, t))
        /\ DOMAIN Insert(worker.turns, worker.next, t)
              = DOMAIN worker.turns \cup {worker.next}
    BY <2>0, <2>1 DEF Insert, TurnMap
  <2>4. worker.next + 1 \in 0..MaxTurns /\ (worker.next + 1) - 1 = worker.next
    BY <2>1, HistoryAssumption DEF TurnIds
  <2>5. WorkerOK'
    BY <2>2, <2>3, <2>4 DEF TypeOK, WorkerOK, Phases, Cur
  <2> QED BY <1>1, <2>5, HistoryAssumption DEF TypeOK, StartTurn
<1>2. CASE FinalText
  <2>1. Response \in Responses
    BY <1>2, ReplyType DEF FinalText, Responses
  <2>2. WorkerOK'
    BY <1>2, <2>1, ReplyType, FinishedType DEF FinalText
  <2>3. TurnMap(storedTurns')
    BY <1>2, ReplyType, FinalizeType DEF FinalText
  <2> QED BY <1>2, <2>2, <2>3 DEF TypeOK, FinalText
<1>3. CASE TruncatedToolCall
  <2>1. worker.response \in Responses
    BY DEF TypeOK, WorkerOK
  <2>2. WorkerOK'
    BY <1>3, <2>1, ReplyType, FinishedType DEF TruncatedToolCall
  <2>3. TurnMap(storedTurns')
    BY <1>3, ReplyType, FinalizeType DEF TruncatedToolCall
  <2> QED BY <1>3, <2>2, <2>3 DEF TypeOK, TruncatedToolCall
<1>4. CASE InferenceError
  <2>1. worker.response \in Responses /\ TurnMap(worker.turns)
    BY DEF TypeOK, WorkerOK
  <2>2. WorkerOK'
    BY <1>4, <2>1, FinishedType DEF InferenceError
  <2>3. TurnMap(storedTurns')
    BY <1>4, <2>1, ReplyType, FinalizeType DEF InferenceError
  <2> QED BY <1>4, <2>2, <2>3 DEF TypeOK, InferenceError
<1>5. CASE ToolUse
  <2>1. Response \in Responses
    BY <1>5, ReplyType DEF ToolUse, Responses
  <2>2. worker' = [phase |-> "tools", turns |-> Replied, response |-> Response,
                   next |-> worker.next, iter |-> worker.iter,
                   turn_id |-> worker.turn_id,
                   turns0 |-> worker.turns0, response0 |-> worker.response0]
    BY <1>5 DEF ToolUse, TypeOK, WorkerOK
  <2>3. Cur' \in DOMAIN worker'.turns
    BY <1>5, <2>2, ReplyType DEF ToolUse, Cur
  <2>4. WorkerOK'
    BY <1>5, <2>1, <2>2, <2>3, ReplyType DEF ToolUse, TypeOK, WorkerOK, Phases
  <2> QED BY <1>5, <2>4 DEF TypeOK, ToolUse
<1>6. CASE ToolsDone
  <2>1. worker' = [phase |-> "loop", turns |-> worker.turns,
                   response |-> worker.response,
                   next |-> worker.next, iter |-> worker.iter + 1,
                   turn_id |-> worker.turn_id,
                   turns0 |-> worker.turns0, response0 |-> worker.response0]
    BY <1>6 DEF ToolsDone, TypeOK, WorkerOK
  <2>2. WorkerOK'
    BY <2>1 DEF TypeOK, WorkerOK, Phases
  <2> QED BY <1>6, <2>2 DEF TypeOK, ToolsDone
<1>7. CASE LoopEnds
  <2>1. WorkerOK'
    BY <1>7, FinishedType DEF LoopEnds, TypeOK, WorkerOK
  <2> QED BY <1>7, <2>1 DEF TypeOK, LoopEnds
<1>8. CASE Panic
  <2>1. WorkerOK'
    BY <1>8, FinishedType DEF Panic, TypeOK, WorkerOK
  <2> QED BY <1>8, <2>1 DEF TypeOK, Panic
<1> QED BY <1>1, <1>2, <1>3, <1>4, <1>5, <1>6, <1>7, <1>8 DEF RequestWorker

\* The history is type-correct: in particular a request worker always has
\* the turn it answers in its own map, whatever ids a reload left unused, and
\* a command writes only turns the session thread holds.
THEOREM HistoryTypeCorrect == Spec => []TypeOK
<1>1. TypeOK /\ UNCHANGED vars => TypeOK'
  BY DEF TypeOK, vars, memory, database, ghosts, WorkerOK, Cur
<1>2. TypeOK /\ [Next]_vars => TypeOK'
  BY <1>1, SessionType, WorkerType DEF Next
<1> QED BY <1>2, InitType, PTL DEF Spec

-----------------------------------------------------------------------------
(* The inductive invariant *)

\* A token stays at the turn id it was created for, and is used up.
AtHome(h, n, ts) == \A i \in DOMAIN ts : ts[i].tok < n /\ h[ts[i].tok] = i

TokensAtHome ==
    \E h \in [Tokens -> TurnIds] :
        /\ AtHome(h, created, turns)
        /\ AtHome(h, created, storedTurns)
        /\ AtHome(h, created, worker.turns)
        /\ AtHome(h, created, worker.turns0)

\* The worker's two snapshots do not leak either.
WorkerUnleaked ==
    /\ Unleaked(worker.turns, worker.response)
    /\ Unleaked(worker.turns0, worker.response0)

\* A snapshot knows every turn of the session thread, and what it keeps
\* hidden is the same turn there.
Snapshot(snap) ==
    /\ DOMAIN turns \subseteq DOMAIN snap
    /\ \A i \in DOMAIN turns : snap[i].undone => snap[i].tok = turns[i].tok

WorkerFollows ==
    worker.phase # "idle" => Snapshot(worker.turns) /\ Snapshot(worker.turns0)

\* The turn being worked on is visible to the worker.
CurVisible ==
    worker.phase \in {"inference", "tools"} => ~worker.turns[Cur].undone

\* Once the record is written, the database has the current response id.
RecordSaved == up /\ ~unsaved.record => storedResponseId = last_response_id

\* A turn the database hides is hidden in memory, or is about to be
\* rewritten after the record.
HiddenIsKnown ==
    up => \A i \in DOMAIN storedTurns : storedTurns[i].undone =>
        \/ i \in DOMAIN turns /\ turns[i].undone /\ turns[i].tok = storedTurns[i].tok
        \/ i \in unsaved.ids /\ ~unsaved.record

IInv ==
    /\ TypeOK
    /\ NoUndoneContext
    /\ TokensAtHome
    /\ WorkerUnleaked
    /\ WorkerFollows
    /\ CurVisible
    /\ RecordSaved
    /\ HiddenIsKnown

-----------------------------------------------------------------------------
(* Lemmas about tokens and leaks *)

\* An answer adds no hidden turn to the context.
LEMMA AnsweredUnleaked ==
    ASSUME NEW h, NEW n, NEW ts, AtHome(h, n, ts), NEW r, Unleaked(ts, r),
           NEW cur \in DOMAIN ts, ~ts[cur].undone
    PROVE  Unleaked(ts, Answered(ts, r, cur))
<1> SUFFICES ASSUME NEW i \in DOMAIN ts, ts[i].undone,
                    ts[i].tok \in Answered(ts, r, cur)
             PROVE  FALSE
  BY DEF Unleaked
<1>1. ASSUME NEW j \in DOMAIN ts, ~ts[j].undone PROVE ts[i].tok # ts[j].tok
  BY <1>1 DEF AtHome
<1>2. ts[i].tok \notin TokensOf(ts, Visible(ts))
  BY <1>1 DEF TokensOf, Visible
<1>3. ts[i].tok \notin TokensOf(ts, ChainTail(ts))
  BY <1>1 DEF TokensOf, ChainTail, Visible
<1>4. ts[i].tok # ts[cur].tok
  BY <1>1
<1>5. r # None => ts[i].tok \notin r
  BY DEF Unleaked
<1> QED BY <1>2, <1>3, <1>4, <1>5 DEF Answered

\* Leaks depend only on tokens and flags.
LEMMA UnleakedSimilar ==
    ASSUME NEW ts, NEW us, NEW r, Unleaked(ts, r),
           \A i \in DOMAIN us : us[i].undone =>
               i \in DOMAIN ts /\ ts[i].undone /\ ts[i].tok = us[i].tok
    PROVE  Unleaked(us, r)
BY DEF Unleaked

LEMMA UnleakedNone == ASSUME NEW ts PROVE Unleaked(ts, None) /\ Unleaked(NoTurns, None)
BY DEF Unleaked

LEMMA HomeSimilar ==
    ASSUME NEW h, NEW n, NEW ts, NEW us, AtHome(h, n, ts),
           DOMAIN us \subseteq DOMAIN ts, \A i \in DOMAIN us : us[i].tok = ts[i].tok
    PROVE  AtHome(h, n, us)
BY DEF AtHome

LEMMA HomeInsert ==
    ASSUME NEW h, NEW n, NEW ts, NEW id, NEW t, AtHome(h, n, ts),
           t.tok < n, h[t.tok] = id
    PROVE  AtHome(h, n, Insert(ts, id, t))
BY DEF AtHome, Insert

LEMMA HomeMerge ==
    ASSUME NEW h, NEW n, NEW ts, NEW snap, AtHome(h, n, ts), AtHome(h, n, snap)
    PROVE  AtHome(h, n, Merge(ts, snap))
<1> SUFFICES ASSUME NEW i \in DOMAIN ts \cup DOMAIN snap
             PROVE  Merge(ts, snap)[i].tok < n /\ h[Merge(ts, snap)[i].tok] = i
  BY DEF AtHome, Merge
<1>1. CASE i \in DOMAIN snap /\ ~KeepsUndo(ts, snap, i)
  BY <1>1 DEF AtHome, Merge
<1>2. CASE ~(i \in DOMAIN snap /\ ~KeepsUndo(ts, snap, i))
  <2>1. i \in DOMAIN ts
    BY <1>2 DEF KeepsUndo
  <2> QED BY <1>2, <2>1 DEF AtHome, Merge
<1> QED BY <1>1, <1>2

LEMMA HomeEmpty == ASSUME NEW h, NEW n PROVE AtHome(h, n, NoTurns)
BY NoTurnsType DEF AtHome

-----------------------------------------------------------------------------
(* Preservation *)

LEMMA InitIInv == Init => IInv
<1> SUFFICES ASSUME Init PROVE IInv
  OBVIOUS
<1>1. TypeOK
  BY InitType
<1>2. NoUndoneContext /\ WorkerUnleaked
  BY UnleakedNone DEF Init, NoUndoneContext, WorkerUnleaked, NoWorker
<1>3. TokensAtHome
  <2>1. CASE Tokens = {}
    <3>1. [x \in Tokens |-> x] \in [Tokens -> TurnIds]
      BY <2>1
    <3> QED BY <3>1, HomeEmpty DEF Init, TokensAtHome, NoWorker
  <2>2. CASE Tokens # {}
    <3>1. [x \in Tokens |-> x] \in [Tokens -> TurnIds]
      BY DEF Tokens, TurnIds
    <3> QED BY <3>1, HomeEmpty DEF Init, TokensAtHome, NoWorker
  <2> QED BY <2>1, <2>2
<1>4. WorkerFollows /\ CurVisible
  BY DEF Init, NoWorker, WorkerFollows, CurVisible
<1>5. RecordSaved /\ HiddenIsKnown
  BY NoTurnsType DEF Init, RecordSaved, HiddenIsKnown
<1> QED BY <1>1, <1>2, <1>3, <1>4, <1>5 DEF IInv

\* A write of the session thread.
LEMMA WriteInv ==
    ASSUME WriteFails = FALSE, IInv, TypeOK',
           WriteRecord \/ \E id \in TurnIds : WriteTurn(id)
    PROVE  IInv'
<1> USE DEF memory, ghosts
<1>1. CASE WriteRecord
  <2>1. /\ up /\ unsaved.record /\ ~unsaved'.record /\ unsaved'.ids = unsaved.ids
        /\ storedResponseId' = last_response_id
        /\ UNCHANGED <<up, turns, last_response_id, worker, storedTurns, created>>
    BY <1>1 DEF WriteRecord, Write, IInv, TypeOK
  <2>2. \A i \in DOMAIN storedTurns : storedTurns[i].undone =>
           i \in DOMAIN turns /\ turns[i].undone /\ turns[i].tok = storedTurns[i].tok
    BY <2>1 DEF IInv, HiddenIsKnown
  <2>3. NoUndoneContext'
    BY <2>1, <2>2, UnleakedSimilar DEF IInv, NoUndoneContext
  <2>4. TokensAtHome' /\ WorkerUnleaked' /\ WorkerFollows' /\ CurVisible'
    BY <2>1 DEF IInv, TokensAtHome, WorkerUnleaked, WorkerFollows, Snapshot,
                CurVisible, Cur
  <2>5. RecordSaved' /\ HiddenIsKnown'
    BY <2>1, <2>2 DEF RecordSaved, HiddenIsKnown
  <2> QED BY <2>3, <2>4, <2>5 DEF IInv
<1>2. ASSUME NEW id \in TurnIds, WriteTurn(id) PROVE IInv'
  <2>1. /\ up /\ ~unsaved.record /\ ~unsaved'.record
        /\ unsaved'.ids = unsaved.ids \ {id} /\ id \in DOMAIN turns
        /\ storedTurns' = Insert(storedTurns, id, turns[id])
        /\ UNCHANGED <<up, turns, last_response_id, worker, storedResponseId, created>>
    BY <1>2 DEF WriteTurn, MayWriteTurn, Write, IInv, TypeOK
  <2>2. /\ DOMAIN storedTurns' = DOMAIN storedTurns \cup {id}
        /\ storedTurns'[id] = turns[id]
        /\ \A i \in DOMAIN storedTurns : i # id => storedTurns'[i] = storedTurns[i]
    BY <2>1 DEF Insert
  <2>3. storedResponseId = last_response_id
    BY <2>1 DEF IInv, RecordSaved
  <2>4. NoUndoneContext'
    <3>1. Unleaked(storedTurns', storedResponseId)
      BY <2>1, <2>2, <2>3 DEF IInv, NoUndoneContext, Unleaked
    <3> QED BY <2>1, <3>1 DEF IInv, NoUndoneContext
  <2>5. TokensAtHome'
    <3>1. PICK h \in [Tokens -> TurnIds] :
            /\ AtHome(h, created, turns) /\ AtHome(h, created, storedTurns)
            /\ AtHome(h, created, worker.turns) /\ AtHome(h, created, worker.turns0)
      BY DEF IInv, TokensAtHome
    <3>2. turns[id].tok < created /\ h[turns[id].tok] = id
      BY <2>1, <3>1 DEF AtHome
    <3>3. AtHome(h, created, storedTurns')
      BY <2>1, <3>1, <3>2, HomeInsert
    <3> QED BY <2>1, <3>1, <3>3 DEF TokensAtHome
  <2>6. WorkerUnleaked' /\ WorkerFollows' /\ CurVisible'
    BY <2>1 DEF IInv, WorkerUnleaked, WorkerFollows, Snapshot, CurVisible, Cur
  <2>7. RecordSaved' /\ HiddenIsKnown'
    BY <2>1, <2>2, <2>3 DEF IInv, RecordSaved, HiddenIsKnown
  <2> QED BY <2>4, <2>5, <2>6, <2>7 DEF IInv
<1> QED BY <1>1, <1>2

\* A request starts from what the session thread holds.
LEMMA RunInv ==
    ASSUME IInv, TypeOK', HandleRunInput PROVE IInv'
<1>1. /\ up /\ unsaved = Saved
      /\ worker' = FromSnapshot
      /\ UNCHANGED <<up, turns, last_response_id, unsaved, storedTurns,
                     storedResponseId, created>>
  BY DEF HandleRunInput, Ready, memory, database
<1>2. /\ worker'.turns = turns /\ worker'.turns0 = turns
      /\ worker'.response = last_response_id /\ worker'.response0 = last_response_id
      /\ worker'.phase = "loop"
  BY <1>1 DEF FromSnapshot
<1>3. NoUndoneContext' /\ WorkerUnleaked'
  BY <1>1, <1>2 DEF IInv, NoUndoneContext, WorkerUnleaked
<1>4. TokensAtHome' /\ WorkerFollows' /\ CurVisible'
  BY <1>1, <1>2 DEF IInv, TokensAtHome, WorkerFollows, Snapshot, CurVisible
<1>5. RecordSaved' /\ HiddenIsKnown'
  BY <1>1 DEF IInv, RecordSaved, HiddenIsKnown
<1> QED BY <1>3, <1>4, <1>5 DEF IInv

\* The merge: without a race the snapshot replaces every turn, so its response
\* fits; with one the response is dropped.
LEMMA FinishInv ==
    ASSUME IInv, TypeOK', HandleRequestFinished PROVE IInv'
<1> DEFINE snap == worker.turns
<1>1. /\ up /\ unsaved = Saved /\ worker.phase = "finished"
      /\ last_response_id' = IF UndoDuringRequest(turns, snap)
                             THEN None ELSE worker.response
      /\ turns' = Merge(turns, snap)
      /\ unsaved'.record
      /\ worker' = NoWorker
      /\ UNCHANGED <<up, storedTurns, storedResponseId, created>>
  BY DEF HandleRequestFinished, Ready, database
<1>2. /\ DOMAIN turns \subseteq DOMAIN snap
      /\ \A i \in DOMAIN turns : snap[i].undone => snap[i].tok = turns[i].tok
  BY <1>1 DEF IInv, WorkerFollows, Snapshot
<1>3. /\ DOMAIN turns' = DOMAIN snap
      /\ \A i \in DOMAIN snap :
            turns'[i] = IF KeepsUndo(turns, snap, i) THEN turns[i] ELSE snap[i]
  BY <1>1, <1>2 DEF Merge
<1>4. NoUndoneContext'
  <2>1. CASE UndoDuringRequest(turns, snap)
    BY <1>1, <2>1, UnleakedNone DEF IInv, NoUndoneContext
  <2>2. CASE ~UndoDuringRequest(turns, snap)
    <3>1. \A i \in DOMAIN snap : turns'[i] = snap[i]
      BY <1>3, <2>2 DEF UndoDuringRequest
    <3>2. Unleaked(turns', worker.response)
      BY <1>3, <3>1 DEF IInv, WorkerUnleaked, Unleaked
    <3> QED BY <1>1, <2>2, <3>2 DEF IInv, NoUndoneContext
  <2> QED BY <2>1, <2>2
<1>5. TokensAtHome'
  <2>1. PICK h \in [Tokens -> TurnIds] :
          /\ AtHome(h, created, turns) /\ AtHome(h, created, storedTurns)
          /\ AtHome(h, created, worker.turns)
    BY DEF IInv, TokensAtHome
  <2>2. AtHome(h, created, turns')
    BY <1>1, <2>1, HomeMerge
  <2> QED BY <1>1, <2>1, <2>2, HomeEmpty DEF TokensAtHome, NoWorker
<1>6. WorkerUnleaked' /\ WorkerFollows' /\ CurVisible'
  BY <1>1, UnleakedNone
  DEF NoWorker, WorkerUnleaked, WorkerFollows, CurVisible
<1>7. RecordSaved'
  BY <1>1 DEF RecordSaved
<1>8. HiddenIsKnown'
  <2> SUFFICES ASSUME NEW i \in DOMAIN storedTurns, storedTurns[i].undone
               PROVE  /\ i \in DOMAIN turns'
                      /\ turns'[i].undone /\ turns'[i].tok = storedTurns[i].tok
    BY <1>1 DEF HiddenIsKnown
  <2>1. i \in DOMAIN turns /\ turns[i].undone /\ turns[i].tok = storedTurns[i].tok
    BY <1>1, SavedType DEF IInv, HiddenIsKnown
  <2>2. CASE KeepsUndo(turns, snap, i)
    BY <1>2, <1>3, <2>1, <2>2
  <2>3. CASE ~KeepsUndo(turns, snap, i)
    <3>1. snap[i].undone
      BY <2>1, <2>3 DEF KeepsUndo
    <3> QED BY <1>2, <1>3, <2>1, <2>3, <3>1
  <2> QED BY <2>2, <2>3
<1> QED BY <1>4, <1>5, <1>6, <1>7, <1>8 DEF IInv

\* Undo drops the response; redo hides nothing.
LEMMA UndoRedoInv ==
    ASSUME IInv, TypeOK', HandleUndo \/ HandleRedo PROVE IInv'
<1>0. TurnMap(turns)
  BY DEF IInv, TypeOK
<1>1. PICK ids \in SUBSET TurnIds, flag \in BOOLEAN :
        /\ up /\ unsaved = Saved
        /\ turns' = SetUndone(turns, ids, flag)
        /\ UNCHANGED <<up, worker, storedTurns, storedResponseId, created>>
        /\ flag => /\ last_response_id' = None
                   /\ unsaved'.record = (last_response_id # None)
        /\ ~flag => /\ last_response_id' = last_response_id
                    /\ ~unsaved'.record
                    /\ \A i \in DOMAIN turns : i \in ids => i \in unsaved'.ids
  <2>1. CASE HandleUndo
    <3>1. PICK target \in DOMAIN turns :
            LET S == {i \in DOMAIN turns : target <= i}
            IN  /\ turns' = SetUndone(turns, S, TRUE)
                /\ unsaved' = [record |-> last_response_id # None, ids |-> S]
      BY <2>1 DEF HandleUndo
    <3>2. {i \in DOMAIN turns : target <= i} \in SUBSET TurnIds
      BY <1>0 DEF TurnMap
    <3> WITNESS {i \in DOMAIN turns : target <= i} \in SUBSET TurnIds,
                TRUE \in BOOLEAN
    <3> QED BY <2>1, <3>1 DEF HandleUndo, Ready, database
  <2>2. CASE HandleRedo
    <3>1. last_undo_turn_ids \in SUBSET TurnIds
      BY <2>2 DEF HandleRedo, IInv, TypeOK
    <3> WITNESS last_undo_turn_ids \in SUBSET TurnIds, FALSE \in BOOLEAN
    <3> QED BY <2>2 DEF HandleRedo, Ready, database
  <2> QED BY <2>1, <2>2
<1>2. /\ DOMAIN turns' = DOMAIN turns
      /\ \A i \in DOMAIN turns :
            /\ turns'[i].tok = turns[i].tok
            /\ turns'[i].undone = IF i \in ids THEN flag ELSE turns[i].undone
  BY <1>0, <1>1, SetUndoneType
<1>3. NoUndoneContext'
  <2>1. CASE flag
    BY <1>1, <2>1, UnleakedNone DEF IInv, NoUndoneContext
  <2>2. CASE ~flag
    <3>1. Unleaked(turns', last_response_id)
      BY <1>2, <2>2, UnleakedSimilar DEF IInv, NoUndoneContext
    <3> QED BY <1>1, <2>2, <3>1 DEF IInv, NoUndoneContext
  <2> QED BY <2>1, <2>2
<1>4. TokensAtHome'
  <2>1. PICK h \in [Tokens -> TurnIds] :
          /\ AtHome(h, created, turns) /\ AtHome(h, created, storedTurns)
          /\ AtHome(h, created, worker.turns) /\ AtHome(h, created, worker.turns0)
    BY DEF IInv, TokensAtHome
  <2>2. AtHome(h, created, turns')
    BY <1>2, <2>1, HomeSimilar
  <2> QED BY <1>1, <2>1, <2>2 DEF TokensAtHome
<1>5. WorkerUnleaked' /\ CurVisible'
  BY <1>1 DEF IInv, WorkerUnleaked, CurVisible, Cur
<1>6. WorkerFollows'
  BY <1>1, <1>2 DEF IInv, WorkerFollows, Snapshot
<1>7. storedResponseId = last_response_id
  BY <1>1, SavedType DEF IInv, RecordSaved
<1>8. RecordSaved'
  BY <1>1, <1>7 DEF RecordSaved
<1>9. HiddenIsKnown'
  <2> SUFFICES ASSUME NEW i \in DOMAIN storedTurns, storedTurns[i].undone
               PROVE  \/ /\ i \in DOMAIN turns'
                         /\ turns'[i].undone /\ turns'[i].tok = storedTurns[i].tok
                      \/ i \in unsaved'.ids /\ ~unsaved'.record
    BY <1>1 DEF HiddenIsKnown
  <2>1. i \in DOMAIN turns /\ turns[i].undone /\ turns[i].tok = storedTurns[i].tok
    BY <1>1, SavedType DEF IInv, HiddenIsKnown
  <2>2. CASE flag
    BY <1>2, <2>1, <2>2
  <2>3. CASE ~flag
    BY <1>1, <1>2, <2>1, <2>3
  <2> QED BY <2>2, <2>3
<1> QED BY <1>3, <1>4, <1>5, <1>6, <1>8, <1>9 DEF IInv

\* The thread ends, dies, or is loaded from the database.
LEMMA StopInv ==
    ASSUME WriteFails = FALSE, IInv, TypeOK', PersistAndExit \/ Crash \/ SessionMain
    PROVE  IInv'
<1>1. PICK h \in [Tokens -> TurnIds] :
        AtHome(h, created, turns) /\ AtHome(h, created, storedTurns)
  BY DEF IInv, TokensAtHome
<1>2. /\ worker' = NoWorker /\ created' = created /\ storedTurns' = storedTurns
      /\ turns' = NoTurns \/ turns' = storedTurns
  BY DEF PersistAndExit, Crash, SessionMain, Stopped, database
<1>3. TokensAtHome'
  BY <1>1, <1>2, HomeEmpty DEF TokensAtHome, NoWorker
<1>4. WorkerUnleaked' /\ WorkerFollows' /\ CurVisible'
  BY <1>2, UnleakedNone DEF NoWorker, WorkerUnleaked, WorkerFollows, CurVisible
<1>5. CASE PersistAndExit
  <2>1. storedResponseId = last_response_id
    BY <1>5, SavedType DEF PersistAndExit, Ready, IInv, RecordSaved
  <2>2. NoUndoneContext'
    BY <1>5, <2>1, UnleakedNone
    DEF PersistAndExit, Stopped, Write, IInv, NoUndoneContext
  <2>3. RecordSaved' /\ HiddenIsKnown'
    BY <1>5 DEF PersistAndExit, Stopped, RecordSaved, HiddenIsKnown
  <2> QED BY <1>3, <1>4, <2>2, <2>3 DEF IInv
<1>6. CASE Crash
  <2>1. NoUndoneContext'
    BY <1>6, UnleakedNone DEF Crash, Stopped, database, IInv, NoUndoneContext
  <2>2. RecordSaved' /\ HiddenIsKnown'
    BY <1>6 DEF Crash, Stopped, RecordSaved, HiddenIsKnown
  <2> QED BY <1>3, <1>4, <2>1, <2>2 DEF IInv
<1>7. CASE SessionMain
  <2>1. NoUndoneContext' /\ RecordSaved' /\ HiddenIsKnown'
    BY <1>7 DEF SessionMain, database, IInv, NoUndoneContext, RecordSaved, HiddenIsKnown
  <2> QED BY <1>3, <1>4, <2>1 DEF IInv
<1> QED BY <1>5, <1>6, <1>7

\* A worker step that leaves the database alone.
LEMMA WorkerStep ==
    ASSUME IInv, TypeOK', worker.phase # "idle",
           UNCHANGED <<up, turns, last_response_id, unsaved, storedResponseId>>,
           storedTurns' = storedTurns,
           TokensAtHome', WorkerUnleaked', CurVisible',
           Snapshot(worker'.turns), worker'.turns0 = worker.turns0
    PROVE  IInv'
<1>1. NoUndoneContext' /\ RecordSaved' /\ HiddenIsKnown'
  BY DEF IInv, NoUndoneContext, RecordSaved, HiddenIsKnown
<1>2. WorkerFollows'
  BY DEF IInv, WorkerFollows, Snapshot
<1> QED BY <1>1, <1>2 DEF IInv

\* The worker persists a visible turn of its own.
LEMMA FinalizeStep ==
    ASSUME WriteFails = FALSE, IInv, TypeOK', worker.phase = "inference",
           UNCHANGED <<up, turns, last_response_id, unsaved, storedResponseId, created>>,
           NEW ts, Finalize(ts), Cur \in DOMAIN ts,
           ~ts[Cur].undone, ts[Cur].tok = worker.turns[Cur].tok,
           DOMAIN ts = DOMAIN worker.turns,
           \A i \in DOMAIN ts : ts[i].tok = worker.turns[i].tok /\
                                ts[i].undone = worker.turns[i].undone,
           worker'.turns = ts, worker'.turns0 = worker.turns0,
           worker'.response0 = worker.response0, worker'.phase = "finished",
           Unleaked(ts, worker'.response)
    PROVE  IInv'
<1>1. storedTurns' = Insert(storedTurns, Cur, ts[Cur])
  BY DEF Finalize, Write
<1>2. /\ DOMAIN storedTurns' = DOMAIN storedTurns \cup {Cur}
      /\ storedTurns'[Cur] = ts[Cur]
      /\ \A i \in DOMAIN storedTurns : i # Cur => storedTurns'[i] = storedTurns[i]
  BY <1>1 DEF Insert
<1>3. NoUndoneContext'
  <2>1. Unleaked(storedTurns', storedResponseId)
    BY <1>2 DEF IInv, NoUndoneContext, Unleaked
  <2> QED BY <2>1 DEF IInv, NoUndoneContext
<1>4. TokensAtHome'
  <2>1. PICK h \in [Tokens -> TurnIds] :
          /\ AtHome(h, created, turns) /\ AtHome(h, created, storedTurns)
          /\ AtHome(h, created, worker.turns) /\ AtHome(h, created, worker.turns0)
    BY DEF IInv, TokensAtHome
  <2>2. AtHome(h, created, ts)
    BY <2>1, HomeSimilar
  <2>3. AtHome(h, created, storedTurns')
    <3>1. ts[Cur].tok < created /\ h[ts[Cur].tok] = Cur
      BY <2>2 DEF AtHome
    <3> QED BY <1>1, <2>1, <3>1, HomeInsert
  <2> QED BY <2>1, <2>2, <2>3 DEF TokensAtHome
<1>5. WorkerUnleaked' /\ CurVisible'
  BY DEF IInv, WorkerUnleaked, CurVisible
<1>6. WorkerFollows'
  BY DEF IInv, WorkerFollows, Snapshot
<1>7. RecordSaved' /\ HiddenIsKnown'
  BY <1>2 DEF IInv, RecordSaved, HiddenIsKnown
<1> QED BY <1>3, <1>4, <1>5, <1>6, <1>7 DEF IInv

LEMMA WorkerInv ==
    ASSUME WriteFails = FALSE, IInv, TypeOK', RequestWorker PROVE IInv'
<1> USE DEF memory, database
<1>0. TypeOK
  BY DEF IInv
<1>h. PICK h \in [Tokens -> TurnIds] :
        /\ AtHome(h, created, turns) /\ AtHome(h, created, storedTurns)
        /\ AtHome(h, created, worker.turns) /\ AtHome(h, created, worker.turns0)
  BY DEF IInv, TokensAtHome
<1>u. /\ Unleaked(worker.turns, worker.response)
      /\ Unleaked(worker.turns0, worker.response0)
      /\ worker.phase # "idle" => Snapshot(worker.turns) /\ Snapshot(worker.turns0)
  BY DEF IInv, WorkerUnleaked, WorkerFollows
<1>a. worker.phase = "inference" =>
        /\ Cur \in DOMAIN worker.turns /\ ~worker.turns[Cur].undone
        /\ ~Replied[Cur].undone /\ DOMAIN Replied = DOMAIN worker.turns
        /\ \A i \in DOMAIN worker.turns :
              /\ Replied[i].tok = worker.turns[i].tok
              /\ Replied[i].undone = worker.turns[i].undone
  BY <1>0, ReplyType DEF IInv, CurVisible
<1>r. worker.phase = "inference" =>
        Unleaked(Replied, Response) /\ Unleaked(Replied, worker.response)
  <2> SUFFICES ASSUME worker.phase = "inference"
               PROVE  Unleaked(Replied, Response) /\ Unleaked(Replied, worker.response)
    OBVIOUS
  <2>1. Unleaked(worker.turns, Response)
    BY <1>h, <1>u, <1>a, AnsweredUnleaked DEF Response
  <2> QED BY <1>u, <1>a, <2>1, UnleakedSimilar
<1>1. CASE StartTurn
  <2> DEFINE t == [tok |-> created, user |-> worker.iter = 0,
                   assistant |-> FALSE, undone |-> FALSE]
             g == [h EXCEPT ![created] = worker.next]
  <2>1. /\ worker'.turns = Insert(worker.turns, worker.next, t)
        /\ worker'.response = worker.response /\ worker'.phase = "inference"
        /\ worker'.turns0 = worker.turns0 /\ worker'.response0 = worker.response0
        /\ worker'.next = worker.next + 1
        /\ created' = created + 1
    BY <1>0, <1>1 DEF StartTurn, TypeOK, WorkerOK
  <2>2. worker.next \in TurnIds /\ created \in Tokens /\ created \in Nat
    BY <1>0, <1>1, HistoryAssumption DEF StartTurn, TypeOK, WorkerOK, TurnIds, Tokens
  <2>3. t.tok = created /\ ~t.undone
    OBVIOUS
  <2> HIDE DEF t
  <2>4. /\ DOMAIN worker'.turns = DOMAIN worker.turns \cup {worker.next}
        /\ worker'.turns[worker.next] = t
        /\ \A i \in DOMAIN worker.turns : i # worker.next => worker'.turns[i] = worker.turns[i]
    BY <2>1 DEF Insert
  <2>5. Cur' = worker.next
    BY <2>1, <2>2 DEF Cur, TurnIds
  <2>6. TokensAtHome'
    <3>1. g \in [Tokens -> TurnIds] /\ g[created] = worker.next
      BY <2>2
    <3>2. ASSUME NEW ts, TurnMap(ts), AtHome(h, created, ts)
          PROVE  AtHome(g, created + 1, ts)
      <4> SUFFICES ASSUME NEW i \in DOMAIN ts
                   PROVE  ts[i].tok < created + 1 /\ g[ts[i].tok] = i
        BY DEF AtHome
      <4>1. ts[i].tok \in Tokens /\ ts[i].tok < created /\ h[ts[i].tok] = i
        BY <3>2 DEF AtHome, TurnMap, Turn
      <4>2. ts[i].tok \in Nat
        BY <4>1, HistoryAssumption DEF Tokens
      <4> QED BY <2>2, <4>1, <4>2
    <3>3. /\ AtHome(g, created + 1, turns) /\ AtHome(g, created + 1, storedTurns)
          /\ AtHome(g, created + 1, worker.turns) /\ AtHome(g, created + 1, worker.turns0)
      BY <1>0, <1>h, <3>2 DEF TypeOK, WorkerOK
    <3>4. AtHome(g, created + 1, worker'.turns)
      <4>1. t.tok < created + 1 /\ g[t.tok] = worker.next
        BY <2>2, <2>3, <3>1
      <4> HIDE DEF g
      <4> QED BY <2>1, <3>3, <4>1, HomeInsert
    <3> HIDE DEF g
    <3> QED BY <1>1, <2>1, <3>1, <3>3, <3>4 DEF TokensAtHome, StartTurn
  <2>7. WorkerUnleaked'
    BY <1>u, <2>1, <2>3, <2>4 DEF WorkerUnleaked, Unleaked
  <2>8. CurVisible'
    BY <2>3, <2>4, <2>5 DEF CurVisible
  <2>9. Snapshot(worker'.turns)
    BY <1>1, <1>u, <2>3, <2>4 DEF StartTurn, Snapshot
  <2> QED BY <1>1, <2>1, <2>6, <2>7, <2>8, <2>9, WorkerStep DEF StartTurn
<1>2. CASE FinalText
  <2>1. /\ worker'.turns = Replied /\ worker'.response = Response
        /\ worker'.turns0 = worker.turns0 /\ worker'.response0 = worker.response0
        /\ worker'.phase = "finished"
    BY <1>0, <1>2 DEF FinalText, Finished, TypeOK, WorkerOK
  <2> QED BY <1>2, <1>a, <1>r, <2>1, FinalizeStep DEF FinalText
<1>3. CASE TruncatedToolCall
  <2>1. /\ worker'.turns = Replied /\ worker'.response = worker.response
        /\ worker'.turns0 = worker.turns0 /\ worker'.response0 = worker.response0
        /\ worker'.phase = "finished"
    BY <1>0, <1>3 DEF TruncatedToolCall, Finished, TypeOK, WorkerOK
  <2> QED BY <1>3, <1>a, <1>r, <2>1, FinalizeStep DEF TruncatedToolCall
<1>4. CASE InferenceError
  <2>1. /\ worker'.turns = worker.turns /\ worker'.response = worker.response
        /\ worker'.turns0 = worker.turns0 /\ worker'.response0 = worker.response0
        /\ worker'.phase = "finished"
    BY <1>0, <1>4 DEF InferenceError, Finished, TypeOK, WorkerOK
  <2> QED BY <1>4, <1>a, <1>u, <2>1, FinalizeStep DEF InferenceError
<1>5. CASE ToolUse
  <2>1. /\ worker'.turns = Replied /\ worker'.response = Response
        /\ worker'.turns0 = worker.turns0 /\ worker'.response0 = worker.response0
        /\ Cur' = Cur
    BY <1>0, <1>5 DEF ToolUse, TypeOK, WorkerOK, Cur
  <2>2. TokensAtHome'
    <3>1. AtHome(h, created, Replied)
      BY <1>5, <1>h, <1>a, HomeSimilar DEF ToolUse
    <3> QED BY <1>5, <1>h, <2>1, <3>1 DEF ToolUse, TokensAtHome
  <2>3. WorkerUnleaked' /\ CurVisible'
    BY <1>5, <1>u, <1>a, <1>r, <2>1 DEF ToolUse, WorkerUnleaked, CurVisible
  <2>4. Snapshot(worker'.turns)
    BY <1>5, <1>u, <1>a, <2>1 DEF ToolUse, Snapshot
  <2> QED BY <1>5, <2>1, <2>2, <2>3, <2>4, WorkerStep DEF ToolUse
<1>6. CASE ToolsDone \/ LoopEnds
  <2>1. /\ worker.phase # "idle" /\ worker'.phase \in {"loop", "finished"}
        /\ worker'.turns = worker.turns /\ worker'.response = worker.response
        /\ worker'.turns0 = worker.turns0 /\ worker'.response0 = worker.response0
        /\ UNCHANGED <<up, turns, last_response_id, unsaved, storedTurns,
                       storedResponseId, created>>
    BY <1>0, <1>6 DEF ToolsDone, LoopEnds, Finished, TypeOK, WorkerOK
  <2>2. TokensAtHome' /\ WorkerUnleaked' /\ CurVisible'
    BY <1>h, <1>u, <2>1 DEF TokensAtHome, WorkerUnleaked, CurVisible
  <2> QED BY <1>u, <2>1, <2>2, WorkerStep
<1>7. CASE Panic
  <2>1. /\ worker.phase # "idle" /\ worker'.phase = "finished"
        /\ worker'.turns = worker.turns0 /\ worker'.response = worker.response0
        /\ worker'.turns0 = worker.turns0 /\ worker'.response0 = worker.response0
        /\ UNCHANGED <<up, turns, last_response_id, unsaved, storedTurns,
                       storedResponseId, created>>
    BY <1>0, <1>7 DEF Panic, Finished, TypeOK, WorkerOK
  <2>2. TokensAtHome' /\ WorkerUnleaked' /\ CurVisible'
    BY <1>h, <1>u, <2>1 DEF TokensAtHome, WorkerUnleaked, CurVisible
  <2> QED BY <1>u, <2>1, <2>2, WorkerStep
<1> QED BY <1>1, <1>2, <1>3, <1>4, <1>5, <1>6, <1>7 DEF RequestWorker

\* As long as database writes succeed, no response id the session could chain
\* a request on, in memory or after a crash at any point, covers a turn the
\* user has undone (handle_undo, handle_request_finished, session_main).
THEOREM UndoneContextNeverLeaks ==
    ASSUME WriteFails = FALSE PROVE Spec => []NoUndoneContext
<1>1. IInv /\ TypeOK' /\ UNCHANGED vars => IInv'
  BY DEF IInv, vars, memory, database, NoUndoneContext, TokensAtHome,
     WorkerUnleaked, WorkerFollows, Snapshot, CurVisible, Cur, RecordSaved,
     HiddenIsKnown
<1>2. IInv /\ TypeOK' /\ Session => IInv'
  BY WriteInv, RunInv, FinishInv, UndoRedoInv, StopInv DEF Session
<1>3. IInv /\ TypeOK' /\ [Next]_vars => IInv'
  BY <1>1, <1>2, WorkerInv DEF Next
<1>4. IInv => NoUndoneContext
  BY DEF IInv
<1> QED BY <1>3, <1>4, InitIInv, HistoryTypeCorrect, PTL DEF Spec

\* Whatever writes fail: only a redo makes an undone turn visible again, the
\* merge of a finished request never does (handle_request_finished).
THEOREM UndoIsKept == Spec => UndoSticks
<1> DEFINE Redone == last_undo_turn_ids # None /\ last_undo_turn_ids' = None
           Kept == up /\ up' => \A i \in DOMAIN turns \cap DOMAIN turns' :
                       turns[i].undone /\ ~turns'[i].undone => Redone
<1> USE DEF memory
<1>1. TypeOK /\ [Next]_vars => Kept
  <2> SUFFICES ASSUME TypeOK, Next, up, up', turns' # turns,
                      NEW i \in DOMAIN turns \cap DOMAIN turns',
                      turns[i].undone, ~turns'[i].undone
               PROVE  Redone
    BY DEF vars
  <2>0. TurnMap(turns)
    BY DEF TypeOK
  <2>1. CASE HandleRedo
    BY <2>1 DEF HandleRedo
  <2>2. CASE HandleUndo
    <3>1. PICK ids : turns' = SetUndone(turns, ids, TRUE)
      BY <2>2 DEF HandleUndo
    <3>2. turns'[i].undone = IF i \in ids THEN TRUE ELSE turns[i].undone
      BY <2>0, <3>1 DEF SetUndone, TurnMap, Turn
    <3> QED BY <3>2
  <2>3. CASE HandleRequestFinished
    <3>1. turns' = Merge(turns, worker.turns)
      BY <2>3 DEF HandleRequestFinished
    <3>2. CASE KeepsUndo(turns, worker.turns, i)
      BY <3>1, <3>2 DEF Merge
    <3>3. CASE ~KeepsUndo(turns, worker.turns, i)
      BY <3>1, <3>3 DEF Merge, KeepsUndo
    <3> QED BY <3>2, <3>3
  <2>4. CASE RequestWorker
    BY <2>4 DEF RequestWorker, StartTurn, FinalText, TruncatedToolCall,
       InferenceError, ToolUse, ToolsDone, LoopEnds, Panic
  <2>5. CASE WriteRecord \/ HandleRunInput \/ \E id \in TurnIds : WriteTurn(id)
    BY <2>5 DEF WriteRecord, HandleRunInput, WriteTurn
  <2>6. CASE PersistAndExit \/ Crash \/ SessionMain
    BY <2>6 DEF PersistAndExit, Crash, SessionMain, Stopped
  <2> QED BY <2>1, <2>2, <2>3, <2>4, <2>5, <2>6 DEF Next, Session
<1> QED BY <1>1, HistoryTypeCorrect, PTL DEF Spec, UndoSticks

-----------------------------------------------------------------------------
(* What the database holds until the process dies *)

\* The turns of ts are numbered 0, ..., n - 1.
Numbered(ts, n) == DOMAIN ts = 0..(n - 1)

\* The same turn, whatever its undone flag.
SameTurn(a, b) == a.tok = b.tok /\ a.assistant = b.assistant

Working == {"loop", "inference", "tools"}

\* The ids of the session thread have no gaps, so that the worker, which
\* numbers from the number of turns, goes on where the thread stopped.
NoGaps ==
    /\ up => Numbered(turns, next_turn_id)
    /\ ~up => \E n \in 0..MaxTurns : Numbered(storedTurns, n)
    /\ worker.phase # "idle" =>
          /\ up
          /\ worker.turn_id = next_turn_id
          /\ Numbered(worker.turns0, next_turn_id)
          /\ \E n \in 0..MaxTurns :
                next_turn_id <= n /\ Numbered(worker.turns, n)
    /\ worker.phase \in Working =>
          Numbered(worker.turns, worker.next) /\ next_turn_id <= worker.next
    /\ worker.phase \in {"inference", "tools"} => next_turn_id < worker.next
    /\ worker.phase = "loop" /\ worker.iter = 0 => worker.next = next_turn_id
    /\ worker.phase = "inference" /\ worker.iter = 0 =>
          worker.next = next_turn_id + 1

\* The worker's copies hold the turns of the session thread.
Copies ==
    worker.phase # "idle" =>
        \A i \in DOMAIN turns : SameTurn(worker.turns[i], turns[i])
                                /\ SameTurn(worker.turns0[i], turns[i])

\* Every turn whose write is not still to be made is in the database.
Written ==
    up => \A i \in DOMAIN turns \ unsaved.ids :
        /\ i \in DOMAIN storedTurns
        /\ SameTurn(storedTurns[i], turns[i])
        /\ storedTurns[i].undone => turns[i].undone

\* The database holds no turn but those of the session thread and the one
\* that a finished worker has persisted.
NothingElse ==
    up => \A i \in DOMAIN storedTurns :
        \/ i \in DOMAIN turns /\ storedTurns[i].tok = turns[i].tok
        \/ /\ worker.phase = "finished"
           /\ i \in DOMAIN worker.turns
           /\ storedTurns[i].tok = worker.turns[i].tok

HInv == crashes = 0 => NoGaps /\ Copies /\ Written /\ NothingElse

\* A map without gaps has as many turns as its next free id says.
LEMMA CountNumbered ==
    ASSUME NEW ts, NEW n \in Nat, Numbered(ts, n)
    PROVE  Cardinality(DOMAIN ts) = n
<1>1. Cardinality(0..(n - 1)) = IF 0 > n - 1 THEN 0 ELSE n - 1 - 0 + 1
  BY FS_Interval
<1> QED BY <1>1 DEF Numbered

LEMMA NextNumbered ==
    ASSUME NEW ts, NEW n \in Nat, Numbered(ts, n), NEW m \in 0..n
    PROVE  NextAfter(ts, m) = n
<1> DEFINE S == {m} \cup {i + 1 : i \in DOMAIN ts}
<1>1. n \in S
  <2>1. CASE n = 0
    BY <2>1
  <2>2. CASE n # 0
    <3>1. n - 1 \in DOMAIN ts /\ (n - 1) + 1 = n
      BY <2>2 DEF Numbered
    <3> QED BY <3>1
  <2> QED BY <2>1, <2>2
<1>2. \A k \in S : k \in Nat /\ k <= n
  BY DEF Numbered
<1>3. NextAfter(ts, m) = CHOOSE x \in S : \A k \in S : k <= x
  BY DEF NextAfter
<1> DEFINE c == CHOOSE x \in S : \A k \in S : k <= x
<1> HIDE DEF S
<1>4. c \in S /\ \A k \in S : k <= c
  BY <1>1, <1>2
<1>5. NextAfter(ts, m) = c
  BY <1>3
<1> HIDE DEF c
<1>6. c \in Nat /\ c <= n /\ n <= c
  BY <1>1, <1>2, <1>4
<1> QED BY <1>5, <1>6

\* The merge keeps the thread's turns and what they hide, and adds the turns
\* that only the worker has.
LEMMA MergeSame ==
    ASSUME NEW ts, TurnMap(ts), NEW snap, TurnMap(snap),
           DOMAIN ts \subseteq DOMAIN snap,
           \A i \in DOMAIN ts : SameTurn(snap[i], ts[i])
    PROVE  /\ DOMAIN Merge(ts, snap) = DOMAIN snap
           /\ \A i \in DOMAIN ts : /\ SameTurn(Merge(ts, snap)[i], ts[i])
                                   /\ ts[i].undone => Merge(ts, snap)[i].undone
           /\ \A i \in DOMAIN snap \ DOMAIN ts : Merge(ts, snap)[i] = snap[i]
<1>1. DOMAIN Merge(ts, snap) = DOMAIN snap
  BY DEF Merge
<1>2. \A i \in DOMAIN snap :
         Merge(ts, snap)[i] = IF KeepsUndo(ts, snap, i) THEN ts[i] ELSE snap[i]
  BY DEF Merge
<1>3. \A i \in DOMAIN snap \ DOMAIN ts : ~KeepsUndo(ts, snap, i)
  BY DEF KeepsUndo
<1>4. \A i \in DOMAIN ts : ts[i].undone /\ ~KeepsUndo(ts, snap, i) => snap[i].undone
  BY DEF KeepsUndo
<1> QED BY <1>1, <1>2, <1>3, <1>4 DEF SameTurn

\* The invariant of a process that has not died.
HParts == NoGaps /\ Copies /\ Written /\ NothingElse

LEMMA InitHInv == Init => HInv
<1> SUFFICES ASSUME Init PROVE HParts
  BY DEF HInv, HParts
<1>1. worker.phase = "idle" /\ up /\ next_turn_id = 0 /\ DOMAIN turns = {}
        /\ DOMAIN storedTurns = {}
  BY NoTurnsType DEF Init, NoWorker
<1>2. Numbered(turns, 0)
  BY <1>1 DEF Numbered
<1> QED BY <1>1, <1>2 DEF HParts, NoGaps, Copies, Written, NothingElse, Working

\* The writes that a command of the session thread owes.
LEMMA WriteHParts ==
    ASSUME WriteFails = FALSE, TypeOK, HParts,
           WriteRecord \/ \E id \in TurnIds : WriteTurn(id)
    PROVE  HParts' /\ KeepsStored
<1> USE DEF memory
<1>1. CASE WriteRecord
  <2>1. UNCHANGED <<up, turns, next_turn_id, worker, storedTurns>>
          /\ unsaved'.ids = unsaved.ids
    BY <1>1 DEF WriteRecord, TypeOK
  <2> QED BY <2>1 DEF HParts, NoGaps, Copies, Written, NothingElse, KeepsStored
<1>2. CASE \E id \in TurnIds : WriteTurn(id)
  <2>1. PICK id \in TurnIds : WriteTurn(id)
    BY <1>2
  <2>2. /\ UNCHANGED <<up, turns, next_turn_id, worker>> /\ up
        /\ unsaved'.ids = unsaved.ids \ {id}
        /\ id \in DOMAIN turns
    BY <2>1 DEF WriteTurn, TypeOK
  <2>3. /\ DOMAIN storedTurns' = DOMAIN storedTurns \cup {id}
        /\ storedTurns'[id] = turns[id]
        /\ \A i \in DOMAIN storedTurns : i # id => storedTurns'[i] = storedTurns[i]
    BY <2>1 DEF WriteTurn, Write, Insert
  <2>4. NoGaps' /\ Copies'
    BY <2>2 DEF HParts, NoGaps, Copies
  <2>5. Written'
    BY <2>2, <2>3 DEF HParts, Written, SameTurn
  <2>6. NothingElse'
    BY <2>2, <2>3 DEF HParts, NothingElse
  <2>7. KeepsStored
    <3>1. id \in DOMAIN storedTurns => storedTurns[id].tok = turns[id].tok
      BY <2>2 DEF HParts, NothingElse, Copies, SameTurn
    <3> QED BY <2>3, <3>1 DEF KeepsStored
  <2> QED BY <2>4, <2>5, <2>6, <2>7 DEF HParts
<1> QED BY <1>1, <1>2

\* A request begins.
LEMMA RunHParts ==
    ASSUME TypeOK, HParts, HandleRunInput PROVE HParts' /\ KeepsStored
<1> USE DEF memory, database
<1>1. /\ UNCHANGED <<up, turns, next_turn_id, unsaved, storedTurns>> /\ up
      /\ worker.phase = "idle"
      /\ worker' = FromSnapshot
  BY DEF HandleRunInput, Ready
<1>2. next_turn_id \in 0..MaxTurns /\ next_turn_id \in Nat /\ Numbered(turns, next_turn_id)
  BY <1>1, HistoryAssumption DEF TypeOK, HParts, NoGaps
<1>3. Cardinality(DOMAIN turns) = next_turn_id
  BY <1>2, CountNumbered
<1>4. /\ worker'.phase = "loop" /\ worker'.turns = turns /\ worker'.turns0 = turns
      /\ worker'.next = next_turn_id /\ worker'.turn_id = next_turn_id
  BY <1>1, <1>3 DEF FromSnapshot
<1>5. NoGaps'
  BY <1>1, <1>2, <1>4 DEF NoGaps, Working, Numbered
<1>6. Copies'
  BY <1>1, <1>4 DEF Copies, SameTurn
<1>7. Written' /\ NothingElse'
  BY <1>1, <1>4 DEF HParts, Written, NothingElse
<1> QED BY <1>1, <1>5, <1>6, <1>7 DEF HParts, KeepsStored

\* A request ends and its turns join those of the session thread.
LEMMA FinishHParts ==
    ASSUME TypeOK, HParts, HandleRequestFinished PROVE HParts' /\ KeepsStored
<1> USE DEF memory, database
<1>1. /\ UNCHANGED <<up, storedTurns>> /\ up /\ worker.phase = "finished"
      /\ unsaved.ids = {}
      /\ turns' = Merge(turns, worker.turns)
      /\ next_turn_id' = NextAfter(worker.turns, next_turn_id)
      /\ unsaved'.ids = NewTurns(turns, worker.turns)
      /\ worker'.phase = "idle"
  BY DEF HandleRequestFinished, Ready, Saved, NoWorker
<1>2. PICK n \in 0..MaxTurns : next_turn_id <= n /\ Numbered(worker.turns, n)
  BY <1>1 DEF HParts, NoGaps
<1>3. n \in Nat /\ next_turn_id \in 0..n /\ Numbered(turns, next_turn_id)
  BY <1>1, <1>2, HistoryAssumption DEF TypeOK, HParts, NoGaps
<1>4. next_turn_id' = n
  BY <1>1, <1>2, <1>3, NextNumbered
<1>5. /\ TurnMap(turns) /\ TurnMap(worker.turns)
      /\ DOMAIN turns \subseteq DOMAIN worker.turns
      /\ \A i \in DOMAIN turns : SameTurn(worker.turns[i], turns[i])
  BY <1>1, <1>2, <1>3 DEF TypeOK, WorkerOK, HParts, Copies, Numbered
<1>6. /\ DOMAIN turns' = DOMAIN worker.turns
      /\ \A i \in DOMAIN turns : /\ SameTurn(turns'[i], turns[i])
                                 /\ turns[i].undone => turns'[i].undone
      /\ \A i \in DOMAIN worker.turns \ DOMAIN turns : turns'[i] = worker.turns[i]
  BY <1>1, <1>5, MergeSame
<1>7. unsaved'.ids = DOMAIN worker.turns \ DOMAIN turns
  BY <1>1 DEF NewTurns
<1>8. NoGaps'
  BY <1>1, <1>2, <1>4, <1>6 DEF NoGaps, Numbered, Working
<1>9. Copies'
  BY <1>1 DEF Copies
<1>10. Written'
  BY <1>1, <1>5, <1>6, <1>7 DEF HParts, Written, SameTurn
<1>11. NothingElse'
  BY <1>1, <1>5, <1>6 DEF HParts, NothingElse, SameTurn
<1> QED BY <1>1, <1>8, <1>9, <1>10, <1>11 DEF HParts, KeepsStored

\* Undo and redo change flags only, and owe the writes of all they change.
LEMMA UndoRedoHParts ==
    ASSUME TypeOK, HParts, HandleUndo \/ HandleRedo PROVE HParts' /\ KeepsStored
<1> USE DEF memory, database
<1>1. /\ UNCHANGED <<up, next_turn_id, storedTurns, worker>> /\ up
      /\ unsaved.ids = {}
  <2>1. CASE HandleUndo
    BY <2>1 DEF HandleUndo, Ready, Saved
  <2>2. CASE HandleRedo
    BY <2>2 DEF HandleRedo, Ready, Saved
  <2> QED BY <2>1, <2>2
<1>2. /\ DOMAIN turns' = DOMAIN turns
      /\ \A i \in DOMAIN turns : SameTurn(turns'[i], turns[i])
      /\ \A i \in DOMAIN turns \ unsaved'.ids : turns'[i] = turns[i]
  <2>0. TurnMap(turns)
    BY DEF TypeOK
  <2>1. CASE HandleUndo
    <3>1. PICK target \in DOMAIN turns :
            LET S == {i \in DOMAIN turns : target <= i}
            IN  /\ turns' = SetUndone(turns, S, TRUE)
                /\ unsaved' = [record |-> last_response_id # None, ids |-> S]
      BY <2>1 DEF HandleUndo
    <3> DEFINE ids == {i \in DOMAIN turns : target <= i}
    <3>0. turns' = SetUndone(turns, ids, TRUE) /\ unsaved'.ids = ids
      BY <3>1
    <3> HIDE DEF ids
    <3>2. /\ DOMAIN turns' = DOMAIN turns
          /\ \A i \in DOMAIN turns : SameTurn(turns'[i], turns[i])
          /\ \A i \in DOMAIN turns \ ids : turns'[i] = turns[i]
      BY <2>0, <3>0 DEF SetUndone, SameTurn, TurnMap, Turn
    <3> QED BY <3>0, <3>2
  <2>2. CASE HandleRedo
    <3>1. turns' = SetUndone(turns, last_undo_turn_ids, FALSE)
            /\ unsaved'.ids = last_undo_turn_ids \cap DOMAIN turns
      BY <2>2 DEF HandleRedo
    <3>2. /\ DOMAIN turns' = DOMAIN turns
          /\ \A i \in DOMAIN turns : SameTurn(turns'[i], turns[i])
          /\ \A i \in DOMAIN turns \ last_undo_turn_ids : turns'[i] = turns[i]
      BY <2>0, <3>1 DEF SetUndone, SameTurn, TurnMap, Turn
    <3> QED BY <3>1, <3>2
  <2> QED BY <2>1, <2>2
<1>3. NoGaps'
  BY <1>1, <1>2 DEF HParts, NoGaps, Numbered
<1>4. Copies'
  BY <1>1, <1>2 DEF HParts, Copies, SameTurn
<1>5. Written'
  BY <1>1, <1>2 DEF HParts, Written, SameTurn
<1>6. NothingElse'
  BY <1>1, <1>2 DEF HParts, NothingElse, SameTurn
<1> QED BY <1>1, <1>3, <1>4, <1>5, <1>6 DEF HParts, KeepsStored

\* The session is unloaded between requests and loaded again.
LEMMA ReloadHParts ==
    ASSUME TypeOK, HParts, PersistAndExit \/ SessionMain PROVE HParts' /\ KeepsStored
<1> USE DEF memory, database
<1>1. CASE PersistAndExit
  <2>1. /\ up /\ ~up' /\ worker.phase = "idle" /\ worker'.phase = "idle"
        /\ unsaved.ids = {} /\ storedTurns' = storedTurns
    BY <1>1 DEF PersistAndExit, Stopped, Ready, Saved, NoWorker
  <2>2. DOMAIN storedTurns = DOMAIN turns
    BY <2>1 DEF HParts, Written, NothingElse
  <2>3. next_turn_id \in 0..MaxTurns /\ Numbered(storedTurns, next_turn_id)
    BY <2>1, <2>2 DEF HParts, NoGaps, Numbered, TypeOK
  <2>4. NoGaps'
    BY <2>1, <2>3 DEF NoGaps, Working, Numbered
  <2> QED BY <2>1, <2>4 DEF HParts, Copies, Written, NothingElse, KeepsStored
<1>2. CASE SessionMain
  <2>1. /\ ~up /\ up' /\ turns' = storedTurns /\ storedTurns' = storedTurns
        /\ next_turn_id' = NextAfter(storedTurns, 0) /\ worker'.phase = "idle"
    BY <1>2 DEF SessionMain, NoWorker
  <2>2. PICK n \in 0..MaxTurns : Numbered(storedTurns, n)
    BY <2>1 DEF HParts, NoGaps
  <2>3. n \in Nat /\ 0 \in 0..n
    BY <2>2, HistoryAssumption
  <2>4. next_turn_id' = n
    BY <2>1, <2>2, <2>3, NextNumbered
  <2>5. NoGaps'
    BY <2>1, <2>2, <2>4 DEF NoGaps, Working, Numbered
  <2> QED BY <2>1, <2>5 DEF HParts, Copies, Written, NothingElse, KeepsStored, SameTurn
<1> QED BY <1>1, <1>2

\* A turn of the request begins, above all turns of the session thread.
LEMMA StartHParts ==
    ASSUME TypeOK, HParts, StartTurn PROVE HParts' /\ KeepsStored
<1> USE DEF memory, database
<1> DEFINE t == [tok |-> created, user |-> worker.iter = 0,
                 assistant |-> FALSE, undone |-> FALSE]
<1>1. /\ UNCHANGED <<up, turns, next_turn_id, unsaved, storedTurns>>
      /\ worker.phase = "loop" /\ worker.next < MaxTurns
      /\ worker'.phase = "inference"
      /\ worker'.turns = Insert(worker.turns, worker.next, t)
      /\ worker'.next = worker.next + 1 /\ worker'.iter = worker.iter
      /\ worker'.turns0 = worker.turns0 /\ worker'.turn_id = worker.turn_id
  BY DEF StartTurn, TypeOK, WorkerOK
<1>2. /\ up /\ worker.turn_id = next_turn_id
      /\ Numbered(turns, next_turn_id) /\ Numbered(worker.turns0, next_turn_id)
      /\ Numbered(worker.turns, worker.next) /\ next_turn_id <= worker.next
      /\ worker.iter = 0 => worker.next = next_turn_id
  BY <1>1 DEF HParts, NoGaps, Working
<1>3. worker.next \in Nat /\ next_turn_id \in Nat
  BY HistoryAssumption DEF TypeOK, WorkerOK
<1>4. /\ DOMAIN worker'.turns = DOMAIN worker.turns \cup {worker.next}
      /\ \A i \in DOMAIN worker.turns :
            i # worker.next => worker'.turns[i] = worker.turns[i]
  BY <1>1 DEF Insert
<1>5. Numbered(worker'.turns, worker.next + 1)
  BY <1>2, <1>3, <1>4 DEF Numbered
<1>6. NoGaps'
  <2>1. worker.next + 1 \in 0..MaxTurns /\ next_turn_id <= worker.next + 1
          /\ next_turn_id < worker.next + 1
    BY <1>1, <1>2, <1>3, HistoryAssumption
  <2> QED BY <1>1, <1>2, <1>5, <2>1 DEF NoGaps, Working, Numbered
<1>7. Copies'
  <2>1. \A i \in DOMAIN turns : i \in DOMAIN worker.turns /\ i # worker.next
    BY <1>2, <1>3 DEF Numbered
  <2> QED BY <1>1, <1>4, <2>1 DEF HParts, Copies
<1>8. Written' /\ NothingElse'
  BY <1>1 DEF HParts, Written, NothingElse
<1> QED BY <1>1, <1>6, <1>7, <1>8 DEF HParts, KeepsStored

\* A step of the worker that leaves the database alone and whose copy still
\* holds the turns of the session thread.
LEMMA KeepHParts ==
    ASSUME TypeOK, HParts, worker.phase \in Working,
           UNCHANGED <<up, turns, next_turn_id, unsaved, storedTurns>>,
           worker'.turns0 = worker.turns0, worker'.turn_id = worker.turn_id,
           worker'.next = worker.next,
           \/ /\ worker'.phase = "finished"
              /\ worker'.turns = worker.turns \/ worker'.turns = worker.turns0
           \/ /\ worker.phase = "inference" /\ worker'.phase = "tools"
              /\ DOMAIN worker'.turns = DOMAIN worker.turns
              /\ \A i \in DOMAIN worker.turns :
                    i # Cur => worker'.turns[i] = worker.turns[i]
           \/ /\ worker.phase = "tools" /\ worker'.phase = "loop"
              /\ worker'.iter = worker.iter + 1
              /\ worker'.turns = worker.turns
    PROVE  HParts' /\ KeepsStored
<1>1. /\ up /\ worker.turn_id = next_turn_id
      /\ Numbered(turns, next_turn_id) /\ Numbered(worker.turns0, next_turn_id)
      /\ Numbered(worker.turns, worker.next) /\ next_turn_id <= worker.next
      /\ worker.phase \in {"inference", "tools"} => next_turn_id < worker.next
  BY DEF HParts, NoGaps, Working
<1>2. /\ worker.next \in 0..MaxTurns /\ worker.next \in Nat
      /\ next_turn_id \in 0..MaxTurns /\ next_turn_id \in Nat
      /\ worker.iter \in Nat
  BY HistoryAssumption DEF TypeOK, WorkerOK
<1>3. \/ worker'.phase = "finished" /\ worker'.turns = worker.turns0
      \/ DOMAIN worker'.turns = DOMAIN worker.turns
  OBVIOUS
<1>4. \E n \in 0..MaxTurns : next_turn_id <= n /\ Numbered(worker'.turns, n)
  BY <1>1, <1>2, <1>3 DEF Numbered
<1>5. worker'.phase \in Working => Numbered(worker'.turns, worker.next)
  BY <1>1, <1>3 DEF Numbered, Working
<1>6. NoGaps'
  BY <1>1, <1>2, <1>4, <1>5 DEF NoGaps, Working, Numbered
<1>7. Copies'
  <2>1. \A i \in DOMAIN turns : i \in DOMAIN worker.turns
          /\ (worker.phase = "inference" => i # Cur)
    BY <1>1, <1>2 DEF Numbered, Cur
  <2>2. \A i \in DOMAIN turns : SameTurn(worker.turns[i], turns[i])
                                /\ SameTurn(worker.turns0[i], turns[i])
    BY DEF HParts, Copies, Working
  <2> QED BY <2>1, <2>2 DEF Copies
<1>8. Written' /\ NothingElse'
  <2>1. worker.phase # "finished"
    BY DEF Working
  <2> QED BY <2>1 DEF HParts, Written, NothingElse
<1> QED BY <1>6, <1>7, <1>8 DEF HParts, KeepsStored

\* The worker persists the turn that ends its request.
LEMMA FinalizeHParts ==
    ASSUME WriteFails = FALSE, TypeOK, HParts, worker.phase = "inference",
           UNCHANGED <<up, turns, next_turn_id, unsaved>>,
           NEW ts, Finalize(ts), Cur \in DOMAIN ts,
           DOMAIN ts = DOMAIN worker.turns,
           \A i \in DOMAIN worker.turns : i # Cur => ts[i] = worker.turns[i],
           worker'.turns0 = worker.turns0, worker'.turn_id = worker.turn_id,
           worker'.phase = "finished", worker'.turns = ts
    PROVE  HParts' /\ KeepsStored
<1>1. /\ up /\ worker.turn_id = next_turn_id
      /\ Numbered(turns, next_turn_id) /\ Numbered(worker.turns0, next_turn_id)
      /\ Numbered(worker.turns, worker.next) /\ next_turn_id < worker.next
  BY DEF HParts, NoGaps, Working
<1>2. /\ worker.next \in 0..MaxTurns /\ worker.next \in Nat
      /\ next_turn_id \in 0..MaxTurns /\ next_turn_id \in Nat
  BY HistoryAssumption DEF TypeOK, WorkerOK
<1>3. /\ DOMAIN storedTurns' = DOMAIN storedTurns \cup {Cur}
      /\ storedTurns'[Cur] = ts[Cur]
      /\ \A i \in DOMAIN storedTurns : i # Cur => storedTurns'[i] = storedTurns[i]
  BY DEF Finalize, Write, Insert
<1>4. \A i \in DOMAIN turns : i \in DOMAIN worker.turns /\ i # Cur
  BY <1>1, <1>2 DEF Numbered, Cur
<1>5. NoGaps'
  BY <1>1, <1>2 DEF NoGaps, Working, Numbered
<1>6. Copies'
  BY <1>4 DEF HParts, Copies
<1>7. Written'
  BY <1>3, <1>4 DEF HParts, Written
<1>8. \A i \in DOMAIN storedTurns : i \in DOMAIN turns /\ storedTurns[i].tok = turns[i].tok
  BY <1>1 DEF HParts, NothingElse
<1>9. NothingElse'
  BY <1>3, <1>4, <1>8 DEF NothingElse
<1>10. KeepsStored
  BY <1>3, <1>4, <1>8 DEF KeepsStored
<1> QED BY <1>5, <1>6, <1>7, <1>9, <1>10 DEF HParts

LEMMA WorkerHParts ==
    ASSUME WriteFails = FALSE, TypeOK, HParts, RequestWorker
    PROVE  HParts' /\ KeepsStored
<1> USE DEF memory, database
<1>1. CASE StartTurn
  BY <1>1, StartHParts
<1>2. CASE FinalText \/ TruncatedToolCall \/ InferenceError
  <2>1. /\ worker.phase = "inference"
        /\ UNCHANGED <<up, turns, next_turn_id, unsaved>>
    BY <1>2 DEF FinalText, TruncatedToolCall, InferenceError
  <2>2. Cur \in DOMAIN worker.turns
    BY <2>1 DEF TypeOK, WorkerOK
  <2>3. /\ DOMAIN Replied = DOMAIN worker.turns
        /\ \A i \in DOMAIN worker.turns : i # Cur => Replied[i] = worker.turns[i]
    BY <2>1, ReplyType
  <2>4. \E ts \in {Replied, worker.turns} :
           /\ Finalize(ts) /\ worker'.turns = ts /\ worker'.phase = "finished"
           /\ worker'.turns0 = worker.turns0 /\ worker'.turn_id = worker.turn_id
    BY <1>2 DEF FinalText, TruncatedToolCall, InferenceError, Finished, TypeOK, WorkerOK
  <2> QED BY <2>1, <2>2, <2>3, <2>4, FinalizeHParts
<1>3. CASE ToolUse
  <2>1. /\ worker.phase = "inference" /\ worker'.phase = "tools"
        /\ UNCHANGED <<up, turns, next_turn_id, unsaved, storedTurns>>
        /\ worker'.turns = Replied /\ worker'.next = worker.next
        /\ worker'.turns0 = worker.turns0 /\ worker'.turn_id = worker.turn_id
    BY <1>3 DEF ToolUse, TypeOK, WorkerOK
  <2>2. /\ DOMAIN Replied = DOMAIN worker.turns
        /\ \A i \in DOMAIN worker.turns : i # Cur => Replied[i] = worker.turns[i]
    BY <2>1, ReplyType
  <2> QED BY <2>1, <2>2, KeepHParts DEF Working
<1>4. CASE ToolsDone
  <2>1. /\ worker.phase = "tools" /\ worker'.phase = "loop"
        /\ UNCHANGED <<up, turns, next_turn_id, unsaved, storedTurns>>
        /\ worker'.turns = worker.turns /\ worker'.next = worker.next
        /\ worker'.iter = worker.iter + 1
        /\ worker'.turns0 = worker.turns0 /\ worker'.turn_id = worker.turn_id
    BY <1>4 DEF ToolsDone, TypeOK, WorkerOK
  <2> QED BY <2>1, KeepHParts DEF Working
<1>5. CASE LoopEnds \/ Panic
  <2>1. /\ worker.phase \in Working /\ worker'.phase = "finished"
        /\ UNCHANGED <<up, turns, next_turn_id, unsaved, storedTurns>>
        /\ worker'.turns = worker.turns \/ worker'.turns = worker.turns0
        /\ worker'.next = worker.next
        /\ worker'.turns0 = worker.turns0 /\ worker'.turn_id = worker.turn_id
    BY <1>5 DEF LoopEnds, Panic, Finished, Working, TypeOK, WorkerOK
  <2> QED BY <2>1, KeepHParts
<1> QED BY <1>1, <1>2, <1>3, <1>4, <1>5 DEF RequestWorker

\* Every step that is not a crash.
LEMMA NextHInv ==
    ASSUME WriteFails = FALSE, TypeOK, HInv, [Next]_vars, crashes' = 0
    PROVE  HParts' /\ KeepsStored /\ HParts
<1>1. crashes = 0
  <2>1. crashes' = crashes \/ crashes' = crashes + 1
    BY DEF vars, Next, Session, RequestWorker, WriteRecord, WriteTurn,
       HandleRunInput, HandleRequestFinished, HandleUndo, HandleRedo,
       PersistAndExit, Crash, SessionMain, StartTurn, FinalText,
       TruncatedToolCall, InferenceError, ToolUse, ToolsDone, LoopEnds, Panic
  <2>2. crashes \in Nat
    BY HistoryAssumption DEF TypeOK
  <2> QED BY <2>1, <2>2
<1>2. HParts
  BY <1>1 DEF HInv, HParts
<1>3. CASE UNCHANGED vars
  BY <1>2, <1>3 DEF vars, memory, database, HParts, NoGaps, Copies, Written,
     NothingElse, KeepsStored
<1>4. CASE Session
  <2>1. ~Crash
    BY <1>1 DEF Crash
  <2> QED BY <1>2, <1>4, <2>1, WriteHParts, RunHParts, FinishHParts,
             UndoRedoHParts, ReloadHParts DEF Session
<1>5. CASE RequestWorker
  BY <1>2, <1>5, WorkerHParts
<1> QED BY <1>2, <1>3, <1>4, <1>5 DEF Next

LEMMA HistoryInvariant ==
    ASSUME WriteFails = FALSE PROVE Spec => [](TypeOK /\ HInv)
<1>1. TypeOK /\ HInv /\ [Next]_vars => HInv'
  BY NextHInv DEF HInv, HParts
<1> QED BY <1>1, InitHInv, HistoryTypeCorrect, PTL DEF Spec

\* As long as writes succeed and the process has not died: between requests
\* the database holds the turns the session shows, whatever undo, redo, cancel,
\* error, panic and reload came in between (handle_request_finished,
\* finalize_turn, handle_undo, session_main).
THEOREM HistoryIsStored ==
    ASSUME WriteFails = FALSE PROVE Spec => []StoredHistory
<1>1. ASSUME TypeOK, HInv PROVE StoredHistory
  <2> SUFFICES ASSUME crashes = 0, Quiet
               PROVE  /\ DOMAIN storedTurns = DOMAIN turns
                      /\ \A i \in DOMAIN turns :
                            /\ storedTurns[i].tok = turns[i].tok
                            /\ storedTurns[i].assistant = turns[i].assistant
                            /\ storedTurns[i].undone => turns[i].undone
    BY DEF StoredHistory
  <2>1. up /\ worker.phase = "idle" /\ unsaved.ids = {}
    BY DEF Quiet, Ready, Saved
  <2>2. Written /\ NothingElse
    BY <1>1 DEF HInv
  <2> QED BY <2>1, <2>2 DEF Written, NothingElse, SameTurn
<1> QED BY <1>1, HistoryInvariant, PTL

\* Under the same hypotheses a stored turn is never replaced by another one:
\* the worker, which numbers its turns from the number of turns in its
\* snapshot, and the merge never reuse an id (agent_loop, finalize_turn).
THEOREM StoredTurnsStay ==
    ASSUME WriteFails = FALSE PROVE Spec => TurnIdsGrowUncrashed
<1>1. TypeOK /\ HInv /\ [Next]_vars => [crashes' = 0 => KeepsStored]_vars
  BY NextHInv
<1> QED BY <1>1, HistoryInvariant, PTL DEF Spec, TurnIdsGrowUncrashed

\* Under the same hypotheses the turn id that Started announces is the id the
\* worker gives to the request's first turn (start_request, agent_loop).
THEOREM StartedIsRight ==
    ASSUME WriteFails = FALSE PROVE Spec => []StartedPredictsTurn
<1>1. ASSUME TypeOK, HInv PROVE StartedPredictsTurn
  <2>1. next_turn_id \in Nat
    BY <1>1, HistoryAssumption DEF TypeOK
  <2> QED BY <1>1, <2>1 DEF HInv, NoGaps, StartedPredictsTurn, Cur
<1> QED BY <1>1, HistoryInvariant, PTL

-----------------------------------------------------------------------------
(* Chained requests of a plain session *)

\* The response covers every visible turn up to the last visible answer.
Covers(r, ts) ==
    r # None => \A i \in Visible(ts) \ ChainTail(ts) : ts[i].tok \in r

\* Whatever a request could be chained on covers the turns it goes with.
AllCovered ==
    /\ up => Covers(last_response_id, turns)
    /\ ~up => Covers(storedResponseId, storedTurns)
    /\ worker.phase # "idle" =>
          /\ Covers(worker.response, worker.turns)
          /\ Covers(worker.response0, worker.turns0)

\* Without redo, what a copy hides is hidden in the session thread, and what
\* the session thread hides is hidden in the database.
HiddenTogether ==
    /\ worker.phase # "idle" =>
          \A i \in DOMAIN turns :
              /\ worker.turns[i].undone => turns[i].undone
              /\ worker.turns0[i].undone => turns[i].undone
    /\ up => \A i \in DOMAIN turns \ unsaved.ids :
                turns[i].undone => storedTurns[i].undone

PInv ==
    /\ plain \in BOOLEAN
    /\ plain => crashes = 0 /\ AllCovered /\ HiddenTogether

\* Copies that show the same turns are covered alike.
LEMMA CoversAlike ==
    ASSUME NEW r, NEW ts, NEW us, Covers(r, ts), DOMAIN us = DOMAIN ts,
           \A i \in DOMAIN ts : SameTurn(us[i], ts[i]),
           \A i \in DOMAIN ts : us[i].undone <=> ts[i].undone
    PROVE  Covers(r, us)
<1>1. Visible(us) = Visible(ts)
  BY DEF Visible
<1>2. ChainTail(us) = ChainTail(ts)
  BY <1>1 DEF ChainTail, SameTurn, Visible
<1> QED BY <1>1, <1>2 DEF Covers, SameTurn, Visible

\* A turn without an answer, above all others, stays in the tail.
LEMMA CoversNew ==
    ASSUME NEW r, NEW ts, NEW n \in Nat, Numbered(ts, n), Covers(r, ts),
           NEW t, ~t.assistant, ~t.undone
    PROVE  Covers(r, Insert(ts, n, t))
<1> DEFINE us == Insert(ts, n, t)
<1>1. /\ DOMAIN us = DOMAIN ts \cup {n} /\ us[n] = t
      /\ \A i \in DOMAIN ts : i # n /\ us[i] = ts[i] /\ i \in Nat /\ i < n
  BY DEF Insert, Numbered
<1> HIDE DEF us
<1>2. Visible(us) = Visible(ts) \cup {n}
  BY <1>1 DEF Visible
<1>3. \A j \in Visible(us) : us[j].assistant => j \in Visible(ts) /\ ts[j].assistant
  BY <1>1, <1>2 DEF Visible
<1>4. \A i \in Visible(us) \ ChainTail(us) : i \in Visible(ts) \ ChainTail(ts)
  <2> SUFFICES ASSUME NEW i \in Visible(us), i \notin ChainTail(us)
               PROVE  i \in Visible(ts) /\ i \notin ChainTail(ts)
    OBVIOUS
  <2>1. PICK j \in Visible(us) : us[j].assistant /\ ~(j < i)
    BY DEF ChainTail
  <2>2. j \in Visible(ts) /\ ts[j].assistant /\ j \in DOMAIN ts
    BY <1>3, <2>1 DEF Visible
  <2>3. i # n
    BY <1>1, <2>1, <2>2
  <2> QED BY <1>2, <2>1, <2>2, <2>3 DEF ChainTail
<1>5. \A i \in Visible(ts) : us[i] = ts[i]
  BY <1>1 DEF Visible
<1> QED BY <1>4, <1>5 DEF Covers, us

\* An answer covers all that its request showed.
LEMMA AnswerCovers ==
    ASSUME NEW r, NEW ts, Covers(r, ts), NEW cur \in DOMAIN ts,
           NEW us, DOMAIN us = DOMAIN ts,
           \A i \in DOMAIN ts : us[i].tok = ts[i].tok /\ us[i].undone = ts[i].undone
    PROVE  Covers(Answered(ts, r, cur), us)
<1>1. \A i \in Visible(us) : i \in Visible(ts) /\ us[i].tok = ts[i].tok
  BY DEF Visible
<1>2. \A i \in Visible(ts) : ts[i].tok \in Answered(ts, r, cur)
  <2> SUFFICES ASSUME NEW i \in Visible(ts) PROVE ts[i].tok \in Answered(ts, r, cur)
    OBVIOUS
  <2>1. CASE r = None
    BY <2>1 DEF Answered, TokensOf
  <2>2. CASE r # None /\ i \in ChainTail(ts)
    BY <2>2 DEF Answered, TokensOf
  <2>3. CASE r # None /\ i \notin ChainTail(ts)
    BY <2>3 DEF Answered, Covers
  <2> QED BY <2>1, <2>2, <2>3
<1> QED BY <1>1, <1>2 DEF Covers

\* The steps of the session thread.
LEMMA PlainSession ==
    ASSUME WriteFails = FALSE, TypeOK, HParts, AllCovered, HiddenTogether,
           Session, ~HandleRedo, ~Crash
    PROVE  AllCovered' /\ HiddenTogether'
<1> USE DEF memory, database
<1>1. CASE WriteRecord
  <2>1. UNCHANGED <<up, turns, last_response_id, worker, storedTurns>> /\ up
          /\ unsaved'.ids = unsaved.ids
    BY <1>1 DEF WriteRecord, TypeOK
  <2> QED BY <2>1 DEF AllCovered, HiddenTogether
<1>2. CASE \E id \in TurnIds : WriteTurn(id)
  <2>1. PICK id \in TurnIds : WriteTurn(id)
    BY <1>2
  <2>2. /\ UNCHANGED <<up, turns, last_response_id, worker>> /\ up
        /\ unsaved'.ids = unsaved.ids \ {id}
    BY <2>1 DEF WriteTurn, TypeOK
  <2>3. /\ storedTurns'[id] = turns[id]
        /\ \A i \in DOMAIN storedTurns : i # id => storedTurns'[i] = storedTurns[i]
    BY <2>1 DEF WriteTurn, Write, Insert
  <2>4. AllCovered'
    BY <2>2 DEF AllCovered
  <2>5. HiddenTogether'
    BY <2>2, <2>3 DEF HiddenTogether, HParts, Written
  <2> QED BY <2>4, <2>5
<1>3. CASE HandleRunInput
  <2>1. /\ UNCHANGED <<up, turns, last_response_id, unsaved, storedTurns>> /\ up
        /\ worker'.turns = turns /\ worker'.turns0 = turns
        /\ worker'.response = last_response_id
        /\ worker'.response0 = last_response_id
    BY <1>3 DEF HandleRunInput, Ready, FromSnapshot
  <2>2. AllCovered'
    BY <2>1 DEF AllCovered
  <2>3. HiddenTogether'
    BY <2>1 DEF HiddenTogether
  <2> QED BY <2>2, <2>3
<1>4. CASE HandleRequestFinished
  <2>1. /\ UNCHANGED <<up, storedTurns>> /\ up /\ worker.phase = "finished"
        /\ unsaved.ids = {}
        /\ turns' = Merge(turns, worker.turns)
        /\ last_response_id' = IF UndoDuringRequest(turns, worker.turns)
                               THEN None ELSE worker.response
        /\ unsaved'.ids = NewTurns(turns, worker.turns)
        /\ worker'.phase = "idle"
    BY <1>4 DEF HandleRequestFinished, Ready, Saved, NoWorker
  <2>2. PICK n \in 0..MaxTurns : next_turn_id <= n /\ Numbered(worker.turns, n)
    BY <2>1 DEF HParts, NoGaps
  <2>3. DOMAIN turns \subseteq DOMAIN worker.turns
    BY <2>1, <2>2, HistoryAssumption DEF HParts, NoGaps, Numbered, TypeOK
  <2>4. DOMAIN turns' = DOMAIN worker.turns
    BY <2>1, <2>3 DEF Merge
  <2>5. \A i \in DOMAIN worker.turns :
           turns'[i] = IF KeepsUndo(turns, worker.turns, i)
                       THEN turns[i] ELSE worker.turns[i]
    BY <2>1, <2>3 DEF Merge
  <2>6. Covers(last_response_id', turns')
    <3>1. CASE UndoDuringRequest(turns, worker.turns)
      BY <2>1, <3>1 DEF Covers
    <3>2. CASE ~UndoDuringRequest(turns, worker.turns)
      <4>1. \A i \in DOMAIN worker.turns : turns'[i] = worker.turns[i]
        BY <2>5, <3>2 DEF UndoDuringRequest
      <4>2. Covers(worker.response, worker.turns)
        BY <2>1 DEF AllCovered
      <4>3. Covers(worker.response, turns')
        BY <2>4, <4>1, <4>2, CoversAlike DEF SameTurn
      <4> QED BY <2>1, <3>2, <4>3
    <3> QED BY <3>1, <3>2
  <2>7. AllCovered'
    BY <2>1, <2>6 DEF AllCovered
  <2>8. \A i \in DOMAIN turns : turns'[i].undone => turns[i].undone
    BY <2>1, <2>3, <2>5 DEF HiddenTogether
  <2>9. \A i \in DOMAIN turns' \ unsaved'.ids : i \in DOMAIN turns
    BY <2>1, <2>4 DEF NewTurns
  <2>10. HiddenTogether'
    BY <2>1, <2>8, <2>9 DEF HiddenTogether
  <2> QED BY <2>7, <2>10
<1>5. CASE HandleUndo
  <2>1. /\ UNCHANGED <<up, storedTurns, worker>> /\ up /\ unsaved.ids = {}
        /\ last_response_id' = None
    BY <1>5 DEF HandleUndo, Ready, Saved
  <2>2. PICK target \in DOMAIN turns :
          LET S == {i \in DOMAIN turns : target <= i}
          IN  /\ turns' = SetUndone(turns, S, TRUE)
              /\ unsaved' = [record |-> last_response_id # None, ids |-> S]
    BY <1>5 DEF HandleUndo
  <2> DEFINE S == {i \in DOMAIN turns : target <= i}
  <2>3. turns' = SetUndone(turns, S, TRUE) /\ unsaved'.ids = S
    BY <2>2
  <2> HIDE DEF S
  <2>4. /\ DOMAIN turns' = DOMAIN turns
        /\ \A i \in DOMAIN turns : turns[i].undone => turns'[i].undone
        /\ \A i \in DOMAIN turns \ S : turns'[i] = turns[i]
    BY <2>3 DEF SetUndone, TypeOK, TurnMap, Turn
  <2>5. AllCovered'
    BY <2>1 DEF AllCovered, Covers
  <2>6. HiddenTogether'
    BY <2>1, <2>3, <2>4 DEF HiddenTogether
  <2> QED BY <2>5, <2>6
<1>6. CASE PersistAndExit
  <2>1. /\ up /\ ~up' /\ worker.phase = "idle" /\ worker'.phase = "idle"
        /\ unsaved.ids = {} /\ storedTurns' = storedTurns
        /\ storedResponseId' = last_response_id
    BY <1>6 DEF PersistAndExit, Stopped, Ready, Saved, NoWorker, Write
  <2>2. DOMAIN storedTurns = DOMAIN turns
    BY <2>1 DEF HParts, Written, NothingElse
  <2>3. \A i \in DOMAIN turns : SameTurn(storedTurns[i], turns[i])
    BY <2>1 DEF HParts, Written
  <2>4. \A i \in DOMAIN turns : storedTurns[i].undone <=> turns[i].undone
    BY <2>1 DEF HParts, Written, HiddenTogether
  <2>5. Covers(last_response_id, turns)
    BY <2>1 DEF AllCovered
  <2>6. Covers(last_response_id, storedTurns)
    BY <2>2, <2>3, <2>4, <2>5, CoversAlike
  <2> QED BY <2>1, <2>6 DEF AllCovered, HiddenTogether
<1>7. CASE SessionMain
  <2>1. /\ ~up /\ up' /\ turns' = storedTurns /\ storedTurns' = storedTurns
        /\ last_response_id' = storedResponseId /\ worker'.phase = "idle"
    BY <1>7 DEF SessionMain, NoWorker
  <2> QED BY <2>1 DEF AllCovered, HiddenTogether
<1> QED BY <1>1, <1>2, <1>3, <1>4, <1>5, <1>6, <1>7 DEF Session

\* The steps of the worker.
LEMMA PlainWorker ==
    ASSUME WriteFails = FALSE, TypeOK, HParts, AllCovered, HiddenTogether,
           RequestWorker, ~TruncatedToolCall
    PROVE  AllCovered' /\ HiddenTogether'
<1> USE DEF memory, database
<1>0. /\ worker.phase \in Working
      /\ UNCHANGED <<up, turns, last_response_id, unsaved>>
      /\ worker'.turns0 = worker.turns0 /\ worker'.response0 = worker.response0
  BY DEF RequestWorker, StartTurn, FinalText, TruncatedToolCall, InferenceError,
     ToolUse, ToolsDone, LoopEnds, Panic, Finished, Working, TypeOK, WorkerOK
<1>1. /\ up /\ worker.phase # "idle"
      /\ Covers(worker.response, worker.turns)
      /\ Covers(worker.response0, worker.turns0)
      /\ Covers(last_response_id, turns)
      /\ Numbered(turns, next_turn_id)
      /\ Numbered(worker.turns, worker.next)
      /\ next_turn_id <= worker.next
      /\ worker.phase = "inference" => next_turn_id < worker.next
  BY <1>0 DEF HParts, NoGaps, AllCovered, Working
<1>2. worker.next \in Nat /\ next_turn_id \in Nat
  BY HistoryAssumption DEF TypeOK, WorkerOK
<1>3. \A i \in DOMAIN turns :
         /\ i \in DOMAIN worker.turns /\ i # worker.next
         /\ worker.phase = "inference" => i # Cur
  BY <1>1, <1>2 DEF Numbered, Cur
<1>4. ASSUME Covers(worker'.response, worker'.turns),
             \A i \in DOMAIN turns : worker'.turns[i] = worker.turns[i]
                                     \/ worker'.turns[i] = worker.turns0[i],
             \A i \in DOMAIN turns \ unsaved.ids : storedTurns'[i] = storedTurns[i]
      PROVE  AllCovered' /\ HiddenTogether'
  <2>1. AllCovered'
    BY <1>0, <1>1, <1>4 DEF AllCovered
  <2>2. HiddenTogether'
    BY <1>0, <1>1, <1>4 DEF HiddenTogether
  <2> QED BY <2>1, <2>2
<1>5. ASSUME NEW ts, worker.phase = "inference", Finalize(ts)
      PROVE  \A i \in DOMAIN turns \ unsaved.ids : storedTurns'[i] = storedTurns[i]
  <2>1. \A i \in DOMAIN turns \ unsaved.ids : i \in DOMAIN storedTurns /\ i # Cur
    BY <1>1, <1>3, <1>5 DEF HParts, Written
  <2>2. storedTurns' = Insert(storedTurns, Cur, ts[Cur])
    BY <1>5 DEF Finalize, Write
  <2> QED BY <2>1, <2>2 DEF Insert
<1>6. CASE StartTurn
  <2> DEFINE t == [tok |-> created, user |-> worker.iter = 0,
                   assistant |-> FALSE, undone |-> FALSE]
  <2>1. /\ worker'.turns = Insert(worker.turns, worker.next, t)
        /\ worker'.response = worker.response /\ storedTurns' = storedTurns
    BY <1>6 DEF StartTurn, TypeOK, WorkerOK
  <2>2. ~t.assistant /\ ~t.undone
    OBVIOUS
  <2> HIDE DEF t
  <2>3. Covers(worker.response, Insert(worker.turns, worker.next, t))
    BY <1>1, <1>2, <2>2, CoversNew
  <2>4. \A i \in DOMAIN turns : worker'.turns[i] = worker.turns[i]
    BY <1>3, <2>1 DEF Insert
  <2> QED BY <1>4, <2>1, <2>3, <2>4
<1>7. CASE FinalText \/ ToolUse
  <2>1. /\ worker.phase = "inference"
        /\ worker'.turns = Replied /\ worker'.response = Response
    BY <1>7 DEF FinalText, ToolUse, Finished, TypeOK, WorkerOK
  <2>2. /\ Cur \in DOMAIN worker.turns /\ DOMAIN Replied = DOMAIN worker.turns
        /\ \A i \in DOMAIN worker.turns :
              /\ Replied[i].tok = worker.turns[i].tok
              /\ Replied[i].undone = worker.turns[i].undone
        /\ \A i \in DOMAIN worker.turns : i # Cur => Replied[i] = worker.turns[i]
    BY <2>1, ReplyType
  <2>3. Covers(Response, Replied)
    BY <1>1, <2>2, AnswerCovers DEF Response
  <2>4. \A i \in DOMAIN turns \ unsaved.ids : storedTurns'[i] = storedTurns[i]
    <3>1. CASE ToolUse
      BY <3>1 DEF ToolUse
    <3>2. CASE FinalText
      BY <1>5, <2>1, <3>2 DEF FinalText
    <3> QED BY <1>7, <3>1, <3>2
  <2> QED BY <1>3, <1>4, <2>1, <2>2, <2>3, <2>4
<1>8. CASE InferenceError
  <2>1. /\ worker.phase = "inference" /\ Finalize(worker.turns)
        /\ worker'.turns = worker.turns /\ worker'.response = worker.response
    BY <1>8 DEF InferenceError, Finished, TypeOK, WorkerOK
  <2> QED BY <1>1, <1>4, <1>5, <2>1
<1>9. CASE ToolsDone \/ LoopEnds \/ Panic
  <2>1. /\ storedTurns' = storedTurns
        /\ \/ worker'.turns = worker.turns /\ worker'.response = worker.response
           \/ worker'.turns = worker.turns0 /\ worker'.response = worker.response0
    BY <1>9 DEF ToolsDone, LoopEnds, Panic, Finished, TypeOK, WorkerOK
  <2> QED BY <1>1, <1>4, <2>1
<1> QED BY <1>6, <1>7, <1>8, <1>9 DEF RequestWorker

LEMMA PlainInvariant ==
    ASSUME WriteFails = FALSE PROVE PlainSpec => [](TypeOK /\ HInv /\ PInv)
<1> DEFINE Inv == TypeOK /\ HInv /\ PInv
<1>1. PlainInit => Inv
  <2> SUFFICES ASSUME PlainInit PROVE PInv
    BY InitType, InitHInv DEF PlainInit
  <2>1. /\ up /\ worker.phase = "idle" /\ DOMAIN turns = {} /\ crashes = 0
        /\ last_response_id = None /\ plain = TRUE
    BY NoTurnsType DEF PlainInit, Init, NoWorker
  <2> QED BY <2>1 DEF PInv, AllCovered, HiddenTogether, Covers
<1>2. ASSUME Inv, [PlainNext]_<<vars, plain>> PROVE Inv'
  <2>1. [Next]_vars
    BY <1>2 DEF PlainNext
  <2>2. TypeOK /\ TypeOK' /\ HInv
    <3>1. UNCHANGED vars => TypeOK'
      BY <1>2 DEF TypeOK, vars, memory, database, ghosts, WorkerOK, Cur
    <3> QED BY <1>2, <2>1, <3>1, SessionType, WorkerType DEF Next
  <2>3. HInv'
    BY <2>1, <2>2, NextHInv DEF HInv, HParts
  <2>4. PInv'
    <3>1. CASE UNCHANGED <<vars, plain>>
      BY <1>2, <3>1 DEF vars, memory, database, PInv, AllCovered, HiddenTogether
    <3>2. CASE PlainNext
      <4>1. plain' \in BOOLEAN
        BY <3>2 DEF PlainNext
      <4> SUFFICES ASSUME plain'
                   PROVE  crashes' = 0 /\ AllCovered' /\ HiddenTogether'
        BY <4>1 DEF PInv
      <4>2. Next /\ plain /\ crashes' = 0 /\ ~HandleRedo /\ ~TruncatedToolCall
        BY <3>2 DEF PlainNext
      <4>3. crashes = 0 /\ AllCovered /\ HiddenTogether
        BY <1>2, <4>2 DEF PInv
      <4>4. ~Crash
        BY <4>2, <4>3 DEF Crash
      <4>5. HParts
        BY <1>2, <4>3 DEF HInv, HParts
      <4> QED BY <2>2, <4>2, <4>3, <4>4, <4>5, PlainSession, PlainWorker DEF Next
    <3> QED BY <1>2, <3>1, <3>2
  <2> QED BY <2>2, <2>3, <2>4
<1> QED BY <1>1, <1>2, PTL DEF PlainSpec

\* As long as writes succeed, until a redo, a cut-off tool call or a crash:
\* what a chained request leaves out is in the context of the response it is
\* chained on, across undo, errors, cancels, panics and reloads
\* (chain_input_messages, handle_undo, handle_request_finished).
THEOREM PlainChainHolds ==
    ASSUME WriteFails = FALSE PROVE PlainSpec => []PlainChainHoldsHistory
<1>1. PInv => PlainChainHoldsHistory
  BY DEF PInv, AllCovered, Covers, PlainChainHoldsHistory, ChainHoldsHistory
<1> QED BY <1>1, PlainInvariant, PTL
=============================================================================
