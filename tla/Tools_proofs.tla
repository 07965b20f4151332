---------------------------- MODULE Tools_proofs ----------------------------
(***************************************************************************)
(* Proofs about the calls of a response and the sub-sessions some of them  *)
(* start, the components ToolBatch and Subsessions.                        *)
(*                                                                         *)
(* ToolBatch, for responses of any length, any mix of session-config and   *)
(* other calls, any number of cancels and chunks, and wait loops that may  *)
(* die: when the ids of the response are distinct, the batch implements    *)
(* BatchAnswers.                                                           *)
(*                                                                         *)
(* Subsessions, for chains of any depth: a tool that waits for its child   *)
(* always has someone to answer it, and a session thread never ends before *)
(* its request worker.                                                     *)
(***************************************************************************)
EXTENDS ToolBatch, Subsessions, FiniteSetTheorems, TLAPS

-----------------------------------------------------------------------------
(* ToolBatch *)

\* The ids of a response name its calls.  update_tool_result and the count
\* of deliveries go by id: without this the second of two calls stays empty.
DistinctIds == \A c, d \in Calls : Ids[c] = Ids[d] => c = d

BatchTyped ==
    /\ config \subseteq Calls
    /\ pc \in {"serial", "collect", "drain", "sort", "mirror", "done", "merged"}
    /\ exec \in [Calls -> Results \cup {"none", "running", "asked", "answered", "died"}]
    /\ wait \in [Calls -> {"none", "waiting", "sent", "died"}]
    /\ batch \in Seq(Handles)
    /\ records \in [Calls -> Answers \cup {"empty", "unexecuted"}]
    /\ inbox \in Seq(Calls)

Done(c) == Ids[c] \in executed

\* A record is filled exactly when the id of its call is in executed.
RecordsFollowIds ==
    ~Ended => \A c \in Calls : /\ records[c] \in Answers \cup {"empty"}
                               /\ records[c] = "empty" <=> ~Done(c)

\* Phase 1: only session-config calls are recorded, and nothing else runs.
SerialPhase ==
    /\ \A c \in config : wait[c] \in {"none", "sent"}
    /\ pc = "serial" =>
         /\ batch = <<>> /\ delivered = {}
         /\ \A c \in config : Done(c) <=> wait[c] = "sent"
         /\ \A c \in Concurrent : wait[c] = "none" /\ ~Done(c)

\* Phase 2: what is in the channel was sent by its wait loop, once, and is
\* not recorded yet; what is recorded was delivered.
Queued(b) ==
    /\ \A i \in DOMAIN b : /\ b[i].call \in Concurrent
                           /\ wait[b[i].call] = "sent" /\ ~Done(b[i].call)
    /\ \A i, j \in DOMAIN b : b[i].call = b[j].call => i = j
CollectPhase ==
    Collecting =>
        /\ \A c \in config : Done(c)
        /\ \A c \in Concurrent : /\ Done(c) <=> Ids[c] \in delivered
                                 /\ Done(c) => wait[c] = "sent"
        /\ delivered \subseteq {Ids[c] : c \in Concurrent}
        /\ Queued(batch)

\* After it: every call is recorded, or the request was cancelled.
AfterBatch ==
    /\ pc \in {"sort", "mirror"} /\ ~cancelled => \A c \in Calls : Done(c)
    /\ EveryCallAnswered

BatchIInv == /\ BatchTyped /\ RecordsFollowIds /\ SerialPhase /\ CollectPhase
             /\ AfterBatch

-----------------------------------------------------------------------------
(* The operators of the model *)

LEMMA CallsFinite == N \in Nat /\ IsFiniteSet(Calls) /\ Calls \subseteq Nat
BY BatchAssumption, FS_Interval DEF N, Calls

LEMMA RecordOfItself ==
    ASSUME DistinctIds, NEW c \in Calls
    PROVE  RecordOf(c) = c
<1>1. {d \in Calls : Ids[d] = Ids[c]} = {c}
  BY DEF DistinctIds
<1>2. c \in Nat
  BY CallsFinite
<1> QED
  BY <1>1, <1>2 DEF RecordOf, Min

LEMMA MaxOne ==
    ASSUME NEW n \in Nat
    PROVE  Max({n}) = n
BY DEF Max

\* Handles of different calls that RecordAll writes.
Covers(h, c) == \E i \in DOMAIN h : h[i].call = c
OneEach(h) == \A i, j \in DOMAIN h : h[i].call = h[j].call => i = j

\* What record_tool_completion does to the records and the ids: the calls
\* of the handles get their answers, the others keep theirs.
LEMMA RecordAllWrites ==
    ASSUME DistinctIds, NEW h \in Seq(Handles), OneEach(h), RecordAll(h),
           records \in [Calls -> Answers \cup {"empty", "unexecuted"}]
    PROVE  /\ records' \in [Calls -> Answers \cup {"empty", "unexecuted"}]
           /\ \A c \in Calls : Covers(h, c) => records'[c] \in Answers
           /\ \A c \in Calls : ~Covers(h, c) => records'[c] = records[c]
           /\ \A c \in Calls : Done(c)' <=> Done(c) \/ Covers(h, c)
<1> DEFINE of(c) == {i \in DOMAIN h : RecordOf(h[i].call) = c}
<1>1. \A i \in DOMAIN h : h[i].call \in Calls /\ h[i].out \in Answers /\ i \in Nat
  <2>1. DOMAIN h = 1..Len(h) /\ Len(h) \in Nat /\ \A i \in 1..Len(h) : h[i] \in Handles
    OBVIOUS
  <2> QED
    BY <2>1 DEF Handles
<1>2. \A i \in DOMAIN h : RecordOf(h[i].call) = h[i].call
  BY <1>1, RecordOfItself
<1>3. records' = [c \in Calls |-> IF of(c) = {} THEN records[c]
                                             ELSE h[Max(of(c))].out]
  BY DEF RecordAll
<1>4. ASSUME NEW c \in Calls
      PROVE  /\ Covers(h, c) => records'[c] \in Answers
             /\ ~Covers(h, c) => records'[c] = records[c]
  <2>1. CASE ~Covers(h, c)
    <3>1. of(c) = {}
      BY <2>1, <1>2 DEF Covers
    <3> QED
      BY <3>1, <2>1, <1>3
  <2>2. CASE Covers(h, c)
    <3>1. PICK i \in DOMAIN h : h[i].call = c
      BY <2>2 DEF Covers
    <3>2. of(c) = {i}
      BY <3>1, <1>2 DEF OneEach
    <3>3. Max(of(c)) = i
      BY <3>2, <1>1, MaxOne
    <3>4. records'[c] = h[i].out
      <4>1. of(c) # {}
        BY <3>2
      <4>2. records'[c] = IF of(c) = {} THEN records[c] ELSE h[Max(of(c))].out
        BY <1>3
      <4> HIDE DEF of
      <4> QED
        BY <4>1, <4>2, <3>3
    <3> QED
      BY <3>4, <2>2, <1>1
  <2> QED
    BY <2>1, <2>2
<1>5. \A c \in Calls : Done(c)' <=> Done(c) \/ Covers(h, c)
  <2>1. executed' = executed \cup {Ids[h[i].call] : i \in DOMAIN h}
    BY DEF RecordAll
  <2> QED
    BY <2>1, <1>1 DEF Done, Covers, DistinctIds
<1>6. records' \in [Calls -> Answers \cup {"empty", "unexecuted"}]
  <2>1. \A c \in Calls : records'[c] \in Answers \cup {"empty", "unexecuted"}
    BY <1>4
  <2> HIDE DEF of
  <2> QED
    BY <1>3, <2>1
<1> QED
  BY <1>4, <1>5, <1>6

\* Deliveries are counted: as many as there are calls means all of them.
LEMMA AllDelivered ==
    ASSUME DistinctIds, config \subseteq Calls,
           delivered \subseteq {Ids[c] : c \in Concurrent}, ~Undelivered
    PROVE  \A c \in Concurrent : Ids[c] \in delivered
<1> DEFINE S == Concurrent
           T == {Ids[c] : c \in S}
           f == [c \in S |-> Ids[c]]
<1>1. IsFiniteSet(S) /\ S \subseteq Calls
  BY CallsFinite, FS_Subset DEF Concurrent
<1>2. f \in Bijection(S, T)
  <2>1. f \in [S -> T]
    OBVIOUS
  <2>2. \A t \in T : \E c \in S : f[c] = t
    OBVIOUS
  <2>3. \A a, b \in S : f[a] = f[b] => a = b
    BY <1>1 DEF DistinctIds
  <2> HIDE DEF f, S, T
  <2> QED
    BY <2>1, <2>2, <2>3 DEF Bijection, Injection, Surjection, IsInjective
<1>3. IsFiniteSet(T) /\ Cardinality(T) = Cardinality(S)
  <2> HIDE DEF f, S, T
  <2>1. ExistsBijection(S, T)
    BY <1>2 DEF ExistsBijection
  <2> QED
    BY <2>1, <1>1, FS_Bijection
<1>4. /\ Cardinality(S) \in Nat /\ Cardinality(delivered) \in Nat
      /\ Cardinality(delivered) <= Cardinality(T)
      /\ Cardinality(T) = Cardinality(delivered) => T = delivered
  BY <1>1, <1>3, FS_Subset, FS_CardinalityType
<1>5. T = delivered
  BY <1>3, <1>4 DEF Undelivered
<1> QED
  BY <1>5

\* A walk through the missing calls in call order meets each of them once.
LEMMA OrderCoversAll ==
    ASSUME NEW C \in SUBSET Calls, NEW order \in InCallOrder(C)
    PROVE  /\ order \in [1..Cardinality(C) -> C]
           /\ Cardinality(C) \in Nat
           /\ \A c \in C : \E i \in DOMAIN order : order[i] = c
           /\ \A i, j \in DOMAIN order : order[i] = order[j] => i = j
<1> DEFINE k == Cardinality(C)
<1>1. IsFiniteSet(C) /\ k \in Nat
  BY CallsFinite, FS_Subset, FS_CardinalityType
<1>2. order \in [1..k -> C] /\ \A i, j \in 1..k : i < j => order[i] < order[j]
  BY DEF InCallOrder
<1>3. \A i, j \in 1..k : order[i] = order[j] => i = j
  <2> SUFFICES ASSUME NEW i \in 1..k, NEW j \in 1..k, i < j
               PROVE  order[i] # order[j]
    BY <1>1
  <2>1. order[i] < order[j] /\ order[i] \in C /\ order[j] \in C
    BY <1>2
  <2>2. order[i] \in Nat /\ order[j] \in Nat
    BY <2>1, CallsFinite
  <2> QED
    BY <2>1, <2>2
<1>4. Cardinality(1..k) = k
  BY <1>1, FS_Interval
<1> HIDE DEF k
<1>5. order \in Injection(1..k, C)
  BY <1>2, <1>3 DEF Injection, IsInjective
<1>6. order \in Surjection(1..k, C)
  BY <1>5, <1>4, <1>1, FS_Injection DEF k
<1>7. \A c \in C : \E i \in 1..k : order[i] = c
  BY <1>6 DEF Surjection
<1> QED
  BY <1>1, <1>2, <1>3, <1>7 DEF k

-----------------------------------------------------------------------------
(* How the steps look in BatchAnswers *)

Verdict == IF ~Ended THEN "no" ELSE IF cancelled THEN "cancelled" ELSE "completed"
Promised == [Abstract!Next]_<<records, Verdict>>

\* A step that writes no record and does not end the batch is a stutter.
LEMMA Stutters ==
    ASSUME UNCHANGED records, Verdict' = Verdict
    PROVE  Promised
BY DEF Promised

\* Recording results of calls whose records are empty, before the end.
LEMMA RecordsAnswer ==
    ASSUME DistinctIds, BatchTyped, NEW h \in Seq(Handles), OneEach(h), RecordAll(h),
           \A c \in Calls : Covers(h, c) => records[c] = "empty",
           ~Ended, ~Ended'
    PROVE  Promised
<1> DEFINE D == {c \in Calls : Covers(h, c)}
           f == [c \in D |-> records'[c]]
<1>1. Verdict = "no" /\ Verdict' = "no"
  BY DEF Verdict
<1>2. /\ records' \in [Calls -> Answers \cup {"empty", "unexecuted"}]
      /\ \A c \in Calls : Covers(h, c) => records'[c] \in Answers
      /\ \A c \in Calls : ~Covers(h, c) => records'[c] = records[c]
  BY RecordAllWrites DEF BatchTyped
<1>3. records \in [Calls -> Answers \cup {"empty", "unexecuted"}]
  BY DEF BatchTyped
<1>4. CASE D = {}
  <2>1. records' = records
    BY <1>2, <1>3, <1>4
  <2> QED
    BY <2>1, <1>1, Stutters
<1>5. CASE D # {}
  <2>1. f \in [D -> Answers] /\ D \in SUBSET Calls
    BY <1>2
  <2>2. records' = [c \in Calls |-> IF c \in D THEN f[c] ELSE records[c]]
    BY <1>2
  <2>3. \A c \in D : records[c] = "empty"
    OBVIOUS
  <2>4. Abstract!AnswerSome
    <3> HIDE DEF D, f
    <3> QED
      BY <2>1, <2>2, <2>3, <1>1, <1>5 DEF Abstract!AnswerSome, Verdict
  <2> QED
    BY <2>4 DEF Promised, Abstract!Next
<1> QED
  BY <1>4, <1>5

-----------------------------------------------------------------------------
(* The steps *)

\* Tools, forwarders, the main loop and the client change nothing of it.
LEMMA QuietStep ==
    ASSUME BatchIInv, BatchTyped',
           UNCHANGED <<config, pc, wait, batch, records, executed, delivered>>,
           pc = "serial" \/ UNCHANGED cancelled
    PROVE  BatchIInv' /\ Promised
<1> USE DEF BatchIInv
<1>1. Ended' = Ended /\ Concurrent' = Concurrent /\ Collecting' = Collecting
  BY DEF Ended, Concurrent, Collecting
<1>2. RecordsFollowIds'
  BY DEF RecordsFollowIds, Ended, Done
<1>3. SerialPhase'
  BY DEF SerialPhase, Concurrent, Done
<1>4. CollectPhase'
  BY DEF CollectPhase, Collecting, Queued, Concurrent, Done
<1>5. AfterBatch'
  BY DEF AfterBatch, EveryCallAnswered, Ended, Done
<1>6. Verdict' = Verdict
  BY DEF Verdict, Ended
<1> QED
  BY <1>2, <1>3, <1>4, <1>5, <1>6, Stutters

LEMMA ToolStep ==
    ASSUME BatchIInv, NEW c \in Calls, Tool(c) \/ Forward(c)
    PROVE  BatchIInv' /\ Promised
<1>1. UNCHANGED <<config, pc, wait, batch, records, executed, delivered, cancelled>>
  BY DEF Tool, ToolStreams, ToolEnds, SetWorkingDir, Forward, workerVars, threadVars
<1>2. BatchTyped'
  <2>1. CASE ToolStreams(c) \/ Forward(c)
    BY <2>1, <1>1 DEF ToolStreams, Forward, BatchIInv, BatchTyped, threadVars
  <2>2. CASE ToolEnds(c)
    <3>1. \E s \in Results \cup {"died"} : exec' = [exec EXCEPT ![c] = s]
      BY <2>2 DEF ToolEnds, ChangeExec, Results
    <3> QED
      BY <3>1, <2>2, <1>1 DEF ToolEnds, BatchIInv, BatchTyped
  <2>3. CASE SetWorkingDir(c)
    BY <2>3, <1>1 DEF SetWorkingDir, ChangeExec, BatchIInv, BatchTyped
  <2> QED
    BY <2>1, <2>2, <2>3 DEF Tool
<1> QED
  BY <1>1, <1>2, QuietStep

LEMMA MainLoopStep ==
    ASSUME BatchIInv, HandleSetWorkingDir \/ Cancel
    PROVE  BatchIInv' /\ Promised
<1>1. UNCHANGED <<config, pc, wait, batch, records, executed, delivered, cancelled>>
  BY DEF HandleSetWorkingDir, Cancel, workerVars, threadVars
<1>2. BatchTyped'
  <2>1. CASE Cancel
    BY <2>1, <1>1 DEF Cancel, BatchIInv, BatchTyped, threadVars
  <2>2. CASE HandleSetWorkingDir
    BY <2>2, <1>1 DEF HandleSetWorkingDir, ChangeExec, BatchIInv, BatchTyped
  <2> QED
    BY <2>1, <2>2
<1> QED
  BY <1>1, <1>2, QuietStep

LEMMA SerialStartStep ==
    ASSUME BatchIInv, SerialStart
    PROVE  BatchIInv' /\ Promised
<1>1. UNCHANGED <<config, pc, wait, batch, records, executed, delivered, inbox>>
      /\ pc = "serial"
  BY DEF SerialStart
<1>2. exec' \in [Calls -> Results \cup {"none", "running", "asked", "answered", "died"}]
  BY DEF SerialStart, Spawned, BatchIInv, BatchTyped
<1>3. BatchTyped'
  BY <1>1, <1>2 DEF BatchIInv, BatchTyped
<1> QED
  BY <1>1, <1>3, QuietStep

\* What a wait loop or execute_tool_with_timeout reports is an answer.
LEMMA ResultsAreAnswers ==
    ASSUME BatchTyped, NEW c \in Calls
    PROVE  /\ Finished(c) => ToolResult(c) \in Answers
           /\ DrainQueuedOrSynthesize(c, "timeout") \in Answers
           /\ DrainQueuedOrSynthesize(c, "cancelled") \in Answers
BY DEF Finished, ToolResult, DrainQueuedOrSynthesize, Answers, Results

LEMMA DeliverStep ==
    ASSUME BatchIInv, NEW c \in Calls, NEW out \in Answers, Deliver(c, out)
    PROVE  BatchIInv' /\ Promised
<1> USE DEF BatchIInv
<1>1. /\ UNCHANGED <<config, pc, exec, records, executed, delivered, cancelled, inbox>>
      /\ wait[c] = "waiting" /\ wait' = [wait EXCEPT ![c] = "sent"]
      /\ batch' = Append(batch, Handle(c, out))
  BY DEF Deliver, workerVars
<1>2. c \in Concurrent /\ pc # "serial"
  BY <1>1 DEF SerialPhase, Concurrent, BatchTyped
<1>3. BatchTyped'
  BY <1>1 DEF BatchTyped, Handle, Handles
<1>4. RecordsFollowIds'
  BY <1>1 DEF RecordsFollowIds, Ended, Done
<1>5. SerialPhase'
  BY <1>1, <1>2 DEF SerialPhase, Concurrent, Done, BatchTyped
<1>6. CollectPhase'
  <2> SUFFICES ASSUME Collecting
               PROVE  CollectPhase'
    BY <1>1 DEF CollectPhase, Collecting
  <2>1. Concurrent' = Concurrent /\ Concurrent \subseteq Calls
        /\ \A d \in Calls : Done(d)' <=> Done(d)
    BY <1>1 DEF Concurrent, Done
  <2>2. ~Done(c)
    BY <1>1, <1>2 DEF CollectPhase
  <2>3. Queued(batch)
    BY DEF CollectPhase
  <2>4. /\ DOMAIN batch = 1..Len(batch) /\ DOMAIN batch' = 1..(Len(batch) + 1)
        /\ Len(batch) \in Nat
        /\ \A i \in 1..Len(batch) : batch'[i] = batch[i]
        /\ batch'[Len(batch) + 1] = Handle(c, out)
    BY <1>1 DEF BatchTyped
  <2>5. \A i \in DOMAIN batch : batch[i].call # c
    BY <2>3, <1>1 DEF Queued
  <2>6. Handle(c, out).call = c
    BY DEF Handle
  <2>7. \A d \in Calls : wait[d] = "sent" => wait'[d] = "sent"
    BY <1>1 DEF BatchTyped
  <2>8. wait'[c] = "sent"
    BY <1>1 DEF BatchTyped
  <2>9. Queued(batch)'
    <3>1. ASSUME NEW i \in DOMAIN batch'
          PROVE  /\ batch'[i].call \in Concurrent
                 /\ wait'[batch'[i].call] = "sent" /\ ~Done(batch'[i].call)
      <4>1. CASE i = Len(batch) + 1
        BY <4>1, <2>2, <2>4, <2>6, <2>8, <1>2
      <4>2. CASE i \in DOMAIN batch
        BY <4>2, <2>1, <2>3, <2>4, <2>7 DEF Queued
      <4> QED
        BY <4>1, <4>2, <2>4
    <3>2. ASSUME NEW i \in DOMAIN batch', NEW j \in DOMAIN batch',
                 batch'[i].call = batch'[j].call
          PROVE  i = j
      BY <3>2, <2>3, <2>4, <2>5, <2>6 DEF Queued
    <3> QED
      BY <3>1, <3>2, <2>1, <1>1 DEF Queued, Done, Concurrent
  <2> QED
    BY <1>1, <2>1, <2>7, <2>9 DEF CollectPhase, Collecting, BatchTyped, Done, Concurrent
<1>7. AfterBatch'
  BY <1>1 DEF AfterBatch, EveryCallAnswered, Ended, Done
<1>8. Verdict' = Verdict
  BY <1>1 DEF Verdict, Ended
<1> QED
  BY <1>1, <1>3, <1>4, <1>5, <1>6, <1>7, <1>8, Stutters

LEMMA WaitDiesStep ==
    ASSUME BatchIInv, NEW c \in Calls, WaitDies(c)
    PROVE  BatchIInv' /\ Promised
<1> USE DEF BatchIInv
<1>1. /\ UNCHANGED <<config, pc, exec, batch, records, executed, delivered, cancelled, inbox>>
      /\ wait[c] = "waiting" /\ wait' = [wait EXCEPT ![c] = "died"]
  BY DEF WaitDies, workerVars
<1>2. c \in Concurrent /\ pc # "serial"
  BY <1>1 DEF SerialPhase, Concurrent, BatchTyped
<1>3. BatchTyped'
  BY <1>1 DEF BatchTyped
<1>4. RecordsFollowIds'
  BY <1>1 DEF RecordsFollowIds, Ended, Done
<1>5. SerialPhase'
  BY <1>1, <1>2 DEF SerialPhase, Concurrent, Done, BatchTyped
<1>6. CollectPhase'
  <2>1. \A d \in Calls : wait[d] = "sent" => wait'[d] = "sent"
    BY <1>1 DEF BatchTyped
  <2>2. Concurrent \subseteq Calls
    BY DEF Concurrent
  <2>3. Collecting => Queued(batch)'
    BY <1>1, <2>1, <2>2 DEF CollectPhase, Queued, Done, Concurrent
  <2> QED
    BY <1>1, <2>1, <2>2, <2>3 DEF CollectPhase, Collecting, Done, Concurrent
<1>7. AfterBatch'
  BY <1>1 DEF AfterBatch, EveryCallAnswered, Ended, Done
<1>8. Verdict' = Verdict
  BY <1>1 DEF Verdict, Ended
<1> QED
  BY <1>1, <1>3, <1>4, <1>5, <1>6, <1>7, <1>8, Stutters

LEMMA WaitLoopStep ==
    ASSUME BatchIInv, NEW c \in Calls, WaitLoop(c)
    PROVE  BatchIInv' /\ Promised
<1>1. CASE WaitDies(c)
  BY <1>1, WaitDiesStep
<1>2. CASE WaitResult(c) \/ WaitDeadline(c) \/ WaitKill(c)
  <2>1. PICK out \in Answers : Deliver(c, out)
    BY <1>2, ResultsAreAnswers DEF WaitResult, WaitDeadline, WaitKill, BatchIInv, Answers
  <2> QED
    BY <2>1, DeliverStep
<1> QED
  BY <1>1, <1>2 DEF WaitLoop

\* One handle.
LEMMA OneHandle ==
    ASSUME NEW x \in Handles
    PROVE  /\ <<x>> \in Seq(Handles) /\ OneEach(<<x>>)
           /\ \A c \in Calls : Covers(<<x>>, c) <=> c = x.call
BY DEF OneEach, Covers

LEMMA SerialEndStep ==
    ASSUME DistinctIds, BatchIInv, SerialEnd
    PROVE  BatchIInv' /\ Promised
<1> USE DEF BatchIInv
<1>1. PICK c \in RunningSerial, out \in Answers, stopped \in BOOLEAN :
        SerialRecord(c, out, stopped)
  <2>1. RunningSerial \subseteq Calls
    BY DEF RunningSerial, BatchTyped
  <2>2. CASE SerialResult
    BY <2>1, <2>2, ResultsAreAnswers DEF SerialResult
  <2>3. CASE SerialCancel
    BY <2>1, <2>3, ResultsAreAnswers DEF SerialCancel
  <2>4. CASE SerialDeadline
    BY <2>1, <2>4, ResultsAreAnswers DEF SerialDeadline
  <2> QED
    BY <2>2, <2>3, <2>4 DEF SerialEnd
<1>2. pc = "serial" /\ c \in config /\ c \in Calls /\ wait[c] = "none" /\ ~Done(c)
  BY <1>1 DEF SerialEnd, RunningSerial, SerialPhase, BatchTyped
<1>3. /\ UNCHANGED <<config, pc, exec, batch, delivered, inbox>>
      /\ wait' = [wait EXCEPT ![c] = "sent"]
      /\ RecordAll(<<Handle(c, out)>>)
  BY <1>1 DEF SerialRecord
<1>4. PICK h : h = <<Handle(c, out)>>
  OBVIOUS
<1>5. Handle(c, out) \in Handles /\ Handle(c, out).call = c
  BY <1>2 DEF Handle, Handles
<1>6. h \in Seq(Handles) /\ OneEach(h) /\ \A d \in Calls : Covers(h, d) <=> d = c
  BY <1>4, <1>5, OneHandle
<1>7. /\ records' \in [Calls -> Answers \cup {"empty", "unexecuted"}]
      /\ records'[c] \in Answers
      /\ \A d \in Calls : d # c => records'[d] = records[d]
      /\ \A d \in Calls : Done(d)' <=> Done(d) \/ d = c
  BY <1>2, <1>3, <1>4, <1>6, RecordAllWrites DEF BatchTyped
<1>8. ~Ended /\ ~Ended' /\ Concurrent' = Concurrent
  BY <1>2, <1>3 DEF Ended, Concurrent
<1>9. Promised
  <2>1. \A d \in Calls : Covers(h, d) => records[d] = "empty"
    BY <1>2, <1>6, <1>8 DEF RecordsFollowIds
  <2> QED
    BY <1>3, <1>4, <1>6, <1>8, <2>1, RecordsAnswer
<1>10. BatchTyped'
  BY <1>3, <1>7 DEF BatchTyped
<1>11. RecordsFollowIds'
  <2>1. "empty" \notin Answers
    BY DEF Answers, Results
  <2> QED
    BY <1>7, <1>8, <2>1 DEF RecordsFollowIds
<1>12. SerialPhase'
  <2>1. wait'[c] = "sent" /\ \A d \in Calls : d # c => wait'[d] = wait[d]
    BY <1>2, <1>3 DEF BatchTyped
  <2> QED
    BY <1>2, <1>3, <1>7, <1>8, <2>1 DEF SerialPhase, BatchTyped, Concurrent
<1>13. CollectPhase' /\ AfterBatch'
  BY <1>2, <1>3, <1>8 DEF CollectPhase, Collecting, AfterBatch, EveryCallAnswered
<1> QED
  BY <1>9, <1>10, <1>11, <1>12, <1>13

LEMMA DispatchStep ==
    ASSUME BatchIInv, Dispatch
    PROVE  BatchIInv' /\ Promised
<1> USE DEF BatchIInv
<1>1. /\ UNCHANGED <<config, cancelled, records, delivered, executed, batch, inbox>>
      /\ pc = "serial" /\ RunningSerial = {} /\ (NextSerial = {} \/ cancelled)
  BY DEF Dispatch
<1>2. \/ pc' = "mirror" /\ UNCHANGED <<wait, exec>> /\ (cancelled \/ Concurrent = {})
      \/ /\ pc' = "collect" /\ ~cancelled
         /\ exec' = [c \in Calls |-> IF c \in Concurrent THEN "running" ELSE exec[c]]
         /\ wait' = [c \in Calls |-> IF c \in Concurrent THEN "waiting" ELSE wait[c]]
  BY DEF Dispatch, Spawned
<1>3. ~Ended /\ ~Ended' /\ Concurrent' = Concurrent /\ Concurrent \subseteq Calls
      /\ \A c \in Calls : Done(c)' <=> Done(c)
  BY <1>1, <1>2 DEF Ended, Concurrent, Done
<1>4. ~cancelled => \A c \in config : Done(c)
  BY <1>1 DEF NextSerial, RunningSerial, SerialPhase
<1>5. BatchTyped'
  <2>1. \/ UNCHANGED <<wait, exec>>
        \/ /\ exec' \in [Calls -> Results \cup {"none", "running", "asked", "answered", "died"}]
           /\ wait' \in [Calls -> {"none", "waiting", "sent", "died"}]
    BY <1>2 DEF BatchTyped
  <2> QED
    BY <1>1, <1>2, <2>1 DEF BatchTyped
<1>6. RecordsFollowIds'
  BY <1>1, <1>3 DEF RecordsFollowIds
<1>7. SerialPhase'
  <2>1. \A c \in config : wait'[c] = wait[c]
    BY <1>2 DEF Concurrent, BatchTyped
  <2> QED
    BY <1>1, <1>2, <2>1 DEF SerialPhase
<1>8. CollectPhase'
  <2>1. CASE pc' = "mirror"
    BY <2>1 DEF CollectPhase, Collecting
  <2>2. CASE pc' = "collect"
    <3>1. \A c \in config : Done(c)'
      BY <1>2, <1>3, <1>4, <2>2 DEF BatchTyped
    <3>2. delivered' = {} /\ batch' = <<>> /\ \A c \in Concurrent : ~Done(c)'
      BY <1>1, <1>3 DEF SerialPhase
    <3>3. Queued(batch)'
      BY <3>2 DEF Queued
    <3> QED
      BY <1>1, <1>3, <3>1, <3>2, <3>3 DEF CollectPhase
  <2> QED
    BY <2>1, <2>2, <1>2
<1>9. AfterBatch'
  <2>1. pc' = "mirror" /\ ~cancelled' => \A c \in Calls : Done(c)'
    BY <1>1, <1>2, <1>3, <1>4 DEF Concurrent
  <2> QED
    BY <1>2, <1>3, <2>1 DEF AfterBatch, EveryCallAnswered
<1>10. Verdict' = Verdict
  BY <1>3 DEF Verdict
<1> QED
  BY <1>1, <1>5, <1>6, <1>7, <1>8, <1>9, <1>10, Stutters

\* The three ways the collecting loop records: h is taken from the channel
\* or made up for the missing calls.
LEMMA CollectRecords ==
    ASSUME DistinctIds, BatchIInv, NEW h \in Seq(Handles), OneEach(h), RecordAll(h),
           Collecting, pc' \in {"collect", "drain", "sort"},
           \A c \in Calls : Covers(h, c) => c \in Concurrent /\ ~Done(c),
           UNCHANGED <<config, exec, wait, inbox>>, batch' \in Seq(Handles)
    PROVE  /\ Promised
           /\ BatchTyped' /\ RecordsFollowIds' /\ SerialPhase' /\ EveryCallAnswered'
           /\ \A c \in Calls : Done(c)' <=> Done(c) \/ Covers(h, c)
           /\ Concurrent' = Concurrent
<1> USE DEF BatchIInv
<1>1. /\ records' \in [Calls -> Answers \cup {"empty", "unexecuted"}]
      /\ \A c \in Calls : Covers(h, c) => records'[c] \in Answers
      /\ \A c \in Calls : ~Covers(h, c) => records'[c] = records[c]
      /\ \A c \in Calls : Done(c)' <=> Done(c) \/ Covers(h, c)
  BY RecordAllWrites DEF BatchTyped
<1>2. ~Ended /\ ~Ended' /\ Concurrent' = Concurrent /\ pc' # "serial" /\ pc # "serial"
  BY DEF Ended, Concurrent, Collecting
<1>3. Promised
  <2>1. \A d \in Calls : Covers(h, d) => records[d] = "empty"
    BY <1>2 DEF RecordsFollowIds
  <2> QED
    BY <1>2, <2>1, RecordsAnswer
<1>4. BatchTyped'
  BY <1>1 DEF BatchTyped
<1>5. RecordsFollowIds'
  <2>1. "empty" \notin Answers
    BY DEF Answers, Results
  <2> QED
    BY <1>1, <1>2, <2>1 DEF RecordsFollowIds
<1>6. SerialPhase'
  BY <1>2 DEF SerialPhase
<1> QED
  BY <1>1, <1>2, <1>3, <1>4, <1>5, <1>6 DEF EveryCallAnswered

LEMMA CollectNextStep ==
    ASSUME DistinctIds, BatchIInv, CollectNext
    PROVE  BatchIInv' /\ Promised
<1> USE DEF BatchIInv
<1>1. /\ UNCHANGED <<config, pc, cancelled, exec, wait, inbox>>
      /\ Collecting /\ batch # <<>>
      /\ delivered' = delivered \cup {Ids[Head(batch).call]}
      /\ RecordAll(<<Head(batch)>>)
      /\ batch' = Tail(batch)
  BY DEF CollectNext
<1>2. /\ Len(batch) \in Nat \ {0} /\ DOMAIN batch = 1..Len(batch)
      /\ Head(batch) = batch[1] /\ batch[1] \in Handles
      /\ batch' \in Seq(Handles) /\ DOMAIN batch' = 1..(Len(batch) - 1)
      /\ \A i \in 1..(Len(batch) - 1) : batch'[i] = batch[i + 1]
  BY <1>1 DEF BatchTyped
<1>3. Queued(batch)
  BY <1>1 DEF CollectPhase
<1>4. PICK c : c = batch[1].call
  OBVIOUS
<1>5. PICK h : h = <<batch[1]>>
  OBVIOUS
<1>6. c \in Concurrent /\ ~Done(c) /\ wait[c] = "sent" /\ c \in Calls
  BY <1>2, <1>3, <1>4 DEF Queued, Concurrent
<1>7. h \in Seq(Handles) /\ OneEach(h) /\ \A d \in Calls : Covers(h, d) <=> d = c
  BY <1>2, <1>4, <1>5, OneHandle
<1>8. /\ Promised
      /\ BatchTyped' /\ RecordsFollowIds' /\ SerialPhase' /\ EveryCallAnswered'
      /\ \A d \in Calls : Done(d)' <=> Done(d) \/ d = c
      /\ Concurrent' = Concurrent
  <2>1. /\ RecordAll(h) /\ pc' \in {"collect", "drain", "sort"}
        /\ \A d \in Calls : Covers(h, d) => d \in Concurrent /\ ~Done(d)
    BY <1>1, <1>2, <1>5, <1>6, <1>7 DEF Collecting
  <2> QED
    BY <1>1, <1>2, <1>7, <2>1, CollectRecords
<1>9. CollectPhase'
  <2>1. Concurrent \subseteq Calls /\ config \subseteq Calls
    BY DEF Concurrent, BatchTyped
  <2>2. delivered' = delivered \cup {Ids[c]}
    BY <1>1, <1>2, <1>4
  <2>3. \A d \in config : Done(d)'
    BY <1>1, <1>8, <2>1 DEF CollectPhase
  <2>4. \A d \in Concurrent : /\ Done(d)' <=> Ids[d] \in delivered'
                              /\ Done(d)' => wait'[d] = "sent"
    BY <1>1, <1>6, <1>8, <2>1, <2>2 DEF CollectPhase, DistinctIds
  <2>5. delivered' \subseteq {Ids[d] : d \in Concurrent}
    BY <1>1, <1>6, <2>2 DEF CollectPhase
  <2>6. Queued(batch)'
    <3>1. ASSUME NEW i \in DOMAIN batch'
          PROVE  /\ i + 1 \in DOMAIN batch /\ batch'[i] = batch[i + 1]
                 /\ batch'[i].call \in Concurrent
                 /\ wait'[batch'[i].call] = "sent" /\ batch'[i].call # c
                 /\ ~Done(batch[i + 1].call)
      BY <1>1, <1>2, <1>3, <1>4 DEF Queued
    <3>2. \A i \in DOMAIN batch' : Ids[batch'[i].call] \notin executed'
      <4> TAKE i \in DOMAIN batch'
      <4>1. PICK d : d = batch[i + 1].call
        OBVIOUS
      <4>2. d \in Calls /\ d # c /\ ~Done(d) /\ batch'[i].call = d
        BY <3>1, <4>1, <2>1
      <4>3. ~Done(d)'
        BY <4>2, <1>8
      <4> QED
        BY <4>2, <4>3 DEF Done
    <3>3. \A i, j \in DOMAIN batch' : batch'[i].call = batch'[j].call => i = j
      BY <3>1, <1>2, <1>3 DEF Queued
    <3> QED
      BY <3>1, <3>2, <3>3, <1>8 DEF Queued, Done
  <2> QED
    BY <2>3, <2>4, <2>5, <2>6, <1>1, <1>8 DEF CollectPhase
<1>10. AfterBatch'
  BY <1>1, <1>8 DEF AfterBatch, Collecting
<1> QED
  BY <1>8, <1>9, <1>10

LEMMA CollectCancelStep ==
    ASSUME DistinctIds, BatchIInv, CollectCancel
    PROVE  BatchIInv' /\ Promised
<1> USE DEF BatchIInv
<1>1. /\ UNCHANGED <<config, exec, wait, inbox>>
      /\ Collecting /\ pc' = "drain"
      /\ delivered' = delivered \cup {Ids[batch[i].call] : i \in DOMAIN batch}
      /\ RecordAll(batch)
      /\ batch' = <<>>
  BY DEF CollectCancel, Collecting
<1>2. Queued(batch) /\ batch \in Seq(Handles)
  BY <1>1 DEF CollectPhase, BatchTyped
<1>3. PICK h : h = batch
  OBVIOUS
<1>4. /\ Concurrent \subseteq Calls /\ config \subseteq Calls
      /\ \A i \in DOMAIN h : h[i].call \in Concurrent
      /\ \A c \in Calls : Covers(h, c) => c \in Concurrent /\ ~Done(c) /\ wait[c] = "sent"
  BY <1>2, <1>3 DEF Queued, Concurrent, Covers, BatchTyped
<1>5. /\ Promised
      /\ BatchTyped' /\ RecordsFollowIds' /\ SerialPhase' /\ EveryCallAnswered'
      /\ \A d \in Calls : Done(d)' <=> Done(d) \/ Covers(h, d)
      /\ Concurrent' = Concurrent
  <2>1. /\ RecordAll(h) /\ pc' \in {"collect", "drain", "sort"}
        /\ h \in Seq(Handles) /\ batch' \in Seq(Handles) /\ OneEach(h)
    BY <1>1, <1>2, <1>3 DEF Queued, OneEach
  <2> QED
    BY <1>1, <1>4, <2>1, CollectRecords
<1>6. CollectPhase'
  <2>1. \A d \in config : Done(d)'
    BY <1>1, <1>4, <1>5 DEF CollectPhase
  <2>2. \A d \in Calls : Ids[d] \in delivered' <=> Ids[d] \in delivered \/ Covers(h, d)
    BY <1>1, <1>3, <1>4 DEF Covers, DistinctIds
  <2>3. \A d \in Concurrent : /\ Done(d)' <=> Ids[d] \in delivered'
                              /\ Done(d)' => wait'[d] = "sent"
    BY <1>1, <1>4, <1>5, <2>2 DEF CollectPhase
  <2>4. delivered' \subseteq {Ids[d] : d \in Concurrent}
    BY <1>1, <1>3, <1>4 DEF CollectPhase
  <2>5. Queued(batch)'
    BY <1>1 DEF Queued
  <2> QED
    BY <2>1, <2>3, <2>4, <2>5, <1>1, <1>5 DEF CollectPhase
<1>7. AfterBatch'
  BY <1>1, <1>5 DEF AfterBatch
<1> QED
  BY <1>5, <1>6, <1>7

LEMMA CollectSynthesizeStep ==
    ASSUME DistinctIds, BatchIInv, CollectSynthesize
    PROVE  BatchIInv' /\ Promised
<1> USE DEF BatchIInv
<1>1. /\ UNCHANGED <<config, exec, wait, inbox, batch>>
      /\ Collecting /\ pc' = "sort" /\ batch = <<>>
  BY DEF CollectSynthesize, threadVars
<1>2. PICK order \in InCallOrder(Missing) :
        RecordAll([i \in DOMAIN order |-> Handle(order[i], "panic")])
  BY DEF CollectSynthesize
<1>3. PICK h : h = [i \in DOMAIN order |-> Handle(order[i], "panic")]
  OBVIOUS
<1>4. PICK M : M = Missing
  OBVIOUS
<1>5. /\ Concurrent \subseteq Calls /\ M \subseteq Concurrent /\ M \subseteq Calls
      /\ \A c \in Concurrent : c \in M <=> ~Done(c)
  BY <1>1, <1>4 DEF Missing, Concurrent, CollectPhase
<1>6. /\ order \in [1..Cardinality(M) -> M]
      /\ Cardinality(M) \in Nat
      /\ \A c \in M : \E i \in DOMAIN order : order[i] = c
      /\ \A i, j \in DOMAIN order : order[i] = order[j] => i = j
  BY <1>2, <1>4, <1>5, OrderCoversAll
<1>7. /\ DOMAIN h = DOMAIN order
      /\ \A i \in DOMAIN order : h[i] = Handle(order[i], "panic")
      /\ \A i \in DOMAIN order : h[i].call = order[i] /\ h[i] \in Handles
  BY <1>3, <1>5, <1>6 DEF Handle, Handles, Answers
<1>8. h \in Seq(Handles) /\ OneEach(h)
  <2>1. h = [i \in 1..Cardinality(M) |-> h[i]] /\ \A i \in 1..Cardinality(M) : h[i] \in Handles
    BY <1>3, <1>6, <1>7
  <2>2. h \in Seq(Handles)
    BY <2>1, <1>6
  <2> QED
    BY <2>2, <1>6, <1>7 DEF OneEach
<1>9. \A c \in Calls : Covers(h, c) <=> c \in M
  BY <1>6, <1>7 DEF Covers
<1>10. /\ Promised
       /\ BatchTyped' /\ RecordsFollowIds' /\ SerialPhase' /\ EveryCallAnswered'
       /\ \A d \in Calls : Done(d)' <=> Done(d) \/ Covers(h, d)
       /\ Concurrent' = Concurrent
  <2>1. /\ RecordAll(h) /\ pc' \in {"collect", "drain", "sort"}
        /\ batch' \in Seq(Handles)
        /\ \A c \in Calls : Covers(h, c) => c \in Concurrent /\ ~Done(c)
    BY <1>1, <1>2, <1>3, <1>5, <1>9 DEF BatchTyped
  <2> QED
    BY <1>1, <1>8, <2>1, CollectRecords
<1>11. CollectPhase'
  BY <1>1 DEF CollectPhase, Collecting
<1>12. AfterBatch'
  <2>1. \A c \in config : Done(c)
    BY <1>1 DEF CollectPhase
  <2>2. \A c \in Calls : Done(c)'
    BY <1>5, <1>9, <1>10, <2>1 DEF Concurrent
  <2> QED
    BY <2>2, <1>10 DEF AfterBatch
<1> QED
  BY <1>10, <1>11, <1>12

LEMMA CollectDoneStep ==
    ASSUME DistinctIds, BatchIInv, CollectDone
    PROVE  BatchIInv' /\ Promised
<1> USE DEF BatchIInv
<1>1. /\ UNCHANGED <<config, exec, wait, inbox, batch, records, executed, cancelled>>
      /\ Collecting /\ pc' = "sort" /\ ~Undelivered
  BY DEF CollectDone, threadVars
<1>2. ~Ended /\ ~Ended' /\ \A c \in Calls : Done(c)' <=> Done(c)
  BY <1>1 DEF Ended, Collecting, Done
<1>3. \A c \in Calls : Done(c)
  <2>1. config \subseteq Calls /\ delivered \subseteq {Ids[c] : c \in Concurrent}
    BY <1>1 DEF CollectPhase, BatchTyped
  <2>2. \A c \in Concurrent : Ids[c] \in delivered
    BY <2>1, <1>1, AllDelivered
  <2> QED
    BY <2>2, <1>1 DEF CollectPhase, Concurrent
<1>4. BatchTyped'
  BY <1>1 DEF BatchTyped
<1>5. RecordsFollowIds' /\ EveryCallAnswered'
  BY <1>1, <1>2 DEF RecordsFollowIds, EveryCallAnswered
<1>6. SerialPhase' /\ CollectPhase'
  BY <1>1 DEF SerialPhase, CollectPhase, Collecting
<1>7. AfterBatch'
  BY <1>2, <1>3, <1>5 DEF AfterBatch
<1>8. Verdict' = Verdict
  BY <1>2 DEF Verdict
<1> QED
  BY <1>1, <1>4, <1>5, <1>6, <1>7, <1>8, Stutters

LEMMA SortStep ==
    ASSUME BatchIInv, SortByCallOrder
    PROVE  BatchIInv' /\ Promised
<1> USE DEF BatchIInv
<1>1. /\ UNCHANGED <<config, exec, wait, inbox, batch, records, executed, cancelled>>
      /\ pc = "sort" /\ pc' = "mirror"
  BY DEF SortByCallOrder, threadVars
<1>2. ~Ended /\ ~Ended' /\ \A c \in Calls : Done(c)' <=> Done(c)
  BY <1>1 DEF Ended, Done
<1>3. BatchTyped'
  BY <1>1 DEF BatchTyped
<1>4. RecordsFollowIds' /\ EveryCallAnswered'
  BY <1>1, <1>2 DEF RecordsFollowIds, EveryCallAnswered
<1>5. SerialPhase' /\ CollectPhase'
  BY <1>1 DEF SerialPhase, CollectPhase, Collecting
<1>6. AfterBatch'
  BY <1>1, <1>2, <1>4 DEF AfterBatch
<1>7. Verdict' = Verdict
  BY <1>2 DEF Verdict
<1> QED
  BY <1>1, <1>3, <1>4, <1>5, <1>6, <1>7, Stutters

\* The step that ends the batch: completed with every call answered, or
\* cancelled with the rest marked.
LEMMA MirrorStep ==
    ASSUME BatchIInv, Mirror
    PROVE  BatchIInv' /\ Promised
<1> USE DEF BatchIInv
<1>1. /\ UNCHANGED <<config, exec, wait, inbox, batch, executed, cancelled>>
      /\ pc = "mirror" /\ pc' = "done"
  BY DEF Mirror, threadVars
<1>2. IF cancelled THEN records' = MarkUnexecuted ELSE UNCHANGED records
  BY DEF Mirror
<1>3. ~Ended /\ Ended'
  BY <1>1 DEF Ended
<1>4. records \in [Calls -> Answers \cup {"empty", "unexecuted"}]
  BY DEF BatchTyped
<1>5. MarkUnexecuted = [c \in Calls |-> IF records[c] = "empty" THEN "unexecuted"
                                                               ELSE records[c]]
  BY <1>3 DEF MarkUnexecuted, RecordsFollowIds, Done
<1>6. /\ records' \in [Calls -> Answers \cup {"empty", "unexecuted"}]
      /\ \A c \in Calls : records'[c] # "empty"
  <2>1. CASE cancelled
    BY <2>1, <1>2, <1>4, <1>5
  <2>2. CASE ~cancelled
    BY <2>2, <1>1, <1>2, <1>3, <1>4 DEF AfterBatch, RecordsFollowIds
  <2> QED
    BY <2>1, <2>2
<1>7. BatchTyped'
  BY <1>1, <1>6 DEF BatchTyped
<1>8. RecordsFollowIds' /\ SerialPhase' /\ CollectPhase' /\ AfterBatch'
  BY <1>1, <1>3, <1>6
     DEF RecordsFollowIds, SerialPhase, CollectPhase, Collecting, AfterBatch, EveryCallAnswered
<1>9. Promised
  <2>1. CASE cancelled
    <3>1. Abstract!Stop
      BY <2>1, <1>1, <1>2, <1>3, <1>5 DEF Abstract!Stop
    <3> QED
      BY <3>1 DEF Promised, Abstract!Next
  <2>2. CASE ~cancelled
    <3>1. \A c \in Calls : records[c] # "empty"
      BY <2>2, <1>1, <1>3 DEF AfterBatch, RecordsFollowIds
    <3>2. Abstract!Complete
      BY <2>2, <3>1, <1>1, <1>2, <1>3 DEF Abstract!Complete
    <3> QED
      BY <3>2 DEF Promised, Abstract!Next
  <2> QED
    BY <2>1, <2>2
<1> QED
  BY <1>7, <1>8, <1>9

LEMMA FinishedStep ==
    ASSUME BatchIInv, HandleRequestFinished
    PROVE  BatchIInv' /\ Promised
<1> USE DEF BatchIInv
<1>1. /\ UNCHANGED <<config, exec, wait, inbox, batch, records, executed, cancelled>>
      /\ pc = "done" /\ pc' = "merged"
  BY DEF HandleRequestFinished, threadVars
<1>2. Ended /\ Ended'
  BY <1>1 DEF Ended
<1>3. BatchTyped'
  BY <1>1 DEF BatchTyped
<1>4. RecordsFollowIds' /\ SerialPhase' /\ CollectPhase' /\ AfterBatch'
  BY <1>1, <1>2
     DEF RecordsFollowIds, SerialPhase, CollectPhase, Collecting, AfterBatch, EveryCallAnswered
<1>5. Verdict' = Verdict
  BY <1>1, <1>2 DEF Verdict
<1> QED
  BY <1>1, <1>3, <1>4, <1>5, Stutters

LEMMA BatchStep ==
    ASSUME DistinctIds, BatchIInv, [Next]_vars
    PROVE  BatchIInv' /\ Promised
<1>1. CASE Worker
  BY <1>1, SerialStartStep, SerialEndStep, DispatchStep, CollectNextStep,
     CollectSynthesizeStep, CollectCancelStep, CollectDoneStep, SortStep, MirrorStep
     DEF Worker
<1>2. CASE \E c \in Calls : WaitLoop(c) \/ Tool(c) \/ Forward(c)
  BY <1>2, WaitLoopStep, ToolStep
<1>3. CASE HandleSetWorkingDir \/ HandleRequestFinished \/ Cancel
  BY <1>3, MainLoopStep, FinishedStep
<1>4. CASE UNCHANGED vars
  <2>1. UNCHANGED <<config, pc, wait, batch, records, executed, delivered, cancelled,
                    exec, inbox>>
    BY <1>4 DEF vars, workerVars, threadVars
  <2>2. BatchTyped'
    BY <2>1 DEF BatchIInv, BatchTyped
  <2> QED
    BY <2>1, <2>2, QuietStep
<1> QED
  BY <1>1, <1>2, <1>3, <1>4 DEF Next

LEMMA BatchInit ==
    ASSUME Init
    PROVE  BatchIInv /\ Abstract!Init
<1> USE DEF Init
<1>1. BatchTyped
  BY DEF BatchTyped
<1>2. ~Ended /\ ~Collecting /\ \A c \in Calls : ~Done(c)
  BY DEF Ended, Collecting, Done
<1>3. RecordsFollowIds /\ CollectPhase /\ AfterBatch
  BY <1>2 DEF RecordsFollowIds, CollectPhase, AfterBatch, EveryCallAnswered
<1>4. SerialPhase
  BY <1>1, <1>2 DEF SerialPhase, Concurrent, BatchTyped
<1>5. Abstract!Init
  BY <1>2 DEF Abstract!Init
<1> QED
  BY <1>1, <1>3, <1>4, <1>5 DEF BatchIInv

\* run_agent_loop implements its promise: whatever tools hang, panic, time
\* out or are cancelled, and whichever wait loop dies, every call of a
\* response with distinct ids gets one answer, no answer is replaced by
\* another, and the batch completes only when none is missing.
THEOREM BatchImplementsPromise ==
    ASSUME DistinctIds
    PROVE  Spec => AnsweredOnce
<1>1. Init => BatchIInv /\ Abstract!Init
  BY BatchInit
<1>2. BatchIInv /\ [Next]_vars => BatchIInv' /\ Promised
  BY BatchStep
<1>3. Promised => [Abstract!Next]_<<records,
        IF ~Ended THEN "no" ELSE IF cancelled THEN "cancelled" ELSE "completed">>
  BY DEF Promised, Verdict
<1> QED
  BY <1>1, <1>2, <1>3, PTL DEF Spec, AnsweredOnce, Abstract!Spec

\* requests.rs: "so the turn still records a result for every call": no
\* record of the turn is empty once the batch is over.
THEOREM BatchLeavesNoneEmpty ==
    ASSUME DistinctIds
    PROVE  Spec => []EveryCallAnswered
<1>1. Init => BatchIInv
  BY BatchInit
<1>2. BatchIInv /\ [Next]_vars => BatchIInv'
  BY BatchStep
<1>3. BatchIInv => EveryCallAnswered
  BY DEF BatchIInv, AfterBatch
<1> QED
  BY <1>1, <1>2, <1>3, PTL DEF Spec

-----------------------------------------------------------------------------
(* Subsessions *)

Note == {"run", "cancel", "shutdown", "finished"}

BoxesTyped ==
    /\ box \in [Tree -> Seq(Note)]
    /\ work \in [Tree -> {"none", "busy", "tool", "replied"}]
    /\ thread \in [Tree -> {"none", "on", "off"}]
    /\ spawn \in [Spawners -> {"none", "asking", "asked", "created",
                               "waiting", "returned"}]
    /\ answer \in [Spawners -> {"none", "sent", "closed"}]

\* A request is active from its start until its end has been handled: its
\* worker works, then the end waits in the queue, once.
Once(q) == \A i, j \in 1..Len(q) : q[i] = "finished" /\ q[j] = "finished" => i = j
RequestIsActive ==
    \A s \in Tree :
        /\ work[s] # "none" => s \in active
        /\ Contains(box[s], "finished") => s \in active /\ work[s] = "none"
        /\ Once(box[s])

TreeIInv == BoxesTyped /\ RequestIsActive /\ WaiterHasSender /\ NoWorkAfterExit

-----------------------------------------------------------------------------
(* What a queue holds.                                                     *)

LEMMA BoxTail ==
    ASSUME NEW q \in Seq(Note), q # <<>>
    PROVE  /\ Tail(q) \in Seq(Note)
           /\ \A e : Contains(q, e) <=> Head(q) = e \/ Contains(Tail(q), e)
           /\ Once(q) => Once(Tail(q))
           /\ Once(q) /\ Head(q) = "finished" => ~Contains(Tail(q), "finished")
<1>1. /\ Tail(q) \in Seq(Note) /\ Head(q) = q[1] /\ Len(q) >= 1
      /\ Len(Tail(q)) = Len(q) - 1
      /\ \A i \in 1..Len(Tail(q)) : Tail(q)[i] = q[i + 1]
  OBVIOUS
<1>2. ASSUME NEW e PROVE Contains(q, e) <=> Head(q) = e \/ Contains(Tail(q), e)
  <2>1. ASSUME NEW i \in 1..Len(q), q[i] = e PROVE Head(q) = e \/ Contains(Tail(q), e)
    <3>1. CASE i = 1
      BY <1>1, <2>1, <3>1
    <3>2. CASE i # 1
      <4>1. i - 1 \in 1..Len(Tail(q)) /\ Tail(q)[i - 1] = e
        BY <1>1, <2>1, <3>2
      <4> QED BY <4>1 DEF Contains
    <3> QED BY <3>1, <3>2
  <2>2. ASSUME NEW i \in 1..Len(Tail(q)), Tail(q)[i] = e PROVE Contains(q, e)
    <3>1. i + 1 \in 1..Len(q) /\ q[i + 1] = e
      BY <1>1, <2>2
    <3> QED BY <3>1 DEF Contains
  <2>3. Head(q) = e => Contains(q, e)
    BY <1>1 DEF Contains
  <2> QED BY <2>1, <2>2, <2>3 DEF Contains
<1>3. Once(q) => Once(Tail(q))
  BY <1>1 DEF Once
<1>4. Once(q) /\ Head(q) = "finished" => ~Contains(Tail(q), "finished")
  BY <1>1 DEF Once, Contains
<1> QED BY <1>1, <1>2, <1>3, <1>4

LEMMA BoxAppend ==
    ASSUME NEW q \in Seq(Note), NEW e \in Note
    PROVE  /\ Append(q, e) \in Seq(Note)
           /\ \A x : Contains(Append(q, e), x) <=> Contains(q, x) \/ x = e
           /\ Once(q) /\ (e = "finished" => ~Contains(q, "finished"))
                => Once(Append(q, e))
<1>1. /\ Append(q, e) \in Seq(Note) /\ Len(Append(q, e)) = Len(q) + 1
      /\ Append(q, e)[Len(q) + 1] = e
      /\ \A i \in 1..Len(q) : Append(q, e)[i] = q[i]
  OBVIOUS
<1>2. ASSUME NEW x PROVE Contains(Append(q, e), x) <=> Contains(q, x) \/ x = e
  BY <1>1 DEF Contains
<1>3. Once(q) /\ (e = "finished" => ~Contains(q, "finished")) => Once(Append(q, e))
  BY <1>1 DEF Once, Contains
<1> QED BY <1>1, <1>2, <1>3

LEMMA BoxEmpty ==
    /\ <<>> \in Seq(Note) /\ Once(<<>>)
    /\ \A e : ~Contains(<<>>, e)
BY DEF Once, Contains

LEMMA BoxFarewell ==
    ASSUME NEW q \in Seq(Note)
    PROVE  /\ q \o Farewell \in Seq(Note)
           /\ \A x : Contains(q \o Farewell, x) <=> Contains(q, x) \/ x \in {"cancel", "shutdown"}
           /\ Once(q) => Once(q \o Farewell)
<1>1. q \o Farewell = Append(Append(q, "cancel"), "shutdown")
  BY DEF Farewell
<1>2. Append(q, "cancel") \in Seq(Note)
  BY DEF Note
<1> QED BY <1>1, <1>2, BoxAppend DEF Note

-----------------------------------------------------------------------------
(* The invariant.                                                          *)

LEMMA TreeInitHolds == TreeInit => TreeIInv
<1> SUFFICES ASSUME TreeInit PROVE TreeIInv
  OBVIOUS
<1>1. BoxesTyped
  BY BoxEmpty DEF TreeInit, BoxesTyped
<1>2. RequestIsActive
  BY BoxEmpty DEF TreeInit, RequestIsActive
<1>3. WaiterHasSender
  BY DEF TreeInit, WaiterHasSender
<1>4. NoWorkAfterExit
  BY DEF TreeInit, NoWorkAfterExit
<1> QED BY <1>1, <1>2, <1>3, <1>4 DEF TreeIInv

\* The steps of the request worker and of the tool's thread
LEMMA WorkerStep ==
    ASSUME TreeIInv, NEW s \in Tree, Complete(s) \/ Cancelled(s) \/ Finish(s)
    PROVE  TreeIInv'
<1> USE DEF TreeIInv
<1>1. CASE Complete(s) \/ Cancelled(s)
  <2>1. /\ work[s] # "none"
        /\ work' = [work EXCEPT ![s] = "replied"]
        /\ answer' = IF s = 1 THEN answer ELSE [answer EXCEPT ![s - 1] = "sent"]
        /\ UNCHANGED <<thread, active, box, spawn>>
    BY <1>1 DEF Complete, Cancelled, Works, Replies, sessionVars
  <2>2. BoxesTyped'
    BY <2>1 DEF BoxesTyped
  <2>3. RequestIsActive'
    BY <2>1 DEF RequestIsActive, BoxesTyped, Once
  <2>4. WaiterHasSender'
    <3> SUFFICES ASSUME NEW t \in Spawners, spawn'[t] = "waiting", answer'[t] = "none"
                 PROVE  Contains(box'[t + 1], "run") \/ Works(t + 1)'
      BY DEF WaiterHasSender
    <3>1. t + 1 \in Tree /\ t + 1 # 1
      BY TreeAssumption DEF Spawners, Tree
    <3>2. t + 1 # s /\ answer[t] = "none"
      BY <2>1, <3>1, TreeAssumption DEF BoxesTyped, Spawners, Tree
    <3> QED BY <2>1, <3>1, <3>2 DEF WaiterHasSender, Works, BoxesTyped
  <2>5. NoWorkAfterExit'
    BY <2>1 DEF NoWorkAfterExit, BoxesTyped
  <2> QED BY <2>2, <2>3, <2>4, <2>5
<1>2. CASE Finish(s)
  <2>1. /\ work[s] = "replied"
        /\ work' = [work EXCEPT ![s] = "none"]
        /\ box' = [box EXCEPT ![s] = Append(box[s], "finished")]
        /\ UNCHANGED <<thread, active, spawn, answer>>
    BY <1>2 DEF Finish, sessionVars
  <2>2. /\ Append(box[s], "finished") \in Seq(Note)
        /\ \A x : Contains(Append(box[s], "finished"), x) <=> Contains(box[s], x) \/ x = "finished"
        /\ Once(Append(box[s], "finished"))
    BY <2>1, BoxAppend DEF BoxesTyped, RequestIsActive, Note
  <2>3. BoxesTyped'
    BY <2>1, <2>2 DEF BoxesTyped
  <2>4. RequestIsActive'
    BY <2>1, <2>2 DEF RequestIsActive, BoxesTyped
  <2>5. WaiterHasSender'
    <3> SUFFICES ASSUME NEW t \in Spawners, spawn'[t] = "waiting", answer'[t] = "none"
                 PROVE  Contains(box'[t + 1], "run") \/ Works(t + 1)'
      BY DEF WaiterHasSender
    <3>1. t + 1 \in Tree
      BY TreeAssumption DEF Spawners, Tree
    <3> QED BY <2>1, <2>2, <3>1 DEF WaiterHasSender, Works, BoxesTyped
  <2>6. NoWorkAfterExit'
    BY <2>1 DEF NoWorkAfterExit, BoxesTyped
  <2> QED BY <2>3, <2>4, <2>5, <2>6
<1> QED BY <1>1, <1>2

LEMMA SpawnerStep ==
    ASSUME TreeIInv, NEW s \in Spawners,
           CallTool(s) \/ ToolReturns(s) \/ ToolMoves(s)
    PROVE  TreeIInv'
<1> USE DEF TreeIInv
<1>0. s \in Tree /\ s + 1 \in Tree
  BY TreeAssumption DEF Spawners, Tree
<1>1. CASE CallTool(s) \/ ToolReturns(s)
  <2>1. /\ work[s] \in {"busy", "tool"}
        /\ work' = [work EXCEPT ![s] = "tool"] \/ work' = [work EXCEPT ![s] = "busy"]
        /\ spawn' = spawn \/ spawn' = [spawn EXCEPT ![s] = "asking"]
        /\ UNCHANGED <<thread, active, box, answer>>
    BY <1>1 DEF CallTool, ToolReturns, sessionVars
  <2>2. BoxesTyped'
    BY <2>1 DEF BoxesTyped
  <2>3. RequestIsActive'
    BY <1>0, <2>1 DEF RequestIsActive, BoxesTyped, Once
  <2>4. \A t \in Tree : Works(t) => Works(t)'
    BY <1>0, <2>1 DEF Works, BoxesTyped
  <2>5. WaiterHasSender'
    <3> SUFFICES ASSUME NEW t \in Spawners, spawn'[t] = "waiting", answer'[t] = "none"
                 PROVE  Contains(box'[t + 1], "run") \/ Works(t + 1)'
      BY DEF WaiterHasSender
    <3>1. t + 1 \in Tree
      BY TreeAssumption DEF Spawners, Tree
    <3> QED BY <2>1, <2>4, <3>1 DEF WaiterHasSender, BoxesTyped
  <2>6. NoWorkAfterExit'
    BY <1>0, <2>1 DEF NoWorkAfterExit, BoxesTyped
  <2> QED BY <2>2, <2>3, <2>5, <2>6
<1>2. CASE AskCreate(s) \/ ReceiveResult(s)
  <2>1. /\ spawn' = [spawn EXCEPT ![s] = "asked"] \/ spawn' = [spawn EXCEPT ![s] = "returned"]
        /\ UNCHANGED <<thread, active, box, answer, work>>
    BY <1>2 DEF AskCreate, ReceiveResult, sessionVars
  <2> QED BY <2>1 DEF BoxesTyped, RequestIsActive, Once, WaiterHasSender, Works, NoWorkAfterExit
<1>3. CASE SendRunChildInput(s)
  <2>1. UNCHANGED <<thread, active, answer, work>>
    BY <1>3 DEF SendRunChildInput, sessionVars
  <2>2. CASE spawn' = [spawn EXCEPT ![s] = "returned"] /\ box' = box
    BY <2>1, <2>2 DEF BoxesTyped, RequestIsActive, Once, WaiterHasSender, Works, NoWorkAfterExit
  <2>3. CASE /\ spawn' = [spawn EXCEPT ![s] = "waiting"]
             /\ box' = [box EXCEPT ![s + 1] = Append(box[s + 1], "run")]
    <3>1. /\ Append(box[s + 1], "run") \in Seq(Note)
          /\ \A x : Contains(Append(box[s + 1], "run"), x) <=> Contains(box[s + 1], x) \/ x = "run"
          /\ Once(Append(box[s + 1], "run"))
      BY <1>0, BoxAppend DEF BoxesTyped, RequestIsActive, Note
    <3>2. BoxesTyped'
      BY <2>1, <2>3, <3>1 DEF BoxesTyped
    <3>3. RequestIsActive'
      BY <2>1, <2>3, <3>1 DEF RequestIsActive, BoxesTyped
    <3>4. WaiterHasSender'
      <4> SUFFICES ASSUME NEW t \in Spawners, spawn'[t] = "waiting", answer'[t] = "none"
                   PROVE  Contains(box'[t + 1], "run") \/ Works(t + 1)'
        BY DEF WaiterHasSender
      <4>1. t + 1 \in Tree
        BY TreeAssumption DEF Spawners, Tree
      <4>2. CASE t = s
        BY <1>0, <2>3, <3>1, <4>2 DEF BoxesTyped
      <4>3. CASE t # s
        <5>1. box'[t + 1] = box[t + 1] /\ spawn'[t] = spawn[t]
          BY <2>3, <4>1, <4>3 DEF BoxesTyped, Spawners
        <5> QED BY <2>1, <5>1 DEF WaiterHasSender, Works
      <4> QED BY <4>2, <4>3
    <3>5. NoWorkAfterExit'
      BY <2>1 DEF NoWorkAfterExit
    <3> QED BY <3>2, <3>3, <3>4, <3>5
  <2> QED BY <1>3, <2>2, <2>3 DEF SendRunChildInput
<1> QED BY <1>1, <1>2, <1>3 DEF ToolMoves

\* A session thread that goes on with the rest of its queue, or leaves it.
LEMMA ExitStep ==
    ASSUME TreeIInv, NEW s \in Tree, NEW rest \in Seq(Note), NEW yes,
           Exits(s, rest, yes), UNCHANGED <<work, spawn>>,
           Once(rest), \A x \in {"run", "finished"} : Contains(rest, x) => Contains(box[s], x),
           Contains(box[s], "run") => Contains(rest, "run"),
           work[s] # "none" \/ Contains(rest, "finished") => s \in active',
           \A t \in Tree \ {s} : t \in active' <=> t \in active,
           yes => s \notin active', s \in active' => s \in active
    PROVE  TreeIInv'
<1> USE DEF TreeIInv
<1>1. CASE yes
  <2>1. /\ thread' = [thread EXCEPT ![s] = "off"] /\ box' = [box EXCEPT ![s] = <<>>]
        /\ answer' = IF s > 1 /\ Contains(rest, "run")
                     THEN [answer EXCEPT ![s - 1] = "closed"] ELSE answer
        /\ work[s] = "none" /\ s \notin active'
    BY <1>1 DEF Exits, Dropped
  <2>2. BoxesTyped'
    BY <2>1, BoxEmpty DEF BoxesTyped
  <2>3. RequestIsActive'
    BY <2>1, BoxEmpty DEF RequestIsActive, BoxesTyped
  <2>4. WaiterHasSender'
    <3> SUFFICES ASSUME NEW t \in Spawners, spawn'[t] = "waiting", answer'[t] = "none"
                 PROVE  Contains(box'[t + 1], "run") \/ Works(t + 1)'
      BY DEF WaiterHasSender
    <3>1. t + 1 \in Tree /\ t + 1 > 1 /\ t = (t + 1) - 1
      BY TreeAssumption DEF Spawners, Tree
    <3>2. answer[t] = "none"
      BY <2>1 DEF BoxesTyped
    <3>3. CASE t + 1 = s
      BY <2>1, <3>1, <3>2, <3>3 DEF WaiterHasSender, BoxesTyped, Works
    <3>4. CASE t + 1 # s
      BY <2>1, <3>1, <3>2, <3>4 DEF WaiterHasSender, BoxesTyped, Works
    <3> QED BY <3>3, <3>4
  <2>5. NoWorkAfterExit'
    BY <2>1 DEF NoWorkAfterExit, BoxesTyped
  <2> QED BY <2>2, <2>3, <2>4, <2>5
<1>2. CASE ~yes
  <2>1. /\ box' = [box EXCEPT ![s] = rest]
        /\ UNCHANGED <<thread, answer>>
    BY <1>2 DEF Exits
  <2>2. BoxesTyped'
    BY <2>1 DEF BoxesTyped
  <2>3. RequestIsActive'
    BY <2>1 DEF RequestIsActive, BoxesTyped
  <2>4. WaiterHasSender'
    <3> SUFFICES ASSUME NEW t \in Spawners, spawn'[t] = "waiting", answer'[t] = "none"
                 PROVE  Contains(box'[t + 1], "run") \/ Works(t + 1)'
      BY DEF WaiterHasSender
    <3>1. t + 1 \in Tree
      BY TreeAssumption DEF Spawners, Tree
    <3> QED BY <2>1, <3>1 DEF WaiterHasSender, BoxesTyped, Works
  <2>5. NoWorkAfterExit'
    BY <2>1 DEF NoWorkAfterExit, BoxesTyped
  <2> QED BY <2>2, <2>3, <2>4, <2>5
<1> QED BY <1>1, <1>2

LEMMA SessionStep_ ==
    ASSUME TreeIInv, NEW s \in Tree, SessionMoves(s)
    PROVE  TreeIInv'
<1> USE DEF TreeIInv
<1>1. box[s] \in Seq(Note) /\ box[s] # <<>> /\ thread[s] = "on"
  BY DEF SessionMoves, HandleRun, HandleCancel, HandleShutdown, HandleFinished, BoxesTyped
<1> DEFINE rest == Tail(box[s])
<1>2. /\ rest \in Seq(Note) /\ Once(rest)
      /\ \A e : Contains(box[s], e) <=> Head(box[s]) = e \/ Contains(rest, e)
      /\ Head(box[s]) = "finished" => ~Contains(rest, "finished")
  BY <1>1, BoxTail DEF RequestIsActive
<1> HIDE DEF rest
<1>3. CASE HandleRun(s)
  <2>1. /\ Head(box[s]) = "run" /\ box' = [box EXCEPT ![s] = rest]
        /\ UNCHANGED <<thread, spawn>>
    BY <1>3 DEF HandleRun, rest
  <2>2. \/ answer' = [answer EXCEPT ![s - 1] = "sent"] /\ UNCHANGED <<active, work>>
        \/ /\ s \notin active /\ active' = active \cup {s}
           /\ work' = [work EXCEPT ![s] = "busy"] /\ UNCHANGED answer
    BY <1>3 DEF HandleRun, Refuses
  <2>3. BoxesTyped'
    BY <1>2, <2>1, <2>2 DEF BoxesTyped
  <2>4. RequestIsActive'
    BY <1>2, <2>1, <2>2 DEF RequestIsActive, BoxesTyped
  <2>5. WaiterHasSender'
    <3> SUFFICES ASSUME NEW t \in Spawners, spawn'[t] = "waiting", answer'[t] = "none"
                 PROVE  Contains(box'[t + 1], "run") \/ Works(t + 1)'
      BY DEF WaiterHasSender
    <3>1. t + 1 \in Tree /\ t = (t + 1) - 1 /\ answer[t] = "none"
      BY <2>2, TreeAssumption DEF Spawners, Tree, BoxesTyped
    <3>2. CASE t + 1 = s
      BY <2>2, <3>1, <3>2 DEF BoxesTyped, Works
    <3>3. CASE t + 1 # s
      BY <2>1, <2>2, <3>1, <3>3 DEF WaiterHasSender, BoxesTyped, Works
    <3> QED BY <3>2, <3>3
  <2>6. NoWorkAfterExit'
    BY <1>1, <2>1, <2>2 DEF NoWorkAfterExit, BoxesTyped
  <2> QED BY <2>3, <2>4, <2>5, <2>6
<1>4. CASE HandleCancel(s)
  <2>1. /\ Head(box[s]) = "cancel" /\ box' = [box EXCEPT ![s] = rest]
        /\ UNCHANGED <<thread, spawn, active, work, answer>>
    BY <1>4 DEF HandleCancel, rest
  <2>2. BoxesTyped' /\ RequestIsActive' /\ NoWorkAfterExit'
    BY <1>2, <2>1 DEF BoxesTyped, RequestIsActive, NoWorkAfterExit
  <2>3. WaiterHasSender'
    <3> SUFFICES ASSUME NEW t \in Spawners, spawn'[t] = "waiting", answer'[t] = "none"
                 PROVE  Contains(box'[t + 1], "run") \/ Works(t + 1)'
      BY DEF WaiterHasSender
    <3>1. t + 1 \in Tree
      BY TreeAssumption DEF Spawners, Tree
    <3> QED BY <1>2, <2>1, <3>1 DEF WaiterHasSender, BoxesTyped, Works
  <2> QED BY <2>2, <2>3
<1>5. CASE HandleShutdown(s)
  <2>1. /\ Head(box[s]) = "shutdown" /\ Exits(s, rest, s \notin active)
        /\ UNCHANGED <<spawn, active, work>>
    BY <1>5 DEF HandleShutdown, MayStop, rest
  <2> QED BY <1>2, <2>1, ExitStep DEF RequestIsActive
<1>6. CASE HandleFinished(s)
  <2>1. /\ Head(box[s]) = "finished" /\ Exits(s, rest, ~Subscribed(s) \/ s \in stopping)
        /\ active' = active \ {s} /\ UNCHANGED <<spawn, work>>
    BY <1>6 DEF HandleFinished, rest
  <2> QED BY <1>2, <2>1, ExitStep DEF RequestIsActive
<1> QED BY <1>3, <1>4, <1>5, <1>6 DEF SessionMoves

LEMMA DetachStep ==
    ASSUME TreeIInv, Detach
    PROVE  TreeIInv'
<1>1. 1 \in Tree
  BY TreeAssumption DEF Tree
<1>2. /\ Exits(1, box[1], 1 \notin active) /\ UNCHANGED <<active, work, spawn>>
      /\ box[1] \in Seq(Note) /\ Once(box[1])
      /\ work[1] # "none" \/ Contains(box[1], "finished") => 1 \in active
  BY <1>1 DEF Detach, TreeIInv, BoxesTyped, RequestIsActive
<1> QED BY <1>1, <1>2, ExitStep

\* The daemon only adds cancels and shutdowns to queues, and starts threads.
LEMMA DaemonStep ==
    ASSUME TreeIInv, NEW s \in Tree,
           HandleCancelRequest(s) \/ HandleExited(s) \/ (s \in Spawners /\ HandleCreate(s))
    PROVE  TreeIInv'
<1> USE DEF TreeIInv
<1>1. ASSUME box' \in [Tree -> Seq(Note)], UNCHANGED <<thread, active, work, spawn, answer>>,
             \A t \in Tree : /\ Once(box'[t])
                             /\ \A x \in {"run", "finished"} :
                                   Contains(box'[t], x) <=> Contains(box[t], x)
      PROVE  TreeIInv'
  <2>1. BoxesTyped' /\ NoWorkAfterExit'
    BY <1>1 DEF BoxesTyped, NoWorkAfterExit
  <2>2. RequestIsActive'
    BY <1>1 DEF RequestIsActive
  <2>3. WaiterHasSender'
    <3> SUFFICES ASSUME NEW t \in Spawners, spawn'[t] = "waiting", answer'[t] = "none"
                 PROVE  Contains(box'[t + 1], "run") \/ Works(t + 1)'
      BY DEF WaiterHasSender
    <3>1. t + 1 \in Tree
      BY TreeAssumption DEF Spawners, Tree
    <3> QED BY <1>1, <3>1 DEF WaiterHasSender, Works
  <2> QED BY <2>1, <2>2, <2>3
<1>2. CASE HandleCancelRequest(s)
  <2>1. /\ UNCHANGED <<thread, active, work, spawn, answer>>
        /\ box' = [t \in Tree |-> IF t \in CancelTargets(s) /\ thread[t] = "on"
                                  THEN Append(box[t], "cancel") ELSE box[t]]
    BY <1>2 DEF HandleCancelRequest, sessionVars
  <2>2. \A t \in Tree : /\ Append(box[t], "cancel") \in Seq(Note)
                        /\ Once(Append(box[t], "cancel"))
                        /\ \A x \in {"run", "finished"} :
                             Contains(Append(box[t], "cancel"), x) <=> Contains(box[t], x)
    BY BoxAppend DEF BoxesTyped, RequestIsActive, Note
  <2> QED BY <1>1, <2>1, <2>2 DEF BoxesTyped, RequestIsActive
<1>3. CASE HandleExited(s)
  <2>1. /\ UNCHANGED <<thread, active, work, spawn, answer>>
        /\ box' = [t \in Tree |-> IF t \in children[s] \cap known /\ thread[t] = "on"
                                  THEN box[t] \o Farewell ELSE box[t]]
    BY <1>3 DEF HandleExited, sessionVars
  <2>2. \A t \in Tree : /\ box[t] \o Farewell \in Seq(Note)
                        /\ Once(box[t] \o Farewell)
                        /\ \A x \in {"run", "finished"} :
                             Contains(box[t] \o Farewell, x) <=> Contains(box[t], x)
    BY BoxFarewell DEF BoxesTyped, RequestIsActive
  <2> QED BY <1>1, <2>1, <2>2 DEF BoxesTyped, RequestIsActive
<1>4. CASE s \in Spawners /\ HandleCreate(s)
  <2>1. /\ thread' = [thread EXCEPT ![s + 1] = "on"]
        /\ spawn' = [spawn EXCEPT ![s] = "created"]
        /\ UNCHANGED <<active, work, box, answer>>
    BY <1>4 DEF HandleCreate
  <2>2. BoxesTyped' /\ RequestIsActive' /\ NoWorkAfterExit'
    BY <2>1 DEF BoxesTyped, RequestIsActive, NoWorkAfterExit
  <2>3. WaiterHasSender'
    BY <2>1 DEF WaiterHasSender, Works, BoxesTyped
  <2> QED BY <2>2, <2>3
<1> QED BY <1>2, <1>3, <1>4

LEMMA TreeStep == TreeIInv /\ [TreeNext]_treeVars => TreeIInv'
<1> SUFFICES ASSUME TreeIInv, [TreeNext]_treeVars PROVE TreeIInv'
  OBVIOUS
<1>1. CASE ClientCancel
  BY <1>1 DEF ClientCancel, sessionVars, TreeIInv, BoxesTyped, RequestIsActive, Once,
       WaiterHasSender, Works, NoWorkAfterExit
<1>2. CASE UNCHANGED treeVars
  BY <1>2 DEF treeVars, TreeIInv, BoxesTyped, RequestIsActive, Once,
       WaiterHasSender, Works, NoWorkAfterExit
<1> QED
  BY <1>1, <1>2, DetachStep, WorkerStep, SessionStep_, DaemonStep, SpawnerStep
     DEF TreeNext, WorkerMoves, DaemonMoves

-----------------------------------------------------------------------------
(* The results.                                                            *)

LEMMA TreeInvariant == TreeSpec => []TreeIInv
BY TreeInitHolds, TreeStep, PTL DEF TreeSpec

(* Nobody waits on nobody, in a chain of any depth: while spawn_subsession  *)
(* blocks for its child's result, the child's queue or worker still has the *)
(* other end of the channel, or the answer is there (tools/subsession.rs,   *)
(* sessions.rs handle_run_child_input).                                     *)
THEOREM TreeWaiterHasSender == TreeSpec => []WaiterHasSender
<1>1. TreeIInv => WaiterHasSender
  BY DEF TreeIInv
<1> QED BY <1>1, TreeInvariant, PTL

(* A session thread ends only after its request: neither a shutdown, a      *)
(* detach nor the farewell of an exiting parent leaves a worker without the *)
(* session that merges and stores its turns (sessions.rs                    *)
(* handle_request_finished, handle_shutdown).                               *)
THEOREM TreeNoWorkAfterExit == TreeSpec => []NoWorkAfterExit
<1>1. TreeIInv => NoWorkAfterExit
  BY DEF TreeIInv
<1> QED BY <1>1, TreeInvariant, PTL
=============================================================================
