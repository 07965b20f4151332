------------------------ MODULE SessionLifecycle_proofs ------------------------
(* Theorems about SessionLifecycle, for every value of its constants. *)
EXTENDS SessionLifecycle, WellFoundedInduction, TLAPS

\* A non-empty set of ids has a greatest member.
LEMMA GreatestId ==
    ASSUME NEW L \in SUBSET Ids, L # {}
    PROVE  \E m \in L : \A x \in L : x <= m
<1> DEFINE R == OpToRel(<, Nat)
           D == {n \in 0..MaxId : MaxId - n \in L}
<1>1. D \subseteq Nat
  BY ConstantsAssumption
<1>2. D # {}
  <2>1. PICK x \in L : TRUE
    OBVIOUS
  <2>2. x \in Nat /\ x <= MaxId
    BY <2>1, ConstantsAssumption DEF Ids
  <2>3. MaxId - x \in 0..MaxId /\ MaxId - (MaxId - x) = x
    BY <2>2, ConstantsAssumption
  <2> QED BY <2>1, <2>3
<1>3. IsWellFoundedOn(R, Nat)
  BY NatLessThanWellFounded
<1>4. PICK d \in D : \A e \in D : ~(<<e, d>> \in R)
  BY <1>1, <1>2, <1>3, WFMin
<1>5. ASSUME NEW e \in D PROVE d <= e
  <2>1. R = {ss \in Nat \X Nat : ss[1] < ss[2]}
    BY DEF OpToRel
  <2>2. d \in Nat /\ e \in Nat /\ ~(<<e, d>> \in R)
    BY <1>1, <1>4
  <2> HIDE DEF R
  <2>3. ~(e < d)
    BY <2>1, <2>2
  <2> QED BY <2>2, <2>3
<1>6. MaxId - d \in L
  OBVIOUS
<1>7. ASSUME NEW x \in L PROVE x <= MaxId - d
  <2>1. x \in Nat /\ x <= MaxId /\ d \in Nat
    BY <1>1, ConstantsAssumption DEF Ids
  <2>2. MaxId - x \in 0..MaxId /\ MaxId - (MaxId - x) = x
    BY <2>1, ConstantsAssumption
  <2>3. d <= MaxId - x
    BY <1>5, <2>2
  <2> QED BY <2>1, <2>3, ConstantsAssumption
<1> QED BY <1>6, <1>7

\* The id main derives at boot is a proper one, above every listed id.
LEMMA NextIdType ==
    ASSUME NEW L \in SUBSET Ids
    PROVE  /\ NextId(L) \in 1..(MaxId + 1)
           /\ \A x \in L : x < NextId(L)
<1> DEFINE P(n) == (\A x \in L : x < n) /\ (n = 1 \/ n - 1 \in L)
<1>1. \E n \in 1..(MaxId + 1) : P(n)
  <2>1. CASE L = {}
    <3>1. 1 \in 1..(MaxId + 1) /\ P(1)
      BY <2>1, ConstantsAssumption
    <3> QED BY <3>1
  <2>2. CASE L # {}
    <3>1. PICK m \in L : \A x \in L : x <= m
      BY <2>2, GreatestId
    <3>2. m + 1 \in 1..(MaxId + 1) /\ P(m + 1)
      BY <3>1, ConstantsAssumption DEF Ids
    <3> QED BY <3>2
  <2> QED BY <2>1, <2>2
<1>2. NextId(L) = CHOOSE n \in 1..(MaxId + 1) : P(n)
  BY DEF NextId
<1> QED BY <1>1, <1>2

-----------------------------------------------------------------------------
(* Type correctness *)

LEMMA InitType == Init => TypeOK
BY ConstantsAssumption DEF Init, TypeOK, Ids, ThreadState, FreeThread, Phases,
   Absent, Incarnations

LEMMA SendShutdownType ==
    ASSUME TypeOK, NEW S
    PROVE  SendShutdown(S) \in [Threads -> ThreadState]
<1> SUFFICES ASSUME NEW t \in Threads
             PROVE  [thr[t] EXCEPT !.stop = Shut(thr[t].stop)] \in ThreadState
  BY DEF SendShutdown, TypeOK
<1> QED BY DEF TypeOK, ThreadState, Shut

LEMMA SendType ==
    ASSUME TypeOK, NEW x \in Ids, NEW i \in Incarnations \cup {Absent},
           NEW op \in {"UpdateMetadata", "SessionExited",
                       "SessionDeleteFinalized"},
           Send(op, x, i)
    PROVE  queue' \in Seq(Commands)
<1>1. [op |-> op, sid |-> x, inc |-> i] \in Commands
  BY DEF Commands
<1> QED BY <1>1 DEF TypeOK, Send

LEMMA BootType == TypeOK /\ Boot => TypeOK'
<1> SUFFICES ASSUME TypeOK, Boot PROVE TypeOK'
  OBVIOUS
<1>1. CASE StartBoot
  BY <1>1 DEF TypeOK, StartBoot, disk, memory, history, Outcomes
<1>2. CASE LoadIndex
  <2>1. PICK skip \in Failures("load", {x \in Ids : record[x] # Absent}) :
          LET loaded == {x \in Ids : record[x] # Absent} \ skip IN
          /\ session_metadata' = [x \in Ids |-> IF x \in loaded THEN record[x]
                                                ELSE Absent]
          /\ sleeping' = loaded
          /\ next_session_id' = NextId(loaded)
    BY <1>2 DEF LoadIndex
  <2> DEFINE L == {x \in Ids : record[x] # Absent} \ skip
  <2>2. NextId(L) \in 1..(MaxId + 1)
    BY NextIdType
  <2> QED BY <1>2, <2>1, <2>2 DEF TypeOK, LoadIndex, disk, history
<1>3. ASSUME NEW x \in Ids, PurgeOne(x) PROVE TypeOK'
  BY <1>3 DEF TypeOK, PurgeOne, memory, history, Outcomes
<1> QED BY <1>1, <1>2, <1>3 DEF Boot

LEMMA SpawnType ==
    ASSUME TypeOK, NEW x \in Ids, NEW i \in Incarnations, NEW t \in Threads,
           SpawnSession(x, i, t)
    PROVE  /\ thr' \in [Threads -> ThreadState]
           /\ active_sessions' \in [Ids -> Threads \cup {NoThread}]
           /\ session_metadata' \in [Ids -> Incarnations \cup {Absent}]
           /\ sleeping' \subseteq Ids
BY DEF TypeOK, SpawnSession, ThreadState, Phases

LEMMA MeantType ==
    ASSUME TypeOK, NEW x \in Ids
    PROVE  Meant(x) \subseteq Incarnations
BY DEF TypeOK, Meant, HasEntry, ThreadState

LEMMA ClientCommandType == TypeOK /\ ClientCommand => TypeOK'
<1> SUFFICES ASSUME TypeOK, ClientCommand PROVE TypeOK'
  OBVIOUS
<1>1. ASSUME NEW p \in Ids \cup {0}, NEW t \in Threads, CreateSession(p, t)
      PROVE  TypeOK'
  <2> DEFINE x == next_session_id
             i == born + 1
  <2>1. x \in Ids /\ i \in Incarnations /\ x + 1 \in 1..(MaxId + 1)
    BY <1>1, ConstantsAssumption DEF CreateSession, TypeOK, Ids, Incarnations
  <2>2. SpawnSession(x, i, t)
    BY <1>1 DEF CreateSession
  <2>3. /\ thr' \in [Threads -> ThreadState]
        /\ active_sessions' \in [Ids -> Threads \cup {NoThread}]
        /\ session_metadata' \in [Ids -> Incarnations \cup {Absent}]
        /\ sleeping' \subseteq Ids
    BY <2>1, <2>2, SpawnType
  <2>4. record' \in [Ids -> Incarnations \cup {Absent}]
    BY <1>1, <2>1 DEF CreateSession, TypeOK
  <2>5. children' \subseteq Ids \X Ids
    BY <1>1, <2>1 DEF CreateSession, TypeOK
  <2>6. born' \in 0..MaxBorn
    BY <1>1, <2>1, ConstantsAssumption DEF CreateSession, TypeOK, Incarnations
  <2> QED BY <1>1, <2>1, <2>3, <2>4, <2>5, <2>6 DEF CreateSession, TypeOK
<1>2. ASSUME NEW x \in Ids, NEW t \in Threads, AttachSession(x, t)
      PROVE  TypeOK'
  <2>1. record[x] \in Incarnations /\ SpawnSession(x, record[x], t)
    BY <1>2 DEF AttachSession, TypeOK
  <2>2. /\ thr' \in [Threads -> ThreadState]
        /\ active_sessions' \in [Ids -> Threads \cup {NoThread}]
        /\ session_metadata' \in [Ids -> Incarnations \cup {Absent}]
        /\ sleeping' \subseteq Ids
    BY <2>1, SpawnType
  <2> QED BY <1>2, <2>2 DEF AttachSession, TypeOK, disk, history
<1>3. ASSUME NEW x \in Ids, DeleteSession(x) PROVE TypeOK'
  <2>1. thr' \in [Threads -> ThreadState]
    BY <1>3, SendShutdownType DEF DeleteSession
  <2>2. /\ record' \in [Ids -> Incarnations \cup {Absent}]
        /\ session_metadata' \in [Ids -> Incarnations \cup {Absent}]
        /\ active_sessions' \in [Ids -> Threads \cup {NoThread}]
    BY <1>3 DEF DeleteSession, TypeOK
  <2>3. tombstone' \subseteq Ids /\ sleeping' \subseteq Ids
    BY <1>3 DEF DeleteSession, TypeOK, ChildrenOf, Failures
  <2>4. children' \subseteq Ids \X Ids
    BY <1>3 DEF DeleteSession, TypeOK, Unlink
  <2>5. deleted_sessions' \subseteq Ids
    BY <1>3 DEF DeleteSession, TypeOK, Marked, ChildrenOf
  <2>6. {x} \cup ChildrenOf(x) \subseteq Ids
    BY DEF ChildrenOf
  <2>7. asked' \subseteq Incarnations /\ deleted' \subseteq Incarnations
    BY <1>3, <2>6, MeantType DEF DeleteSession, TypeOK
  <2> QED BY <1>3, <2>1, <2>2, <2>3, <2>4, <2>5, <2>7 DEF DeleteSession, TypeOK
<1> QED BY <1>1, <1>2, <1>3 DEF ClientCommand

LEMMA DequeueType ==
    ASSUME TypeOK, NEW op, Dequeue(op)
    PROVE  /\ queue' \in Seq(Commands)
           /\ Head(queue) \in Commands
BY DEF TypeOK, Dequeue

LEMMA HandleQueuedType == TypeOK /\ HandleQueued => TypeOK'
<1> SUFFICES ASSUME TypeOK, HandleQueued PROVE TypeOK'
  OBVIOUS
<1>1. CASE HandleUpdateMetadata
  <2>1. queue' \in Seq(Commands) /\ Head(queue) \in Commands
    BY <1>1, DequeueType DEF HandleUpdateMetadata
  <2>2. Head(queue).inc \in Incarnations \cup {Absent} /\ Head(queue).sid \in Ids
    BY <2>1 DEF Commands
  <2> QED BY <1>1, <2>1, <2>2 DEF HandleUpdateMetadata, TypeOK, disk, history
<1>2. CASE HandleSessionExited
  <2>1. queue' \in Seq(Commands) /\ Head(queue) \in Commands
    BY <1>2, DequeueType DEF HandleSessionExited
  <2>2. Head(queue).sid \in Ids
    BY <2>1 DEF Commands
  <2>3. thr' \in [Threads -> ThreadState]
    BY <1>2, SendShutdownType DEF HandleSessionExited
  <2>4. /\ children' \subseteq Ids \X Ids
        /\ sleeping' \subseteq Ids
        /\ finalizers' \subseteq Ids \X {"delete", "clear", "report"}
    BY <1>2, <2>2 DEF HandleSessionExited, TypeOK, Unlink, FallAsleep,
                      StartFinalizer
  <2> QED BY <1>2, <2>1, <2>2, <2>3, <2>4
          DEF HandleSessionExited, TypeOK, disk, history
<1>3. CASE HandleSessionDeleteFinalized
  <2>1. queue' \in Seq(Commands)
    BY <1>3, DequeueType DEF HandleSessionDeleteFinalized
  <2> QED BY <1>3, <2>1 DEF HandleSessionDeleteFinalized, TypeOK, disk, history
<1> QED BY <1>1, <1>2, <1>3 DEF HandleQueued

LEMMA FinalizeType ==
    ASSUME TypeOK, NEW x \in Ids, Finalize(x)
    PROVE  TypeOK'
<1>1. CASE FinalizeDelete(x)
  BY <1>1 DEF FinalizeDelete, TypeOK, memory, history, Outcomes
<1>2. CASE FinalizeClear(x)
  BY <1>2 DEF FinalizeClear, TypeOK, memory, history, Outcomes
<1>3. CASE FinalizeReport(x)
  <2>1. queue' \in Seq(Commands)
    BY <1>3, SendType DEF FinalizeReport
  <2> QED BY <1>3, <2>1 DEF FinalizeReport, TypeOK, disk, memory, history
<1> QED BY <1>1, <1>2, <1>3 DEF Finalize

\* Moving a thread that is in use to another phase, its request flag or its
\* shutdown flag keep its type.
LEMMA AdvanceType ==
    ASSUME NEW r \in ThreadState, r.phase # "free",
           NEW ph \in Phases \ {"free"}, NEW b \in BOOLEAN,
           NEW st \in {"no", "sent", "seen"}
    PROVE  /\ [r EXCEPT !.phase = ph] \in ThreadState
           /\ [r EXCEPT !.busy = b, !.phase = ph] \in ThreadState
           /\ [r EXCEPT !.stop = st, !.phase = ph] \in ThreadState
BY DEF ThreadState

LEMMA ThreadStepType ==
    ASSUME TypeOK, NEW t \in Threads, ThreadStep(t)
    PROVE  TypeOK'
<1>1. /\ thr[t] \in ThreadState
      /\ thr[t].phase # "free" => thr[t].sid \in Ids /\ thr[t].inc \in Incarnations
  BY DEF TypeOK, ThreadState
<1>2. ASSUME WriteRecord(t), thr[t].phase # "free"
      PROVE  record' \in [Ids -> Incarnations \cup {Absent}]
  BY <1>1, <1>2 DEF TypeOK, WriteRecord
<1>12. ASSUME NEW ph \in Phases \ {"free"}, thr[t].phase # "free",
             thr' = [thr EXCEPT ![t].phase = ph]
      PROVE  thr' \in [Threads -> ThreadState]
  BY <1>1, <1>12, AdvanceType DEF TypeOK
<1>3. CASE ThreadStart(t)
  <2>1. queue' \in Seq(Commands)
    BY <1>1, <1>3, SendType DEF ThreadStart, AtPhase
  <2>2. thr' \in [Threads -> ThreadState]
    BY <1>3, <1>12 DEF ThreadStart, AtPhase, Phases
  <2> QED BY <1>3, <2>1, <2>2 DEF ThreadStart, TypeOK, disk, memory, history
<1>4. CASE ThreadRunInput(t)
  BY <1>4 DEF ThreadRunInput, TypeOK, ThreadState, disk, memory, history
<1>5. CASE ThreadPersistMetadata(t)
  <2>1. queue' \in Seq(Commands)
    BY <1>1, <1>5, SendType DEF ThreadPersistMetadata, AtPhase
  <2>2. record' \in [Ids -> Incarnations \cup {Absent}]
    BY <1>2, <1>5 DEF ThreadPersistMetadata, AtPhase
  <2> QED BY <1>5, <2>1, <2>2 DEF ThreadPersistMetadata, TypeOK, memory, history
<1>6. CASE ThreadRequestFinished(t)
  <2>1. queue' \in Seq(Commands)
    BY <1>1, <1>6, SendType DEF ThreadRequestFinished, AtPhase
  <2>2. record' \in [Ids -> Incarnations \cup {Absent}]
    BY <1>2, <1>6 DEF ThreadRequestFinished, AtPhase
  <2>3. thr' \in [Threads -> ThreadState]
    <3>1. PICK leave \in BOOLEAN :
             thr' = [thr EXCEPT ![t].busy = FALSE,
                                ![t].phase = IF leave THEN "leaving" ELSE @]
      BY <1>6 DEF ThreadRequestFinished
    <3> DEFINE ph == IF leave THEN "leaving" ELSE thr[t].phase
    <3>2. ph \in Phases \ {"free"} /\ thr[t].phase # "free"
      BY <1>6 DEF ThreadRequestFinished, AtPhase, Phases
    <3>3. thr' = [thr EXCEPT ![t] = [thr[t] EXCEPT !.busy = FALSE, !.phase = ph]]
      BY <1>1, <3>1 DEF TypeOK, ThreadState
    <3>4. [thr[t] EXCEPT !.busy = FALSE, !.phase = ph] \in ThreadState
      BY <1>1, <3>2, AdvanceType
    <3> QED BY <3>3, <3>4 DEF TypeOK
  <2> QED BY <1>6, <2>1, <2>2, <2>3
          DEF ThreadRequestFinished, TypeOK, memory, history
<1>7. CASE ThreadShutdown(t)
  <2> DEFINE ph == IF thr[t].busy THEN thr[t].phase ELSE "leaving"
  <2>1. ph \in Phases \ {"free"} /\ thr[t].phase # "free"
    BY <1>7 DEF ThreadShutdown, AtPhase, Phases
  <2>2. thr' = [thr EXCEPT ![t] = [thr[t] EXCEPT !.stop = "seen", !.phase = ph]]
    BY <1>1, <1>7 DEF ThreadShutdown, TypeOK, ThreadState
  <2>3. [thr[t] EXCEPT !.stop = "seen", !.phase = ph] \in ThreadState
    BY <1>1, <2>1, AdvanceType
  <2>4. thr' \in [Threads -> ThreadState]
    BY <2>2, <2>3 DEF TypeOK
  <2> QED BY <1>7, <2>4 DEF ThreadShutdown, TypeOK, disk, memory, history
<1>8. CASE ThreadLastDetach(t)
  <2>1. thr' \in [Threads -> ThreadState]
    BY <1>8, <1>12 DEF ThreadLastDetach, AtPhase, Phases
  <2> QED BY <1>8, <2>1 DEF ThreadLastDetach, TypeOK, disk, memory, history
<1>9. CASE ThreadPersist(t)
  <2>1. record' \in [Ids -> Incarnations \cup {Absent}]
    BY <1>2, <1>9 DEF ThreadPersist, AtPhase
  <2>2. thr' \in [Threads -> ThreadState]
    BY <1>9, <1>12 DEF ThreadPersist, AtPhase, Phases
  <2> QED BY <1>9, <2>1, <2>2 DEF ThreadPersist, TypeOK, memory, history
<1>10. CASE ThreadSendExited(t)
  <2>1. queue' \in Seq(Commands)
    BY <1>1, <1>10, SendType DEF ThreadSendExited, AtPhase
  <2>2. thr' \in [Threads -> ThreadState]
    BY <1>10, <1>12 DEF ThreadSendExited, AtPhase, Phases
  <2> QED BY <1>10, <2>1, <2>2 DEF ThreadSendExited, TypeOK, disk, memory, history
<1>11. CASE ThreadFinish(t)
  <2>1. thr' \in [Threads -> ThreadState]
    BY <1>11, <1>12 DEF ThreadFinish, AtPhase, Phases
  <2> QED BY <1>11, <2>1 DEF ThreadFinish, TypeOK, disk, memory, history
<1> QED BY <1>3, <1>4, <1>5, <1>6, <1>7, <1>8, <1>9, <1>10, <1>11
        DEF ThreadStep, ThreadWindDown

\* Every step keeps the types.
LEMMA NextType == TypeOK /\ [Next]_vars => TypeOK'
<1> SUFFICES ASSUME TypeOK, [Next]_vars PROVE TypeOK'
  OBVIOUS
<1>1. CASE Boot
  BY <1>1, BootType
<1>2. CASE ClientCommand
  BY <1>2, ClientCommandType
<1>3. CASE HandleQueued
  BY <1>3, HandleQueuedType
<1>4. ASSUME NEW x \in Ids, Finalize(x) PROVE TypeOK'
  BY <1>4, FinalizeType
<1>5. ASSUME NEW t \in Threads, ThreadStep(t) PROVE TypeOK'
  BY <1>5, ThreadStepType
<1>6. CASE BeginTeardown
  <2>1. thr' \in [Threads -> ThreadState]
    BY <1>6, SendShutdownType DEF BeginTeardown
  <2> QED BY <1>6, <2>1 DEF BeginTeardown, TypeOK, disk, history
<1>7. CASE ProcessEnds
  BY <1>7, ConstantsAssumption DEF ProcessEnds, TypeOK, ThreadState, FreeThread,
     Phases, Ids, Absent, Incarnations, disk, history
<1>8. CASE UNCHANGED vars
  BY <1>8 DEF TypeOK, vars, disk, memory, history
<1> QED BY <1>1, <1>2, <1>3, <1>4, <1>5, <1>6, <1>7, <1>8 DEF Next

\* The state of the daemon, its threads and its database stays well formed:
\* no id, incarnation or command outside its range is ever stored or sent.
THEOREM TypeCorrect == Spec => []TypeOK
<1>1. Init => TypeOK
  BY InitType
<1>2. TypeOK /\ [Next]_vars => TypeOK'
  BY NextType
<1> QED BY <1>1, <1>2, PTL DEF Spec

-----------------------------------------------------------------------------
(* The inductive invariant.                                                *)

\* A thread of the session x that can still write its record.
Served(x) == \E t \in Threads : thr[t].phase \in LivePhases /\ thr[t].sid = x

\* The end of a thread of x, or of its deletion, is still to be handled.
Pending(op, x) == \E k \in DOMAIN queue : queue[k].op = op /\ queue[k].sid = x
Ending(x) == Pending("SessionExited", x) \/ Pending("SessionDeleteFinalized", x)

Finalizing(x) == \E s \in {"delete", "clear", "report"} : <<x, s>> \in finalizers

\* The incarnation i is stored, listed or served under the id x.
Own(i, x) ==
    /\ i # Absent
    /\ \/ record[x] = i
       \/ session_metadata[x] = i
       \/ \E t \in Threads : /\ thr[t].phase # "free"
                             /\ thr[t].sid = x
                             /\ thr[t].inc = i

\* Without a command loop there is nothing but the database.
NothingRuns ==
    mode \in {"down", "boot"} =>
        /\ active_sessions = [x \in Ids |-> NoThread]
        /\ session_metadata = [x \in Ids |-> Absent]
        /\ deleted_sessions = {}
        /\ queue = <<>>
        /\ thr = [t \in Threads |-> FreeThread]
        /\ finalizers = {}

\* An id is in one hand: a thread that lives, its SessionExited in the queue,
\* the finalizer, or the report of the finalizer in the queue.
OneHand ==
    /\ \A x \in Ids :
          /\ Served(x) => ~Ending(x) /\ ~Finalizing(x)
          /\ Ending(x) => ~Finalizing(x)
    /\ \A k, m \in DOMAIN queue :
          /\ queue[k].op # "UpdateMetadata"
          /\ queue[m].op # "UpdateMetadata"
          /\ queue[k].sid = queue[m].sid
          => k = m
    /\ \A x \in Ids : \A r, s \in {"delete", "clear", "report"} :
          <<x, r>> \in finalizers /\ <<x, s>> \in finalizers => r = s

\* active_sessions holds the thread of its id until its SessionExited is
\* handled, and a marked id has no entry.
EntryIsServed ==
    mode = "up" =>
        \A x \in Ids :
            /\ x \in deleted_sessions => ~HasEntry(x)
            /\ HasEntry(x) =>
                  LET t == active_sessions[x] IN
                  /\ thr[t].sid = x
                  /\ thr[t].phase # "free"
                  /\ thr[t].phase \in LivePhases \/ Pending("SessionExited", x)

\* Whatever hand an id is in, an attach is refused: by the active entry or by
\* the marker.
HandIsGuarded ==
    mode = "up" =>
        \A x \in Ids :
            /\ Served(x) \/ Pending("SessionExited", x) =>
                  HasEntry(x) \/ x \in deleted_sessions
            /\ Finalizing(x) \/ Pending("SessionDeleteFinalized", x) =>
                  x \in deleted_sessions

\* An update of the index is followed by the exit of its thread.
UpdateIsFollowed ==
    mode = "up" =>
        \A k \in DOMAIN queue : queue[k].op = "UpdateMetadata" =>
            LET x == queue[k].sid IN
            /\ \/ Served(x)
               \/ \E m \in DOMAIN queue : /\ m > k
                                          /\ queue[m].op = "SessionExited"
                                          /\ queue[m].sid = x
            /\ HasEntry(x) => thr[active_sessions[x]].inc = queue[k].inc

\* An id in use is below the next one to give out.
UsedIsBelow ==
    mode = "up" =>
        \A x \in Ids :
            record[x] # Absent \/ HasEntry(x) \/ x \in deleted_sessions =>
                x < next_session_id

\* An incarnation belongs to one id, and was born.
OneIdEach ==
    /\ \A x, y \in Ids : \A i \in Incarnations : Own(i, x) /\ Own(i, y) => x = y
    /\ \A x \in Ids : \A i \in Incarnations : Own(i, x) => i <= born
    /\ \A i \in deleted : i <= born

\* A thread that may still write a deleted or marked session has its
\* tombstone.
DyingIsCovered ==
    \A t \in Threads :
        /\ thr[t].phase \in LivePhases
        /\ thr[t].inc \in deleted \/ thr[t].sid \in deleted_sessions
        => thr[t].sid \in tombstone

\* Once a finalizer has removed the record it stays removed until the marker
\* is taken away.
FinalizedIsGone ==
    \A x \in Ids :
        \/ <<x, "clear">> \in finalizers
        \/ <<x, "report">> \in finalizers
        \/ Pending("SessionDeleteFinalized", x)
        => record[x] = Absent

\* The purge has every deleted session that is still stored before it.
PurgeVisits ==
    mode = "boot" => \A x \in Ids : record[x] \in deleted => x \in toPurge

SessIInv ==
    /\ TypeOK
    /\ NothingRuns
    /\ OneThreadPerSession
    /\ OneHand
    /\ EntryIsServed
    /\ HandIsGuarded
    /\ UpdateIsFollowed
    /\ UsedIsBelow
    /\ OneIdEach
    /\ NoResurrection
    /\ TombstoneCoversRecord
    /\ DyingIsCovered
    /\ FinalizedIsGone
    /\ PurgeVisits

-----------------------------------------------------------------------------
(* The queue *)

LEMMA AppendFacts ==
    ASSUME NEW q \in Seq(Commands), NEW e \in Commands
    PROVE  /\ Len(q) \in Nat
           /\ DOMAIN q = 1..Len(q)
           /\ DOMAIN Append(q, e) = 1..(Len(q) + 1)
           /\ \A k \in DOMAIN q : Append(q, e)[k] = q[k]
           /\ Append(q, e)[Len(q) + 1] = e
OBVIOUS

LEMMA TailFacts ==
    ASSUME NEW q \in Seq(Commands), q # <<>>
    PROVE  /\ Len(q) \in Nat \ {0}
           /\ DOMAIN q = 1..Len(q)
           /\ DOMAIN Tail(q) = 1..(Len(q) - 1)
           /\ \A k \in 1..(Len(q) - 1) : Tail(q)[k] = q[k + 1]
           /\ Head(q) = q[1]
OBVIOUS

\* What a command sent adds.
LEMMA PendingSent ==
    ASSUME queue \in Seq(Commands), NEW e \in Commands,
           queue' = Append(queue, e), NEW op, NEW x
    PROVE  Pending(op, x)' <=> Pending(op, x) \/ (e.op = op /\ e.sid = x)
<1>1. /\ Len(queue) \in Nat
      /\ DOMAIN queue = 1..Len(queue)
      /\ DOMAIN queue' = 1..(Len(queue) + 1)
      /\ \A k \in DOMAIN queue : queue'[k] = queue[k]
      /\ queue'[Len(queue) + 1] = e
  BY AppendFacts
<1>2. \A k \in DOMAIN queue' : k \in DOMAIN queue \/ k = Len(queue) + 1
  BY <1>1
<1>3. \A k \in DOMAIN queue : k \in DOMAIN queue'
  BY <1>1
<1>4. Len(queue) + 1 \in DOMAIN queue'
  BY <1>1
<1> QED BY <1>1, <1>2, <1>3, <1>4 DEF Pending

\* What a command handled takes away.
LEMMA PendingHandled ==
    ASSUME queue \in Seq(Commands), queue # <<>>, queue' = Tail(queue),
           NEW op, NEW x
    PROVE  /\ Pending(op, x)' => Pending(op, x)
           /\ Pending(op, x) => Pending(op, x)' \/
                                (Head(queue).op = op /\ Head(queue).sid = x)
<1>1. /\ Len(queue) \in Nat \ {0}
      /\ DOMAIN queue = 1..Len(queue)
      /\ DOMAIN queue' = 1..(Len(queue) - 1)
      /\ \A k \in 1..(Len(queue) - 1) : queue'[k] = queue[k + 1]
      /\ Head(queue) = queue[1]
  BY TailFacts
<1>2. ASSUME Pending(op, x)' PROVE Pending(op, x)
  <2>1. PICK k \in DOMAIN queue' : queue'[k].op = op /\ queue'[k].sid = x
    BY <1>2 DEF Pending
  <2>2. k + 1 \in DOMAIN queue /\ queue'[k] = queue[k + 1]
    BY <1>1
  <2> QED BY <2>1, <2>2 DEF Pending
<1>3. ASSUME Pending(op, x), ~(Head(queue).op = op /\ Head(queue).sid = x)
      PROVE  Pending(op, x)'
  <2>1. PICK k \in DOMAIN queue : queue[k].op = op /\ queue[k].sid = x
    BY <1>3 DEF Pending
  <2>2. k # 1
    BY <1>1, <1>3, <2>1
  <2>3. k - 1 \in DOMAIN queue' /\ queue'[k - 1] = queue[k]
    BY <1>1, <2>2
  <2> QED BY <2>1, <2>3 DEF Pending
<1> QED BY <1>2, <1>3

\* The head of the queue is pending, and it is the only command of its kind
\* for its session.
LEMMA HeadOnce ==
    ASSUME queue \in Seq(Commands), queue # <<>>, queue' = Tail(queue), OneHand,
           NEW op, NEW x, op # "UpdateMetadata",
           Head(queue).op = op, Head(queue).sid = x
    PROVE  /\ Pending(op, x)
           /\ ~Ending(x)'
<1>1. /\ Len(queue) \in Nat \ {0}
      /\ DOMAIN queue = 1..Len(queue)
      /\ DOMAIN queue' = 1..(Len(queue) - 1)
      /\ \A k \in 1..(Len(queue) - 1) : queue'[k] = queue[k + 1]
      /\ Head(queue) = queue[1]
  BY TailFacts
<1>2. 1 \in DOMAIN queue
  BY <1>1
<1>3. ASSUME NEW k \in DOMAIN queue', queue'[k].op # "UpdateMetadata",
             queue'[k].sid = x
      PROVE  FALSE
  <2>1. k + 1 \in DOMAIN queue /\ k + 1 # 1 /\ queue'[k] = queue[k + 1]
    BY <1>1
  <2>2. \A m, n \in DOMAIN queue :
          /\ queue[m].op # "UpdateMetadata"
          /\ queue[n].op # "UpdateMetadata"
          /\ queue[m].sid = queue[n].sid
          => m = n
    BY DEF OneHand
  <2> QED BY <1>1, <1>2, <1>3, <2>1, <2>2
<1>4. Pending(op, x)
  BY <1>1, <1>2 DEF Pending
<1>5. ~Ending(x)'
  BY <1>3 DEF Pending, Ending
<1> QED BY <1>4, <1>5

-----------------------------------------------------------------------------
(* Facts every action uses *)

\* A thread that lives has the entry of its session, or the session is marked.
LEMMA LiveHasEntry ==
    ASSUME SessIInv, mode = "up", NEW t \in Threads,
           thr[t].phase \in LivePhases
    PROVE  /\ thr[t].sid \in Ids
           /\ thr[t].inc \in Incarnations
           /\ active_sessions[thr[t].sid] = t \/ thr[t].sid \in deleted_sessions
<1> DEFINE x == thr[t].sid
<1>1. x \in Ids /\ thr[t].inc \in Incarnations
  BY DEF SessIInv, TypeOK, ThreadState, LivePhases
<1>2. Served(x)
  BY DEF Served
<1>3. CASE HasEntry(x)
  <2> DEFINE u == active_sessions[x]
  <2>1. u \in Threads
    BY <1>1, <1>3 DEF HasEntry, SessIInv, TypeOK
  <2>2. thr[u].sid = x /\ (thr[u].phase \in LivePhases \/ Pending("SessionExited", x))
    BY <1>1, <1>3 DEF SessIInv, EntryIsServed
  <2>3. ~Pending("SessionExited", x)
    BY <1>1, <1>2 DEF SessIInv, OneHand, Ending
  <2> HIDE DEF u
  <2>4. u = t
    BY <2>1, <2>2, <2>3 DEF SessIInv, OneThreadPerSession
  <2> QED BY <1>1, <2>4 DEF u
<1>4. CASE ~HasEntry(x)
  <2>1. x \in deleted_sessions
    BY <1>1, <1>2, <1>4 DEF SessIInv, HandIsGuarded
  <2> QED BY <1>1, <2>1
<1> QED BY <1>3, <1>4

\* The incarnations an id stands for are its own.
LEMMA MeantIsOwn ==
    ASSUME SessIInv, mode = "up", NEW x \in Ids, NEW i \in Meant(x)
    PROVE  i \in Incarnations /\ Own(i, x)
<1>1. i # Absent /\ i \in Incarnations
  BY MeantType DEF SessIInv, Meant
<1>2. CASE i = record[x] \/ i = session_metadata[x]
  BY <1>1, <1>2 DEF Own
<1>3. CASE HasEntry(x) /\ i = thr[active_sessions[x]].inc
  <2>1. active_sessions[x] \in Threads
    BY <1>3 DEF HasEntry, SessIInv, TypeOK
  <2>2. thr[active_sessions[x]].sid = x /\ thr[active_sessions[x]].phase # "free"
    BY <1>3 DEF SessIInv, EntryIsServed
  <2> QED BY <1>1, <1>3, <2>1, <2>2 DEF Own
<1> QED BY <1>2, <1>3 DEF Meant

\* A step after which every thread has the session and the incarnation it had,
\* lives exactly if it lived and is free exactly if it was free.
SameThreads ==
    \A u \in Threads :
        /\ thr'[u].sid = thr[u].sid
        /\ thr'[u].inc = thr[u].inc
        /\ thr'[u].phase \in LivePhases <=> thr[u].phase \in LivePhases
        /\ thr'[u].phase = "free" <=> thr[u].phase = "free"

LEMMA SameServed ==
    ASSUME SameThreads, NEW x
    PROVE  Served(x)' <=> Served(x)
BY DEF SameThreads, Served

-----------------------------------------------------------------------------
(* Steps of a session thread *)

\* A thread that lives writes its record, updates the index, or neither.
LEMMA ThreadKeeps ==
    ASSUME SessIInv, TypeOK', Running, SameThreads,
           UNCHANGED <<tombstone, mode, toPurge, memory, finalizers, history>>,
           NEW t \in Threads,
           \/ record' = record
           \/ /\ thr[t].phase \in LivePhases
              /\ record' = [record EXCEPT ![thr[t].sid] = thr[t].inc],
           \/ queue' = queue
           \/ /\ mode = "up"
              /\ thr[t].phase \in LivePhases
              /\ queue' = Append(queue, [op |-> "UpdateMetadata",
                                         sid |-> thr[t].sid, inc |-> thr[t].inc])
    PROVE  SessIInv'
<1> DEFINE e == [op |-> "UpdateMetadata", sid |-> thr[t].sid, inc |-> thr[t].inc]
<1>1. \A x : Served(x)' <=> Served(x)
  BY SameServed
<1>2. thr[t].phase \in LivePhases =>
          thr[t].sid \in Ids /\ thr[t].inc \in Incarnations /\ thr[t].phase # "free"
  BY DEF SessIInv, TypeOK, ThreadState, LivePhases
<1>3. \A op, x : op # "UpdateMetadata" => (Pending(op, x)' <=> Pending(op, x))
  <2>1. CASE queue' = queue
    BY <2>1 DEF Pending
  <2>2. CASE mode = "up" /\ thr[t].phase \in LivePhases /\ queue' = Append(queue, e)
    <3>1. e \in Commands /\ e.op = "UpdateMetadata" /\ queue \in Seq(Commands)
      BY <1>2, <2>2 DEF Commands, SessIInv, TypeOK
    <3> HIDE DEF e
    <3> QED BY <2>2, <3>1, PendingSent
  <2> QED BY <2>1, <2>2
<1>4. /\ \A x : HasEntry(x)' <=> HasEntry(x)
      /\ \A x : Finalizing(x)' <=> Finalizing(x)
      /\ \A x : Ending(x)' <=> Ending(x)
  BY <1>3 DEF HasEntry, Finalizing, memory, Ending
<1>5. \A x \in Ids : \A i : Own(i, x)' => Own(i, x)
  <2> SUFFICES ASSUME NEW x \in Ids, NEW i, Own(i, x)' PROVE Own(i, x)
    OBVIOUS
  <2>1. session_metadata' = session_metadata
    BY DEF memory
  <2>2. CASE \E u \in Threads : /\ thr'[u].phase # "free"
                                 /\ thr'[u].sid = x
                                 /\ thr'[u].inc = i
    BY <2>2 DEF Own, SameThreads
  <2>3. CASE record'[x] = i
    BY <1>2, <2>3 DEF Own, SessIInv, TypeOK
  <2> QED BY <2>1, <2>2, <2>3 DEF Own
<1>6. NothingRuns'
  BY DEF Running, NothingRuns
<1>7. OneThreadPerSession'
  BY DEF SessIInv, OneThreadPerSession, SameThreads
<1>8. OneHand'
  <2>1. \A x \in Ids : /\ Served(x)' => ~Ending(x)' /\ ~Finalizing(x)'
                       /\ Ending(x)' => ~Finalizing(x)'
    BY <1>1, <1>4 DEF SessIInv, OneHand
  <2>2. \A k, m \in DOMAIN queue' :
          /\ queue'[k].op # "UpdateMetadata"
          /\ queue'[m].op # "UpdateMetadata"
          /\ queue'[k].sid = queue'[m].sid
          => k = m
    <3>1. CASE queue' = queue
      BY <3>1 DEF SessIInv, OneHand
    <3>2. CASE mode = "up" /\ thr[t].phase \in LivePhases /\ queue' = Append(queue, e)
      <4>1. e \in Commands /\ e.op = "UpdateMetadata" /\ queue \in Seq(Commands)
        BY <1>2, <3>2 DEF Commands, SessIInv, TypeOK
      <4> HIDE DEF e
      <4>2. /\ Len(queue) \in Nat
            /\ DOMAIN queue = 1..Len(queue)
            /\ DOMAIN queue' = 1..(Len(queue) + 1)
            /\ \A k \in DOMAIN queue : queue'[k] = queue[k]
            /\ queue'[Len(queue) + 1] = e
        BY <3>2, <4>1, AppendFacts
      <4>3. \A k \in DOMAIN queue' : queue'[k].op # "UpdateMetadata" => k \in DOMAIN queue
        BY <4>1, <4>2
      <4> QED BY <4>2, <4>3 DEF SessIInv, OneHand
    <3> QED BY <3>1, <3>2
  <2>3. finalizers' = finalizers
    OBVIOUS
  <2> QED BY <2>1, <2>2, <2>3 DEF SessIInv, OneHand
<1>9. EntryIsServed'
  BY <1>3, <1>4 DEF SessIInv, EntryIsServed, SameThreads, memory, HasEntry, TypeOK
<1>10. HandIsGuarded'
  BY <1>1, <1>3, <1>4 DEF SessIInv, HandIsGuarded, memory
<1>11. UpdateIsFollowed'
  <2> SUFFICES ASSUME mode = "up", NEW k \in DOMAIN queue',
                      queue'[k].op = "UpdateMetadata", NEW x, x = queue'[k].sid
               PROVE  /\ \/ Served(x)'
                         \/ \E m \in DOMAIN queue' :
                               /\ m > k
                               /\ queue'[m].op = "SessionExited"
                               /\ queue'[m].sid = x
                      /\ HasEntry(x)' =>
                            thr'[active_sessions'[x]].inc = queue'[k].inc
    BY DEF UpdateIsFollowed
  <2>1. active_sessions' = active_sessions
    BY DEF memory
  <2>2. x \in Ids
    <3>1. queue' \in Seq(Commands)
      BY DEF TypeOK
    <3>2. queue'[k] \in Commands
      BY <3>1
    <3> QED BY <3>2 DEF Commands
  <2>3. HasEntry(x) => /\ active_sessions[x] \in Threads
                       /\ thr'[active_sessions[x]].inc = thr[active_sessions[x]].inc
    BY <2>2 DEF HasEntry, SessIInv, TypeOK, SameThreads
  <2>4. ASSUME NEW q, q = queue, k \in DOMAIN q, queue'[k] = q[k],
               \A m \in DOMAIN q : m \in DOMAIN queue' /\ queue'[m] = q[m]
        PROVE  /\ \/ Served(x)'
                  \/ \E m \in DOMAIN queue' :
                        /\ m > k
                        /\ queue'[m].op = "SessionExited"
                        /\ queue'[m].sid = x
               /\ HasEntry(x)' =>
                     thr'[active_sessions'[x]].inc = queue'[k].inc
    <3>1. /\ \/ Served(x)
             \/ \E m \in DOMAIN queue : /\ m > k
                                        /\ queue[m].op = "SessionExited"
                                        /\ queue[m].sid = x
          /\ HasEntry(x) => thr[active_sessions[x]].inc = queue[k].inc
      BY <2>4 DEF SessIInv, UpdateIsFollowed
    <3> QED BY <1>1, <1>4, <2>1, <2>3, <2>4, <3>1
  <2>5. CASE queue' = queue
    BY <2>4, <2>5
  <2>6. CASE thr[t].phase \in LivePhases /\ queue' = Append(queue, e)
    <3>1. e \in Commands /\ queue \in Seq(Commands)
      BY <1>2, <2>6 DEF Commands, SessIInv, TypeOK
    <3>2. e.sid = thr[t].sid /\ e.inc = thr[t].inc
      OBVIOUS
    <3> HIDE DEF e
    <3>3. /\ Len(queue) \in Nat
          /\ DOMAIN queue = 1..Len(queue)
          /\ DOMAIN queue' = 1..(Len(queue) + 1)
          /\ \A m \in DOMAIN queue : queue'[m] = queue[m]
          /\ queue'[Len(queue) + 1] = e
      BY <2>6, <3>1, AppendFacts
    <3>4. CASE k \in DOMAIN queue
      BY <2>4, <3>3, <3>4
    <3>5. CASE k = Len(queue) + 1
      <4>1. Served(x)
        BY <2>6, <3>2, <3>3, <3>5 DEF Served
      <4>2. active_sessions[x] = t \/ x \in deleted_sessions
        <5>1. x = thr[t].sid
          BY <3>2, <3>3, <3>5
        <5> QED BY <2>6, <5>1, LiveHasEntry
      <4>3. HasEntry(x) => x \notin deleted_sessions
        BY <2>2 DEF SessIInv, EntryIsServed
      <4> QED BY <1>1, <1>4, <2>1, <2>3, <3>2, <3>3, <3>5, <4>1, <4>2, <4>3
    <3> QED BY <3>3, <3>4, <3>5
  <2> QED BY <2>5, <2>6
<1>12. UsedIsBelow'
  <2> SUFFICES ASSUME mode = "up", NEW x \in Ids,
                      record'[x] # Absent \/ HasEntry(x) \/ x \in deleted_sessions
               PROVE  x < next_session_id
    BY <1>4 DEF UsedIsBelow, memory
  <2>1. record[x] # Absent \/ HasEntry(x) \/ x \in deleted_sessions
    <3>1. CASE thr[t].phase \in LivePhases /\ x = thr[t].sid
      BY <3>1, LiveHasEntry, ConstantsAssumption DEF HasEntry
    <3>2. CASE ~(thr[t].phase \in LivePhases /\ x = thr[t].sid)
      BY <1>2, <3>2 DEF SessIInv, TypeOK
    <3> QED BY <3>1, <3>2
  <2> QED BY <2>1 DEF SessIInv, UsedIsBelow
<1>13. OneIdEach'
  BY <1>5 DEF SessIInv, OneIdEach, history
<1>14. NoResurrection'
  <2> SUFFICES ASSUME mode = "up", NEW x \in Ids
               PROVE  /\ session_metadata[x] \notin deleted
                      /\ HasEntry(x) => thr'[active_sessions[x]].inc \notin deleted
                      /\ x \notin deleted_sessions => record'[x] \notin deleted
    BY <1>4 DEF NoResurrection, memory, history
  <2>1. /\ session_metadata[x] \notin deleted
        /\ HasEntry(x) => thr[active_sessions[x]].inc \notin deleted
        /\ x \notin deleted_sessions => record[x] \notin deleted
    BY DEF SessIInv, NoResurrection
  <2>2. HasEntry(x) => thr'[active_sessions[x]].inc = thr[active_sessions[x]].inc
    BY DEF HasEntry, SessIInv, TypeOK, SameThreads
  <2>3. ASSUME x \notin deleted_sessions PROVE record'[x] \notin deleted
    <3>1. CASE thr[t].phase \in LivePhases /\ x = thr[t].sid
      <4>1. active_sessions[x] = t /\ HasEntry(x)
        BY <2>3, <3>1, LiveHasEntry, ConstantsAssumption DEF HasEntry
      <4> QED BY <2>1, <2>3, <3>1, <4>1 DEF SessIInv, TypeOK
    <3>2. CASE ~(thr[t].phase \in LivePhases /\ x = thr[t].sid)
      BY <1>2, <2>1, <2>3, <3>2 DEF SessIInv, TypeOK
    <3> QED BY <3>1, <3>2
  <2> QED BY <2>1, <2>2, <2>3
<1>15. TombstoneCoversRecord'
  <2> SUFFICES ASSUME NEW x \in Ids, record'[x] \in deleted PROVE x \in tombstone
    BY DEF TombstoneCoversRecord, history
  <2>1. CASE thr[t].phase \in LivePhases /\ x = thr[t].sid
    BY <1>2, <2>1 DEF SessIInv, TypeOK, DyingIsCovered, TombstoneCoversRecord
  <2>2. CASE ~(thr[t].phase \in LivePhases /\ x = thr[t].sid)
    BY <1>2, <2>2 DEF SessIInv, TypeOK, TombstoneCoversRecord
  <2> QED BY <2>1, <2>2
<1>16. DyingIsCovered'
  BY DEF SessIInv, DyingIsCovered, SameThreads, memory, history
<1>17. FinalizedIsGone'
  <2> SUFFICES ASSUME NEW x \in Ids,
                      \/ <<x, "clear">> \in finalizers
                      \/ <<x, "report">> \in finalizers
                      \/ Pending("SessionDeleteFinalized", x)
               PROVE  record'[x] = Absent
    BY <1>3 DEF FinalizedIsGone
  <2>1. record[x] = Absent
    BY DEF SessIInv, FinalizedIsGone
  <2>2. ~Served(x)
    BY DEF SessIInv, OneHand, Ending, Finalizing
  <2>3. ~(thr[t].phase \in LivePhases /\ x = thr[t].sid)
    BY <2>2 DEF Served
  <2> QED BY <1>2, <2>1, <2>3 DEF SessIInv, TypeOK
<1>18. PurgeVisits'
  BY DEF Running, PurgeVisits
<1> QED BY <1>6, <1>7, <1>8, <1>9, <1>10, <1>11, <1>12, <1>13, <1>14, <1>15,
           <1>16, <1>17, <1>18 DEF SessIInv

LEMMA MoveIsSame ==
    ASSUME TypeOK, NEW t \in Threads, NEW r, thr' = [thr EXCEPT ![t] = r],
           r.sid = thr[t].sid, r.inc = thr[t].inc,
           r.phase \in LivePhases <=> thr[t].phase \in LivePhases,
           r.phase = "free" <=> thr[t].phase = "free"
    PROVE  SameThreads
BY DEF TypeOK, SameThreads

LEMMA ThreadMoves ==
    ASSUME SessIInv, NEW t \in Threads,
           ThreadStep(t), ~ThreadSendExited(t)
    PROVE  SessIInv'
<1>1. TypeOK /\ TypeOK'
  BY ThreadStepType DEF SessIInv
<1>2. thr[t] \in ThreadState
  BY DEF SessIInv, TypeOK
<1>3. ASSUME NEW ph \in Phases, thr' = [thr EXCEPT ![t].phase = ph],
             thr[t].phase \in LivePhases <=> ph \in LivePhases,
             thr[t].phase # "free", ph # "free"
      PROVE  SameThreads
  <2>1. thr' = [thr EXCEPT ![t] = [thr[t] EXCEPT !.phase = ph]]
    BY <1>1, <1>2, <1>3 DEF TypeOK
  <2> DEFINE r == [thr[t] EXCEPT !.phase = ph]
  <2>2. r.sid = thr[t].sid /\ r.inc = thr[t].inc /\ r.phase = ph
    BY <1>2 DEF ThreadState
  <2> HIDE DEF r
  <2> QED BY <1>1, <1>3, <2>1, <2>2, MoveIsSame DEF r
<1>4. CASE ThreadStart(t)
  <2>1. SameThreads
    BY <1>3, <1>4 DEF ThreadStart, AtPhase, Phases, LivePhases
  <2>2. thr[t].phase \in LivePhases /\ Running
    BY <1>4 DEF ThreadStart, AtPhase, LivePhases
  <2> QED BY <1>1, <1>4, <2>1, <2>2, ThreadKeeps DEF ThreadStart, Send, disk
<1>5. CASE ThreadRunInput(t)
  <2>1. thr' = [thr EXCEPT ![t] = [thr[t] EXCEPT !.busy = TRUE]]
    BY <1>1, <1>2, <1>5 DEF ThreadRunInput, TypeOK
  <2> DEFINE r == [thr[t] EXCEPT !.busy = TRUE]
  <2>2. r.sid = thr[t].sid /\ r.inc = thr[t].inc /\ r.phase = thr[t].phase
    BY <1>2 DEF ThreadState
  <2> HIDE DEF r
  <2>3. SameThreads
    BY <1>1, <2>1, <2>2, MoveIsSame DEF r
  <2> QED BY <1>1, <1>5, <2>3, ThreadKeeps DEF ThreadRunInput, AtPhase, disk
<1>6. CASE ThreadPersistMetadata(t)
  <2>1. SameThreads
    BY <1>6 DEF ThreadPersistMetadata, SameThreads
  <2>2. thr[t].phase \in LivePhases /\ Running
    BY <1>6 DEF ThreadPersistMetadata, AtPhase, LivePhases
  <2>3. record' = record \/ record' = [record EXCEPT ![thr[t].sid] = thr[t].inc]
    BY <1>6 DEF ThreadPersistMetadata, WriteRecord
  <2> QED BY <1>1, <1>6, <2>1, <2>2, <2>3, ThreadKeeps
          DEF ThreadPersistMetadata, Send
<1>7. CASE ThreadRequestFinished(t)
  <2>1. PICK leave \in BOOLEAN :
           thr' = [thr EXCEPT ![t].busy = FALSE,
                              ![t].phase = IF leave THEN "leaving" ELSE @]
    BY <1>7 DEF ThreadRequestFinished
  <2> DEFINE ph == IF leave THEN "leaving" ELSE thr[t].phase
             r == [thr[t] EXCEPT !.busy = FALSE, !.phase = ph]
  <2>2. thr' = [thr EXCEPT ![t] = r]
    BY <1>1, <1>2, <2>1 DEF TypeOK, ThreadState
  <2>3. thr[t].phase = "running" /\ ph \in {"running", "leaving"}
    BY <1>7 DEF ThreadRequestFinished, AtPhase
  <2>4. r.sid = thr[t].sid /\ r.inc = thr[t].inc /\ r.phase = ph
    BY <1>2 DEF ThreadState
  <2> HIDE DEF r, ph
  <2>5. SameThreads
    BY <1>1, <2>2, <2>3, <2>4, MoveIsSame DEF LivePhases
  <2>6. thr[t].phase \in LivePhases /\ Running
    BY <1>7 DEF ThreadRequestFinished, AtPhase, LivePhases
  <2>7. record' = record \/ record' = [record EXCEPT ![thr[t].sid] = thr[t].inc]
    BY <1>7 DEF ThreadRequestFinished, WriteRecord
  <2> QED BY <1>1, <1>7, <2>5, <2>6, <2>7, ThreadKeeps
          DEF ThreadRequestFinished, Send
<1>8. CASE ThreadShutdown(t)
  <2> DEFINE ph == IF thr[t].busy THEN thr[t].phase ELSE "leaving"
             r == [thr[t] EXCEPT !.stop = "seen", !.phase = ph]
  <2>1. thr' = [thr EXCEPT ![t] = r]
    BY <1>1, <1>2, <1>8 DEF ThreadShutdown, TypeOK, ThreadState
  <2>2. thr[t].phase = "running" /\ ph \in {"running", "leaving"}
    BY <1>8 DEF ThreadShutdown, AtPhase
  <2>3. r.sid = thr[t].sid /\ r.inc = thr[t].inc /\ r.phase = ph
    BY <1>2 DEF ThreadState
  <2> HIDE DEF r, ph
  <2>4. SameThreads
    BY <1>1, <2>1, <2>2, <2>3, MoveIsSame DEF LivePhases
  <2> QED BY <1>1, <1>8, <2>4, ThreadKeeps DEF ThreadShutdown, AtPhase, disk
<1>9. CASE ThreadLastDetach(t)
  <2>1. SameThreads
    BY <1>3, <1>9 DEF ThreadLastDetach, AtPhase, Phases, LivePhases
  <2> QED BY <1>1, <1>9, <2>1, ThreadKeeps DEF ThreadLastDetach, AtPhase, disk
<1>10. CASE ThreadPersist(t)
  <2>1. SameThreads
    BY <1>3, <1>10 DEF ThreadPersist, AtPhase, Phases, LivePhases
  <2>2. thr[t].phase \in LivePhases /\ Running
    BY <1>10 DEF ThreadPersist, AtPhase, LivePhases
  <2>3. record' = record \/ record' = [record EXCEPT ![thr[t].sid] = thr[t].inc]
    BY <1>10 DEF ThreadPersist, WriteRecord
  <2> QED BY <1>1, <1>10, <2>1, <2>2, <2>3, ThreadKeeps DEF ThreadPersist
<1>11. CASE ThreadFinish(t)
  <2>1. SameThreads
    BY <1>3, <1>11 DEF ThreadFinish, AtPhase, Phases, LivePhases
  <2> QED BY <1>1, <1>11, <2>1, ThreadKeeps DEF ThreadFinish, AtPhase, disk
<1> QED BY <1>4, <1>5, <1>6, <1>7, <1>8, <1>9, <1>10, <1>11
        DEF ThreadStep, ThreadWindDown

\* SessionExited: the id passes from the thread to the queue.
LEMMA SendExitedKeeps ==
    ASSUME SessIInv, NEW t \in Threads, ThreadSendExited(t)
    PROVE  SessIInv'
<1> DEFINE y == thr[t].sid
           e == [op |-> "SessionExited", sid |-> y, inc |-> Absent]
<1>1. TypeOK /\ TypeOK'
  BY ThreadStepType DEF SessIInv, ThreadStep, ThreadWindDown
<1>2. /\ thr[t].phase = "persisted" /\ Running
      /\ thr[t].phase \in LivePhases /\ y \in Ids /\ thr[t].inc \in Incarnations
  BY <1>1 DEF ThreadSendExited, AtPhase, TypeOK, ThreadState, LivePhases
<1>3. /\ thr'[t].phase = "exited" /\ thr'[t].sid = y /\ thr'[t].inc = thr[t].inc
      /\ \A u \in Threads \ {t} : thr'[u] = thr[u]
  BY <1>1 DEF ThreadSendExited, TypeOK, ThreadState
<1>4. \A u \in Threads :
          /\ thr'[u].sid = thr[u].sid /\ thr'[u].inc = thr[u].inc
          /\ thr'[u].phase = "free" <=> thr[u].phase = "free"
          /\ thr'[u].phase \in LivePhases <=> thr[u].phase \in LivePhases /\ u # t
  BY <1>2, <1>3 DEF LivePhases
<1>5. UNCHANGED <<disk, mode, toPurge, memory, finalizers, history>>
  BY DEF ThreadSendExited
<1>6. \A x : Served(x)' <=> Served(x) /\ x # y
  BY <1>2, <1>4 DEF Served, SessIInv, OneThreadPerSession
<1>7. /\ Served(y) /\ ~Ending(y) /\ ~Finalizing(y)
  BY <1>2 DEF Served, SessIInv, OneHand
<1>8. /\ e \in Commands /\ e.op = "SessionExited" /\ e.sid = y
      /\ queue \in Seq(Commands)
  BY <1>1, <1>2 DEF Commands, TypeOK
<1>9. \/ mode = "up" /\ queue' = Append(queue, e)
      \/ mode = "stopping" /\ queue' = queue
  BY DEF ThreadSendExited, Send
<1> HIDE DEF e
<1>10. /\ \A x : Pending("SessionExited", x)' <=>
                Pending("SessionExited", x) \/ (mode = "up" /\ x = y)
       /\ \A x : Pending("SessionDeleteFinalized", x)' <=>
                Pending("SessionDeleteFinalized", x)
  <2>1. CASE mode = "up" /\ queue' = Append(queue, e)
    BY <1>8, <2>1, PendingSent
  <2>2. CASE mode = "stopping" /\ queue' = queue
    BY <2>2 DEF Pending
  <2> QED BY <1>9, <2>1, <2>2
<1>11. /\ \A x : HasEntry(x)' <=> HasEntry(x)
       /\ \A x : Finalizing(x)' <=> Finalizing(x)
       /\ \A x : Ending(x)' <=> Ending(x) \/ (mode = "up" /\ x = y)
  BY <1>5, <1>10 DEF HasEntry, Finalizing, memory, Ending
<1>12. NothingRuns'
  BY <1>2, <1>5 DEF Running, NothingRuns
<1>13. OneThreadPerSession'
  BY <1>4 DEF SessIInv, OneThreadPerSession
<1>14. OneHand'
  <2>1. \A x \in Ids : /\ Served(x)' => ~Ending(x)' /\ ~Finalizing(x)'
                       /\ Ending(x)' => ~Finalizing(x)'
    BY <1>6, <1>7, <1>11 DEF SessIInv, OneHand
  <2>2. \A k, m \in DOMAIN queue' :
          /\ queue'[k].op # "UpdateMetadata"
          /\ queue'[m].op # "UpdateMetadata"
          /\ queue'[k].sid = queue'[m].sid
          => k = m
    <3>1. CASE queue' = queue
      BY <3>1 DEF SessIInv, OneHand
    <3>2. CASE queue' = Append(queue, e)
      <4>2. /\ Len(queue) \in Nat
            /\ DOMAIN queue = 1..Len(queue)
            /\ DOMAIN queue' = 1..(Len(queue) + 1)
            /\ \A k \in DOMAIN queue : queue'[k] = queue[k]
            /\ queue'[Len(queue) + 1] = e
        BY <3>2, <1>8, AppendFacts
      <4>3. ASSUME NEW k \in DOMAIN queue, queue[k].op # "UpdateMetadata",
                   queue[k].sid = y
            PROVE  FALSE
        <5>1. queue[k] \in Commands
          BY <1>8
        <5>2. queue[k].op \in {"SessionExited", "SessionDeleteFinalized"}
          BY <4>3, <5>1 DEF Commands
        <5> QED BY <1>7, <4>3, <5>2 DEF Ending, Pending
      <4>4. \A k \in DOMAIN queue' : k \in DOMAIN queue \/ k = Len(queue) + 1
        BY <4>2
      <4> QED BY <1>8, <4>2, <4>3, <4>4 DEF SessIInv, OneHand
    <3> QED BY <1>9, <3>1, <3>2
  <2>3. finalizers' = finalizers
    BY <1>5
  <2> QED BY <2>1, <2>2, <2>3 DEF SessIInv, OneHand
<1>15. EntryIsServed'
  <2> SUFFICES ASSUME mode = "up", NEW x \in Ids
               PROVE  /\ x \in deleted_sessions => ~HasEntry(x)
                      /\ HasEntry(x) =>
                           /\ thr'[active_sessions[x]].sid = x
                           /\ thr'[active_sessions[x]].phase # "free"
                           /\ \/ thr'[active_sessions[x]].phase \in LivePhases
                              \/ Pending("SessionExited", x)'
    BY <1>5, <1>11 DEF EntryIsServed, memory
  <2>1. /\ x \in deleted_sessions => ~HasEntry(x)
        /\ HasEntry(x) =>
             /\ active_sessions[x] \in Threads
             /\ thr[active_sessions[x]].sid = x
             /\ thr[active_sessions[x]].phase # "free"
             /\ \/ thr[active_sessions[x]].phase \in LivePhases
                \/ Pending("SessionExited", x)
    BY <1>1 DEF SessIInv, EntryIsServed, HasEntry, TypeOK
  <2> QED BY <1>4, <1>10, <2>1
<1>16. HandIsGuarded'
  BY <1>2, <1>5, <1>6, <1>7, <1>10, <1>11 DEF SessIInv, HandIsGuarded, memory
<1>17. UpdateIsFollowed'
  <2> SUFFICES ASSUME mode = "up", NEW k \in DOMAIN queue',
                      queue'[k].op = "UpdateMetadata", NEW x, x = queue'[k].sid
               PROVE  /\ \/ Served(x)'
                         \/ \E m \in DOMAIN queue' :
                               /\ m > k
                               /\ queue'[m].op = "SessionExited"
                               /\ queue'[m].sid = x
                      /\ HasEntry(x)' =>
                            thr'[active_sessions'[x]].inc = queue'[k].inc
    BY <1>5 DEF UpdateIsFollowed
  <2>1. /\ Len(queue) \in Nat
        /\ DOMAIN queue = 1..Len(queue)
        /\ DOMAIN queue' = 1..(Len(queue) + 1)
        /\ \A m \in DOMAIN queue : queue'[m] = queue[m]
        /\ queue'[Len(queue) + 1] = e
    BY <1>8, <1>9, AppendFacts
  <2>2. k \in DOMAIN queue /\ queue'[k] = queue[k] /\ k < Len(queue) + 1
        /\ Len(queue) + 1 \in DOMAIN queue'
        /\ \A m \in DOMAIN queue : m \in DOMAIN queue'
    BY <1>8, <2>1
  <2>3. /\ \/ Served(x)
           \/ \E m \in DOMAIN queue : /\ m > k
                                      /\ queue[m].op = "SessionExited"
                                      /\ queue[m].sid = x
        /\ HasEntry(x) => thr[active_sessions[x]].inc = queue[k].inc
    BY <2>2 DEF SessIInv, UpdateIsFollowed
  <2>4. x \in Ids
    <3>1. queue[k] \in Commands
      BY <1>8, <2>2
    <3> QED BY <2>2, <3>1 DEF Commands
  <2>5. HasEntry(x)' => thr'[active_sessions'[x]].inc = queue'[k].inc
    <3>1. HasEntry(x) => active_sessions[x] \in Threads
      BY <1>1, <2>4 DEF HasEntry, TypeOK
    <3> QED BY <1>4, <1>5, <1>11, <2>2, <2>3, <3>1 DEF memory
  <2>6. CASE Served(x) /\ x = y
    BY <1>8, <2>1, <2>2, <2>5, <2>6
  <2>7. CASE Served(x) /\ x # y
    BY <1>6, <2>5, <2>7
  <2>8. CASE \E m \in DOMAIN queue : /\ m > k
                                     /\ queue[m].op = "SessionExited"
                                     /\ queue[m].sid = x
    BY <2>1, <2>2, <2>5, <2>8
  <2> QED BY <2>3, <2>6, <2>7, <2>8
<1>18. UsedIsBelow'
  BY <1>5, <1>11 DEF SessIInv, UsedIsBelow, memory, disk
<1>19. OneIdEach'
  <2>1. \A x \in Ids : \A i : Own(i, x)' => Own(i, x)
    BY <1>4, <1>5 DEF Own, disk, memory
  <2> QED BY <1>5, <2>1 DEF SessIInv, OneIdEach, history
<1>20. NoResurrection'
  <2>1. \A x \in Ids : HasEntry(x) => active_sessions[x] \in Threads
    BY <1>1 DEF HasEntry, TypeOK
  <2> QED BY <1>4, <1>5, <1>11, <2>1
          DEF SessIInv, NoResurrection, memory, disk, history
<1>21. TombstoneCoversRecord'
  BY <1>5 DEF SessIInv, TombstoneCoversRecord, disk, history
<1>22. DyingIsCovered'
  BY <1>4, <1>5 DEF SessIInv, DyingIsCovered, disk, memory, history
<1>23. FinalizedIsGone'
  BY <1>5, <1>10 DEF SessIInv, FinalizedIsGone, disk
<1>24. PurgeVisits'
  BY <1>2, <1>5 DEF Running, PurgeVisits
<1> QED BY <1>1, <1>12, <1>13, <1>14, <1>15, <1>16, <1>17, <1>18, <1>19, <1>20,
           <1>21, <1>22, <1>23, <1>24 DEF SessIInv

-----------------------------------------------------------------------------
(* The command loop handles a queued command *)

LEMMA HandledOrder ==
    ASSUME SessIInv, queue # <<>>, queue' = Tail(queue)
    PROVE  /\ \A k, m \in DOMAIN queue' :
                 /\ queue'[k].op # "UpdateMetadata"
                 /\ queue'[m].op # "UpdateMetadata"
                 /\ queue'[k].sid = queue'[m].sid
                 => k = m
           /\ \A k \in DOMAIN queue' :
                 mode = "up" /\ queue'[k].op = "UpdateMetadata" =>
                    /\ queue'[k].sid \in Ids
                    /\ \/ Served(queue'[k].sid)
                       \/ \E m \in DOMAIN queue' :
                             /\ m > k
                             /\ queue'[m].op = "SessionExited"
                             /\ queue'[m].sid = queue'[k].sid
                    /\ HasEntry(queue'[k].sid) =>
                          thr[active_sessions[queue'[k].sid]].inc = queue'[k].inc
<1>1. queue \in Seq(Commands)
  BY DEF SessIInv, TypeOK
<1>2. /\ Len(queue) \in Nat \ {0}
      /\ DOMAIN queue = 1..Len(queue)
      /\ DOMAIN queue' = 1..(Len(queue) - 1)
      /\ \A k \in 1..(Len(queue) - 1) : queue'[k] = queue[k + 1]
  BY <1>1, TailFacts
<1>3. \A k \in DOMAIN queue' : /\ k \in Nat
                               /\ k + 1 \in DOMAIN queue
                               /\ queue'[k] = queue[k + 1]
  BY <1>2
<1>4. \A k, m \in DOMAIN queue :
          /\ queue[k].op # "UpdateMetadata"
          /\ queue[m].op # "UpdateMetadata"
          /\ queue[k].sid = queue[m].sid
          => k = m
  BY DEF SessIInv, OneHand
<1>5. ASSUME NEW k \in DOMAIN queue', NEW m \in DOMAIN queue',
             queue'[k].op # "UpdateMetadata", queue'[m].op # "UpdateMetadata",
             queue'[k].sid = queue'[m].sid
      PROVE  k = m
  <2>1. k + 1 = m + 1
    BY <1>3, <1>4, <1>5
  <2> QED BY <1>3, <2>1
<1>6. ASSUME NEW k \in DOMAIN queue', mode = "up",
             queue'[k].op = "UpdateMetadata", NEW x, x = queue'[k].sid
      PROVE  /\ x \in Ids
             /\ \/ Served(x)
                \/ \E m \in DOMAIN queue' : /\ m > k
                                            /\ queue'[m].op = "SessionExited"
                                            /\ queue'[m].sid = x
             /\ HasEntry(x) => thr[active_sessions[x]].inc = queue'[k].inc
  <2>1. queue[k + 1] \in Commands
    BY <1>1, <1>3
  <2>2. x \in Ids
    BY <1>3, <1>6, <2>1 DEF Commands
  <2>3. /\ \/ Served(x)
           \/ \E m \in DOMAIN queue : /\ m > k + 1
                                      /\ queue[m].op = "SessionExited"
                                      /\ queue[m].sid = x
        /\ HasEntry(x) => thr[active_sessions[x]].inc = queue[k + 1].inc
    BY <1>3, <1>6 DEF SessIInv, UpdateIsFollowed
  <2>4. ASSUME NEW m \in DOMAIN queue, m > k + 1,
               queue[m].op = "SessionExited", queue[m].sid = x
        PROVE  \E n \in DOMAIN queue' : /\ n > k
                                        /\ queue'[n].op = "SessionExited"
                                        /\ queue'[n].sid = x
    <3>1. /\ m - 1 \in DOMAIN queue' /\ m - 1 > k
          /\ queue'[m - 1] = queue[m]
      BY <1>2, <1>3, <2>4
    <3> QED BY <2>4, <3>1
  <2> QED BY <1>3, <1>6, <2>2, <2>3, <2>4
<1> QED BY <1>5, <1>6

\* The value written to the index is the one of the thread that serves the
\* session.
LEMMA UpdateWritesServed ==
    ASSUME SessIInv, HandleUpdateMetadata
    PROVE  \/ session_metadata' = session_metadata
           \/ \E y \in Ids :
                 /\ HasEntry(y) /\ active_sessions[y] \in Threads
                 /\ thr[active_sessions[y]].sid = y
                 /\ thr[active_sessions[y]].phase # "free"
                 /\ session_metadata' =
                      [session_metadata EXCEPT ![y] = thr[active_sessions[y]].inc]
<1>1. TypeOK /\ TypeOK'
  BY HandleQueuedType DEF SessIInv, HandleQueued
<1>2. /\ mode = "up" /\ queue # <<>> /\ queue' = Tail(queue)
      /\ Head(queue).op = "UpdateMetadata"
      /\ queue \in Seq(Commands)
  BY <1>1 DEF HandleUpdateMetadata, Dequeue, TypeOK
<1>3. PICK y : y = Head(queue).sid
  OBVIOUS
<1>7. y \in Ids
  BY <1>2, <1>3, DequeueType, <1>1 DEF HandleUpdateMetadata, Commands
<1>8. \/ session_metadata' = session_metadata
      \/ /\ HasEntry(y) /\ active_sessions[y] \in Threads
         /\ thr[active_sessions[y]].sid = y
         /\ thr[active_sessions[y]].phase # "free"
         /\ session_metadata' =
              [session_metadata EXCEPT ![y] = thr[active_sessions[y]].inc]
  <2>1. CASE IsDeleted(y)
    BY <1>3, <2>1 DEF HandleUpdateMetadata
  <2>2. CASE ~IsDeleted(y)
    <3>1. session_metadata' = [session_metadata EXCEPT ![y] = Head(queue).inc]
      BY <1>3, <2>2 DEF HandleUpdateMetadata
    <3>2. 1 \in DOMAIN queue /\ Head(queue) = queue[1]
      BY <1>2, TailFacts
    <3>3. /\ Served(y) \/ Pending("SessionExited", y)
          /\ HasEntry(y) => thr[active_sessions[y]].inc = Head(queue).inc
      BY <1>2, <1>3, <3>2 DEF SessIInv, UpdateIsFollowed, Pending
    <3>4. HasEntry(y)
      BY <1>2, <1>7, <2>2, <3>3 DEF SessIInv, HandIsGuarded, IsDeleted
    <3>5. active_sessions[y] \in Threads
      BY <1>1, <1>7, <3>4 DEF HasEntry, TypeOK
    <3>6. thr[active_sessions[y]].sid = y /\ thr[active_sessions[y]].phase # "free"
      BY <1>2, <1>7, <3>4 DEF SessIInv, EntryIsServed
    <3> QED BY <3>1, <3>3, <3>4, <3>5, <3>6
  <2> QED BY <2>1, <2>2
<1> QED BY <1>7, <1>8

LEMMA UpdateMetadataKeeps ==
    ASSUME SessIInv, HandleUpdateMetadata
    PROVE  SessIInv'
<1>1. TypeOK /\ TypeOK'
  BY HandleQueuedType DEF SessIInv, HandleQueued
<1>2. /\ mode = "up" /\ queue # <<>> /\ queue' = Tail(queue)
      /\ Head(queue).op = "UpdateMetadata"
      /\ queue \in Seq(Commands)
  BY <1>1 DEF HandleUpdateMetadata, Dequeue, TypeOK
<1>4. UNCHANGED <<disk, mode, toPurge, next_session_id, active_sessions,
                  deleted_sessions, children, thr, finalizers, history>>
  BY DEF HandleUpdateMetadata
<1>5. /\ \A x : Pending("SessionExited", x)' <=> Pending("SessionExited", x)
      /\ \A x : Pending("SessionDeleteFinalized", x)' <=>
                Pending("SessionDeleteFinalized", x)
  BY <1>2, PendingHandled
<1>6. /\ \A x : HasEntry(x)' <=> HasEntry(x)
      /\ \A x : Finalizing(x)' <=> Finalizing(x)
      /\ \A x : Ending(x)' <=> Ending(x)
      /\ \A x : Served(x)' <=> Served(x)
  BY <1>4, <1>5 DEF HasEntry, Finalizing, Ending, Served
<1>8. \/ session_metadata' = session_metadata
      \/ \E y \in Ids :
            /\ HasEntry(y) /\ active_sessions[y] \in Threads
            /\ thr[active_sessions[y]].sid = y
            /\ thr[active_sessions[y]].phase # "free"
            /\ session_metadata' =
                 [session_metadata EXCEPT ![y] = thr[active_sessions[y]].inc]
  BY UpdateWritesServed
<1>9. session_metadata \in [Ids -> Incarnations \cup {Absent}]
  BY <1>1 DEF TypeOK
<1>10. OneIdEach'
  <2>1. \A x \in Ids : \A i : Own(i, x)' => Own(i, x)
    BY <1>4, <1>8, <1>9 DEF Own, disk
  <2> QED BY <1>4, <2>1 DEF SessIInv, OneIdEach, history
<1>11. NoResurrection'
  <2>1. \A x \in Ids : session_metadata'[x] \notin deleted
    BY <1>2, <1>8, <1>9 DEF SessIInv, NoResurrection
  <2> QED BY <1>2, <1>4, <1>6, <2>1 DEF SessIInv, NoResurrection, disk, history
<1>12. OneHand'
  BY <1>2, <1>4, <1>6, HandledOrder DEF SessIInv, OneHand
<1>13. UpdateIsFollowed'
  BY <1>2, <1>4, <1>6, HandledOrder DEF UpdateIsFollowed
<1>14. NothingRuns' /\ PurgeVisits'
  BY <1>2, <1>4 DEF NothingRuns, PurgeVisits
<1>15. OneThreadPerSession' /\ DyingIsCovered' /\ TombstoneCoversRecord'
  BY <1>4 DEF SessIInv, OneThreadPerSession, DyingIsCovered,
              TombstoneCoversRecord, disk, history
<1>16. EntryIsServed'
  BY <1>2, <1>4, <1>5, <1>6 DEF SessIInv, EntryIsServed
<1>17. HandIsGuarded'
  BY <1>2, <1>4, <1>5, <1>6 DEF SessIInv, HandIsGuarded
<1>18. UsedIsBelow'
  BY <1>2, <1>4, <1>6 DEF SessIInv, UsedIsBelow, disk
<1>19. FinalizedIsGone'
  BY <1>4, <1>5 DEF SessIInv, FinalizedIsGone, disk
<1> QED BY <1>1, <1>10, <1>11, <1>12, <1>13, <1>14, <1>15, <1>16, <1>17, <1>18,
           <1>19 DEF SessIInv

\* A Shutdown command changes no thread's session, nor whether it lives.
LEMMA ShutdownIsSame ==
    ASSUME TypeOK, NEW S, thr' = SendShutdown(S)
    PROVE  SameThreads
<1> SUFFICES ASSUME NEW u \in Threads
             PROVE  /\ thr'[u].sid = thr[u].sid
                    /\ thr'[u].inc = thr[u].inc
                    /\ thr'[u].phase = thr[u].phase
  BY DEF SameThreads
<1>1. thr[u] \in ThreadState
  BY DEF TypeOK
<1>2. thr'[u] = thr[u] \/ thr'[u] = [thr[u] EXCEPT !.stop = Shut(thr[u].stop)]
  BY DEF SendShutdown
<1> QED BY <1>1, <1>2 DEF ThreadState

LEMMA SessionExitedKeeps ==
    ASSUME SessIInv, HandleSessionExited
    PROVE  SessIInv'
<1>1. TypeOK /\ TypeOK'
  BY HandleQueuedType DEF SessIInv, HandleQueued
<1>2. /\ mode = "up" /\ queue # <<>> /\ queue' = Tail(queue)
      /\ Head(queue).op = "SessionExited"
      /\ queue \in Seq(Commands)
  BY <1>1 DEF HandleSessionExited, Dequeue, TypeOK
<1>3. PICK y : y = Head(queue).sid
  OBVIOUS
<1>4. y \in Ids
  BY <1>2, <1>3, DequeueType, <1>1 DEF HandleSessionExited, Commands
<1>5. /\ UNCHANGED <<disk, mode, toPurge, next_session_id, session_metadata,
                     deleted_sessions, history>>
      /\ active_sessions' = [active_sessions EXCEPT ![y] = NoThread]
      /\ finalizers' = StartFinalizer(y)
  BY <1>3 DEF HandleSessionExited
<1>6. SameThreads
  BY <1>1, ShutdownIsSame DEF HandleSessionExited
<1>7. Pending("SessionExited", y) /\ ~Ending(y)'
  BY <1>2, <1>3, HeadOnce DEF SessIInv
<1>8. ~Served(y) /\ ~Finalizing(y)
  BY <1>4, <1>7 DEF SessIInv, OneHand, Ending
<1>9. /\ \A x : Pending("SessionExited", x)' <=> Pending("SessionExited", x) /\ x # y
      /\ \A x : Pending("SessionDeleteFinalized", x)' <=>
                Pending("SessionDeleteFinalized", x) /\ x # y
  <2>1. /\ \A x : Pending("SessionExited", x)' => Pending("SessionExited", x)
        /\ \A x : Pending("SessionDeleteFinalized", x)' =>
                  Pending("SessionDeleteFinalized", x)
        /\ \A x : x # y /\ Pending("SessionExited", x) =>
                  Pending("SessionExited", x)'
        /\ \A x : x # y /\ Pending("SessionDeleteFinalized", x) =>
                  Pending("SessionDeleteFinalized", x)'
    BY <1>2, <1>3, PendingHandled
  <2> QED BY <1>7, <2>1 DEF Ending
<1>10. /\ \A x \in Ids : HasEntry(x)' <=> HasEntry(x) /\ x # y
       /\ \A x : Finalizing(x)' <=>
             Finalizing(x) \/ (x = y /\ y \in deleted_sessions)
       /\ \A x : Ending(x)' <=> Ending(x) /\ x # y
       /\ \A x : Served(x)' <=> Served(x)
  <2>1. \A x \in Ids : HasEntry(x)' <=> HasEntry(x) /\ x # y
    BY <1>1, <1>4, <1>5 DEF HasEntry, TypeOK
  <2>2. \A x : Finalizing(x)' <=>
             Finalizing(x) \/ (x = y /\ y \in deleted_sessions)
    BY <1>5 DEF Finalizing, StartFinalizer
  <2>3. \A x : Ending(x)' <=> Ending(x) /\ x # y
    BY <1>9 DEF Ending
  <2> QED BY <1>6, <2>1, <2>2, <2>3, SameServed
<1>11. /\ \A x \in Ids : x # y => active_sessions'[x] = active_sessions[x]
       /\ \A x \in Ids : HasEntry(x) => active_sessions[x] \in Threads
  BY <1>1, <1>4, <1>5 DEF TypeOK, HasEntry
<1>12. OneHand'
  <2>1. \A x \in Ids : /\ Served(x)' => ~Ending(x)' /\ ~Finalizing(x)'
                       /\ Ending(x)' => ~Finalizing(x)'
    BY <1>8, <1>10 DEF SessIInv, OneHand
  <2>2. \A x \in Ids : \A r, s \in {"delete", "clear", "report"} :
          <<x, r>> \in finalizers' /\ <<x, s>> \in finalizers' => r = s
    BY <1>5, <1>8 DEF StartFinalizer, Finalizing, SessIInv, OneHand
  <2> QED BY <1>2, <2>1, <2>2, HandledOrder DEF OneHand
<1>13. EntryIsServed'
  <2> SUFFICES ASSUME NEW x \in Ids
               PROVE  /\ x \in deleted_sessions => ~HasEntry(x)'
                      /\ HasEntry(x)' =>
                           /\ thr'[active_sessions'[x]].sid = x
                           /\ thr'[active_sessions'[x]].phase # "free"
                           /\ \/ thr'[active_sessions'[x]].phase \in LivePhases
                              \/ Pending("SessionExited", x)'
    BY <1>5 DEF EntryIsServed
  <2>1. /\ x \in deleted_sessions => ~HasEntry(x)
        /\ HasEntry(x) =>
             /\ active_sessions[x] \in Threads
             /\ thr[active_sessions[x]].sid = x
             /\ thr[active_sessions[x]].phase # "free"
             /\ \/ thr[active_sessions[x]].phase \in LivePhases
                \/ Pending("SessionExited", x)
    BY <1>2, <1>11 DEF SessIInv, EntryIsServed
  <2> QED BY <1>6, <1>9, <1>10, <1>11, <2>1 DEF SameThreads
<1>14. HandIsGuarded'
  BY <1>2, <1>5, <1>8, <1>9, <1>10 DEF SessIInv, HandIsGuarded
<1>15. UpdateIsFollowed'
  <2> SUFFICES ASSUME NEW k \in DOMAIN queue',
                      queue'[k].op = "UpdateMetadata", NEW x, x = queue'[k].sid
               PROVE  /\ \/ Served(x)'
                         \/ \E m \in DOMAIN queue' :
                               /\ m > k
                               /\ queue'[m].op = "SessionExited"
                               /\ queue'[m].sid = x
                      /\ HasEntry(x)' =>
                            thr'[active_sessions'[x]].inc = queue'[k].inc
    BY <1>5 DEF UpdateIsFollowed
  <2>1. /\ x \in Ids
        /\ \/ Served(x)
           \/ \E m \in DOMAIN queue' : /\ m > k
                                       /\ queue'[m].op = "SessionExited"
                                       /\ queue'[m].sid = x
        /\ HasEntry(x) => thr[active_sessions[x]].inc = queue'[k].inc
    BY <1>2, HandledOrder
  <2> QED BY <1>6, <1>10, <1>11, <2>1 DEF SameThreads
<1>16. UsedIsBelow'
  BY <1>2, <1>5, <1>10 DEF SessIInv, UsedIsBelow, disk
<1>17. OneIdEach'
  <2>1. \A x \in Ids : \A i : Own(i, x)' => Own(i, x)
    BY <1>5, <1>6 DEF Own, disk, SameThreads
  <2> QED BY <1>5, <2>1 DEF SessIInv, OneIdEach, history
<1>18. NoResurrection'
  BY <1>2, <1>5, <1>6, <1>10, <1>11
     DEF SessIInv, NoResurrection, disk, history, SameThreads
<1>19. FinalizedIsGone'
  BY <1>5, <1>8, <1>9 DEF SessIInv, FinalizedIsGone, disk, StartFinalizer
<1>20. NothingRuns' /\ PurgeVisits'
  BY <1>2, <1>5 DEF NothingRuns, PurgeVisits
<1>21. OneThreadPerSession' /\ DyingIsCovered' /\ TombstoneCoversRecord'
  BY <1>5, <1>6 DEF SessIInv, OneThreadPerSession, DyingIsCovered,
              TombstoneCoversRecord, disk, history, SameThreads
<1> QED BY <1>1, <1>12, <1>13, <1>14, <1>15, <1>16, <1>17, <1>18, <1>19, <1>20,
           <1>21 DEF SessIInv

\* The report of a finalizer: nothing of the session is left, so its marker
\* may go.
LEMMA FinalizedKeeps ==
    ASSUME SessIInv, HandleSessionDeleteFinalized
    PROVE  SessIInv'
<1>1. TypeOK /\ TypeOK'
  BY HandleQueuedType DEF SessIInv, HandleQueued
<1>2. /\ mode = "up" /\ queue # <<>> /\ queue' = Tail(queue)
      /\ Head(queue).op = "SessionDeleteFinalized"
      /\ queue \in Seq(Commands)
  BY <1>1 DEF HandleSessionDeleteFinalized, Dequeue, TypeOK
<1>3. PICK y : y = Head(queue).sid
  OBVIOUS
<1>4. y \in Ids
  BY <1>2, <1>3, DequeueType, <1>1 DEF HandleSessionDeleteFinalized, Commands
<1>5. /\ UNCHANGED <<disk, mode, toPurge, next_session_id, active_sessions,
                     session_metadata, sleeping, children, thr, finalizers,
                     history>>
      /\ deleted_sessions' = deleted_sessions \ {y}
  BY <1>3 DEF HandleSessionDeleteFinalized
<1>6. Pending("SessionDeleteFinalized", y) /\ ~Ending(y)'
  BY <1>2, <1>3, HeadOnce DEF SessIInv
<1>7. ~Served(y) /\ ~Finalizing(y) /\ record[y] = Absent
  BY <1>4, <1>6 DEF SessIInv, OneHand, Ending, FinalizedIsGone
<1>8. /\ \A x : Pending("SessionExited", x)' <=> Pending("SessionExited", x) /\ x # y
      /\ \A x : Pending("SessionDeleteFinalized", x)' <=>
                Pending("SessionDeleteFinalized", x) /\ x # y
  <2>1. /\ \A x : Pending("SessionExited", x)' => Pending("SessionExited", x)
        /\ \A x : Pending("SessionDeleteFinalized", x)' =>
                  Pending("SessionDeleteFinalized", x)
        /\ \A x : x # y /\ Pending("SessionExited", x) =>
                  Pending("SessionExited", x)'
        /\ \A x : x # y /\ Pending("SessionDeleteFinalized", x) =>
                  Pending("SessionDeleteFinalized", x)'
    BY <1>2, <1>3, PendingHandled
  <2> QED BY <1>6, <2>1 DEF Ending
<1>9. /\ \A x : HasEntry(x)' <=> HasEntry(x)
      /\ \A x : Finalizing(x)' <=> Finalizing(x)
      /\ \A x : Ending(x)' <=> Ending(x) /\ x # y
      /\ \A x : Served(x)' <=> Served(x)
  BY <1>5, <1>8 DEF HasEntry, Finalizing, Ending, Served
<1>10. ~HasEntry(y)
  <2>1. y \in deleted_sessions
    BY <1>2, <1>4, <1>6 DEF SessIInv, HandIsGuarded
  <2> QED BY <1>2, <1>4, <2>1 DEF SessIInv, EntryIsServed
<1>11. OneHand'
  BY <1>2, <1>5, <1>9, HandledOrder DEF SessIInv, OneHand
<1>12. EntryIsServed'
  BY <1>2, <1>5, <1>8, <1>9, <1>10 DEF SessIInv, EntryIsServed
<1>13. HandIsGuarded'
  BY <1>2, <1>5, <1>7, <1>8, <1>9 DEF SessIInv, HandIsGuarded
<1>14. UpdateIsFollowed'
  BY <1>2, <1>5, <1>9, HandledOrder DEF UpdateIsFollowed
<1>15. UsedIsBelow'
  BY <1>2, <1>5, <1>9 DEF SessIInv, UsedIsBelow, disk
<1>16. OneIdEach'
  <2>1. \A x \in Ids : \A i : Own(i, x)' => Own(i, x)
    BY <1>5 DEF Own, disk
  <2> QED BY <1>5, <2>1 DEF SessIInv, OneIdEach, history
<1>17. NoResurrection'
  <2>1. Absent \notin deleted
    BY <1>1, ConstantsAssumption DEF TypeOK, Incarnations, Absent
  <2> QED BY <1>2, <1>5, <1>7, <1>9, <2>1 DEF SessIInv, NoResurrection, disk, history
<1>18. FinalizedIsGone'
  BY <1>5, <1>8 DEF SessIInv, FinalizedIsGone, disk
<1>19. NothingRuns' /\ PurgeVisits'
  BY <1>2, <1>5 DEF NothingRuns, PurgeVisits
<1>20. OneThreadPerSession' /\ DyingIsCovered' /\ TombstoneCoversRecord'
  BY <1>5 DEF SessIInv, OneThreadPerSession, DyingIsCovered,
              TombstoneCoversRecord, disk, history
<1> QED BY <1>1, <1>11, <1>12, <1>13, <1>14, <1>15, <1>16, <1>17, <1>18, <1>19,
           <1>20 DEF SessIInv

-----------------------------------------------------------------------------
(* The finalizers *)

LEMMA FinalizeDeleteKeeps ==
    ASSUME SessIInv, NEW y \in Ids, FinalizeDelete(y)
    PROVE  SessIInv'
<1>1. TypeOK /\ TypeOK'
  BY FinalizeType DEF SessIInv, Finalize
<1>2. Running /\ <<y, "delete">> \in finalizers
  BY DEF FinalizeDelete
<1>3. UNCHANGED <<tombstone, mode, toPurge, memory, queue, thr, history>>
  BY DEF FinalizeDelete
<1>4. \/ /\ record' = record
         /\ finalizers' = finalizers \ {<<y, "delete">>}
      \/ /\ record' = [record EXCEPT ![y] = Absent]
         /\ finalizers' = (finalizers \ {<<y, "delete">>}) \cup {<<y, "clear">>}
  BY DEF FinalizeDelete, Outcomes
<1>5. \A s \in {"clear", "report"} : <<y, s>> \notin finalizers
  BY <1>2 DEF SessIInv, OneHand
<1>6. /\ Finalizing(y)
      /\ \A x : Finalizing(x)' => Finalizing(x)
      /\ \A op, x : Pending(op, x)' <=> Pending(op, x)
      /\ \A x : HasEntry(x)' <=> HasEntry(x)
      /\ \A x : Ending(x)' <=> Ending(x)
      /\ \A x : Served(x)' <=> Served(x)
  BY <1>2, <1>3, <1>4 DEF Finalizing, Pending, Ending, HasEntry, Served, memory
<1>7. \A x \in Ids : record'[x] = record[x] \/ (x = y /\ record'[x] = Absent)
  BY <1>1, <1>4 DEF TypeOK
<1>8. Absent \notin deleted
  BY <1>1, ConstantsAssumption DEF TypeOK, Incarnations, Absent
<1>9. OneHand'
  <2>1. \A x \in Ids : \A r, s \in {"delete", "clear", "report"} :
          <<x, r>> \in finalizers' /\ <<x, s>> \in finalizers' => r = s
    BY <1>4, <1>5 DEF SessIInv, OneHand
  <2> QED BY <1>3, <1>6, <2>1 DEF SessIInv, OneHand
<1>10. EntryIsServed' /\ HandIsGuarded' /\ UpdateIsFollowed'
  BY <1>3, <1>6 DEF SessIInv, EntryIsServed, HandIsGuarded, UpdateIsFollowed, memory
<1>11. UsedIsBelow'
  BY <1>3, <1>6, <1>7 DEF SessIInv, UsedIsBelow, memory
<1>12. OneIdEach'
  <2>1. \A x \in Ids : \A i : Own(i, x)' => Own(i, x)
    BY <1>3, <1>7 DEF Own, memory
  <2> QED BY <1>3, <2>1 DEF SessIInv, OneIdEach, history
<1>13. NoResurrection'
  BY <1>3, <1>6, <1>7, <1>8 DEF SessIInv, NoResurrection, memory, history
<1>14. TombstoneCoversRecord'
  BY <1>3, <1>7, <1>8 DEF SessIInv, TombstoneCoversRecord, history
<1>15. FinalizedIsGone'
  <2> SUFFICES ASSUME NEW x \in Ids,
                      \/ <<x, "clear">> \in finalizers'
                      \/ <<x, "report">> \in finalizers'
                      \/ Pending("SessionDeleteFinalized", x)
               PROVE  record'[x] = Absent
    BY <1>6 DEF FinalizedIsGone
  <2>1. CASE x = y
    <3>1. ~Pending("SessionDeleteFinalized", y)
      BY <1>6 DEF SessIInv, OneHand, Ending
    <3> QED BY <1>1, <1>4, <1>5, <2>1, <3>1 DEF TypeOK
  <2>2. CASE x # y
    BY <1>4, <1>7, <2>2 DEF SessIInv, FinalizedIsGone
  <2> QED BY <2>1, <2>2
<1>16. NothingRuns' /\ PurgeVisits'
  BY <1>2, <1>3 DEF NothingRuns, PurgeVisits, Running
<1>17. OneThreadPerSession' /\ DyingIsCovered'
  BY <1>3 DEF SessIInv, OneThreadPerSession, DyingIsCovered, memory, history
<1> QED BY <1>1, <1>9, <1>10, <1>11, <1>12, <1>13, <1>14, <1>15, <1>16, <1>17
        DEF SessIInv

\* The tombstone goes after the record, and no thread is left to write it.
LEMMA FinalizeClearKeeps ==
    ASSUME SessIInv, NEW y \in Ids, FinalizeClear(y)
    PROVE  SessIInv'
<1>1. TypeOK /\ TypeOK'
  BY FinalizeType DEF SessIInv, Finalize
<1>2. Running /\ <<y, "clear">> \in finalizers
  BY DEF FinalizeClear
<1>3. UNCHANGED <<record, mode, toPurge, memory, queue, thr, history>>
  BY DEF FinalizeClear
<1>4. /\ finalizers' = (finalizers \ {<<y, "clear">>}) \cup {<<y, "report">>}
      /\ tombstone' = tombstone \/ tombstone' = tombstone \ {y}
  BY DEF FinalizeClear, Outcomes
<1>5. /\ Finalizing(y)
      /\ \A x : Finalizing(x)' => Finalizing(x)
      /\ \A op, x : Pending(op, x)' <=> Pending(op, x)
      /\ \A x : HasEntry(x)' <=> HasEntry(x)
      /\ \A x : Ending(x)' <=> Ending(x)
      /\ \A x : Served(x)' <=> Served(x)
  BY <1>2, <1>3, <1>4 DEF Finalizing, Pending, Ending, HasEntry, Served, memory
<1>6. /\ record[y] = Absent
      /\ ~Served(y)
      /\ \A s \in {"delete", "report"} : <<y, s>> \notin finalizers
  BY <1>2, <1>5 DEF SessIInv, FinalizedIsGone, OneHand
<1>7. Absent \notin deleted
  BY <1>1, ConstantsAssumption DEF TypeOK, Incarnations, Absent
<1>8. OneHand'
  <2>1. \A x \in Ids : \A r, s \in {"delete", "clear", "report"} :
          <<x, r>> \in finalizers' /\ <<x, s>> \in finalizers' => r = s
    BY <1>4, <1>6 DEF SessIInv, OneHand
  <2> QED BY <1>3, <1>5, <2>1 DEF SessIInv, OneHand
<1>9. EntryIsServed' /\ HandIsGuarded' /\ UpdateIsFollowed'
  BY <1>3, <1>5 DEF SessIInv, EntryIsServed, HandIsGuarded, UpdateIsFollowed, memory
<1>10. UsedIsBelow'
  BY <1>3, <1>5 DEF SessIInv, UsedIsBelow, memory
<1>11. OneIdEach'
  <2>1. \A x \in Ids : \A i : Own(i, x)' => Own(i, x)
    BY <1>3 DEF Own, memory
  <2> QED BY <1>3, <2>1 DEF SessIInv, OneIdEach, history
<1>12. NoResurrection'
  BY <1>3, <1>5 DEF SessIInv, NoResurrection, memory, history
<1>13. TombstoneCoversRecord'
  BY <1>3, <1>4, <1>6, <1>7 DEF SessIInv, TombstoneCoversRecord, history
<1>14. DyingIsCovered'
  BY <1>3, <1>4, <1>6 DEF SessIInv, DyingIsCovered, Served, memory, history
<1>15. FinalizedIsGone'
  BY <1>3, <1>4, <1>5, <1>6 DEF SessIInv, FinalizedIsGone
<1>16. NothingRuns' /\ PurgeVisits'
  BY <1>2, <1>3 DEF NothingRuns, PurgeVisits, Running
<1>17. OneThreadPerSession'
  BY <1>3 DEF SessIInv, OneThreadPerSession
<1> QED BY <1>1, <1>8, <1>9, <1>10, <1>11, <1>12, <1>13, <1>14, <1>15, <1>16,
           <1>17 DEF SessIInv

LEMMA FinalizeReportKeeps ==
    ASSUME SessIInv, NEW y \in Ids, FinalizeReport(y)
    PROVE  SessIInv'
<1> DEFINE e == [op |-> "SessionDeleteFinalized", sid |-> y, inc |-> Absent]
<1>1. TypeOK /\ TypeOK'
  BY FinalizeType DEF SessIInv, Finalize
<1>2. Running /\ <<y, "report">> \in finalizers
  BY DEF FinalizeReport
<1>3. /\ UNCHANGED <<disk, mode, toPurge, memory, thr, history>>
      /\ finalizers' = finalizers \ {<<y, "report">>}
  BY DEF FinalizeReport
<1>4. \/ mode = "up" /\ queue' = Append(queue, e)
      \/ mode = "stopping" /\ queue' = queue
  BY DEF FinalizeReport, Send
<1>5. /\ e \in Commands /\ e.op = "SessionDeleteFinalized" /\ e.sid = y
      /\ queue \in Seq(Commands)
  BY <1>1 DEF Commands, TypeOK
<1> HIDE DEF e
<1>6. /\ record[y] = Absent
      /\ Finalizing(y)
      /\ ~Served(y) /\ ~Ending(y)
      /\ \A s \in {"delete", "clear"} : <<y, s>> \notin finalizers
  BY <1>2 DEF SessIInv, FinalizedIsGone, OneHand, Finalizing
<1>7. /\ \A x : Pending("SessionDeleteFinalized", x)' <=>
                Pending("SessionDeleteFinalized", x) \/ (mode = "up" /\ x = y)
      /\ \A x : Pending("SessionExited", x)' <=> Pending("SessionExited", x)
  <2>1. CASE mode = "up" /\ queue' = Append(queue, e)
    BY <1>5, <2>1, PendingSent
  <2>2. CASE mode = "stopping" /\ queue' = queue
    BY <2>2 DEF Pending
  <2> QED BY <1>4, <2>1, <2>2
<1>8. /\ \A x : Finalizing(x)' => Finalizing(x) /\ x # y
      /\ \A x : HasEntry(x)' <=> HasEntry(x)
      /\ \A x : Ending(x)' <=> Ending(x) \/ (mode = "up" /\ x = y)
      /\ \A x : Served(x)' <=> Served(x)
  <2>1. \A x : Finalizing(x)' => Finalizing(x) /\ x # y
    BY <1>3, <1>6 DEF Finalizing
  <2> QED BY <1>3, <1>7, <2>1 DEF Ending, HasEntry, Served, memory
<1>9. OneHand'
  <2>1. \A x \in Ids : /\ Served(x)' => ~Ending(x)' /\ ~Finalizing(x)'
                       /\ Ending(x)' => ~Finalizing(x)'
    BY <1>6, <1>8 DEF SessIInv, OneHand
  <2>2. \A k, m \in DOMAIN queue' :
          /\ queue'[k].op # "UpdateMetadata"
          /\ queue'[m].op # "UpdateMetadata"
          /\ queue'[k].sid = queue'[m].sid
          => k = m
    <3>1. CASE queue' = queue
      BY <3>1 DEF SessIInv, OneHand
    <3>2. CASE queue' = Append(queue, e)
      <4>2. /\ Len(queue) \in Nat
            /\ DOMAIN queue = 1..Len(queue)
            /\ DOMAIN queue' = 1..(Len(queue) + 1)
            /\ \A k \in DOMAIN queue : queue'[k] = queue[k]
            /\ queue'[Len(queue) + 1] = e
        BY <3>2, <1>5, AppendFacts
      <4>3. ASSUME NEW k \in DOMAIN queue, queue[k].op # "UpdateMetadata",
                   queue[k].sid = y
            PROVE  FALSE
        <5>1. queue[k] \in Commands
          BY <1>5
        <5>2. queue[k].op \in {"SessionExited", "SessionDeleteFinalized"}
          BY <4>3, <5>1 DEF Commands
        <5> QED BY <1>6, <4>3, <5>2 DEF Ending, Pending
      <4>4. \A k \in DOMAIN queue' : k \in DOMAIN queue \/ k = Len(queue) + 1
        BY <4>2
      <4> QED BY <1>5, <4>2, <4>3, <4>4 DEF SessIInv, OneHand
    <3> QED BY <1>4, <3>1, <3>2
  <2> QED BY <1>3, <2>1, <2>2 DEF SessIInv, OneHand
<1>10. EntryIsServed'
  BY <1>3, <1>7, <1>8 DEF SessIInv, EntryIsServed, memory
<1>11. HandIsGuarded'
  BY <1>3, <1>6, <1>7, <1>8 DEF SessIInv, HandIsGuarded, memory
<1>12. UpdateIsFollowed'
  <2>1. CASE queue' = queue
    BY <1>3, <1>8, <2>1 DEF SessIInv, UpdateIsFollowed, memory
  <2>2. CASE queue' = Append(queue, e)
    <3>1. /\ Len(queue) \in Nat
          /\ DOMAIN queue = 1..Len(queue)
          /\ DOMAIN queue' = 1..(Len(queue) + 1)
          /\ \A k \in DOMAIN queue : queue'[k] = queue[k]
          /\ queue'[Len(queue) + 1] = e
      BY <2>2, <1>5, AppendFacts
    <3>2. /\ \A k \in DOMAIN queue' : queue'[k].op = "UpdateMetadata" => k \in DOMAIN queue
          /\ \A k \in DOMAIN queue : k \in DOMAIN queue'
      BY <1>5, <3>1
    <3> QED BY <1>3, <1>8, <3>1, <3>2 DEF SessIInv, UpdateIsFollowed, memory
  <2> QED BY <1>4, <2>1, <2>2
<1>13. UsedIsBelow'
  BY <1>3, <1>8 DEF SessIInv, UsedIsBelow, memory, disk
<1>14. OneIdEach'
  <2>1. \A x \in Ids : \A i : Own(i, x)' => Own(i, x)
    BY <1>3 DEF Own, memory, disk
  <2> QED BY <1>3, <2>1 DEF SessIInv, OneIdEach, history
<1>15. NoResurrection'
  BY <1>3, <1>8 DEF SessIInv, NoResurrection, memory, history, disk
<1>16. FinalizedIsGone'
  BY <1>3, <1>6, <1>7 DEF SessIInv, FinalizedIsGone, disk
<1>17. NothingRuns' /\ PurgeVisits'
  BY <1>2, <1>3 DEF NothingRuns, PurgeVisits, Running
<1>18. OneThreadPerSession' /\ DyingIsCovered' /\ TombstoneCoversRecord'
  BY <1>3 DEF SessIInv, OneThreadPerSession, DyingIsCovered,
              TombstoneCoversRecord, memory, history, disk
<1> QED BY <1>1, <1>9, <1>10, <1>11, <1>12, <1>13, <1>14, <1>15, <1>16, <1>17,
           <1>18 DEF SessIInv

-----------------------------------------------------------------------------
(* The process *)

\* Without threads, queue and finalizers nothing is in any hand.
LEMMA IdleHands ==
    ASSUME TypeOK, active_sessions = [x \in Ids |-> NoThread], queue = <<>>,
           thr = [t \in Threads |-> FreeThread], finalizers = {},
           deleted_sessions = {}
    PROVE  /\ \A x \in Ids : ~HasEntry(x)
           /\ \A x : ~Served(x) /\ ~Ending(x) /\ ~Finalizing(x)
           /\ \A op, x : ~Pending(op, x)
           /\ OneThreadPerSession /\ OneHand /\ EntryIsServed /\ HandIsGuarded
           /\ UpdateIsFollowed /\ DyingIsCovered /\ FinalizedIsGone
<1>1. \A t \in Threads : thr[t].phase = "free" /\ thr[t].phase \notin LivePhases
  BY DEF FreeThread, LivePhases
<1>2. DOMAIN queue = {}
  OBVIOUS
<1>3. /\ \A x \in Ids : ~HasEntry(x)
      /\ \A x : ~Served(x) /\ ~Finalizing(x)
      /\ \A op, x : ~Pending(op, x)
  BY <1>1, <1>2 DEF HasEntry, Served, Finalizing, Pending
<1>4. \A x : ~Ending(x)
  BY <1>3 DEF Ending
<1>5. OneThreadPerSession /\ DyingIsCovered
  BY <1>1 DEF OneThreadPerSession, DyingIsCovered
<1>6. OneHand
  BY <1>2, <1>3, <1>4 DEF OneHand
<1>7. EntryIsServed /\ HandIsGuarded /\ UpdateIsFollowed /\ FinalizedIsGone
  BY <1>2, <1>3 DEF EntryIsServed, HandIsGuarded, UpdateIsFollowed, FinalizedIsGone
<1> QED BY <1>3, <1>4, <1>5, <1>6, <1>7

LEMMA SessInit == Init => SessIInv
<1> SUFFICES ASSUME Init PROVE SessIInv
  OBVIOUS
<1>1. TypeOK
  BY InitType
<1>2. /\ OneThreadPerSession /\ OneHand /\ EntryIsServed /\ HandIsGuarded
      /\ UpdateIsFollowed /\ DyingIsCovered /\ FinalizedIsGone
  BY <1>1, IdleHands DEF Init
<1>3. NothingRuns /\ PurgeVisits /\ UsedIsBelow /\ NoResurrection /\ TombstoneCoversRecord
  BY DEF Init, NothingRuns, PurgeVisits, UsedIsBelow, NoResurrection,
         TombstoneCoversRecord
<1>4. OneIdEach
  <2>1. \A x \in Ids : \A i : ~Own(i, x)
    BY DEF Own, Init, FreeThread
  <2> QED BY <2>1 DEF OneIdEach, Init
<1> QED BY <1>1, <1>2, <1>3, <1>4 DEF SessIInv

LEMMA ProcessEndsKeeps ==
    ASSUME SessIInv, ProcessEnds
    PROVE  SessIInv'
<1>1. TypeOK /\ TypeOK'
  BY NextType DEF SessIInv, Next
<1>2. /\ OneThreadPerSession' /\ OneHand' /\ EntryIsServed' /\ HandIsGuarded'
      /\ UpdateIsFollowed' /\ DyingIsCovered' /\ FinalizedIsGone'
  <2>1. /\ (active_sessions = [x \in Ids |-> NoThread])' /\ (queue = <<>>)'
        /\ (thr = [t \in Threads |-> FreeThread])' /\ (finalizers = {})'
        /\ (deleted_sessions = {})'
    BY DEF ProcessEnds
  <2> QED BY <1>1, <2>1, IdleHands, PTL
<1>3. NothingRuns' /\ PurgeVisits' /\ UsedIsBelow' /\ NoResurrection'
  BY DEF ProcessEnds, NothingRuns, PurgeVisits, UsedIsBelow, NoResurrection
<1>4. TombstoneCoversRecord'
  BY DEF ProcessEnds, SessIInv, TombstoneCoversRecord, disk, history
<1>5. OneIdEach'
  <2>1. \A x \in Ids : \A i : Own(i, x)' => Own(i, x)
    BY DEF Own, ProcessEnds, FreeThread, disk, Absent
  <2> QED BY <2>1 DEF SessIInv, OneIdEach, ProcessEnds, history
<1> QED BY <1>1, <1>2, <1>3, <1>4, <1>5 DEF SessIInv

LEMMA TeardownKeeps ==
    ASSUME SessIInv, BeginTeardown
    PROVE  SessIInv'
<1>1. TypeOK /\ TypeOK'
  BY NextType DEF SessIInv, Next
<1>2. /\ mode' = "stopping"
      /\ UNCHANGED <<disk, toPurge, next_session_id, session_metadata, sleeping,
                     deleted_sessions, children, queue, finalizers, history>>
  BY DEF BeginTeardown
<1>3. SameThreads
  BY <1>1, ShutdownIsSame DEF BeginTeardown
<1>4. /\ \A x : Served(x)' <=> Served(x)
      /\ \A op, x : Pending(op, x)' <=> Pending(op, x)
      /\ \A x : Ending(x)' <=> Ending(x)
      /\ \A x : Finalizing(x)' <=> Finalizing(x)
  BY <1>2, <1>3, SameServed DEF Pending, Ending, Finalizing
<1>5. OneHand'
  BY <1>2, <1>4 DEF SessIInv, OneHand
<1>6. /\ NothingRuns' /\ EntryIsServed' /\ HandIsGuarded' /\ UpdateIsFollowed'
      /\ UsedIsBelow' /\ NoResurrection' /\ PurgeVisits'
  BY <1>2 DEF NothingRuns, EntryIsServed, HandIsGuarded, UpdateIsFollowed,
              UsedIsBelow, NoResurrection, PurgeVisits
<1>7. OneIdEach'
  <2>1. \A x \in Ids : \A i : Own(i, x)' => Own(i, x)
    BY <1>2, <1>3 DEF Own, SameThreads, disk
  <2> QED BY <1>2, <2>1 DEF SessIInv, OneIdEach, history
<1>8. OneThreadPerSession' /\ DyingIsCovered' /\ TombstoneCoversRecord' /\ FinalizedIsGone'
  BY <1>2, <1>3, <1>4 DEF SessIInv, OneThreadPerSession, DyingIsCovered,
     TombstoneCoversRecord, FinalizedIsGone, disk, history, SameThreads
<1> QED BY <1>1, <1>5, <1>6, <1>7, <1>8 DEF SessIInv

\* The failures the guarantees survive: of record writes and removals and of
\* tombstone clears, not of the tombstone write, the boot purge or the load.
Survivable == {"mark", "purge", "load"} \cap Faults = {}

\* A step of the boot changes the database and the mode only; afterwards the
\* index lists what is stored.
LEMMA BootKeeps ==
    ASSUME SessIInv, Survivable, Boot
    PROVE  SessIInv'
<1>1. TypeOK /\ TypeOK'
  BY BootType DEF SessIInv
<1>2. /\ mode \in {"down", "boot"}
      /\ UNCHANGED <<active_sessions, deleted_sessions, children, queue, thr,
                     finalizers, history>>
  BY DEF Boot, StartBoot, PurgeOne, LoadIndex, memory
<1>3. /\ active_sessions = [x \in Ids |-> NoThread]
      /\ session_metadata = [x \in Ids |-> Absent]
      /\ queue = <<>> /\ thr = [t \in Threads |-> FreeThread]
      /\ finalizers = {} /\ deleted_sessions = {}
  BY <1>2 DEF SessIInv, NothingRuns
<1>4. /\ OneThreadPerSession' /\ OneHand' /\ EntryIsServed' /\ HandIsGuarded'
      /\ UpdateIsFollowed' /\ DyingIsCovered' /\ FinalizedIsGone'
  <2>1. /\ (active_sessions = [x \in Ids |-> NoThread])' /\ (queue = <<>>)'
        /\ (thr = [t \in Threads |-> FreeThread])' /\ (finalizers = {})'
        /\ (deleted_sessions = {})'
    BY <1>2, <1>3
  <2> QED BY <1>1, <2>1, IdleHands, PTL
<1>5. \A x \in Ids : ~HasEntry(x)'
  BY <1>2, <1>3 DEF HasEntry
<1>6. Absent \notin deleted
  BY <1>1, ConstantsAssumption DEF TypeOK, Incarnations, Absent
<1>7. ASSUME \A x \in Ids : record'[x] = record[x] \/ record'[x] = Absent,
             \A x \in Ids : \/ session_metadata'[x] = Absent
                            \/ session_metadata'[x] = record[x]
      PROVE  OneIdEach'
  <2>1. \A x \in Ids : \A i : Own(i, x)' => Own(i, x)
    BY <1>2, <1>7 DEF Own
  <2> QED BY <1>2, <2>1 DEF SessIInv, OneIdEach, history
<1>8. CASE StartBoot
  <2>1. /\ mode' = "boot" /\ toPurge' = tombstone
        /\ UNCHANGED <<disk, memory, history>>
    BY <1>8 DEF StartBoot, Outcomes, Survivable
  <2>2. PurgeVisits'
    BY <2>1 DEF SessIInv, TombstoneCoversRecord, PurgeVisits, disk, history
  <2>3. TombstoneCoversRecord'
    BY <2>1 DEF SessIInv, TombstoneCoversRecord, disk, history
  <2>4. NothingRuns' /\ UsedIsBelow' /\ NoResurrection'
    BY <1>2, <1>3, <2>1 DEF NothingRuns, UsedIsBelow, NoResurrection, memory
  <2>5. OneIdEach'
    BY <1>3, <1>7, <2>1 DEF memory, disk
  <2> QED BY <1>1, <1>4, <2>2, <2>3, <2>4, <2>5 DEF SessIInv
<1>9. ASSUME NEW y \in Ids, PurgeOne(y) PROVE SessIInv'
  <2>1. /\ mode = "boot" /\ y \in toPurge /\ toPurge' = toPurge \ {y}
        /\ UNCHANGED <<mode, memory, history>>
        /\ record' = [record EXCEPT ![y] = Absent]
        /\ tombstone' = tombstone \/ tombstone' = tombstone \ {y}
    BY <1>9 DEF PurgeOne, Outcomes, Survivable
  <2>2. \A x \in Ids : IF x = y THEN record'[x] = Absent ELSE record'[x] = record[x]
    BY <1>1, <2>1 DEF TypeOK
  <2>3. PurgeVisits' /\ TombstoneCoversRecord'
    BY <1>6, <2>1, <2>2 DEF SessIInv, TombstoneCoversRecord, PurgeVisits, history
  <2>4. NothingRuns' /\ UsedIsBelow' /\ NoResurrection'
    BY <1>2, <1>3, <2>1 DEF NothingRuns, UsedIsBelow, NoResurrection, memory
  <2>5. OneIdEach'
    BY <1>3, <1>7, <2>1, <2>2 DEF memory
  <2> QED BY <1>1, <1>4, <2>3, <2>4, <2>5 DEF SessIInv
<1>10. CASE LoadIndex
  <2> DEFINE L == {x \in Ids : record[x] # Absent}
  <2>1. /\ mode = "boot" /\ mode' = "up" /\ toPurge = {}
        /\ UNCHANGED <<disk, toPurge, history>>
    BY <1>10 DEF LoadIndex
  <2>2. /\ session_metadata' = [x \in Ids |-> IF x \in L THEN record[x] ELSE Absent]
        /\ next_session_id' = NextId(L)
    <3>1. L \ {} = L
      OBVIOUS
    <3> QED BY <1>10, <3>1 DEF LoadIndex, Failures, Survivable
  <2>3. \A x \in L : x < next_session_id'
    BY <2>2, NextIdType
  <2>4. \A x \in Ids : record[x] \notin deleted
    BY <2>1 DEF SessIInv, PurgeVisits
  <2>5. UsedIsBelow'
    BY <1>2, <1>3, <1>5, <2>1, <2>3 DEF UsedIsBelow, disk
  <2>6. NoResurrection'
    BY <1>5, <1>6, <2>1, <2>2, <2>4 DEF NoResurrection, disk, history
  <2>7. OneIdEach'
    BY <1>7, <2>1, <2>2 DEF disk
  <2>8. NothingRuns' /\ PurgeVisits' /\ TombstoneCoversRecord'
    BY <2>1 DEF SessIInv, NothingRuns, PurgeVisits, TombstoneCoversRecord, disk, history
  <2> QED BY <1>1, <1>4, <2>5, <2>6, <2>7, <2>8 DEF SessIInv
<1> QED BY <1>8, <1>9, <1>10 DEF Boot

-----------------------------------------------------------------------------
(* Commands of clients *)

\* A thread is started only for an id that is in no hand.
LEMMA SpawnKeeps ==
    ASSUME SessIInv, TypeOK', mode = "up",
           NEW y \in Ids, NEW i \in Incarnations, NEW t \in Threads,
           SpawnSession(y, i, t), ~HasEntry(y), y \notin deleted_sessions,
           UNCHANGED <<tombstone, mode, deleted_sessions, queue, finalizers, deleted>>,
           \A x \in Ids \ {y} : record'[x] = record[x],
           record'[y] = record[y] \/ record'[y] = i,
           i \notin deleted, y < next_session_id',
           \A x \in Ids : x < next_session_id => x < next_session_id',
           OneIdEach'
    PROVE  SessIInv'
<1>1. ~Served(y) /\ ~Ending(y) /\ ~Finalizing(y)
  BY DEF SessIInv, HandIsGuarded, Ending
<1>2. /\ thr[t].phase \notin LivePhases
      /\ \A x \in Ids : active_sessions[x] # t
      /\ thr'[t].sid = y /\ thr'[t].inc = i /\ thr'[t].phase = "starting"
      /\ \A u \in Threads \ {t} : thr'[u] = thr[u]
  BY DEF SpawnSession, Reusable, LivePhases, SessIInv, TypeOK
<1>3. /\ thr'[t].phase \in LivePhases /\ thr'[t].phase # "free"
      /\ t # NoThread
  BY <1>2, ConstantsAssumption DEF LivePhases
<1>4. /\ active_sessions'[y] = t /\ session_metadata'[y] = i
      /\ \A x \in Ids \ {y} : /\ active_sessions'[x] = active_sessions[x]
                              /\ session_metadata'[x] = session_metadata[x]
  BY DEF SpawnSession, SessIInv, TypeOK
<1>5. \A x \in Ids : HasEntry(x) => active_sessions[x] \in Threads
  BY DEF HasEntry, SessIInv, TypeOK
<1>6. /\ \A x : Served(x)' <=> Served(x) \/ x = y
      /\ \A x \in Ids : HasEntry(x)' <=> HasEntry(x) \/ x = y
      /\ \A op, x : Pending(op, x)' <=> Pending(op, x)
      /\ \A x : Ending(x)' <=> Ending(x)
      /\ \A x : Finalizing(x)' <=> Finalizing(x)
  <2>1. \A x : Served(x)' <=> Served(x) \/ x = y
    BY <1>2, <1>3 DEF Served
  <2>2. \A x \in Ids : HasEntry(x)' <=> HasEntry(x) \/ x = y
    BY <1>3, <1>4 DEF HasEntry
  <2> QED BY <2>1, <2>2 DEF Pending, Ending, Finalizing
<1>7. OneThreadPerSession'
  BY <1>1, <1>2 DEF SessIInv, OneThreadPerSession, Served
<1>8. OneHand'
  BY <1>1, <1>6 DEF SessIInv, OneHand
<1>9. EntryIsServed'
  <2> SUFFICES ASSUME NEW x \in Ids
               PROVE  /\ x \in deleted_sessions => ~HasEntry(x)'
                      /\ HasEntry(x)' =>
                           /\ thr'[active_sessions'[x]].sid = x
                           /\ thr'[active_sessions'[x]].phase # "free"
                           /\ \/ thr'[active_sessions'[x]].phase \in LivePhases
                              \/ Pending("SessionExited", x)'
    BY DEF EntryIsServed
  <2>1. CASE x = y
    BY <1>2, <1>3, <1>4, <2>1
  <2>2. CASE x # y
    <3>1. /\ x \in deleted_sessions => ~HasEntry(x)
          /\ HasEntry(x) =>
               /\ thr[active_sessions[x]].sid = x
               /\ thr[active_sessions[x]].phase # "free"
               /\ \/ thr[active_sessions[x]].phase \in LivePhases
                  \/ Pending("SessionExited", x)
      BY DEF SessIInv, EntryIsServed
    <3> QED BY <1>2, <1>4, <1>5, <1>6, <2>2, <3>1
  <2> QED BY <2>1, <2>2
<1>10. HandIsGuarded'
  BY <1>6 DEF SessIInv, HandIsGuarded
<1>11. UpdateIsFollowed'
  <2> SUFFICES ASSUME NEW k \in DOMAIN queue, queue[k].op = "UpdateMetadata",
                      NEW x, x = queue[k].sid
               PROVE  /\ \/ Served(x)'
                         \/ \E m \in DOMAIN queue : /\ m > k
                                                    /\ queue[m].op = "SessionExited"
                                                    /\ queue[m].sid = x
                      /\ HasEntry(x)' =>
                            thr'[active_sessions'[x]].inc = queue[k].inc
    BY DEF UpdateIsFollowed
  <2>1. /\ \/ Served(x)
           \/ \E m \in DOMAIN queue : /\ m > k
                                      /\ queue[m].op = "SessionExited"
                                      /\ queue[m].sid = x
        /\ HasEntry(x) => thr[active_sessions[x]].inc = queue[k].inc
    BY DEF SessIInv, UpdateIsFollowed
  <2>2. x # y
    BY <1>1, <2>1 DEF Ending, Pending
  <2>3. x \in Ids
    <3>1. queue[k] \in Commands
      BY DEF SessIInv, TypeOK
    <3> QED BY <3>1 DEF Commands
  <2> QED BY <1>2, <1>4, <1>5, <1>6, <2>1, <2>2, <2>3
<1>12. UsedIsBelow'
  BY <1>6 DEF SessIInv, UsedIsBelow
<1>13. NoResurrection'
  <2> SUFFICES ASSUME NEW x \in Ids
               PROVE  /\ session_metadata'[x] \notin deleted
                      /\ HasEntry(x)' => thr'[active_sessions'[x]].inc \notin deleted
                      /\ x \notin deleted_sessions => record'[x] \notin deleted
    BY DEF NoResurrection
  <2>1. /\ session_metadata[x] \notin deleted
        /\ HasEntry(x) => thr[active_sessions[x]].inc \notin deleted
        /\ x \notin deleted_sessions => record[x] \notin deleted
    BY DEF SessIInv, NoResurrection
  <2>2. CASE x = y
    BY <1>2, <1>4, <2>1, <2>2
  <2>3. CASE x # y
    BY <1>2, <1>4, <1>5, <1>6, <2>1, <2>3
  <2> QED BY <2>2, <2>3
<1>14. TombstoneCoversRecord'
  BY DEF SessIInv, TombstoneCoversRecord
<1>15. DyingIsCovered'
  BY <1>2 DEF SessIInv, DyingIsCovered
<1>16. FinalizedIsGone'
  BY <1>1, <1>6 DEF SessIInv, FinalizedIsGone, Ending, Finalizing
<1>17. NothingRuns' /\ PurgeVisits'
  BY DEF NothingRuns, PurgeVisits
<1> QED BY <1>7, <1>8, <1>9, <1>10, <1>11, <1>12, <1>13, <1>14, <1>15, <1>16,
           <1>17 DEF SessIInv

LEMMA AttachKeeps ==
    ASSUME SessIInv, NEW y \in Ids, NEW t \in Threads, AttachSession(y, t)
    PROVE  SessIInv'
<1>1. TypeOK /\ TypeOK'
  BY ClientCommandType DEF SessIInv, ClientCommand
<1>2. /\ mode = "up" /\ y \notin deleted_sessions /\ ~HasEntry(y)
      /\ record[y] # Absent /\ SpawnSession(y, record[y], t)
      /\ UNCHANGED <<disk, mode, toPurge, next_session_id, deleted_sessions,
                     children, queue, finalizers, history>>
  BY DEF AttachSession, IsDeleted, HasEntry
<1>3. record[y] \in Incarnations /\ record[y] \notin deleted
  BY <1>1, <1>2 DEF TypeOK, SessIInv, NoResurrection
<1>4. y < next_session_id
  BY <1>2 DEF SessIInv, UsedIsBelow
<1>5. OneIdEach'
  <2>1. /\ thr'[t].sid = y /\ thr'[t].inc = record[y]
        /\ \A u \in Threads \ {t} : thr'[u] = thr[u]
        /\ session_metadata'[y] = record[y]
        /\ \A x \in Ids \ {y} : session_metadata'[x] = session_metadata[x]
    BY <1>1, <1>2 DEF SpawnSession, TypeOK
  <2>2. \A x \in Ids : \A i : Own(i, x)' => Own(i, x)
    BY <1>2, <2>1 DEF Own, disk
  <2> QED BY <1>2, <2>2 DEF SessIInv, OneIdEach, history
<1> QED BY <1>1, <1>2, <1>3, <1>4, <1>5, SpawnKeeps DEF disk, history

LEMMA CreateKeeps ==
    ASSUME SessIInv, NEW p \in Ids \cup {0}, NEW t \in Threads,
           CreateSession(p, t)
    PROVE  SessIInv'
<1>1. TypeOK /\ TypeOK'
  BY ClientCommandType DEF SessIInv, ClientCommand
<1>2. PICK y, i : y = next_session_id /\ i = born + 1
  OBVIOUS
<1>3. /\ mode = "up" /\ y \in Ids /\ born < MaxBorn
      /\ next_session_id' = y + 1 /\ born' = i
      /\ SpawnSession(y, i, t)
      /\ UNCHANGED <<tombstone, mode, toPurge, deleted_sessions, queue,
                     finalizers, asked, deleted>>
  BY <1>2 DEF CreateSession
<1>4. record' = record \/ record' = [record EXCEPT ![y] = i]
  BY <1>2 DEF CreateSession
<1>5. i \in Incarnations /\ i \notin deleted /\ ~(i <= born) /\ born \in Nat /\ i \in Nat
  BY <1>1, <1>2, <1>3, ConstantsAssumption
     DEF TypeOK, Incarnations, SessIInv, OneIdEach
<1>6. y \in Nat /\ ~(y < next_session_id) /\ y < next_session_id'
      /\ \A x \in Ids : x < next_session_id => x < next_session_id'
  BY <1>2, <1>3, ConstantsAssumption DEF Ids
<1>7. record[y] = Absent /\ ~HasEntry(y) /\ y \notin deleted_sessions
  BY <1>3, <1>6 DEF SessIInv, UsedIsBelow
<1>8. \A x \in Ids \ {y} : record'[x] = record[x]
  BY <1>1, <1>4 DEF TypeOK
<1>9. record'[y] = record[y] \/ record'[y] = i
  BY <1>1, <1>3, <1>4 DEF TypeOK
<1>10. OneIdEach'
  <2>1. /\ thr'[t].sid = y /\ thr'[t].inc = i
        /\ \A u \in Threads \ {t} : thr'[u] = thr[u]
        /\ session_metadata'[y] = i
        /\ \A x \in Ids \ {y} : session_metadata'[x] = session_metadata[x]
    BY <1>1, <1>3 DEF SpawnSession, TypeOK
  <2>2. \A x \in Ids : \A j : Own(j, x)' => Own(j, x) \/ (j = i /\ x = y)
    BY <1>8, <1>9, <2>1 DEF Own
  <2>3. \A x \in Ids : \A j \in Incarnations : Own(j, x) => j # i
    BY <1>5 DEF SessIInv, OneIdEach
  <2>4. \A x, z \in Ids : \A j \in Incarnations : Own(j, x)' /\ Own(j, z)' => x = z
    BY <2>2, <2>3 DEF SessIInv, OneIdEach
  <2>5. \A x \in Ids : \A j \in Incarnations : Own(j, x)' => j <= born'
    <3> SUFFICES ASSUME NEW x \in Ids, NEW j \in Incarnations, Own(j, x)'
                 PROVE  j <= i
      BY <1>3
    <3>1. j <= born \/ j = i
      BY <2>2 DEF SessIInv, OneIdEach
    <3>2. j \in Nat
      BY DEF Incarnations
    <3> QED BY <1>2, <1>5, <3>1, <3>2
  <2>6. \A j \in deleted' : j <= born'
    <3> SUFFICES ASSUME NEW j \in deleted PROVE j <= i
      BY <1>3
    <3>1. j <= born /\ j \in Nat
      BY <1>1 DEF SessIInv, OneIdEach, TypeOK, Incarnations
    <3> QED BY <1>2, <1>5, <3>1
  <2> QED BY <2>4, <2>5, <2>6 DEF OneIdEach
<1> QED BY <1>1, <1>3, <1>5, <1>6, <1>7, <1>8, <1>9, <1>10, SpawnKeeps

\* DeleteSession: whatever hand each of the sessions is in, it keeps its guard
\* and, while a thread may still write it, its tombstone.
LEMMA DeleteKeeps ==
    ASSUME SessIInv, Survivable, NEW y \in Ids, DeleteSession(y)
    PROVE  SessIInv'
<1>1. TypeOK /\ TypeOK'
  BY ClientCommandType DEF SessIInv, ClientCommand
<1> DEFINE T == {y} \cup ChildrenOf(y)
           live == {z \in T : IsLive(z)}
<1>2. PICK delFail \in Failures("delete", T \ live),
           clearFail \in Failures("clear", T \ live) :
         LET removed == (T \ live) \ delFail
             gone == live \cup removed
         IN
         /\ record' = [z \in Ids |-> IF z \in removed THEN Absent ELSE record[z]]
         /\ tombstone' = (tombstone \cup live) \ (Swept(removed) \ clearFail)
         /\ session_metadata' = [z \in Ids |-> IF z \in gone THEN Absent
                                               ELSE session_metadata[z]]
         /\ deleted' = deleted \cup UNION {Meant(z) : z \in gone}
  <2>1. PICK delFail \in Failures("delete", T \ live),
             markFail \in Failures("mark", live),
             clearFail \in Failures("clear", T \ live) :
         LET removed == (T \ live) \ delFail
             gone == live \cup removed
         IN
         /\ record' = [z \in Ids |-> IF z \in removed THEN Absent ELSE record[z]]
         /\ tombstone' = (tombstone \cup (live \ markFail))
                            \ (Swept(removed) \ clearFail)
         /\ session_metadata' = [z \in Ids |-> IF z \in gone THEN Absent
                                               ELSE session_metadata[z]]
         /\ deleted' = deleted \cup UNION {Meant(z) : z \in gone}
    BY DEF DeleteSession
  <2>2. markFail = {}
    BY DEF Failures, Survivable
  <2>3. live \ markFail = live
    BY <2>2
  <2> HIDE DEF live, T
  <2> QED BY <2>1, <2>3
<1> DEFINE removed == (T \ live) \ delFail
           gone == live \cup removed
<1>3. /\ mode = "up" /\ mode' = "up" /\ queue' = queue /\ finalizers' = finalizers
      /\ next_session_id' = next_session_id /\ born' = born /\ toPurge' = toPurge
      /\ deleted_sessions' = deleted_sessions \cup Marked(T)
      /\ active_sessions' = [z \in Ids |-> IF z \in T THEN NoThread
                                           ELSE active_sessions[z]]
  BY DEF DeleteSession
<1>4. SameThreads
  BY <1>1, ShutdownIsSame DEF DeleteSession
<1>5. /\ T \subseteq Ids
      /\ \A x \in T : x \in live <=> IsLive(x)
      /\ \A x \in T : x \in Marked(T) <=> HasEntry(x)
      /\ live \subseteq T /\ Marked(T) \subseteq T
      /\ \A x \in live : HasEntry(x)
      /\ removed \subseteq T /\ live \cap removed = {}
  BY DEF ChildrenOf, Marked, IsLive
<1>6. /\ \A x \in Ids : record'[x] = IF x \in removed THEN Absent ELSE record[x]
      /\ \A x \in Ids : session_metadata'[x] =
                           IF x \in gone THEN Absent ELSE session_metadata[x]
      /\ \A x \in Ids : active_sessions'[x] =
                           IF x \in T THEN NoThread ELSE active_sessions[x]
  BY <1>2, <1>3
<1>7. /\ \A x \in live : x \in tombstone'
      /\ \A x \in tombstone : x \notin removed => x \in tombstone'
      /\ \A x \in tombstone : ~HasEntry(x) /\ x \in deleted_sessions => x \in tombstone'
  BY <1>2, <1>5 DEF Swept
<1>8. /\ deleted \subseteq deleted'
      /\ \A i \in deleted' : i \in deleted \/ \E z \in gone : i \in Meant(z)
  BY <1>2
<1> HIDE DEF T, live, removed, gone
<1>9. Absent \notin deleted' /\ Absent \notin deleted
  BY <1>1, ConstantsAssumption DEF TypeOK, Incarnations, Absent
<1>10. gone \subseteq Ids
  BY <1>5 DEF gone
<1>11. \A i \in deleted' : i \in deleted \/ \E z \in gone : i \in Incarnations /\ Own(i, z)
  BY <1>3, <1>8, <1>10, MeantIsOwn
<1>12. \A x \in Ids : \A i \in deleted' : Own(i, x) => i \in deleted \/ x \in gone
  BY <1>10, <1>11 DEF SessIInv, OneIdEach
<1>13. /\ \A x : Served(x)' <=> Served(x)
       /\ \A x \in Ids : HasEntry(x)' <=> HasEntry(x) /\ x \notin T
       /\ \A op, x : Pending(op, x)' <=> Pending(op, x)
       /\ \A x : Ending(x)' <=> Ending(x)
       /\ \A x : Finalizing(x)' <=> Finalizing(x)
  <2>1. \A x \in Ids : HasEntry(x)' <=> HasEntry(x) /\ x \notin T
    BY <1>6 DEF HasEntry
  <2> QED BY <1>3, <1>4, <2>1, SameServed DEF Pending, Ending, Finalizing
<1>14. /\ \A x \in Ids : x \notin T => active_sessions'[x] = active_sessions[x]
       /\ \A x \in Ids : HasEntry(x) => active_sessions[x] \in Threads
  BY <1>1, <1>6 DEF TypeOK, HasEntry
<1>15. /\ \A x \in T : HasEntry(x) => x \in deleted_sessions'
       /\ \A x \in deleted_sessions' :
             x \in deleted_sessions \/ (x \in T /\ HasEntry(x))
       /\ \A x \in deleted_sessions : x \in deleted_sessions'
  BY <1>3, <1>5
<1>16. OneThreadPerSession'
  BY <1>4 DEF SessIInv, OneThreadPerSession, SameThreads
<1>17. OneHand'
  BY <1>3, <1>13 DEF SessIInv, OneHand
<1>18. EntryIsServed'
  <2> SUFFICES ASSUME NEW x \in Ids
               PROVE  /\ x \in deleted_sessions' => ~HasEntry(x)'
                      /\ HasEntry(x)' =>
                           /\ thr'[active_sessions'[x]].sid = x
                           /\ thr'[active_sessions'[x]].phase # "free"
                           /\ \/ thr'[active_sessions'[x]].phase \in LivePhases
                              \/ Pending("SessionExited", x)'
    BY DEF EntryIsServed
  <2>1. /\ x \in deleted_sessions => ~HasEntry(x)
        /\ HasEntry(x) =>
             /\ thr[active_sessions[x]].sid = x
             /\ thr[active_sessions[x]].phase # "free"
             /\ \/ thr[active_sessions[x]].phase \in LivePhases
                \/ Pending("SessionExited", x)
    BY <1>3 DEF SessIInv, EntryIsServed
  <2> QED BY <1>4, <1>13, <1>14, <1>15, <2>1 DEF SameThreads
<1>19. HandIsGuarded'
  <2> SUFFICES ASSUME NEW x \in Ids
               PROVE  /\ Served(x) \/ Pending("SessionExited", x) =>
                            HasEntry(x)' \/ x \in deleted_sessions'
                      /\ Finalizing(x) \/ Pending("SessionDeleteFinalized", x) =>
                            x \in deleted_sessions'
    BY <1>13 DEF HandIsGuarded
  <2>1. /\ Served(x) \/ Pending("SessionExited", x) =>
              HasEntry(x) \/ x \in deleted_sessions
        /\ Finalizing(x) \/ Pending("SessionDeleteFinalized", x) =>
              x \in deleted_sessions
    BY <1>3 DEF SessIInv, HandIsGuarded
  <2> QED BY <1>13, <1>15, <2>1
<1>20. UpdateIsFollowed'
  <2> SUFFICES ASSUME NEW k \in DOMAIN queue, queue[k].op = "UpdateMetadata",
                      NEW x, x = queue[k].sid
               PROVE  /\ \/ Served(x)'
                         \/ \E m \in DOMAIN queue : /\ m > k
                                                    /\ queue[m].op = "SessionExited"
                                                    /\ queue[m].sid = x
                      /\ HasEntry(x)' =>
                            thr'[active_sessions'[x]].inc = queue[k].inc
    BY <1>3 DEF UpdateIsFollowed
  <2>1. /\ \/ Served(x)
           \/ \E m \in DOMAIN queue : /\ m > k
                                      /\ queue[m].op = "SessionExited"
                                      /\ queue[m].sid = x
        /\ HasEntry(x) => thr[active_sessions[x]].inc = queue[k].inc
    BY <1>3 DEF SessIInv, UpdateIsFollowed
  <2>2. x \in Ids
    <3>1. queue[k] \in Commands
      BY <1>1 DEF TypeOK
    <3> QED BY <3>1 DEF Commands
  <2> QED BY <1>4, <1>13, <1>14, <2>1, <2>2 DEF SameThreads
<1>21. UsedIsBelow'
  BY <1>3, <1>6, <1>13, <1>15 DEF SessIInv, UsedIsBelow
<1>22. OneIdEach'
  <2>1. \A x \in Ids : \A i : Own(i, x)' => Own(i, x)
    BY <1>4, <1>6 DEF Own, SameThreads
  <2>2. \A i \in deleted' : i <= born
    BY <1>10, <1>11 DEF SessIInv, OneIdEach
  <2> QED BY <1>3, <2>1, <2>2 DEF SessIInv, OneIdEach
<1>23. NoResurrection'
  <2> SUFFICES ASSUME NEW x \in Ids
               PROVE  /\ session_metadata'[x] \notin deleted'
                      /\ HasEntry(x)' => thr'[active_sessions'[x]].inc \notin deleted'
                      /\ x \notin deleted_sessions' => record'[x] \notin deleted'
    BY DEF NoResurrection
  <2>1. /\ session_metadata[x] \notin deleted
        /\ HasEntry(x) => thr[active_sessions[x]].inc \notin deleted
        /\ x \notin deleted_sessions => record[x] \notin deleted
    BY <1>3 DEF SessIInv, NoResurrection
  <2>2. session_metadata'[x] \notin deleted'
    <3>1. CASE x \in gone
      BY <1>6, <1>9, <3>1
    <3>2. CASE x \notin gone
      <4>1. session_metadata[x] # Absent => Own(session_metadata[x], x)
        BY DEF Own
      <4> QED BY <1>6, <1>9, <1>12, <2>1, <3>2, <4>1
    <3> QED BY <3>1, <3>2
  <2>3. ASSUME HasEntry(x)' PROVE thr'[active_sessions'[x]].inc \notin deleted'
    <3>1. HasEntry(x) /\ x \notin T /\ x \notin gone
      BY <1>5, <1>13, <2>3 DEF gone
    <3>2. /\ active_sessions'[x] = active_sessions[x]
          /\ active_sessions[x] \in Threads
          /\ thr'[active_sessions[x]].inc = thr[active_sessions[x]].inc
      BY <1>4, <1>14, <3>1 DEF SameThreads
    <3>3. thr[active_sessions[x]].inc # Absent => Own(thr[active_sessions[x]].inc, x)
      BY <1>3, <3>1, <3>2 DEF Own, SessIInv, EntryIsServed
    <3> QED BY <1>9, <1>12, <2>1, <3>1, <3>2, <3>3
  <2>4. ASSUME x \notin deleted_sessions' PROVE record'[x] \notin deleted'
    <3>1. CASE x \in removed
      BY <1>6, <1>9, <3>1
    <3>2. CASE x \notin removed
      <4>1. x \notin gone /\ x \notin deleted_sessions
        BY <1>5, <1>15, <2>4, <3>2 DEF gone
      <4>2. record[x] # Absent => Own(record[x], x)
        BY DEF Own
      <4> QED BY <1>6, <1>9, <1>12, <2>1, <3>2, <4>1, <4>2
    <3> QED BY <3>1, <3>2
  <2> QED BY <2>2, <2>3, <2>4
<1>24. TombstoneCoversRecord'
  <2> SUFFICES ASSUME NEW x \in Ids, record'[x] \in deleted' PROVE x \in tombstone'
    BY DEF TombstoneCoversRecord
  <2>1. x \notin removed /\ record[x] \in deleted' /\ record[x] # Absent
    BY <1>6, <1>9
  <2>2. Own(record[x], x)
    BY <2>1 DEF Own
  <2>3. CASE x \in gone
    BY <1>7, <2>1, <2>3 DEF gone
  <2>4. CASE record[x] \in deleted
    BY <1>7, <2>1, <2>4 DEF SessIInv, TombstoneCoversRecord
  <2> QED BY <1>12, <2>1, <2>2, <2>3, <2>4
<1>25. DyingIsCovered'
  <2> SUFFICES ASSUME NEW u \in Threads, thr[u].phase \in LivePhases,
                      NEW x, x = thr[u].sid,
                      thr[u].inc \in deleted' \/ x \in deleted_sessions'
               PROVE  x \in tombstone'
    BY <1>4 DEF DyingIsCovered, SameThreads
  <2>1. /\ x \in Ids /\ thr[u].inc \in Incarnations
        /\ active_sessions[x] = u \/ x \in deleted_sessions
    BY <1>3, LiveHasEntry
  <2>2. CASE x \in deleted_sessions
    <3>1. x \in tombstone /\ ~HasEntry(x)
      BY <1>3, <2>1, <2>2 DEF SessIInv, DyingIsCovered, EntryIsServed
    <3> QED BY <1>7, <2>2, <3>1
  <2>3. CASE x \notin deleted_sessions /\ active_sessions[x] = u
    <3>1. HasEntry(x) /\ IsLive(x)
      BY <2>3, ConstantsAssumption DEF HasEntry, IsLive, IsFinished, LivePhases
    <3>2. thr[u].inc \notin deleted
      BY <1>3, <2>1, <2>3, <3>1 DEF SessIInv, NoResurrection
    <3>3. Own(thr[u].inc, x)
      BY <2>1, ConstantsAssumption DEF Own, LivePhases, Incarnations, Absent
    <3>4. x \in T
      <4>1. CASE x \in deleted_sessions'
        BY <1>15, <2>3, <4>1
      <4>2. CASE thr[u].inc \in deleted'
        <5>1. x \in gone
          BY <1>12, <2>1, <3>2, <3>3, <4>2
        <5> QED BY <1>5, <5>1 DEF gone
      <4> QED BY <4>1, <4>2
    <3>5. x \in live
      BY <1>5, <3>1, <3>4
    <3> QED BY <1>7, <3>5
  <2> QED BY <2>1, <2>2, <2>3
<1>26. FinalizedIsGone'
  BY <1>3, <1>6, <1>13 DEF SessIInv, FinalizedIsGone
<1>27. NothingRuns' /\ PurgeVisits'
  BY <1>3 DEF NothingRuns, PurgeVisits
<1> QED BY <1>1, <1>16, <1>17, <1>18, <1>19, <1>20, <1>21, <1>22, <1>23, <1>24,
           <1>25, <1>26, <1>27 DEF SessIInv

-----------------------------------------------------------------------------
(* The results *)

LEMMA SessStep ==
    ASSUME SessIInv, Survivable, [Next]_vars
    PROVE  SessIInv'
<1>1. CASE Boot
  BY <1>1, BootKeeps
<1>2. CASE ClientCommand
  BY <1>2, CreateKeeps, AttachKeeps, DeleteKeeps DEF ClientCommand
<1>3. CASE HandleQueued
  BY <1>3, UpdateMetadataKeeps, SessionExitedKeeps, FinalizedKeeps DEF HandleQueued
<1>4. ASSUME NEW x \in Ids, Finalize(x) PROVE SessIInv'
  BY <1>4, FinalizeDeleteKeeps, FinalizeClearKeeps, FinalizeReportKeeps DEF Finalize
<1>5. ASSUME NEW t \in Threads, ThreadStep(t) PROVE SessIInv'
  BY <1>5, ThreadMoves, SendExitedKeeps
<1>6. CASE BeginTeardown
  BY <1>6, TeardownKeeps
<1>7. CASE ProcessEnds
  BY <1>7, ProcessEndsKeeps
<1>8. CASE UNCHANGED vars
  <2>1. TypeOK'
    BY NextType DEF SessIInv
  <2>2. /\ \A x : Served(x)' <=> Served(x)
        /\ \A x : HasEntry(x)' <=> HasEntry(x)
        /\ \A op, x : Pending(op, x)' <=> Pending(op, x)
        /\ \A x : Ending(x)' <=> Ending(x)
        /\ \A x : Finalizing(x)' <=> Finalizing(x)
        /\ \A i, x : Own(i, x)' <=> Own(i, x)
    BY <1>8 DEF vars, disk, memory, Served, HasEntry, Pending, Ending, Finalizing, Own
  <2>3. /\ NothingRuns' /\ OneThreadPerSession' /\ OneHand' /\ EntryIsServed'
        /\ HandIsGuarded' /\ UpdateIsFollowed' /\ UsedIsBelow'
    BY <1>8, <2>2 DEF vars, disk, memory, SessIInv, NothingRuns,
       OneThreadPerSession, OneHand, EntryIsServed, HandIsGuarded,
       UpdateIsFollowed, UsedIsBelow
  <2>4. /\ OneIdEach' /\ NoResurrection' /\ TombstoneCoversRecord'
        /\ DyingIsCovered' /\ FinalizedIsGone' /\ PurgeVisits'
    BY <1>8, <2>2 DEF vars, disk, memory, history, SessIInv, OneIdEach,
       NoResurrection, TombstoneCoversRecord, DyingIsCovered, FinalizedIsGone,
       PurgeVisits
  <2> QED BY <2>1, <2>3, <2>4 DEF SessIInv
<1> QED BY <1>1, <1>2, <1>3, <1>4, <1>5, <1>6, <1>7, <1>8 DEF Next

LEMMA SessInvariant == ASSUME Survivable PROVE Spec => []SessIInv
<1>1. SessIInv /\ [Next]_vars => SessIInv'
  BY SessStep
<1> QED BY <1>1, SessInit, PTL DEF Spec

\* A deleted session never comes back, in this process or after any number of
\* crashes and restarts, however many sessions, threads and commands there
\* are and whichever record writes, record removals and tombstone clears fail:
\* it is not listed, not served as active, and no attach could load it
\* (handle_delete_session, handle_attach_session, handle_update_metadata,
\* purge_tombstoned_sessions).
THEOREM DeletedStaysDeleted == ASSUME Survivable PROVE Spec => []NoResurrection
<1>1. SessIInv => NoResurrection
  BY DEF SessIInv
<1> QED BY <1>1, SessInvariant, PTL

\* No two threads that can still write the record or talk to the daemon ever
\* serve the same session id (spawn_session, handle_session_exited).
THEOREM OneThreadServes == ASSUME Survivable PROVE Spec => []OneThreadPerSession
<1>1. SessIInv => OneThreadPerSession
  BY DEF SessIInv
<1> QED BY <1>1, SessInvariant, PTL

\* While the record of a deleted session is on disk, so is its tombstone:
\* wherever the process dies, the next boot purges the session
\* (delete_session_inner, finalize_session_delete).
THEOREM DeletedIsTombstoned == ASSUME Survivable PROVE Spec => []TombstoneCoversRecord
<1>1. SessIInv => TombstoneCoversRecord
  BY DEF SessIInv
<1> QED BY <1>1, SessInvariant, PTL

\* The id given to a new session (handle_create_session) is free: no record
\* has it, no thread that may still write serves it, no running entry and no
\* deleted marker holds it, so that the new session overwrites none, is
\* overwritten by none and can be attached; "so a fresh daemon never collides
\* with a persisted session", as long as the index was loaded completely.
THEOREM FreshIds == ASSUME Survivable PROVE Spec => FreshIdIsFree
<1>1. ASSUME SessIInv, [Next]_vars, born' # born
      PROVE  ~Taken(next_session_id)
  <2>1. PICK p \in Ids \cup {0}, t \in Threads : CreateSession(p, t)
    BY <1>1 DEF Next, Boot, StartBoot, LoadIndex, PurgeOne, ClientCommand,
       AttachSession, DeleteSession, HandleQueued, HandleUpdateMetadata,
       HandleSessionExited, HandleSessionDeleteFinalized, Finalize,
       FinalizeDelete, FinalizeClear, FinalizeReport, ThreadStep,
       ThreadWindDown, ThreadStart, ThreadRunInput, ThreadPersistMetadata,
       ThreadRequestFinished, ThreadShutdown, ThreadLastDetach, ThreadPersist,
       ThreadSendExited, ThreadFinish, BeginTeardown, ProcessEnds, vars, history
  <2>2. mode = "up" /\ next_session_id \in Ids
    BY <2>1 DEF CreateSession
  <2>3. ~(next_session_id < next_session_id)
    BY <2>2, ConstantsAssumption DEF Ids
  <2>4. /\ record[next_session_id] = Absent
        /\ ~HasEntry(next_session_id)
        /\ next_session_id \notin deleted_sessions
    BY <1>1, <2>2, <2>3 DEF SessIInv, UsedIsBelow
  <2>5. ASSUME NEW u \in Threads, thr[u].sid = next_session_id, thr[u].phase \in LivePhases
        PROVE  FALSE
    BY <1>1, <2>2, <2>4, <2>5, LiveHasEntry, ConstantsAssumption DEF HasEntry
  <2> QED BY <2>4, <2>5 DEF Taken
<1>2. SessIInv /\ [Next]_vars => [born' # born => ~Taken(next_session_id)]_vars
  BY <1>1
<1> QED BY <1>2, SessInvariant, PTL DEF Spec, FreshIdIsFree

-----------------------------------------------------------------------------
(* Without database failures the daemon implements SessionStore            *)

\* The record of x holds no session that exists.
Void(x) == record[x] \in deleted \cup {Absent}

\* What a thread that lives has in hand is what is stored, unless it is deleted.
ServedIsStored ==
    \A t \in Threads : thr[t].phase \in LivePhases =>
        IF thr[t].inc \in deleted THEN Void(thr[t].sid)
        ELSE record[thr[t].sid] = thr[t].inc

EntryIsStored ==
    mode = "up" => \A x \in Ids :
        HasEntry(x) => record[x] = thr[active_sessions[x]].inc

\* The index lists exactly the stored sessions that are not deleted.
ListedIsStored ==
    mode = "up" => \A x \in Ids :
        session_metadata[x] = IF record[x] \in deleted THEN Absent ELSE record[x]

\* A marker stands for a deletion, and so does a tombstone.
MarkedIsDeleted ==
    /\ \A x \in deleted_sessions : Void(x)
    /\ \A t \in Threads :
          thr[t].phase \in LivePhases /\ thr[t].sid \in deleted_sessions =>
              thr[t].inc \in deleted
    /\ \A x \in Ids : Finalizing(x) => x \in deleted_sessions

TombstoneIsDeleted ==
    /\ \A x \in tombstone : Void(x)
    /\ Running => tombstone \subseteq deleted_sessions
    /\ mode = "boot" => toPurge = tombstone
    /\ \A x \in Ids :
          <<x, "report">> \in finalizers \/ Pending("SessionDeleteFinalized", x) =>
              x \notin tombstone

StoreIInv ==
    /\ SessIInv
    /\ deleted \subseteq asked
    /\ ServedIsStored
    /\ EntryIsStored
    /\ ListedIsStored
    /\ MarkedIsDeleted
    /\ TombstoneIsDeleted

-----------------------------------------------------------------------------

Sessions == {record[x] : x \in Ids} \ ({Absent} \cup deleted)

\* A step that neither adds a session nor takes one away.
SessionsKept == Sessions' = Sessions /\ born' = born

\* What OnlyAskedVanish says of one step.
AskedOnly ==
    \A x \in Ids : record[x] # Absent /\ record'[x] # record[x] =>
        record[x] \in asked'

\* Only records that hold no session change.
LEMMA Quietly ==
    ASSUME StoreIInv, UNCHANGED history,
           \A x \in Ids : record'[x] = record[x] \/ (Void(x) /\ Void(x)')
    PROVE  SessionsKept /\ AskedOnly
<1>1. deleted' = deleted /\ asked' = asked /\ born' = born
  BY DEF history
<1>2. \A i : i \in Sessions <=> \E x \in Ids : i = record[x] /\ ~Void(x)
  BY DEF Sessions, Void
<1>3. \A i : i \in Sessions' <=> \E x \in Ids : i = record'[x] /\ ~Void(x)'
  BY DEF Sessions, Void
<1>4. \A x \in Ids : record'[x] = record[x] => (Void(x)' <=> Void(x))
  BY <1>1 DEF Void
<1>5. \A i : i \in Sessions' <=> i \in Sessions
  BY <1>2, <1>3, <1>4
<1>6. Sessions' = Sessions
  BY <1>5
<1>7. AskedOnly
  BY <1>1 DEF AskedOnly, Void, StoreIInv
<1> QED BY <1>1, <1>6, <1>7 DEF SessionsKept

\* What every step of a session thread does to the state others see.
LEMMA ThreadFacts ==
    ASSUME TypeOK, NEW t \in Threads, ThreadStep(t)
    PROVE  /\ Running
           /\ \A u \in Threads :
                 /\ thr'[u].sid = thr[u].sid
                 /\ thr'[u].inc = thr[u].inc
                 /\ thr'[u].phase \in LivePhases => thr[u].phase \in LivePhases
           /\ \/ record' = record
              \/ /\ thr[t].phase \in LivePhases
                 /\ record' = [record EXCEPT ![thr[t].sid] = thr[t].inc]
           /\ UNCHANGED <<tombstone, mode, toPurge, memory, finalizers, history>>
           /\ \A x : Pending("SessionDeleteFinalized", x)' =>
                     Pending("SessionDeleteFinalized", x)
<1>1. Running /\ UNCHANGED <<tombstone, mode, toPurge, memory, finalizers, history>>
  BY DEF ThreadStep, ThreadWindDown, ThreadStart, ThreadRunInput,
     ThreadPersistMetadata, ThreadRequestFinished, ThreadShutdown,
     ThreadLastDetach, ThreadPersist, ThreadSendExited, ThreadFinish, AtPhase, disk
<1>2. \/ record' = record
      \/ /\ thr[t].phase \in LivePhases
         /\ record' = [record EXCEPT ![thr[t].sid] = thr[t].inc]
  BY DEF ThreadStep, ThreadWindDown, ThreadStart, ThreadRunInput,
     ThreadPersistMetadata, ThreadRequestFinished, ThreadShutdown,
     ThreadLastDetach, ThreadPersist, ThreadSendExited, ThreadFinish, AtPhase,
     disk, WriteRecord, LivePhases
<1>3. /\ thr[t] \in ThreadState
      /\ thr[t].phase # "free" => thr[t].sid \in Ids /\ thr[t].inc \in Incarnations
  BY DEF TypeOK, ThreadState
<1>4. \/ queue' = queue
      \/ \E e \in Commands : /\ e.op # "SessionDeleteFinalized"
                             /\ queue' = Append(queue, e)
  <2>1. ASSUME NEW op \in {"UpdateMetadata", "SessionExited"},
               NEW i \in Incarnations \cup {Absent},
               thr[t].phase # "free", Send(op, thr[t].sid, i)
        PROVE  \/ queue' = queue
               \/ \E e \in Commands : /\ e.op # "SessionDeleteFinalized"
                                      /\ queue' = Append(queue, e)
    <3> DEFINE e == [op |-> op, sid |-> thr[t].sid, inc |-> i]
    <3>1. e \in Commands /\ e.op # "SessionDeleteFinalized"
      BY <1>3, <2>1 DEF Commands
    <3> QED BY <2>1, <3>1 DEF Send
  <2>2. CASE ThreadStart(t) \/ ThreadPersistMetadata(t) \/ ThreadRequestFinished(t)
    BY <1>3, <2>1, <2>2 DEF ThreadStart, ThreadPersistMetadata,
       ThreadRequestFinished, AtPhase
  <2>3. CASE ThreadSendExited(t)
    BY <2>1, <2>3 DEF ThreadSendExited, AtPhase
  <2> QED BY <2>2, <2>3 DEF ThreadStep, ThreadWindDown, ThreadRunInput,
          ThreadShutdown, ThreadLastDetach, ThreadPersist, ThreadFinish
<1>5. \A x : Pending("SessionDeleteFinalized", x)' =>
             Pending("SessionDeleteFinalized", x)
  <2>1. CASE queue' = queue
    BY <2>1 DEF Pending
  <2>2. ASSUME NEW e \in Commands, e.op # "SessionDeleteFinalized",
               queue' = Append(queue, e)
        PROVE  \A x : Pending("SessionDeleteFinalized", x)' =>
                      Pending("SessionDeleteFinalized", x)
    <3>1. queue \in Seq(Commands)
      BY DEF TypeOK
    <3> QED BY <2>2, <3>1, PendingSent
  <2> QED BY <1>4, <2>1, <2>2
<1>6. /\ thr'[t].sid = thr[t].sid /\ thr'[t].inc = thr[t].inc
      /\ thr'[t].phase \in LivePhases => thr[t].phase \in LivePhases
      /\ \A u \in Threads \ {t} : thr'[u] = thr[u]
  <2>1. CASE ThreadStart(t) \/ ThreadLastDetach(t) \/ ThreadPersist(t)
             \/ ThreadSendExited(t) \/ ThreadFinish(t)
    BY <1>3, <2>1 DEF ThreadStart, ThreadLastDetach, ThreadPersist,
       ThreadSendExited, ThreadFinish, AtPhase, LivePhases, TypeOK, ThreadState
  <2>2. CASE ThreadRunInput(t) \/ ThreadPersistMetadata(t) \/ ThreadShutdown(t)
    BY <1>3, <2>2 DEF ThreadRunInput, ThreadPersistMetadata, ThreadShutdown,
       AtPhase, LivePhases, TypeOK, ThreadState
  <2>3. CASE ThreadRequestFinished(t)
    BY <1>3, <2>3 DEF ThreadRequestFinished, AtPhase, LivePhases, TypeOK, ThreadState
  <2> QED BY <2>1, <2>2, <2>3 DEF ThreadStep, ThreadWindDown
<1> QED BY <1>1, <1>2, <1>5, <1>6

LEMMA ThreadStore ==
    ASSUME StoreIInv, SessIInv', NEW t \in Threads, ThreadStep(t)
    PROVE  StoreIInv' /\ SessionsKept /\ AskedOnly
<1>1. TypeOK
  BY DEF StoreIInv, SessIInv
<1>2. /\ Running
      /\ \A u \in Threads :
            /\ thr'[u].sid = thr[u].sid
            /\ thr'[u].inc = thr[u].inc
            /\ thr'[u].phase \in LivePhases => thr[u].phase \in LivePhases
      /\ \/ record' = record
         \/ /\ thr[t].phase \in LivePhases
            /\ record' = [record EXCEPT ![thr[t].sid] = thr[t].inc]
      /\ UNCHANGED <<tombstone, mode, toPurge, memory, finalizers, history>>
      /\ \A x : Pending("SessionDeleteFinalized", x)' =>
                Pending("SessionDeleteFinalized", x)
  BY <1>1, ThreadFacts
<1>3. \A u \in Threads : thr[u].phase \in LivePhases =>
          thr[u].sid \in Ids /\ thr[u].inc \in Incarnations
  BY <1>1 DEF TypeOK, ThreadState, LivePhases
\* A write changes nothing, or puts one deleted session in the place of none
\* or of another deleted one.
<1>4. \/ record' = record
      \/ /\ thr[t].phase \in LivePhases /\ thr[t].sid \in Ids
         /\ thr[t].inc \in deleted /\ Void(thr[t].sid)
         /\ record' = [record EXCEPT ![thr[t].sid] = thr[t].inc]
  <2>1. CASE thr[t].phase \in LivePhases /\ thr[t].inc \notin deleted
             /\ record' = [record EXCEPT ![thr[t].sid] = thr[t].inc]
    <3>1. record[thr[t].sid] = thr[t].inc
      BY <2>1 DEF StoreIInv, ServedIsStored
    <3>2. record' = record
      BY <1>1, <2>1, <3>1 DEF TypeOK
    <3> QED BY <3>2
  <2>2. CASE thr[t].phase \in LivePhases /\ thr[t].inc \in deleted
             /\ record' = [record EXCEPT ![thr[t].sid] = thr[t].inc]
    BY <1>3, <2>2 DEF StoreIInv, ServedIsStored
  <2> QED BY <1>2, <2>1, <2>2
<1>5. /\ deleted' = deleted /\ asked' = asked
      /\ active_sessions' = active_sessions
      /\ session_metadata' = session_metadata
      /\ deleted_sessions' = deleted_sessions
  BY <1>2 DEF history, memory
<1>6. \A x \in Ids : record'[x] = record[x] \/ (Void(x) /\ record'[x] \in deleted)
  BY <1>1, <1>4 DEF TypeOK
<1>7. /\ \A x \in Ids : Void(x) => Void(x)'
      /\ \A x \in Ids : record'[x] = record[x] \/ (Void(x) /\ Void(x)')
  BY <1>5, <1>6 DEF Void
<1>8. SessionsKept /\ AskedOnly
  BY <1>2, <1>7, Quietly
<1>9. \A x \in Ids : HasEntry(x)' <=> HasEntry(x)
  BY <1>5 DEF HasEntry
<1>10. ServedIsStored'
  <2> SUFFICES ASSUME NEW u \in Threads, thr[u].phase \in LivePhases,
                      NEW x \in Ids, x = thr[u].sid
               PROVE  IF thr[u].inc \in deleted THEN Void(x)'
                      ELSE record'[x] = thr[u].inc
    BY <1>2, <1>3, <1>5 DEF ServedIsStored, Void
  <2>1. IF thr[u].inc \in deleted THEN Void(x) ELSE record[x] = thr[u].inc
    BY DEF StoreIInv, ServedIsStored
  <2>2. CASE thr[u].inc \in deleted
    BY <1>7, <2>1, <2>2
  <2>3. CASE thr[u].inc \notin deleted
    <3>1. ~Void(x)
      BY <1>1, <1>3, <2>1, <2>3, ConstantsAssumption DEF Void, Incarnations, Absent
    <3> QED BY <1>6, <2>1, <2>3, <3>1
  <2> QED BY <2>2, <2>3
<1>11. EntryIsStored'
  <2> SUFFICES ASSUME mode = "up", NEW x \in Ids, HasEntry(x)
               PROVE  record'[x] = thr'[active_sessions[x]].inc
    BY <1>2, <1>5, <1>9 DEF EntryIsStored
  <2>1. /\ active_sessions[x] \in Threads
        /\ record[x] = thr[active_sessions[x]].inc
        /\ thr[active_sessions[x]].inc \notin deleted
    BY <1>1 DEF StoreIInv, EntryIsStored, TypeOK, HasEntry, SessIInv, NoResurrection
  <2>2. record[x] # Absent
    BY <1>1, <2>1, ConstantsAssumption
       DEF StoreIInv, SessIInv, EntryIsServed, TypeOK, ThreadState, Incarnations, Absent
  <2> QED BY <1>2, <1>6, <2>1, <2>2 DEF Void
<1>12. ListedIsStored'
  BY <1>2, <1>5, <1>6 DEF StoreIInv, ListedIsStored, Void
<1>13. MarkedIsDeleted'
  <2>1. deleted_sessions \subseteq Ids
    BY <1>1 DEF TypeOK
  <2>2. \A x \in Ids : Finalizing(x)' <=> Finalizing(x)
    BY <1>2 DEF Finalizing
  <2> QED BY <1>2, <1>5, <1>7, <2>1, <2>2 DEF StoreIInv, MarkedIsDeleted
<1>14. TombstoneIsDeleted'
  <2>1. tombstone \subseteq Ids
    BY <1>1 DEF TypeOK
  <2> QED BY <1>2, <1>5, <1>7, <2>1 DEF StoreIInv, TombstoneIsDeleted, Running
<1> QED BY <1>5, <1>8, <1>10, <1>11, <1>12, <1>13, <1>14 DEF StoreIInv

LEMMA UpdateMetadataStore ==
    ASSUME StoreIInv, SessIInv', HandleUpdateMetadata
    PROVE  StoreIInv' /\ SessionsKept /\ AskedOnly
<1>1. TypeOK /\ SessIInv
  BY DEF StoreIInv, SessIInv
<1>2. /\ mode = "up" /\ queue # <<>> /\ queue' = Tail(queue)
      /\ queue \in Seq(Commands)
      /\ UNCHANGED <<disk, mode, toPurge, next_session_id, active_sessions,
                     deleted_sessions, children, thr, finalizers, history>>
  BY <1>1 DEF HandleUpdateMetadata, Dequeue, TypeOK
<1>3. session_metadata' = session_metadata
  <2>1. ASSUME NEW y \in Ids, HasEntry(y),
               session_metadata' =
                 [session_metadata EXCEPT ![y] = thr[active_sessions[y]].inc]
        PROVE  session_metadata' = session_metadata
    <3>1. record[y] = thr[active_sessions[y]].inc /\ record[y] \notin deleted
      BY <1>1, <1>2, <2>1 DEF StoreIInv, EntryIsStored, SessIInv, NoResurrection
    <3>2. session_metadata[y] = thr[active_sessions[y]].inc
      BY <1>2, <3>1 DEF StoreIInv, ListedIsStored
    <3> QED BY <1>1, <2>1, <3>2 DEF TypeOK
  <2> QED BY <1>1, <2>1, UpdateWritesServed
<1>4. \A x : Pending("SessionDeleteFinalized", x)' =>
             Pending("SessionDeleteFinalized", x)
  BY <1>2, PendingHandled
<1>5. SessionsKept /\ AskedOnly
  BY <1>2, Quietly DEF disk
<1>6. /\ \A x \in Ids : HasEntry(x)' <=> HasEntry(x)
      /\ \A x \in Ids : Finalizing(x)' <=> Finalizing(x)
      /\ \A x : Void(x)' <=> Void(x)
  BY <1>2 DEF HasEntry, Finalizing, Void, disk, history
<1>7. ServedIsStored' /\ EntryIsStored' /\ ListedIsStored'
  BY <1>2, <1>3, <1>6 DEF StoreIInv, ServedIsStored, EntryIsStored,
     ListedIsStored, disk, history
<1>8. MarkedIsDeleted' /\ TombstoneIsDeleted'
  BY <1>2, <1>4, <1>6 DEF StoreIInv, MarkedIsDeleted, TombstoneIsDeleted,
     disk, history, Running
<1> QED BY <1>2, <1>5, <1>7, <1>8 DEF StoreIInv, history

LEMMA SessionExitedStore ==
    ASSUME StoreIInv, SessIInv', HandleSessionExited
    PROVE  StoreIInv' /\ SessionsKept /\ AskedOnly
<1>1. TypeOK /\ SessIInv
  BY DEF StoreIInv, SessIInv
<1>2. PICK y : y = Head(queue).sid
  OBVIOUS
<1>3. /\ mode = "up" /\ queue # <<>> /\ queue' = Tail(queue)
      /\ queue \in Seq(Commands)
      /\ UNCHANGED <<disk, mode, toPurge, next_session_id, session_metadata,
                     deleted_sessions, history>>
      /\ active_sessions' = [active_sessions EXCEPT ![y] = NoThread]
      /\ finalizers' = StartFinalizer(y)
  BY <1>1, <1>2 DEF HandleSessionExited, Dequeue, TypeOK
<1>4. SameThreads
  BY <1>1, ShutdownIsSame DEF HandleSessionExited
<1>5. \A x : Pending("SessionDeleteFinalized", x)' =>
             Pending("SessionDeleteFinalized", x)
  BY <1>3, PendingHandled
<1>6. SessionsKept /\ AskedOnly
  BY <1>3, Quietly DEF disk
<1>7. /\ \A x \in Ids : HasEntry(x)' => /\ HasEntry(x)
                                        /\ active_sessions'[x] = active_sessions[x]
                                        /\ active_sessions[x] \in Threads
      /\ \A x \in Ids : Finalizing(x)' => Finalizing(x) \/ x \in deleted_sessions
      /\ \A x \in Ids : <<x, "report">> \in finalizers' => <<x, "report">> \in finalizers
      /\ \A x : Void(x)' <=> Void(x)
  BY <1>1, <1>3 DEF HasEntry, Finalizing, Void, disk, history, StartFinalizer, TypeOK
<1>8. ServedIsStored'
  BY <1>3, <1>4, <1>7 DEF StoreIInv, ServedIsStored, SameThreads, disk, history
<1>9. EntryIsStored' /\ ListedIsStored'
  BY <1>3, <1>4, <1>7 DEF StoreIInv, EntryIsStored, ListedIsStored,
     SameThreads, disk, history
<1>10. MarkedIsDeleted'
  BY <1>3, <1>4, <1>7 DEF StoreIInv, MarkedIsDeleted, SameThreads, disk, history
<1>11. TombstoneIsDeleted'
  BY <1>3, <1>5, <1>7 DEF StoreIInv, TombstoneIsDeleted, disk, history, Running
<1> QED BY <1>3, <1>6, <1>8, <1>9, <1>10, <1>11 DEF StoreIInv, history

LEMMA FinalizedStore ==
    ASSUME StoreIInv, SessIInv', HandleSessionDeleteFinalized
    PROVE  StoreIInv' /\ SessionsKept /\ AskedOnly
<1>1. TypeOK /\ SessIInv
  BY DEF StoreIInv, SessIInv
<1>2. PICK y : y = Head(queue).sid
  OBVIOUS
<1>3. /\ mode = "up" /\ queue # <<>> /\ queue' = Tail(queue)
      /\ Head(queue).op = "SessionDeleteFinalized"
      /\ queue \in Seq(Commands)
      /\ UNCHANGED <<disk, mode, toPurge, next_session_id, active_sessions,
                     session_metadata, sleeping, children, thr, finalizers,
                     history>>
      /\ deleted_sessions' = deleted_sessions \ {y}
  BY <1>1, <1>2 DEF HandleSessionDeleteFinalized, Dequeue, TypeOK
<1>4. y \in Ids
  BY <1>1, <1>2, DequeueType DEF HandleSessionDeleteFinalized, Commands
<1>5. Pending("SessionDeleteFinalized", y)
  BY <1>1, <1>2, <1>3, HeadOnce DEF SessIInv
<1>6. ~Finalizing(y) /\ y \notin tombstone
  BY <1>1, <1>4, <1>5 DEF SessIInv, OneHand, Ending, StoreIInv, TombstoneIsDeleted
<1>7. \A x : Pending("SessionDeleteFinalized", x)' =>
             Pending("SessionDeleteFinalized", x)
  BY <1>3, PendingHandled
<1>8. SessionsKept /\ AskedOnly
  BY <1>3, Quietly DEF disk
<1>9. /\ \A x \in Ids : HasEntry(x)' <=> HasEntry(x)
      /\ \A x \in Ids : Finalizing(x)' <=> Finalizing(x)
      /\ \A x : Void(x)' <=> Void(x)
  BY <1>3 DEF HasEntry, Finalizing, Void, disk, history
<1>10. ServedIsStored' /\ EntryIsStored' /\ ListedIsStored'
  BY <1>3, <1>9 DEF StoreIInv, ServedIsStored, EntryIsStored,
     ListedIsStored, disk, history
<1>11. MarkedIsDeleted'
  BY <1>3, <1>6, <1>9 DEF StoreIInv, MarkedIsDeleted, history
<1>12. TombstoneIsDeleted'
  BY <1>3, <1>6, <1>7, <1>9 DEF StoreIInv, TombstoneIsDeleted, disk, Running
<1> QED BY <1>3, <1>8, <1>10, <1>11, <1>12 DEF StoreIInv, history

NoFaults == Faults = {}

LEMMA FinalizeDeleteStore ==
    ASSUME StoreIInv, SessIInv', NEW y \in Ids, FinalizeDelete(y)
    PROVE  StoreIInv' /\ SessionsKept /\ AskedOnly
<1>1. TypeOK /\ SessIInv
  BY DEF StoreIInv, SessIInv
<1>2. /\ Running /\ <<y, "delete">> \in finalizers
      /\ UNCHANGED <<tombstone, mode, toPurge, memory, queue, thr, history>>
      /\ record' = record \/ record' = [record EXCEPT ![y] = Absent]
      /\ \A x \in Ids : <<x, "report">> \in finalizers' => <<x, "report">> \in finalizers
      /\ \A x \in Ids : Finalizing(x)' => Finalizing(x)
  BY DEF FinalizeDelete, Outcomes, Finalizing
<1>3. Finalizing(y) /\ y \in deleted_sessions /\ Void(y) /\ ~Served(y)
  BY <1>1, <1>2 DEF Finalizing, StoreIInv, MarkedIsDeleted, SessIInv, OneHand
<1>4. \A x \in Ids : record'[x] = record[x] \/ (x = y /\ record'[x] = Absent)
  BY <1>1, <1>2 DEF TypeOK
<1>5. /\ \A x \in Ids : Void(x) => Void(x)'
      /\ \A x \in Ids : record'[x] = record[x] \/ (Void(x) /\ Void(x)')
      /\ \A x \in Ids : HasEntry(x)' <=> HasEntry(x)
      /\ \A op, x : Pending(op, x)' <=> Pending(op, x)
  BY <1>2, <1>3, <1>4 DEF Void, history, HasEntry, memory, Pending
<1>6. SessionsKept /\ AskedOnly
  BY <1>2, <1>5, Quietly
<1>7. \A u \in Threads : thr[u].phase \in LivePhases =>
          thr[u].sid \in Ids /\ thr[u].sid # y
  BY <1>1, <1>3 DEF Served, TypeOK, ThreadState, LivePhases
<1>8. ServedIsStored'
  BY <1>2, <1>4, <1>5, <1>7 DEF StoreIInv, ServedIsStored, history
<1>9. EntryIsStored'
  <2>1. mode = "up" => ~HasEntry(y)
    BY <1>1, <1>3 DEF SessIInv, EntryIsServed
  <2> QED BY <1>2, <1>4, <1>5, <2>1 DEF StoreIInv, EntryIsStored, memory
<1>10. ListedIsStored'
  <2>1. Absent \notin deleted
    BY <1>1, ConstantsAssumption DEF TypeOK, Incarnations, Absent
  <2> QED BY <1>2, <1>3, <1>4, <2>1 DEF StoreIInv, ListedIsStored, Void, memory, history
<1>11. MarkedIsDeleted'
  <2>1. deleted_sessions \subseteq Ids
    BY <1>1 DEF TypeOK
  <2> QED BY <1>2, <1>5, <2>1 DEF StoreIInv, MarkedIsDeleted, memory, history
<1>12. TombstoneIsDeleted'
  <2>1. tombstone \subseteq Ids
    BY <1>1 DEF TypeOK
  <2> QED BY <1>2, <1>5, <2>1 DEF StoreIInv, TombstoneIsDeleted, memory, Running
<1> QED BY <1>2, <1>6, <1>8, <1>9, <1>10, <1>11, <1>12 DEF StoreIInv, history

LEMMA FinalizeRestStore ==
    ASSUME StoreIInv, SessIInv', NoFaults, NEW y \in Ids,
           FinalizeClear(y) \/ FinalizeReport(y)
    PROVE  StoreIInv' /\ SessionsKept /\ AskedOnly
<1>1. TypeOK /\ SessIInv
  BY DEF StoreIInv, SessIInv
<1>2. /\ Running
      /\ UNCHANGED <<record, mode, toPurge, memory, thr, history>>
      /\ \A x \in Ids : Finalizing(x)' => Finalizing(x)
      /\ tombstone' \subseteq tombstone
  BY DEF FinalizeClear, FinalizeReport, Finalizing, disk
<1>3. \A x \in Ids :
         <<x, "report">> \in finalizers' \/ Pending("SessionDeleteFinalized", x)' =>
             x \notin tombstone'
  <2>1. CASE FinalizeClear(y)
    <3>1. /\ tombstone' = tombstone \ {y}
          /\ queue' = queue
          /\ finalizers' = (finalizers \ {<<y, "clear">>}) \cup {<<y, "report">>}
      BY <2>1 DEF FinalizeClear, Outcomes, NoFaults
    <3>2. \A x : Pending("SessionDeleteFinalized", x)' <=>
                 Pending("SessionDeleteFinalized", x)
      BY <3>1 DEF Pending
    <3> QED BY <3>1, <3>2 DEF StoreIInv, TombstoneIsDeleted
  <2>2. CASE FinalizeReport(y)
    <3> DEFINE e == [op |-> "SessionDeleteFinalized", sid |-> y, inc |-> Absent]
    <3>1. /\ <<y, "report">> \in finalizers
          /\ finalizers' = finalizers \ {<<y, "report">>}
          /\ tombstone' = tombstone
          /\ queue' = queue \/ queue' = Append(queue, e)
      BY <2>2 DEF FinalizeReport, Send, disk
    <3>2. e \in Commands /\ e.sid = y /\ queue \in Seq(Commands)
      BY <1>1 DEF Commands, TypeOK
    <3> HIDE DEF e
    <3>3. \A x : Pending("SessionDeleteFinalized", x)' =>
                 Pending("SessionDeleteFinalized", x) \/ x = y
      <4>1. CASE queue' = queue
        BY <4>1 DEF Pending
      <4>2. CASE queue' = Append(queue, e)
        BY <3>2, <4>2, PendingSent
      <4> QED BY <3>1, <4>1, <4>2
    <3> QED BY <3>1, <3>3 DEF StoreIInv, TombstoneIsDeleted
  <2> QED BY <2>1, <2>2
<1>4. SessionsKept /\ AskedOnly
  BY <1>2, Quietly
<1>5. /\ \A x : HasEntry(x)' <=> HasEntry(x)
      /\ \A x : Void(x)' <=> Void(x)
  BY <1>2 DEF Void, HasEntry, memory, history
<1>6. ServedIsStored' /\ EntryIsStored' /\ ListedIsStored'
  BY <1>2, <1>5 DEF StoreIInv, ServedIsStored, EntryIsStored, ListedIsStored,
     memory, history
<1>7. MarkedIsDeleted'
  BY <1>2, <1>5 DEF StoreIInv, MarkedIsDeleted, memory, history
<1>8. TombstoneIsDeleted'
  BY <1>2, <1>3, <1>5 DEF StoreIInv, TombstoneIsDeleted, memory, Running
<1> QED BY <1>2, <1>4, <1>6, <1>7, <1>8 DEF StoreIInv, history

LEMMA BootStore ==
    ASSUME StoreIInv, SessIInv', NoFaults, Boot
    PROVE  StoreIInv' /\ SessionsKept /\ AskedOnly
<1>1. TypeOK /\ SessIInv
  BY DEF StoreIInv, SessIInv
<1>2. /\ mode \in {"down", "boot"}
      /\ UNCHANGED <<active_sessions, deleted_sessions, children, queue, thr,
                     finalizers, history>>
  BY DEF Boot, StartBoot, PurgeOne, LoadIndex, memory
<1>3. /\ active_sessions = [x \in Ids |-> NoThread]
      /\ session_metadata = [x \in Ids |-> Absent]
      /\ queue = <<>> /\ thr = [t \in Threads |-> FreeThread]
      /\ finalizers = {} /\ deleted_sessions = {}
  BY <1>1, <1>2 DEF SessIInv, NothingRuns
<1>4. /\ \A x \in Ids : ~HasEntry(x)'
      /\ \A u \in Threads : thr'[u].phase \notin LivePhases
      /\ \A x : ~Finalizing(x)' /\ ~Pending("SessionDeleteFinalized", x)'
  BY <1>2, <1>3 DEF HasEntry, FreeThread, LivePhases, Finalizing, Pending
<1>5. ServedIsStored' /\ EntryIsStored' /\ MarkedIsDeleted'
  BY <1>2, <1>3, <1>4 DEF ServedIsStored, EntryIsStored, MarkedIsDeleted
<1>6. Absent \notin deleted
  BY <1>1, ConstantsAssumption DEF TypeOK, Incarnations, Absent
<1>7. CASE StartBoot
  <2>1. /\ mode' = "boot" /\ toPurge' = tombstone
        /\ UNCHANGED <<record, tombstone>>
    BY <1>7 DEF StartBoot, Outcomes, NoFaults, disk
  <2>2. \A x : Void(x)' <=> Void(x)
    BY <1>2, <2>1 DEF Void, history
  <2>3. TombstoneIsDeleted'
    BY <1>2, <1>3, <1>4, <2>1, <2>2 DEF StoreIInv, TombstoneIsDeleted, Running
  <2> QED BY <1>2, <1>5, <2>1, <2>3, Quietly
          DEF StoreIInv, ListedIsStored, history
<1>8. ASSUME NEW y \in Ids, PurgeOne(y)
      PROVE  StoreIInv' /\ SessionsKept /\ AskedOnly
  <2>1. /\ mode = "boot" /\ mode' = "boot" /\ y \in toPurge
        /\ toPurge' = toPurge \ {y}
        /\ record' = [record EXCEPT ![y] = Absent]
        /\ tombstone' = tombstone \ {y}
    BY <1>8 DEF PurgeOne, Outcomes, NoFaults
  <2>2. \A x \in Ids : record'[x] = IF x = y THEN Absent ELSE record[x]
    BY <1>1, <2>1 DEF TypeOK
  <2>3. Void(y)
    BY <2>1 DEF StoreIInv, TombstoneIsDeleted
  <2>4. /\ \A x \in Ids : Void(x) => Void(x)'
        /\ \A x \in Ids : record'[x] = record[x] \/ (Void(x) /\ Void(x)')
    BY <1>2, <2>2, <2>3 DEF Void, history
  <2>5. tombstone \subseteq Ids
    BY <1>1 DEF TypeOK
  <2>6. TombstoneIsDeleted'
    BY <1>2, <1>3, <1>4, <2>1, <2>4, <2>5 DEF StoreIInv, TombstoneIsDeleted, Running
  <2> QED BY <1>2, <1>5, <2>1, <2>4, <2>6, Quietly
          DEF StoreIInv, ListedIsStored, history
<1>9. CASE LoadIndex
  <2> DEFINE L == {x \in Ids : record[x] # Absent}
  <2>1. /\ mode = "boot" /\ mode' = "up" /\ toPurge = {}
        /\ UNCHANGED <<disk, toPurge, history>>
    BY <1>9 DEF LoadIndex
  <2>2. session_metadata' = [x \in Ids |-> IF x \in L THEN record[x] ELSE Absent]
    <3>1. L \ {} = L
      OBVIOUS
    <3> QED BY <1>9, <3>1 DEF LoadIndex, Failures, NoFaults
  <2>3. \A x \in Ids : record[x] \notin deleted
    BY <1>1, <2>1 DEF SessIInv, PurgeVisits
  <2>4. ListedIsStored'
    BY <2>1, <2>2, <2>3 DEF ListedIsStored, disk, history
  <2>5. TombstoneIsDeleted'
    BY <1>2, <1>3, <1>4, <2>1 DEF StoreIInv, TombstoneIsDeleted, disk
  <2> QED BY <1>2, <1>5, <2>1, <2>4, <2>5, Quietly DEF StoreIInv, disk, history
<1> QED BY <1>7, <1>8, <1>9 DEF Boot

LEMMA ProcessStore ==
    ASSUME StoreIInv, SessIInv', BeginTeardown \/ ProcessEnds
    PROVE  StoreIInv' /\ SessionsKept /\ AskedOnly
<1>1. TypeOK /\ SessIInv
  BY DEF StoreIInv, SessIInv
<1>2. UNCHANGED <<disk, history>> /\ mode' \in {"stopping", "down"}
  BY DEF BeginTeardown, ProcessEnds
<1>3. \A x : Void(x)' <=> Void(x)
  BY <1>2 DEF Void, disk, history
<1>4. SessionsKept /\ AskedOnly
  BY <1>2, Quietly DEF disk
<1>5. EntryIsStored' /\ ListedIsStored'
  BY <1>2 DEF EntryIsStored, ListedIsStored
<1>6. CASE BeginTeardown
  <2>1. SameThreads
    BY <1>1, <1>6, ShutdownIsSame DEF BeginTeardown
  <2>2. /\ mode = "up" /\ mode' = "stopping"
        /\ UNCHANGED <<deleted_sessions, queue, finalizers>>
    BY <1>6 DEF BeginTeardown
  <2>3. /\ \A x : Finalizing(x)' <=> Finalizing(x)
        /\ \A op, x : Pending(op, x)' <=> Pending(op, x)
    BY <2>2 DEF Finalizing, Pending
  <2>4. ServedIsStored' /\ MarkedIsDeleted'
    BY <1>2, <1>3, <2>1, <2>2, <2>3
       DEF StoreIInv, ServedIsStored, MarkedIsDeleted, SameThreads, disk, history
  <2>5. TombstoneIsDeleted'
    BY <1>2, <1>3, <2>2, <2>3 DEF StoreIInv, TombstoneIsDeleted, Running, disk
  <2> QED BY <1>2, <1>4, <1>5, <2>4, <2>5 DEF StoreIInv, history
<1>7. CASE ProcessEnds
  <2>1. /\ mode' = "down" /\ deleted_sessions' = {} /\ queue' = <<>>
        /\ finalizers' = {} /\ thr' = [t \in Threads |-> FreeThread]
    BY <1>7 DEF ProcessEnds
  <2>2. /\ \A u \in Threads : thr'[u].phase \notin LivePhases
        /\ \A x : ~Finalizing(x)' /\ ~Pending("SessionDeleteFinalized", x)'
    BY <2>1 DEF FreeThread, LivePhases, Finalizing, Pending
  <2>3. ServedIsStored' /\ MarkedIsDeleted'
    BY <2>1, <2>2 DEF ServedIsStored, MarkedIsDeleted
  <2>4. TombstoneIsDeleted'
    BY <1>2, <1>3, <2>1, <2>2 DEF StoreIInv, TombstoneIsDeleted, Running, disk
  <2> QED BY <1>2, <1>4, <1>5, <2>3, <2>4 DEF StoreIInv, history
<1> QED BY <1>6, <1>7

\* A thread is started with what is stored and listed.
LEMMA SpawnStore ==
    ASSUME StoreIInv, SessIInv', mode = "up",
           NEW y \in Ids, NEW i \in Incarnations, NEW t \in Threads,
           SpawnSession(y, i, t), y \notin deleted_sessions,
           UNCHANGED <<tombstone, mode, toPurge, deleted_sessions, queue,
                       finalizers, deleted, asked>>,
           \A x \in Ids \ {y} : record'[x] = record[x],
           record'[y] = i, i \notin deleted, ~HasEntry(y)
    PROVE  StoreIInv'
<1>1. TypeOK /\ SessIInv
  BY DEF StoreIInv, SessIInv
<1>2. /\ \A x \in Ids : active_sessions[x] # t
      /\ thr'[t].sid = y /\ thr'[t].inc = i
      /\ \A u \in Threads \ {t} : thr'[u] = thr[u]
      /\ active_sessions'[y] = t /\ session_metadata'[y] = i
      /\ \A x \in Ids \ {y} : /\ active_sessions'[x] = active_sessions[x]
                              /\ session_metadata'[x] = session_metadata[x]
  BY <1>1 DEF SpawnSession, Reusable, TypeOK
<1>3. /\ \A x \in Ids \ {y} : HasEntry(x)' <=> HasEntry(x)
      /\ \A x : Finalizing(x)' <=> Finalizing(x)
      /\ \A op, x : Pending(op, x)' <=> Pending(op, x)
      /\ \A x \in Ids \ {y} : Void(x)' <=> Void(x)
  BY <1>2 DEF HasEntry, Finalizing, Pending, Void
<1>4. ~Served(y) /\ y \notin tombstone
  BY <1>1 DEF SessIInv, HandIsGuarded, StoreIInv, TombstoneIsDeleted, Running
<1>5. \A u \in Threads \ {t} : thr[u].phase \in LivePhases =>
          thr[u].sid \in Ids \ {y}
  BY <1>1, <1>4 DEF Served, TypeOK, ThreadState, LivePhases
<1>6. ServedIsStored'
  <2> SUFFICES ASSUME NEW u \in Threads, thr'[u].phase \in LivePhases,
                      NEW x, x = thr'[u].sid
               PROVE  IF thr'[u].inc \in deleted THEN Void(x)'
                      ELSE record'[x] = thr'[u].inc
    BY DEF ServedIsStored, Void
  <2>1. CASE u = t
    BY <1>2, <2>1
  <2>2. CASE u # t
    BY <1>2, <1>3, <1>5, <2>2 DEF StoreIInv, ServedIsStored
  <2> QED BY <2>1, <2>2
<1>7. EntryIsStored'
  <2> SUFFICES ASSUME NEW x \in Ids, HasEntry(x)'
               PROVE  record'[x] = thr'[active_sessions'[x]].inc
    BY DEF EntryIsStored
  <2>1. CASE x = y
    BY <1>2, <2>1
  <2>2. CASE x # y
    <3>1. active_sessions[x] \in Threads /\ active_sessions[x] # t
      BY <1>1, <1>2, <1>3, <2>2 DEF HasEntry, TypeOK
    <3> QED BY <1>2, <1>3, <2>2, <3>1 DEF StoreIInv, EntryIsStored
  <2> QED BY <2>1, <2>2
<1>8. ListedIsStored'
  BY <1>2 DEF StoreIInv, ListedIsStored
<1>9. MarkedIsDeleted'
  <2>1. deleted_sessions \subseteq Ids \ {y}
    BY <1>1 DEF TypeOK
  <2> QED BY <1>2, <1>3, <2>1 DEF StoreIInv, MarkedIsDeleted
<1>10. TombstoneIsDeleted'
  <2>1. tombstone \subseteq Ids \ {y}
    BY <1>1, <1>4 DEF TypeOK
  <2> QED BY <1>3, <2>1 DEF StoreIInv, TombstoneIsDeleted, Running
<1> QED BY <1>6, <1>7, <1>8, <1>9, <1>10 DEF StoreIInv

LEMMA AttachStore ==
    ASSUME StoreIInv, SessIInv', NEW y \in Ids, NEW t \in Threads,
           AttachSession(y, t)
    PROVE  StoreIInv' /\ SessionsKept /\ AskedOnly
<1>1. TypeOK /\ SessIInv
  BY DEF StoreIInv, SessIInv
<1>2. /\ mode = "up" /\ y \notin deleted_sessions /\ ~HasEntry(y)
      /\ record[y] # Absent /\ SpawnSession(y, record[y], t)
      /\ UNCHANGED <<disk, mode, toPurge, next_session_id, deleted_sessions,
                     children, queue, finalizers, history>>
  BY DEF AttachSession, IsDeleted, HasEntry
<1>3. record[y] \in Incarnations /\ record[y] \notin deleted
  BY <1>1, <1>2 DEF TypeOK, SessIInv, NoResurrection
<1>4. StoreIInv'
  BY <1>2, <1>3, SpawnStore DEF disk, history
<1>5. SessionsKept /\ AskedOnly
  BY <1>2, Quietly DEF disk
<1> QED BY <1>4, <1>5

\* A new session is added to those that exist.
LEMMA CreateStore ==
    ASSUME StoreIInv, SessIInv', NoFaults, NEW p \in Ids \cup {0},
           NEW t \in Threads, CreateSession(p, t)
    PROVE  /\ StoreIInv' /\ AskedOnly
           /\ mode = "up" /\ mode' = "up" /\ born < MaxBorn /\ born' = born + 1
           /\ Sessions' = Sessions \cup {born + 1}
<1>1. TypeOK /\ SessIInv
  BY DEF StoreIInv, SessIInv
<1>2. PICK y, i : y = next_session_id /\ i = born + 1
  OBVIOUS
<1>3. /\ mode = "up" /\ y \in Ids /\ born < MaxBorn
      /\ born' = i
      /\ SpawnSession(y, i, t)
      /\ record' = [record EXCEPT ![y] = i]
      /\ UNCHANGED <<tombstone, mode, toPurge, deleted_sessions, queue,
                     finalizers, asked, deleted>>
  BY <1>2 DEF CreateSession, Outcomes, NoFaults
<1>4. i \in Incarnations /\ i \notin deleted /\ i # Absent
  BY <1>1, <1>2, <1>3, ConstantsAssumption
     DEF TypeOK, Incarnations, SessIInv, OneIdEach, Absent
<1>5. ~(y < next_session_id)
  BY <1>2, <1>3, ConstantsAssumption DEF Ids
<1>6. record[y] = Absent /\ ~HasEntry(y) /\ y \notin deleted_sessions
  BY <1>1, <1>3, <1>5 DEF SessIInv, UsedIsBelow
<1>7. /\ \A x \in Ids \ {y} : record'[x] = record[x]
      /\ record'[y] = i
  BY <1>1, <1>3 DEF TypeOK
<1>8. StoreIInv'
  BY <1>3, <1>4, <1>6, <1>7, SpawnStore
<1>9. AskedOnly
  BY <1>6, <1>7 DEF AskedOnly
<1>10. Sessions' = Sessions \cup {i}
  <2>1. \A j : j \in Sessions' <=> j \in Sessions \cup {i}
    BY <1>3, <1>4, <1>6, <1>7 DEF Sessions
  <2> QED BY <2>1
<1> QED BY <1>2, <1>3, <1>8, <1>9, <1>10

\* The sessions a DeleteSession covers, and only those, cease to exist.
LEMMA DeleteStore ==
    ASSUME StoreIInv, SessIInv', NoFaults, NEW y \in Ids, DeleteSession(y)
    PROVE  /\ StoreIInv' /\ AskedOnly
           /\ mode = "up" /\ mode' = "up" /\ born' = born
           /\ \E D \in SUBSET Sessions : Sessions' = Sessions \ D
<1>1. TypeOK /\ TypeOK' /\ SessIInv
  BY DEF StoreIInv, SessIInv
<1> DEFINE T == {y} \cup ChildrenOf(y)
           live == {z \in T : IsLive(z)}
<1>2. /\ record' = [z \in Ids |-> IF z \in T \ live THEN Absent ELSE record[z]]
      /\ tombstone' \subseteq tombstone \cup live
      /\ session_metadata' = [z \in Ids |-> IF z \in T THEN Absent
                                            ELSE session_metadata[z]]
      /\ deleted' = deleted \cup UNION {Meant(z) : z \in T}
  <2>1. PICK delFail \in Failures("delete", T \ live),
             markFail \in Failures("mark", live),
             clearFail \in Failures("clear", T \ live) :
         LET removed == (T \ live) \ delFail
             gone == live \cup removed
         IN
         /\ record' = [z \in Ids |-> IF z \in removed THEN Absent ELSE record[z]]
         /\ tombstone' = (tombstone \cup (live \ markFail))
                            \ (Swept(removed) \ clearFail)
         /\ session_metadata' = [z \in Ids |-> IF z \in gone THEN Absent
                                               ELSE session_metadata[z]]
         /\ deleted' = deleted \cup UNION {Meant(z) : z \in gone}
    BY DEF DeleteSession
  <2>2. delFail = {}
    BY DEF Failures, NoFaults
  <2>3. live \subseteq T
    OBVIOUS
  <2> HIDE DEF live, T
  <2>4. (T \ live) \ delFail = T \ live /\ live \cup (T \ live) = T
    BY <2>2, <2>3
  <2> QED BY <2>1, <2>4
<1>3. /\ mode = "up" /\ mode' = "up" /\ queue' = queue /\ finalizers' = finalizers
      /\ born' = born /\ toPurge' = toPurge
      /\ asked' = asked \cup UNION {Meant(z) : z \in T}
      /\ deleted_sessions' = deleted_sessions \cup Marked(T)
      /\ active_sessions' = [z \in Ids |-> IF z \in T THEN NoThread
                                           ELSE active_sessions[z]]
  BY DEF DeleteSession
<1>4. SameThreads
  BY <1>1, ShutdownIsSame DEF DeleteSession
<1>5. /\ T \subseteq Ids
      /\ \A x \in T : x \in live <=> IsLive(x)
      /\ \A x \in T : x \in Marked(T) <=> HasEntry(x)
      /\ live \subseteq T /\ Marked(T) \subseteq T
      /\ \A x \in live : HasEntry(x)
  BY DEF ChildrenOf, Marked, IsLive
<1> HIDE DEF T, live
<1>6. /\ \A x \in Ids : record'[x] = IF x \in T \ live THEN Absent ELSE record[x]
      /\ \A x \in Ids : session_metadata'[x] =
                           IF x \in T THEN Absent ELSE session_metadata[x]
      /\ \A x \in Ids : active_sessions'[x] =
                           IF x \in T THEN NoThread ELSE active_sessions[x]
  BY <1>2, <1>3
<1>7. Absent \notin deleted' /\ Absent \notin deleted
  BY <1>1, ConstantsAssumption DEF TypeOK, Incarnations, Absent
<1>8. /\ \A i \in deleted : i \in deleted'
      /\ \A i \in deleted' : i \in deleted \/ \E z \in T : i \in Meant(z)
      /\ \A x \in T : \A i \in Meant(x) : i \in deleted' /\ i \in asked'
      /\ deleted' \subseteq asked'
  BY <1>2, <1>3 DEF StoreIInv
<1>9. \A i \in deleted' : i \in deleted \/ \E z \in T : i \in Incarnations /\ Own(i, z)
  BY <1>1, <1>3, <1>5, <1>8, MeantIsOwn
<1>10. \A x \in Ids : \A i \in deleted' : Own(i, x) => i \in deleted \/ x \in T
  BY <1>1, <1>5, <1>9 DEF SessIInv, OneIdEach
<1>11. \A x \in T : Void(x)'
  <2> SUFFICES ASSUME NEW x \in T, record'[x] # Absent PROVE record'[x] \in deleted'
    BY DEF Void
  <2>1. record'[x] = record[x] /\ record[x] # Absent
    BY <1>5, <1>6
  <2>2. record[x] \in Meant(x)
    BY <2>1 DEF Meant
  <2> QED BY <1>8, <2>1, <2>2
<1>12. \A x \in Ids \ T : /\ record'[x] = record[x]
                          /\ Void(x)' <=> Void(x)
                          /\ record[x] \in deleted' <=> record[x] \in deleted
  <2> SUFFICES ASSUME NEW x \in Ids \ T
               PROVE  /\ record'[x] = record[x]
                      /\ record[x] \in deleted' <=> record[x] \in deleted
    BY DEF Void
  <2>1. record[x] # Absent => Own(record[x], x)
    BY DEF Own
  <2> QED BY <1>6, <1>7, <1>8, <1>10, <2>1
<1>13. \A x \in Ids : Void(x) => Void(x)'
  BY <1>11, <1>12
<1>14. /\ \A x \in Ids : HasEntry(x)' <=> HasEntry(x) /\ x \notin T
       /\ \A op, x : Pending(op, x)' <=> Pending(op, x)
       /\ \A x : Finalizing(x)' <=> Finalizing(x)
       /\ \A x \in Ids : HasEntry(x) => active_sessions[x] \in Threads
  <2>1. \A x \in Ids : HasEntry(x)' <=> HasEntry(x) /\ x \notin T
    BY <1>6 DEF HasEntry
  <2>2. \A x \in Ids : HasEntry(x) => active_sessions[x] \in Threads
    BY <1>1 DEF TypeOK, HasEntry
  <2> QED BY <1>3, <2>1, <2>2 DEF Pending, Finalizing
\* A thread that lives belongs to a session that keeps its record, or to one
\* deleted before.
<1>15. ASSUME NEW u \in Threads, thr[u].phase \in LivePhases, NEW x, x = thr[u].sid
       PROVE  /\ x \in Ids
              /\ x \in deleted_sessions => thr[u].inc \in deleted
              /\ x \in T /\ x \notin deleted_sessions =>
                    x \in live /\ thr[u].inc \in deleted'
              /\ Own(thr[u].inc, x)
  <2>1. /\ x \in Ids /\ thr[u].inc \in Incarnations
        /\ active_sessions[x] = u \/ x \in deleted_sessions
    BY <1>1, <1>3, <1>15, LiveHasEntry
  <2>2. x \in deleted_sessions => thr[u].inc \in deleted
    BY <1>15 DEF StoreIInv, MarkedIsDeleted
  <2>3. thr[u].inc # Absent
    BY <2>1, ConstantsAssumption DEF Incarnations, Absent
  <2>4. ASSUME x \in T, x \notin deleted_sessions
        PROVE  x \in live /\ thr[u].inc \in deleted'
    <3>1. HasEntry(x) /\ IsLive(x) /\ active_sessions[x] = u
      BY <1>15, <2>1, <2>4, ConstantsAssumption DEF HasEntry, IsLive, IsFinished, LivePhases
    <3>2. thr[u].inc \in Meant(x)
      BY <2>3, <3>1 DEF Meant
    <3> QED BY <1>5, <1>8, <2>4, <3>1, <3>2
  <2>5. Own(thr[u].inc, x)
    BY <1>15, <2>3 DEF Own, LivePhases
  <2> QED BY <2>1, <2>2, <2>4, <2>5
<1>16. ServedIsStored'
  <2> SUFFICES ASSUME NEW u \in Threads, thr[u].phase \in LivePhases,
                      NEW x, x = thr[u].sid
               PROVE  IF thr[u].inc \in deleted' THEN Void(x)'
                      ELSE record'[x] = thr[u].inc
    BY <1>4 DEF ServedIsStored, SameThreads, Void
  <2>1. x \in Ids /\ Own(thr[u].inc, x)
    BY <1>15
  <2>2. IF thr[u].inc \in deleted THEN Void(x) ELSE record[x] = thr[u].inc
    BY DEF StoreIInv, ServedIsStored
  <2>3. CASE x \in T
    <3>1. thr[u].inc \in deleted'
      BY <1>8, <1>15, <2>3
    <3> QED BY <1>11, <2>3, <3>1
  <2>4. CASE x \notin T
    <3>1. thr[u].inc \in deleted' <=> thr[u].inc \in deleted
      BY <1>8, <1>10, <2>1, <2>4
    <3> QED BY <1>12, <2>1, <2>2, <2>4, <3>1
  <2> QED BY <2>3, <2>4
<1>17. EntryIsStored'
  <2> SUFFICES ASSUME NEW x \in Ids, HasEntry(x), x \notin T
               PROVE  record[x] = thr'[active_sessions[x]].inc
    BY <1>6, <1>12, <1>14 DEF EntryIsStored
  <2> QED BY <1>3, <1>4, <1>14 DEF StoreIInv, EntryIsStored, SameThreads
<1>18. ListedIsStored'
  <2> SUFFICES ASSUME NEW x \in Ids
               PROVE  session_metadata'[x] =
                         IF record'[x] \in deleted' THEN Absent ELSE record'[x]
    BY DEF ListedIsStored
  <2>1. CASE x \in T
    BY <1>6, <1>11, <2>1 DEF Void
  <2>2. CASE x \notin T
    BY <1>3, <1>6, <1>12, <2>2 DEF StoreIInv, ListedIsStored
  <2> QED BY <2>1, <2>2
<1>19. MarkedIsDeleted'
  <2>1. \A x \in deleted_sessions' : Void(x)'
    <3>1. deleted_sessions \subseteq Ids
      BY <1>1 DEF TypeOK
    <3> QED BY <1>3, <1>5, <1>11, <1>13, <3>1 DEF StoreIInv, MarkedIsDeleted
  <2>2. ASSUME NEW u \in Threads, thr[u].phase \in LivePhases, NEW x, x = thr[u].sid,
               x \in deleted_sessions'
        PROVE  thr[u].inc \in deleted'
    <3>1. x \in deleted_sessions \/ x \in T
      BY <1>3, <1>5, <2>2
    <3> QED BY <1>8, <1>15, <2>2, <3>1
  <2>3. \A x \in Ids : Finalizing(x)' => x \in deleted_sessions'
    BY <1>3, <1>14 DEF StoreIInv, MarkedIsDeleted
  <2> QED BY <1>4, <2>1, <2>2, <2>3 DEF MarkedIsDeleted, SameThreads
<1>20. TombstoneIsDeleted'
  <2>1. tombstone \subseteq Ids
    BY <1>1 DEF TypeOK
  <2>2. \A x \in tombstone' : Void(x)'
    BY <1>2, <1>5, <1>11, <1>13, <2>1 DEF StoreIInv, TombstoneIsDeleted
  <2>3. tombstone' \subseteq deleted_sessions'
    BY <1>2, <1>3, <1>5 DEF StoreIInv, TombstoneIsDeleted, Running
  <2>4. ASSUME NEW x \in Ids,
               <<x, "report">> \in finalizers \/ Pending("SessionDeleteFinalized", x)
        PROVE  x \notin tombstone'
    <3>1. x \notin tombstone
      BY <2>4 DEF StoreIInv, TombstoneIsDeleted
    <3>2. x \in deleted_sessions
      BY <1>1, <1>3, <2>4 DEF SessIInv, HandIsGuarded, Finalizing
    <3>3. ~HasEntry(x)
      BY <1>1, <1>3, <3>2 DEF SessIInv, EntryIsServed
    <3> QED BY <1>2, <1>5, <3>1, <3>3
  <2> QED BY <1>3, <1>14, <2>2, <2>3, <2>4 DEF TombstoneIsDeleted
<1>21. StoreIInv'
  BY <1>8, <1>16, <1>17, <1>18, <1>19, <1>20 DEF StoreIInv
<1>22. AskedOnly
  <2> SUFFICES ASSUME NEW x \in Ids, record[x] # Absent, record'[x] # record[x]
               PROVE  record[x] \in asked'
    BY DEF AskedOnly
  <2>1. x \in T /\ record[x] \in Meant(x)
    BY <1>6 DEF Meant
  <2> QED BY <1>8, <2>1
<1>23. \E D \in SUBSET Sessions : Sessions' = Sessions \ D
  <2> DEFINE D == {i \in Sessions : \E x \in T : record[x] = i}
  <2>1. \A i : i \in Sessions <=> \E x \in Ids : i = record[x] /\ ~Void(x)
    BY DEF Sessions, Void
  <2>2. \A i : i \in Sessions' <=> \E x \in Ids : i = record'[x] /\ ~Void(x)'
    BY DEF Sessions, Void
  <2>3. ASSUME NEW i \in Sessions' PROVE i \in Sessions /\ i \notin D
    <3>1. PICK x \in Ids : i = record'[x] /\ ~Void(x)'
      BY <2>2
    <3>2. x \notin T /\ i = record[x] /\ ~Void(x)
      BY <1>11, <1>12, <3>1
    <3>3. ASSUME NEW z \in T, record[z] = i PROVE FALSE
      <4>1. i \in Incarnations /\ Own(i, x) /\ Own(i, z)
        BY <1>1, <3>2, <3>3 DEF Own, Void, TypeOK
      <4> QED BY <1>1, <1>5, <3>2, <4>1 DEF SessIInv, OneIdEach
    <3> QED BY <2>1, <3>2, <3>3
  <2>4. ASSUME NEW i \in Sessions, i \notin D PROVE i \in Sessions'
    <3>1. PICK x \in Ids : i = record[x] /\ ~Void(x)
      BY <2>1
    <3>2. x \notin T
      BY <2>4, <3>1
    <3> QED BY <1>12, <2>2, <3>1, <3>2
  <2>5. Sessions' = Sessions \ D
    BY <2>3, <2>4
  <2> QED BY <2>5
<1> QED BY <1>3, <1>21, <1>22, <1>23

-----------------------------------------------------------------------------

LEMMA StoreInit == Init => StoreIInv
<1> SUFFICES ASSUME Init PROVE StoreIInv
  OBVIOUS
<1>1. SessIInv
  BY SessInit
<1>2. /\ \A u \in Threads : thr[u].phase \notin LivePhases
      /\ \A x : ~Finalizing(x)
      /\ \A op, x : ~Pending(op, x)
  BY DEF Init, FreeThread, LivePhases, Finalizing, Pending
<1>3. /\ deleted \subseteq asked /\ ServedIsStored /\ EntryIsStored
      /\ ListedIsStored /\ MarkedIsDeleted /\ TombstoneIsDeleted
  BY <1>2 DEF Init, ServedIsStored, EntryIsStored, ListedIsStored,
     MarkedIsDeleted, TombstoneIsDeleted, Running
<1> QED BY <1>1, <1>3 DEF StoreIInv

\* Every step keeps the invariant, takes no session nobody asked to delete, and
\* creates one, deletes some, or leaves the sessions as they are.
LEMMA StoreStep ==
    ASSUME StoreIInv, NoFaults, [Next]_vars
    PROVE  /\ StoreIInv'
           /\ AskedOnly
           /\ \/ SessionsKept
              \/ /\ mode = "up" /\ mode' = "up"
                 /\ \/ /\ born < MaxBorn /\ born' = born + 1
                       /\ Sessions' = Sessions \cup {born + 1}
                    \/ /\ born' = born
                       /\ \E D \in SUBSET Sessions : Sessions' = Sessions \ D
<1>1. SessIInv'
  BY SessStep DEF StoreIInv, NoFaults, Survivable
<1>2. CASE Boot
  BY <1>1, <1>2, BootStore
<1>3. ASSUME NEW p \in Ids \cup {0}, NEW t \in Threads, CreateSession(p, t)
      PROVE  /\ StoreIInv' /\ AskedOnly
             /\ mode = "up" /\ mode' = "up" /\ born < MaxBorn /\ born' = born + 1
             /\ Sessions' = Sessions \cup {born + 1}
  BY <1>1, <1>3, CreateStore
<1>4. ASSUME NEW x \in Ids, NEW t \in Threads, AttachSession(x, t)
      PROVE  StoreIInv' /\ AskedOnly /\ SessionsKept
  BY <1>1, <1>4, AttachStore
<1>5. ASSUME NEW x \in Ids, DeleteSession(x)
      PROVE  /\ StoreIInv' /\ AskedOnly
             /\ mode = "up" /\ mode' = "up" /\ born' = born
             /\ \E D \in SUBSET Sessions : Sessions' = Sessions \ D
  BY <1>1, <1>5, DeleteStore
<1>6. CASE HandleQueued
  BY <1>1, <1>6, UpdateMetadataStore, SessionExitedStore, FinalizedStore DEF HandleQueued
<1>7. ASSUME NEW x \in Ids, Finalize(x)
      PROVE  StoreIInv' /\ AskedOnly /\ SessionsKept
  BY <1>1, <1>7, FinalizeDeleteStore, FinalizeRestStore DEF Finalize
<1>8. ASSUME NEW t \in Threads, ThreadStep(t)
      PROVE  StoreIInv' /\ AskedOnly /\ SessionsKept
  BY <1>1, <1>8, ThreadStore
<1>9. CASE BeginTeardown \/ ProcessEnds
  BY <1>1, <1>9, ProcessStore
<1>10. CASE UNCHANGED vars
  <2>1. SessionsKept /\ AskedOnly
    BY <1>10, Quietly DEF vars, disk, history
  <2>2. /\ \A x : Void(x)' <=> Void(x)
        /\ \A x : HasEntry(x)' <=> HasEntry(x)
        /\ \A x : Finalizing(x)' <=> Finalizing(x)
        /\ \A op, x : Pending(op, x)' <=> Pending(op, x)
    BY <1>10 DEF vars, disk, memory, history, Void, HasEntry, Finalizing, Pending
  <2>3. /\ ServedIsStored' /\ EntryIsStored' /\ ListedIsStored'
        /\ MarkedIsDeleted' /\ TombstoneIsDeleted' /\ (deleted \subseteq asked)'
    BY <1>10, <2>2 DEF vars, disk, memory, history, StoreIInv, ServedIsStored,
       EntryIsStored, ListedIsStored, MarkedIsDeleted, TombstoneIsDeleted, Running
  <2> QED BY <1>1, <2>1, <2>3 DEF StoreIInv
<1> QED BY <1>2, <1>3, <1>4, <1>5, <1>6, <1>7, <1>8, <1>9, <1>10
        DEF Next, ClientCommand

LEMMA StoreInvariant == ASSUME NoFaults PROVE Spec => []StoreIInv
<1>1. StoreIInv /\ [Next]_vars => StoreIInv'
  BY StoreStep
<1> QED BY <1>1, StoreInit, PTL DEF Spec

\* While the daemon serves clients the index lists the sessions that exist.
ListsAll ==
    mode = "up" => {session_metadata[x] : x \in Ids} \ {Absent} = Sessions

LEMMA ListedAll == StoreIInv => ListsAll
<1> SUFFICES ASSUME StoreIInv, mode = "up", NEW i
             PROVE  i \in {session_metadata[x] : x \in Ids} \ {Absent} <=> i \in Sessions
  BY DEF ListsAll
<1>1. \A x \in Ids :
         session_metadata[x] = IF record[x] \in deleted THEN Absent ELSE record[x]
  BY DEF StoreIInv, ListedIsStored
<1>2. Absent \notin deleted
  BY ConstantsAssumption DEF StoreIInv, SessIInv, TypeOK, Incarnations, Absent
<1> QED BY <1>1, <1>2 DEF Sessions

\* The index holds no ghost: without database failures, a listed session that
\* has no thread and no pending delete is on disk as it is listed, so that it
\* can be attached (handle_session_exited, handle_update_metadata,
\* handle_delete_session).
THEOREM NoGhosts == ASSUME NoFaults PROVE Spec => []NoGhostEntry
<1>1. StoreIInv => NoGhostEntry
  BY DEF StoreIInv, ListedIsStored, NoGhostEntry
<1> QED BY <1>1, StoreInvariant, PTL

\* No purge, finalizer, reuse of an id or late write of a dying thread takes a
\* session whose deletion nobody asked for (purge_tombstoned_sessions,
\* finalize_session_delete, persist_and_exit).
THEOREM NobodyElseVanishes == ASSUME NoFaults PROVE Spec => OnlyAskedVanish
<1>1. StoreIInv /\ [Next]_vars => [AskedOnly]_vars
  BY StoreStep
<1> QED BY <1>1, StoreInvariant, PTL DEF Spec, OnlyAskedVanish, AskedOnly

\* The daemon implements the atomic store: the initial states map to an empty
\* store that is down, and every step of a thread, a finalizer, the command
\* loop, the boot or a crash is Create, Delete, Stop, Start or invisible.
THEOREM StoreRefined == ASSUME NoFaults PROVE Spec => ImplementsStore
<1>1. Init => Store!Init
  BY DEF Init, Store!Init, Absent
<1>2. ASSUME StoreIInv, [Next]_vars PROVE [Store!Next]_(Store!vars)
  <2>1. StoreIInv'
    BY <1>2, StoreStep
  <2>2. ListsAll /\ ListsAll'
    BY <1>2, <2>1, ListedAll, PTL
  <2> DEFINE listed == IF mode = "up"
                       THEN {session_metadata[x] : x \in Ids} \ {Absent} ELSE {}
  <2>3. listed = (IF mode = "up" THEN Sessions ELSE {})
        /\ listed' = (IF mode' = "up" THEN Sessions' ELSE {})
    BY <2>2 DEF ListsAll
  <2> HIDE DEF listed
  <2>4. \/ Store!Create \/ Store!Delete \/ Store!Stop \/ Store!Start
        \/ Sessions' = Sessions /\ listed' = listed /\ born' = born
           /\ (mode' = "up") = (mode = "up")
    <3>1. CASE SessionsKept
      BY <2>3, <3>1 DEF SessionsKept, Store!Stop, Store!Start, listed, Sessions
    <3>2. CASE /\ mode = "up" /\ mode' = "up"
               /\ born < MaxBorn /\ born' = born + 1
               /\ Sessions' = Sessions \cup {born + 1}
      BY <2>3, <3>2 DEF Store!Create, listed, Sessions
    <3>3. ASSUME mode = "up", mode' = "up", born' = born,
                 NEW D \in SUBSET Sessions, Sessions' = Sessions \ D
          PROVE  \/ Store!Delete
                 \/ Sessions' = Sessions /\ listed' = listed /\ born' = born
                    /\ (mode' = "up") = (mode = "up")
      BY <2>3, <3>3 DEF Store!Delete, listed, Sessions
    <3> QED BY <1>2, <3>1, <3>2, <3>3, StoreStep
  <2> QED BY <2>4 DEF Store!Next, Store!vars, listed, Sessions
<1> QED BY <1>1, <1>2, StoreInvariant, PTL DEF Spec, ImplementsStore, Store!Spec
=============================================================================
