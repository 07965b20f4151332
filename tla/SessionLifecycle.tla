--------------------------- MODULE SessionLifecycle ---------------------------
(***************************************************************************)
(* The life of a session in choreo-daemon: creation, waking (attach),      *)
(* sleeping (thread exit), deletion with its tombstone, process death and  *)
(* restart.                                                                *)
(*                                                                         *)
(* The actors are the daemon's command loop (one thread, FIFO queue), one  *)
(* thread per awake session, the detached finalizer threads that remove    *)
(* the record of a deleted session, and the boot sequence.  They share the *)
(* redb database, which alone survives the process.                        *)
(*                                                                         *)
(* A client command reaches the loop from a connection thread at an        *)
(* arbitrary moment and carries nothing of the session state, so its       *)
(* handling is an action of its own instead of an entry of the queue.  The *)
(* commands of session threads and finalizers are queue entries: their     *)
(* order is what deletion relies on.                                       *)
(*                                                                         *)
(* An id may be reused after a restart, so a session is identified by an   *)
(* incarnation number, which stands for the content of its record.         *)
(***************************************************************************)
EXTENDS Naturals, Sequences

CONSTANTS
    MaxId,      \* bound on session ids
    MaxBorn,    \* bound on the number of sessions ever created
    MaxQueue,   \* no optional command is sent to a queue this long
    Threads,    \* slots for session threads
    NoThread,   \* "no entry in active_sessions"
    Faults      \* database operations that may fail

FaultKinds == {"write", "mark", "delete", "clear", "purge", "load"}

ASSUME ConstantsAssumption ==
    /\ MaxId \in Nat
    /\ MaxBorn \in Nat
    /\ MaxQueue \in Nat
    /\ NoThread \notin Threads
    /\ Faults \subseteq FaultKinds

Ids == 1..MaxId
Absent == 0                     \* no record, or no index entry
Incarnations == 1..MaxBorn

VARIABLES
    \* the database
    record,            \* sessions table: the incarnation stored under an id
    tombstone,         \* deleted_sessions table
    \* the daemon process
    mode,              \* "down", "boot", "up", "stopping"
    toPurge,           \* tombstones the boot purge has still to visit
    next_session_id,
    active_sessions,   \* the thread serving an id, or NoThread
    session_metadata,  \* the index: the incarnation listed under an id
    sleeping,          \* ids whose index status is Sleeping
    deleted_sessions,  \* the in-memory deleted marker
    children,          \* pairs <<parent, child>>
    queue,             \* commands sent by session threads and finalizers
    \* the other threads
    thr,               \* session threads
    finalizers,        \* pairs <<id, step>> of running finalize threads
    \* history
    born,              \* number of sessions created so far
    asked,             \* incarnations a handled DeleteSession covered
    deleted            \* incarnations whose deletion was announced

disk   == <<record, tombstone>>
memory == <<next_session_id, active_sessions, session_metadata, sleeping,
            deleted_sessions, children>>
history == <<born, asked, deleted>>
vars == <<disk, mode, toPurge, memory, queue, thr, finalizers, history>>

Phases == {"free", "starting", "running", "leaving", "persisted", "exited",
           "finished"}
\* Phases in which a thread may still touch the database or the daemon.
LivePhases == {"starting", "running", "leaving", "persisted"}

ThreadState ==
    {r \in [sid: Ids \cup {0}, inc: Incarnations \cup {Absent}, phase: Phases,
            busy: BOOLEAN, stop: {"no", "sent", "seen"}] :
        r.phase # "free" => r.sid \in Ids /\ r.inc \in Incarnations}

FreeThread == [sid |-> 0, inc |-> Absent, phase |-> "free",
               busy |-> FALSE, stop |-> "no"]

Commands ==
    [op: {"UpdateMetadata", "SessionExited", "SessionDeleteFinalized"},
     sid: Ids, inc: Incarnations \cup {Absent}]

-----------------------------------------------------------------------------
(* Helpers *)

\* A database operation succeeds; it may also fail when listed in Faults.
Outcomes(f) == IF f \in Faults THEN BOOLEAN ELSE {TRUE}
\* The members of T for which operation f fails.
Failures(f, T) == IF f \in Faults THEN SUBSET T ELSE {{}}

Send(op, x, i) ==
    \/ /\ mode = "up"
       /\ queue' = Append(queue, [op |-> op, sid |-> x, inc |-> i])
    \/ /\ mode = "stopping"     \* nobody reads the channel any more
       /\ queue' = queue

\* A slot whose thread is gone and whose handle nobody keeps.
Reusable(t) ==
    /\ thr[t].phase \in {"free", "finished"}
    /\ \A x \in Ids : active_sessions[x] # t

ChildrenOf(x) == {c \in Ids : <<x, c>> \in children}

\* children after the ids of T were removed as parents P or as children C.
Unlink(P, C) == {p \in children : p[1] \notin P /\ p[2] \notin C}

\* The Shutdown command is queued behind whatever the thread still handles.
Shut(s) == IF s = "no" THEN "sent" ELSE s

SendShutdown(targets) ==
    [t \in Threads |-> IF t \in targets
                       THEN [thr[t] EXCEPT !.stop = Shut(thr[t].stop)]
                       ELSE thr[t]]

SpawnSession(x, i, t) ==
    /\ Reusable(t)
    /\ thr' = [thr EXCEPT ![t] = [sid |-> x, inc |-> i, phase |-> "starting",
                                  busy |-> FALSE, stop |-> "no"]]
    /\ active_sessions' = [active_sessions EXCEPT ![x] = t]
    /\ session_metadata' = [session_metadata EXCEPT ![x] = i]
    /\ sleeping' = sleeping \ {x}

-----------------------------------------------------------------------------
(* The database is empty and no process runs. *)
Init ==
    /\ record = [x \in Ids |-> Absent]
    /\ tombstone = {}
    /\ mode = "down"
    /\ toPurge = {}
    /\ next_session_id = 1
    /\ active_sessions = [x \in Ids |-> NoThread]
    /\ session_metadata = [x \in Ids |-> Absent]
    /\ sleeping = {}
    /\ deleted_sessions = {}
    /\ children = {}
    /\ queue = <<>>
    /\ thr = [t \in Threads |-> FreeThread]
    /\ finalizers = {}
    /\ born = 0
    /\ asked = {}
    /\ deleted = {}

-----------------------------------------------------------------------------
(* Boot: purge the tombstoned sessions, then load the index. *)

\* purge_tombstoned_sessions collects the ids first; if that read fails the
\* daemon logs it and carries on without purging.
StartBoot ==
    /\ mode = "down"
    /\ mode' = "boot"
    /\ \E ok \in Outcomes("purge") : toPurge' = IF ok THEN tombstone ELSE {}
    /\ UNCHANGED <<disk, memory, queue, thr, finalizers, history>>

\* One round of the purge loop: delete the record, then clear the tombstone.
PurgeOne_KeepsRecord(x) ==
    /\ mode = "boot"
    /\ x \in toPurge
    /\ toPurge' = toPurge \ {x}
    /\ tombstone' = tombstone \ {x}
    /\ UNCHANGED <<record, mode, memory, queue, thr, finalizers, history>>
PurgeOne(x) ==
    /\ mode = "boot"
    /\ x \in toPurge
    /\ toPurge' = toPurge \ {x}
    /\ \E del \in Outcomes("purge"), clr \in Outcomes("clear") :
          /\ record' = IF del THEN [record EXCEPT ![x] = Absent] ELSE record
          /\ tombstone' = IF del /\ clr THEN tombstone \ {x} ELSE tombstone
    /\ UNCHANGED <<mode, memory, queue, thr, finalizers, history>>

\* The id after the highest listed one; 1 if nothing is listed.
NextId_NoDefault(loaded) ==
    CHOOSE n \in 0..(MaxId + 1) :
        /\ \A x \in loaded : x < n
        /\ n = 0 \/ n - 1 \in loaded
NextId_Highest(loaded) ==
    CHOOSE n \in 1..(MaxId + 1) :
        /\ \A x \in loaded : x <= n
        /\ n = 1 \/ n \in loaded
NextId(loaded) ==
    CHOOSE n \in 1..(MaxId + 1) :
        /\ \A x \in loaded : x < n
        /\ n = 1 \/ n - 1 \in loaded

\* main: every loaded record is listed as Sleeping, and the next
\* id follows the highest listed one.  A failed read loads nothing, and an
\* entry that cannot be read or decoded is skipped.
LoadIndex ==
    /\ mode = "boot"
    /\ toPurge = {}
    /\ mode' = "up"
    /\ \E skip \in Failures("load", {x \in Ids : record[x] # Absent}) :
          LET loaded == {x \in Ids : record[x] # Absent} \ skip IN
          /\ session_metadata' = [x \in Ids |-> IF x \in loaded THEN record[x]
                                                ELSE Absent]
          /\ sleeping' = loaded
          /\ next_session_id' = NextId(loaded)
    /\ UNCHANGED <<disk, toPurge, active_sessions, deleted_sessions, children,
                   queue, thr, finalizers, history>>

-----------------------------------------------------------------------------
(* Commands of clients, handled by the command loop. *)

\* handle_create_session.  A failed write is only logged.
CreateSession(p, t) ==
    LET x == next_session_id
        i == born + 1
    IN
    /\ mode = "up"
    /\ x \in Ids
    /\ born < MaxBorn
    /\ p # x
    /\ next_session_id' = x + 1
    /\ born' = i
    /\ \E ok \in Outcomes("write") :
          record' = IF ok THEN [record EXCEPT ![x] = i] ELSE record
    /\ SpawnSession(x, i, t)
    /\ children' = IF p = 0 THEN children ELSE children \cup {<<p, x>>}
    /\ UNCHANGED <<tombstone, mode, toPurge, deleted_sessions, queue,
                   finalizers, asked, deleted>>

\* The guard of handle_attach_session and of handle_update_metadata.
IsDeleted_Unguarded(x) == FALSE
IsDeleted(x) == x \in deleted_sessions

\* handle_attach_session, the branch that changes state: no deleted marker,
\* no active entry, and a record to load.  The other branches only reply.
AttachSession(x, t) ==
    /\ mode = "up"
    /\ ~IsDeleted(x)
    /\ active_sessions[x] = NoThread
    /\ record[x] # Absent
    /\ SpawnSession(x, record[x], t)
    /\ UNCHANGED <<disk, mode, toPurge, next_session_id, deleted_sessions,
                   children, queue, finalizers, history>>

HasEntry(x) == active_sessions[x] # NoThread
IsFinished(x) == HasEntry(x) /\ thr[active_sessions[x]].phase = "finished"
IsLive(x) == HasEntry(x) /\ ~IsFinished(x)

\* The incarnations a client means by the id x.
Meant(x) == ({record[x], session_metadata[x]} \cup
             (IF HasEntry(x) THEN {thr[active_sessions[x]].inc} ELSE {}))
            \ {Absent}

\* delete_session_inner marks every session that still has an active entry,
\* also one whose thread has finished.
Marked_OnlyLive(T) == {y \in T : IsLive(y)}
Marked(T) == {y \in T : HasEntry(y)}

\* The tombstones swept once the record is removed: all but those of a
\* deferred delete that is still pending.
Swept(removed) ==
    {y \in removed : HasEntry(y) \/ y \notin deleted_sessions}

\* handle_delete_session: delete_session_inner for the direct children and
\* for the session itself.  Each of these calls touches its own id only:
\*  - a live thread: marker, tombstone (a failure is only logged), Shutdown;
\*    the record is removed after the thread has exited;
\*  - a finished thread (delete_finished_session): marker, then the record
\*    and any stale tombstone are removed at once;
\*  - no thread: the record is removed at once, and a stale tombstone unless
\*    an earlier deferred delete still owns it.
\* A failed record removal returns before the index entry is dropped and
\* before the deletion is announced.
DeleteSession(x) ==
    LET T == {x} \cup ChildrenOf(x)
        live == {y \in T : IsLive(y)}
    IN
    /\ mode = "up"
    /\ \E delFail \in Failures("delete", T \ live),
          markFail \in Failures("mark", live),
          clearFail \in Failures("clear", T \ live) :
          LET removed == (T \ live) \ delFail
              gone == live \cup removed
          IN
          /\ record' = [y \in Ids |-> IF y \in removed THEN Absent
                                      ELSE record[y]]
          /\ tombstone' = (tombstone \cup (live \ markFail))
                            \ (Swept(removed) \ clearFail)
          /\ session_metadata' = [y \in Ids |-> IF y \in gone THEN Absent
                                                ELSE session_metadata[y]]
          /\ sleeping' = sleeping \ gone
          /\ deleted' = deleted \cup UNION {Meant(y) : y \in gone}
    /\ asked' = asked \cup UNION {Meant(y) : y \in T}
    /\ deleted_sessions' = deleted_sessions \cup Marked(T)
    /\ active_sessions' = [y \in Ids |-> IF y \in T THEN NoThread
                                         ELSE active_sessions[y]]
    /\ children' = Unlink({x}, T)
    /\ thr' = SendShutdown({active_sessions[y] : y \in live})
    /\ UNCHANGED <<mode, toPurge, next_session_id, queue, finalizers, born>>

-----------------------------------------------------------------------------
(* Commands of session threads and finalizers, in queue order. *)

Dequeue(op) ==
    /\ mode = "up"
    /\ queue # <<>>
    /\ Head(queue).op = op
    /\ queue' = Tail(queue)

\* handle_update_metadata: ignored for a deleted session; inserts the entry
\* if there is none, and never takes an entry out of Sleeping.
HandleUpdateMetadata ==
    /\ Dequeue("UpdateMetadata")
    /\ LET x == Head(queue).sid IN
       IF IsDeleted(x)
       THEN UNCHANGED <<session_metadata, sleeping>>
       ELSE /\ session_metadata' = [session_metadata EXCEPT
                                        ![x] = Head(queue).inc]
            /\ sleeping' = IF session_metadata[x] = Absent
                           THEN sleeping \ {x} ELSE sleeping
    /\ UNCHANGED <<disk, mode, toPurge, next_session_id, active_sessions,
                   deleted_sessions, children, thr, finalizers, history>>

FallAsleep_Never(x) == sleeping
FallAsleep(x) == IF session_metadata[x] # Absent THEN sleeping \cup {x}
                 ELSE sleeping

StartFinalizer_OnlyListed(x) ==
    IF x \in deleted_sessions /\ session_metadata[x] # Absent
    THEN finalizers \cup {<<x, "delete">>} ELSE finalizers
StartFinalizer(x) ==
    IF x \in deleted_sessions THEN finalizers \cup {<<x, "delete">>}
    ELSE finalizers

\* handle_session_exited: drop the active entry, shut the children down, mark
\* the entry Sleeping, and hand a pending delete to a finalizer.
HandleSessionExited ==
    /\ Dequeue("SessionExited")
    /\ LET x == Head(queue).sid
           kids == ChildrenOf(x)
       IN
       /\ active_sessions' = [active_sessions EXCEPT ![x] = NoThread]
       /\ children' = Unlink({x}, kids)
       /\ thr' = SendShutdown({active_sessions[c] : c \in kids \ {x}})
       /\ sleeping' = FallAsleep(x)
       /\ finalizers' = StartFinalizer(x)
    /\ UNCHANGED <<disk, mode, toPurge, next_session_id, session_metadata,
                   deleted_sessions, history>>

HandleSessionDeleteFinalized ==
    /\ Dequeue("SessionDeleteFinalized")
    /\ deleted_sessions' = deleted_sessions \ {Head(queue).sid}
    /\ UNCHANGED <<disk, mode, toPurge, next_session_id, active_sessions,
                   session_metadata, sleeping, children, thr, finalizers,
                   history>>

-----------------------------------------------------------------------------
(* finalize_session_delete, on its own thread: delete the record, clear the *)
(* tombstone, report.  A failed delete ends it with marker and tombstone    *)
(* kept.                                                                    *)

Running == mode \in {"up", "stopping"}

FinalizeDelete(x) ==
    /\ Running
    /\ <<x, "delete">> \in finalizers
    /\ \E ok \in Outcomes("delete") :
          /\ record' = IF ok THEN [record EXCEPT ![x] = Absent] ELSE record
          /\ finalizers' = (finalizers \ {<<x, "delete">>}) \cup
                           (IF ok THEN {<<x, "clear">>} ELSE {})
    /\ UNCHANGED <<tombstone, mode, toPurge, memory, queue, thr, history>>

FinalizeClear(x) ==
    /\ Running
    /\ <<x, "clear">> \in finalizers
    /\ \E ok \in Outcomes("clear") :
          tombstone' = IF ok THEN tombstone \ {x} ELSE tombstone
    /\ finalizers' = (finalizers \ {<<x, "clear">>}) \cup {<<x, "report">>}
    /\ UNCHANGED <<record, mode, toPurge, memory, queue, thr, history>>

FinalizeReport(x) ==
    /\ Running
    /\ <<x, "report">> \in finalizers
    /\ Send("SessionDeleteFinalized", x, Absent)
    /\ finalizers' = finalizers \ {<<x, "report">>}
    /\ UNCHANGED <<disk, mode, toPurge, memory, thr, history>>

-----------------------------------------------------------------------------
(* A session thread.  Subscribers are left out: a thread without an active  *)
(* request may always find that its last subscriber has gone.               *)

AtPhase(t, ph) == Running /\ thr[t].phase = ph

WriteRecord(t) ==
    \E ok \in Outcomes("write") :
        record' = IF ok THEN [record EXCEPT ![thr[t].sid] = thr[t].inc]
                  ELSE record

\* session_main up to its loop.
ThreadStart(t) ==
    /\ AtPhase(t, "starting")
    /\ thr' = [thr EXCEPT ![t].phase = "running"]
    /\ Send("UpdateMetadata", thr[t].sid, thr[t].inc)
    /\ UNCHANGED <<disk, mode, toPurge, memory, finalizers, history>>

\* handle_run_input / handle_run_child_input accepting a request.
ThreadRunInput(t) ==
    /\ AtPhase(t, "running")
    /\ Len(queue) < MaxQueue
    /\ ~thr[t].busy
    /\ thr[t].stop # "seen"
    /\ thr' = [thr EXCEPT ![t].busy = TRUE]
    /\ UNCHANGED <<disk, mode, toPurge, memory, queue, finalizers, history>>

\* A setting changes: persist_session_metadata.
ThreadPersistMetadata(t) ==
    /\ AtPhase(t, "running")
    /\ Len(queue) < MaxQueue
    /\ WriteRecord(t)
    /\ Send("UpdateMetadata", thr[t].sid, thr[t].inc)
    /\ UNCHANGED <<tombstone, mode, toPurge, memory, thr, finalizers, history>>

\* handle_request_finished: write the record, update the index, and leave the
\* loop when shutting down or when no subscriber is left.
ThreadRequestFinished(t) ==
    /\ AtPhase(t, "running")
    /\ thr[t].busy
    /\ WriteRecord(t)
    /\ Send("UpdateMetadata", thr[t].sid, thr[t].inc)
    /\ \E leave \in BOOLEAN :
          /\ thr[t].stop = "seen" => leave
          /\ thr' = [thr EXCEPT ![t].busy = FALSE,
                                ![t].phase = IF leave THEN "leaving" ELSE @]
    /\ UNCHANGED <<tombstone, mode, toPurge, memory, finalizers, history>>

\* handle_shutdown.
ThreadShutdown(t) ==
    /\ AtPhase(t, "running")
    /\ thr[t].stop = "sent"
    /\ thr' = [thr EXCEPT ![t].stop = "seen",
                          ![t].phase = IF thr[t].busy THEN @ ELSE "leaving"]
    /\ UNCHANGED <<disk, mode, toPurge, memory, queue, finalizers, history>>

\* handle_detach / handle_remove_subscriber of the last subscriber.
ThreadLastDetach(t) ==
    /\ AtPhase(t, "running")
    /\ ~thr[t].busy
    /\ thr' = [thr EXCEPT ![t].phase = "leaving"]
    /\ UNCHANGED <<disk, mode, toPurge, memory, queue, finalizers, history>>

\* persist_and_exit: the record first, then SessionExited.
ThreadPersist(t) ==
    /\ AtPhase(t, "leaving")
    /\ WriteRecord(t)
    /\ thr' = [thr EXCEPT ![t].phase = "persisted"]
    /\ UNCHANGED <<tombstone, mode, toPurge, memory, queue, finalizers, history>>

ThreadSendExited(t) ==
    /\ AtPhase(t, "persisted")
    /\ Send("SessionExited", thr[t].sid, Absent)
    /\ thr' = [thr EXCEPT ![t].phase = "exited"]
    /\ UNCHANGED <<disk, mode, toPurge, memory, finalizers, history>>

\* From here on JoinHandle::is_finished holds.
ThreadFinish(t) ==
    /\ AtPhase(t, "exited")
    /\ thr' = [thr EXCEPT ![t].phase = "finished"]
    /\ UNCHANGED <<disk, mode, toPurge, memory, queue, finalizers, history>>

-----------------------------------------------------------------------------
(* The process *)

\* The command loop leaves on Shutdown and signals every active session.
\* Sessions already deleted have no active entry and are not signalled again.
BeginTeardown ==
    /\ mode = "up"
    /\ mode' = "stopping"
    /\ thr' = SendShutdown({active_sessions[x] : x \in Ids})
    /\ active_sessions' = [x \in Ids |-> NoThread]
    /\ UNCHANGED <<disk, toPurge, next_session_id, session_metadata, sleeping,
                   deleted_sessions, children, queue, finalizers, history>>

\* The process ends: the bounded joins are over, or it crashed.  Only the
\* database survives.
ProcessEnds ==
    /\ mode # "down"
    /\ mode' = "down"
    /\ toPurge' = {}
    /\ next_session_id' = 1
    /\ active_sessions' = [x \in Ids |-> NoThread]
    /\ session_metadata' = [x \in Ids |-> Absent]
    /\ sleeping' = {}
    /\ deleted_sessions' = {}
    /\ children' = {}
    /\ queue' = <<>>
    /\ thr' = [t \in Threads |-> FreeThread]
    /\ finalizers' = {}
    /\ UNCHANGED <<disk, history>>

-----------------------------------------------------------------------------
Boot == StartBoot \/ LoadIndex \/ \E x \in Ids : PurgeOne(x)

ClientCommand ==
    \/ \E p \in Ids \cup {0}, t \in Threads : CreateSession(p, t)
    \/ \E x \in Ids, t \in Threads : AttachSession(x, t)
    \/ \E x \in Ids : DeleteSession(x)

HandleQueued ==
    \/ HandleUpdateMetadata
    \/ HandleSessionExited
    \/ HandleSessionDeleteFinalized

Finalize(x) == FinalizeDelete(x) \/ FinalizeClear(x) \/ FinalizeReport(x)

\* The steps a session thread takes by itself once it has been asked to stop.
ThreadWindDown(t) ==
    \/ ThreadStart(t)
    \/ ThreadRequestFinished(t)
    \/ ThreadShutdown(t)
    \/ ThreadPersist(t)
    \/ ThreadSendExited(t)
    \/ ThreadFinish(t)

ThreadStep(t) ==
    \/ ThreadWindDown(t)
    \/ ThreadRunInput(t)
    \/ ThreadPersistMetadata(t)
    \/ ThreadLastDetach(t)

Next ==
    \/ Boot
    \/ ClientCommand
    \/ HandleQueued
    \/ \E x \in Ids : Finalize(x)
    \/ \E t \in Threads : ThreadStep(t)
    \/ BeginTeardown
    \/ ProcessEnds

Spec == Init /\ [][Next]_vars

\* Threads run when they can, a session thread reaches every command of its
\* inbox, and a request worker that was cancelled returns.  Nothing forces a
\* client command, a teardown or a crash; a process that went down is started
\* again.
Fairness ==
    /\ WF_vars(Boot)
    /\ WF_vars(HandleQueued)
    /\ \A x \in Ids : WF_vars(Finalize(x))
    /\ \A t \in Threads : WF_vars(ThreadShutdown(t)) /\
                          WF_vars(ThreadWindDown(t))

FairSpec == Spec /\ Fairness

-----------------------------------------------------------------------------
(* Properties *)

\* Types; a thread that runs serves an id with an incarnation, and the next
\* session id is never 0 nor beyond the one after the last.
TypeOK ==
    /\ record \in [Ids -> Incarnations \cup {Absent}]
    /\ tombstone \subseteq Ids
    /\ mode \in {"down", "boot", "up", "stopping"}
    /\ toPurge \subseteq Ids
    /\ next_session_id \in 1..(MaxId + 1)
    /\ active_sessions \in [Ids -> Threads \cup {NoThread}]
    /\ session_metadata \in [Ids -> Incarnations \cup {Absent}]
    /\ sleeping \subseteq Ids
    /\ deleted_sessions \subseteq Ids
    /\ children \subseteq Ids \X Ids
    /\ queue \in Seq(Commands)
    /\ thr \in [Threads -> ThreadState]
    /\ finalizers \subseteq Ids \X {"delete", "clear", "report"}
    /\ born \in 0..MaxBorn
    /\ asked \subseteq Incarnations
    /\ deleted \subseteq Incarnations

\* A session whose deletion was announced never comes back: it is not listed,
\* no thread serves it as active, and no attach could load it, in this process
\* or after any crash and restart (handle_attach_session's and
\* handle_update_metadata's marker checks, the tombstone, the boot purge).
NoResurrection ==
    mode = "up" =>
        \A x \in Ids :
            /\ session_metadata[x] \notin deleted
            /\ HasEntry(x) => thr[active_sessions[x]].inc \notin deleted
            /\ x \notin deleted_sessions => record[x] \notin deleted

\* While the record of a deleted session is on disk, so is its tombstone: at
\* whatever point the process dies, the next boot finds the session to purge.
TombstoneCoversRecord ==
    \A x \in Ids : record[x] \in deleted => x \in tombstone

\* Two threads that can still write the record or talk to the daemon never
\* serve the same session id (spawn_session under active_sessions and the
\* marker).
OneThreadPerSession ==
    \A t, u \in Threads :
        /\ thr[t].phase \in LivePhases
        /\ thr[u].phase \in LivePhases
        /\ thr[t].sid = thr[u].sid
        => t = u

\* A session listed as awake is served: a thread that is gone always leaves
\* its entry Sleeping, whatever its late updates claim (the exit marker of
\* handle_session_exited and handle_update_metadata).
AwakeIsServed ==
    mode = "up" =>
        \A x \in Ids :
            (session_metadata[x] # Absent /\ x \notin sleeping) =>
                HasEntry(x) \/ x \in deleted_sessions

\* A listed session without a thread is on disk as it is listed, so that it
\* can be attached: the index holds no ghost.
NoGhostEntry ==
    mode = "up" =>
        \A x \in Ids :
            (session_metadata[x] # Absent /\ ~HasEntry(x)
                /\ x \notin deleted_sessions) =>
                record[x] = session_metadata[x]

\* A stored session disappears, or is replaced by another one, only if a
\* client asked for its deletion: no purge, finalizer, reuse of an id or late
\* write takes a session nobody deleted.
OnlyAskedVanish ==
    [][\A x \in Ids :
          record[x] # Absent /\ record'[x] # record[x] =>
              record[x] \in asked']_vars

\* Every deferred delete is completed: as long as the process stays up, a
\* tombstone and a deleted marker are eventually removed, and the record with
\* them (Shutdown, SessionExited, finalize_session_delete,
\* SessionDeleteFinalized).
DeleteCompletes ==
    \A x \in Ids :
        (mode = "up" /\ (x \in tombstone \/ x \in deleted_sessions)) ~>
            \/ mode # "up"
            \/ x \notin tombstone /\ x \notin deleted_sessions
               /\ record[x] \notin deleted

\* The daemon implements the atomic store of SessionStore: deferred deletes,
\* finalizers, late writes of a dying thread, crashes and boot purges are
\* invisible to a client.
Store == INSTANCE SessionStore WITH
    sessions <- {record[x] : x \in Ids} \ ({Absent} \cup deleted),
    listed <- IF mode = "up" THEN {session_metadata[x] : x \in Ids} \ {Absent}
              ELSE {},
    up <- mode = "up"

ImplementsStore == Store!Spec

\* An id that a session has: its record, its thread, its entry among the
\* running ones, or the marker of its deletion.
Taken(x) ==
    \/ record[x] # Absent
    \/ HasEntry(x)
    \/ x \in deleted_sessions
    \/ \E t \in Threads : thr[t].sid = x /\ thr[t].phase \in LivePhases

\* The id a new session gets is no other session's ("so a fresh daemon never
\* collides with a persisted session"): it overwrites no record, shares no
\* thread, and is not refused by the marker of a session deleted before it.
FreshIdIsFree ==
    [][born' # born => ~Taken(next_session_id)]_vars

\* The boot purge removes nothing but sessions whose deletion was requested
\* ("a leftover tombstone would only trigger a redundant startup purge").
PurgeIsRedundant ==
    [][mode = "boot" =>
          \A x \in Ids : record'[x] # record[x] => record[x] \in asked]_vars

=============================================================================
