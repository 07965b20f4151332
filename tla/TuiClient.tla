----------------------------- MODULE TuiClient -----------------------------
(***************************************************************************)
(* The terminal client and its connection: which session the user sees,    *)
(* which session the connection is attached to, and to which session the   *)
(* text in the one input bar belongs.  The client moves its view when it   *)
(* asks for an attach, and again when it is told of one; the connection    *)
(* moves when it handles the request.                                      *)
(*                                                                         *)
(* A text is the set of sessions it was typed in, with Nowhere for what    *)
(* was typed while none was shown and Entry for a prompt recalled from the *)
(* history.  A status change, a creation and a deletion are in the         *)
(* client's sink when they happen; it reads them at any later time.  The   *)
(* keystore is unlocked, or Enter would refuse a prompt by itself.         *)
(* Removing typed characters, the other pages and what is drawn are left   *)
(* out.                                                                    *)
(***************************************************************************)
EXTENDS Naturals, Sequences

CONSTANTS
    MaxChats,       \* sessions that may ever exist
    Stored,         \* sessions that exist when the client starts
    MaxTyped,       \* times the user types, or recalls a prompt
    MaxKeys,        \* switches, creations, deletions, lists and prompts
    MaxElsewhere    \* creations, deletions, status changes of others

ASSUME TuiBounds ==
    /\ {MaxChats, MaxTyped, MaxKeys, MaxElsewhere} \subseteq Nat
    /\ Stored \in 0 .. MaxChats

Rooms == 1 .. MaxChats
Nowhere == 0
Entry == MaxChats + 1

VARIABLES
    \* the client (App)
    page,       \* "chat" or "manager"
    listed,     \* the status of a session in session_mgr.sessions, or "no"
    shown,      \* attached_session_id
    input, saved_draft, browsing, drafts,
    \* the channels, the connection and the daemon
    toDaemon, toTui,
    pending,    \* the answer the connection thread is about to pass on
    at,         \* its attached_session_id
    listening,  \* whether SubscribeAllActivity was handled
    status,     \* the status of a session of the daemon, or "no"
    parent,
    next_session_id,
    \* what the properties ask about
    unsent,     \* sessions with text the user typed and did not submit
    untidy,     \* two attaches were under way at once, or a command was used
    refused,    \* the last attach was refused
    misrouted,  \* a prompt reached another session than the one shown
    typed, keys, elsewhere

app == <<page, listed, shown, input, saved_draft, browsing, drafts>>
server == <<pending, at, listening, status, parent, next_session_id>>
sessions == <<status, parent, next_session_id>>
history == <<unsent, untidy, refused, misrouted>>
counts == <<typed, keys, elsewhere>>
tuiVars == <<app, toDaemon, toTui, server, history, counts>>

Alive == {s \in Rooms : status[s] # "no"}

ToTui(kind, s) == [kind |-> kind, session |-> s]
ToDaemon(kind, s) == [kind |-> kind, session |-> s]

TuiInit ==
    /\ page = "chat" /\ listed = [s \in Rooms |-> "no"] /\ shown = Nowhere
    /\ input = {} /\ saved_draft = {} /\ browsing = "no"
    /\ drafts = [s \in Rooms |-> {}]
    /\ toDaemon = <<ToDaemon("ListSessions", Nowhere),
                    ToDaemon("SubscribeAllActivity", Nowhere)>>
    /\ toTui = <<>> /\ pending = <<>> /\ at = Nowhere /\ listening = FALSE
    /\ parent \in {f \in [Rooms -> {Nowhere, 1}] :
                    \A s \in Rooms : f[s] < s /\ (s > Stored => f[s] = Nowhere)}
    /\ status = [s \in Rooms |-> CASE s > Stored -> "no"
                                    [] parent[s] # Nowhere -> "active"
                                    [] OTHER -> "idle"]
    /\ next_session_id = Stored + 1
    /\ unsent = {} /\ untidy = FALSE /\ refused = FALSE /\ misrouted = FALSE
    /\ typed = 0 /\ keys = 0 /\ elsewhere = 0

(***************************************************************************)
(* The input bar.                                                          *)
(***************************************************************************)
\* restore_history_draft: what the bar holds once the history is left.
Restored(text, saved, state) == IF state = "entry" THEN saved ELSE text

\* Mutant: the bar is not handed over.
PersistInputDraft_Kept(target) == UNCHANGED <<input, saved_draft, browsing, drafts>>

\* persist_input_draft, whose callers rebind shown afterwards.
PersistInputDraft(target) ==
    LET bar == Restored(input, saved_draft, browsing)
        stashed == IF shown = Nowhere THEN drafts ELSE [drafts EXCEPT ![shown] = bar]
    IN /\ browsing' = "no" /\ saved_draft' = {}
       /\ IF shown = Nowhere /\ bar # {}
          THEN input' = bar /\ drafts' = drafts
          ELSE input' = stashed[target] /\ drafts' = [stashed EXCEPT ![target] = {}]

\* Whether an attach has been asked for and its answer not been read
AttachUnderWay ==
    \/ \E i \in DOMAIN toDaemon : toDaemon[i].kind = "AttachSession"
    \/ \E i \in DOMAIN pending : pending[i].kind \in {"SessionAttached", "SessionFailed"}
    \/ \E i \in DOMAIN toTui : toTui[i].kind \in {"SessionAttached", "SessionFailed"}

\* The steps shared by the paths that move the view: ask, hand the bar
\* over, move.
MoveTo(s, asked) ==
    /\ PersistInputDraft(s)
    /\ shown' = s
    /\ toDaemon' = toDaemon \o asked
    /\ untidy' = (untidy \/ AttachUnderWay)
    /\ UNCHANGED <<unsent, refused, misrouted>>

\* attach_to_session, whose UnsubscribeSessionsSummary changes nothing for
\* a client that hears all activity.
AttachToSession(s) ==
    /\ MoveTo(s, <<ToDaemon("AttachSession", s)>>)
    /\ page' = "chat" /\ UNCHANGED listed

(***************************************************************************)
(* What the user does.                                                     *)
(***************************************************************************)
Key == keys < MaxKeys /\ keys' = keys + 1
Edit == typed < MaxTyped /\ typed' = typed + 1 /\ UNCHANGED <<keys, elsewhere>>

\* A key that sends one request and leaves the view where it is
Ask(kind, s) ==
    /\ toDaemon' = Append(toDaemon, ToDaemon(kind, s))
    /\ UNCHANGED <<listed, shown, drafts, refused, misrouted>>

Type ==
    /\ Edit /\ page = "chat"
    /\ shown \notin input /\ input' = input \cup {shown}
    /\ unsent' = unsent \cup ({shown} \ {Nowhere})
    /\ browsing' = IF browsing = "no" THEN "no" ELSE "edited"
    /\ UNCHANGED <<page, listed, shown, saved_draft, drafts, toDaemon, toTui, server,
                   untidy, refused, misrouted>>

\* Up: the first press stashes the draft, later ones replace the entry.
NavigateHistoryUp ==
    /\ Edit /\ page = "chat" /\ shown # Nowhere /\ browsing # "entry"
    /\ saved_draft' = IF browsing = "no" THEN input ELSE saved_draft
    /\ unsent' = IF browsing = "no" THEN unsent ELSE unsent \ (input \ saved_draft)
    /\ input' = {Entry} /\ browsing' = "entry"
    /\ UNCHANGED <<page, listed, shown, drafts, toDaemon, toTui, server, untidy,
                   refused, misrouted>>

NavigateHistoryDown ==
    /\ page = "chat" /\ browsing # "no"
    /\ input' = Restored(input, saved_draft, browsing)
    /\ saved_draft' = {} /\ browsing' = "no"
    /\ UNCHANGED <<page, listed, shown, drafts, toDaemon, toTui, server, history,
                   counts>>

\* Enter: the bar and the draft of the session are cleared whatever the
\* line was; a prompt goes out as RunInput without naming a session.
Submitted ==
    /\ page = "chat"
    /\ input' = {} /\ saved_draft' = {} /\ browsing' = "no"
    /\ unsent' = unsent \ (input \cup saved_draft)

Enter ==
    /\ Submitted /\ input # {}
    /\ drafts' = IF shown = Nowhere THEN drafts ELSE [drafts EXCEPT ![shown] = {}]
    /\ toDaemon' = Append(toDaemon, ToDaemon("RunInput", shown))
    /\ UNCHANGED <<page, listed, shown, untidy, refused, misrouted>>

\* "/session switch", "/session new" and "/session list", typed into an
\* empty bar
SessionCommand(kind, s) ==
    /\ Submitted /\ input = {}
    /\ drafts' = IF shown = Nowhere THEN drafts ELSE [drafts EXCEPT ![shown] = {}]
    /\ toDaemon' = Append(toDaemon, ToDaemon(kind, s))
    /\ untidy' = (untidy \/ kind = "AttachSession")
    /\ UNCHANGED <<page, listed, shown, refused, misrouted>>

\* Ctrl+S, and Esc on the session list
OpenManager ==
    /\ page = "chat" /\ page' = "manager"
    /\ Ask("ListSessions", Nowhere)
    /\ UNCHANGED <<input, saved_draft, browsing, unsent, untidy>>

LeaveManager ==
    /\ page = "manager" /\ page' = "chat"
    /\ UNCHANGED <<listed, shown, input, saved_draft, browsing, drafts, toDaemon, history>>

\* Enter, n, and d followed by y, on the session list
ChooseSession == page = "manager" /\ \E s \in Rooms : listed[s] # "no" /\ AttachToSession(s)

ManagerAsks(kind, s) ==
    /\ page = "manager" /\ Ask(kind, s)
    /\ UNCHANGED <<page, input, saved_draft, browsing, unsent, untidy>>

UserKeys ==
    /\ Key
    /\ \/ Enter \/ OpenManager \/ LeaveManager \/ ChooseSession
       \/ \E k \in {"CreateSession", "ListSessions"} : SessionCommand(k, Nowhere)
       \/ ManagerAsks("CreateSession", Nowhere)
       \/ \E s \in Rooms : listed[s] # "no" /\ ManagerAsks("DeleteSession", s)
    /\ UNCHANGED <<toTui, server, typed, elsewhere>>

SwitchByCommand ==
    /\ Key
    /\ \E s \in Rooms : SessionCommand("AttachSession", s)
    /\ UNCHANGED <<toTui, server, typed, elsewhere>>

(***************************************************************************)
(* The connection thread and the command loop.                             *)
(***************************************************************************)
\* broadcast: lifecycle events for a client that hears all activity
Broadcast(msgs) == toTui' = IF listening THEN toTui \o msgs ELSE toTui

\* handle_create_session
CreateSession(s, above) ==
    /\ s = next_session_id /\ next_session_id' = s + 1
    /\ status' = [status EXCEPT ![s] = "idle"]
    /\ parent' = [parent EXCEPT ![s] = above]
    /\ Broadcast(<<ToTui("SessionCreated", s), ToTui("StatusIdle", s)>>)

\* teardown_session
Deletion(s) ==
    /\ status' = [status EXCEPT ![s] = "no"]
    /\ UNCHANGED <<parent, next_session_id>>
    /\ Broadcast(<<ToTui("SessionDeleted", s)>>)

\* One request of the client, up to the reply of the command loop
ConnectionTakes ==
    /\ pending = <<>> /\ toDaemon # <<>>
    /\ toDaemon' = Tail(toDaemon)
    /\ LET m == Head(toDaemon)
           s == m.session
       IN \/ /\ m.kind = "ListSessions"
             /\ pending' = <<[kind |-> "Sessions", list |-> status]>>
             /\ UNCHANGED <<toTui, at, listening, sessions, history>>
          \/ /\ m.kind = "SubscribeAllActivity" /\ listening' = TRUE
             /\ UNCHANGED <<toTui, pending, at, sessions, history>>
          \/ /\ m.kind = "AttachSession"
             /\ pending' = <<ToTui(IF s \in Alive THEN "SessionAttached" ELSE "SessionFailed", s)>>
             /\ UNCHANGED <<toTui, at, listening, sessions, history>>
          \/ /\ m.kind = "CreateSession"
             /\ next_session_id \in Rooms /\ CreateSession(next_session_id, Nowhere)
             /\ pending' = <<ToTui("SessionCreated", next_session_id)>>
             /\ UNCHANGED <<at, listening, history>>
          \/ /\ m.kind = "DeleteSession"
             /\ IF s \in Alive THEN Deletion(s) ELSE UNCHANGED <<toTui, sessions>>
             /\ UNCHANGED <<pending, at, listening, history>>
          \/ /\ m.kind = "RunInput"
             /\ misrouted' = (misrouted \/ (at \in Alive /\ at # s /\ ~refused))
             /\ UNCHANGED <<toTui, server, unsent, untidy, refused>>
    /\ UNCHANGED <<app, counts>>

\* Mutant: only the first attach moves the connection.
ConnectionAnswers_First ==
    /\ pending # <<>> /\ pending' = <<>>
    /\ toTui' = toTui \o pending
    /\ at' = IF Head(pending).kind = "SessionAttached" /\ at = Nowhere
             THEN Head(pending).session ELSE at
    /\ UNCHANGED <<app, toDaemon, listening, sessions, history, counts>>

\* The answer goes into the sink, and an attach moves the connection.
ConnectionAnswers ==
    /\ pending # <<>> /\ pending' = <<>>
    /\ toTui' = toTui \o pending
    /\ LET m == Head(pending)
       IN /\ at' = IF m.kind = "SessionAttached" THEN m.session ELSE at
          /\ refused' = CASE m.kind = "SessionAttached" -> FALSE
                          [] m.kind = "SessionFailed" -> TRUE
                          [] OTHER -> refused
    /\ UNCHANGED <<app, toDaemon, listening, sessions, unsent, untidy, misrouted,
                   counts>>

\* Sessions are created, deleted, started and finished by others.
Elsewhere ==
    /\ elsewhere < MaxElsewhere /\ elsewhere' = elsewhere + 1
    /\ \/ next_session_id \in Rooms /\ \E above \in Alive \cup {Nowhere} : CreateSession(next_session_id, above)
       \/ \E s \in Alive : Deletion(s)
       \/ \E s \in Alive :
            /\ status' = [status EXCEPT ![s] = IF @ = "idle" THEN "active" ELSE "idle"]
            /\ Broadcast(<<ToTui(IF status[s] = "idle" THEN "StatusActive" ELSE "StatusIdle", s)>>)
            /\ UNCHANGED <<parent, next_session_id>>
    /\ UNCHANGED <<app, toDaemon, pending, at, listening, history, typed, keys>>

(***************************************************************************)
(* The messages of the daemon (handle_daemon_message).                     *)
(***************************************************************************)
Nothing == UNCHANGED <<app, toDaemon, history>>

HandleSessionCreated(s) ==
    \/ listed[s] # "no" /\ Nothing
    \/ /\ listed[s] = "no" /\ page = "manager"
       /\ Ask("ListSessions", Nowhere)
       /\ UNCHANGED <<page, input, saved_draft, browsing, unsent, untidy>>
    \/ listed[s] = "no" /\ page = "chat" /\ parent[s] # Nowhere /\ Nothing
    \/ /\ listed[s] = "no" /\ page = "chat" /\ parent[s] = Nowhere
       /\ MoveTo(s, <<ToDaemon("ListSessions", Nowhere), ToDaemon("AttachSession", s)>>)
       /\ UNCHANGED <<page, listed>>

\* Mutant: the answer of the daemon does not move the view.
HandleSessionAttached_Ignored(s) == Nothing

HandleSessionAttached(s) ==
    /\ shown' = s
    /\ UNCHANGED <<page, listed, input, saved_draft, browsing, drafts, toDaemon, history>>

\* attached_subsession_finished, on the list as it is before the status
Finished(s, new) ==
    /\ page = "chat" /\ shown = s /\ listed[s] = "active" /\ new = "idle"
    /\ parent[s] # Nowhere /\ listed[parent[s]] # "no"

\* switch_back_to_parent
SwitchBackToParent(s) ==
    MoveTo(parent[s], <<ToDaemon("AttachSession", parent[s])>>) /\ UNCHANGED page

HandleSessionStatusChanged(s, new) ==
    LET after == IF listed[s] = "no" THEN listed ELSE [listed EXCEPT ![s] = new]
    IN \/ /\ Finished(s, new)
          /\ SwitchBackToParent(s)
          /\ listed' = after
       \/ /\ ~Finished(s, new) /\ listed' = after
          /\ UNCHANGED <<page, shown, input, saved_draft, browsing, drafts, toDaemon, history>>

\* handle_sessions: with nothing attached, the Chat page attaches to the
\* newest session that is not a sub-session, or creates one.
HandleSessions(list) ==
    LET there == {s \in Rooms : list[s] # "no"}
        top == {s \in there : parent[s] = Nowhere}
    IN /\ listed' = list
       /\ \/ /\ page = "chat" /\ shown = Nowhere /\ there # {}
             /\ \E s \in IF top # {} THEN top ELSE there :
                  MoveTo(s, <<ToDaemon("AttachSession", s)>>)
             /\ UNCHANGED page
          \/ /\ page = "chat" /\ shown = Nowhere /\ there = {}
             /\ toDaemon' = Append(toDaemon, ToDaemon("CreateSession", Nowhere))
             /\ UNCHANGED <<page, shown, input, saved_draft, browsing, drafts, history>>
          \/ /\ page = "manager" \/ shown # Nowhere
             /\ UNCHANGED <<page, shown, input, saved_draft, browsing, drafts, toDaemon, history>>

HandleSessionDeleted(s) ==
    /\ listed' = [listed EXCEPT ![s] = "no"]
    /\ drafts' = [drafts EXCEPT ![s] = {}]
    /\ \/ /\ shown = s /\ shown' = Nowhere
          /\ input' = {} /\ saved_draft' = {} /\ browsing' = "no"
          /\ unsent' = unsent \ ({s} \cup input \cup saved_draft)
       \/ /\ shown # s /\ unsent' = unsent \ {s}
          /\ UNCHANGED <<shown, input, saved_draft, browsing>>
    /\ UNCHANGED <<page, toDaemon, untidy, refused, misrouted>>

HandleDaemonMessage ==
    /\ toTui # <<>> /\ toTui' = Tail(toTui)
    /\ LET m == Head(toTui)
       IN \/ m.kind = "SessionCreated" /\ HandleSessionCreated(m.session)
          \/ m.kind = "SessionAttached" /\ HandleSessionAttached(m.session)
          \/ m.kind = "StatusActive" /\ HandleSessionStatusChanged(m.session, "active")
          \/ m.kind = "StatusIdle" /\ HandleSessionStatusChanged(m.session, "idle")
          \/ m.kind = "Sessions" /\ HandleSessions(m.list)
          \/ m.kind = "SessionDeleted" /\ HandleSessionDeleted(m.session)
          \/ m.kind = "SessionFailed" /\ Nothing
    /\ UNCHANGED <<server, counts>>

\* All but "/session switch"
ListNext ==
    \/ Type \/ NavigateHistoryUp \/ NavigateHistoryDown \/ UserKeys
    \/ ConnectionTakes \/ ConnectionAnswers \/ Elsewhere
    \/ HandleDaemonMessage

TuiNext == ListNext \/ SwitchByCommand

(***************************************************************************)
(* Properties.                                                             *)
(***************************************************************************)
\* As long as attaches follow one another and none is made by command, the
\* input bar holds only what was typed in the session shown (or before any
\* was), and a stashed draft only what was typed in its own session: an
\* unsent prompt never leaks into a session it was not meant for, and no
\* recalled history entry is taken for a draft.
DraftsStayHome ==
    ~untidy =>
      /\ \A s \in Rooms : drafts[s] \subseteq {s, Nowhere, Entry} /\ drafts[s] # {Entry}
      /\ \A s \in Rooms \ {shown} : s \notin input \cup saved_draft

\* As long as attaches follow one another, are not refused and none is made
\* by command, RunInput, which names no session, is handled by the session
\* that was on the screen when the user pressed Enter, wherever the attach
\* was on its way, and although sessions are created and deleted meanwhile.
PromptRunsWhereShown == ~untidy => ~misrouted

\* Once everything under way has been read, the client shows the session
\* its connection is attached to, or none, however many switches overlapped,
\* unless the last one was refused.
AttachmentsAgree ==
    (toDaemon = <<>> /\ pending = <<>> /\ toTui = <<>> /\ ~refused)
      => shown \in {at, Nowhere}

\* persist_input_draft says that drafts "survive session switches and are
\* dropped only when the session itself is deleted".
DraftsSurvive ==
    \A s \in unsent : s \in drafts[s] \cup (IF shown = s THEN input \cup saved_draft ELSE {})

TuiSpec == TuiInit /\ [][TuiNext]_tuiVars
=============================================================================
