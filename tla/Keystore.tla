------------------------------ MODULE Keystore ------------------------------
(***************************************************************************)
(* The keystore lock: the daemon's binding, its lock state and decrypted   *)
(* credentials (daemon.rs), the replies and broadcasts it queues for the   *)
(* clients (daemon/subscriber_handlers.rs, server/connection.rs), and the  *)
(* client that holds a pending key, records it once it is confirmed,       *)
(* latches its lock banner and binds a fresh daemon by itself              *)
(* (choreo-tui/src/connection, choreo-client-core/src/credentials.rs).     *)
(* Each client runs on a machine of its own: its known_servers entry       *)
(* outlives its connections.                                               *)
(***************************************************************************)
EXTENDS Naturals, Sequences, FiniteSets, FiniteSetsExt

CONSTANTS
    Clients,
    Keyed,        \* clients whose store (or legacy key file) has a key at first
    WrongKeys,    \* keys a user may type that bind nothing
    TailMayFail,  \* whether the accounts file may be unreadable
    Overlaps,     \* whether a client may reconnect before the frames of its
                  \* old connection are read
    MaxSends,     \* commands the users enter
    MaxConnects,  \* connections
    NoKey

ASSUME KeystoreAssumption ==
    /\ Keyed \subseteq Clients
    /\ {TailMayFail, Overlaps} \subseteq BOOLEAN
    /\ MaxSends \in Nat /\ MaxConnects \in Nat
    /\ NoKey \notin WrongKeys

\* The key client c mints on its n-th connection; the 0-th is its old key.
Minted(c, n) == <<c, n>>
Key == WrongKeys \cup {Minted(c, n) : c \in Clients, n \in 0..MaxConnects}

Total(f) == MapThenSumSet(LAMBDA c : f[c], Clients)

VARIABLES
    \* the daemon
    binding,    \* keystore_binding, in the database
    locked,
    secrets,    \* decrypted credentials are in memory
    listeners,  \* activity_subscribers
    \* client -> its connection
    connects,   \* how many it has had
    up,         \* it is connected
    outbox,     \* frames on their way to the daemon
    stale,      \* frames left in its previous connection
    replying,   \* its connection thread has still to queue the Locked reply
    inbox,      \* messages on their way to the client
    \* client -> the client
    stored,     \* known_servers[addr].unlock_key
    pending,    \* pending_unlock_key
    banner,     \* keystore_locked
    attempted,  \* keystore_auto_bind
    sends,
    \* history
    misled,     \* clients told of a lock, or of a rejection, by a reply of
                \* their own
    replaced,   \* minted keys whose store entry a later mint overwrote
    faulted     \* a tail failed and the daemon has not been locked since

daemonState == <<binding, locked, secrets, listeners, faulted>>
history == <<misled, replaced>>
clientState == <<stored, pending, banner, attempted, sends>>
ksVars == <<binding, locked, secrets, listeners, connects, up, outbox, stale,
            replying, inbox, stored, pending, banner, attempted, sends, misled,
            replaced, faulted>>

KeystoreInit ==
    /\ binding = NoKey /\ locked = TRUE /\ secrets = FALSE
    /\ listeners = {}
    /\ connects = [c \in Clients |-> 0]
    /\ up = {}
    /\ outbox = [c \in Clients |-> <<>>]
    /\ stale = [c \in Clients |-> <<>>]
    /\ replying = {}
    /\ inbox = [c \in Clients |-> <<>>]
    /\ stored = [c \in Clients |-> IF c \in Keyed THEN Minted(c, 0) ELSE NoKey]
    /\ pending = [c \in Clients |-> NoKey]
    /\ banner = [c \in Clients |-> TRUE]
    /\ attempted = {}
    /\ sends = [c \in Clients |-> 0]
    /\ misled = {} /\ replaced = {} /\ faulted = FALSE

------------------------------------------------------------------------------
(* The client sends *)

Unlock(k) == <<"unlock", k>>
Bind(k) == <<"bind", k>>
Save(k) == <<"save", k>>
Lock == <<"lock", NoKey>>
Subscribe == <<"subscribe", NoKey>>

\* run_app: the stored key is tried at once, then the client subscribes.
Connect(c) ==
    /\ c \notin up /\ Total(connects) < MaxConnects
    /\ outbox[c] = <<>> \/ Overlaps
    /\ c \notin replying
    /\ connects' = [connects EXCEPT ![c] = @ + 1]
    /\ up' = up \cup {c}
    /\ stale' = [stale EXCEPT ![c] = outbox[c]]
    /\ outbox' = [outbox EXCEPT ![c] =
                    IF stored[c] = NoKey THEN <<Subscribe>>
                    ELSE <<Unlock(stored[c]), Subscribe>>]
    /\ pending' = [pending EXCEPT ![c] = stored[c]]
    /\ banner' = [banner EXCEPT ![c] = TRUE]
    /\ attempted' = attempted \ {c}
    /\ misled' = misled \ {c}
    /\ UNCHANGED <<daemonState, replying, inbox, stored, sends, replaced>>

Enters(c) ==
    /\ c \in up /\ Total(sends) < MaxSends
    /\ sends' = [sends EXCEPT ![c] = @ + 1]
    /\ UNCHANGED <<daemonState, connects, up, stale, replying, inbox, stored,
                   banner, attempted, history>>

\* /unlock with the stored key, with the key of the client that bound the
\* daemon, or with a wrong one
EnterUnlock(c, k) ==
    /\ Enters(c)
    /\ k \in (WrongKeys \cup {stored[c], binding}) \ {NoKey}
    /\ pending' = [pending EXCEPT ![c] = k]
    /\ outbox' = [outbox EXCEPT ![c] = Append(@, Unlock(k))]

\* /add-key: the stored key encrypts the credential and is sent along.
EnterAddKey(c) ==
    /\ Enters(c)
    /\ stored[c] # NoKey
    /\ pending' = [pending EXCEPT ![c] = stored[c]]
    /\ outbox' = [outbox EXCEPT ![c] = Append(@, Save(stored[c]))]

EnterLock(c) ==
    /\ Enters(c)
    /\ outbox' = [outbox EXCEPT ![c] = Append(@, Lock)]
    /\ UNCHANGED pending

\* The client goes; what it sent may still be read.
Disconnect(c) ==
    /\ c \in up
    /\ up' = up \ {c}
    /\ listeners' = listeners \ {c}
    /\ inbox' = [inbox EXCEPT ![c] = <<>>]
    /\ replying' = replying \ {c}
    /\ pending' = [pending EXCEPT ![c] = NoKey]
    /\ \/ UNCHANGED outbox
       \/ outbox' = [outbox EXCEPT ![c] = <<>>]
    /\ UNCHANGED <<binding, locked, secrets, faulted, connects, stale, stored,
                   banner, attempted, sends, history>>

------------------------------------------------------------------------------
(* The daemon handles the frames, one at a time *)

\* The message queues after the targeted replies (to is the acting client, if
\* its connection is still there) and then, on a change of the lock state,
\* the broadcast.
Queued(to, replies, news) ==
    [d \in Clients |->
       inbox[d] \o (IF d \in to THEN replies ELSE <<>>)
                \o (IF d \in listeners THEN news ELSE <<>>)]

LockMessage(l) == IF l THEN "Locked" ELSE "Unlocked"
Transition == IF locked THEN <<LockMessage(FALSE)>> ELSE <<>>

\* unlock_tail: the credentials are in memory before the accounts are read.
Tail_(ok) ==
    /\ secrets' = TRUE
    /\ locked' = (locked /\ ~ok)
    /\ faulted' = (faulted \/ ~ok)
    /\ ok \/ TailMayFail

Refused(to, replies) ==
    /\ inbox' = Queued(to, replies, <<>>)
    /\ UNCHANGED <<locked, secrets, faulted>>

\* Mutant: an unlock adopts the key of an unbound keystore.
Verify_Adopts(k) == IF binding \in {NoKey, k} THEN "ok" ELSE "mismatch"
\* verify_keystore_binding
Verify(k) ==
    CASE binding = NoKey -> "unbound"
      [] binding = k -> "ok"
      [] OTHER -> "mismatch"

HandleUnlock(to, k) ==
    /\ UNCHANGED <<binding, listeners>>
    /\ CASE Verify(k) = "unbound" -> Refused(to, <<"Unbound">>)
         [] Verify(k) = "mismatch" -> Refused(to, <<"LockedError">>)
         [] OTHER ->
              \E ok \in BOOLEAN :
                 /\ Tail_(ok)
                 /\ inbox' = IF ok THEN Queued(to, <<"Unlocked">>, Transition)
                             ELSE Queued(to, <<"LockedError">>, <<>>)

\* bind_keystore
Adopted(k) == IF binding = NoKey THEN k ELSE binding

HandleBindKeystore(to, k) ==
    /\ binding' = Adopted(k)
    /\ UNCHANGED listeners
    /\ IF binding' # k THEN Refused(to, <<"LockedError">>)
       ELSE \E ok \in BOOLEAN :
               /\ Tail_(ok)
               /\ inbox' = IF ok THEN Queued(to, <<"Bound">>, Transition)
                           ELSE Queued(to, <<"LockedError">>, <<>>)

HandleSaveCredential(to, k) ==
    /\ UNCHANGED <<binding, listeners>>
    /\ CASE Verify(k) = "unbound" -> Refused(to, <<"Unbound">>)
         [] Verify(k) = "mismatch" -> Refused(to, <<"AddFailed">>)
         [] OTHER ->
              \E ok \in BOOLEAN :
                 /\ Tail_(ok)
                 /\ inbox' = IF ok
                             THEN Queued(to, <<"Unlocked", "Added">>, Transition)
                             ELSE Queued(to, <<"AddFailed">>, <<>>)

Wiped == FALSE
LockNews == IF locked THEN <<>> ELSE <<LockMessage(TRUE)>>

\* The acting client's own reply is queued by its connection thread, later.
HandleLock(to) ==
    /\ secrets' = Wiped
    /\ locked' = TRUE
    /\ faulted' = FALSE
    /\ inbox' = Queued(to, <<>>, LockNews)
    /\ UNCHANGED <<binding, listeners>>

\* handle_register_activity_subscriber: the lock state of the moment
HandleSubscribe(to) ==
    /\ listeners' = listeners \cup to
    /\ inbox' = Queued(to, <<LockMessage(locked)>>, <<>>)
    /\ UNCHANGED <<binding, locked, secrets, faulted>>

Handle(to, frame) ==
    LET k == frame[2] IN
    CASE frame[1] = "unlock" -> HandleUnlock(to, k)
      [] frame[1] = "bind" -> HandleBindKeystore(to, k)
      [] frame[1] = "save" -> HandleSaveCredential(to, k)
      [] frame[1] = "lock" -> HandleLock(to)
      [] OTHER -> HandleSubscribe(to)

\* The connection thread hands over one frame and waits for the daemon.
Serve(c) ==
    /\ outbox[c] # <<>> /\ c \notin replying
    /\ Handle({c} \cap up, Head(outbox[c]))
    /\ outbox' = [outbox EXCEPT ![c] = Tail(@)]
    /\ replying' = IF Head(outbox[c]) = Lock /\ c \in up
                   THEN replying \cup {c} ELSE replying
    /\ UNCHANGED <<connects, up, stale, clientState, history>>

\* The thread of an old connection: nobody reads the replies.
ServeStale(c) ==
    /\ stale[c] # <<>>
    /\ Handle({}, Head(stale[c]))
    /\ stale' = [stale EXCEPT ![c] = Tail(@)]
    /\ UNCHANGED <<connects, up, outbox, replying, clientState, history>>

ReplyLocked(c) ==
    /\ c \in replying
    /\ replying' = replying \ {c}
    /\ inbox' = [inbox EXCEPT ![c] = Append(@, "Locked")]
    /\ misled' = misled \cup {c}
    /\ UNCHANGED <<daemonState, connects, up, outbox, stale, clientState,
                   replaced>>

------------------------------------------------------------------------------
(* The client receives (handle_daemon_message) *)

\* record_confirmed_unlock_key
Recorded(c) == IF pending[c] = NoKey THEN stored
               ELSE [stored EXCEPT ![c] = pending[c]]
Discarded(c) == [pending EXCEPT ![c] = NoKey]

\* Mutant: the minted key is recorded when the daemon confirms it.
PreSend_Late(c, k) == stored
\* bind_fresh_daemon: it is recorded before it is sent.
PreSend(c, k) == [stored EXCEPT ![c] = k]

Takes(c, kinds) ==
    /\ c \in up /\ inbox[c] # <<>> /\ Head(inbox[c]) \in kinds
    /\ inbox' = [inbox EXCEPT ![c] = Tail(@)]
    /\ UNCHANGED <<daemonState, connects, up, stale, replying, sends>>

ReceiveUnlocked(c) ==
    /\ Takes(c, {"Unlocked", "Bound"})
    /\ banner' = [banner EXCEPT ![c] = FALSE]
    /\ stored' = Recorded(c) /\ pending' = Discarded(c)
    /\ UNCHANGED <<outbox, attempted, history>>

ReceiveAdded(c) ==
    /\ Takes(c, {"Added"})
    /\ stored' = Recorded(c) /\ pending' = Discarded(c)
    /\ UNCHANGED <<outbox, banner, attempted, history>>

ReceiveLocked(c) ==
    /\ Takes(c, {"Locked"})
    /\ banner' = [banner EXCEPT ![c] = TRUE]
    /\ UNCHANGED <<outbox, stored, pending, attempted, history>>

ReceiveLockedError(c) ==
    /\ Takes(c, {"LockedError"})
    /\ banner' = [banner EXCEPT ![c] = TRUE]
    /\ pending' = Discarded(c)
    /\ misled' = misled \cup {c}
    /\ UNCHANGED <<outbox, stored, attempted, replaced>>

ReceiveAddFailed(c) ==
    /\ Takes(c, {"AddFailed"})
    /\ pending' = Discarded(c)
    /\ UNCHANGED <<outbox, stored, banner, attempted, history>>

\* on_unbound: one binding per connection, with a fresh key
ReceiveUnbound(c) ==
    LET k == Minted(c, connects[c]) IN
    /\ Takes(c, {"Unbound"})
    /\ banner' = [banner EXCEPT ![c] = TRUE]
    /\ attempted' = attempted \cup {c}
    /\ IF c \in attempted
       THEN /\ pending' = Discarded(c)
            /\ UNCHANGED <<outbox, stored, replaced>>
       ELSE /\ stored' = PreSend(c, k)
            /\ replaced' = replaced \cup ({stored[c]} \ {NoKey, Minted(c, 0)})
            /\ pending' = [pending EXCEPT ![c] = k]
            /\ outbox' = [outbox EXCEPT ![c] = Append(@, Bind(k))]
    /\ UNCHANGED misled

Receive(c) ==
    \/ ReceiveUnlocked(c)
    \/ ReceiveAdded(c)
    \/ ReceiveLocked(c)
    \/ ReceiveLockedError(c)
    \/ ReceiveAddFailed(c)
    \/ ReceiveUnbound(c)

------------------------------------------------------------------------------
KeystoreNext ==
    \E c \in Clients :
        \/ Connect(c)
        \/ Disconnect(c)
        \/ \E k \in Key : EnterUnlock(c, k)
        \/ EnterAddKey(c)
        \/ EnterLock(c)
        \/ Serve(c)
        \/ ServeStale(c)
        \/ ReplyLocked(c)
        \/ Receive(c)

\* The threads run and the client reads; a user does what it likes.
KeystoreFairness ==
    \A c \in Clients : /\ WF_ksVars(Serve(c))
                       /\ WF_ksVars(ServeStale(c))
                       /\ WF_ksVars(ReplyLocked(c))
                       /\ WF_ksVars(Receive(c))

KeystoreSpec == KeystoreInit /\ [][KeystoreNext]_ksVars /\ KeystoreFairness

------------------------------------------------------------------------------
KeystoreTypeOK ==
    /\ binding \in Key \cup {NoKey}
    /\ {locked, secrets, faulted} \subseteq BOOLEAN
    /\ {listeners, up, replying, attempted, misled} \subseteq SUBSET Clients
    /\ stored \in [Clients -> Key \cup {NoKey}]
    /\ pending \in [Clients -> Key \cup {NoKey}]
    /\ banner \in [Clients -> BOOLEAN]

(* Trust on first use: of two clients that bind an unbound daemon at the    *)
(* same time the first wins, and no later bind, unlock or save moves the    *)
(* binding (bind_keystore, verify_keystore_binding).                        *)
NeverRebound == [][binding # NoKey => binding' = binding]_ksVars

(* No orphaned binding: the key the daemon adopted is in the store of some  *)
(* client, even when that client goes before the confirmation, the tail of  *)
(* the bind fails, or another client wins the race (bind_fresh_daemon).     *)
(* The exception is a client that mints again on a new connection while     *)
(* the bind of the old one is still to be read.                             *)
BindingIsHeld ==
    binding \notin {NoKey} \cup replaced =>
        \E c \in Clients : stored[c] = binding

(* What bind_fresh_daemon says of the key it records before it is sent: if  *)
(* the confirmation is lost the recorded key still matches the binding.     *)
RecordedMatches ==
    binding # NoKey => \E c \in Clients : stored[c] = binding

(* A locked daemon holds no decrypted credential, unless an unlock failed   *)
(* half-way since (unlock_tail assigns them before it reads the accounts).  *)
LockedIsWiped == locked /\ secrets => faulted

(* Once a subscriber has read everything, its banner shows the daemon's     *)
(* lock state, whoever locked or unlocked: replies, the push at             *)
(* subscription and broadcasts are in the order of the changes.  A client   *)
(* whose own lock or rejected key was answered may be wrong until it        *)
(* reconnects.                                                              *)
BannerFollows ==
    \A c \in listeners \ misled :
        inbox[c] = <<>> /\ c \notin replying => banner[c] = locked

(* An unbound daemon is bound once a client that has a key stays connected. *)
KeyedClientBinds ==
    \A c \in Clients :
        c \in up /\ stored[c] # NoKey ~> binding # NoKey \/ c \notin up

(* What run_app says, and tells the user: a fresh daemon answers            *)
(* KeystoreUnbound and is bound automatically.                              *)
FreshDaemonBinds ==
    \A c \in Clients : c \in up ~> binding # NoKey \/ c \notin up

(* What handle_daemon_message and handle_lock_sync say of the banner: a     *)
(* rejection means the daemon is still locked, and the reply to the client  *)
(* that locks is harmlessly idempotent.                                     *)
BannerShows ==
    \A c \in listeners :
        inbox[c] = <<>> /\ c \notin replying => banner[c] = locked

(* What handle_daemon_message says of the known_servers record: confirmed,  *)
(* it can never be wrong.                                                   *)
ConfirmedIsRight ==
    [][\A c \in Clients : ReceiveUnlocked(c) /\ pending[c] # NoKey
                          => stored'[c] = binding]_ksVars
=============================================================================
