------------------------------- MODULE Catalog -------------------------------
(***************************************************************************)
(* The model catalog (catalog.rs, config_watch.rs, daemon.rs): one         *)
(* maintenance thread fetches models.dev with a conditional GET, re-reads  *)
(* the user's overlay file, and hands both to the command loop, which is   *)
(* the only one to swap the catalog and which writes the cache file and    *)
(* then, in the database, the etag that describes it.  A second thread     *)
(* owns the watch on the configuration directory.                          *)
(*                                                                         *)
(* A catalog is the number of the models.dev version it came from (0 is    *)
(* the one in the binary), and so is an etag; an overlay is the number of  *)
(* the edit that made it (0: no file).  Time is counted in ticks, of which *)
(* REFRESH_ATTEMPT_INTERVAL has Interval; an age stops at Interval.        *)
(***************************************************************************)
EXTENDS Naturals, Sequences, SequencesExt

CONSTANTS
    Requesters,    \* the /refresh-models requests; each is made once
    Forced,        \* those with --force
    Interval,      \* REFRESH_ATTEMPT_INTERVAL
    MaxEvents,     \* publications, overlay changes, crashes and failures
    NoValue        \* Rust's None

ASSUME CatalogAssumption ==
    /\ Forced \subseteq Requesters
    /\ Interval \in Nat \ {0} /\ MaxEvents \in Nat
    /\ NoValue \notin Nat

VARIABLES
    \* outside
    remote,      \* what models.dev serves
    overlayFile, \* models-overlay.toml
    dirExists,   \* the configuration directory
    \* what survives the process
    bin,         \* catalog.bin, NoValue when missing or corrupt
    dbEtag,      \* catalog_state: the etag
    attemptAge,  \* catalog_state: ticks since the recorded attempt
    \* the config-watch thread
    armed,       \* its belief that the directory is watched
    watching,    \* there is a live watch
    raw,         \* events of the watch it has not routed
    overlayRx,   \* the maintenance thread has a ConfigChange to receive
    \* the maintenance thread
    phase,       \* "start", "idle", "fold" (burst), "fetch"
    base, etag, applied,
    retryIn,     \* ticks until next_retry_at
    burst,       \* the requesters of the refresh under way
    rx,          \* queued RefreshNow requests
    \* the command loop
    inQ,         \* its commands
    persisting,  \* the command whose cache is written and whose etag is not
    shown,       \* the catalog in use: [base, overlay]
    \* the clients
    answer,      \* requester -> "none", "asked", "ok", "error" or "lost"
    \* history
    since,       \* ticks since the last attempt
    unrecorded,  \* the last attempt could not be recorded
    unseen,      \* the overlay changed with no watch, or could not be read
    sameFile,    \* waiting requesters for whom the overlay has not changed
    events

outside == <<remote, overlayFile, dirExists>>
stored  == <<bin, dbEtag, attemptAge>>
watch   == <<armed, watching, raw>>
thread_ == <<phase, base, etag, applied, retryIn, burst>>
loop    == <<persisting, shown>>
hist    == <<since, unrecorded>>
seen    == <<unseen, sameFile>>
catVars == <<remote, overlayFile, dirExists, bin, dbEtag, attemptAge, armed,
             watching, raw, overlayRx, phase, base, etag, applied, retryIn,
             burst, rx, inQ, persisting, shown, answer, since, unrecorded,
             unseen, sameFile, events>>

\* The commands of the maintenance thread.
BaseChanged(b, e, o, persist, reply) ==
    [op |-> "base", base |-> b, etag |-> e, overlay |-> o,
     persist |-> persist, reply |-> reply]
NotModified(reply) ==
    [op |-> "notModified", base |-> 0, etag |-> NoValue, overlay |-> 0,
     persist |-> FALSE, reply |-> reply]
RefreshModels(r) ==
    [op |-> "refresh", base |-> 0, etag |-> NoValue, overlay |-> 0,
     persist |-> FALSE, reply |-> <<r>>]
NoCommand == NotModified(<<>>)

CatalogInit ==
    /\ remote = 1 /\ overlayFile = 0 /\ dirExists = TRUE
    /\ bin = NoValue /\ dbEtag = NoValue /\ attemptAge = NoValue
    /\ armed = FALSE /\ watching = FALSE /\ raw = {} /\ overlayRx = FALSE
    /\ phase = "start" /\ base = 0 /\ etag = NoValue /\ applied = 0
    /\ retryIn = NoValue /\ burst = <<>> /\ rx = <<>>
    /\ inQ = <<>> /\ persisting = NoCommand
    /\ shown = [base |-> 0, overlay |-> 0]
    /\ answer = [r \in Requesters |-> "none"]
    /\ since = Interval /\ unrecorded = FALSE
    /\ unseen = FALSE /\ sameFile = {}
    /\ events = 0

\* Something happens outside; something may go wrong, or not.
Event == events < MaxEvents /\ events' = events + 1
Fails(bad) == IF bad THEN Event ELSE UNCHANGED events

Answered(reply, what) ==
    [r \in Requesters |-> IF Contains(reply, r) THEN what ELSE answer[r]]

------------------------------------------------------------------------------
(* The maintenance thread *)

\* load_cached_base and get_catalog_etag: no etag without its content.
\* Mutant: the etag is used without its content.
LoadedEtag_Always == dbEtag
LoadedEtag == IF bin = NoValue THEN NoValue ELSE dbEtag
LoadedBase == IF bin = NoValue THEN 0 ELSE bin

\* should_fetch_at_startup
ShouldFetch == bin = NoValue \/ attemptAge \in {NoValue, Interval}

\* record_attempt, before the fetch.
RecordAttempt(bad) ==
    /\ attemptAge' = IF bad THEN attemptAge ELSE 0
    /\ since' = 0
    /\ unrecorded' = bad

\* The thread starts: cache or bundled base, overlay, the first command, and
\* the fetch unless the recorded attempt is recent.  An etag, an attempt or
\* an overlay that cannot be read counts as missing.
Start ==
    \E lost \in SUBSET {"etag", "attempt", "overlay"}, bad \in BOOLEAN :
    /\ phase = "start"
    /\ base' = LoadedBase
    /\ etag' = IF "etag" \in lost THEN NoValue ELSE LoadedEtag
    /\ applied' = IF "overlay" \in lost THEN 0 ELSE overlayFile
    /\ unseen' = ("overlay" \in lost)
    /\ inQ' = Append(inQ, BaseChanged(base', etag', applied', FALSE, <<>>))
    /\ IF ShouldFetch \/ "attempt" \in lost
       THEN /\ phase' = "fetch"
            /\ RecordAttempt(bad)
            /\ UNCHANGED retryIn
       ELSE /\ phase' = "idle"
            /\ ~bad
            /\ retryIn' = Interval - attemptAge
            /\ UNCHANGED <<attemptAge, since, unrecorded>>
    /\ Fails(bad \/ lost # {})
    /\ UNCHANGED <<outside, bin, dbEtag, watch, overlayRx, burst, rx, loop,
                   answer, sameFile>>

\* reload_user_overlay: gated on the contents; a file that cannot be read
\* changes nothing.
Reload(bad) ==
    LET changes == ~bad /\ applied # overlayFile IN
    /\ Fails(bad)
    /\ applied' = IF changes THEN overlayFile ELSE applied
    /\ inQ' = inQ \o IF changes
                     THEN <<BaseChanged(base, etag, overlayFile, FALSE, <<>>)>>
                     ELSE <<>>
    /\ unseen' = bad
    /\ sameFile' = IF bad THEN {} ELSE sameFile

\* The select loop receives a RefreshNow: first the overlay is read again ...
TakeRefresh ==
    /\ phase = "idle" /\ rx # <<>>
    /\ \E bad \in BOOLEAN : Reload(bad)
    /\ phase' = "fold"
    /\ burst' = <<Head(rx)>>
    /\ rx' = Tail(rx)
    /\ UNCHANGED <<outside, stored, watch, overlayRx, base, etag, retryIn, loop,
                   answer, hist>>

\* ... then the queued requests join it (fold_refresh_nows).
Folded == burst \o rx

Fold ==
    /\ phase = "fold"
    /\ burst' = Folded
    /\ rx' = <<>>
    /\ \E bad \in BOOLEAN : RecordAttempt(bad) /\ Fails(bad)
    /\ phase' = "fetch"
    /\ UNCHANGED <<outside, bin, dbEtag, watch, overlayRx, base, etag, applied,
                   retryIn, inQ, loop, answer, seen>>

\* The timer fires.
Timer ==
    /\ phase = "idle" /\ retryIn = 0
    /\ retryIn' = NoValue
    /\ \E bad \in BOOLEAN : RecordAttempt(bad) /\ Fails(bad)
    /\ phase' = "fetch"
    /\ UNCHANGED <<outside, bin, dbEtag, watch, overlayRx, base, etag, applied,
                   burst, rx, inQ, loop, answer, seen>>

\* A change of the overlay file is reported.
TakeChange ==
    /\ phase = "idle" /\ overlayRx
    /\ overlayRx' = FALSE
    /\ \E bad \in BOOLEAN : Reload(bad)
    /\ UNCHANGED <<outside, stored, watch, phase, base, etag, retryIn, burst,
                   rx, loop, answer, hist>>

\* run_refresh_impl: every outcome arms the timer and ends the burst.
Conditional == etag # NoValue /\ \A r \in Forced : ~Contains(burst, r)

FetchEnds ==
    /\ phase = "fetch"
    /\ phase' = "idle"
    /\ retryIn' = Interval
    /\ burst' = <<>>
    /\ UNCHANGED <<outside, stored, watch, overlayRx, applied, rx, loop, hist,
                   seen>>

Unchanged304 ==
    /\ Conditional /\ etag = remote
    /\ FetchEnds
    /\ inQ' = inQ \o IF burst = <<>> THEN <<>> ELSE <<NotModified(burst)>>
    /\ UNCHANGED <<base, etag, answer, events>>

Fetched ==
    /\ ~(Conditional /\ etag = remote)
    /\ FetchEnds
    /\ base' = remote
    /\ \E tagless \in BOOLEAN :
          /\ Fails(tagless)
          /\ etag' = IF tagless THEN NoValue ELSE remote
    /\ inQ' = Append(inQ, BaseChanged(base', etag', applied, TRUE, burst))
    /\ UNCHANGED answer

\* The request failed, or what came was no catalog.
FetchFails ==
    /\ FetchEnds
    /\ Event
    /\ answer' = Answered(burst, "error")
    /\ UNCHANGED <<base, etag, inQ>>

RunRefresh == Unchanged304 \/ Fetched \/ FetchFails

------------------------------------------------------------------------------
(* The command loop *)

NextIs(op) == persisting = NoCommand /\ inQ # <<>> /\ Head(inQ).op = op

HandleRefreshModels ==
    /\ NextIs("refresh")
    /\ inQ' = Tail(inQ)
    /\ rx' = rx \o Head(inQ).reply
    /\ UNCHANGED <<outside, stored, watch, overlayRx, thread_, loop, answer,
                   hist, seen, events>>

\* handle_catalog_base_changed up to the write of the cache file.
WriteBin(cmd, bad) ==
    /\ Fails(bad)
    /\ bin' = IF bad THEN bin ELSE cmd.base
    /\ persisting' = IF bad THEN NoCommand ELSE cmd
    /\ answer' = IF bad THEN Answered(cmd.reply, "ok") ELSE answer
    /\ UNCHANGED dbEtag

HandleCatalogBaseChanged ==
    LET cmd == Head(inQ) IN
    /\ NextIs("base")
    /\ inQ' = Tail(inQ)
    /\ shown' = [base |-> cmd.base, overlay |-> cmd.overlay]
    /\ IF cmd.persist
       THEN \E bad \in BOOLEAN : WriteBin(cmd, bad)
       ELSE /\ answer' = Answered(cmd.reply, "ok")
            /\ UNCHANGED <<bin, dbEtag, persisting, events>>
    /\ UNCHANGED <<outside, attemptAge, watch, overlayRx, thread_, rx, hist,
                   seen>>

\* ... and from the write of the etag to the replies.
FinishPersist ==
    /\ persisting # NoCommand
    /\ \E bad \in BOOLEAN :
          /\ Fails(bad)
          /\ dbEtag' = IF bad THEN dbEtag ELSE persisting.etag
    /\ answer' = Answered(persisting.reply, "ok")
    /\ persisting' = NoCommand
    /\ UNCHANGED <<outside, bin, attemptAge, watch, overlayRx, thread_, rx,
                   inQ, shown, hist, seen>>

HandleCatalogNotModified ==
    /\ NextIs("notModified")
    /\ inQ' = Tail(inQ)
    /\ answer' = Answered(Head(inQ).reply, "ok")
    /\ UNCHANGED <<outside, stored, watch, overlayRx, thread_, rx, loop, hist,
                   seen, events>>

------------------------------------------------------------------------------
(* The config-watch thread *)

\* The watch is armed, again and again until the directory is there.
Arm ==
    /\ ~armed /\ dirExists
    /\ armed' = TRUE /\ watching' = TRUE
    /\ UNCHANGED <<outside, stored, raw, overlayRx, thread_, rx, inQ, loop,
                   answer, hist, seen, events>>

\* An event is routed; the removal of the directory disarms.
Route(ev) ==
    /\ ev \in raw
    /\ raw' = raw \ {ev}
    /\ overlayRx' = (overlayRx \/ ev = "file")
    /\ armed' = (armed /\ ev # "dir")
    /\ UNCHANGED <<outside, stored, watching, thread_, rx, inQ, loop, answer,
                   hist, seen, events>>

------------------------------------------------------------------------------
(* Outside *)

Publish ==
    /\ Event
    /\ remote' = remote + 1
    /\ UNCHANGED <<overlayFile, dirExists, stored, watch, overlayRx, thread_, rx,
                   inQ, loop, answer, hist, seen>>

\* The overlay file becomes f; the events evs are seen if there is a watch.
Touch(f, evs) ==
    /\ Event
    /\ overlayFile' = f
    /\ raw' = IF watching THEN raw \cup evs ELSE raw
    /\ unseen' = (unseen \/ ~watching)
    /\ sameFile' = {}
    /\ UNCHANGED <<remote, stored, armed, overlayRx, thread_, rx, inQ, loop,
                   answer, hist>>

EditOverlay ==
    /\ Touch(events + 1, {"file"})
    /\ dirExists' = TRUE
    /\ UNCHANGED watching

RemoveDir ==
    /\ dirExists
    /\ Touch(0, {"file", "dir"})
    /\ dirExists' = FALSE
    /\ watching' = FALSE

\* A client asks and waits (handle_refresh_models of connection.rs).
RequestRefresh(r) ==
    /\ answer[r] = "none"
    /\ answer' = [answer EXCEPT ![r] = "asked"]
    /\ sameFile' = sameFile \cup {r}
    /\ inQ' = Append(inQ, RefreshModels(r))
    /\ UNCHANGED <<outside, stored, watch, overlayRx, thread_, rx, loop, hist,
                   unseen, events>>

Older(age) == IF age \in {NoValue, Interval} THEN age ELSE age + 1
Sooner(left) == IF left \in {NoValue, 0} THEN left ELSE left - 1

\* Nothing is on its way: a tick is hours, a message milliseconds.
Quiet ==
    /\ phase \in {"start", "idle"}
    /\ inQ = <<>> /\ persisting = NoCommand /\ rx = <<>>
    /\ raw = {} /\ ~overlayRx

\* Time passes, for the monotonic clock too unless the machine sleeps.
Tick(awake) ==
    /\ Quiet
    /\ attemptAge' = Older(attemptAge)
    /\ since' = Older(since)
    /\ retryIn' = IF awake THEN Sooner(retryIn) ELSE retryIn
    /\ UNCHANGED <<outside, bin, dbEtag, watch, overlayRx, phase, base, etag,
                   applied, burst, rx, inQ, loop, answer, unrecorded, seen,
                   events>>

\* The cache file is lost or damaged.
LoseCache ==
    /\ bin # NoValue
    /\ Event
    /\ bin' = NoValue
    /\ UNCHANGED <<outside, dbEtag, attemptAge, watch, overlayRx, thread_, rx,
                   inQ, loop, answer, hist, seen>>

\* The process dies and is started again.
Crash ==
    /\ Event
    /\ armed' = FALSE /\ watching' = FALSE /\ raw' = {} /\ overlayRx' = FALSE
    /\ phase' = "start" /\ base' = 0 /\ etag' = NoValue /\ applied' = 0
    /\ retryIn' = NoValue /\ burst' = <<>> /\ rx' = <<>>
    /\ inQ' = <<>> /\ persisting' = NoCommand
    /\ shown' = [base |-> 0, overlay |-> 0]
    /\ answer' = [r \in Requesters |->
                    IF answer[r] = "asked" THEN "lost" ELSE answer[r]]
    /\ UNCHANGED <<outside, stored, hist, seen>>

------------------------------------------------------------------------------
MaintenanceStep ==
    Start \/ TakeRefresh \/ Fold \/ Timer \/ TakeChange \/ RunRefresh

CatalogHandle ==
    \/ HandleRefreshModels
    \/ HandleCatalogBaseChanged
    \/ FinishPersist
    \/ HandleCatalogNotModified

WatchStep == Arm \/ \E ev \in {"file", "dir"} : Route(ev)

CatalogNext ==
    \/ MaintenanceStep
    \/ CatalogHandle
    \/ WatchStep
    \/ Publish \/ EditOverlay \/ RemoveDir \/ LoseCache \/ Crash
    \/ \E r \in Requesters : RequestRefresh(r)
    \/ \E awake \in BOOLEAN : Tick(awake)

\* The three threads run, and time passes while the machine is awake.
CatalogFairness ==
    /\ WF_catVars(MaintenanceStep)
    /\ WF_catVars(CatalogHandle)
    /\ WF_catVars(WatchStep)
    /\ WF_catVars(Tick(TRUE))

CatalogSpec == CatalogInit /\ [][CatalogNext]_catVars /\ CatalogFairness

------------------------------------------------------------------------------
(* Once it fetches, the daemon ends up with what models.dev serves, whatever *)
(* crashed, failed or was lost on the way: an etag never keeps it on older   *)
(* content ("which would 304 forever against a stale cache").                *)
CatalogConverges == phase = "fetch" ~> [](shown.base = remote)

(* A restart does not fetch before the interval is over, though the process  *)
(* died in the middle of an attempt, unless the cache is gone or the attempt *)
(* could not be recorded or read back (record_attempt,                       *)
(* should_fetch_at_startup).                                                 *)
CooldownHolds ==
    [][phase # "fetch" /\ phase' = "fetch" /\ burst' = <<>>
          => \/ since = Interval \/ bin = NoValue \/ unrecorded
             \/ phase = "start" /\ events' # events]_catVars

(* Everyone who asks for a refresh is told its outcome, in a burst too,      *)
(* unless the process dies (fold_refresh_nows, run_refresh_impl).            *)
RefreshAnswered ==
    \A r \in Requesters : answer[r] = "asked" ~> answer[r] # "asked"

(* The catalog ends up with the overlay that is in the file, unless the last *)
(* change was made while there was no watch, or could not be read.           *)
OverlaySettles == <>[](unseen \/ shown.overlay = overlayFile)

(* Who starts a refresh is answered with a catalog that has the overlay of   *)
(* the file, if that has not changed since he asked: the reload queued by    *)
(* his request is applied before the answer, on a 304 too.                   *)
Answers(r) == answer[r] = "asked" /\ answer'[r] = "ok"
Starts(r) ==
    LET cmd == IF persisting = NoCommand THEN Head(inQ) ELSE persisting
    IN  Head(cmd.reply) = r
RefreshShowsOverlay ==
    [][\A r \in sameFile :
          Answers(r) /\ Starts(r) => shown'.overlay = overlayFile]_catVars

(* What maintenance_loop says of the overlay: the command re-syncs the user  *)
(* layer too, for everyone who asks.                                         *)
EveryRefreshShowsOverlay ==
    [][\A r \in sameFile : Answers(r) => shown'.overlay = overlayFile]_catVars

(* What persist_catalog_cache says of the etag: it never describes content   *)
(* that is not on disk.                                                      *)
EtagDescribesBin == dbEtag # NoValue /\ bin # NoValue => dbEtag = bin
==============================================================================
