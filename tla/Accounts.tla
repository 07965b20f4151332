------------------------------ MODULE Accounts ------------------------------
(***************************************************************************)
(* Accounts and providers (daemon.rs, accounts/mod.rs): the accounts file  *)
(* that the daemon and an editor both write, the accounts in memory, the   *)
(* decrypted credentials, the providers built from both, the model lists   *)
(* fetched with a provider and cached per account, and a session that      *)
(* keeps the provider it resolved (sessions.rs).  A configuration is a     *)
(* number, 0 for an account that is not there and 1 for the one an account *)
(* made by default has; a provider and a cached list are named by the      *)
(* configuration they were made from.  A credential is an API key; those   *)
(* of another kind make no provider.                                       *)
(***************************************************************************)
EXTENDS Naturals, FiniteSets

CONSTANTS
    AccountNames,
    MaxConfig,     \* configurations an account may have
    Unbuildable,   \* those no client can be made for: an unknown provider
    MaxEdits,      \* edits of the accounts file from outside
    MaxOps,        \* commands of the clients that change accounts or keys
    SaveMayFail,   \* whether the file may be unwritable
    OpenAi,        \* the credential that makes a default account
    Default,       \* that account
    None           \* no account

Config == 1..MaxConfig

ASSUME AccountsAssumption ==
    /\ MaxConfig \in Nat \ {0} /\ {MaxEdits, MaxOps} \subseteq Nat
    /\ SaveMayFail \in BOOLEAN
    /\ Unbuildable \subseteq Config \ {1}
    /\ {OpenAi, Default} \subseteq AccountNames /\ OpenAi # Default
    /\ None \notin AccountNames

VARIABLES
    file,      \* account -> its entry in accounts.toml
    broken,    \* the file cannot be parsed
    changed,   \* the watcher has a change to report
    opened,    \* the manager knows the path of the file
    accounts,  \* account -> its configuration in memory
    shut,      \* locked
    blobs,     \* accounts with a credential in the database
    creds,     \* accounts with a credential in memory
    providers, \* account -> the configuration its provider was built from
    fetching,  \* account -> the provider of the running prefetch
    inFlight,  \* model_prefetch_in_flight
    cache,     \* model_cache: account -> the provider that listed it
    fresh,     \* accounts whose list is younger than MODEL_CACHE_TTL
    account,   \* the session's account_name
    provider,  \* the session's provider: its account and configuration
    edits, ops,
    \* history
    halfway,   \* the last unlock failed half-way and nobody has locked since
    unsaved,   \* accounts whose change could not be saved, since the last unlock
    brought    \* accounts that a reload brought and no unlock has seen

fileVars == <<file, broken, changed, edits>>
modelVars == <<fetching, inFlight, cache, fresh>>
sessionVars == <<account, provider>>
acVars == <<file, broken, changed, opened, accounts, shut, blobs, creds,
            providers, fetching, inFlight, cache, fresh, account, provider,
            edits, ops, halfway, unsaved, brought>>

Nothing == [a \in AccountNames |-> 0]
Present(f) == {a \in AccountNames : f[a] # 0}

AccountsInit ==
    /\ file \in [AccountNames -> {0, 1}]
    /\ broken = FALSE /\ changed = FALSE /\ opened = FALSE
    /\ accounts = Nothing
    /\ shut = TRUE
    /\ blobs \in SUBSET AccountNames
    /\ creds = {}
    /\ providers = Nothing
    /\ fetching = Nothing /\ inFlight = {}
    /\ cache = Nothing /\ fresh = {}
    /\ account \in AccountNames
    /\ provider = <<None, 0>>
    /\ edits = 0 /\ ops = 0
    /\ halfway = FALSE /\ unsaved = {} /\ brought = {}

------------------------------------------------------------------------------
(* Unlocking and locking *)

\* from_account_config
Buildable(v) == v \notin {0} \cup Unbuildable

\* resolve_account_provider: a provider needs an account, a key, and a
\* configuration it can be built from.
Resolved(names, conf, keys, old) ==
    [a \in AccountNames |->
       IF a \in names /\ Buildable(conf[a]) /\ a \in keys
       THEN conf[a] ELSE old[a]]

\* AccountManager::save
Save(conf, saved) ==
    IF saved
    THEN file' = conf /\ broken' = FALSE /\ changed' = TRUE
    ELSE SaveMayFail /\ UNCHANGED <<file, broken, changed>>

\* AccountManager::load, and the account made for a lone "openai" credential
Loaded(keys) ==
    IF Present(file) = {} /\ OpenAi \in keys
    THEN [file EXCEPT ![Default] = 1] ELSE file

\* unlock_tail: the credentials come first; when the file cannot be read the
\* accounts and the providers stay as they are and the daemon stays locked.
UnlockTail(keys, early) ==
    /\ creds' = keys
    /\ IF broken
       THEN /\ halfway' = TRUE
            /\ providers' = early
            /\ UNCHANGED <<file, broken, changed, opened, accounts, shut,
                           unsaved, brought>>
       ELSE /\ opened' = TRUE
            /\ accounts' = Loaded(keys)
            /\ providers' = Resolved(AccountNames, accounts', keys, Nothing)
            /\ shut' = FALSE
            /\ \/ /\ accounts' = file
                  /\ unsaved' = {}
                  /\ UNCHANGED <<file, broken, changed>>
               \/ \E saved \in BOOLEAN :
                     /\ accounts' # file
                     /\ Save(accounts', saved)
                     /\ unsaved' = IF saved THEN {} ELSE {Default}
            /\ brought' = {} /\ halfway' = FALSE

Op == ops < MaxOps /\ ops' = ops + 1

HandleUnlock ==
    /\ Op
    /\ UnlockTail(blobs, providers)
    /\ UNCHANGED <<edits, blobs, modelVars, sessionVars>>

Forgotten == Nothing

HandleLock ==
    /\ Op
    /\ creds' = {} /\ providers' = Forgotten
    /\ shut' = TRUE
    /\ halfway' = FALSE
    /\ UNCHANGED <<fileVars, opened, accounts, blobs, modelVars, sessionVars,
                   unsaved, brought>>

\* The credential is stored and its provider built before the tail runs.
HandleSaveCredential(a) ==
    /\ Op
    /\ blobs' = blobs \cup {a}
    /\ UnlockTail(blobs \cup {a}, Resolved({a}, accounts, {a}, providers))
    /\ UNCHANGED <<edits, modelVars, sessionVars>>

HandleRemoveCredential(a) ==
    /\ Op
    /\ blobs' = blobs \ {a} /\ creds' = creds \ {a}
    /\ providers' = [providers EXCEPT ![a] = 0]
    /\ UNCHANGED <<fileVars, opened, accounts, shut, modelVars, sessionVars,
                   halfway, unsaved, brought>>

------------------------------------------------------------------------------
(* The accounts file *)

\* The manager has no path to save to before the first unlock.
Saves(conf, saved) ==
    IF opened THEN Save(conf, saved)
    ELSE ~saved /\ UNCHANGED <<file, broken, changed>>

WithAdded(a, conf) == Resolved({a}, conf, creds, providers)

HandleAddAccount(a, v) ==
    /\ Op
    /\ accounts[a] = 0
    /\ \E saved \in BOOLEAN :
          /\ accounts' = [accounts EXCEPT ![a] = v]
          /\ Saves(accounts', saved)
          /\ providers' = IF saved THEN WithAdded(a, accounts') ELSE providers
          /\ unsaved' = IF saved THEN unsaved ELSE unsaved \cup {a}
    /\ UNCHANGED <<opened, shut, blobs, creds, modelVars, sessionVars, edits,
                   halfway, brought>>

\* The account leaves the memory even when the file cannot be written.
HandleRemoveAccount(a) ==
    /\ Op
    /\ accounts[a] # 0
    /\ \E saved \in BOOLEAN :
          /\ accounts' = [accounts EXCEPT ![a] = 0]
          /\ Saves(accounts', saved)
          /\ providers' = IF saved THEN [providers EXCEPT ![a] = 0]
                          ELSE providers
          /\ unsaved' = IF saved THEN unsaved ELSE unsaved \cup {a}
    /\ UNCHANGED <<opened, shut, blobs, creds, modelVars, sessionVars, edits,
                   halfway, brought>>

\* An editor rewrites the file from what is in it, well or badly.
EditFile(a, v) ==
    /\ edits < MaxEdits
    /\ edits' = edits + 1
    /\ changed' = TRUE
    /\ \/ file' = [file EXCEPT ![a] = v] /\ broken' = FALSE
       \/ broken' = TRUE /\ UNCHANGED file
    /\ UNCHANGED <<opened, accounts, shut, blobs, creds, providers, modelVars,
                   sessionVars, ops, halfway, unsaved, brought>>

\* Mutant: a changed account keeps its provider.
Rebuilt_Kept ==
    [a \in AccountNames |-> IF file[a] = 0 THEN 0 ELSE providers[a]]
\* handle_accounts_reload: the provider of a removed account is dropped, that
\* of a changed one is rebuilt; an account that is new gets none.
Rebuilt ==
    LET altered == {a \in Present(accounts) : file[a] # accounts[a]}
    IN Resolved(altered, file, creds,
                [a \in AccountNames |->
                   IF a \in altered THEN 0 ELSE providers[a]])

Reloaded == file

\* spawn_accounts_watcher has folded the changes into one command.
HandleAccountsReload ==
    /\ changed
    /\ changed' = FALSE
    /\ IF ~opened \/ broken
       THEN UNCHANGED <<accounts, providers, brought>>
       ELSE /\ accounts' = Reloaded
            /\ providers' = Rebuilt
            /\ brought' = brought \cup (Present(file) \ Present(accounts))
    /\ UNCHANGED <<file, broken, edits, opened, shut, blobs, creds, modelVars,
                   sessionVars, ops, halfway, unsaved>>

------------------------------------------------------------------------------
(* Model lists *)

\* should_prefetch_models
ShouldPrefetch(a) == providers[a] # 0 /\ a \notin inFlight /\ a \notin fresh

\* A session is joined, changes its account, or a client asks for the list.
Prefetch(a) ==
    /\ ShouldPrefetch(a)
    /\ inFlight' = inFlight \cup {a}
    /\ fetching' = [fetching EXCEPT ![a] = providers[a]]
    /\ UNCHANGED <<fileVars, opened, accounts, shut, blobs, creds, providers,
                   cache, fresh, sessionVars, ops, halfway, unsaved, brought>>

Released(a) == inFlight \ {a}

\* handle_model_prefetch_result
HandlePrefetchResult(a, ok) ==
    /\ fetching[a] # 0
    /\ fetching' = [fetching EXCEPT ![a] = 0]
    /\ inFlight' = Released(a)
    /\ IF ok /\ providers[a] # 0
       THEN /\ cache' = [cache EXCEPT ![a] = fetching[a]]
            /\ fresh' = fresh \cup {a}
       ELSE UNCHANGED <<cache, fresh>>
    /\ UNCHANGED <<fileVars, opened, accounts, shut, blobs, creds, providers,
                   sessionVars, ops, halfway, unsaved, brought>>

Expire(a) ==
    /\ a \in fresh
    /\ fresh' = fresh \ {a}
    /\ UNCHANGED <<fileVars, opened, accounts, shut, blobs, creds, providers,
                   fetching, inFlight, cache, sessionVars, ops, halfway,
                   unsaved, brought>>

------------------------------------------------------------------------------
(* The session *)

\* handle_set_account: the old provider stays when the new one is not there.
SetAccount(a) ==
    /\ Op
    /\ account' = a
    /\ provider' = IF providers[a] = 0 THEN provider ELSE <<a, providers[a]>>
    /\ UNCHANGED <<fileVars, opened, accounts, shut, blobs, creds, providers,
                   modelVars, halfway, unsaved, brought>>

\* handle_run_input: resolved the first time, then kept; otherwise the
\* request fails.
RunInput ==
    /\ provider = <<None, 0>>
    /\ providers[account] # 0
    /\ provider' = <<account, providers[account]>>
    /\ UNCHANGED <<fileVars, opened, accounts, shut, blobs, creds, providers,
                   modelVars, account, ops, halfway, unsaved, brought>>

------------------------------------------------------------------------------
AccountsNext ==
    \/ HandleUnlock
    \/ HandleLock
    \/ HandleAccountsReload
    \/ RunInput
    \/ \E a \in AccountNames :
          \/ HandleSaveCredential(a)
          \/ HandleRemoveCredential(a)
          \/ \E v \in Config : HandleAddAccount(a, v)
          \/ HandleRemoveAccount(a)
          \/ \E v \in {0} \cup Config : EditFile(a, v)
          \/ Prefetch(a)
          \/ \E ok \in BOOLEAN : HandlePrefetchResult(a, ok)
          \/ Expire(a)
          \/ SetAccount(a)

\* The watcher, the prefetch threads (a panic is caught) and the daemon run.
AccountsFairness ==
    /\ WF_acVars(HandleAccountsReload)
    /\ \A a \in AccountNames :
          WF_acVars(\E ok \in BOOLEAN : HandlePrefetchResult(a, ok))

AccountsSpec == AccountsInit /\ [][AccountsNext]_acVars /\ AccountsFairness

------------------------------------------------------------------------------
(* A provider is built from the configuration its account has now: no add,  *)
(* remove, unlock or edit of the file leaves the provider of an older one.  *)
(* (An account whose removal could not be saved is gone from the memory,    *)
(* and its provider is not.)                                                *)
ProviderIsCurrent ==
    \A a \in AccountNames \ unsaved :
        providers[a] # 0 => providers[a] = accounts[a]

(* The accounts in memory and in the file agree once the watcher has        *)
(* nothing more to report, whichever of the daemon and the editor wrote     *)
(* last.                                                                    *)
MemoryIsFile ==
    opened /\ ~changed /\ ~broken /\ unsaved = {} => accounts = file

(* A locked daemon resolves no provider, whatever is saved, added or edited *)
(* while it is locked, unless an unlock failed half-way.                    *)
LockedHasNoProvider == shut /\ ~halfway => Present(providers) = {}

(* An account with a credential in memory has a provider, so that the next  *)
(* request finds it, if its configuration makes one.  An account that came  *)
(* with a reload has none until the next unlock, and neither has any after  *)
(* an unlock that failed half-way.                                          *)
CredentialUsable ==
    ~halfway => \A a \in creds \ (unsaved \cup brought) :
                   Buildable(accounts[a]) => providers[a] # 0

(* The file, the accounts in memory, the credentials and the providers      *)
(* built from them agree through adds, removes, locks, unlocks, edits of    *)
(* the file and saves that fail: the daemon never infers with a provider of *)
(* a configuration that is not the current one, has none while it is        *)
(* locked, and finds one wherever it holds the credential and the           *)
(* configuration makes one.                                                 *)
AccountsAgree ==
    ProviderIsCurrent /\ MemoryIsFile /\ LockedHasNoProvider /\ CredentialUsable

(* The guard of a prefetch is released whatever happens to its account: an  *)
(* account never stays closed to prefetching.                               *)
PrefetchReleased == \A a \in AccountNames : a \in inFlight ~> a \notin inFlight

(* What handle_model_prefetch_result says: the result is not cached when    *)
(* the account was removed or reconfigured while the fetch ran.             *)
CachesCurrentProvider ==
    [][\A a \in AccountNames :
          cache'[a] # cache[a] => cache'[a] = providers[a]]_acVars

(* What handle_set_account says: a provider that is not resolvable yet is   *)
(* resolved when the input comes.                                           *)
InfersWithItsAccount == provider[1] \in {None, account}

(* What unlock_tail says of the account it makes by itself: the user need   *)
(* not set one up.                                                          *)
DefaultIsUsable ==
    ~shut /\ OpenAi \in creds /\ Present(accounts) = {Default}
        => providers[Default] # 0

(* What README.md says of /lock: all in-memory credentials are destroyed.   *)
(* A provider holds the key it was built with.                              *)
LockDestroysCredentials == shut /\ ~halfway => provider = <<None, 0>>
=============================================================================
