-------------------------- MODULE Services_proofs ---------------------------
(***************************************************************************)
(* Proofs about the daemon's dealings with providers and MCP servers, the  *)
(* components Accounts and McpClient, which share no state.                *)
(*                                                                         *)
(* Accounts, for any accounts, configurations, number of edits and number  *)
(* of commands, with a file that may or may not be writable: the file, the *)
(* memory, the credentials and the providers agree.                        *)
(*                                                                         *)
(* McpClient, for any set of calls and any pipe: the lock of the shared    *)
(* client admits one request at a time, an id is the id of one request     *)
(* only and what the wires carry under it belongs to that request, and so  *)
(* a call that succeeds has its own answer.                                *)
(***************************************************************************)
EXTENDS Accounts, McpClient, TLAPS

-----------------------------------------------------------------------------
(* Accounts *)

Confs == [AccountNames -> {0} \cup Config]

AcTyped ==
    /\ file \in Confs /\ accounts \in Confs /\ providers \in Confs
    /\ {broken, changed, opened, shut, halfway} \subseteq BOOLEAN
    /\ blobs \subseteq AccountNames /\ creds \subseteq AccountNames

\* A locked daemon has no credential in memory either, or an account added
\* while it is locked would get a provider.
LockedIsWiped == shut /\ ~halfway => creds = {}

AcIInv == AcTyped /\ AccountsAgree /\ LockedIsWiped

-----------------------------------------------------------------------------
(* Lemmas about configurations *)

LEMMA ConfigType ==
    /\ 1 \in Config /\ 0 \notin Config
    /\ ~Buildable(0)
BY AccountsAssumption DEF Config, Buildable

LEMMA ConfFacts ==
    ASSUME NEW f \in Confs
    PROVE  /\ \A a \in AccountNames : f[a] \in {0} \cup Config
           /\ \A a \in AccountNames : \A v \in {0} \cup Config :
                 [f EXCEPT ![a] = v] \in Confs
           /\ DOMAIN f = AccountNames
BY DEF Confs

LEMMA NothingType == Nothing \in Confs /\ \A a \in AccountNames : Nothing[a] = 0
BY DEF Nothing, Confs

\* What resolving providers gives.
LEMMA ResolvedFacts ==
    ASSUME NEW names, NEW conf \in Confs, NEW keys, NEW old \in Confs
    PROVE  /\ Resolved(names, conf, keys, old) \in Confs
           /\ \A a \in AccountNames :
                 Resolved(names, conf, keys, old)[a] =
                    IF a \in names /\ Buildable(conf[a]) /\ a \in keys
                    THEN conf[a] ELSE old[a]
BY DEF Resolved, Confs

LEMMA LoadedType ==
    ASSUME AcTyped, NEW keys PROVE Loaded(keys) \in Confs
BY ConfFacts, ConfigType, AccountsAssumption DEF Loaded, AcTyped

-----------------------------------------------------------------------------
(* Preservation *)

LEMMA AcInitial == AccountsInit => AcIInv
<1> SUFFICES ASSUME AccountsInit PROVE AcIInv
  OBVIOUS
<1>1. file \in Confs
  BY ConfigType DEF AccountsInit, Confs
<1>2. AcTyped
  BY <1>1, NothingType DEF AccountsInit, AcTyped
<1>3. AccountsAgree
  BY NothingType DEF AccountsInit, AccountsAgree, ProviderIsCurrent,
     MemoryIsFile, LockedHasNoProvider, CredentialUsable, Present
<1> QED BY <1>2, <1>3 DEF AcIInv, LockedIsWiped, AccountsInit

\* unlock_tail, for the credentials of an unlock or of a saved credential.
LEMMA TailStep ==
    ASSUME AcIInv, NEW keys \in SUBSET AccountNames, NEW early \in Confs,
           \A a \in AccountNames \ unsaved : early[a] # 0 => early[a] = accounts[a],
           UnlockTail(keys, early), blobs' \subseteq AccountNames
    PROVE  AcIInv'
<1>1. CASE broken
  <2>1. /\ creds' = keys /\ halfway' = TRUE /\ providers' = early
        /\ UNCHANGED <<file, broken, changed, opened, accounts, shut, unsaved, brought>>
    BY <1>1 DEF UnlockTail
  <2>2. AcTyped'
    BY <2>1 DEF AcIInv, AcTyped
  <2>3. ProviderIsCurrent' /\ MemoryIsFile'
    BY <2>1 DEF AcIInv, AccountsAgree, ProviderIsCurrent, MemoryIsFile
  <2>4. LockedHasNoProvider' /\ CredentialUsable' /\ LockedIsWiped'
    BY <2>1 DEF LockedHasNoProvider, CredentialUsable, LockedIsWiped
  <2> QED BY <2>2, <2>3, <2>4 DEF AcIInv, AccountsAgree
<1>2. CASE ~broken
  <2>1. /\ creds' = keys /\ opened' = TRUE /\ accounts' = Loaded(keys)
        /\ providers' = Resolved(AccountNames, accounts', keys, Nothing)
        /\ shut' = FALSE /\ halfway' = FALSE
    BY <1>2 DEF UnlockTail
  <2>2. \/ accounts' = file /\ UNCHANGED <<file, broken, changed>>
        \/ file' = accounts' /\ broken' = FALSE /\ changed' = TRUE
        \/ unsaved' = {Default} /\ UNCHANGED <<file, broken, changed>>
    BY <1>2 DEF UnlockTail, Save
  <2>3. accounts' \in Confs /\ file \in Confs
    BY <2>1, LoadedType DEF AcIInv, AcTyped
  <2>4. /\ providers' \in Confs
        /\ \A a \in AccountNames :
              providers'[a] =
                 IF Buildable(accounts'[a]) /\ a \in keys THEN accounts'[a] ELSE 0
    BY <2>1, <2>3, NothingType, ResolvedFacts
  <2>5. AcTyped'
    BY <2>1, <2>2, <2>3, <2>4 DEF AcIInv, AcTyped
  <2>6. ProviderIsCurrent' /\ CredentialUsable'
    BY <2>1, <2>4, ConfigType DEF AcIInv, AcTyped, ProviderIsCurrent, CredentialUsable
  <2>7. MemoryIsFile'
    BY <2>2 DEF MemoryIsFile
  <2>8. LockedHasNoProvider' /\ LockedIsWiped'
    BY <2>1 DEF LockedHasNoProvider, LockedIsWiped
  <2> QED BY <2>5, <2>6, <2>7, <2>8 DEF AcIInv, AccountsAgree
<1> QED BY <1>1, <1>2 DEF AcIInv, AcTyped

LEMMA UnlockStep ==
    ASSUME AcIInv, HandleUnlock \/ \E a \in AccountNames : HandleSaveCredential(a)
    PROVE  AcIInv'
<1>1. CASE HandleUnlock
  BY <1>1, TailStep DEF HandleUnlock, AcIInv, AcTyped, AccountsAgree, ProviderIsCurrent
<1>2. ASSUME NEW a \in AccountNames, HandleSaveCredential(a) PROVE AcIInv'
  <2> DEFINE early == Resolved({a}, accounts, {a}, providers)
  <2>1. /\ early \in Confs
        /\ \A b \in AccountNames :
              early[b] = IF b \in {a} /\ Buildable(accounts[b]) /\ b \in {a}
                         THEN accounts[b] ELSE providers[b]
    BY ResolvedFacts DEF AcIInv, AcTyped
  <2>2. /\ blobs' = blobs \cup {a} /\ UnlockTail(blobs \cup {a}, early)
    BY <1>2 DEF HandleSaveCredential
  <2> HIDE DEF early
  <2>3. \A b \in AccountNames \ unsaved : early[b] # 0 => early[b] = accounts[b]
    BY <2>1 DEF AcIInv, AccountsAgree, ProviderIsCurrent
  <2>4. blobs \cup {a} \in SUBSET AccountNames
    BY DEF AcIInv, AcTyped
  <2> QED BY <2>1, <2>2, <2>3, <2>4, TailStep
<1> QED BY <1>1, <1>2

LEMMA LockStep == ASSUME AcIInv, HandleLock PROVE AcIInv'
<1>1. /\ creds' = {} /\ providers' = Nothing /\ shut' = TRUE /\ halfway' = FALSE
      /\ UNCHANGED <<file, broken, changed, opened, accounts, blobs, unsaved, brought>>
  BY DEF HandleLock, Forgotten, fileVars
<1>2. AcTyped'
  BY <1>1, NothingType DEF AcIInv, AcTyped
<1>3. AccountsAgree'
  BY <1>1, NothingType DEF AcIInv, AccountsAgree, ProviderIsCurrent, MemoryIsFile,
     LockedHasNoProvider, CredentialUsable, Present
<1> QED BY <1>1, <1>2, <1>3 DEF AcIInv, LockedIsWiped

LEMMA RemoveCredentialStep ==
    ASSUME AcIInv, NEW a \in AccountNames, HandleRemoveCredential(a) PROVE AcIInv'
<1>1. /\ blobs' = blobs \ {a} /\ creds' = creds \ {a}
      /\ providers' = [providers EXCEPT ![a] = 0]
      /\ UNCHANGED <<file, broken, changed, opened, accounts, shut, halfway, unsaved,
                     brought>>
  BY DEF HandleRemoveCredential, fileVars
<1>2. /\ providers' \in Confs
      /\ \A b \in AccountNames : providers'[b] = IF b = a THEN 0 ELSE providers[b]
  BY <1>1 DEF AcIInv, AcTyped, Confs
<1>3. AcTyped'
  BY <1>1, <1>2 DEF AcIInv, AcTyped
<1>4. ProviderIsCurrent' /\ MemoryIsFile'
  BY <1>1, <1>2 DEF AcIInv, AccountsAgree, ProviderIsCurrent, MemoryIsFile
<1>5. LockedHasNoProvider' /\ CredentialUsable' /\ LockedIsWiped'
  BY <1>1, <1>2 DEF AcIInv, AccountsAgree, LockedHasNoProvider, CredentialUsable,
     LockedIsWiped, Present
<1> QED BY <1>3, <1>4, <1>5 DEF AcIInv, AccountsAgree

\* What a save, or a save that fails, does to the file.
LEMMA SavesFacts ==
    ASSUME AcTyped, NEW conf \in Confs, NEW saved \in BOOLEAN, Saves(conf, saved)
    PROVE  /\ file' \in Confs /\ {broken', changed'} \subseteq BOOLEAN
           /\ saved => changed'
           /\ ~saved => UNCHANGED <<file, broken, changed>>
BY DEF Saves, Save, AcTyped

LEMMA AddStep ==
    ASSUME AcIInv, NEW a \in AccountNames, NEW v \in Config, HandleAddAccount(a, v)
    PROVE  AcIInv'
<1>1. PICK saved \in BOOLEAN :
        /\ accounts[a] = 0
        /\ accounts' = [accounts EXCEPT ![a] = v]
        /\ Saves(accounts', saved)
        /\ providers' = IF saved THEN WithAdded(a, accounts') ELSE providers
        /\ unsaved' = IF saved THEN unsaved ELSE unsaved \cup {a}
        /\ UNCHANGED <<opened, shut, blobs, creds, halfway, brought>>
  BY DEF HandleAddAccount
<1>2. /\ accounts' \in Confs
      /\ \A b \in AccountNames : accounts'[b] = IF b = a THEN v ELSE accounts[b]
  BY <1>1 DEF AcIInv, AcTyped, Confs
<1>3. v # 0
  BY ConfigType
<1>4. /\ file' \in Confs /\ {broken', changed'} \subseteq BOOLEAN
      /\ saved => changed'
      /\ ~saved => UNCHANGED <<file, broken, changed>>
  BY <1>1, <1>2, SavesFacts DEF AcIInv
<1>5. /\ providers' \in Confs
      /\ \A b \in AccountNames :
            providers'[b] = IF saved /\ b = a /\ a \in creds /\ Buildable(v)
                            THEN v ELSE providers[b]
  <2>1. CASE saved
    <3>1. providers' = Resolved({a}, accounts', creds, providers)
      BY <1>1, <2>1 DEF WithAdded
    <3> QED BY <1>2, <1>3, <2>1, <3>1, ResolvedFacts DEF AcIInv, AcTyped
  <2>2. CASE ~saved
    BY <1>1, <2>2 DEF AcIInv, AcTyped
  <2> QED BY <2>1, <2>2
<1>6. AcTyped'
  BY <1>1, <1>2, <1>4, <1>5 DEF AcIInv, AcTyped
<1>7. ProviderIsCurrent'
  <2> SUFFICES ASSUME NEW b \in AccountNames, b \notin unsaved', providers'[b] # 0
               PROVE  providers'[b] = accounts'[b]
    BY DEF ProviderIsCurrent
  <2>1. b \notin unsaved /\ (b = a => saved)
    BY <1>1
  <2>2. providers[b] # 0 => providers[b] = accounts[b]
    BY <2>1 DEF AcIInv, AccountsAgree, ProviderIsCurrent
  <2>3. b = a => providers'[b] = v \/ providers[b] = 0
    BY <2>2, <1>1, <1>5, <2>1
  <2> QED BY <1>2, <1>5, <2>1, <2>2, <2>3
<1>8. MemoryIsFile'
  BY <1>1, <1>4 DEF MemoryIsFile
<1>9. LockedHasNoProvider' /\ LockedIsWiped'
  BY <1>1, <1>5 DEF AcIInv, AccountsAgree, LockedHasNoProvider, LockedIsWiped, Present
<1>10. CredentialUsable'
  <2> SUFFICES ASSUME ~halfway, NEW b \in creds, b \notin unsaved', b \notin brought,
                      Buildable(accounts'[b])
               PROVE  providers'[b] # 0
    BY <1>1 DEF CredentialUsable
  <2>1. b \in AccountNames /\ b \notin unsaved /\ (b = a => saved)
    BY <1>1 DEF AcIInv, AcTyped
  <2>2. b # a /\ Buildable(accounts[b]) => providers[b] # 0
    BY <2>1 DEF AcIInv, AccountsAgree, CredentialUsable
  <2> QED BY <1>2, <1>3, <1>5, <2>1, <2>2
<1> QED BY <1>6, <1>7, <1>8, <1>9, <1>10 DEF AcIInv, AccountsAgree

LEMMA RemoveStep ==
    ASSUME AcIInv, NEW a \in AccountNames, HandleRemoveAccount(a) PROVE AcIInv'
<1>1. PICK saved \in BOOLEAN :
        /\ accounts' = [accounts EXCEPT ![a] = 0]
        /\ Saves(accounts', saved)
        /\ providers' = IF saved THEN [providers EXCEPT ![a] = 0] ELSE providers
        /\ unsaved' = IF saved THEN unsaved ELSE unsaved \cup {a}
        /\ UNCHANGED <<opened, shut, blobs, creds, halfway, brought>>
  BY DEF HandleRemoveAccount
<1>2. /\ accounts' \in Confs
      /\ \A b \in AccountNames : accounts'[b] = IF b = a THEN 0 ELSE accounts[b]
  BY <1>1 DEF AcIInv, AcTyped, Confs
<1>3. /\ file' \in Confs /\ {broken', changed'} \subseteq BOOLEAN
      /\ saved => changed'
      /\ ~saved => UNCHANGED <<file, broken, changed>>
  BY <1>1, <1>2, SavesFacts DEF AcIInv
<1>4. /\ providers' \in Confs
      /\ \A b \in AccountNames :
            providers'[b] = IF saved /\ b = a THEN 0 ELSE providers[b]
  BY <1>1 DEF AcIInv, AcTyped, Confs
<1>5. AcTyped'
  BY <1>1, <1>2, <1>3, <1>4 DEF AcIInv, AcTyped
<1>6. ProviderIsCurrent'
  BY <1>1, <1>2, <1>4 DEF AcIInv, AccountsAgree, ProviderIsCurrent
<1>7. MemoryIsFile'
  BY <1>1, <1>3 DEF MemoryIsFile
<1>8. LockedHasNoProvider' /\ LockedIsWiped'
  BY <1>1, <1>4 DEF AcIInv, AccountsAgree, LockedHasNoProvider, LockedIsWiped, Present
<1>9. CredentialUsable'
  BY <1>1, <1>2, <1>4, ConfigType DEF AcIInv, AcTyped, AccountsAgree, CredentialUsable
<1> QED BY <1>5, <1>6, <1>7, <1>8, <1>9 DEF AcIInv, AccountsAgree

LEMMA EditStep ==
    ASSUME AcIInv, NEW a \in AccountNames, NEW v \in {0} \cup Config, EditFile(a, v)
    PROVE  AcIInv'
<1>1. /\ changed' = TRUE
      /\ UNCHANGED <<opened, accounts, shut, blobs, creds, providers, halfway, unsaved,
                     brought>>
      /\ file' \in Confs /\ broken' \in BOOLEAN
  <2>1. [file EXCEPT ![a] = v] \in Confs /\ file \in Confs
    BY DEF AcIInv, AcTyped, Confs
  <2> QED BY <2>1 DEF EditFile
<1>2. AcTyped'
  BY <1>1 DEF AcIInv, AcTyped
<1>3. AccountsAgree'
  BY <1>1 DEF AcIInv, AccountsAgree, ProviderIsCurrent, MemoryIsFile,
     LockedHasNoProvider, CredentialUsable, Present
<1> QED BY <1>1, <1>2, <1>3 DEF AcIInv, LockedIsWiped

\* handle_accounts_reload.
LEMMA ReloadStep == ASSUME AcIInv, HandleAccountsReload PROVE AcIInv'
<1>0. UNCHANGED <<file, broken, opened, shut, blobs, creds, halfway, unsaved>>
        /\ changed' = FALSE
  BY DEF HandleAccountsReload
<1>1. CASE ~opened \/ broken
  <2>1. UNCHANGED <<accounts, providers, brought>>
    BY <1>1 DEF HandleAccountsReload
  <2>2. AcTyped'
    BY <1>0, <2>1 DEF AcIInv, AcTyped
  <2>3. AccountsAgree'
    BY <1>0, <1>1, <2>1 DEF AcIInv, AccountsAgree, ProviderIsCurrent, MemoryIsFile,
       LockedHasNoProvider, CredentialUsable, Present
  <2> QED BY <1>0, <2>2, <2>3 DEF AcIInv, LockedIsWiped
<1>2. CASE opened /\ ~broken
  <2> DEFINE altered == {a \in Present(accounts) : file[a] # accounts[a]}
             kept == [a \in AccountNames |-> IF a \in altered THEN 0 ELSE providers[a]]
  <2>1. /\ accounts' = file
        /\ providers' = Resolved(altered, file, creds, kept)
        /\ brought' = brought \cup (Present(file) \ Present(accounts))
    BY <1>2 DEF HandleAccountsReload, Reloaded, Rebuilt
  <2>2. kept \in Confs /\ file \in Confs
    BY DEF AcIInv, AcTyped, Confs
  <2>3. \A a \in AccountNames :
           kept[a] = IF accounts[a] # 0 /\ file[a] # accounts[a] THEN 0 ELSE providers[a]
    BY DEF Present
  <2>4. \A a \in AccountNames :
           a \in altered <=> accounts[a] # 0 /\ file[a] # accounts[a]
    BY DEF Present
  <2> HIDE DEF altered, kept
  <2>5. /\ providers' \in Confs
        /\ \A a \in AccountNames :
              providers'[a] =
                 IF accounts[a] # 0 /\ file[a] # accounts[a]
                 THEN IF Buildable(file[a]) /\ a \in creds THEN file[a] ELSE 0
                 ELSE providers[a]
    BY <2>1, <2>2, <2>3, <2>4, ResolvedFacts
  <2>6. AcTyped'
    BY <1>0, <2>1, <2>2, <2>5 DEF AcIInv, AcTyped
  <2>7. ProviderIsCurrent'
    BY <1>0, <2>1, <2>5 DEF AcIInv, AccountsAgree, ProviderIsCurrent
  <2>8. MemoryIsFile'
    BY <1>0, <2>1 DEF MemoryIsFile
  <2>9. LockedHasNoProvider' /\ LockedIsWiped'
    BY <1>0, <2>5 DEF AcIInv, AccountsAgree, LockedHasNoProvider, LockedIsWiped, Present
  <2>10. CredentialUsable'
    <3> SUFFICES ASSUME ~halfway, NEW b \in creds, b \notin unsaved, b \notin brought',
                        Buildable(file[b])
                 PROVE  providers'[b] # 0
      BY <1>0, <2>1 DEF CredentialUsable
    <3>1. b \in AccountNames /\ b \notin brought /\ accounts[b] # 0 /\ file[b] # 0
      BY <2>1, ConfigType DEF AcIInv, AcTyped, Present
    <3>2. file[b] = accounts[b] => providers[b] # 0
      BY <3>1 DEF AcIInv, AccountsAgree, CredentialUsable
    <3> QED BY <2>5, <3>1, <3>2
  <2> QED BY <2>6, <2>7, <2>8, <2>9, <2>10 DEF AcIInv, AccountsAgree
<1> QED BY <1>1, <1>2 DEF AcIInv, AcTyped

\* The model lists and the session read the providers and change none.
LEMMA PrefetchStep ==
    ASSUME AcIInv,
           UNCHANGED <<file, broken, changed, opened, accounts, shut, blobs, creds,
                       providers, halfway, unsaved, brought>>
    PROVE  AcIInv'
<1>1. AcTyped'
  BY DEF AcIInv, AcTyped
<1>2. AccountsAgree'
  BY DEF AcIInv, AccountsAgree, ProviderIsCurrent, MemoryIsFile,
     LockedHasNoProvider, CredentialUsable, Present
<1> QED BY <1>1, <1>2 DEF AcIInv, LockedIsWiped

LEMMA AcStep == AcIInv /\ [AccountsNext]_acVars => AcIInv'
<1> SUFFICES ASSUME AcIInv, [AccountsNext]_acVars PROVE AcIInv'
  OBVIOUS
<1>1. CASE UNCHANGED acVars
  BY <1>1, PrefetchStep DEF acVars
<1>2. CASE RunInput
  BY <1>2, PrefetchStep DEF RunInput, fileVars
<1>3. ASSUME NEW a \in AccountNames,
             Prefetch(a) \/ (\E ok \in BOOLEAN : HandlePrefetchResult(a, ok))
               \/ Expire(a) \/ SetAccount(a)
      PROVE  AcIInv'
  BY <1>3, PrefetchStep DEF Prefetch, HandlePrefetchResult, Expire, SetAccount, fileVars
<1> QED BY <1>1, <1>2, <1>3, UnlockStep, LockStep, RemoveCredentialStep, AddStep,
           RemoveStep, EditStep, ReloadStep DEF AccountsNext

\* For any accounts and any interleaving of unlocks, locks, credentials saved
\* and removed, accounts added and removed, edits of the file and reloads, with
\* saves that may fail and configurations that make no provider: the file, the
\* accounts in memory, the credentials and the providers agree (unlock_tail, handle_add_account, handle_remove_account,
\* handle_accounts_reload, resolve_account_provider).
THEOREM AccountsStayInStep == AccountsSpec => []AccountsAgree
<1>1. AcIInv => AccountsAgree
  BY DEF AcIInv
<1> QED BY <1>1, AcInitial, AcStep, PTL DEF AccountsSpec

\* A locked daemon holds no credential in memory and builds no provider from
\* one, unless an unlock failed half-way and nobody has locked since
\* (handle_lock, handle_add_account, handle_accounts_reload).
THEOREM LockedHoldsNoCredential == AccountsSpec => []LockedIsWiped
<1>1. AcIInv => LockedIsWiped
  BY DEF AcIInv
<1> QED BY <1>1, AcInitial, AcStep, PTL DEF AccountsSpec

-----------------------------------------------------------------------------
(* McpClient *)

Msg == [id : Nat, of : Calls \cup {"init", "list", Nobody}]

McpTypeOK ==
    /\ next_id \in Nat /\ next_id >= 3
    /\ stage \in {"off", "init", "list", "ready", "bare", "failed"}
    /\ call \in [Callers -> {"idle", "asked", "sending", "waiting", "ok", "error"}]
    /\ request \in [Callers -> Nat]
    /\ got \in [Callers -> Msg]
    /\ pipe \in Seq(Msg) /\ stdout \in Seq(Msg) /\ responses \in Seq(Msg)
    /\ owed \subseteq Msg

\* A request that is under way belongs to the caller that has the lock.
OneRequestAtATime ==
    /\ \A c \in Callers : call[c] \in {"sending", "waiting"} => holder = c
    /\ teardown = "killed" => holder = "teardown"

\* An id is given to one request, and the ids to come are larger.
IdsAreOwn ==
    /\ \A c \in Callers : request[c] < next_id
    /\ \A c, d \in Callers : c # d /\ request[c] # NoId => request[c] # request[d]
    /\ \A c \in Callers : call[c] \in {"sending", "waiting"} => request[c] # NoId
    /\ stage = "off" => teardown = "no" /\ \A c \in Callers : request[c] = NoId /\ call[c] = "idle"
    /\ stage \in {"list", "ready", "bare"} => request["manager"] > InitId

\* The manager asks at the start only, and waits for no lock.
ManagerFirst ==
    /\ call["manager"] # "asked"
    /\ call["manager"] \in {"sending", "waiting"} => stage \in {"init", "list"}

\* What is on its way between the client and the server, in either direction
Msgs(s) == {s[i] : i \in 1..Len(s)}
OnWire == Msgs(pipe) \cup owed \cup Msgs(stdout) \cup Msgs(responses)

\* A message was asked for, and under the id of a request there is only what
\* that request asked and what was answered to it.
Known(m) ==
    /\ m.id < next_id /\ m.id # NoId
    /\ \A c \in Callers : request[c] = m.id => m.of = Topic(c)
WiresAreKnown ==
    /\ \A m \in OnWire : Known(m)
    /\ stage = "off" => OnWire = {}

McpIInv ==
    /\ McpTypeOK
    /\ OneRequestAtATime
    /\ IdsAreOwn
    /\ ManagerFirst
    /\ WiresAreKnown
    /\ OwnAnswer

-----------------------------------------------------------------------------
(* The steps.                                                              *)

\* Messages that move along stay what they are.
LEMMA MsgsTail ==
    ASSUME NEW s \in Seq(Msg), s # <<>>
    PROVE  /\ Head(s) \in Msg /\ Head(s) \in Msgs(s)
           /\ Tail(s) \in Seq(Msg) /\ Msgs(Tail(s)) \subseteq Msgs(s)
<1>1. /\ Tail(s) \in Seq(Msg) /\ Head(s) = s[1] /\ Len(s) \in Nat /\ Len(s) >= 1
      /\ Len(Tail(s)) = Len(s) - 1
      /\ \A i \in 1..Len(Tail(s)) : Tail(s)[i] = s[i + 1]
  OBVIOUS
<1> QED BY <1>1 DEF Msgs

LEMMA MsgsAppend ==
    ASSUME NEW s \in Seq(Msg), NEW m \in Msg
    PROVE  /\ Append(s, m) \in Seq(Msg)
           /\ Msgs(Append(s, m)) = Msgs(s) \cup {m}
<1>1. /\ Append(s, m) \in Seq(Msg) /\ Len(s) \in Nat
      /\ Len(Append(s, m)) = Len(s) + 1
      /\ \A i \in 1..Len(s) : Append(s, m)[i] = s[i]
      /\ Append(s, m)[Len(s) + 1] = m
  OBVIOUS
<1>2. \A x \in Msgs(Append(s, m)) : x \in Msgs(s) \cup {m}
  BY <1>1 DEF Msgs
<1>3. \A x \in Msgs(s) \cup {m} : x \in Msgs(Append(s, m))
  BY <1>1 DEF Msgs
<1> QED BY <1>1, <1>2, <1>3

LEMMA MsgsNone == <<>> \in Seq(Msg) /\ Msgs(<<>>) = {}
BY DEF Msgs

LEMMA McpInitHolds == McpInit => McpIInv
<1> SUFFICES ASSUME McpInit PROVE McpIInv
  OBVIOUS
<1>1. NoAnswer \in Msg
  BY DEF NoAnswer, Msg, NoId
<1>2. McpTypeOK
  BY <1>1, MsgsNone DEF McpInit, McpTypeOK, NoId
<1>3. OneRequestAtATime /\ IdsAreOwn /\ ManagerFirst /\ OwnAnswer
  BY DEF McpInit, OneRequestAtATime, IdsAreOwn, ManagerFirst, OwnAnswer, NoId, Callers
<1>4. WiresAreKnown
  BY MsgsNone DEF McpInit, WiresAreKnown, OnWire
<1> QED BY <1>2, <1>3, <1>4 DEF McpIInv

\* A request with the next id leaves what is on the wires to its owners.
LEMMA KnownAfter ==
    ASSUME McpIInv, NEW c \in Callers, NEW m \in OnWire,
           next_id' = next_id + 1, request' = [request EXCEPT ![c] = next_id]
    PROVE  Known(m)'
<1>0. m \in Msg
  BY DEF McpIInv, McpTypeOK, OnWire, Msgs
<1>1. Known(m) /\ m.id \in Nat
  BY <1>0 DEF McpIInv, WiresAreKnown, Msg
<1>2. m.id < next_id' /\ m.id # NoId
  BY <1>1 DEF Known, McpIInv, McpTypeOK
<1>3. ASSUME NEW d \in Callers, request'[d] = m.id PROVE m.of = Topic(d)'
  <2>1. d # c /\ request'[d] = request[d]
    BY <1>1, <1>3 DEF Known, McpIInv, McpTypeOK
  <2>2. m.of = Topic(d)
    BY <1>1, <1>3, <2>1 DEF Known
  <2> QED BY <2>1, <2>2 DEF Topic
<1> QED BY <1>2, <1>3 DEF Known

\* What the callers' side of the invariant is about
asking == <<stage, next_id, holder, call, request, got>>

\* The end of a request: the manager goes on to the list of tools with a
\* fresh id, or the caller gives the lock back.
LEMMA McpEnds ==
    ASSUME McpIInv, NEW c \in Callers, NEW how \in {"ok", "error"},
           call[c] \in {"sending", "waiting"}, Ends(c, how),
           teardown' = teardown, got' \in [Callers -> Msg],
           \A d \in Callers \ {c} : got'[d] = got[d],
           how = "ok" => got'[c].of = Topic(c),
           responses' \in Seq(Msg), Msgs(responses') \subseteq Msgs(responses)
    PROVE  McpIInv'
<1>0. holder = c /\ request[c] # NoId
  BY DEF McpIInv, OneRequestAtATime, IdsAreOwn
<1>1. CASE c = "manager" /\ stage = "init" /\ how = "ok"
  <2>1. /\ stage' = "list" /\ next_id' = next_id + 1
        /\ call' = [call EXCEPT ![c] = "sending"]
        /\ request' = [request EXCEPT ![c] = next_id]
        /\ UNCHANGED <<holder, pipe, owed, stdout>>
    BY <1>1 DEF Ends, wires, NextId
  <2>2. McpTypeOK'
    <3>1. next_id' \in Nat /\ next_id' >= 3
      BY <2>1 DEF McpIInv, McpTypeOK
    <3>2. /\ call' \in [Callers -> {"idle", "asked", "sending", "waiting", "ok", "error"}]
          /\ request' \in [Callers -> Nat]
      BY <2>1 DEF McpIInv, McpTypeOK
    <3> QED BY <2>1, <3>1, <3>2 DEF McpIInv, McpTypeOK
  <2>3. OneRequestAtATime'
    BY <1>0, <2>1 DEF McpIInv, OneRequestAtATime, McpTypeOK
  <2>4. WiresAreKnown'
    <3>1. OnWire' \subseteq OnWire
      BY <2>1 DEF OnWire
    <3> QED BY <2>1, <3>1, KnownAfter DEF McpIInv, WiresAreKnown
  <2>5. IdsAreOwn'
    <3>1. \A d \in Callers : request'[d] = IF d = c THEN next_id ELSE request[d]
      BY <2>1 DEF McpIInv, McpTypeOK
    <3>2. /\ \A d \in Callers : request'[d] < next_id'
          /\ \A d, e \in Callers : d # e /\ request'[d] # NoId => request'[d] # request'[e]
      BY <2>1, <3>1 DEF McpIInv, McpTypeOK, IdsAreOwn, NoId
    <3>3. \A d \in Callers : call'[d] \in {"sending", "waiting"} => request'[d] # NoId
      BY <2>1, <3>1 DEF McpIInv, McpTypeOK, IdsAreOwn, NoId
    <3>4. request'["manager"] > InitId
      BY <1>1, <3>1 DEF McpIInv, McpTypeOK, InitId
    <3> QED BY <2>1, <3>2, <3>3, <3>4 DEF IdsAreOwn
  <2>6. OwnAnswer'
    BY <1>1, <2>1, McpAssumption DEF McpIInv, OwnAnswer, McpTypeOK, Callers
  <2>7. ManagerFirst'
    BY <1>1, <2>1 DEF McpIInv, ManagerFirst, McpTypeOK
  <2> QED BY <2>2, <2>3, <2>4, <2>5, <2>6, <2>7 DEF McpIInv
<1>2. CASE ~(c = "manager" /\ stage = "init" /\ how = "ok")
  <2>1. /\ call' = [call EXCEPT ![c] = how]
        /\ UNCHANGED <<request, next_id>>
        /\ holder' = Nobody
    BY <1>2 DEF Ends
  <2>2. /\ c # "manager" => stage' = stage
        /\ c = "manager" /\ stage = "init" => stage' = "failed"
        /\ c = "manager" /\ stage # "init" => stage' = IF how = "ok" THEN "ready" ELSE "bare"
    BY <1>2 DEF Ends
  <2>3. /\ (pipe' = pipe \/ pipe' = <<>>) /\ (owed' = owed \/ owed' = {})
        /\ stdout' = stdout
    BY <1>2 DEF Ends, wires, Dropped
  <2>4. McpTypeOK'
    <3>1. call' \in [Callers -> {"idle", "asked", "sending", "waiting", "ok", "error"}]
      BY <2>1 DEF McpIInv, McpTypeOK
    <3>2. pipe' \in Seq(Msg) /\ owed' \subseteq Msg
      BY <2>3, MsgsNone DEF McpIInv, McpTypeOK
    <3>3. stage' \in {"off", "init", "list", "ready", "bare", "failed"}
      BY <2>2 DEF McpIInv, McpTypeOK
    <3> QED BY <2>1, <2>3, <3>1, <3>2, <3>3 DEF McpIInv, McpTypeOK
  <2>5. OneRequestAtATime'
    BY <1>0, <2>1, McpAssumption DEF McpIInv, OneRequestAtATime, McpTypeOK, Callers
  <2>6. WiresAreKnown'
    <3>1. OnWire' \subseteq OnWire
      BY <2>3, MsgsNone DEF OnWire
    <3>2. \A m : Known(m)' <=> Known(m)
      BY <2>1 DEF Known, Topic
    <3>3. stage' = "off" => stage = "off"
      BY <2>2
    <3> QED BY <3>1, <3>2, <3>3 DEF McpIInv, WiresAreKnown
  <2>7. c = "manager" /\ stage # "init" => stage = "list" /\ request[c] > InitId
    BY DEF McpIInv, ManagerFirst, IdsAreOwn
  <2>8. IdsAreOwn'
    <3>1. stage' = "off" => stage = "off"
      BY <2>2
    <3>2. stage # "off"
      BY <1>0 DEF McpIInv, IdsAreOwn
    <3>3. stage' \in {"list", "ready", "bare"} => request["manager"] > InitId
      BY <2>2, <2>7 DEF McpIInv, IdsAreOwn
    <3>4. \A d \in Callers : call'[d] \in {"sending", "waiting"} => request[d] # NoId
      BY <2>1 DEF McpIInv, IdsAreOwn, McpTypeOK
    <3> QED BY <2>1, <3>1, <3>2, <3>3, <3>4 DEF McpIInv, IdsAreOwn
  <2>9. ManagerFirst'
    BY <2>1, <2>2 DEF McpIInv, ManagerFirst, McpTypeOK, Callers
  <2>10. OwnAnswer'
    <3>1. CASE c = "manager"
      <4>1. \A d \in Calls : d \in Callers \ {c}
        BY <3>1, McpAssumption DEF Callers
      <4>2. \A d \in Calls : call'[d] = call[d] /\ got'[d] = got[d]
        BY <2>1, <4>1 DEF McpIInv, McpTypeOK
      <4>3. stage' = "ready" => how = "ok" /\ request[c] > InitId
        BY <2>2, <2>7, <3>1
      <4>4. request[c] > InitId => Topic(c) = "list"
        BY <3>1 DEF Topic, McpIInv, McpTypeOK, InitId
      <4> QED BY <3>1, <4>2, <4>3, <4>4 DEF McpIInv, OwnAnswer
    <3>2. CASE c # "manager"
      <4>1. stage' = stage /\ got'["manager"] = got["manager"]
        BY <2>2, <3>2 DEF Callers
      <4>2. Topic(c) = c
        BY <3>2 DEF Topic
      <4>3. \A d \in Calls : d # c => call'[d] = call[d] /\ got'[d] = got[d]
        BY <2>1 DEF McpIInv, McpTypeOK, Callers
      <4>4. call'[c] = how
        BY <2>1 DEF McpIInv, McpTypeOK
      <4> QED BY <4>1, <4>2, <4>3, <4>4 DEF McpIInv, OwnAnswer
    <3> QED BY <3>1, <3>2
  <2> QED BY <2>4, <2>5, <2>6, <2>8, <2>9, <2>10 DEF McpIInv
<1> QED BY <1>1, <1>2

\* A message that moves on the wires changes nothing for the callers.
LEMMA McpMoves ==
    ASSUME McpIInv, UNCHANGED asking, UNCHANGED teardown,
           pipe' \in Seq(Msg), stdout' \in Seq(Msg), responses' \in Seq(Msg),
           owed' \subseteq Msg, OnWire' \subseteq OnWire
    PROVE  McpIInv'
<1>1. \A m : Known(m)' <=> Known(m)
  BY DEF asking, Known, Topic
<1>2. WiresAreKnown'
  BY <1>1 DEF asking, McpIInv, WiresAreKnown
<1>3. McpTypeOK'
  BY DEF asking, McpIInv, McpTypeOK
<1>4. OneRequestAtATime' /\ IdsAreOwn' /\ ManagerFirst' /\ OwnAnswer'
  BY DEF asking, McpIInv, OneRequestAtATime, IdsAreOwn, ManagerFirst, OwnAnswer
<1> QED BY <1>2, <1>3, <1>4 DEF McpIInv

\* The first request, of the manager that spawned the server.
LEMMA McpSpawns == ASSUME McpIInv, Spawn PROVE McpIInv'
<1>1. /\ stage = "off" /\ stage' = "init" /\ holder' = "manager"
      /\ call' = [call EXCEPT !["manager"] = "sending"]
      /\ request' = [request EXCEPT !["manager"] = 1]
      /\ UNCHANGED <<next_id, got, pipe, owed, stdout, responses, teardown>>
  BY DEF Spawn, InitId
<1>2. /\ teardown = "no"
      /\ \A c \in Callers : request[c] = 0 /\ call[c] = "idle"
  BY <1>1 DEF McpIInv, IdsAreOwn, NoId
<1>3. "manager" \in Callers /\ "manager" \notin Calls
  BY McpAssumption DEF Callers
<1>4. McpTypeOK'
  BY <1>1 DEF McpIInv, McpTypeOK
<1>5. /\ \A c \in Callers : request'[c] = IF c = "manager" THEN 1 ELSE 0
      /\ \A c \in Callers : call'[c] = IF c = "manager" THEN "sending" ELSE "idle"
  BY <1>1, <1>2 DEF McpIInv, McpTypeOK
<1>6. OneRequestAtATime' /\ ManagerFirst'
  BY <1>1, <1>2, <1>3, <1>5 DEF OneRequestAtATime, ManagerFirst
<1>7. IdsAreOwn'
  BY <1>1, <1>3, <1>5 DEF IdsAreOwn, NoId, McpIInv, McpTypeOK
<1>8. OwnAnswer'
  BY <1>1, <1>3, <1>5 DEF OwnAnswer, Callers
<1>9. WiresAreKnown'
  BY <1>1 DEF McpIInv, WiresAreKnown, OnWire
<1> QED BY <1>4, <1>6, <1>7, <1>8, <1>9 DEF McpIInv

\* The lock and the next id.
LEMMA McpAcquires == ASSUME McpIInv, NEW c \in Callers, Acquire(c) PROVE McpIInv'
<1>1. /\ call[c] = "asked" /\ holder = Nobody /\ holder' = c
      /\ call' = [call EXCEPT ![c] = "sending"]
      /\ request' = [request EXCEPT ![c] = next_id]
      /\ next_id' = next_id + 1
      /\ UNCHANGED <<stage, got, pipe, owed, stdout, responses, teardown>>
  BY DEF Acquire, wires, NextId
<1>2. c # "manager" /\ stage # "off"
  BY <1>1 DEF McpIInv, ManagerFirst, IdsAreOwn
<1>3. /\ \A d \in Callers : request'[d] = IF d = c THEN next_id ELSE request[d]
      /\ \A d \in Callers : call'[d] = IF d = c THEN "sending" ELSE call[d]
  BY <1>1 DEF McpIInv, McpTypeOK
<1>4. McpTypeOK'
  BY <1>1 DEF McpIInv, McpTypeOK
<1>5. OneRequestAtATime'
  BY <1>1, <1>3, McpAssumption DEF McpIInv, OneRequestAtATime, Nobody, Callers
<1>6. IdsAreOwn'
  <2>1. /\ \A d \in Callers : request'[d] < next_id'
        /\ \A d, e \in Callers : d # e /\ request'[d] # NoId => request'[d] # request'[e]
    BY <1>1, <1>3 DEF McpIInv, McpTypeOK, IdsAreOwn, NoId
  <2>2. \A d \in Callers : call'[d] \in {"sending", "waiting"} => request'[d] # NoId
    BY <1>3 DEF McpIInv, McpTypeOK, IdsAreOwn, NoId
  <2>3. request'["manager"] = request["manager"]
    BY <1>2, <1>3 DEF Callers
  <2> QED BY <1>1, <1>2, <2>1, <2>2, <2>3 DEF McpIInv, IdsAreOwn
<1>7. ManagerFirst'
  BY <1>1, <1>2, <1>3 DEF McpIInv, ManagerFirst, Callers
<1>8. OwnAnswer'
  BY <1>1, <1>3 DEF McpIInv, OwnAnswer, Callers
<1>9. WiresAreKnown'
  <2>1. OnWire' = OnWire
    BY <1>1 DEF OnWire
  <2> QED BY <1>1, <2>1, KnownAfter DEF McpIInv, WiresAreKnown
<1> QED BY <1>4, <1>5, <1>6, <1>7, <1>8, <1>9 DEF McpIInv

\* The message a request puts on the wire is its own.
LEMMA McpSends == ASSUME McpIInv, NEW c \in Callers, SendRequest(c) PROVE McpIInv'
<1> DEFINE m == [id |-> request[c], of |-> Topic(c)]
<1>1. /\ call[c] = "sending" /\ call' = [call EXCEPT ![c] = "waiting"]
      /\ pipe' = Append(pipe, m)
      /\ UNCHANGED <<stage, next_id, holder, request, got, owed, stdout, responses,
                     teardown>>
  BY DEF SendRequest
<1>2. m \in Msg /\ m.id = request[c] /\ m.of = Topic(c)
  BY DEF Msg, Topic, Callers, McpIInv, McpTypeOK
<1> HIDE DEF m
<1>3. pipe' \in Seq(Msg) /\ Msgs(pipe') = Msgs(pipe) \cup {m}
  BY <1>1, <1>2, MsgsAppend DEF McpIInv, McpTypeOK
<1>4. \A d \in Callers : call'[d] = IF d = c THEN "waiting" ELSE call[d]
  BY <1>1 DEF McpIInv, McpTypeOK
<1>5. McpTypeOK'
  BY <1>1, <1>3 DEF McpIInv, McpTypeOK
<1>6. OneRequestAtATime' /\ IdsAreOwn' /\ ManagerFirst' /\ OwnAnswer'
  BY <1>1, <1>4 DEF McpIInv, OneRequestAtATime, IdsAreOwn, ManagerFirst, OwnAnswer, Callers
<1>7. Known(m)
  BY <1>1, <1>2 DEF Known, McpIInv, IdsAreOwn
<1>8. \A x : Known(x)' <=> Known(x)
  BY <1>1 DEF Known, Topic
<1>9. WiresAreKnown'
  <2>1. OnWire' = OnWire \cup {m}
    BY <1>1, <1>3 DEF OnWire
  <2>2. stage # "off"
    BY <1>1 DEF McpIInv, IdsAreOwn
  <2> QED BY <1>1, <1>7, <1>8, <2>1, <2>2 DEF McpIInv, WiresAreKnown
<1> QED BY <1>5, <1>6, <1>9 DEF McpIInv

\* An answer is passed over, or is the one to the caller's request.
LEMMA McpReceives == ASSUME McpIInv, NEW c \in Callers, RecvResponse(c) PROVE McpIInv'
<1> DEFINE m == Head(responses)
<1>1. /\ call[c] = "waiting" /\ responses # <<>> /\ responses' = Tail(responses)
      /\ teardown' = teardown
  BY DEF RecvResponse
<1>2. /\ m \in Msg /\ m \in Msgs(responses) /\ responses' \in Seq(Msg)
      /\ Msgs(responses') \subseteq Msgs(responses)
  BY <1>1, MsgsTail DEF McpIInv, McpTypeOK
<1>3. CASE m.id = request[c]
  <2>1. PICK how \in {"ok", "error"} : got' = [got EXCEPT ![c] = m] /\ Ends(c, how)
    BY <1>3 DEF RecvResponse
  <2>2. m.of = Topic(c)
    BY <1>2, <1>3 DEF McpIInv, WiresAreKnown, OnWire, Known
  <2>3. got' \in [Callers -> Msg] /\ got'[c] = m /\ \A d \in Callers \ {c} : got'[d] = got[d]
    BY <1>2, <2>1 DEF McpIInv, McpTypeOK
  <2> HIDE DEF m
  <2> QED BY <1>1, <1>2, <2>1, <2>2, <2>3, McpEnds
<1>4. CASE m.id # request[c]
  <2>1. UNCHANGED <<stage, next_id, holder, call, request, got, pipe, owed, stdout>>
    BY <1>4 DEF RecvResponse, wires
  <2>2. OnWire' \subseteq OnWire
    BY <1>2, <2>1 DEF OnWire
  <2> QED BY <1>1, <1>2, <2>1, <2>2, McpMoves DEF asking, McpIInv, McpTypeOK
<1> QED BY <1>3, <1>4

\* The server and the reader thread pass messages on or lose them.
LEMMA McpServes ==
    ASSUME McpIInv, ServerReads \/ ServerAnswers \/ ServerDies \/ ReaderStep
    PROVE  McpIInv'
<1>0. /\ pipe \in Seq(Msg) /\ stdout \in Seq(Msg) /\ responses \in Seq(Msg)
      /\ owed \subseteq Msg
  BY DEF McpIInv, McpTypeOK
<1>1. UNCHANGED asking /\ UNCHANGED teardown
  BY DEF ServerReads, ServerAnswers, ServerDies, ReaderStep, asking
<1>2. CASE ServerReads
  <2>1. /\ pipe # <<>> /\ pipe' = Tail(pipe) /\ owed' = owed \cup {Head(pipe)}
        /\ UNCHANGED <<stdout, responses>>
    BY <1>2 DEF ServerReads
  <2>2. /\ Head(pipe) \in Msg /\ Head(pipe) \in Msgs(pipe) /\ pipe' \in Seq(Msg)
        /\ Msgs(pipe') \subseteq Msgs(pipe)
    BY <1>0, <2>1, MsgsTail
  <2>3. OnWire' \subseteq OnWire
    BY <2>1, <2>2 DEF OnWire
  <2> QED BY <1>0, <1>1, <2>1, <2>2, <2>3, McpMoves
<1>3. CASE ServerAnswers
  <2>1. PICK m \in owed : owed' = owed \ {m} /\ stdout' = Append(stdout, m)
    BY <1>3 DEF ServerAnswers
  <2>2. UNCHANGED <<pipe, responses>>
    BY <1>3 DEF ServerAnswers
  <2>3. stdout' \in Seq(Msg) /\ Msgs(stdout') = Msgs(stdout) \cup {m}
    BY <1>0, <2>1, MsgsAppend
  <2>4. OnWire' \subseteq OnWire
    BY <2>1, <2>2, <2>3 DEF OnWire
  <2> QED BY <1>0, <1>1, <2>1, <2>2, <2>3, <2>4, McpMoves
<1>4. CASE ServerDies
  <2>1. pipe' = <<>> /\ owed' = {} /\ UNCHANGED <<stdout, responses>>
    BY <1>4 DEF ServerDies
  <2>2. OnWire' \subseteq OnWire
    BY <2>1, MsgsNone DEF OnWire
  <2> QED BY <1>0, <1>1, <2>1, <2>2, MsgsNone, McpMoves
<1>5. CASE ReaderStep
  <2>1. UNCHANGED <<pipe, owed>>
    BY <1>5 DEF ReaderStep
  <2>2. CASE UNCHANGED <<responses, stdout>>
    <3>1. OnWire' = OnWire
      BY <2>1, <2>2 DEF OnWire
    <3> QED BY <1>0, <1>1, <2>1, <2>2, <3>1, McpMoves
  <2>3. CASE /\ stdout # <<>>
             /\ responses' = Append(responses, Head(stdout))
             /\ stdout' = Tail(stdout)
    <3>1. /\ Head(stdout) \in Msg /\ Head(stdout) \in Msgs(stdout)
          /\ stdout' \in Seq(Msg) /\ Msgs(stdout') \subseteq Msgs(stdout)
      BY <1>0, <2>3, MsgsTail
    <3>2. /\ responses' \in Seq(Msg)
          /\ Msgs(responses') = Msgs(responses) \cup {Head(stdout)}
      BY <1>0, <2>3, <3>1, MsgsAppend
    <3>3. OnWire' \subseteq OnWire
      BY <2>1, <3>1, <3>2 DEF OnWire
    <3> QED BY <1>0, <1>1, <2>1, <3>1, <3>2, <3>3, McpMoves
  <2> QED BY <1>5, <2>2, <2>3 DEF ReaderStep
<1> QED BY <1>2, <1>3, <1>4, <1>5

\* shutdown_all: the lock, the kill and the end.
LEMMA McpTearsDown ==
    ASSUME McpIInv, Teardown \/ TeardownKills \/ TeardownEnds
    PROVE  McpIInv'
<1>1. /\ UNCHANGED <<stage, next_id, call, request, got, stdout, responses>>
      /\ (pipe' = pipe \/ pipe' = <<>>) /\ (owed' = owed \/ owed' = {})
  BY DEF Teardown, TeardownKills, TeardownEnds, Killed, wires
<1>2. OnWire' \subseteq OnWire
  BY <1>1, MsgsNone DEF OnWire
<1>3. \A m : Known(m)' <=> Known(m)
  BY <1>1 DEF Known, Topic
<1>4. WiresAreKnown'
  BY <1>1, <1>2, <1>3 DEF McpIInv, WiresAreKnown
<1>5. McpTypeOK'
  BY <1>1, MsgsNone DEF McpIInv, McpTypeOK
<1>6. stage # "off"
  BY DEF McpIInv, IdsAreOwn, Teardown, TeardownKills, TeardownEnds
<1>7. IdsAreOwn' /\ ManagerFirst' /\ OwnAnswer'
  BY <1>1, <1>6 DEF McpIInv, IdsAreOwn, ManagerFirst, OwnAnswer
<1>8. OneRequestAtATime'
  BY <1>1, McpAssumption DEF McpIInv, OneRequestAtATime, Teardown, TeardownKills,
     TeardownEnds, Nobody, Callers
<1> QED BY <1>4, <1>5, <1>7, <1>8 DEF McpIInv

\* Every step of the callers, the server, the reader and the teardown keeps
\* the invariant.
LEMMA McpStep == McpIInv /\ [McpNext]_mcpVars => McpIInv'
<1> SUFFICES ASSUME McpIInv, [McpNext]_mcpVars PROVE McpIInv'
  OBVIOUS
<1>1. ASSUME NEW c \in Calls, Ask(c) PROVE McpIInv'
  <2>1. /\ stage = "ready" /\ call' = [call EXCEPT ![c] = "asked"]
        /\ UNCHANGED <<stage, next_id, holder, request, got, pipe, owed, stdout,
                       responses, teardown>>
    BY <1>1 DEF Ask, wires
  <2>2. c \in Callers /\ c # "manager"
    BY McpAssumption DEF Callers
  <2>3. \A d \in Callers : call'[d] = IF d = c THEN "asked" ELSE call[d]
    BY <2>1 DEF McpIInv, McpTypeOK
  <2>4. McpTypeOK'
    BY <2>1, <2>2 DEF McpIInv, McpTypeOK
  <2>5. OneRequestAtATime' /\ IdsAreOwn' /\ ManagerFirst' /\ OwnAnswer'
    BY <2>1, <2>2, <2>3 DEF McpIInv, OneRequestAtATime, IdsAreOwn, ManagerFirst,
       OwnAnswer, Callers
  <2>6. WiresAreKnown'
    <3>1. \A m : Known(m)' <=> Known(m)
      BY <2>1 DEF Known, Topic
    <3> QED BY <2>1, <3>1 DEF McpIInv, WiresAreKnown, OnWire
  <2> QED BY <2>4, <2>5, <2>6 DEF McpIInv
<1>2. ASSUME NEW c \in Callers, SendFails(c) \/ TimesOut(c) \/ Disconnected(c)
      PROVE  McpIInv'
  <2>1. /\ call[c] \in {"sending", "waiting"} /\ Ends(c, "error")
        /\ UNCHANGED <<got, responses, teardown>>
    BY <1>2 DEF SendFails, TimesOut, DeadlinePasses, Disconnected
  <2> QED BY <2>1, McpEnds DEF McpIInv, McpTypeOK
<1>3. CASE UNCHANGED mcpVars
  <2>1. OnWire' = OnWire
    BY <1>3 DEF mcpVars, OnWire
  <2> QED BY <1>3, <2>1, McpMoves DEF mcpVars, asking, McpIInv, McpTypeOK
<1> QED
  BY <1>1, <1>2, <1>3, McpSpawns, McpAcquires, McpSends, McpReceives, McpServes,
     McpTearsDown
     DEF McpNext, CallerMoves

-----------------------------------------------------------------------------
(* The results.                                                            *)

LEMMA McpInvariant == McpSpec => []McpIInv
<1>1. QED BY McpInitHolds, McpStep, PTL DEF McpSpec

(* A call that succeeds has what the server answered to this call, however  *)
(* many calls share the client and whatever answers of calls that timed out *)
(* are still to come, although the client compares ids only: it rests on    *)
(* the ids, which no two requests share, and on the lock (client.rs         *)
(* next_id and call_tool, transport.rs recv_response).                      *)
THEOREM McpOwnAnswer == McpSpec => []OwnAnswer
<1>1. McpIInv => OwnAnswer
  BY DEF McpIInv
<1> QED BY <1>1, McpInvariant, PTL

(* The client's lock admits one request at a time, from its id to its end,  *)
(* the handshake and the teardown included, no id is given out twice, and   *)
(* under the id of a request the wires carry nothing that belongs to        *)
(* another (client.rs: the mutex around the transport, next_id).            *)
THEOREM McpOneRequest == McpSpec => [](OneRequestAtATime /\ IdsAreOwn /\ WiresAreKnown)
<1>1. McpIInv => OneRequestAtATime /\ IdsAreOwn /\ WiresAreKnown
  BY DEF McpIInv
<1> QED BY <1>1, McpInvariant, PTL
=============================================================================
