-------------------------- MODULE TuiClient_proofs --------------------------
(***************************************************************************)
(* Proofs about TuiClient for any number of sessions, keys, edits and      *)
(* events of others: the view and the connection meet, texts stay where    *)
(* they were typed, and a prompt runs in the session that was shown.       *)
(*                                                                         *)
(* The steps are sorted by what they do to the channels: three kinds of    *)
(* the client (StillStep, AttachedStep, MovedStep) and three of the server *)
(* (ServerStep, TakesAttach, AnswerStep).  The parts of the invariant      *)
(* about the channels are proved once for each kind.                       *)
(***************************************************************************)
EXTENDS TuiClient, SequenceTheorems, TLAPS

Views == Rooms \cup {Nowhere}
Statuses == {"no", "idle", "active"}
Texts == SUBSET (Views \cup {Entry})
Lists == [Rooms -> Statuses]

\* Only ids that were given out are in the list of a session manager.
Given(list) == \A s \in Rooms : list[s] # "no" => s < next_session_id

Requests ==
    [kind: {"ListSessions", "SubscribeAllActivity", "CreateSession", "RunInput"},
     session: Views]
    \cup [kind: {"AttachSession", "DeleteSession"}, session: Rooms]
Events ==
    [kind: {"SessionCreated", "StatusIdle", "StatusActive", "SessionDeleted",
            "SessionAttached", "SessionFailed"}, session: Rooms]
    \cup [kind: {"Sessions"}, list: Lists]

\* A message of the daemon is about a session that exists or did, and about
\* one that does not exist any more once it tells its deletion.
Answers(m) == m.kind \in {"SessionAttached", "SessionFailed"}
Message(m) ==
    /\ m.kind = "Sessions" => Given(m.list)
    /\ m.kind \notin {"Sessions", "SessionFailed"} => m.session < next_session_id
    /\ m.kind = "SessionDeleted" => m.session \notin Alive

TuiTyped ==
    /\ page \in {"chat", "manager"}
    /\ listed \in Lists /\ Given(listed)
    /\ shown \in Views /\ at \in Views
    /\ input \in Texts /\ saved_draft \in Texts
    /\ browsing \in {"no", "entry", "edited"}
    /\ drafts \in [Rooms -> Texts]
    /\ toDaemon \in Seq(Requests)
    /\ toTui \in Seq(Events)
    /\ \A i \in DOMAIN toTui : Message(toTui[i])
    /\ pending \in Seq(Events) /\ Len(pending) <= 1
    /\ pending # <<>> => Message(pending[1])
    /\ {listening, untidy, refused, misrouted} \subseteq BOOLEAN
    /\ status \in Lists /\ Given(status)
    /\ parent \in [Rooms -> Views]
    /\ next_session_id \in Nat /\ at < next_session_id
    /\ ~untidy => \A i \in DOMAIN toDaemon :
          toDaemon[i].kind = "AttachSession" => toDaemon[i].session < next_session_id

AskAt(i) == toDaemon[i].kind = "AttachSession"
AnswerAt(i) == Answers(toTui[i])
Answering == pending # <<>> /\ Answers(pending[1])
NoAsk == \A i \in DOMAIN toDaemon : ~AskAt(i)
NoAnswer == \A i \in DOMAIN toTui : ~AnswerAt(i)

\* The last answer that is still to be read names the connection's session.
Settles ==
    NoAsk /\ ~Answering /\ ~refused =>
        \/ \E i \in DOMAIN toTui :
              /\ toTui[i].kind = "SessionAttached" /\ toTui[i].session = at
              /\ \A j \in DOMAIN toTui : toTui[j].kind = "SessionAttached" => j <= i
        \/ /\ \A i \in DOMAIN toTui : toTui[i].kind # "SessionAttached"
           /\ shown \in {at, Nowhere}

\* At most one attach is under way.
OneAttach ==
    /\ \A i, j \in DOMAIN toDaemon : AskAt(i) /\ AskAt(j) => i = j
    /\ \A i, j \in DOMAIN toTui : AnswerAt(i) /\ AnswerAt(j) => i = j
    /\ NoAsk \/ (~Answering /\ NoAnswer)
    /\ Answering => NoAnswer

\* It is an attach to the session shown, unless that was deleted meanwhile.
AttachIsShown ==
    /\ \A i \in DOMAIN toDaemon : AskAt(i) => shown \in {toDaemon[i].session, Nowhere}
    /\ Answering => shown \in {pending[1].session, Nowhere}
    /\ \A i \in DOMAIN toTui :
          AnswerAt(i) => shown \in {toTui[i].session, Nowhere}
    /\ \A i \in DOMAIN toTui :
          toTui[i].kind = "SessionAttached" => at = toTui[i].session

\* A prompt for s behind the first n requests will be handled by s, by no
\* session, or after an attach that was refused.
Arrives(s, n) ==
    /\ \A k \in DOMAIN toDaemon :
          k <= n /\ AskAt(k) => s = toDaemon[k].session \/ toDaemon[k].session \notin Alive
    /\ Answering /\ pending[1].kind = "SessionAttached" =>
          s = pending[1].session \/ pending[1].session \notin Alive
    /\ ~Answering /\ (\A k \in DOMAIN toDaemon : k <= n => ~AskAt(k)) =>
          at = s \/ at \notin Alive \/ refused

PromptsArrive ==
    /\ \A i \in DOMAIN toDaemon :
          toDaemon[i].kind = "RunInput" => Arrives(toDaemon[i].session, i)
    /\ Arrives(shown, Len(toDaemon))

\* The bar and the drafts hold what was typed where they are.
Bars ==
    /\ \A s \in Rooms : drafts[s] \subseteq {s, Nowhere, Entry} /\ drafts[s] # {Entry}
    /\ input \subseteq {shown, Nowhere, Entry}
    /\ saved_draft \subseteq {shown, Nowhere, Entry}
    /\ saved_draft # {Entry}
    /\ browsing # "entry" => input # {Entry}

Tidy == ~untidy => OneAttach /\ AttachIsShown /\ PromptsArrive /\ Bars /\ ~misrouted

TuiIInv == TuiTyped /\ Settles /\ Tidy

-----------------------------------------------------------------------------
(* Sequences *)

\* r is q without its first d elements.
Shorter(q, r, d) ==
    /\ Len(q) \in Nat /\ DOMAIN q = 1..Len(q) /\ d <= Len(q)
    /\ Len(r) = Len(q) - d /\ DOMAIN r = 1..Len(r)
    /\ \A i \in 1..Len(r) : r[i] = q[i + d]

\* r is q with e more elements.
Longer(q, r, e) ==
    /\ Len(q) \in Nat /\ DOMAIN q = 1..Len(q)
    /\ Len(r) = Len(q) + e /\ DOMAIN r = 1..Len(r)
    /\ \A i \in 1..Len(q) : r[i] = q[i]

LEMMA SameSeq ==
    ASSUME NEW S, NEW q \in Seq(S)
    PROVE  Shorter(q, q, 0) /\ Longer(q, q, 0)
<1>1. Len(q) \in Nat /\ DOMAIN q = 1..Len(q)
  BY LenProperties
<1> QED BY <1>1 DEF Shorter, Longer

LEMMA TailShorter ==
    ASSUME NEW S, NEW q \in Seq(S), q # <<>>
    PROVE  /\ Shorter(q, Tail(q), 1) /\ Tail(q) \in Seq(S)
           /\ 1 \in DOMAIN q /\ Head(q) = q[1] /\ q[1] \in S
<1>1. Len(q) \in Nat \ {0} /\ DOMAIN q = 1..Len(q)
  BY LenProperties, EmptySeq
<1>2. /\ Tail(q) \in Seq(S) /\ Len(Tail(q)) = Len(q) - 1
      /\ \A i \in 1..Len(Tail(q)) : Tail(q)[i] = q[i + 1]
  BY HeadTailProperties
<1>3. DOMAIN Tail(q) = 1..Len(Tail(q))
  BY <1>2, LenProperties
<1>4. Head(q) = q[1]
  OBVIOUS
<1>5. q[1] \in S
  BY <1>1, ElementOfSeq
<1> QED BY <1>1, <1>2, <1>3, <1>4, <1>5 DEF Shorter

LEMMA ConcatLonger ==
    ASSUME NEW S, NEW q \in Seq(S), NEW t \in Seq(S)
    PROVE  /\ Longer(q, q \o t, Len(t)) /\ q \o t \in Seq(S)
           /\ Len(t) \in Nat /\ DOMAIN t = 1..Len(t)
           /\ \A i \in 1..Len(t) : (q \o t)[Len(q) + i] = t[i]
<1>1. /\ Len(q) \in Nat /\ DOMAIN q = 1..Len(q)
      /\ Len(t) \in Nat /\ DOMAIN t = 1..Len(t)
  BY LenProperties
<1>2. /\ q \o t \in Seq(S) /\ Len(q \o t) = Len(q) + Len(t)
      /\ \A i \in 1..Len(q) + Len(t) :
            (q \o t)[i] = IF i <= Len(q) THEN q[i] ELSE t[i - Len(q)]
  BY ConcatProperties
<1>3. DOMAIN (q \o t) = 1..Len(q \o t)
  BY <1>2, LenProperties
<1>4. \A i \in 1..Len(t) : /\ Len(q) + i \in 1..Len(q) + Len(t)
                           /\ ~(Len(q) + i <= Len(q))
                           /\ (Len(q) + i) - Len(q) = i
  BY <1>1
<1>5. \A i \in 1..Len(q) : i \in 1..Len(q) + Len(t) /\ i <= Len(q)
  BY <1>1
<1> QED BY <1>1, <1>2, <1>3, <1>4, <1>5 DEF Longer

LEMMA AppendLonger ==
    ASSUME NEW S, NEW q \in Seq(S), NEW m \in S
    PROVE  /\ Longer(q, Append(q, m), 1) /\ Append(q, m) \in Seq(S)
           /\ Append(q, m)[Len(q) + 1] = m
<1>1. Len(q) \in Nat /\ DOMAIN q = 1..Len(q)
  BY LenProperties
<1>2. /\ Append(q, m) \in Seq(S) /\ Len(Append(q, m)) = Len(q) + 1
      /\ \A i \in 1..Len(q) : Append(q, m)[i] = q[i]
      /\ Append(q, m)[Len(q) + 1] = m
  BY AppendProperties
<1>3. DOMAIN Append(q, m) = 1..Len(Append(q, m))
  BY <1>2, LenProperties
<1> QED BY <1>1, <1>2, <1>3 DEF Longer

\* One and two elements.
LEMMA ShortSeqs ==
    ASSUME NEW S, NEW a \in S, NEW b \in S
    PROVE  /\ <<a>> \in Seq(S) /\ Len(<<a>>) = 1 /\ <<a>>[1] = a
           /\ <<a, b>> \in Seq(S) /\ Len(<<a, b>>) = 2
           /\ <<a, b>>[1] = a /\ <<a, b>>[2] = b
           /\ <<a>> # <<>>
OBVIOUS

-----------------------------------------------------------------------------
(* Types *)

LEMMA Constant ==
    /\ MaxChats \in Nat /\ Stored \in Nat /\ Stored <= MaxChats
    /\ Nowhere \notin Rooms /\ Nowhere \in Views /\ Rooms \subseteq Views
    /\ Entry \notin Views /\ \A s \in Views : s \in Nat /\ s <= MaxChats
BY TuiBounds DEF Rooms, Views, Nowhere, Entry

LEMMA RequestFacts ==
    /\ \A k \in {"ListSessions", "SubscribeAllActivity", "CreateSession", "RunInput"} :
          \A s \in Views : ToDaemon(k, s) \in Requests
    /\ \A k \in {"AttachSession", "DeleteSession"} :
          \A s \in Rooms : ToDaemon(k, s) \in Requests
    /\ \A k, s : ToDaemon(k, s).kind = k /\ ToDaemon(k, s).session = s
    /\ \A m \in Requests : m.session \in Views
    /\ \A m \in Requests :
          m.kind \in {"AttachSession", "DeleteSession"} => m.session \in Rooms
<1>1. Rooms \subseteq Views
  BY Constant
<1> QED BY <1>1 DEF Requests, ToDaemon

LEMMA EventFacts ==
    /\ \A k \in {"SessionCreated", "StatusIdle", "StatusActive", "SessionDeleted",
                 "SessionAttached", "SessionFailed"} :
          \A s \in Rooms : ToTui(k, s) \in Events
    /\ \A k, s : ToTui(k, s).kind = k /\ ToTui(k, s).session = s
    /\ \A l \in Lists : [kind |-> "Sessions", list |-> l] \in Events
    /\ \A m \in Events : m.kind # "Sessions" => m.session \in Rooms
    /\ \A m \in Events : m.kind = "Sessions" => m.list \in Lists
BY DEF Events, ToTui

-----------------------------------------------------------------------------
(* The steps of the client, by what they do to the channels *)

Ways == OneAttach /\ AttachIsShown /\ PromptsArrive

\* The connection and the sessions stay as they are.
ServerStays == UNCHANGED <<pending, at, status, next_session_id, refused, misrouted>>

\* The client reads nothing, or a message that is no SessionAttached.
ReadsOther ==
    \/ toTui' = toTui
    \/ toTui # <<>> /\ toTui' = Tail(toTui) /\ toTui[1].kind # "SessionAttached"

\* It sends nothing, or a request that is no attach.
SendsOther ==
    \/ toDaemon' = toDaemon
    \/ \E m \in Requests :
          /\ toDaemon' = Append(toDaemon, m)
          /\ m.kind # "AttachSession"
          /\ m.kind = "RunInput" => m.session = shown

\* The view stays, or goes with the session that was deleted.
StillStep ==
    /\ ServerStays /\ ReadsOther /\ SendsOther /\ untidy' = untidy
    /\ \/ shown' = shown
       \/ shown' = Nowhere /\ shown \notin Alive /\ toDaemon' = toDaemon

AttachedStep ==
    /\ ServerStays /\ toDaemon' = toDaemon /\ untidy' = untidy
    /\ toTui # <<>> /\ toTui' = Tail(toTui)
    /\ toTui[1].kind = "SessionAttached" /\ shown' = toTui[1].session

\* The view moves, and the attach is asked for last.
MovedStep ==
    /\ ServerStays /\ ReadsOther
    /\ shown' \in Rooms /\ shown' < next_session_id
    /\ \E ms \in Seq(Requests) :
          /\ toDaemon' = toDaemon \o ms
          /\ Len(ms) \in Nat \ {0}
          /\ ms[Len(ms)] = ToDaemon("AttachSession", shown')
          /\ \A i \in 1..Len(ms) :
                i # Len(ms) => ms[i].kind \notin {"AttachSession", "RunInput"}
    /\ untidy' = (untidy \/ AttachUnderWay)

LEMMA UnderWay == AttachUnderWay <=> ~NoAsk \/ (\E i \in DOMAIN pending : Answers(pending[i])) \/ ~NoAnswer
BY DEF AttachUnderWay, NoAsk, AskAt, NoAnswer, AnswerAt, Answers

LEMMA PendingOne ==
    ASSUME TuiTyped
    PROVE  /\ pending # <<>> => DOMAIN pending = {1} /\ Len(pending) = 1
           /\ pending = <<>> => DOMAIN pending = {}
           /\ (\E i \in DOMAIN pending : Answers(pending[i])) <=> Answering
<1>1. pending \in Seq(Events) /\ Len(pending) <= 1
  BY DEF TuiTyped
<1>2. Len(pending) \in Nat /\ DOMAIN pending = 1..Len(pending)
  BY <1>1, LenProperties
<1>3. pending # <<>> => Len(pending) = 1
  BY <1>1, <1>2, EmptySeq
<1>4. pending = <<>> => Len(pending) = 0
  OBVIOUS
<1> QED BY <1>1, <1>2, <1>3, <1>4 DEF Answering

LEMMA ReadFacts ==
    ASSUME TuiTyped, ReadsOther
    PROVE  \E d \in {0, 1} : /\ Shorter(toTui, toTui', d)
                             /\ d = 1 => toTui[1].kind # "SessionAttached"
<1>1. toTui \in Seq(Events)
  BY DEF TuiTyped
<1>2. CASE toTui' = toTui
  BY <1>1, <1>2, SameSeq
<1>3. CASE toTui # <<>> /\ toTui' = Tail(toTui) /\ toTui[1].kind # "SessionAttached"
  BY <1>1, <1>3, TailShorter
<1> QED BY <1>2, <1>3 DEF ReadsOther

\* What is read can only finish the attach that is under way.
LEMMA ReadOne ==
    ASSUME NEW d \in {0, 1}, Shorter(toTui, toTui', d)
    PROVE  /\ \A i \in DOMAIN toTui' : /\ i \in Nat /\ i + d \in DOMAIN toTui
                                       /\ toTui'[i] = toTui[i + d]
           /\ \A i \in DOMAIN toTui : i > d => i \in Nat /\ i - d \in DOMAIN toTui' /\ toTui'[i - d] = toTui[i]
           /\ \A i \in DOMAIN toTui : i \in Nat /\ i >= 1
           /\ NoAnswer => NoAnswer'
<1>1. \A i \in DOMAIN toTui' : i \in Nat /\ i + d \in DOMAIN toTui /\ toTui'[i] = toTui[i + d]
  BY DEF Shorter
<1>2. \A i \in DOMAIN toTui : i > d =>
         i \in Nat /\ i - d \in 1..Len(toTui') /\ i - d + d = i
  BY DEF Shorter
<1>3. \A i \in DOMAIN toTui : i > d => i - d \in DOMAIN toTui' /\ toTui'[i - d] = toTui[i]
  BY <1>2 DEF Shorter
<1>4. NoAnswer => NoAnswer'
  BY <1>1 DEF NoAnswer, AnswerAt
<1>5. \A i \in DOMAIN toTui : i \in Nat /\ i >= 1
  BY DEF Shorter
<1> QED BY <1>1, <1>2, <1>3, <1>4, <1>5

\* What the client sends without moving.
LEMMA SendFacts ==
    ASSUME TuiTyped, SendsOther
    PROVE  /\ \E e \in {0, 1} : Longer(toDaemon, toDaemon', e)
           /\ \A i \in DOMAIN toDaemon' \ DOMAIN toDaemon :
                 /\ i = Len(toDaemon) + 1
                 /\ toDaemon'[i].kind # "AttachSession"
                 /\ toDaemon'[i].kind = "RunInput" => toDaemon'[i].session = shown
<1>1. toDaemon \in Seq(Requests)
  BY DEF TuiTyped
<1>2. CASE toDaemon' = toDaemon
  BY <1>1, <1>2, SameSeq
<1>3. ASSUME NEW m \in Requests, toDaemon' = Append(toDaemon, m),
             m.kind # "AttachSession", m.kind = "RunInput" => m.session = shown
      PROVE  /\ \E e \in {0, 1} : Longer(toDaemon, toDaemon', e)
             /\ \A i \in DOMAIN toDaemon' \ DOMAIN toDaemon :
                   /\ i = Len(toDaemon) + 1
                   /\ toDaemon'[i].kind # "AttachSession"
                   /\ toDaemon'[i].kind = "RunInput" => toDaemon'[i].session = shown
  <2>1. Longer(toDaemon, toDaemon', 1) /\ toDaemon'[Len(toDaemon) + 1] = m
    BY <1>1, <1>3, AppendLonger
  <2>2. \A i \in DOMAIN toDaemon' \ DOMAIN toDaemon : i = Len(toDaemon) + 1
    BY <2>1 DEF Longer
  <2> QED BY <1>3, <2>1, <2>2
<1> QED BY <1>2, <1>3 DEF SendsOther

LEMMA LongerFacts ==
    ASSUME NEW e \in Nat, Longer(toDaemon, toDaemon', e)
    PROVE  /\ \A i \in DOMAIN toDaemon : i \in Nat /\ i \in DOMAIN toDaemon'
                                         /\ i <= Len(toDaemon) /\ toDaemon'[i] = toDaemon[i]
           /\ \A i \in DOMAIN toDaemon' : i \in Nat /\ i >= 1 /\ i <= Len(toDaemon')
                 /\ (i <= Len(toDaemon) <=> i \in DOMAIN toDaemon)
           /\ Len(toDaemon) \in Nat /\ Len(toDaemon') \in Nat
           /\ Len(toDaemon) <= Len(toDaemon')
BY DEF Longer

LEMMA StillSettles ==
    ASSUME TuiTyped, Settles, StillStep
    PROVE  Settles'
<1>1. PICK d \in {0, 1} : Shorter(toTui, toTui', d)
                          /\ (d = 1 => toTui[1].kind # "SessionAttached")
  BY ReadFacts DEF StillStep
<1>2. /\ \A i \in DOMAIN toTui' : i \in Nat /\ i + d \in DOMAIN toTui /\ toTui'[i] = toTui[i + d]
      /\ \A i \in DOMAIN toTui : i > d => i \in Nat /\ i - d \in DOMAIN toTui' /\ toTui'[i - d] = toTui[i]
      /\ \A i \in DOMAIN toTui : i \in Nat /\ i >= 1
  BY <1>1, ReadOne
<1>3. PICK e \in {0, 1} : Longer(toDaemon, toDaemon', e)
  BY SendFacts DEF StillStep
<1>4. NoAsk' => NoAsk
  BY <1>3, LongerFacts DEF NoAsk, AskAt
<1>5. Answering' <=> Answering
  BY DEF StillStep, ServerStays, Answering
<1>6. at' = at /\ refused' = refused /\ shown' \in {shown, Nowhere}
  BY DEF StillStep, ServerStays
<1> SUFFICES ASSUME NoAsk', ~Answering', ~refused'
             PROVE  \/ \E i \in DOMAIN toTui' :
                          /\ toTui'[i].kind = "SessionAttached" /\ toTui'[i].session = at'
                          /\ \A j \in DOMAIN toTui' :
                                toTui'[j].kind = "SessionAttached" => j <= i
                    \/ /\ \A i \in DOMAIN toTui' : toTui'[i].kind # "SessionAttached"
                       /\ shown' \in {at', Nowhere}
  BY DEF Settles
<1>7. CASE \E i \in DOMAIN toTui :
              /\ toTui[i].kind = "SessionAttached" /\ toTui[i].session = at
              /\ \A j \in DOMAIN toTui : toTui[j].kind = "SessionAttached" => j <= i
  <2>1. PICK i \in DOMAIN toTui :
              /\ toTui[i].kind = "SessionAttached" /\ toTui[i].session = at
              /\ \A j \in DOMAIN toTui : toTui[j].kind = "SessionAttached" => j <= i
    BY <1>7
  <2>2. i > d
    BY <1>1, <1>2, <2>1
  <2>3. i - d \in DOMAIN toTui' /\ toTui'[i - d] = toTui[i] /\ i \in Nat
    BY <1>2, <2>2
  <2>4. \A j \in DOMAIN toTui' : toTui'[j].kind = "SessionAttached" => j <= i - d
    BY <1>2, <2>1, <2>3
  <2> QED BY <1>6, <2>1, <2>3, <2>4
<1>8. CASE /\ \A i \in DOMAIN toTui : toTui[i].kind # "SessionAttached"
           /\ shown \in {at, Nowhere}
  BY <1>2, <1>6, <1>8
<1> QED BY <1>4, <1>5, <1>6, <1>7, <1>8 DEF Settles

LEMMA StillWays ==
    ASSUME TuiTyped, Ways, StillStep PROVE Ways'
<1>1. PICK d \in {0, 1} : Shorter(toTui, toTui', d)
  BY ReadFacts DEF StillStep
<1>2. /\ \A i \in DOMAIN toTui' : i \in Nat /\ i + d \in DOMAIN toTui /\ toTui'[i] = toTui[i + d]
      /\ NoAnswer => NoAnswer'
  BY <1>1, ReadOne
<1>3. PICK e \in {0, 1} : Longer(toDaemon, toDaemon', e)
  BY SendFacts DEF StillStep
<1>4. /\ \A i \in DOMAIN toDaemon : i \in Nat /\ i \in DOMAIN toDaemon'
                                    /\ i <= Len(toDaemon) /\ toDaemon'[i] = toDaemon[i]
      /\ \A i \in DOMAIN toDaemon' : i \in Nat /\ i >= 1 /\ i <= Len(toDaemon')
            /\ (i <= Len(toDaemon) <=> i \in DOMAIN toDaemon)
      /\ Len(toDaemon) \in Nat /\ Len(toDaemon') \in Nat /\ Len(toDaemon) <= Len(toDaemon')
  BY <1>3, LongerFacts
<1>5. \A i \in DOMAIN toDaemon' \ DOMAIN toDaemon :
         /\ i = Len(toDaemon) + 1
         /\ toDaemon'[i].kind # "AttachSession"
         /\ toDaemon'[i].kind = "RunInput" => toDaemon'[i].session = shown
  BY SendFacts DEF StillStep
<1>6. /\ \A i \in DOMAIN toDaemon' : toDaemon'[i].kind = "AttachSession" =>
            i \in DOMAIN toDaemon /\ toDaemon[i].kind = "AttachSession"
              /\ toDaemon'[i] = toDaemon[i]
      /\ NoAsk' <=> NoAsk
  BY <1>4, <1>5 DEF NoAsk, AskAt
<1>7. /\ pending' = pending /\ at' = at /\ refused' = refused
      /\ Answering' <=> Answering
      /\ Alive' = Alive
      /\ shown' \in {shown, Nowhere}
  BY DEF StillStep, ServerStays, Answering, Alive
<1>8. OneAttach'
  <2>1. \A i, j \in DOMAIN toDaemon' : AskAt(i)' /\ AskAt(j)' => i = j
    BY <1>6 DEF Ways, OneAttach, AskAt
  <2>2. \A i, j \in DOMAIN toTui' : AnswerAt(i)' /\ AnswerAt(j)' => i = j
    BY <1>2 DEF Ways, OneAttach, AnswerAt
  <2>3. (NoAsk' \/ (~Answering' /\ NoAnswer')) /\ (Answering' => NoAnswer')
    BY <1>2, <1>6, <1>7 DEF Ways, OneAttach
  <2> QED BY <2>1, <2>2, <2>3 DEF OneAttach
<1>9. AttachIsShown'
  <2>1. \A i \in DOMAIN toDaemon' : AskAt(i)' => shown' \in {toDaemon'[i].session, Nowhere}
    BY <1>6, <1>7 DEF Ways, AttachIsShown, AskAt
  <2>2. Answering' => shown' \in {pending'[1].session, Nowhere}
    BY <1>7 DEF Ways, AttachIsShown
  <2>3. \A i \in DOMAIN toTui' :
           /\ AnswerAt(i)' => shown' \in {toTui'[i].session, Nowhere}
           /\ toTui'[i].kind = "SessionAttached" => at' = toTui'[i].session
    BY <1>2, <1>7 DEF Ways, AttachIsShown, AnswerAt
  <2> QED BY <2>1, <2>2, <2>3 DEF AttachIsShown
<1>10. ASSUME NEW s, NEW n \in Nat, Arrives(s, n) PROVE Arrives(s, n)'
  <2>1. \A k \in DOMAIN toDaemon' : AskAt(k)' <=> k \in DOMAIN toDaemon /\ AskAt(k)
    BY <1>4, <1>6 DEF AskAt
  <2>2. \A k \in DOMAIN toDaemon : k \in DOMAIN toDaemon' /\ toDaemon'[k] = toDaemon[k]
    BY <1>4
  <2> QED BY <1>7, <1>10, <2>1, <2>2 DEF Arrives
<1>11. Arrives(shown, Len(toDaemon))
  BY DEF Ways, PromptsArrive
<1>12. Arrives(shown, Len(toDaemon')) /\ Arrives(shown, Len(toDaemon) + 1)
  <2>1. \A k \in DOMAIN toDaemon : k <= Len(toDaemon) /\ k <= Len(toDaemon')
                                   /\ k <= Len(toDaemon) + 1
    BY <1>4
  <2> QED BY <1>11, <2>1 DEF Arrives
<1>13. Arrives(shown', Len(toDaemon'))
  <2>1. CASE shown' = shown
    BY <1>12, <2>1
  <2>2. CASE shown' # shown
    <3>1. shown' = Nowhere /\ shown \notin Alive
      BY <2>2 DEF StillStep
    <3> QED BY <1>12, <3>1 DEF Arrives
  <2> QED BY <2>1, <2>2
<1>14. Arrives(shown, Len(toDaemon))'
  <2>1. PICK v, n : v = shown' /\ n = Len(toDaemon')
    OBVIOUS
  <2>2. n \in Nat /\ Arrives(v, n)
    BY <1>4, <1>13, <2>1
  <2>3. Arrives(v, n)'
    BY <1>10, <2>2
  <2> QED BY <2>1, <2>3 DEF Arrives
<1>15. ASSUME NEW i \in DOMAIN toDaemon', toDaemon'[i].kind = "RunInput"
       PROVE  Arrives(toDaemon[i].session, i)'
  <2>1. PICK v : v = toDaemon'[i].session
    OBVIOUS
  <2>2. i \in Nat /\ Arrives(v, i)
    BY <1>4, <1>5, <1>12, <1>15, <2>1 DEF Ways, PromptsArrive
  <2>3. Arrives(v, i)'
    BY <1>10, <2>2
  <2> QED BY <2>1, <2>3 DEF Arrives
<1>16. PromptsArrive'
  BY <1>14, <1>15 DEF PromptsArrive
<1> QED BY <1>8, <1>9, <1>16 DEF Ways

\* The client reads the answer to its attach.
LEMMA AttachedSettles ==
    ASSUME TuiTyped, Settles, AttachedStep PROVE Settles'
<1>0. toTui \in Seq(Events) /\ toTui # <<>> /\ toTui' = Tail(toTui)
  BY DEF TuiTyped, AttachedStep
<1>1. Shorter(toTui, toTui', 1) /\ 1 \in DOMAIN toTui
  BY <1>0, TailShorter
<1>2. /\ \A i \in DOMAIN toTui' : i \in Nat /\ i + 1 \in DOMAIN toTui /\ toTui'[i] = toTui[i + 1]
      /\ \A i \in DOMAIN toTui : i > 1 => i \in Nat /\ i - 1 \in DOMAIN toTui' /\ toTui'[i - 1] = toTui[i]
      /\ \A i \in DOMAIN toTui : i \in Nat /\ i >= 1
  BY <1>1, ReadOne
<1>3. /\ at' = at /\ refused' = refused /\ toTui[1].kind = "SessionAttached"
      /\ shown' = toTui[1].session
      /\ (NoAsk' <=> NoAsk) /\ (Answering' <=> Answering)
  BY DEF AttachedStep, ServerStays, NoAsk, AskAt, Answering
<1> SUFFICES ASSUME NoAsk', ~Answering', ~refused'
             PROVE  \/ \E i \in DOMAIN toTui' :
                          /\ toTui'[i].kind = "SessionAttached" /\ toTui'[i].session = at'
                          /\ \A j \in DOMAIN toTui' :
                                toTui'[j].kind = "SessionAttached" => j <= i
                    \/ /\ \A i \in DOMAIN toTui' : toTui'[i].kind # "SessionAttached"
                       /\ shown' \in {at', Nowhere}
  BY DEF Settles
<1>4. PICK i \in DOMAIN toTui :
        /\ toTui[i].kind = "SessionAttached" /\ toTui[i].session = at
        /\ \A j \in DOMAIN toTui : toTui[j].kind = "SessionAttached" => j <= i
  BY <1>1, <1>3 DEF Settles
<1>5. CASE i = 1
  <2>1. \A j \in DOMAIN toTui' : toTui'[j].kind # "SessionAttached"
    <3> SUFFICES ASSUME NEW j \in DOMAIN toTui', toTui'[j].kind = "SessionAttached"
                 PROVE  FALSE
      OBVIOUS
    <3>1. j \in Nat /\ j + 1 \in DOMAIN toTui /\ toTui'[j] = toTui[j + 1]
      BY <1>2
    <3>2. j + 1 <= 1 /\ j >= 1
      BY <1>1, <1>4, <1>5, <3>1 DEF Shorter
    <3> QED BY <3>1, <3>2
  <2> QED BY <1>3, <1>4, <1>5, <2>1
<1>6. CASE i # 1
  <2>1. i \in Nat /\ i - 1 \in DOMAIN toTui' /\ toTui'[i - 1] = toTui[i]
    BY <1>2, <1>6
  <2>2. \A j \in DOMAIN toTui' : toTui'[j].kind = "SessionAttached" => j <= i - 1
    BY <1>2, <1>4, <2>1
  <2> QED BY <1>3, <1>4, <2>1, <2>2
<1> QED BY <1>5, <1>6

LEMMA AttachedWays ==
    ASSUME TuiTyped, Ways, AttachedStep PROVE Ways'
<1>0. toTui \in Seq(Events) /\ toTui # <<>> /\ toTui' = Tail(toTui)
  BY DEF TuiTyped, AttachedStep
<1>1. Shorter(toTui, toTui', 1) /\ 1 \in DOMAIN toTui
  BY <1>0, TailShorter
<1>2. \A i \in DOMAIN toTui' : i \in Nat /\ i >= 1 /\ i + 1 \in DOMAIN toTui
                               /\ toTui'[i] = toTui[i + 1]
  BY <1>1 DEF Shorter
<1>3. /\ at' = at /\ refused' = refused /\ pending' = pending /\ toDaemon' = toDaemon
      /\ toTui[1].kind = "SessionAttached" /\ shown' = toTui[1].session
      /\ (NoAsk' <=> NoAsk) /\ (Answering' <=> Answering) /\ Alive' = Alive
  BY DEF AttachedStep, ServerStays, NoAsk, AskAt, Answering, Alive
<1>4. AnswerAt(1)
  BY <1>3 DEF AnswerAt, Answers
<1>5. NoAsk /\ ~Answering
  BY <1>1, <1>4 DEF Ways, OneAttach, NoAnswer
<1>6. NoAnswer'
  <2> SUFFICES ASSUME NEW i \in DOMAIN toTui', Answers(toTui'[i]) PROVE FALSE
    BY DEF NoAnswer, AnswerAt
  <2>1. i + 1 \in DOMAIN toTui /\ AnswerAt(i + 1) /\ i \in Nat /\ i >= 1
    BY <1>2 DEF AnswerAt
  <2>2. i + 1 = 1
    BY <1>1, <1>4, <2>1 DEF Ways, OneAttach
  <2> QED BY <2>1, <2>2
<1>7. at = shown'
  BY <1>1, <1>3 DEF Ways, AttachIsShown
<1>8. OneAttach'
  BY <1>3, <1>5, <1>6 DEF OneAttach, NoAsk, NoAnswer
<1>9. AttachIsShown'
  BY <1>3, <1>5, <1>6 DEF AttachIsShown, NoAsk, NoAnswer, AnswerAt, Answers
<1>10. Arrives(shown, Len(toDaemon))'
  BY <1>3, <1>5, <1>7 DEF Arrives, NoAsk
<1>11. ASSUME NEW i \in DOMAIN toDaemon', toDaemon'[i].kind = "RunInput"
       PROVE  Arrives(toDaemon[i].session, i)'
  <2>1. Arrives(toDaemon[i].session, i)
    BY <1>3, <1>11 DEF Ways, PromptsArrive
  <2> QED BY <1>3, <2>1 DEF Arrives, AskAt
<1> QED BY <1>8, <1>9, <1>10, <1>11 DEF Ways, PromptsArrive

\* The client moves its view while no attach is under way.
LEMMA MovedFacts ==
    ASSUME TuiTyped, MovedStep
    PROVE  /\ Len(toDaemon) \in Nat /\ Len(toDaemon') \in Nat /\ Len(toDaemon') > Len(toDaemon)
           /\ DOMAIN toDaemon' = 1..Len(toDaemon')
           /\ DOMAIN toDaemon = 1..Len(toDaemon)
           /\ \A i \in DOMAIN toDaemon : i \in DOMAIN toDaemon' /\ toDaemon'[i] = toDaemon[i]
           /\ toDaemon'[Len(toDaemon')] = ToDaemon("AttachSession", shown')
           /\ \A i \in DOMAIN toDaemon' \ DOMAIN toDaemon : i # Len(toDaemon') =>
                 toDaemon'[i].kind \notin {"AttachSession", "RunInput"}
           /\ toDaemon' \in Seq(Requests)
<1>1. PICK ms \in Seq(Requests) :
        /\ toDaemon' = toDaemon \o ms
        /\ Len(ms) \in Nat \ {0}
        /\ ms[Len(ms)] = ToDaemon("AttachSession", shown')
        /\ \A i \in 1..Len(ms) :
              i # Len(ms) => ms[i].kind \notin {"AttachSession", "RunInput"}
  BY DEF MovedStep
<1>2. toDaemon \in Seq(Requests)
  BY DEF TuiTyped
<1>3. /\ Longer(toDaemon, toDaemon', Len(ms)) /\ toDaemon' \in Seq(Requests)
      /\ \A i \in 1..Len(ms) : toDaemon'[Len(toDaemon) + i] = ms[i]
  BY <1>1, <1>2, ConcatLonger
<1>4. /\ Len(toDaemon) \in Nat /\ Len(toDaemon') = Len(toDaemon) + Len(ms)
      /\ DOMAIN toDaemon' = 1..Len(toDaemon') /\ DOMAIN toDaemon = 1..Len(toDaemon)
      /\ \A i \in DOMAIN toDaemon : i \in DOMAIN toDaemon' /\ toDaemon'[i] = toDaemon[i]
  BY <1>1, <1>3 DEF Longer
<1>5. toDaemon'[Len(toDaemon')] = ToDaemon("AttachSession", shown')
  BY <1>1, <1>3, <1>4
<1>6. ASSUME NEW i \in DOMAIN toDaemon' \ DOMAIN toDaemon, i # Len(toDaemon')
      PROVE  toDaemon'[i].kind \notin {"AttachSession", "RunInput"}
  <2>1. /\ i - Len(toDaemon) \in 1..Len(ms) /\ i - Len(toDaemon) # Len(ms)
        /\ Len(toDaemon) + (i - Len(toDaemon)) = i
    BY <1>1, <1>4, <1>6
  <2> QED BY <1>1, <1>3, <2>1
<1> QED BY <1>1, <1>3, <1>4, <1>5, <1>6

LEMMA MovedSettles ==
    ASSUME TuiTyped, MovedStep PROVE Settles'
<1>1. /\ Len(toDaemon') \in DOMAIN toDaemon'
      /\ toDaemon'[Len(toDaemon')].kind = "AttachSession"
  BY MovedFacts, RequestFacts
<1>2. ~NoAsk'
  BY <1>1 DEF NoAsk, AskAt
<1> QED BY <1>2 DEF Settles

LEMMA MovedWays ==
    ASSUME TuiTyped, ~untidy => Ways, MovedStep, ~untidy' PROVE Ways'
<1>0. TuiTyped /\ untidy \in BOOLEAN
  BY DEF TuiTyped
<1>1. Ways /\ NoAsk /\ ~Answering /\ NoAnswer
  BY <1>0, UnderWay, PendingOne DEF MovedStep
<1>2. PICK d \in {0, 1} : Shorter(toTui, toTui', d)
  BY ReadFacts DEF MovedStep
<1>3. NoAnswer'
  BY <1>1, <1>2, ReadOne
<1>4. /\ Len(toDaemon) \in Nat /\ Len(toDaemon') \in Nat /\ Len(toDaemon') > Len(toDaemon)
      /\ DOMAIN toDaemon' = 1..Len(toDaemon') /\ DOMAIN toDaemon = 1..Len(toDaemon)
      /\ \A i \in DOMAIN toDaemon : i \in DOMAIN toDaemon' /\ toDaemon'[i] = toDaemon[i]
      /\ toDaemon'[Len(toDaemon')].kind = "AttachSession"
      /\ toDaemon'[Len(toDaemon')].session = shown'
      /\ \A i \in DOMAIN toDaemon' \ DOMAIN toDaemon : i # Len(toDaemon') =>
            toDaemon'[i].kind \notin {"AttachSession", "RunInput"}
  BY MovedFacts, RequestFacts
<1>5. \A i \in DOMAIN toDaemon' : AskAt(i)' => i = Len(toDaemon')
  BY <1>1, <1>4 DEF NoAsk, AskAt
<1>6. ~Answering' /\ at' = at /\ refused' = refused /\ Alive' = Alive
  BY <1>1 DEF MovedStep, ServerStays, Answering, Alive
<1>7. OneAttach'
  BY <1>3, <1>5, <1>6 DEF OneAttach, NoAnswer
<1>8. AttachIsShown'
  BY <1>3, <1>4, <1>5, <1>6 DEF AttachIsShown, NoAnswer, AnswerAt, Answers
<1>9. Arrives(shown, Len(toDaemon))'
  <2>1. Len(toDaemon') \in DOMAIN toDaemon' /\ AskAt(Len(toDaemon))'
    BY <1>4 DEF AskAt
  <2> QED BY <1>4, <1>5, <1>6, <2>1 DEF Arrives
<1>10. ASSUME NEW i \in DOMAIN toDaemon', toDaemon'[i].kind = "RunInput"
       PROVE  Arrives(toDaemon[i].session, i)'
  <2>1. i \in DOMAIN toDaemon /\ toDaemon'[i] = toDaemon[i] /\ i \in Nat /\ i < Len(toDaemon')
    BY <1>4, <1>10
  <2>2. Arrives(toDaemon[i].session, i)
    BY <1>1, <1>10, <2>1 DEF Ways, PromptsArrive
  <2>3. at = toDaemon[i].session \/ at \notin Alive \/ refused
    BY <1>1, <2>2 DEF Arrives, NoAsk
  <2>4. \A k \in DOMAIN toDaemon' : k <= i => ~AskAt(k)'
    BY <1>4, <1>5, <2>1
  <2> QED BY <1>6, <2>1, <2>3, <2>4 DEF Arrives
<1> QED BY <1>7, <1>8, <1>9, <1>10 DEF Ways, PromptsArrive

-----------------------------------------------------------------------------
(* The steps of the connection and the command loop *)

\* A step that takes no attach and gives no answer to one.
ServerStep ==
    /\ UNCHANGED <<shown, at, refused, untidy>>
    /\ \/ toDaemon' = toDaemon
       \/ toDaemon # <<>> /\ toDaemon' = Tail(toDaemon) /\ ~AskAt(1)
    /\ \E ms \in Seq(Events) :
          toTui' = toTui \o ms /\ \A i \in 1..Len(ms) : ~Answers(ms[i])
    /\ (~Answering /\ ~Answering') \/ pending' = pending
    /\ Alive' \subseteq Alive \cup {next_session_id}

LEMMA ServerFacts ==
    ASSUME TuiTyped, ServerStep
    PROVE  /\ \E d \in {0, 1} : Shorter(toDaemon, toDaemon', d) /\ (d = 1 => ~AskAt(1))
           /\ \A i \in DOMAIN toTui : /\ i \in Nat /\ i \in DOMAIN toTui'
                                      /\ toTui'[i] = toTui[i]
           /\ \A i \in DOMAIN toTui' : Answers(toTui'[i]) => i \in DOMAIN toTui
<1>1. toDaemon \in Seq(Requests) /\ toTui \in Seq(Events)
  BY DEF TuiTyped
<1>2. \E d \in {0, 1} : Shorter(toDaemon, toDaemon', d) /\ (d = 1 => ~AskAt(1))
  <2>1. CASE toDaemon' = toDaemon
    BY <1>1, <2>1, SameSeq
  <2>2. CASE toDaemon # <<>> /\ toDaemon' = Tail(toDaemon) /\ ~AskAt(1)
    BY <1>1, <2>2, TailShorter
  <2> QED BY <2>1, <2>2 DEF ServerStep
<1>3. PICK ms \in Seq(Events) :
        toTui' = toTui \o ms /\ \A i \in 1..Len(ms) : ~Answers(ms[i])
  BY DEF ServerStep
<1>4. /\ Longer(toTui, toTui', Len(ms)) /\ Len(ms) \in Nat
      /\ \A i \in 1..Len(ms) : toTui'[Len(toTui) + i] = ms[i]
  BY <1>1, <1>3, ConcatLonger
<1>5. ASSUME NEW i \in DOMAIN toTui', i \notin DOMAIN toTui PROVE ~Answers(toTui'[i])
  <2>1. /\ i - Len(toTui) \in 1..Len(ms) /\ Len(toTui) + (i - Len(toTui)) = i
    BY <1>4, <1>5 DEF Longer
  <2> QED BY <1>3, <1>4, <2>1
<1>6. \A i \in DOMAIN toTui : i \in Nat /\ i \in DOMAIN toTui' /\ toTui'[i] = toTui[i]
  BY <1>4 DEF Longer
<1> QED BY <1>2, <1>5, <1>6

LEMMA ServerSettles ==
    ASSUME TuiTyped, Settles, ServerStep PROVE Settles'
<1>1. PICK d \in {0, 1} : Shorter(toDaemon, toDaemon', d) /\ (d = 1 => ~AskAt(1))
  BY ServerFacts
<1>2. /\ \A i \in DOMAIN toTui : i \in DOMAIN toTui' /\ toTui'[i] = toTui[i]
      /\ \A i \in DOMAIN toTui' : toTui'[i].kind = "SessionAttached" => i \in DOMAIN toTui
  BY ServerFacts DEF Answers
<1>3. NoAsk' => NoAsk
  <2> SUFFICES ASSUME NoAsk', NEW i \in DOMAIN toDaemon PROVE ~AskAt(i)
    BY DEF NoAsk
  <2>1. i > d => i - d \in DOMAIN toDaemon' /\ toDaemon'[i - d] = toDaemon[i]
    <3>1. i > d => i - d \in 1..Len(toDaemon') /\ i - d + d = i
      BY <1>1 DEF Shorter
    <3> QED BY <1>1, <3>1 DEF Shorter
  <2>2. i <= d => i = 1 /\ d = 1
    BY <1>1 DEF Shorter
  <2>3. i \in Nat
    BY <1>1 DEF Shorter
  <2>4. i > d => ~AskAt(i)
    BY <2>1 DEF NoAsk, AskAt
  <2> QED BY <1>1, <2>2, <2>3, <2>4
<1>4. ~Answering' => ~Answering
  BY DEF ServerStep, Answering
<1>5. UNCHANGED <<shown, at, refused>>
  BY DEF ServerStep
<1> QED BY <1>2, <1>3, <1>4, <1>5 DEF Settles

LEMMA ServerWays ==
    ASSUME TuiTyped, ~untidy, Ways, ServerStep PROVE Ways'
<1>1. PICK d \in {0, 1} : Shorter(toDaemon, toDaemon', d) /\ (d = 1 => ~AskAt(1))
  BY ServerFacts
<1>2. /\ \A i \in DOMAIN toTui : i \in DOMAIN toTui' /\ toTui'[i] = toTui[i]
      /\ \A i \in DOMAIN toTui' : Answers(toTui'[i]) => i \in DOMAIN toTui
  BY ServerFacts
<1>3. /\ \A i \in DOMAIN toDaemon' : i \in Nat /\ i + d \in DOMAIN toDaemon
                                     /\ toDaemon'[i] = toDaemon[i + d]
      /\ Len(toDaemon) \in Nat /\ Len(toDaemon') = Len(toDaemon) - d
      /\ Len(toDaemon') \in Nat /\ d \in Nat
  BY <1>1 DEF Shorter
<1>4. \A i \in DOMAIN toDaemon : AskAt(i) =>
         i \in Nat /\ i - d \in DOMAIN toDaemon' /\ toDaemon'[i - d] = toDaemon[i]
  <2> SUFFICES ASSUME NEW i \in DOMAIN toDaemon, AskAt(i)
               PROVE  i \in Nat /\ i - d \in DOMAIN toDaemon' /\ toDaemon'[i - d] = toDaemon[i]
    OBVIOUS
  <2>1. i \in Nat /\ i >= 1 /\ ~(d = 1 /\ i = 1)
    BY <1>1 DEF Shorter
  <2>2. i - d \in 1..Len(toDaemon') /\ i - d + d = i
    BY <1>1, <2>1 DEF Shorter
  <2> QED BY <1>1, <2>1, <2>2 DEF Shorter
<1>5. (NoAsk => NoAsk') /\ (NoAnswer => NoAnswer')
  BY <1>2, <1>3 DEF NoAsk, AskAt, NoAnswer, AnswerAt
<1>6. /\ UNCHANGED <<shown, at, refused>>
      /\ (~Answering /\ ~Answering') \/ (pending' = pending /\ (Answering' <=> Answering))
  BY DEF ServerStep, Answering
<1>7. \A x : x < next_session_id /\ x \notin Alive => x \notin Alive'
  <2>1. next_session_id \in Nat
    BY DEF TuiTyped
  <2> QED BY <2>1 DEF ServerStep
<1>8. OneAttach'
  <2>1. \A i, j \in DOMAIN toDaemon' : AskAt(i)' /\ AskAt(j)' => i = j
    <3> SUFFICES ASSUME NEW i \in DOMAIN toDaemon', NEW j \in DOMAIN toDaemon',
                        AskAt(i)', AskAt(j)'
                 PROVE  i = j
      OBVIOUS
    <3>1. i + d \in DOMAIN toDaemon /\ j + d \in DOMAIN toDaemon /\ i \in Nat /\ j \in Nat
            /\ AskAt(i + d) /\ AskAt(j + d)
      BY <1>3 DEF AskAt
    <3>2. i + d = j + d
      BY <3>1 DEF Ways, OneAttach
    <3> QED BY <1>3, <3>1, <3>2
  <2>2. \A i, j \in DOMAIN toTui' : AnswerAt(i)' /\ AnswerAt(j)' => i = j
    BY <1>2 DEF Ways, OneAttach, AnswerAt
  <2>3. (NoAsk' \/ (~Answering' /\ NoAnswer')) /\ (Answering' => NoAnswer')
    BY <1>5, <1>6 DEF Ways, OneAttach
  <2> QED BY <2>1, <2>2, <2>3 DEF OneAttach
<1>9. AttachIsShown'
  <2>1. \A i \in DOMAIN toDaemon' : AskAt(i)' => shown' \in {toDaemon'[i].session, Nowhere}
    BY <1>3, <1>6 DEF Ways, AttachIsShown, AskAt
  <2>2. Answering' => shown' \in {pending'[1].session, Nowhere}
    BY <1>6 DEF Ways, AttachIsShown
  <2>3. \A i \in DOMAIN toTui' :
           /\ AnswerAt(i)' => shown' \in {toTui'[i].session, Nowhere}
           /\ toTui'[i].kind = "SessionAttached" => at' = toTui'[i].session
    BY <1>2, <1>6 DEF Ways, AttachIsShown, AnswerAt, Answers
  <2> QED BY <2>1, <2>2, <2>3 DEF AttachIsShown
<1>10. ASSUME NEW s, NEW n \in Nat, Arrives(s, n + d) PROVE Arrives(s, n)'
  <2>1. ASSUME NEW k \in DOMAIN toDaemon', k <= n, AskAt(k)'
        PROVE  s = toDaemon'[k].session \/ toDaemon'[k].session \notin Alive'
    <3>1. k + d \in DOMAIN toDaemon /\ k + d <= n + d /\ AskAt(k + d)
            /\ toDaemon'[k] = toDaemon[k + d]
      BY <1>3, <2>1 DEF AskAt
    <3>2. toDaemon[k + d].session < next_session_id
      BY <3>1 DEF TuiTyped, AskAt
    <3> QED BY <1>7, <1>10, <3>1, <3>2 DEF Arrives
  <2>2. ASSUME Answering', pending'[1].kind = "SessionAttached"
        PROVE  s = pending'[1].session \/ pending'[1].session \notin Alive'
    <3>1. Answering /\ pending' = pending
      BY <1>6, <2>2
    <3>2. pending[1].session < next_session_id
      BY <2>2, <3>1 DEF TuiTyped, Answering, Message
    <3> QED BY <1>7, <1>10, <2>2, <3>1, <3>2 DEF Arrives
  <2>3. ASSUME ~Answering', \A k \in DOMAIN toDaemon' : k <= n => ~AskAt(k)'
        PROVE  at' = s \/ at' \notin Alive' \/ refused'
    <3>1. ~Answering
      BY <1>6, <2>3
    <3>2. ASSUME NEW k \in DOMAIN toDaemon, k <= n + d, AskAt(k) PROVE FALSE
      <4>1. k \in Nat /\ k - d \in DOMAIN toDaemon' /\ toDaemon'[k - d] = toDaemon[k]
        BY <1>4, <3>2
      <4>2. k - d <= n
        BY <1>3, <3>2, <4>1
      <4> QED BY <2>3, <3>2, <4>1, <4>2 DEF AskAt
    <3>3. at = s \/ at \notin Alive \/ refused
      BY <1>10, <3>1, <3>2 DEF Arrives
    <3>4. at < next_session_id
      BY DEF TuiTyped
    <3> QED BY <1>6, <1>7, <3>3, <3>4
  <2> QED BY <2>1, <2>2, <2>3 DEF Arrives
<1>11. Arrives(shown, Len(toDaemon))'
  <2>1. PICK v, n : v = shown' /\ n = Len(toDaemon')
    OBVIOUS
  <2>2. n \in Nat /\ v = shown /\ n + d = Len(toDaemon)
    BY <1>3, <1>6, <2>1
  <2>3. Arrives(v, n + d)
    BY <2>2 DEF Ways, PromptsArrive
  <2>4. Arrives(v, n)'
    BY <1>10, <2>2, <2>3
  <2> QED BY <2>1, <2>4 DEF Arrives
<1>12. ASSUME NEW i \in DOMAIN toDaemon', toDaemon'[i].kind = "RunInput"
       PROVE  Arrives(toDaemon[i].session, i)'
  <2>1. PICK v : v = toDaemon'[i].session
    OBVIOUS
  <2>2. /\ i \in Nat /\ i + d \in DOMAIN toDaemon /\ toDaemon'[i] = toDaemon[i + d]
    BY <1>3
  <2>3. Arrives(v, i + d)
    BY <1>12, <2>1, <2>2 DEF Ways, PromptsArrive
  <2>4. Arrives(v, i)'
    BY <1>10, <2>2, <2>3
  <2> QED BY <2>1, <2>4 DEF Arrives
<1> QED BY <1>8, <1>9, <1>11, <1>12 DEF Ways, PromptsArrive

\* The connection takes an attach, and the command loop has decided it.
TakesAttach ==
    /\ UNCHANGED <<shown, at, refused, untidy, toTui, status, next_session_id>>
    /\ pending = <<>> /\ toDaemon # <<>> /\ toDaemon' = Tail(toDaemon) /\ AskAt(1)
    /\ pending' = <<ToTui(IF toDaemon[1].session \in Alive
                          THEN "SessionAttached" ELSE "SessionFailed",
                          toDaemon[1].session)>>

LEMMA TakesFacts ==
    ASSUME TakesAttach
    PROVE  /\ Answering' /\ ~Answering /\ Alive' = Alive
           /\ pending'[1].session = toDaemon[1].session
           /\ pending'[1].kind = IF toDaemon[1].session \in Alive
                                 THEN "SessionAttached" ELSE "SessionFailed"
<1>1. PICK m : m = ToTui(IF toDaemon[1].session \in Alive
                         THEN "SessionAttached" ELSE "SessionFailed",
                         toDaemon[1].session)
  OBVIOUS
<1>2. pending' = <<m>> /\ pending'[1] = m /\ pending' # <<>>
  BY <1>1 DEF TakesAttach
<1>3. /\ m.session = toDaemon[1].session
      /\ m.kind = IF toDaemon[1].session \in Alive THEN "SessionAttached" ELSE "SessionFailed"
  BY <1>1, EventFacts
<1>4. Answering' /\ ~Answering
  BY <1>2, <1>3 DEF Answering, Answers, TakesAttach
<1>5. Alive' = Alive
  BY DEF TakesAttach, Alive
<1> QED BY <1>2, <1>3, <1>4, <1>5

LEMMA TakesWays ==
    ASSUME TuiTyped, Ways, TakesAttach PROVE Ways'
<1>0. toDaemon \in Seq(Requests) /\ toDaemon # <<>> /\ toDaemon' = Tail(toDaemon)
  BY DEF TuiTyped, TakesAttach
<1>1. Shorter(toDaemon, toDaemon', 1) /\ 1 \in DOMAIN toDaemon
  BY <1>0, TailShorter
<1>2. /\ \A i \in DOMAIN toDaemon' : i \in Nat /\ i >= 1 /\ i + 1 \in DOMAIN toDaemon
                                     /\ toDaemon'[i] = toDaemon[i + 1]
      /\ Len(toDaemon) \in Nat /\ Len(toDaemon) >= 1
  BY <1>1 DEF Shorter
<1>3. AskAt(1) /\ UNCHANGED <<shown, at, refused, toTui>>
  BY DEF TakesAttach
<1>4. /\ Answering' /\ Alive' = Alive
      /\ pending'[1].session = toDaemon[1].session
      /\ pending'[1].kind = IF toDaemon[1].session \in Alive
                            THEN "SessionAttached" ELSE "SessionFailed"
  BY TakesFacts
<1>5. NoAsk'
  <2> SUFFICES ASSUME NEW i \in DOMAIN toDaemon', AskAt(i)' PROVE FALSE
    BY DEF NoAsk
  <2>1. i + 1 \in DOMAIN toDaemon /\ AskAt(i + 1) /\ i \in Nat /\ i >= 1
    BY <1>2 DEF AskAt
  <2>2. i + 1 = 1
    BY <1>1, <1>3, <2>1 DEF Ways, OneAttach
  <2> QED BY <2>1, <2>2
<1>6. NoAnswer /\ NoAnswer'
  BY <1>1, <1>3 DEF Ways, OneAttach, NoAsk, NoAnswer, AnswerAt
<1>7. OneAttach'
  BY <1>5, <1>6 DEF OneAttach, NoAsk, NoAnswer
<1>8. AttachIsShown'
  <2>1. shown \in {toDaemon[1].session, Nowhere}
    BY <1>1, <1>3 DEF Ways, AttachIsShown
  <2> QED BY <1>3, <1>4, <1>5, <1>6, <2>1
          DEF AttachIsShown, NoAsk, NoAnswer, AnswerAt, Answers
<1>9. ASSUME NEW s, NEW n, n >= 1, Arrives(s, n), NEW m PROVE Arrives(s, m)'
  <2>1. s = toDaemon[1].session \/ toDaemon[1].session \notin Alive
    BY <1>1, <1>3, <1>9 DEF Arrives
  <2> QED BY <1>4, <1>5, <2>1 DEF Arrives, NoAsk
<1>10. Arrives(shown, Len(toDaemon))'
  <2>1. PICK v, n : v = shown' /\ n = Len(toDaemon')
    OBVIOUS
  <2>2. Arrives(v, Len(toDaemon))
    BY <1>3, <2>1 DEF Ways, PromptsArrive
  <2>3. Arrives(v, n)'
    BY <1>2, <1>9, <2>2
  <2> QED BY <2>1, <2>3 DEF Arrives
<1>11. ASSUME NEW i \in DOMAIN toDaemon', toDaemon'[i].kind = "RunInput"
       PROVE  Arrives(toDaemon[i].session, i)'
  <2>1. PICK v : v = toDaemon'[i].session
    OBVIOUS
  <2>2. i + 1 \in DOMAIN toDaemon /\ toDaemon'[i] = toDaemon[i + 1] /\ i + 1 >= 1
    BY <1>2
  <2>3. Arrives(v, i + 1)
    BY <1>11, <2>1, <2>2 DEF Ways, PromptsArrive
  <2>4. Arrives(v, i)'
    BY <1>9, <2>2, <2>3
  <2> QED BY <2>1, <2>4 DEF Arrives
<1> QED BY <1>7, <1>8, <1>10, <1>11 DEF Ways, PromptsArrive

\* The connection passes the answer on and moves.
AnswerStep ==
    /\ UNCHANGED <<shown, untidy, toDaemon, status, next_session_id>>
    /\ Answering /\ pending' = <<>> /\ toTui' = toTui \o pending
    /\ at' = IF pending[1].kind = "SessionAttached" THEN pending[1].session ELSE at
    /\ refused' = (pending[1].kind = "SessionFailed")

LEMMA AnswerFacts ==
    ASSUME TuiTyped, AnswerStep
    PROVE  /\ Len(toTui) \in Nat /\ DOMAIN toTui = 1..Len(toTui)
           /\ DOMAIN toTui' = 1..(Len(toTui) + 1)
           /\ \A i \in DOMAIN toTui : i \in DOMAIN toTui' /\ toTui'[i] = toTui[i]
           /\ toTui'[Len(toTui) + 1] = pending[1]
           /\ ~Answering'
<1>1. toTui \in Seq(Events) /\ pending \in Seq(Events)
  BY DEF TuiTyped
<1>2. Len(pending) = 1
  BY PendingOne DEF AnswerStep, Answering
<1>3. /\ Longer(toTui, toTui', 1) /\ toTui'[Len(toTui) + 1] = pending[1]
  BY <1>1, <1>2, ConcatLonger DEF AnswerStep
<1> QED BY <1>3 DEF Longer, AnswerStep, Answering

LEMMA AnswerSettles ==
    ASSUME TuiTyped, AnswerStep PROVE Settles'
<1>1. CASE pending[1].kind = "SessionFailed"
  BY <1>1 DEF AnswerStep, Settles
<1>2. CASE pending[1].kind = "SessionAttached"
  <2>1. /\ Len(toTui) + 1 \in DOMAIN toTui'
        /\ toTui'[Len(toTui) + 1] = pending[1]
        /\ \A j \in DOMAIN toTui' : j <= Len(toTui) + 1
        /\ at' = pending[1].session
    BY <1>2, AnswerFacts DEF AnswerStep
  <2> QED BY <1>2, <2>1 DEF Settles
<1> QED BY <1>1, <1>2 DEF AnswerStep, Answering, Answers

LEMMA AnswerWays ==
    ASSUME TuiTyped, Ways, AnswerStep PROVE Ways'
<1>1. /\ Len(toTui) \in Nat /\ DOMAIN toTui = 1..Len(toTui)
      /\ DOMAIN toTui' = 1..(Len(toTui) + 1)
      /\ \A i \in DOMAIN toTui : i \in DOMAIN toTui' /\ toTui'[i] = toTui[i]
      /\ toTui'[Len(toTui) + 1] = pending[1]
      /\ ~Answering'
  BY AnswerFacts
<1>2. Answering /\ toDaemon' = toDaemon /\ shown' = shown /\ Alive' = Alive
  BY DEF AnswerStep, Alive
<1>3. NoAsk /\ NoAnswer
  BY <1>2 DEF Ways, OneAttach
<1>4. NoAsk'
  BY <1>2, <1>3 DEF NoAsk, AskAt
<1>5. \A i \in DOMAIN toTui' : Answers(toTui'[i]) => i = Len(toTui) + 1
  BY <1>1, <1>3 DEF NoAnswer, AnswerAt
<1>6. OneAttach'
  BY <1>1, <1>4, <1>5 DEF OneAttach, NoAsk, AnswerAt
<1>7. AttachIsShown'
  <2>1. shown \in {pending[1].session, Nowhere}
    BY <1>2 DEF Ways, AttachIsShown
  <2>2. \A i \in DOMAIN toTui' :
           /\ AnswerAt(i)' => shown' \in {toTui'[i].session, Nowhere}
           /\ toTui'[i].kind = "SessionAttached" => at' = toTui'[i].session
    BY <1>1, <1>2, <1>5, <2>1 DEF AnswerAt, Answers, AnswerStep
  <2> QED BY <1>1, <1>4, <2>2 DEF AttachIsShown, NoAsk
<1>8. ASSUME NEW s, NEW n, NEW m, Arrives(s, n) PROVE Arrives(s, m)'
  <2>1. at' = s \/ at' \notin Alive \/ refused'
    BY <1>2, <1>8 DEF Arrives, AnswerStep, Answering, Answers
  <2> QED BY <1>1, <1>2, <1>4, <2>1 DEF Arrives, NoAsk
<1>9. PromptsArrive'
  <2>1. PICK v, n : v = shown /\ n = Len(toDaemon)
    OBVIOUS
  <2>2. Arrives(v, n)'
    BY <1>8, <2>1 DEF Ways, PromptsArrive
  <2>3. Arrives(shown, Len(toDaemon))'
    BY <1>2, <2>1, <2>2 DEF Arrives
  <2>4. ASSUME NEW i \in DOMAIN toDaemon', toDaemon'[i].kind = "RunInput"
        PROVE  Arrives(toDaemon[i].session, i)'
    <3>1. PICK w : w = toDaemon[i].session
      OBVIOUS
    <3>2. Arrives(w, i)'
      BY <1>2, <1>8, <2>4, <3>1 DEF Ways, PromptsArrive
    <3> QED BY <1>2, <3>1, <3>2 DEF Arrives
  <2> QED BY <2>3, <2>4 DEF PromptsArrive
<1> QED BY <1>6, <1>7, <1>9 DEF Ways

-----------------------------------------------------------------------------
(* Types and bars, action by action *)

AppTyped ==
    /\ page \in {"chat", "manager"}
    /\ listed \in Lists /\ Given(listed)
    /\ shown \in Views
    /\ input \in Texts /\ saved_draft \in Texts
    /\ browsing \in {"no", "entry", "edited"}
    /\ drafts \in [Rooms -> Texts]

ServerTyped ==
    /\ at \in Views /\ at < next_session_id
    /\ toTui \in Seq(Events)
    /\ \A i \in DOMAIN toTui : Message(toTui[i])
    /\ pending \in Seq(Events) /\ Len(pending) <= 1
    /\ pending # <<>> => Message(pending[1])
    /\ status \in Lists /\ Given(status)
    /\ parent \in [Rooms -> Views]
    /\ next_session_id \in Nat

WireTyped ==
    /\ toDaemon \in Seq(Requests)
    /\ ~untidy => \A i \in DOMAIN toDaemon :
          toDaemon[i].kind = "AttachSession" => toDaemon[i].session < next_session_id

FlagsTyped == {listening, untidy, refused, misrouted} \subseteq BOOLEAN

LEMMA TypedParts == TuiTyped <=> AppTyped /\ ServerTyped /\ WireTyped /\ FlagsTyped
BY DEF TuiTyped, AppTyped, ServerTyped, WireTyped, FlagsTyped

\* The client's messages keep their meaning as long as the sessions do.
LEMMA ServerTypedRead ==
    ASSUME ServerTyped, UNCHANGED <<pending, at, status, parent, next_session_id>>,
           toTui' = toTui \/ (toTui # <<>> /\ toTui' = Tail(toTui))
    PROVE  ServerTyped'
<1>1. toTui' \in Seq(Events) /\ \E d \in {0, 1} : Shorter(toTui, toTui', d)
  <2>1. CASE toTui' = toTui
    BY <2>1, SameSeq DEF ServerTyped
  <2>2. CASE toTui # <<>> /\ toTui' = Tail(toTui)
    BY <2>2, TailShorter DEF ServerTyped
  <2> QED BY <2>1, <2>2
<1>2. \A i \in DOMAIN toTui' : Message(toTui[i])'
  <2> SUFFICES ASSUME NEW i \in DOMAIN toTui' PROVE Message(toTui[i])'
    OBVIOUS
  <2>1. PICK d \in {0, 1} : Shorter(toTui, toTui', d)
    BY <1>1
  <2>2. i + d \in DOMAIN toTui /\ toTui'[i] = toTui[i + d]
    BY <2>1 DEF Shorter
  <2>3. PICK m : m = toTui'[i]
    OBVIOUS
  <2>4. Message(m)
    BY <2>2, <2>3 DEF ServerTyped
  <2> QED BY <2>3, <2>4 DEF Message, Given, Alive
<1>3. Given(status)'
  BY DEF ServerTyped, Given
<1>4. pending' # <<>> => Message(pending[1])'
  BY DEF ServerTyped, Message, Given, Alive
<1> QED BY <1>1, <1>2, <1>3, <1>4 DEF ServerTyped

LEMMA PersistTyped ==
    ASSUME AppTyped, NEW target \in Rooms, PersistInputDraft(target)
    PROVE  /\ input' \in Texts /\ saved_draft' \in Texts
           /\ browsing' \in {"no", "entry", "edited"}
           /\ drafts' \in [Rooms -> Texts]
<1> DEFINE bar == Restored(input, saved_draft, browsing)
           stashed == IF shown = Nowhere THEN drafts ELSE [drafts EXCEPT ![shown] = bar]
<1>1. bar \in Texts /\ {} \in Texts
  BY DEF Restored, AppTyped, Texts
<1>2. stashed \in [Rooms -> Texts]
  BY <1>1 DEF AppTyped, Views
<1>3. /\ browsing' = "no" /\ saved_draft' = {}
      /\ \/ input' = bar /\ drafts' = drafts
         \/ input' = stashed[target] /\ drafts' = [stashed EXCEPT ![target] = {}]
  BY DEF PersistInputDraft
<1> HIDE DEF bar, stashed
<1> QED BY <1>1, <1>2, <1>3 DEF AppTyped

\* Handing the bar over keeps every text where it was typed.
LEMMA PersistBars ==
    ASSUME AppTyped, Bars, NEW target \in Rooms, PersistInputDraft(target),
           shown' = target
    PROVE  Bars'
<1> DEFINE bar == Restored(input, saved_draft, browsing)
           stashed == IF shown = Nowhere THEN drafts ELSE [drafts EXCEPT ![shown] = bar]
<1>1. bar \subseteq {shown, Nowhere, Entry} /\ bar # {Entry}
  BY DEF Restored, Bars, AppTyped
<1>2. /\ browsing' = "no" /\ saved_draft' = {}
      /\ IF shown = Nowhere /\ bar # {}
         THEN input' = bar /\ drafts' = drafts
         ELSE input' = stashed[target] /\ drafts' = [stashed EXCEPT ![target] = {}]
  BY DEF PersistInputDraft
<1>3. drafts \in [Rooms -> Texts] /\ shown \in Views
  BY DEF AppTyped
<1> HIDE DEF bar
<1>4. \A s \in Rooms : stashed[s] = IF shown # Nowhere /\ s = shown THEN bar ELSE drafts[s]
  BY <1>3 DEF Views
<1>5. DOMAIN stashed = Rooms
  BY <1>3
<1> HIDE DEF stashed
<1>6. \A s \in Rooms : stashed[s] \subseteq {s, Nowhere, Entry} /\ stashed[s] # {Entry}
  BY <1>1, <1>4 DEF Bars
<1>7. CASE shown = Nowhere /\ bar # {}
  BY <1>1, <1>2, <1>7 DEF Bars
<1>8. CASE ~(shown = Nowhere /\ bar # {})
  <2>1. input' = stashed[target] /\ drafts' = [stashed EXCEPT ![target] = {}]
    BY <1>2, <1>8
  <2>2. \A s \in Rooms : drafts'[s] = IF s = target THEN {} ELSE stashed[s]
    BY <1>5, <2>1
  <2> QED BY <1>2, <1>6, <2>1, <2>2 DEF Bars
<1> QED BY <1>7, <1>8

\* What a step does to the bar and the drafts.
BarsStay == UNCHANGED <<shown, input, saved_draft, browsing, drafts>>

LEMMA BarsUnchanged == ASSUME Bars, BarsStay PROVE Bars'
BY DEF Bars, BarsStay

\* A step of the client, in the terms of its channels.
ClientStep == StillStep \/ AttachedStep \/ MovedStep

LEMMA ClientWire ==
    ASSUME TuiTyped, ClientStep, untidy' \in BOOLEAN PROVE WireTyped'
<1>1. toDaemon \in Seq(Requests) /\ next_session_id' = next_session_id
  BY DEF TuiTyped, ClientStep, StillStep, AttachedStep, MovedStep, ServerStays
<1>2. CASE StillStep
  <2>1. toDaemon' \in Seq(Requests)
    <3>1. \/ toDaemon' = toDaemon
          \/ \E m \in Requests : toDaemon' = Append(toDaemon, m)
      BY <1>2 DEF StillStep, SendsOther
    <3> QED BY <1>1, <3>1, AppendLonger
  <2>2. PICK e \in {0, 1} : Longer(toDaemon, toDaemon', e)
    BY <1>2, SendFacts DEF StillStep
  <2>3. \A i \in DOMAIN toDaemon : toDaemon'[i] = toDaemon[i]
    BY <2>2, LongerFacts
  <2>4. \A i \in DOMAIN toDaemon' \ DOMAIN toDaemon : toDaemon'[i].kind # "AttachSession"
    BY <1>2, SendFacts DEF StillStep
  <2>5. untidy' = untidy
    BY <1>2 DEF StillStep
  <2> QED BY <1>1, <2>1, <2>3, <2>4, <2>5 DEF WireTyped, TuiTyped
<1>3. CASE AttachedStep
  BY <1>1, <1>3 DEF AttachedStep, WireTyped, TuiTyped
<1>4. CASE MovedStep
  <2>1. /\ toDaemon' \in Seq(Requests)
        /\ \A i \in DOMAIN toDaemon : toDaemon'[i] = toDaemon[i]
        /\ toDaemon'[Len(toDaemon')].session = shown'
        /\ \A i \in DOMAIN toDaemon' \ DOMAIN toDaemon :
              i = Len(toDaemon') \/ toDaemon'[i].kind # "AttachSession"
    BY <1>4, MovedFacts, RequestFacts
  <2>2. shown' < next_session_id /\ (~untidy' => ~untidy)
    BY <1>4 DEF MovedStep
  <2> QED BY <1>1, <2>1, <2>2 DEF WireTyped, TuiTyped
<1> QED BY <1>2, <1>3, <1>4 DEF ClientStep

LEMMA ClientKeeps ==
    ASSUME TuiIInv, ClientStep, AppTyped', UNCHANGED <<parent, listening>>,
           ~untidy' /\ Bars => Bars'
    PROVE  TuiIInv'
<1>0. TuiTyped /\ Settles /\ Tidy
  BY DEF TuiIInv
<1>1. UNCHANGED <<pending, at, status, parent, next_session_id, refused, misrouted, listening>>
  BY DEF ClientStep, StillStep, AttachedStep, MovedStep, ServerStays
<1>2. ServerTyped'
  <2>1. toTui' = toTui \/ (toTui # <<>> /\ toTui' = Tail(toTui))
    BY DEF ClientStep, StillStep, AttachedStep, MovedStep, ReadsOther
  <2> QED BY <1>0, <1>1, <2>1, ServerTypedRead, TypedParts
<1>3. FlagsTyped' /\ (~untidy' => ~untidy)
  <2>1. AttachUnderWay \in BOOLEAN
    BY DEF AttachUnderWay
  <2>2. untidy' \in BOOLEAN /\ (~untidy' => ~untidy)
    BY <1>0, <2>1 DEF TuiTyped, ClientStep, StillStep, AttachedStep, MovedStep
  <2> QED BY <1>0, <1>1, <2>2 DEF FlagsTyped, TuiTyped
<1>4. TuiTyped'
  <2>1. untidy' \in BOOLEAN
    BY <1>3 DEF FlagsTyped
  <2>2. WireTyped'
    BY <1>0, <2>1, ClientWire
  <2> QED BY <1>2, <1>3, <2>2
          DEF TuiTyped, AppTyped, ServerTyped, WireTyped, FlagsTyped
<1>5. Settles'
  BY <1>0, StillSettles, AttachedSettles, MovedSettles DEF ClientStep
<1>6. Tidy'
  <2> SUFFICES ASSUME ~untidy' PROVE Ways' /\ Bars' /\ ~misrouted'
    BY DEF Tidy, Ways
  <2>1. Ways /\ Bars /\ ~misrouted /\ ~untidy
    BY <1>0, <1>3 DEF Tidy, Ways
  <2>2. Ways'
    BY <1>0, <2>1, StillWays, AttachedWays, MovedWays DEF ClientStep
  <2> QED BY <1>1, <2>1, <2>2
<1> QED BY <1>4, <1>5, <1>6 DEF TuiIInv

-----------------------------------------------------------------------------
(* What the user does *)

\* The channels, the view and the connection stay.
QuietStep ==
    /\ UNCHANGED <<toTui, toDaemon, shown, untidy, parent, listening>>
    /\ ServerStays

LEMMA QuietIsStill == ASSUME QuietStep PROVE ClientStep
BY DEF QuietStep, ClientStep, StillStep, ReadsOther, SendsOther, ServerStays

LEMMA TypeKeeps == ASSUME TuiIInv, Type PROVE TuiIInv'
<1>1. QuietStep
  BY DEF Type, QuietStep, ServerStays, server
<1>2. /\ AppTyped
      /\ UNCHANGED <<page, listed, shown, saved_draft, drafts, next_session_id>>
      /\ input' = input \cup {shown}
      /\ browsing' = IF browsing = "no" THEN "no" ELSE "edited"
  BY TypedParts DEF TuiIInv, Type, server
<1>3. AppTyped'
  BY <1>2 DEF AppTyped, Given, Texts
<1>4. Bars => Bars'
  <2>1. shown # Entry
    BY <1>2, Constant DEF AppTyped
  <2> QED BY <1>2, <2>1 DEF Bars
<1> QED BY <1>1, <1>3, <1>4, QuietIsStill, ClientKeeps DEF QuietStep

LEMMA UpKeeps == ASSUME TuiIInv, NavigateHistoryUp PROVE TuiIInv'
<1>1. QuietStep
  BY DEF NavigateHistoryUp, QuietStep, ServerStays, server
<1>2. /\ AppTyped
      /\ UNCHANGED <<page, listed, shown, drafts, next_session_id>>
      /\ browsing # "entry" /\ browsing' = "entry" /\ input' = {Entry}
      /\ saved_draft' = IF browsing = "no" THEN input ELSE saved_draft
  BY TypedParts DEF TuiIInv, NavigateHistoryUp, server
<1>3. AppTyped'
  BY <1>2 DEF AppTyped, Given, Texts
<1>4. Bars => Bars'
  BY <1>2 DEF Bars
<1> QED BY <1>1, <1>3, <1>4, QuietIsStill, ClientKeeps DEF QuietStep

LEMMA DownKeeps == ASSUME TuiIInv, NavigateHistoryDown PROVE TuiIInv'
<1>1. QuietStep
  BY DEF NavigateHistoryDown, QuietStep, ServerStays, server, history
<1>2. /\ AppTyped
      /\ UNCHANGED <<page, listed, shown, drafts, next_session_id>>
      /\ browsing' = "no" /\ saved_draft' = {}
      /\ input' = Restored(input, saved_draft, browsing)
  BY TypedParts DEF TuiIInv, NavigateHistoryDown, server
<1>3. AppTyped'
  BY <1>2 DEF AppTyped, Given, Texts, Restored
<1>4. Bars => Bars'
  BY <1>2 DEF Bars, Restored
<1> QED BY <1>1, <1>3, <1>4, QuietIsStill, ClientKeeps DEF QuietStep

\* A request that moves nothing
LEMMA AskIsStill ==
    ASSUME NEW m \in Requests, toDaemon' = Append(toDaemon, m),
           m.kind # "AttachSession", m.kind = "RunInput" => m.session = shown,
           ServerStays, ReadsOther, untidy' = untidy, shown' = shown
    PROVE  ClientStep
BY DEF ClientStep, StillStep, SendsOther

\* Enter, on a prompt or a command
EmptyBar ==
    /\ input' = {} /\ saved_draft' = {} /\ browsing' = "no"
    /\ drafts' = IF shown = Nowhere THEN drafts ELSE [drafts EXCEPT ![shown] = {}]
    /\ UNCHANGED <<page, listed, shown, next_session_id>>

LEMMA EmptyBarKeeps ==
    ASSUME AppTyped, EmptyBar PROVE AppTyped' /\ (Bars => Bars')
<1>1. drafts' \in [Rooms -> Texts]
  BY DEF AppTyped, EmptyBar, Texts
<1>2. AppTyped'
  BY <1>1 DEF AppTyped, EmptyBar, Given, Texts
<1>3. \A s \in Rooms : drafts'[s] = drafts[s] \/ drafts'[s] = {}
  BY DEF AppTyped, EmptyBar
<1>4. Bars => Bars'
  BY <1>3 DEF Bars, EmptyBar
<1> QED BY <1>2, <1>4

LEMMA EnterKeeps ==
    ASSUME TuiIInv, Enter, UNCHANGED <<toTui, server>> PROVE TuiIInv'
<1>1. AppTyped /\ shown \in Views
  BY TypedParts DEF TuiIInv, AppTyped
<1>2. EmptyBar
  BY DEF Enter, Submitted, EmptyBar, server
<1>3. /\ ToDaemon("RunInput", shown) \in Requests
      /\ ToDaemon("RunInput", shown).kind = "RunInput"
      /\ ToDaemon("RunInput", shown).session = shown
  BY <1>1, RequestFacts
<1>4. ClientStep
  <2>1. ServerStays /\ ReadsOther /\ untidy' = untidy /\ shown' = shown
    BY DEF Enter, ServerStays, ReadsOther, server
  <2>2. PICK m \in Requests : m = ToDaemon("RunInput", shown)
    BY <1>3
  <2> QED BY <1>3, <2>1, <2>2, AskIsStill DEF Enter
<1>5. UNCHANGED <<parent, listening>>
  BY DEF server
<1> QED BY <1>1, <1>2, <1>4, <1>5, EmptyBarKeeps, ClientKeeps

LEMMA CommandKeeps ==
    ASSUME TuiIInv, NEW k \in {"CreateSession", "ListSessions"},
           SessionCommand(k, Nowhere), UNCHANGED <<toTui, server>>
    PROVE  TuiIInv'
<1>1. AppTyped
  BY TypedParts DEF TuiIInv
<1>2. EmptyBar
  BY DEF SessionCommand, Submitted, EmptyBar, server
<1>3. PICK m \in Requests : m = ToDaemon(k, Nowhere) /\ m.kind = k
  BY RequestFacts, Constant
<1>4. ClientStep
  <2>1. ServerStays /\ ReadsOther /\ shown' = shown
    BY DEF SessionCommand, ServerStays, ReadsOther, server
  <2>2. untidy' = untidy
    BY DEF SessionCommand, TuiIInv, TuiTyped
  <2> QED BY <1>3, <2>1, <2>2, AskIsStill DEF SessionCommand
<1>5. UNCHANGED <<parent, listening>>
  BY DEF server
<1> QED BY <1>1, <1>2, <1>4, <1>5, EmptyBarKeeps, ClientKeeps

\* A request that changes no more of the client than the page
LEMMA AskKeeps ==
    ASSUME TuiIInv, NEW m \in Requests, m.kind \notin {"AttachSession", "RunInput"},
           toDaemon' = Append(toDaemon, m), page' \in {"chat", "manager"},
           UNCHANGED <<listed, shown, drafts, refused, misrouted, input, saved_draft,
                       browsing, untidy, server>>,
           ReadsOther
    PROVE  TuiIInv'
<1>1. AppTyped
  BY TypedParts DEF TuiIInv
<1>2. AppTyped'
  BY <1>1 DEF AppTyped, Given, server
<1>3. ClientStep
  <2>1. ServerStays /\ untidy' = untidy /\ shown' = shown
    BY DEF ServerStays, server
  <2> QED BY <2>1, AskIsStill
<1>4. Bars => Bars'
  BY BarsUnchanged DEF BarsStay
<1>5. UNCHANGED <<parent, listening>>
  BY DEF server
<1> QED BY <1>2, <1>3, <1>4, <1>5, ClientKeeps

LEMMA OpenKeeps ==
    ASSUME TuiIInv, OpenManager, UNCHANGED <<toTui, server>> PROVE TuiIInv'
<1>1. PICK m \in Requests : m = ToDaemon("ListSessions", Nowhere) /\ m.kind = "ListSessions"
  BY RequestFacts, Constant
<1>2. ReadsOther
  BY DEF ReadsOther
<1> QED BY <1>1, <1>2, AskKeeps DEF OpenManager, Ask

LEMMA ManagerKeeps ==
    ASSUME TuiIInv, NEW k \in {"CreateSession", "DeleteSession"}, NEW s \in Views,
           k = "DeleteSession" => s \in Rooms,
           ManagerAsks(k, s), UNCHANGED <<toTui, server>>
    PROVE  TuiIInv'
<1>1. PICK m \in Requests : m = ToDaemon(k, s) /\ m.kind = k
  BY RequestFacts
<1>2. ReadsOther
  BY DEF ReadsOther
<1> QED BY <1>1, <1>2, AskKeeps DEF ManagerAsks, Ask, TuiIInv, TuiTyped

LEMMA LeaveKeeps ==
    ASSUME TuiIInv, LeaveManager, UNCHANGED <<toTui, server>> PROVE TuiIInv'
<1>1. QuietStep /\ BarsStay
  BY DEF LeaveManager, QuietStep, ServerStays, server, history, BarsStay
<1>2. AppTyped'
  BY TypedParts DEF TuiIInv, LeaveManager, AppTyped, Given, server
<1> QED BY <1>1, <1>2, QuietIsStill, BarsUnchanged, ClientKeeps DEF QuietStep

\* The view moves: from the list, to a new session, to the first session
\* and back to the parent of a finished one.
LEMMA MoveIsMoved ==
    ASSUME TuiTyped, NEW s \in Rooms, s < next_session_id, NEW ms \in Seq(Requests),
           Len(ms) \in Nat \ {0}, ms[Len(ms)] = ToDaemon("AttachSession", s),
           \A i \in 1..Len(ms) :
              i # Len(ms) => ms[i].kind \notin {"AttachSession", "RunInput"},
           MoveTo(s, ms), UNCHANGED server, ReadsOther
    PROVE  ClientStep
<1>1. ServerStays
  BY DEF ServerStays, MoveTo, server
<1>2. shown' = s /\ toDaemon' = toDaemon \o ms /\ untidy' = (untidy \/ AttachUnderWay)
  BY DEF MoveTo
<1>3. next_session_id' = next_session_id
  BY DEF server
<1>4. MovedStep
  BY <1>1, <1>2 DEF MovedStep
<1> QED BY <1>4 DEF ClientStep

LEMMA MoveKeeps ==
    ASSUME TuiIInv, NEW s \in Rooms, s < next_session_id, NEW ms \in Seq(Requests),
           Len(ms) \in Nat \ {0}, ms[Len(ms)] = ToDaemon("AttachSession", s),
           \A i \in 1..Len(ms) :
              i # Len(ms) => ms[i].kind \notin {"AttachSession", "RunInput"},
           MoveTo(s, ms), UNCHANGED server, ReadsOther,
           page' \in {"chat", "manager"}, listed' \in Lists, Given(listed)'
    PROVE  TuiIInv'
<1>1. TuiTyped /\ AppTyped
  BY TypedParts DEF TuiIInv
<1>2. ClientStep
  BY <1>1, MoveIsMoved
<1>3. PersistInputDraft(s) /\ shown' = s
  BY DEF MoveTo
<1>4. AppTyped'
  BY <1>1, <1>3, PersistTyped, Constant DEF AppTyped
<1>5. Bars => Bars'
  BY <1>1, <1>3, PersistBars
<1>6. UNCHANGED <<parent, listening>>
  BY DEF server
<1> QED BY <1>2, <1>4, <1>5, <1>6, ClientKeeps

\* What is asked when the view moves
LEMMA AskedFacts ==
    ASSUME NEW s \in Rooms
    PROVE  /\ <<ToDaemon("AttachSession", s)>> \in Seq(Requests)
           /\ Len(<<ToDaemon("AttachSession", s)>>) = 1
           /\ <<ToDaemon("AttachSession", s)>>[1] = ToDaemon("AttachSession", s)
           /\ <<ToDaemon("ListSessions", Nowhere), ToDaemon("AttachSession", s)>>
                 \in Seq(Requests)
           /\ Len(<<ToDaemon("ListSessions", Nowhere), ToDaemon("AttachSession", s)>>) = 2
           /\ <<ToDaemon("ListSessions", Nowhere), ToDaemon("AttachSession", s)>>[1].kind
                 = "ListSessions"
           /\ <<ToDaemon("ListSessions", Nowhere), ToDaemon("AttachSession", s)>>[2]
                 = ToDaemon("AttachSession", s)
<1>1. PICK a, b : /\ a = ToDaemon("AttachSession", s)
                  /\ b = ToDaemon("ListSessions", Nowhere)
  OBVIOUS
<1>2. a \in Requests /\ b \in Requests /\ b.kind = "ListSessions"
  BY <1>1, RequestFacts, Constant
<1> QED BY <1>1, <1>2

\* Moving with one request, and with two
LEMMA MoveOne ==
    ASSUME TuiIInv, NEW s \in Rooms, s < next_session_id,
           MoveTo(s, <<ToDaemon("AttachSession", s)>>), UNCHANGED server, ReadsOther,
           page' \in {"chat", "manager"}, listed' \in Lists, Given(listed)'
    PROVE  TuiIInv'
<1>1. PICK ms : ms = <<ToDaemon("AttachSession", s)>>
  OBVIOUS
<1>2. /\ ms \in Seq(Requests) /\ Len(ms) = 1
      /\ ms[1] = ToDaemon("AttachSession", s)
  BY <1>1, AskedFacts
<1>3. MoveTo(s, ms)
  BY <1>1
<1>4. \A i \in 1..Len(ms) : i = Len(ms)
  BY <1>2
<1>5. Len(ms) \in Nat \ {0} /\ ms[Len(ms)] = ToDaemon("AttachSession", s)
  BY <1>2
<1> QED BY <1>2, <1>3, <1>4, <1>5, MoveKeeps

LEMMA MoveTwo ==
    ASSUME TuiIInv, NEW s \in Rooms, s < next_session_id,
           MoveTo(s, <<ToDaemon("ListSessions", Nowhere), ToDaemon("AttachSession", s)>>),
           UNCHANGED server, ReadsOther,
           page' \in {"chat", "manager"}, listed' \in Lists, Given(listed)'
    PROVE  TuiIInv'
<1>1. PICK ms : ms = <<ToDaemon("ListSessions", Nowhere), ToDaemon("AttachSession", s)>>
  OBVIOUS
<1>2. /\ ms \in Seq(Requests) /\ Len(ms) = 2
      /\ ms[1].kind = "ListSessions" /\ ms[2] = ToDaemon("AttachSession", s)
  BY <1>1, AskedFacts
<1>3. MoveTo(s, ms)
  BY <1>1
<1>4. \A i \in 1..Len(ms) :
         i # Len(ms) => ms[i].kind \notin {"AttachSession", "RunInput"}
  BY <1>2
<1>5. Len(ms) \in Nat \ {0} /\ ms[Len(ms)] = ToDaemon("AttachSession", s)
  BY <1>2
<1> QED BY <1>2, <1>3, <1>4, <1>5, MoveKeeps

LEMMA ChooseKeeps ==
    ASSUME TuiIInv, ChooseSession, UNCHANGED <<toTui, server>> PROVE TuiIInv'
<1>1. PICK s \in Rooms : listed[s] # "no" /\ AttachToSession(s)
  BY DEF ChooseSession
<1>2. /\ s < next_session_id /\ listed \in Lists /\ Given(listed)
  BY <1>1 DEF TuiIInv, TuiTyped, Given
<1>3. /\ MoveTo(s, <<ToDaemon("AttachSession", s)>>) /\ page' = "chat" /\ listed' = listed
  BY <1>1 DEF AttachToSession
<1>4. Given(listed)'
  BY <1>2, <1>3 DEF Given, server
<1>5. ReadsOther
  BY DEF ReadsOther
<1> QED BY <1>2, <1>3, <1>4, <1>5, MoveOne

LEMMA KeysKeep == ASSUME TuiIInv, UserKeys PROVE TuiIInv'
<1>1. UNCHANGED <<toTui, server>>
  BY DEF UserKeys
<1>2. CASE Enter
  BY <1>1, <1>2, EnterKeeps
<1>3. CASE OpenManager
  BY <1>1, <1>3, OpenKeeps
<1>4. CASE LeaveManager
  BY <1>1, <1>4, LeaveKeeps
<1>5. CASE ChooseSession
  BY <1>1, <1>5, ChooseKeeps
<1>6. CASE \E k \in {"CreateSession", "ListSessions"} : SessionCommand(k, Nowhere)
  BY <1>1, <1>6, CommandKeeps
<1>7. CASE ManagerAsks("CreateSession", Nowhere)
  BY <1>1, <1>7, ManagerKeeps, Constant
<1>8. CASE \E s \in Rooms : listed[s] # "no" /\ ManagerAsks("DeleteSession", s)
  BY <1>1, <1>8, ManagerKeeps, Constant
<1> QED BY <1>2, <1>3, <1>4, <1>5, <1>6, <1>7, <1>8 DEF UserKeys

-----------------------------------------------------------------------------
(* The messages the client reads *)

\* Reading a message that changes nothing but the list
LEMMA ListKeeps ==
    ASSUME TuiIInv, ReadsOther, listed' \in Lists, Given(listed)',
           UNCHANGED <<page, shown, input, saved_draft, browsing, drafts, toDaemon,
                       history, server>>
    PROVE  TuiIInv'
<1>1. AppTyped'
  BY TypedParts DEF TuiIInv, AppTyped
<1>2. ServerStays /\ untidy' = untidy /\ UNCHANGED <<parent, listening>>
  BY DEF ServerStays, server, history
<1>3. ClientStep
  BY <1>2 DEF ClientStep, StillStep, SendsOther
<1>4. Bars => Bars'
  BY BarsUnchanged DEF BarsStay
<1> QED BY <1>1, <1>2, <1>3, <1>4, ClientKeeps

LEMMA NothingKeeps ==
    ASSUME TuiIInv, ReadsOther, Nothing, UNCHANGED server PROVE TuiIInv'
<1>1. listed' \in Lists /\ Given(listed)'
  BY DEF TuiIInv, TuiTyped, Nothing, app, Given, server
<1> QED BY <1>1, ListKeeps DEF Nothing, app

LEMMA CreatedKeeps ==
    ASSUME TuiIInv, ReadsOther, UNCHANGED server, NEW s \in Rooms, s < next_session_id,
           HandleSessionCreated(s)
    PROVE  TuiIInv'
<1>1. CASE Nothing
  BY <1>1, NothingKeeps
<1>2. CASE /\ Ask("ListSessions", Nowhere)
           /\ UNCHANGED <<page, input, saved_draft, browsing, unsent, untidy>>
  <2>1. PICK m \in Requests : m = ToDaemon("ListSessions", Nowhere)
                              /\ m.kind = "ListSessions"
    BY RequestFacts, Constant
  <2> QED BY <1>2, <2>1, AskKeeps DEF Ask, TuiIInv, TuiTyped
<1>3. CASE /\ MoveTo(s, <<ToDaemon("ListSessions", Nowhere), ToDaemon("AttachSession", s)>>)
           /\ UNCHANGED <<page, listed>>
  <2>1. /\ page' \in {"chat", "manager"} /\ listed' \in Lists /\ Given(listed)'
    BY <1>3 DEF TuiIInv, TuiTyped, Given, server
  <2> QED BY <1>3, <2>1, MoveTwo
<1> QED BY <1>1, <1>2, <1>3 DEF HandleSessionCreated

LEMMA AttachedKeeps ==
    ASSUME TuiIInv, UNCHANGED server, toTui # <<>>, toTui' = Tail(toTui),
           toTui[1].kind = "SessionAttached", HandleSessionAttached(toTui[1].session)
    PROVE  TuiIInv'
<1>1. toTui \in Seq(Events) /\ AppTyped /\ Tidy
  BY TypedParts DEF TuiIInv, TuiTyped
<1>2. 1 \in DOMAIN toTui /\ toTui[1] \in Events
  BY <1>1, TailShorter
<1>3. toTui[1].session \in Rooms
  BY <1>2, EventFacts
<1>4. /\ shown' = toTui[1].session
      /\ UNCHANGED <<page, listed, input, saved_draft, browsing, drafts, toDaemon, history>>
  BY DEF HandleSessionAttached
<1>5. AppTyped'
  BY <1>1, <1>3, <1>4, Constant DEF AppTyped, Given, server
<1>6. ClientStep
  <2>1. ServerStays /\ untidy' = untidy
    BY <1>4 DEF ServerStays, server, history
  <2> QED BY <1>4, <2>1 DEF ClientStep, AttachedStep
<1>7. ASSUME ~untidy', Bars PROVE Bars'
  <2>1. shown \in {toTui[1].session, Nowhere}
    BY <1>1, <1>2, <1>4, <1>7 DEF Tidy, AttachIsShown, AnswerAt, Answers, history
  <2> QED BY <1>4, <1>7, <2>1 DEF Bars
<1>8. UNCHANGED <<parent, listening>>
  BY DEF server
<1> QED BY <1>5, <1>6, <1>7, <1>8, ClientKeeps

LEMMA StatusKeeps ==
    ASSUME TuiIInv, ReadsOther, UNCHANGED server, NEW s \in Rooms, s < next_session_id,
           NEW new \in {"idle", "active"}, HandleSessionStatusChanged(s, new)
    PROVE  TuiIInv'
<1>1. listed \in Lists /\ Given(listed) /\ parent \in [Rooms -> Views] /\ page \in {"chat", "manager"}
  BY DEF TuiIInv, TuiTyped
<1>2. listed' = IF listed[s] = "no" THEN listed ELSE [listed EXCEPT ![s] = new]
  BY DEF HandleSessionStatusChanged, SwitchBackToParent
<1>3. listed' \in Lists
  BY <1>1, <1>2 DEF Lists, Statuses
<1>4. \A r \in Rooms : listed'[r] # "no" => listed[r] # "no"
  BY <1>1, <1>2 DEF Lists
<1>5. Given(listed)'
  BY <1>1, <1>4 DEF Given, server
<1>6. CASE Finished(s, new) /\ MoveTo(parent[s], <<ToDaemon("AttachSession", parent[s])>>)
           /\ page' = page
  <2>1. PICK p \in Rooms : p = parent[s]
    BY <1>1, <1>6 DEF Finished, Views
  <2>2. p < next_session_id
    BY <1>1, <1>6, <2>1 DEF Finished, Given
  <2>3. MoveTo(p, <<ToDaemon("AttachSession", p)>>)
    BY <1>6, <2>1
  <2> QED BY <1>1, <1>3, <1>5, <1>6, <2>2, <2>3, MoveOne
<1>7. CASE UNCHANGED <<page, shown, input, saved_draft, browsing, drafts, toDaemon, history>>
  BY <1>3, <1>5, <1>7, ListKeeps
<1> QED BY <1>6, <1>7 DEF HandleSessionStatusChanged, SwitchBackToParent

LEMMA SessionsKeep ==
    ASSUME TuiIInv, ReadsOther, UNCHANGED server, NEW list \in Lists, Given(list),
           HandleSessions(list)
    PROVE  TuiIInv'
<1>1. page \in {"chat", "manager"}
  BY DEF TuiIInv, TuiTyped
<1>2. listed' = list
  BY DEF HandleSessions
<1>3. listed' \in Lists /\ Given(listed)'
  BY <1>2 DEF Given, server
<1>4. CASE UNCHANGED <<page, shown, input, saved_draft, browsing, drafts, toDaemon, history>>
  BY <1>3, <1>4, ListKeeps
<1>5. ASSUME NEW s \in Rooms, list[s] # "no",
             MoveTo(s, <<ToDaemon("AttachSession", s)>>), page' = page
      PROVE  TuiIInv'
  <2>1. s < next_session_id
    BY <1>5 DEF Given
  <2> QED BY <1>1, <1>3, <1>5, <2>1, MoveOne
<1>6. CASE /\ toDaemon' = Append(toDaemon, ToDaemon("CreateSession", Nowhere))
           /\ UNCHANGED <<page, shown, input, saved_draft, browsing, drafts, history>>
  <2>1. PICK m \in Requests : m = ToDaemon("CreateSession", Nowhere)
                              /\ m.kind = "CreateSession"
    BY RequestFacts, Constant
  <2>2. ServerStays /\ untidy' = untidy /\ shown' = shown /\ UNCHANGED <<parent, listening>>
    BY <1>6 DEF ServerStays, server, history
  <2>3. ClientStep
    BY <1>6, <2>1, <2>2, AskIsStill
  <2>4. AppTyped'
    BY <1>3, <1>6, TypedParts DEF TuiIInv, AppTyped
  <2>5. Bars => Bars'
    BY <1>6, BarsUnchanged DEF BarsStay
  <2> QED BY <2>2, <2>3, <2>4, <2>5, ClientKeeps
<1>7. \/ UNCHANGED <<page, shown, input, saved_draft, browsing, drafts, toDaemon, history>>
      \/ \E s \in Rooms : /\ list[s] # "no"
                          /\ MoveTo(s, <<ToDaemon("AttachSession", s)>>) /\ page' = page
      \/ /\ toDaemon' = Append(toDaemon, ToDaemon("CreateSession", Nowhere))
         /\ UNCHANGED <<page, shown, input, saved_draft, browsing, drafts, history>>
  <2> DEFINE there == {s \in Rooms : list[s] # "no"}
             top == {s \in there : parent[s] = Nowhere}
  <2>1. CASE \E s \in IF top # {} THEN top ELSE there :
                MoveTo(s, <<ToDaemon("AttachSession", s)>>) /\ page' = page
    <3>1. PICK s \in there : MoveTo(s, <<ToDaemon("AttachSession", s)>>) /\ page' = page
      BY <2>1
    <3> QED BY <3>1
  <2>2. \/ UNCHANGED <<page, shown, input, saved_draft, browsing, drafts, toDaemon, history>>
        \/ \E s \in IF top # {} THEN top ELSE there :
              MoveTo(s, <<ToDaemon("AttachSession", s)>>) /\ page' = page
        \/ /\ toDaemon' = Append(toDaemon, ToDaemon("CreateSession", Nowhere))
           /\ UNCHANGED <<page, shown, input, saved_draft, browsing, drafts, history>>
    BY DEF HandleSessions
  <2> QED BY <2>1, <2>2
<1> QED BY <1>4, <1>5, <1>6, <1>7

LEMMA DeletedKeeps ==
    ASSUME TuiIInv, ReadsOther, UNCHANGED server, NEW s \in Rooms, s \notin Alive,
           HandleSessionDeleted(s)
    PROVE  TuiIInv'
<1>1. AppTyped
  BY TypedParts DEF TuiIInv
<1>2. /\ listed' = [listed EXCEPT ![s] = "no"] /\ drafts' = [drafts EXCEPT ![s] = {}]
      /\ UNCHANGED <<page, toDaemon, untidy, refused, misrouted>>
      /\ \/ /\ shown = s /\ shown' = Nowhere
            /\ input' = {} /\ saved_draft' = {} /\ browsing' = "no"
         \/ UNCHANGED <<shown, input, saved_draft, browsing>>
  BY DEF HandleSessionDeleted
<1>3. ServerStays /\ UNCHANGED <<parent, listening, next_session_id>>
  BY <1>2 DEF ServerStays, server
<1>4. ClientStep
  BY <1>2, <1>3 DEF ClientStep, StillStep, SendsOther
<1>5. listed' \in Lists /\ \A r \in Rooms : listed'[r] # "no" => listed[r] # "no"
  BY <1>1, <1>2 DEF AppTyped, Lists, Statuses
<1>6. Given(listed)'
  BY <1>1, <1>3, <1>5 DEF AppTyped, Given
<1>7. drafts' \in [Rooms -> Texts] /\ \A r \in Rooms : drafts'[r] \in {drafts[r], {}}
  BY <1>1, <1>2 DEF AppTyped, Texts
<1>8. AppTyped'
  BY <1>1, <1>2, <1>5, <1>6, <1>7, Constant DEF AppTyped, Texts
<1>9. Bars => Bars'
  BY <1>2, <1>7 DEF Bars
<1> QED BY <1>3, <1>4, <1>8, <1>9, ClientKeeps

LEMMA MessageKeeps == ASSUME TuiIInv, HandleDaemonMessage PROVE TuiIInv'
<1>1. toTui \in Seq(Events) /\ toTui # <<>> /\ toTui' = Tail(toTui) /\ UNCHANGED server
  BY DEF TuiIInv, TuiTyped, HandleDaemonMessage
<1>2. PICK m \in Events : m = Head(toTui) /\ m = toTui[1] /\ 1 \in DOMAIN toTui
  BY <1>1, TailShorter
<1>3. Message(m)
  BY <1>2 DEF TuiIInv, TuiTyped
<1>4. m.kind # "SessionAttached" => ReadsOther
  BY <1>1, <1>2 DEF ReadsOther
<1>5. m.kind # "Sessions" => m.session \in Rooms
  BY EventFacts
<1>6. CASE m.kind = "SessionCreated" /\ HandleSessionCreated(m.session)
  BY <1>1, <1>3, <1>4, <1>5, <1>6, CreatedKeeps DEF Message
<1>7. CASE m.kind = "SessionAttached" /\ HandleSessionAttached(m.session)
  BY <1>1, <1>2, <1>7, AttachedKeeps
<1>8. CASE m.kind = "StatusActive" /\ HandleSessionStatusChanged(m.session, "active")
  BY <1>1, <1>3, <1>4, <1>5, <1>8, StatusKeeps DEF Message
<1>9. CASE m.kind = "StatusIdle" /\ HandleSessionStatusChanged(m.session, "idle")
  BY <1>1, <1>3, <1>4, <1>5, <1>9, StatusKeeps DEF Message
<1>10. CASE m.kind = "Sessions" /\ HandleSessions(m.list)
  <2>1. m.list \in Lists
    BY <1>10, EventFacts
  <2> QED BY <1>1, <1>3, <1>4, <1>10, <2>1, SessionsKeep DEF Message
<1>11. CASE m.kind = "SessionDeleted" /\ HandleSessionDeleted(m.session)
  BY <1>1, <1>3, <1>4, <1>5, <1>11, DeletedKeeps DEF Message
<1>12. CASE m.kind = "SessionFailed" /\ Nothing
  BY <1>1, <1>4, <1>12, NothingKeeps
<1> QED BY <1>2, <1>6, <1>7, <1>8, <1>9, <1>10, <1>11, <1>12 DEF HandleDaemonMessage

\* A switch by command asks for an attach and does not move the view: from
\* then on only the last answer counts.
LEMMA SwitchKeeps == ASSUME TuiIInv, SwitchByCommand PROVE TuiIInv'
<1>1. PICK s \in Rooms : SessionCommand("AttachSession", s)
  BY DEF SwitchByCommand
<1>2. TuiTyped /\ UNCHANGED <<toTui, server>>
  BY DEF TuiIInv, SwitchByCommand
<1>3. PICK m \in Requests : m = ToDaemon("AttachSession", s) /\ m.kind = "AttachSession"
  BY RequestFacts
<1>4. toDaemon' = Append(toDaemon, m) /\ toDaemon \in Seq(Requests)
  BY <1>1, <1>2, <1>3 DEF SessionCommand, TuiTyped
<1>5. /\ toDaemon' \in Seq(Requests) /\ toDaemon'[Len(toDaemon) + 1] = m
      /\ Len(toDaemon) + 1 \in DOMAIN toDaemon'
  BY <1>4, AppendLonger DEF Longer
<1>6. untidy' = TRUE /\ UNCHANGED <<refused, misrouted>>
  BY <1>1 DEF SessionCommand
<1>7. EmptyBar
  BY <1>1, <1>2 DEF SessionCommand, Submitted, EmptyBar, server
<1>8. AppTyped'
  BY <1>2, <1>7, EmptyBarKeeps, TypedParts
<1>9. ServerTyped'
  BY <1>2, ServerTypedRead, TypedParts DEF server
<1>10. TuiTyped'
  <2>1. WireTyped'
    BY <1>5, <1>6 DEF WireTyped
  <2>2. FlagsTyped'
    BY <1>2, <1>6 DEF FlagsTyped, TuiTyped, server
  <2> QED BY <1>8, <1>9, <2>1, <2>2
          DEF TuiTyped, AppTyped, ServerTyped, WireTyped, FlagsTyped
<1>11. ~NoAsk'
  BY <1>3, <1>5 DEF NoAsk, AskAt
<1> QED BY <1>6, <1>10, <1>11 DEF TuiIInv, Settles, Tidy

-----------------------------------------------------------------------------
(* What the connection and the command loop do *)

\* What any of their steps does to the sessions
SessionsGrow ==
    /\ next_session_id' \in Nat /\ next_session_id <= next_session_id'
    /\ Alive' \subseteq Alive \cup {next_session_id}
    /\ status' \in Lists /\ Given(status)'
    /\ parent' \in [Rooms -> Views]

\* The events it puts into the client's sink
Tells ==
    \E ms \in Seq(Events) :
       /\ toTui' = toTui \o ms
       /\ \A i \in 1..Len(ms) : ~Answers(ms[i]) /\ Message(ms[i])'

LEMMA MessageStays ==
    ASSUME TuiTyped, SessionsGrow, NEW m \in Events, Message(m) PROVE Message(m)'
<1>1. next_session_id \in Nat /\ next_session_id' \in Nat /\ next_session_id <= next_session_id'
  BY DEF TuiTyped, SessionsGrow
<1>2. ASSUME m.kind = "Sessions" PROVE Given(m.list)'
  <2>1. PICK l : l = m.list
    OBVIOUS
  <2>2. Given(l) /\ \A s \in Rooms : s \in Nat
    BY <1>2, <2>1 DEF Message, Rooms
  <2>3. Given(l)'
    BY <1>1, <2>2 DEF Given
  <2> QED BY <2>1, <2>3
<1>3. m.kind # "Sessions" => m.session \in Nat
  BY EventFacts DEF Rooms
<1>4. m.kind \notin {"Sessions", "SessionFailed"} => m.session < next_session_id'
  BY <1>1, <1>3 DEF Message
<1>5. m.kind = "SessionDeleted" => m.session \notin Alive'
  BY <1>1, <1>3 DEF Message, SessionsGrow
<1> QED BY <1>2, <1>4, <1>5 DEF Message

LEMMA ServerTypedGrows ==
    ASSUME TuiTyped, SessionsGrow, NEW ms \in Seq(Events), toTui' = toTui \o ms,
           \A i \in 1..Len(ms) : Message(ms[i])',
           at' \in Views, at' < next_session_id',
           pending' \in Seq(Events), Len(pending') <= 1,
           pending' # <<>> => Message(pending[1])'
    PROVE  ServerTyped'
<1>1. toTui \in Seq(Events)
  BY DEF TuiTyped
<1>2. /\ Longer(toTui, toTui', Len(ms)) /\ toTui' \in Seq(Events) /\ Len(ms) \in Nat
      /\ \A i \in 1..Len(ms) : toTui'[Len(toTui) + i] = ms[i]
  BY <1>1, ConcatLonger
<1>3. ASSUME NEW i \in DOMAIN toTui' PROVE Message(toTui[i])'
  <2>1. CASE i \in DOMAIN toTui
    <3>1. PICK m : m = toTui[i]
      OBVIOUS
    <3>2. m \in Events /\ Message(m) /\ toTui'[i] = m
      <4>1. toTui[i] \in Events
        BY <1>1, <1>2, <2>1, ElementOfSeq DEF Longer
      <4> QED BY <1>2, <2>1, <3>1, <4>1 DEF TuiTyped, Longer
    <3>3. Message(m)'
      BY <3>2, MessageStays
    <3> QED BY <3>2, <3>3
  <2>2. CASE i \notin DOMAIN toTui
    <3>1. i - Len(toTui) \in 1..Len(ms) /\ Len(toTui) + (i - Len(toTui)) = i
      BY <1>2, <2>2 DEF Longer
    <3>2. PICK m : m = ms[i - Len(toTui)]
      OBVIOUS
    <3>3. Message(m)' /\ toTui'[i] = m
      BY <1>2, <3>1, <3>2
    <3> QED BY <3>3
  <2> QED BY <2>1, <2>2
<1> QED BY <1>2, <1>3 DEF ServerTyped, SessionsGrow

\* The client's part of the invariant under a step of the server
LEMMA ServerKeepsApp ==
    ASSUME TuiTyped, SessionsGrow, UNCHANGED app, untidy' = untidy,
           toDaemon' = toDaemon \/ (toDaemon # <<>> /\ toDaemon' = Tail(toDaemon))
    PROVE  AppTyped' /\ WireTyped' /\ (Bars => Bars')
<1>1. /\ next_session_id \in Nat /\ next_session_id' \in Nat
      /\ next_session_id <= next_session_id' /\ \A s \in Rooms : s \in Nat
  BY DEF TuiTyped, SessionsGrow, Rooms
<1>2. Given(listed)'
  BY <1>1 DEF TuiTyped, Given, app
<1>3. AppTyped'
  BY <1>2 DEF TuiTyped, AppTyped, app
<1>4. toDaemon \in Seq(Requests)
  BY DEF TuiTyped
<1>5. toDaemon' \in Seq(Requests) /\ \E d \in {0, 1} : Shorter(toDaemon, toDaemon', d)
  <2>1. CASE toDaemon' = toDaemon
    BY <1>4, <2>1, SameSeq
  <2>2. CASE toDaemon # <<>> /\ toDaemon' = Tail(toDaemon)
    BY <1>4, <2>2, TailShorter
  <2> QED BY <2>1, <2>2
<1>6. WireTyped'
  <2> SUFFICES ASSUME ~untidy, NEW i \in DOMAIN toDaemon',
                      toDaemon'[i].kind = "AttachSession"
               PROVE  toDaemon'[i].session < next_session_id'
    BY <1>5 DEF WireTyped
  <2>1. PICK d \in {0, 1} : Shorter(toDaemon, toDaemon', d)
    BY <1>5
  <2>2. i + d \in DOMAIN toDaemon /\ toDaemon'[i] = toDaemon[i + d] /\ i + d \in 1..Len(toDaemon)
    BY <2>1 DEF Shorter
  <2>3. toDaemon[i + d] \in Requests
    BY <1>4, <2>2, ElementOfSeq
  <2>4. toDaemon'[i].session \in Rooms
    BY <2>2, <2>3, RequestFacts
  <2>5. toDaemon'[i].session < next_session_id
    BY <2>2 DEF TuiTyped
  <2> QED BY <1>1, <2>4, <2>5
<1>7. Bars => Bars'
  BY BarsUnchanged DEF BarsStay, app
<1> QED BY <1>3, <1>6, <1>7

LEMMA ServerKeeps ==
    ASSUME TuiIInv, ServerStep \/ TakesAttach \/ AnswerStep, SessionsGrow,
           UNCHANGED app, ServerTyped', listening' \in BOOLEAN,
           misrouted' \in BOOLEAN, ~untidy => misrouted' = misrouted
    PROVE  TuiIInv'
<1>0. TuiTyped /\ Settles /\ Tidy
  BY DEF TuiIInv
<1>1. /\ untidy' = untidy
      /\ toDaemon' = toDaemon \/ (toDaemon # <<>> /\ toDaemon' = Tail(toDaemon))
  BY DEF ServerStep, TakesAttach, AnswerStep
<1>2. AppTyped' /\ WireTyped' /\ (Bars => Bars')
  BY <1>0, <1>1, ServerKeepsApp
<1>3. FlagsTyped'
  BY <1>0, <1>1 DEF FlagsTyped, TuiTyped, ServerStep, TakesAttach, AnswerStep
<1>4. TuiTyped'
  BY <1>2, <1>3 DEF TuiTyped, AppTyped, ServerTyped, WireTyped, FlagsTyped
<1>5. Settles'
  <2>1. CASE ServerStep
    BY <1>0, <2>1, ServerSettles
  <2>2. CASE TakesAttach
    BY <2>2, TakesFacts DEF Settles
  <2>3. CASE AnswerStep
    BY <1>0, <2>3, AnswerSettles
  <2> QED BY <2>1, <2>2, <2>3
<1>6. Tidy'
  <2> SUFFICES ASSUME ~untidy' PROVE Ways' /\ Bars' /\ ~misrouted'
    BY DEF Tidy, Ways
  <2>1. Ways /\ Bars /\ ~misrouted /\ ~untidy
    BY <1>0, <1>1 DEF Tidy, Ways
  <2>2. Ways'
    BY <1>0, <2>1, ServerWays, TakesWays, AnswerWays
  <2> QED BY <1>2, <2>1, <2>2
<1> QED BY <1>4, <1>5, <1>6 DEF TuiIInv

\* A step that takes no attach and answers none
LEMMA ServerMoves ==
    ASSUME TuiIInv, SessionsGrow, Tells, UNCHANGED <<app, at, refused, untidy>>,
           \/ toDaemon' = toDaemon
           \/ toDaemon # <<>> /\ toDaemon' = Tail(toDaemon) /\ ~AskAt(1),
           \/ pending' = pending
           \/ ~Answering /\ pending' = <<>>
           \/ /\ pending = <<>>
              /\ \E m \in Events : pending' = <<m>> /\ ~Answers(m) /\ Message(m)',
           listening' \in BOOLEAN, misrouted' \in BOOLEAN, ~untidy => misrouted' = misrouted
    PROVE  TuiIInv'
<1>0. TuiTyped
  BY DEF TuiIInv
<1>1. PICK ms \in Seq(Events) :
         toTui' = toTui \o ms /\ \A i \in 1..Len(ms) : ~Answers(ms[i]) /\ Message(ms[i])'
  BY DEF Tells
<1>2. /\ pending' \in Seq(Events) /\ Len(pending') <= 1
      /\ pending' # <<>> => Message(pending[1])'
      /\ (~Answering /\ ~Answering') \/ pending' = pending
  <2>1. CASE pending' = pending
    <3>1. pending # <<>> => pending[1] \in Events
      BY <1>0, TailShorter DEF TuiTyped
    <3>2. PICK m : m = pending[1]
      OBVIOUS
    <3>3. pending # <<>> => Message(m)'
      BY <1>0, <3>1, <3>2, MessageStays DEF TuiTyped
    <3> QED BY <1>0, <2>1, <3>2, <3>3 DEF TuiTyped
  <2>2. CASE ~Answering /\ pending' = <<>>
    BY <2>2 DEF Answering
  <2>3. ASSUME NEW m \in Events, pending = <<>>, pending' = <<m>>, ~Answers(m), Message(m)'
        PROVE  /\ pending' \in Seq(Events) /\ Len(pending') <= 1
               /\ pending' # <<>> => Message(pending[1])'
               /\ (~Answering /\ ~Answering') \/ pending' = pending
    <3>1. pending' \in Seq(Events) /\ Len(pending') = 1 /\ pending'[1] = m
      BY <2>3
    <3> QED BY <2>3, <3>1 DEF Answering
  <2> QED BY <2>1, <2>2, <2>3
<1>3. at' \in Views /\ at' < next_session_id'
  <2>1. /\ at' = at /\ at \in Nat /\ at < next_session_id /\ next_session_id \in Nat
        /\ next_session_id' \in Nat /\ next_session_id <= next_session_id' /\ at \in Views
    BY <1>0, Constant DEF TuiTyped, SessionsGrow
  <2> QED BY <2>1
<1>4. ServerTyped'
  BY <1>0, <1>1, <1>2, <1>3, ServerTypedGrows
<1>5. ServerStep
  <2>1. shown' = shown
    BY DEF app
  <2> QED BY <1>1, <1>2, <2>1 DEF ServerStep, SessionsGrow
<1> QED BY <1>4, <1>5, ServerKeeps

LEMMA SessionsStay ==
    ASSUME TuiTyped, UNCHANGED sessions PROVE SessionsGrow
BY DEF TuiTyped, SessionsGrow, sessions, Alive, Given

LEMMA QuietTells == ASSUME TuiTyped, toTui' = toTui PROVE Tells
<1>1. toTui \in Seq(Events) /\ <<>> \in Seq(Events)
  BY DEF TuiTyped
<1>2. toTui \o <<>> = toTui
  BY <1>1, ConcatEmptySeq
<1>3. PICK ms \in Seq(Events) : ms = <<>>
  BY <1>1
<1>4. \A i \in 1..Len(ms) : FALSE
  BY <1>3
<1> QED BY <1>2, <1>3, <1>4 DEF Tells

\* broadcast, of one event and of two
LEMMA OneIsTold ==
    ASSUME TuiTyped, NEW a \in Events, ~Answers(a), Message(a)', Broadcast(<<a>>)
    PROVE  Tells
<1>1. CASE toTui' = toTui
  BY <1>1, QuietTells
<1>2. CASE toTui' = toTui \o <<a>>
  <2>1. PICK ms : ms = <<a>>
    OBVIOUS
  <2>2. ms \in Seq(Events) /\ Len(ms) = 1 /\ ms[1] = a
    BY <2>1
  <2>3. \A i \in 1..Len(ms) : i = 1
    BY <2>2
  <2>4. \A i \in 1..Len(ms) : ~Answers(ms[i]) /\ Message(ms[i])'
    BY <2>2, <2>3
  <2> QED BY <1>2, <2>1, <2>2, <2>4 DEF Tells
<1> QED BY <1>1, <1>2 DEF Broadcast

LEMMA TwoAreTold ==
    ASSUME TuiTyped, NEW a \in Events, NEW b \in Events, ~Answers(a), ~Answers(b),
           Message(a)', Message(b)', Broadcast(<<a, b>>)
    PROVE  Tells
<1>1. CASE toTui' = toTui
  BY <1>1, QuietTells
<1>2. CASE toTui' = toTui \o <<a, b>>
  <2>1. PICK ms : ms = <<a, b>>
    OBVIOUS
  <2>2. ms \in Seq(Events) /\ Len(ms) = 2 /\ ms[1] = a /\ ms[2] = b
    BY <2>1
  <2>3. \A i \in 1..Len(ms) : i = 1 \/ i = 2
    BY <2>2
  <2>4. \A i \in 1..Len(ms) : ~Answers(ms[i]) /\ Message(ms[i])'
    BY <2>2, <2>3
  <2> QED BY <1>2, <2>1, <2>2, <2>4 DEF Tells
<1> QED BY <1>1, <1>2 DEF Broadcast

LEMMA CreateFacts ==
    ASSUME TuiTyped, NEW s \in Rooms, s = next_session_id, NEW above \in Views,
           CreateSession(s, above)
    PROVE  /\ SessionsGrow /\ Tells
           /\ Message(ToTui("SessionCreated", s))'
<1>1. /\ next_session_id' = s + 1 /\ s \in Nat /\ s < next_session_id'
      /\ status' = [status EXCEPT ![s] = "idle"]
      /\ parent' = [parent EXCEPT ![s] = above]
      /\ Broadcast(<<ToTui("SessionCreated", s), ToTui("StatusIdle", s)>>)
  BY DEF CreateSession, Rooms
<1>2. /\ status' \in Lists
      /\ \A r \in Rooms : status'[r] # "no" => status[r] # "no" \/ r = s
      /\ parent' \in [Rooms -> Views]
  BY <1>1 DEF TuiTyped, Lists, Statuses
<1>3. Given(status)'
  <2>1. \A r \in Rooms : r \in Nat /\ (status[r] # "no" => r < s)
    BY DEF TuiTyped, Given, Rooms
  <2> QED BY <1>1, <1>2, <2>1 DEF Given
<1>4. SessionsGrow
  BY <1>1, <1>2, <1>3 DEF SessionsGrow, Alive
<1>5. PICK a, b : a = ToTui("SessionCreated", s) /\ b = ToTui("StatusIdle", s)
  OBVIOUS
<1>6. /\ a \in Events /\ a.kind = "SessionCreated" /\ a.session = s
      /\ b \in Events /\ b.kind = "StatusIdle" /\ b.session = s
  BY <1>5, EventFacts
<1>7. Message(a)' /\ Message(b)' /\ ~Answers(a) /\ ~Answers(b)
  BY <1>1, <1>6 DEF Message, Answers
<1>8. Tells
  BY <1>1, <1>5, <1>6, <1>7, TwoAreTold
<1> QED BY <1>4, <1>5, <1>7, <1>8

LEMMA DeletionFacts ==
    ASSUME TuiTyped, NEW s \in Alive, Deletion(s)
    PROVE  SessionsGrow /\ Tells
<1>1. s \in Rooms /\ status[s] # "no" /\ s < next_session_id
  BY DEF Alive, TuiTyped, Given
<1>2. /\ UNCHANGED <<parent, next_session_id>>
      /\ status' = [status EXCEPT ![s] = "no"]
      /\ Broadcast(<<ToTui("SessionDeleted", s)>>)
  BY DEF Deletion
<1>3. /\ status' \in Lists /\ status'[s] = "no"
      /\ \A r \in Rooms : status'[r] # "no" => status[r] # "no"
  BY <1>1, <1>2 DEF TuiTyped, Lists, Statuses
<1>4. SessionsGrow
  BY <1>2, <1>3 DEF SessionsGrow, TuiTyped, Given, Alive
<1>5. PICK a : a = ToTui("SessionDeleted", s)
  OBVIOUS
<1>6. a \in Events /\ a.kind = "SessionDeleted" /\ a.session = s
  BY <1>1, <1>5, EventFacts
<1>7. Message(a)' /\ ~Answers(a)
  BY <1>1, <1>2, <1>3, <1>6 DEF Message, Answers, Alive
<1>8. Tells
  BY <1>2, <1>5, <1>6, <1>7, OneIsTold
<1> QED BY <1>4, <1>8

LEMMA StatusFacts ==
    ASSUME TuiTyped, NEW s \in Alive, UNCHANGED <<parent, next_session_id>>,
           status' = [status EXCEPT ![s] = IF @ = "idle" THEN "active" ELSE "idle"],
           Broadcast(<<ToTui(IF status[s] = "idle" THEN "StatusActive" ELSE "StatusIdle", s)>>)
    PROVE  SessionsGrow /\ Tells
<1>1. s \in Rooms /\ status[s] # "no" /\ s < next_session_id
  BY DEF Alive, TuiTyped, Given
<1>2. /\ status' \in Lists
      /\ \A r \in Rooms : status'[r] # "no" => status[r] # "no"
  BY <1>1 DEF TuiTyped, Lists, Statuses
<1>3. SessionsGrow
  BY <1>2 DEF SessionsGrow, TuiTyped, Given, Alive
<1>4. PICK k \in {"StatusActive", "StatusIdle"} :
         k = IF status[s] = "idle" THEN "StatusActive" ELSE "StatusIdle"
  OBVIOUS
<1>5. PICK a : a = ToTui(k, s)
  OBVIOUS
<1>6. a \in Events /\ a.kind = k /\ a.session = s
  BY <1>1, <1>5, EventFacts
<1>7. Message(a)' /\ ~Answers(a)
  BY <1>1, <1>6 DEF Message, Answers
<1>8. Tells
  BY <1>4, <1>5, <1>6, <1>7, OneIsTold
<1> QED BY <1>3, <1>8

LEMMA ElsewhereKeeps == ASSUME TuiIInv, Elsewhere PROVE TuiIInv'
<1>1. TuiTyped
  BY DEF TuiIInv
<1>2. UNCHANGED <<app, toDaemon, pending, at, listening, history>>
  BY DEF Elsewhere
<1>3. SessionsGrow /\ Tells
  <2>1. ASSUME next_session_id \in Rooms, NEW above \in Alive \cup {Nowhere},
               CreateSession(next_session_id, above)
        PROVE  SessionsGrow /\ Tells
    <3>1. PICK s \in Rooms : s = next_session_id
      BY <2>1
    <3>2. CreateSession(s, above) /\ above \in Views
      BY <2>1, <3>1, Constant DEF Alive
    <3> QED BY <1>1, <3>1, <3>2, CreateFacts
  <2>2. ASSUME NEW s \in Alive, Deletion(s) PROVE SessionsGrow /\ Tells
    BY <1>1, <2>2, DeletionFacts
  <2>3. ASSUME NEW s \in Alive, UNCHANGED <<parent, next_session_id>>,
               status' = [status EXCEPT ![s] = IF @ = "idle" THEN "active" ELSE "idle"],
               Broadcast(<<ToTui(IF status[s] = "idle" THEN "StatusActive" ELSE "StatusIdle", s)>>)
        PROVE  SessionsGrow /\ Tells
    BY <1>1, <2>3, StatusFacts
  <2> QED BY <2>1, <2>2, <2>3 DEF Elsewhere
<1>4. /\ listening' \in BOOLEAN /\ misrouted' = misrouted /\ misrouted' \in BOOLEAN
      /\ refused' = refused /\ untidy' = untidy
  BY <1>1, <1>2 DEF TuiTyped, history
<1> QED BY <1>2, <1>3, <1>4, ServerMoves

LEMMA AnswersKeep == ASSUME TuiIInv, ConnectionAnswers PROVE TuiIInv'
<1>1. TuiTyped
  BY DEF TuiIInv
<1>2. /\ pending # <<>> /\ pending' = <<>> /\ toTui' = toTui \o pending
      /\ UNCHANGED <<app, toDaemon, listening, sessions, untidy, misrouted>>
  BY DEF ConnectionAnswers
<1>3. PICK m \in Events : m = Head(pending) /\ m = pending[1]
  BY <1>1, <1>2, TailShorter DEF TuiTyped
<1>4. /\ at' = IF m.kind = "SessionAttached" THEN m.session ELSE at
      /\ refused' = CASE m.kind = "SessionAttached" -> FALSE
                      [] m.kind = "SessionFailed" -> TRUE
                      [] OTHER -> refused
  BY <1>3 DEF ConnectionAnswers
<1>5. SessionsGrow
  BY <1>1, <1>2, SessionsStay
<1>6. Message(m) /\ Message(m)'
  BY <1>1, <1>2, <1>3, <1>5, MessageStays DEF TuiTyped
<1>7. pending \in Seq(Events) /\ Len(pending) = 1 /\ \A i \in 1..Len(pending) : i = 1
  BY <1>1, <1>2, PendingOne DEF TuiTyped
<1>8. PICK ms \in Seq(Events) : ms = pending
  BY <1>7
<1>9. \A i \in 1..Len(ms) : ms[i] = m
  BY <1>3, <1>7, <1>8
<1>10. \A i \in 1..Len(ms) : Message(ms[i])'
  BY <1>6, <1>9
<1>11. /\ listening' \in BOOLEAN /\ misrouted' = misrouted /\ misrouted' \in BOOLEAN
  BY <1>1, <1>2 DEF TuiTyped
<1>12. CASE Answers(m)
  <2>1. AnswerStep
    <3>1. Answering
      BY <1>2, <1>3, <1>12 DEF Answering
    <3>2. refused' = (pending[1].kind = "SessionFailed")
      BY <1>3, <1>4, <1>12 DEF Answers
    <3> QED BY <1>2, <1>3, <1>4, <3>1, <3>2 DEF AnswerStep, app, sessions
  <2>2. at' \in Views /\ at' < next_session_id'
    <3>1. next_session_id' = next_session_id
      BY <1>2 DEF sessions
    <3>2. CASE m.kind = "SessionAttached"
      BY <1>4, <1>6, <3>1, <3>2, EventFacts, Constant DEF Message
    <3>3. CASE m.kind # "SessionAttached"
      BY <1>1, <1>4, <3>1, <3>3 DEF TuiTyped
    <3> QED BY <3>2, <3>3
  <2>3. ServerTyped'
    <3>1. pending' \in Seq(Events) /\ Len(pending') <= 1 /\ ~(pending' # <<>>)
      BY <1>2
    <3> QED BY <1>1, <1>2, <1>5, <1>8, <1>10, <2>2, <3>1, ServerTypedGrows
  <2> QED BY <1>2, <1>5, <1>11, <2>1, <2>3, ServerKeeps
<1>13. CASE ~Answers(m)
  <2>1. Tells
    BY <1>2, <1>8, <1>9, <1>10, <1>13 DEF Tells
  <2>2. at' = at /\ refused' = refused /\ ~Answering
    BY <1>3, <1>4, <1>13 DEF Answers, Answering
  <2> QED BY <1>2, <1>5, <1>11, <2>1, <2>2, ServerMoves
<1> QED BY <1>12, <1>13

LEMMA TakesKeeps == ASSUME TuiIInv, ConnectionTakes PROVE TuiIInv'
<1>1. TuiTyped
  BY DEF TuiIInv
<1>2. /\ pending = <<>> /\ toDaemon # <<>> /\ toDaemon' = Tail(toDaemon) /\ UNCHANGED app
  BY DEF ConnectionTakes
<1>3. PICK m \in Requests : m = Head(toDaemon) /\ m = toDaemon[1] /\ 1 \in DOMAIN toDaemon
  BY <1>1, <1>2, TailShorter DEF TuiTyped
<1>4. m.session \in Views /\ (m.kind \in {"AttachSession", "DeleteSession"} => m.session \in Rooms)
  BY RequestFacts
<1>5. AskAt(1) <=> m.kind = "AttachSession"
  BY <1>3 DEF AskAt
<1>6. misrouted \in BOOLEAN /\ listening \in BOOLEAN /\ untidy \in BOOLEAN /\ refused \in BOOLEAN
  BY <1>1 DEF TuiTyped
<1>7. CASE /\ m.kind = "ListSessions"
           /\ pending' = <<[kind |-> "Sessions", list |-> status]>>
           /\ UNCHANGED <<toTui, at, listening, sessions, history>>
  <2>1. SessionsGrow /\ Tells
    BY <1>1, <1>7, SessionsStay, QuietTells
  <2>2. PICK a : a = [kind |-> "Sessions", list |-> status]
    OBVIOUS
  <2>3. a \in Events /\ a.kind = "Sessions" /\ a.list = status
    BY <1>1, <2>2, EventFacts DEF TuiTyped
  <2>4. ~Answers(a) /\ Message(a)
    BY <1>1, <2>3 DEF Answers, Message, TuiTyped
  <2>5. Message(a)'
    BY <1>1, <2>1, <2>3, <2>4, MessageStays
  <2> QED BY <1>2, <1>5, <1>6, <1>7, <2>1, <2>2, <2>3, <2>4, <2>5, ServerMoves DEF history
<1>8. CASE /\ m.kind = "SubscribeAllActivity" /\ listening' = TRUE
           /\ UNCHANGED <<toTui, pending, at, sessions, history>>
  <2>1. SessionsGrow /\ Tells
    BY <1>1, <1>8, SessionsStay, QuietTells
  <2> QED BY <1>2, <1>5, <1>6, <1>8, <2>1, ServerMoves DEF history
<1>9. CASE /\ m.kind = "AttachSession"
           /\ pending' = <<ToTui(IF m.session \in Alive THEN "SessionAttached"
                                 ELSE "SessionFailed", m.session)>>
           /\ UNCHANGED <<toTui, at, listening, sessions, history>>
  <2>1. PICK k \in {"SessionAttached", "SessionFailed"} :
           k = IF m.session \in Alive THEN "SessionAttached" ELSE "SessionFailed"
    OBVIOUS
  <2>2. PICK a : a = ToTui(k, m.session)
    OBVIOUS
  <2>3. a \in Events /\ a.kind = k /\ a.session = m.session
    BY <1>4, <1>9, <2>2, EventFacts
  <2>4. SessionsGrow
    BY <1>1, <1>9, SessionsStay
  <2>5. Message(a)
    BY <1>1, <2>1, <2>3 DEF Message, Alive, TuiTyped, Given
  <2>6. Message(a)'
    BY <1>1, <2>3, <2>4, <2>5, MessageStays
  <2>7. /\ pending' = <<a>> /\ pending' \in Seq(Events) /\ Len(pending') = 1
        /\ pending'[1] = a
    BY <1>9, <2>1, <2>2, <2>3
  <2>8. at' \in Views /\ at' < next_session_id'
    BY <1>1, <1>9 DEF TuiTyped, sessions
  <2>9. ServerTyped'
    <3>1. PICK ms \in Seq(Events) : /\ toTui' = toTui \o ms
                                    /\ \A i \in 1..Len(ms) : Message(ms[i])'
      BY <1>1, <1>9, QuietTells DEF Tells
    <3>2. Len(pending') <= 1 /\ (pending' # <<>> => Message(pending[1])')
      BY <2>6, <2>7
    <3> QED BY <1>1, <2>4, <2>7, <2>8, <3>1, <3>2, ServerTypedGrows
  <2>10. TakesAttach
    BY <1>2, <1>3, <1>5, <1>9 DEF TakesAttach, app, sessions, history
  <2> QED BY <1>2, <1>6, <1>9, <2>4, <2>9, <2>10, ServerKeeps DEF history
<1>10. CASE /\ m.kind = "CreateSession"
            /\ next_session_id \in Rooms /\ CreateSession(next_session_id, Nowhere)
            /\ pending' = <<ToTui("SessionCreated", next_session_id)>>
            /\ UNCHANGED <<at, listening, history>>
  <2>1. PICK s \in Rooms : s = next_session_id
    BY <1>10
  <2>2. CreateSession(s, Nowhere) /\ Nowhere \in Views
    BY <1>10, <2>1, Constant
  <2>3. SessionsGrow /\ Tells /\ Message(ToTui("SessionCreated", s))'
    BY <1>1, <2>1, <2>2, CreateFacts
  <2>4. PICK a : a = ToTui("SessionCreated", s)
    OBVIOUS
  <2>5. a \in Events /\ ~Answers(a)
    BY <2>4, EventFacts DEF Answers
  <2>6. pending' = <<a>> /\ Message(a)'
    BY <1>10, <2>1, <2>3, <2>4
  <2> QED BY <1>2, <1>5, <1>6, <1>10, <2>3, <2>5, <2>6, ServerMoves DEF history
<1>11. CASE /\ m.kind = "DeleteSession"
            /\ IF m.session \in Alive THEN Deletion(m.session) ELSE UNCHANGED <<toTui, sessions>>
            /\ UNCHANGED <<pending, at, listening, history>>
  <2>1. SessionsGrow /\ Tells
    BY <1>1, <1>11, DeletionFacts, SessionsStay, QuietTells
  <2> QED BY <1>2, <1>5, <1>6, <1>11, <2>1, ServerMoves DEF history
<1>12. CASE /\ m.kind = "RunInput"
            /\ misrouted' = (misrouted \/ (at \in Alive /\ at # m.session /\ ~refused))
            /\ UNCHANGED <<toTui, server, unsent, untidy, refused>>
  <2>1. SessionsGrow /\ Tells
    BY <1>1, <1>12, SessionsStay, QuietTells DEF server, sessions
  <2>2. ASSUME ~untidy PROVE misrouted' = misrouted
    <3>1. Arrives(m.session, 1)
      BY <1>3, <1>12, <2>2 DEF TuiIInv, Tidy, PromptsArrive
    <3>2. \A k \in DOMAIN toDaemon : k <= 1 => k = 1
      BY <1>1, LenProperties DEF TuiTyped
    <3>3. ~Answering
      BY <1>2 DEF Answering
    <3>4. \A k \in DOMAIN toDaemon : k <= 1 => ~AskAt(k)
      BY <1>5, <1>12, <3>2
    <3>5. at = m.session \/ at \notin Alive \/ refused
      BY <3>1, <3>3, <3>4 DEF Arrives
    <3> QED BY <1>6, <1>12, <3>5
  <2>3. misrouted' \in BOOLEAN
    BY <1>6, <1>12
  <2> QED BY <1>2, <1>5, <1>6, <1>12, <2>1, <2>2, <2>3, ServerMoves DEF server
<1> QED BY <1>3, <1>7, <1>8, <1>9, <1>10, <1>11, <1>12 DEF ConnectionTakes

-----------------------------------------------------------------------------
(* Every step *)

LEMMA TuiStays == ASSUME TuiIInv, UNCHANGED tuiVars PROVE TuiIInv'
<1>1. QuietStep /\ BarsStay
  BY DEF tuiVars, app, server, history, QuietStep, ServerStays, BarsStay
<1>2. AppTyped'
  BY TypedParts DEF TuiIInv, AppTyped, Given, tuiVars, app, server
<1> QED BY <1>1, <1>2, QuietIsStill, BarsUnchanged, ClientKeeps DEF QuietStep

LEMMA TuiStep == TuiIInv /\ [TuiNext]_tuiVars => TuiIInv'
<1> SUFFICES ASSUME TuiIInv, [TuiNext]_tuiVars PROVE TuiIInv'
  OBVIOUS
<1>1. CASE Type
  BY <1>1, TypeKeeps
<1>2. CASE NavigateHistoryUp
  BY <1>2, UpKeeps
<1>3. CASE NavigateHistoryDown
  BY <1>3, DownKeeps
<1>4. CASE UserKeys
  BY <1>4, KeysKeep
<1>5. CASE ConnectionTakes
  BY <1>5, TakesKeeps
<1>6. CASE ConnectionAnswers
  BY <1>6, AnswersKeep
<1>7. CASE Elsewhere
  BY <1>7, ElsewhereKeeps
<1>8. CASE HandleDaemonMessage
  BY <1>8, MessageKeeps
<1>9. CASE SwitchByCommand
  BY <1>9, SwitchKeeps
<1>10. CASE UNCHANGED tuiVars
  BY <1>10, TuiStays
<1> QED BY <1>1, <1>2, <1>3, <1>4, <1>5, <1>6, <1>7, <1>8, <1>9, <1>10
        DEF TuiNext, ListNext

LEMMA TuiInitial == TuiInit => TuiIInv
<1> SUFFICES ASSUME TuiInit PROVE TuiIInv
  OBVIOUS
<1>1. /\ toTui = <<>> /\ pending = <<>> /\ at = 0 /\ shown = 0 /\ input = {}
      /\ saved_draft = {} /\ browsing = "no" /\ page = "chat"
      /\ refused = FALSE /\ untidy = FALSE /\ misrouted = FALSE /\ listening = FALSE
      /\ listed = [s \in Rooms |-> "no"] /\ drafts = [s \in Rooms |-> {}]
      /\ next_session_id = Stored + 1
  BY DEF TuiInit, Nowhere
<1>2. toDaemon \in Seq(Requests) /\ \A i \in DOMAIN toDaemon :
         toDaemon[i].kind \in {"ListSessions", "SubscribeAllActivity"}
  <2>1. PICK a, b : a = ToDaemon("ListSessions", Nowhere)
                    /\ b = ToDaemon("SubscribeAllActivity", Nowhere)
    OBVIOUS
  <2>2. /\ a \in Requests /\ b \in Requests
        /\ a.kind = "ListSessions" /\ b.kind = "SubscribeAllActivity"
    BY <2>1, RequestFacts, Constant
  <2>3. toDaemon = <<a, b>>
    BY <2>1 DEF TuiInit
  <2>4. toDaemon \in Seq(Requests) /\ DOMAIN toDaemon = {1, 2} /\ toDaemon[1] = a /\ toDaemon[2] = b
    BY <2>2, <2>3
  <2> QED BY <2>2, <2>4
<1>3. parent \in [Rooms -> Views]
  BY Constant DEF TuiInit, Rooms, Views
<1>4. status = [s \in Rooms |-> CASE s > Stored -> "no"
                                  [] parent[s] # Nowhere -> "active"
                                  [] OTHER -> "idle"]
  BY DEF TuiInit
<1>5. status \in Lists /\ \A s \in Rooms : status[s] # "no" => s <= Stored
  <2>1. ASSUME NEW s \in Rooms
        PROVE  status[s] \in Statuses /\ (status[s] # "no" => s <= Stored)
    <3>1. s \in Nat /\ Stored \in Nat
      BY Constant DEF Rooms
    <3>2. status[s] = CASE s > Stored -> "no"
                        [] parent[s] # Nowhere -> "active"
                        [] OTHER -> "idle"
      BY <1>4
    <3>3. CASE s > Stored
      <4>1. parent[s] = Nowhere
        BY <3>3 DEF TuiInit
      <4> QED BY <3>2, <3>3, <4>1 DEF Statuses
    <3>4. CASE ~(s > Stored) /\ parent[s] # Nowhere
      BY <3>1, <3>2, <3>4 DEF Statuses
    <3>5. CASE ~(s > Stored) /\ parent[s] = Nowhere
      BY <3>1, <3>2, <3>5 DEF Statuses
    <3> QED BY <3>3, <3>4, <3>5
  <2> QED BY <1>4, <2>1 DEF Lists
<1>6. Given(status) /\ Given(listed) /\ listed \in Lists /\ drafts \in [Rooms -> Texts]
  <2>1. \A s \in Rooms : s <= Stored => s < Stored + 1
    BY Constant DEF Rooms
  <2> QED BY <1>1, <1>5, <2>1 DEF Given, Lists, Statuses, Texts
<1>7. DOMAIN toTui = {} /\ toTui \in Seq(Events) /\ pending \in Seq(Events) /\ Len(pending) <= 1
  BY <1>1
<1>8. NoAsk /\ NoAnswer /\ ~Answering
  BY <1>1, <1>2, <1>7 DEF NoAsk, AskAt, NoAnswer, Answering
<1>9. TuiTyped
  <2>1. AppTyped
    BY <1>1, <1>6, Constant DEF AppTyped, Texts, Nowhere
  <2>2. ServerTyped
    <3>1. at \in Views /\ next_session_id \in Nat /\ at < next_session_id
      BY <1>1, Constant DEF Nowhere
    <3> QED BY <1>1, <1>3, <1>5, <1>6, <1>7, <3>1 DEF ServerTyped
  <2>3. WireTyped
    BY <1>2 DEF WireTyped
  <2>4. FlagsTyped
    BY <1>1 DEF FlagsTyped
  <2> QED BY <2>1, <2>2, <2>3, <2>4, TypedParts
<1>10. Settles
  BY <1>1, <1>7 DEF Settles, Nowhere
<1>11. OneAttach /\ AttachIsShown
  BY <1>7, <1>8 DEF OneAttach, AttachIsShown, NoAsk
<1>12. PromptsArrive
  <2>1. at \notin Alive
    BY <1>1, Constant DEF Alive, Nowhere
  <2>2. \A s, n : Arrives(s, n)
    BY <1>8, <2>1 DEF Arrives, NoAsk
  <2> QED BY <2>2 DEF PromptsArrive
<1>13. Bars
  BY <1>1 DEF Bars
<1> QED BY <1>1, <1>9, <1>10, <1>11, <1>12, <1>13 DEF TuiIInv, Tidy

\* Whatever switches overlap and however they are made, by list, by command,
\* by a new session or a finished sub-session: once everything under way has
\* been read, the client shows its connection's session, or none, unless the
\* last attach was refused.
THEOREM ViewsAgree == TuiSpec => []AttachmentsAgree
<1>1. TuiIInv => AttachmentsAgree
  <2> SUFFICES ASSUME TuiIInv, toDaemon = <<>>, pending = <<>>, toTui = <<>>, ~refused
               PROVE  shown \in {at, Nowhere}
    BY DEF AttachmentsAgree
  <2>1. DOMAIN toDaemon = {} /\ DOMAIN toTui = {}
    OBVIOUS
  <2> QED BY <2>1 DEF TuiIInv, Settles, NoAsk, Answering
<1> QED BY <1>1, TuiInitial, TuiStep, PTL DEF TuiSpec

\* As long as attaches follow one another and none is made by command, what
\* the user typed stays with the session it was typed in, whatever arrives
\* while it is in the bar, and no recalled entry becomes a draft.
THEOREM DraftsAtHome == TuiSpec => []DraftsStayHome
<1>1. TuiIInv => DraftsStayHome
  <2> SUFFICES ASSUME TuiIInv, ~untidy
               PROVE  /\ \A s \in Rooms : drafts[s] \subseteq {s, Nowhere, Entry} /\ drafts[s] # {Entry}
                      /\ \A s \in Rooms \ {shown} : s \notin input \cup saved_draft
    BY DEF DraftsStayHome
  <2>1. Bars
    BY DEF TuiIInv, Tidy
  <2>2. \A s \in Rooms : s # Nowhere /\ s # Entry
    BY Constant
  <2> QED BY <2>1, <2>2 DEF Bars
<1> QED BY <1>1, TuiInitial, TuiStep, PTL DEF TuiSpec

\* Under the same conditions and while no attach is refused, RunInput, which
\* names no session, reaches the session that was shown at Enter.
THEOREM PromptsReachTheShown == TuiSpec => []PromptRunsWhereShown
<1>1. TuiIInv => PromptRunsWhereShown
  BY DEF TuiIInv, Tidy, PromptRunsWhereShown
<1> QED BY <1>1, TuiInitial, TuiStep, PTL DEF TuiSpec
=============================================================================
