------------------------- MODULE AcpAdapter_proofs --------------------------
(***************************************************************************)
(* Proofs about AcpAdapter, for any number of sessions, requests, prompts  *)
(* and cancels of the editor, and a daemon that may go away: the bridge    *)
(* answers no request twice, and loses none.                               *)
(***************************************************************************)
EXTENDS AcpAdapter, TLAPS

Kinds == {"ListModels", "ListSessions", "CreateSession", "AttachSession", "RunInput",
          "Cancel", "DeleteSession", "Attach", "Detach", "Shutdown",
          "Models", "ModelsFailed", "Sessions", "SessionCreated",
          "SessionDeleteFailed", "Disconnected", "ModelSelectionFailed",
          "ReasoningEffortSet", "ReasoningEffortSetFailed"} \cup Options \cup Terminal
Messages == [kind : Kinds, n : Nat]
Asked == [slot : Slots \cup {"none", "delete", "prompt"}, session : Nat]

\* What the bridge and the editor keep.
BooksTyped ==
    /\ phase \in {"new", "ready", "eof", "error", "lost"}
    /\ asked \in Seq(Asked) /\ Len(asked) <= MaxAsked
    /\ answers \in [Ids -> Nat]
    /\ models_pending \in Nat
    /\ sync \in [Slots -> Nat]
    /\ deleting \in [Chats -> Nat]
    /\ prompts \in [Chats -> [id : Nat, req : Nat]]
    /\ mapped \subseteq Nat
    /\ active_request \in [Chats -> Nat]
    /\ next_request_id \in Nat \ {0}

\* What is on its way.
WiresTyped ==
    /\ outq \in Seq(Messages) /\ inq \in Seq(Messages)
    /\ cmds \in [Chats -> Seq(Messages)]
    /\ run \in [Chats -> Nat]
    /\ current \in Nat /\ created \in Nat
    /\ \A i \in 1 .. Len(outq) : outq[i].kind = "DeleteSession" => outq[i].n \in Chats
    /\ \A i \in 1 .. Len(inq) : inq[i].kind = "SessionDeleteFailed" => inq[i].n \in Chats

\* A slot holds a request of its kind: no request is in two of them.
IsAsked(i, slot, s) == i \in 1 .. Len(asked) /\ asked[i] = [slot |-> slot, session |-> s]
SlotsMatch ==
    /\ models_pending # NoOne => IsAsked(models_pending, "create", NoOne)
    /\ \A k \in Slots : sync[k] # NoOne => IsAsked(sync[k], k, NoOne)
    /\ models_pending # NoOne => models_pending # sync["create"]
    /\ \A s \in Chats : /\ deleting[s] # NoOne => IsAsked(deleting[s], "delete", s)
                        /\ prompts[s].id # NoOne => IsAsked(prompts[s].id, "prompt", s)

\* A request in a slot is not answered, none is answered twice, and while
\* the loop runs the others are in a slot or have lost it to a later one.
AnswersFit ==
    /\ \A i \in Ids : answers[i] <= 1 /\ (i > Len(asked) => answers[i] = 0)
    /\ \A i \in 1 .. Len(asked) : Tracked(i) => answers[i] = 0
    /\ phase \in {"new", "ready", "lost"} =>
         \A i \in 1 .. Len(asked) : answers[i] = 0 => Tracked(i) \/ Overtaken(i)

\* The guard of a session in the mapping is that of its prompt, and a
\* session that is about to enter the mapping has neither.
GuardFits ==
    /\ \A s \in Chats : prompts[s].id = NoOne <=> prompts[s].req = NoOne
    /\ \A s \in Chats \cap mapped : active_request[s] = prompts[s].req
Fresh(in, open, wait, guard, last) ==
    /\ \A s \in open : s <= last
    /\ \A s \in Chats : wait[s].id # NoOne \/ guard[s] # NoOne => s <= last
    /\ \A i \in 1 .. Len(in) : in[i].kind = "SessionCreated" =>
         /\ in[i].n <= last /\ in[i].n \notin open
         /\ in[i].n \in Chats => wait[in[i].n].id = NoOne /\ guard[in[i].n] = NoOne
    /\ \A i, j \in 1 .. Len(in) :
         in[i].kind = "SessionCreated" /\ in[j].kind = "SessionCreated"
         /\ in[i].n = in[j].n => i = j
FreshSessions == Fresh(inq, mapped, prompts, active_request, created)

\* A session/new goes twice around: ListModels and Models, CreateSession and
\* SessionCreated.  The next one may begin while the first is in its second
\* round; the channels are FIFO, so its Models comes after SessionCreated.
IsCreate(m) == m.kind \in {"CreateSession", "SessionCreated"}
IsModels(m) == m.kind \in {"ListModels", "Models"}
HasCreate(q) == \E i \in 1 .. Len(q) : IsCreate(q[i])
HasModels(q) == \E i \in 1 .. Len(q) : IsModels(q[i])
CreateFirst(q) ==
    \A i \in 1 .. Len(q) : IsModels(q[i]) => \E j \in 1 .. i - 1 : IsCreate(q[j])
OneModels(q) == \A i, j \in 1 .. Len(q) : IsModels(q[i]) /\ IsModels(q[j]) => i = j
Rounds(pending, creating, in, out) ==
    /\ pending = NoOne => ~HasModels(in) /\ ~HasModels(out)
    /\ OneModels(in) /\ OneModels(out) /\ ~(HasModels(in) /\ HasModels(out))
    /\ creating # NoOne =>
         /\ HasCreate(in) \/ HasCreate(out)
         /\ CreateFirst(in) /\ (HasCreate(in) \/ CreateFirst(out))
RoundsInOrder == Alive => Rounds(models_pending, sync["create"], inq, outq)

AcpIInv == /\ BooksTyped /\ WiresTyped /\ SlotsMatch /\ AnswersFit /\ GuardFits
           /\ FreshSessions /\ RoundsInOrder

-----------------------------------------------------------------------------
(* Lemmas about the two channels of the bridge *)

Dull(m) ==
    /\ m.kind \notin {"CreateSession", "SessionCreated", "ListModels", "Models",
                      "SessionDeleteFailed"}
    /\ m.kind = "DeleteSession" => m.n \in Chats
DullAll(r) == \A i \in 1 .. Len(r) : Dull(r[i])

LEMMA JoinedMessages ==
    ASSUME NEW q \in Seq(Messages), NEW r \in Seq(Messages)
    PROVE  /\ q \o r \in Seq(Messages) /\ Len(q \o r) = Len(q) + Len(r)
           /\ \A i \in 1 .. Len(q) : (q \o r)[i] = q[i]
           /\ \A i \in 1 .. Len(r) : (q \o r)[Len(q) + i] = r[i]
           /\ \A i \in 1 .. Len(q \o r) :
                i \in 1 .. Len(q) \/ (i - Len(q) \in 1 .. Len(r)
                                      /\ (q \o r)[i] = r[i - Len(q)])
           /\ Len(q) \in Nat /\ Len(r) \in Nat
OBVIOUS

LEMMA RestOfMessages ==
    ASSUME NEW q \in Seq(Messages), q # <<>>
    PROVE  /\ Tail(q) \in Seq(Messages) /\ Len(Tail(q)) = Len(q) - 1
           /\ Len(q) \in Nat \ {0} /\ Head(q) = q[1] /\ q[1] \in Messages
           /\ \A i \in 1 .. Len(q) - 1 : Tail(q)[i] = q[i + 1]
OBVIOUS

LEMMA DullJoin ==
    ASSUME NEW q \in Seq(Messages), NEW r \in Seq(Messages), DullAll(r)
    PROVE  /\ HasCreate(q \o r) <=> HasCreate(q)
           /\ HasModels(q \o r) <=> HasModels(q)
           /\ CreateFirst(q) => CreateFirst(q \o r)
           /\ OneModels(q) => OneModels(q \o r)
<1>1. PICK z : z = q \o r
  OBVIOUS
<1>2. /\ \A i \in 1 .. Len(q) : z[i] = q[i] /\ i \in 1 .. Len(z)
      /\ \A i \in 1 .. Len(z) : i \in 1 .. Len(q) \/ (~IsCreate(z[i]) /\ ~IsModels(z[i]))
      /\ Len(z) \in Nat /\ Len(q) \in Nat
  BY <1>1, JoinedMessages DEF DullAll, Dull, IsCreate, IsModels
<1>3. HasCreate(z) <=> HasCreate(q)
  BY <1>2 DEF HasCreate
<1>4. HasModels(z) <=> HasModels(q)
  BY <1>2 DEF HasModels
<1>5. CreateFirst(q) => CreateFirst(z)
  BY <1>2 DEF CreateFirst
<1>6. OneModels(q) => OneModels(z)
  BY <1>2 DEF OneModels
<1> QED
  BY <1>1, <1>3, <1>4, <1>5, <1>6

LEMMA MarkedJoin ==
    ASSUME NEW q \in Seq(Messages), NEW m \in Messages
    PROVE  /\ HasCreate(q \o <<m>>) <=> HasCreate(q) \/ IsCreate(m)
           /\ HasModels(q \o <<m>>) <=> HasModels(q) \/ IsModels(m)
           /\ CreateFirst(q) /\ (IsModels(m) => HasCreate(q)) => CreateFirst(q \o <<m>>)
           /\ OneModels(q) /\ (IsModels(m) => ~HasModels(q)) => OneModels(q \o <<m>>)
<1>1. PICK z : z = q \o <<m>>
  OBVIOUS
<1>2. /\ \A i \in 1 .. Len(q) : z[i] = q[i] /\ i \in 1 .. Len(z)
      /\ Len(z) = Len(q) + 1 /\ Len(q) \in Nat /\ z[Len(q) + 1] = m
  BY <1>1
<1>3. \A i \in 1 .. Len(z) : i \in 1 .. Len(q) \/ i = Len(q) + 1
  BY <1>2
<1>4. HasCreate(z) <=> HasCreate(q) \/ IsCreate(m)
  BY <1>2, <1>3 DEF HasCreate
<1>5. HasModels(z) <=> HasModels(q) \/ IsModels(m)
  BY <1>2, <1>3 DEF HasModels
<1>6. CreateFirst(q) /\ (IsModels(m) => HasCreate(q)) => CreateFirst(z)
  BY <1>2, <1>3 DEF CreateFirst, HasCreate
<1>7. OneModels(q) /\ (IsModels(m) => ~HasModels(q)) => OneModels(z)
  BY <1>2, <1>3 DEF OneModels, HasModels
<1> QED
  BY <1>1, <1>4, <1>5, <1>6, <1>7

LEMMA RestMarks ==
    ASSUME NEW q \in Seq(Messages), q # <<>>
    PROVE  /\ HasCreate(Tail(q)) => HasCreate(q)
           /\ HasCreate(q) /\ ~IsCreate(Head(q)) => HasCreate(Tail(q))
           /\ HasModels(Tail(q)) => HasModels(q)
           /\ HasModels(q) /\ ~IsModels(Head(q)) => HasModels(Tail(q))
           /\ CreateFirst(q) /\ ~IsCreate(Head(q)) => CreateFirst(Tail(q))
           /\ OneModels(q) => OneModels(Tail(q))
           /\ OneModels(q) /\ IsModels(Head(q)) => ~HasModels(Tail(q))
           /\ CreateFirst(q) => ~IsModels(Head(q))
           /\ IsModels(Head(q)) => HasModels(q)
           /\ IsCreate(Head(q)) => HasCreate(q)
<1>1. PICK t : t = Tail(q)
  OBVIOUS
<1>2. /\ Len(t) = Len(q) - 1 /\ Len(q) \in Nat \ {0} /\ Head(q) = q[1]
      /\ \A i \in 1 .. Len(t) : t[i] = q[i + 1] /\ i + 1 \in 1 .. Len(q)
  BY <1>1, RestOfMessages
<1>3. \A i \in 1 .. Len(q) : i = 1 \/ (i - 1 \in 1 .. Len(t) /\ t[i - 1] = q[i])
  BY <1>2
<1>4. HasCreate(t) => HasCreate(q)
  BY <1>2 DEF HasCreate
<1>5. HasCreate(q) /\ ~IsCreate(q[1]) => HasCreate(t)
  BY <1>3 DEF HasCreate
<1>6. HasModels(t) => HasModels(q)
  BY <1>2 DEF HasModels
<1>7. HasModels(q) /\ ~IsModels(q[1]) => HasModels(t)
  BY <1>3 DEF HasModels
<1>8. ASSUME CreateFirst(q), ~IsCreate(q[1])
      PROVE  CreateFirst(t)
  <2> SUFFICES ASSUME NEW i \in 1 .. Len(t), IsModels(t[i])
               PROVE  \E j \in 1 .. i - 1 : IsCreate(t[j])
    BY DEF CreateFirst
  <2>1. PICK j \in 1 .. (i + 1) - 1 : IsCreate(q[j])
    BY <1>2, <1>8 DEF CreateFirst
  <2>2. j - 1 \in 1 .. i - 1 /\ IsCreate(t[j - 1])
    BY <2>1, <1>2, <1>3, <1>8
  <2> QED
    BY <2>2
<1>9. OneModels(q) => OneModels(t)
  BY <1>2, SMTT(30) DEF OneModels
<1>10. OneModels(q) /\ IsModels(q[1]) => ~HasModels(t)
  BY <1>2 DEF OneModels, HasModels
<1>11. CreateFirst(q) => ~IsModels(q[1])
  BY <1>2 DEF CreateFirst
<1>12. (IsModels(q[1]) => HasModels(q)) /\ (IsCreate(q[1]) => HasCreate(q))
  BY <1>2 DEF HasModels, HasCreate
<1> QED
  BY <1>1, <1>2, <1>4, <1>5, <1>6, <1>7, <1>8, <1>9, <1>10, <1>11, <1>12

-----------------------------------------------------------------------------
(* Session/new, round by round *)

LEMMA RoundsDull ==
    ASSUME NEW p, NEW k, NEW i \in Seq(Messages), NEW o \in Seq(Messages),
           NEW r \in Seq(Messages), DullAll(r), Rounds(p, k, i, o)
    PROVE  Rounds(p, k, i \o r, o) /\ Rounds(p, k, i, o \o r)
BY DullJoin DEF Rounds

LEMMA RoundsServed ==
    ASSUME NEW p, NEW k, NEW i \in Seq(Messages), NEW o \in Seq(Messages), o # <<>>,
           NEW m \in Messages, Rounds(p, k, i, o),
           IsCreate(m) <=> IsCreate(Head(o)), IsModels(m) => IsModels(Head(o))
    PROVE  Rounds(p, k, i \o <<m>>, Tail(o))
BY MarkedJoin, RestMarks DEF Rounds, IsCreate, IsModels

LEMMA RoundsServedSilently ==
    ASSUME NEW p, NEW k, NEW i \in Seq(Messages), NEW o \in Seq(Messages), o # <<>>,
           Rounds(p, k, i, o), ~IsCreate(Head(o))
    PROVE  Rounds(p, k, i, Tail(o))
BY RestMarks DEF Rounds

LEMMA RoundsTaken ==
    ASSUME NEW p, NEW k, NEW i \in Seq(Messages), NEW o \in Seq(Messages), i # <<>>,
           Rounds(p, k, i, o)
    PROVE  /\ ~IsCreate(Head(i)) => Rounds(p, k, Tail(i), o)
           /\ Rounds(p, NoOne, Tail(i), o)
           /\ IsModels(Head(i)) => /\ p # NoOne /\ k = NoOne
                                   /\ ~HasModels(Tail(i)) /\ ~HasModels(o)
BY RestMarks DEF Rounds

LEMMA RoundsBegin ==
    ASSUME NEW k, NEW n, NEW i \in Seq(Messages), NEW o \in Seq(Messages),
           NEW m \in Messages, m.kind = "ListModels", Rounds(NoOne, k, i, o)
    PROVE  n # NoOne => Rounds(n, k, i, o \o <<m>>)
BY MarkedJoin DEF Rounds, IsCreate, IsModels

LEMMA RoundsCreate ==
    ASSUME NEW n, NEW i \in Seq(Messages), NEW o \in Seq(Messages),
           NEW m \in Messages, m.kind = "CreateSession", ~HasModels(i), ~HasModels(o)
    PROVE  Rounds(NoOne, n, i, o \o <<m>>)
<1>1. CreateFirst(i) /\ CreateFirst(o) /\ OneModels(i) /\ OneModels(o)
  BY DEF CreateFirst, OneModels, HasModels
<1>2. IsCreate(m) /\ ~IsModels(m)
  BY DEF IsCreate, IsModels
<1> QED
  BY <1>1, <1>2, MarkedJoin DEF Rounds

-----------------------------------------------------------------------------
(* The books: who asked, what is answered, what is in a slot *)

LEMMA IdsBound ==
    ASSUME BooksTyped
    PROVE  /\ MaxAsked \in Nat /\ Len(asked) \in Nat /\ 1 .. Len(asked) \subseteq Ids
           /\ 1 .. Len(asked) \subseteq Nat /\ 0 \notin Ids
           /\ \A i \in 1 .. Len(asked) : asked[i] \in Asked
BY AcpBounds DEF BooksTyped, Ids

\* Only what was asked is in a slot.
LEMMA TrackedWasAsked ==
    ASSUME BooksTyped, SlotsMatch, NEW i \in Nat \ {0}, Tracked(i)
    PROVE  i \in 1 .. Len(asked)
<1>1. CASE i = models_pending
  BY <1>1 DEF SlotsMatch, IsAsked, NoOne
<1>2. CASE \E k \in Slots : i = sync[k]
  BY <1>2 DEF SlotsMatch, IsAsked, NoOne
<1>3. CASE \E s \in Chats : i = deleting[s] \/ i = prompts[s].id
  BY <1>3 DEF SlotsMatch, IsAsked, NoOne
<1> QED
  BY <1>1, <1>2, <1>3 DEF Tracked

\* A step that neither asks nor answers.
LEMMA BooksKept ==
    ASSUME BooksTyped, AnswersFit, SlotsMatch,
           UNCHANGED <<models_pending, sync, deleting, prompts, asked, answers>>,
           phase' = phase \/ phase' \in {"eof", "error"} \/ phase = "new"
    PROVE  AnswersFit' /\ SlotsMatch'
<1>1. \A i \in 1 .. Len(asked) : Tracked(i)' <=> Tracked(i)
  BY DEF Tracked
<1>2. \A i \in 1 .. Len(asked) : Overtaken(i)' <=> Overtaken(i)
  BY DEF Overtaken
<1>3. AnswersFit'
  BY <1>1, <1>2 DEF AnswersFit
<1> QED
  BY <1>3 DEF SlotsMatch, IsAsked

\* The requests of W are answered and leave their slots.
LEMMA BooksAnswered ==
    ASSUME BooksTyped, AnswersFit, NEW W, asked' = asked,
           answers' = [i \in Ids |-> answers[i] + IF i \in W THEN 1 ELSE 0],
           phase' = phase \/ phase' \notin {"new", "ready"},
           phase \in {"new", "ready", "lost"},
           \A i \in 1 .. Len(asked) : Tracked(i)' <=> Tracked(i) /\ i \notin W,
           \A i \in Ids : i \in W => i \in 1 .. Len(asked) /\ Tracked(i)
    PROVE  AnswersFit' /\ answers' \in [Ids -> Nat]
<1>1. /\ 1 .. Len(asked) \subseteq Ids /\ Len(asked) \in Nat
      /\ answers \in [Ids -> Nat]
  BY IdsBound DEF BooksTyped
<1>2. \A i \in Ids : /\ i \in W => answers[i] = 0 /\ answers'[i] = 1
                     /\ i \notin W => answers'[i] = answers[i]
  BY <1>1 DEF AnswersFit
<1>3. \A i \in 1 .. Len(asked) : Overtaken(i)' <=> Overtaken(i)
  BY DEF Overtaken
<1>4. \A i \in Ids : answers'[i] <= 1 /\ (i > Len(asked') => answers'[i] = 0)
  BY <1>1, <1>2 DEF AnswersFit, Ids
<1>5. \A i \in 1 .. Len(asked) : Tracked(i)' => answers'[i] = 0
  BY <1>1, <1>2 DEF AnswersFit
<1>6. \A i \in 1 .. Len(asked) : answers'[i] = 0 => Tracked(i)' \/ Overtaken(i)'
  BY <1>1, <1>2, <1>3 DEF AnswersFit
<1>7. answers' \in [Ids -> Nat]
  BY <1>1
<1> QED
  BY <1>4, <1>5, <1>6, <1>7 DEF AnswersFit

LEMMA AskedMore ==
    ASSUME BooksTyped, NEW a \in Asked, asked' = Append(asked, a), Len(asked) < MaxAsked
    PROVE  /\ asked' \in Seq(Asked) /\ Len(asked') = Len(asked) + 1
           /\ Len(asked') <= MaxAsked /\ Len(asked) \in Nat
           /\ \A i \in 1 .. Len(asked) : asked'[i] = asked[i] /\ i \in 1 .. Len(asked')
           /\ asked'[Len(asked) + 1] = a
           /\ \A i \in 1 .. Len(asked') : i \in 1 .. Len(asked) \/ i = Len(asked) + 1
           /\ Len(asked) + 1 \in Ids /\ NewId = Len(asked) + 1
           /\ \A i \in 1 .. Len(asked) : Overtaken(i) => Overtaken(i)'
<1>1. Len(asked) \in Nat /\ MaxAsked \in Nat
  BY IdsBound
<1>2. /\ asked' \in Seq(Asked) /\ Len(asked') = Len(asked) + 1
      /\ \A i \in 1 .. Len(asked) : asked'[i] = asked[i]
      /\ asked'[Len(asked) + 1] = a
  BY DEF BooksTyped
<1>3. \A i \in 1 .. Len(asked) : Overtaken(i) => Overtaken(i)'
  <2> SUFFICES ASSUME NEW i \in 1 .. Len(asked), Overtaken(i)
               PROVE  Overtaken(i)'
    OBVIOUS
  <2>1. PICK j \in i + 1 .. Len(asked) : asked[j] = asked[i]
    BY DEF Overtaken
  <2>2. /\ i \in DOMAIN asked' /\ j \in i + 1 .. Len(asked')
        /\ asked'[i] = asked[i] /\ asked'[j] = asked[j]
    BY <1>1, <1>2, <2>1
  <2>3. asked'[i].slot \in {"list", "delete"} \cup Options
    BY <2>2 DEF Overtaken
  <2> QED
    BY <2>1, <2>2, <2>3 DEF Overtaken
<1>4. /\ \A i \in 1 .. Len(asked) : i \in 1 .. Len(asked')
      /\ \A i \in 1 .. Len(asked') : i \in 1 .. Len(asked) \/ i = Len(asked) + 1
      /\ Len(asked) + 1 \in Ids /\ Len(asked') <= MaxAsked
  BY <1>1, <1>2 DEF Ids
<1> QED
  BY <1>1, <1>2, <1>3, <1>4 DEF NewId

\* A request is answered on the spot.
LEMMA BooksRefused ==
    ASSUME BooksTyped, AnswersFit, SlotsMatch, NEW a \in Asked,
           asked' = Append(asked, a), Len(asked) < MaxAsked,
           Respond({NewId}), UNCHANGED <<models_pending, sync, deleting, prompts, phase>>
    PROVE  AnswersFit' /\ SlotsMatch' /\ answers' \in [Ids -> Nat]
<1> DEFINE n == Len(asked) + 1
<1>1. /\ Len(asked') = n /\ Len(asked) \in Nat
      /\ \A i \in 1 .. Len(asked) : asked'[i] = asked[i] /\ i \in 1 .. Len(asked')
      /\ \A i \in 1 .. Len(asked') : i \in 1 .. Len(asked) \/ i = n
      /\ n \in Ids /\ NewId = n
      /\ \A i \in 1 .. Len(asked) : Overtaken(i) => Overtaken(i)'
  BY AskedMore
<1>2. 1 .. Len(asked) \subseteq Ids /\ answers \in [Ids -> Nat] /\ Ids \subseteq Nat \ {0}
  BY IdsBound DEF BooksTyped, Ids
<1>3. \A i \in Nat : Tracked(i)' <=> Tracked(i)
  BY DEF Tracked
<1>4. ~Tracked(n)
  BY <1>1, TrackedWasAsked
<1>5. \A i \in Ids : /\ i = n => answers'[i] = answers[i] + 1
                     /\ i # n => answers'[i] = answers[i]
  BY <1>1, <1>2 DEF Respond
<1>6. answers[n] = 0
  BY <1>1 DEF AnswersFit
<1>7. \A i \in Ids : answers'[i] <= 1 /\ (i > Len(asked') => answers'[i] = 0)
  BY <1>1, <1>2, <1>5, <1>6 DEF AnswersFit
<1>8. \A i \in 1 .. Len(asked') : Tracked(i)' => answers'[i] = 0
  BY <1>1, <1>2, <1>3, <1>4, <1>5 DEF AnswersFit
<1>9. phase \in {"new", "ready", "lost"} =>
        \A i \in 1 .. Len(asked') : answers'[i] = 0 => Tracked(i)' \/ Overtaken(i)'
  BY <1>1, <1>2, <1>3, <1>5, <1>6 DEF AnswersFit
<1>10. AnswersFit'
  BY <1>7, <1>8, <1>9 DEF AnswersFit
<1>11. SlotsMatch'
  BY <1>1 DEF SlotsMatch, IsAsked
<1>12. answers' \in [Ids -> Nat]
  BY <1>2 DEF Respond
<1> QED
  BY <1>10, <1>11, <1>12

\* A request goes to a slot; old is what the slot held.
LEMMA BooksTracked ==
    ASSUME BooksTyped, AnswersFit, SlotsMatch, NEW a \in Asked, NEW old \in Nat,
           asked' = Append(asked, a), Len(asked) < MaxAsked,
           UNCHANGED answers, phase' = phase \/ phase' = "error",
           old # NoOne => /\ old \in 1 .. Len(asked) /\ asked[old] = a
                          /\ a.slot \in {"list", "delete"} \cup Options,
           \A i \in 1 .. Len(asked) : Tracked(i)' <=> Tracked(i) /\ i # old,
           NEW n, n = Len(asked) + 1, Tracked(n)'
    PROVE  AnswersFit'
<1>1. /\ Len(asked') = n /\ Len(asked) \in Nat /\ asked'[n] = a
      /\ \A i \in 1 .. Len(asked) : asked'[i] = asked[i] /\ i \in 1 .. Len(asked')
      /\ \A i \in 1 .. Len(asked') : i \in 1 .. Len(asked) \/ i = n
      /\ n \in Ids
      /\ \A i \in 1 .. Len(asked) : Overtaken(i) => Overtaken(i)'
  BY AskedMore
<1>2. old # NoOne => Overtaken(old)'
  <2> SUFFICES ASSUME old # NoOne
               PROVE  Overtaken(old)'
    OBVIOUS
  <2>1. /\ old \in DOMAIN asked' /\ asked'[old] = a /\ n \in old + 1 .. Len(asked')
    BY <1>1, AskedMore
  <2> QED
    BY <2>1, <1>1 DEF Overtaken
<1>3. answers[n] = 0
  BY <1>1 DEF AnswersFit
<1>4. \A i \in Ids : answers'[i] <= 1 /\ (i > Len(asked') => answers'[i] = 0)
  BY <1>1 DEF AnswersFit, Ids
<1>5. \A i \in 1 .. Len(asked') : Tracked(i)' => answers'[i] = 0
  BY <1>1, <1>3 DEF AnswersFit
<1>6. phase' \in {"new", "ready", "lost"} =>
        \A i \in 1 .. Len(asked') : answers'[i] = 0 => Tracked(i)' \/ Overtaken(i)'
  <2> SUFFICES ASSUME phase \in {"new", "ready", "lost"},
                      NEW i \in 1 .. Len(asked'), answers'[i] = 0
               PROVE  Tracked(i)' \/ Overtaken(i)'
    OBVIOUS
  <2>1. CASE i = n
    BY <2>1
  <2>2. CASE i \in 1 .. Len(asked) /\ i # old
    BY <2>2, <1>1 DEF AnswersFit
  <2>3. CASE i \in 1 .. Len(asked) /\ i = old
    BY <2>3, <1>2 DEF NoOne
  <2> QED
    BY <2>1, <2>2, <2>3, <1>1
<1> QED
  BY <1>4, <1>5, <1>6 DEF AnswersFit

-----------------------------------------------------------------------------
(* New sessions *)

LEMMA FreshDull ==
    ASSUME NEW q \in Seq(Messages), NEW r \in Seq(Messages), DullAll(r),
           NEW o, NEW w, NEW g, NEW l, Fresh(q, o, w, g, l)
    PROVE  Fresh(q \o r, o, w, g, l)
<1>1. PICK z : z = q \o r
  OBVIOUS
<1>2. /\ \A i \in 1 .. Len(q) : z[i] = q[i]
      /\ \A i \in 1 .. Len(z) : i \in 1 .. Len(q) \/ z[i].kind # "SessionCreated"
  BY <1>1, JoinedMessages DEF DullAll, Dull
<1>3. Fresh(z, o, w, g, l)
  BY <1>2 DEF Fresh
<1> QED
  BY <1>1, <1>3

LEMMA FreshTaken ==
    ASSUME NEW q \in Seq(Messages), q # <<>>,
           NEW o, NEW w, NEW g, NEW l, Fresh(q, o, w, g, l)
    PROVE  /\ Fresh(Tail(q), o, w, g, l)
           /\ Head(q).kind = "SessionCreated" =>
                /\ Fresh(Tail(q), o \cup {Head(q).n}, w, g, l)
                /\ Head(q).n \in Chats => /\ w[Head(q).n].id = NoOne
                                          /\ g[Head(q).n] = NoOne
<1>1. PICK t : t = Tail(q)
  OBVIOUS
<1>2. PICK x : x = Head(q).n
  OBVIOUS
<1>3. /\ \A i \in 1 .. Len(t) : t[i] = q[i + 1] /\ i + 1 \in 1 .. Len(q) /\ i + 1 # 1
      /\ 1 \in 1 .. Len(q) /\ Head(q) = q[1] /\ Len(q) \in Nat /\ Len(t) = Len(q) - 1
  BY <1>1, RestOfMessages
<1>4. \A i, j \in 1 .. Len(t) : i + 1 = j + 1 => i = j
  BY <1>3
<1>5. Fresh(t, o, w, g, l)
  <2>1. \A i \in 1 .. Len(t) : t[i].kind = "SessionCreated" =>
          /\ t[i].n <= l /\ t[i].n \notin o
          /\ t[i].n \in Chats => w[t[i].n].id = NoOne /\ g[t[i].n] = NoOne
    BY <1>3 DEF Fresh
  <2>2. ASSUME NEW i \in 1 .. Len(t), NEW j \in 1 .. Len(t),
               t[i].kind = "SessionCreated", t[j].kind = "SessionCreated", t[i].n = t[j].n
        PROVE  i = j
    <3>1. i + 1 = j + 1
      BY <1>3, <2>2 DEF Fresh
    <3> QED
      BY <3>1, <1>4
  <2> QED
    BY <2>1, <2>2 DEF Fresh
<1>6. ASSUME Head(q).kind = "SessionCreated"
      PROVE  /\ \A i \in 1 .. Len(t) : t[i].kind = "SessionCreated" => t[i].n # x
             /\ x <= l
             /\ x \in Chats => w[x].id = NoOne /\ g[x] = NoOne
  BY <1>2, <1>3, <1>6 DEF Fresh
<1>7. Head(q).kind = "SessionCreated" => Fresh(t, o \cup {x}, w, g, l)
  BY <1>5, <1>6 DEF Fresh
<1> QED
  BY <1>1, <1>2, <1>5, <1>6, <1>7

LEMMA FreshCreated ==
    ASSUME NEW q \in Seq(Messages), NEW m \in Messages, NEW l \in Nat,
           m.kind = "SessionCreated", m.n = l + 1,
           NEW o \in SUBSET Nat, NEW w, NEW g, Fresh(q, o, w, g, l)
    PROVE  Fresh(q \o <<m>>, o, w, g, l + 1)
<1>1. PICK z : z = q \o <<m>>
  OBVIOUS
<1>2. /\ \A i \in 1 .. Len(q) : z[i] = q[i] /\ q[i].n \in Nat
      /\ \A i \in 1 .. Len(z) : i \in 1 .. Len(q) \/ (i = Len(q) + 1 /\ z[i] = m)
  <2>1. \A i \in 1 .. Len(q) : z[i] = q[i] /\ q[i] \in Messages
    BY <1>1
  <2>2. Len(z) = Len(q) + 1 /\ Len(q) \in Nat /\ z[Len(q) + 1] = m
    BY <1>1
  <2>3. \A i \in 1 .. Len(z) : i \in 1 .. Len(q) \/ i = Len(q) + 1
    BY <2>2
  <2> QED
    BY <2>1, <2>2, <2>3 DEF Messages
<1>3. Chats \subseteq Nat
  BY AcpBounds DEF Chats
<1>4. \A s \in o : s <= l /\ s <= l + 1
  <2>1. \A s \in o : s <= l
    BY DEF Fresh
  <2> QED
    BY <2>1
<1>5. \A s \in Chats : w[s].id # NoOne \/ g[s] # NoOne => s <= l /\ s <= l + 1
  <2>1. \A s \in Chats : w[s].id # NoOne \/ g[s] # NoOne => s <= l
    BY DEF Fresh
  <2> QED
    BY <2>1, <1>3
<1>6. \A i \in 1 .. Len(q) : q[i].kind = "SessionCreated" => q[i].n <= l /\ q[i].n # l + 1
  BY <1>2 DEF Fresh
<1>7. l + 1 \notin o /\ (l + 1 \in Chats => w[l + 1].id = NoOne /\ g[l + 1] = NoOne)
  BY <1>3, <1>4, <1>5
<1>8. ASSUME NEW i \in 1 .. Len(z), z[i].kind = "SessionCreated"
      PROVE  /\ z[i].n <= l + 1 /\ z[i].n \notin o
             /\ z[i].n \in Chats => w[z[i].n].id = NoOne /\ g[z[i].n] = NoOne
  <2>1. CASE i \in 1 .. Len(q)
    BY <1>2, <1>6, <1>8, <2>1 DEF Fresh
  <2>2. CASE i = Len(q) + 1 /\ z[i] = m
    BY <1>7, <2>2
  <2> QED
    BY <2>1, <2>2, <1>2
<1>9. ASSUME NEW i \in 1 .. Len(z), NEW j \in 1 .. Len(z), z[i].kind = "SessionCreated",
             z[j].kind = "SessionCreated", z[i].n = z[j].n
      PROVE  i = j
  BY <1>2, <1>6, <1>9 DEF Fresh
<1>10. Fresh(z, o, w, g, l + 1)
  BY <1>4, <1>5, <1>8, <1>9 DEF Fresh
<1> QED
  BY <1>1, <1>10

LEMMA FreshBooks ==
    ASSUME NEW q, NEW o, NEW w, NEW g, NEW l, Fresh(q, o, w, g, l),
           NEW o2 \in SUBSET o, NEW w2, NEW g2,
           \A s \in Chats : /\ w2[s].id # NoOne => w[s].id # NoOne \/ s \in o
                            /\ g2[s] # NoOne => g[s] # NoOne \/ s \in o
    PROVE  Fresh(q, o2, w2, g2, l)
<1>1. \A s \in Chats : w2[s].id # NoOne \/ g2[s] # NoOne => s <= l
  BY DEF Fresh
<1>2. ASSUME NEW i \in 1 .. Len(q), q[i].kind = "SessionCreated"
      PROVE  /\ q[i].n <= l /\ q[i].n \notin o
             /\ q[i].n \in Chats => w2[q[i].n].id = NoOne /\ g2[q[i].n] = NoOne
  BY <1>2 DEF Fresh
<1> QED
  BY <1>1, <1>2 DEF Fresh

-----------------------------------------------------------------------------
(* Steps that leave the books alone *)

LEMMA TypedGrow ==
    ASSUME WiresTyped, NEW r \in Seq(Messages), DullAll(r),
           UNCHANGED created, current' \in Nat, run' \in [Chats -> Nat],
           cmds' \in [Chats -> Seq(Messages)],
           \/ inq' = inq \o r /\ outq' = outq
           \/ inq' = inq /\ outq' = outq \o r
    PROVE  WiresTyped'
<1>1. CASE inq' = inq \o r /\ outq' = outq
  <2>1. \A i \in 1 .. Len(inq') : inq'[i].kind = "SessionDeleteFailed" => inq'[i].n \in Chats
    BY <1>1, JoinedMessages, SMTT(30) DEF WiresTyped, DullAll, Dull
  <2> QED
    BY <1>1, <2>1, JoinedMessages DEF WiresTyped
<1>2. CASE inq' = inq /\ outq' = outq \o r
  <2>1. \A i \in 1 .. Len(outq') : outq'[i].kind = "DeleteSession" => outq'[i].n \in Chats
    BY <1>2, JoinedMessages DEF WiresTyped, DullAll, Dull
  <2> QED
    BY <1>2, <2>1, JoinedMessages DEF WiresTyped
<1> QED
  BY <1>1, <1>2

\* Something is said on a channel that the books do not wait for.
LEMMA IdleStep ==
    ASSUME AcpIInv, NEW r \in Seq(Messages), DullAll(r),
           UNCHANGED <<models_pending, sync, deleting, prompts, mapped, active_request,
                       next_request_id, asked, answers, created>>,
           \/ phase' = phase
           \/ phase' \in {"eof", "error"}
           \/ phase = "new" /\ phase' = "ready",
           current' \in Nat, run' \in [Chats -> Nat], cmds' \in [Chats -> Seq(Messages)],
           \/ inq' = inq \o r /\ outq' = outq
           \/ inq' = inq /\ outq' = outq \o r
    PROVE  AcpIInv'
<1> USE DEF AcpIInv
<1>1. BooksTyped'
  BY DEF BooksTyped
<1>2. WiresTyped'
  BY TypedGrow
<1>3. AnswersFit' /\ SlotsMatch'
  BY BooksKept
<1>4. GuardFits'
  BY DEF GuardFits
<1>5. outq \in Seq(Messages) /\ inq \in Seq(Messages)
  BY DEF WiresTyped
<1>6. FreshSessions'
  BY <1>5, FreshDull DEF FreshSessions
<1>7. RoundsInOrder'
  <2>1. Alive' => Alive
    BY DEF Alive
  <2> QED
    BY <2>1, <1>5, RoundsDull DEF RoundsInOrder
<1> QED
  BY <1>1, <1>2, <1>3, <1>4, <1>6, <1>7

LEMMA NothingSaid ==
    /\ <<>> \in Seq(Messages) /\ DullAll(<<>>)
    /\ \A q \in Seq(Messages) : q \o <<>> = q
BY DEF DullAll

LEMMA OneSaid ==
    ASSUME NEW m \in Messages, Dull(m)
    PROVE  <<m>> \in Seq(Messages) /\ DullAll(<<m>>)
BY DEF DullAll

\* A thread of the daemon that sends r to its subscribers.
LEMMA ThreadStep ==
    ASSUME AcpIInv, NEW r \in Seq(Messages), DullAll(r), UNCHANGED <<bridge, editor, outq>>,
           UNCHANGED <<current, created>>,
           run' \in [Chats -> Nat], cmds' \in [Chats -> Seq(Messages)],
           inq' = inq \/ inq' = inq \o r
    PROVE  AcpIInv'
<1>1. UNCHANGED <<models_pending, sync, deleting, prompts, mapped, active_request,
                  next_request_id, asked, answers, created, phase>>
  BY DEF bridge, editor
<1>2. current' \in Nat /\ inq \in Seq(Messages)
  BY DEF AcpIInv, WiresTyped
<1>3. CASE inq' = inq \o r
  BY <1>1, <1>2, <1>3, IdleStep
<1>4. CASE inq' = inq
  <2>1. inq' = inq \o <<>>
    BY <1>4, <1>2, NothingSaid
  <2> QED
    BY <1>1, <1>2, <2>1, NothingSaid, IdleStep
<1> QED
  BY <1>3, <1>4

LEMMA MsgTyped ==
    ASSUME NEW k \in Kinds, NEW n \in Nat
    PROVE  Msg(k, n) \in Messages /\ Msg(k, n).kind = k /\ Msg(k, n).n = n
BY DEF Msg, Messages

LEMMA NotSetTyped ==
    ASSUME NEW k
    PROVE  NotSet(k) \in Messages /\ Dull(NotSet(k))
<1>1. /\ "ModelSelectionFailed" \in Kinds /\ "ReasoningEffortSetFailed" \in Kinds
      /\ NoOne \in Nat
  BY DEF Kinds, NoOne
<1> QED
  BY <1>1, MsgTyped DEF NotSet, Dull

LEMMA SessionCommandStep ==
    ASSUME AcpIInv, NEW s \in Chats, SessionCommand(s)
    PROVE  AcpIInv'
<1>1. /\ UNCHANGED <<bridge, editor, outq, current, created>>
      /\ cmds[s] # <<>> /\ cmds' = [cmds EXCEPT ![s] = Tail(@)]
  BY DEF SessionCommand, connection
<1>2. PICK m : m = Head(cmds[s])
  OBVIOUS
<1>3. /\ cmds \in [Chats -> Seq(Messages)] /\ run \in [Chats -> Nat]
      /\ run[s] \in Nat /\ cmds[s] \in Seq(Messages)
  BY DEF AcpIInv, WiresTyped
<1>4. m \in Messages /\ m.n \in Nat /\ cmds' \in [Chats -> Seq(Messages)]
  <2>1. m \in Messages /\ Tail(cmds[s]) \in Seq(Messages)
    BY <1>1, <1>2, <1>3, RestOfMessages
  <2>2. m.n \in Nat
    BY <2>1 DEF Messages
  <2> QED
    BY <2>1, <2>2, <1>1, <1>3
<1>5. /\ run' \in [Chats -> Nat]
      /\ \/ inq' = inq
         \/ Tell(s, <<Msg("Failed", m.n)>>)
         \/ Tell(s, <<NotSet(m.kind)>>)
         \/ Tell(s, <<Msg("ReasoningEffortSet", NoOne)>>)
         \/ Tell(s, <<Msg("Cancelled", run[s]), Msg("Cancelled", run[s])>>)
  <2>1. \/ UNCHANGED run
        \/ run' = [run EXCEPT ![s] = m.n]
    BY <1>2 DEF SessionCommand
  <2>2. \/ inq' = inq
        \/ Tell(s, <<Msg("Failed", m.n)>>)
        \/ Tell(s, <<NotSet(m.kind)>>)
        \/ Tell(s, <<Msg("ReasoningEffortSet", NoOne)>>)
        \/ Tell(s, <<Msg("Cancelled", run[s]), Msg("Cancelled", run[s])>>)
    BY <1>2 DEF SessionCommand
  <2> QED
    BY <2>1, <2>2, <1>3, <1>4
<1>6. PICK r \in Seq(Messages) : DullAll(r) /\ (inq' = inq \/ inq' = inq \o r)
  <2>1. {"Failed", "ReasoningEffortSet", "Cancelled"} \subseteq Kinds /\ NoOne \in Nat
    BY DEF Kinds, Terminal, NoOne
  <2>2. CASE inq' = inq
    BY <2>2, NothingSaid
  <2>3. CASE Tell(s, <<Msg("Failed", m.n)>>)
    <3>1. Msg("Failed", m.n) \in Messages /\ Dull(Msg("Failed", m.n))
      BY <2>1, <1>4, MsgTyped DEF Dull
    <3> QED
      BY <3>1, <2>3, OneSaid DEF Tell
  <2>4. CASE Tell(s, <<NotSet(m.kind)>>)
    BY <2>4, NotSetTyped, OneSaid DEF Tell
  <2>5. CASE Tell(s, <<Msg("ReasoningEffortSet", NoOne)>>)
    <3>1. /\ Msg("ReasoningEffortSet", NoOne) \in Messages
          /\ Dull(Msg("ReasoningEffortSet", NoOne))
      BY <2>1, MsgTyped DEF Dull
    <3> QED
      BY <3>1, <2>5, OneSaid DEF Tell
  <2>6. CASE Tell(s, <<Msg("Cancelled", run[s]), Msg("Cancelled", run[s])>>)
    <3>1. PICK c : c = Msg("Cancelled", run[s])
      OBVIOUS
    <3>2. c \in Messages /\ Dull(c)
      BY <3>1, <2>1, <1>3, MsgTyped DEF Dull
    <3>3. <<c, c>> \in Seq(Messages) /\ DullAll(<<c, c>>)
      BY <3>2 DEF DullAll
    <3> QED
      BY <3>1, <3>3, <2>6 DEF Tell
  <2> QED
    BY <1>5, <2>2, <2>3, <2>4, <2>5, <2>6
<1> QED
  BY <1>1, <1>4, <1>5, <1>6, ThreadStep

LEMMA ToldStep ==
    ASSUME AcpIInv, NEW s \in Chats, NEW k \in Terminal, NEW n \in Nat,
           Tell(s, <<Msg(k, n)>>) \/ inq' = inq,
           UNCHANGED <<bridge, editor, outq, current, created, cmds>>,
           run' \in [Chats -> Nat]
    PROVE  AcpIInv'
<1>1. Msg(k, n) \in Messages /\ Dull(Msg(k, n))
  <2>1. k \in Kinds
    BY DEF Kinds
  <2> QED
    BY <2>1, MsgTyped DEF Dull, Terminal
<1>2. <<Msg(k, n)>> \in Seq(Messages) /\ DullAll(<<Msg(k, n)>>)
  BY <1>1, OneSaid
<1>3. cmds' \in [Chats -> Seq(Messages)]
  BY DEF AcpIInv, WiresTyped
<1>4. inq' = inq \/ inq' = inq \o <<Msg(k, n)>>
  BY DEF Tell
<1> QED
  BY <1>2, <1>3, <1>4, ThreadStep

LEMMA ThreadMovesStep ==
    ASSUME AcpIInv, NEW s \in Chats, ThreadMoves(s) \/ ForeignRunEnds(s)
    PROVE  AcpIInv'
<1>1. /\ run \in [Chats -> Nat] /\ run[s] \in Nat /\ next_request_id \in Nat
      /\ cmds \in [Chats -> Seq(Messages)]
  BY DEF AcpIInv, WiresTyped, BooksTyped
<1>2. CASE SessionCommand(s)
  BY <1>2, SessionCommandStep
<1>3. CASE \E r \in Ids : HandleCancel(s, r)
  <2>1. PICK r \in Ids : HandleCancel(s, r)
    BY <1>3
  <2>2. /\ UNCHANGED <<bridge, editor, outq, current, created, cmds, run>>
        /\ Tell(s, <<Msg("Cancelled", r)>>) \/ inq' = inq
    BY <2>1 DEF HandleCancel, connection
  <2>3. r \in Nat /\ "Cancelled" \in Terminal
    BY DEF Ids, Terminal
  <2> QED
    BY <1>1, <2>2, <2>3, ToldStep
<1>4. CASE RunReports(s)
  <2>1. /\ UNCHANGED <<bridge, editor, outq, current, created, cmds, run>>
        /\ \/ \E k \in {"Done", "Failed"} : Tell(s, <<Msg(k, run[s])>>)
           \/ inq' = inq
    BY <1>4 DEF RunReports, connection
  <2>2. PICK k \in Terminal : Tell(s, <<Msg(k, run[s])>>) \/ inq' = inq
    BY <2>1 DEF Terminal
  <2> QED
    BY <1>1, <2>1, <2>2, ToldStep
<1>5. CASE HandleRequestFinished(s)
  <2>1. /\ UNCHANGED <<bridge, editor, outq, current, created, cmds, inq>>
        /\ run' = [run EXCEPT ![s] = NoOne]
    BY <1>5 DEF HandleRequestFinished, connection
  <2>2. run' \in [Chats -> Nat]
    BY <1>1, <2>1 DEF NoOne
  <2> QED
    BY <1>1, <2>1, <2>2, NothingSaid, ThreadStep
<1>6. CASE ThreadGone(s)
  <2>1. /\ UNCHANGED <<bridge, editor, outq, current, created, run, inq>>
        /\ cmds' = [cmds EXCEPT ![s] = <<>>]
    BY <1>6 DEF ThreadGone
  <2>2. cmds' \in [Chats -> Seq(Messages)]
    BY <1>1, <2>1
  <2> QED
    BY <1>1, <2>1, <2>2, NothingSaid, ThreadStep
<1>7. CASE ForeignRunEnds(s)
  <2>1. PICK r \in 1 .. next_request_id - 1 : Tell(s, <<Msg("ForeignDone", r)>>)
    BY <1>7 DEF ForeignRunEnds
  <2>2. UNCHANGED <<bridge, editor, outq, current, created, cmds, run>>
    BY <1>7 DEF ForeignRunEnds, connection, threads
  <2>3. r \in Nat /\ "ForeignDone" \in Terminal
    BY <1>1 DEF Terminal
  <2> QED
    BY <1>1, <2>1, <2>2, <2>3, ToldStep
<1> QED
  BY <1>2, <1>3, <1>4, <1>5, <1>6, <1>7 DEF ThreadMoves

LEMMA ConnectionStep ==
    ASSUME AcpIInv, DaemonDies \/ WriterFails \/ Initialize \/ AcpEof
    PROVE  AcpIInv'
<1>1. /\ current' \in Nat /\ run' \in [Chats -> Nat] /\ cmds' \in [Chats -> Seq(Messages)]
      /\ UNCHANGED <<created, outq>> /\ inq \in Seq(Messages)
  BY DEF AcpIInv, WiresTyped, DaemonDies, WriterFails, Initialize, AcpEof, threads, connection
<1>2. /\ UNCHANGED <<models_pending, sync, deleting, prompts, mapped, active_request,
                     next_request_id, asked, answers, created>>
      /\ \/ phase' = phase
         \/ phase' \in {"eof", "error"}
         \/ phase = "new" /\ phase' = "ready"
  BY <1>1 DEF DaemonDies, WriterFails, Initialize, AcpEof, bridge, editor
<1>3. CASE DaemonDies
  <2>1. Msg("Disconnected", NoOne) \in Messages /\ Dull(Msg("Disconnected", NoOne))
    <3>1. "Disconnected" \in Kinds /\ NoOne \in Nat
      BY DEF Kinds, NoOne
    <3> QED
      BY <3>1, MsgTyped DEF Dull
  <2>2. inq' = inq \o <<Msg("Disconnected", NoOne)>>
    BY <1>1, <1>3, <2>1 DEF DaemonDies, Reply
  <2> QED
    BY <1>1, <1>2, <2>1, <2>2, OneSaid, IdleStep
<1>4. CASE WriterFails \/ Initialize \/ AcpEof
  <2>1. inq' = inq
    BY <1>4 DEF WriterFails, Initialize, AcpEof
  <2>2. inq' = inq \o <<>>
    BY <2>1, <1>1, NothingSaid
  <2> QED
    BY <1>1, <1>2, <2>2, NothingSaid, IdleStep
<1> QED
  BY <1>3, <1>4

-----------------------------------------------------------------------------
(* The connection thread *)

\* A message of the bridge is taken; r is the reply, if there is one.
LEMMA ServedStep ==
    ASSUME AcpIInv, Alive, outq # <<>>, outq' = Tail(outq), UNCHANGED <<bridge, editor>>,
           current' \in Nat, run' \in [Chats -> Nat], cmds' \in [Chats -> Seq(Messages)],
           \/ inq' = inq /\ UNCHANGED created /\ ~IsCreate(Head(outq))
           \/ \E m \in Messages :
                /\ inq' = inq \o <<m>>
                /\ IsCreate(m) <=> IsCreate(Head(outq))
                /\ IsModels(m) => IsModels(Head(outq))
                /\ m.kind = "SessionDeleteFailed" => m.n \in Chats
                /\ \/ m.kind # "SessionCreated" /\ UNCHANGED created
                   \/ m.kind = "SessionCreated" /\ m.n = created + 1 /\ created' = created + 1
    PROVE  AcpIInv'
<1> USE DEF AcpIInv
<1>1. UNCHANGED <<models_pending, sync, deleting, prompts, mapped, active_request,
                  next_request_id, asked, answers, phase>>
  BY DEF bridge, editor
<1>2. BooksTyped' /\ AnswersFit' /\ SlotsMatch' /\ GuardFits'
  <2>1. BooksTyped'
    BY <1>1 DEF BooksTyped
  <2>2. AnswersFit' /\ SlotsMatch'
    BY <1>1, BooksKept
  <2> QED
    BY <1>1, <2>1, <2>2 DEF GuardFits
<1>3. /\ inq \in Seq(Messages) /\ outq \in Seq(Messages) /\ created \in Nat
      /\ mapped \in SUBSET Nat
  BY DEF WiresTyped, BooksTyped
<1>4. /\ outq' \in Seq(Messages)
      /\ \A i \in 1 .. Len(outq') : outq'[i].kind = "DeleteSession" => outq'[i].n \in Chats
  BY <1>3, RestOfMessages DEF WiresTyped
<1>5. Alive' /\ Rounds(models_pending, sync["create"], inq, outq)
  BY <1>1 DEF Alive, RoundsInOrder
<1>6. CASE inq' = inq /\ UNCHANGED created /\ ~IsCreate(Head(outq))
  <2>1. WiresTyped'
    BY <1>4, <1>6 DEF WiresTyped
  <2>2. FreshSessions'
    BY <1>1, <1>6 DEF FreshSessions
  <2>3. Rounds(models_pending, sync["create"], inq, Tail(outq))
    BY <1>3, <1>5, <1>6, RoundsServedSilently
  <2> QED
    BY <2>1, <2>2, <2>3, <1>1, <1>2, <1>6 DEF RoundsInOrder
<1>7. CASE \E m \in Messages :
             /\ inq' = inq \o <<m>>
             /\ IsCreate(m) <=> IsCreate(Head(outq))
             /\ IsModels(m) => IsModels(Head(outq))
             /\ m.kind = "SessionDeleteFailed" => m.n \in Chats
             /\ \/ m.kind # "SessionCreated" /\ UNCHANGED created
                \/ m.kind = "SessionCreated" /\ m.n = created + 1 /\ created' = created + 1
  <2>1. PICK m \in Messages :
             /\ inq' = inq \o <<m>>
             /\ IsCreate(m) <=> IsCreate(Head(outq))
             /\ IsModels(m) => IsModels(Head(outq))
             /\ m.kind = "SessionDeleteFailed" => m.n \in Chats
             /\ \/ m.kind # "SessionCreated" /\ UNCHANGED created
                \/ m.kind = "SessionCreated" /\ m.n = created + 1 /\ created' = created + 1
    BY <1>7
  <2>2. /\ inq' \in Seq(Messages) /\ Len(inq') = Len(inq) + 1 /\ Len(inq) \in Nat
        /\ \A i \in 1 .. Len(inq) : inq'[i] = inq[i]
        /\ inq'[Len(inq) + 1] = m
    BY <1>3, <2>1
  <2>3. \A i \in 1 .. Len(inq') : i \in 1 .. Len(inq) \/ i = Len(inq) + 1
    BY <2>2
  <2>4. WiresTyped'
    <3>1. \A i \in 1 .. Len(inq') : inq'[i].kind = "SessionDeleteFailed" => inq'[i].n \in Chats
      BY <2>1, <2>2, <2>3 DEF WiresTyped
    <3>2. created' \in Nat
      BY <2>1, <1>3
    <3> QED
      BY <3>1, <3>2, <1>4, <2>2 DEF WiresTyped
  <2>5. FreshSessions'
    <3>1. CASE m.kind = "SessionCreated" /\ m.n = created + 1 /\ created' = created + 1
      <4>1. Fresh(inq \o <<m>>, mapped, prompts, active_request, created + 1)
        BY <3>1, <1>3, FreshCreated DEF FreshSessions
      <4> QED
        BY <4>1, <3>1, <2>1, <1>1 DEF FreshSessions
    <3>2. CASE m.kind # "SessionCreated" /\ UNCHANGED created
      <4>1. \A i \in 1 .. Len(inq') : inq'[i].kind = "SessionCreated" =>
              i \in 1 .. Len(inq) /\ inq'[i] = inq[i]
        BY <2>2, <2>3, <3>2
      <4>2. PICK in : in = inq'
        OBVIOUS
      <4>3. Fresh(in, mapped, prompts, active_request, created)
        BY <4>1, <4>2, SMTT(30) DEF FreshSessions, Fresh
      <4> QED
        BY <4>2, <4>3, <3>2, <1>1 DEF FreshSessions
    <3> QED
      BY <3>1, <3>2, <2>1
  <2>6. Rounds(models_pending, sync["create"], inq \o <<m>>, Tail(outq))
    BY <1>3, <1>5, <2>1, RoundsServed
  <2>7. RoundsInOrder'
    BY <2>6, <2>1, <1>1 DEF RoundsInOrder
  <2> QED
    BY <2>4, <2>5, <2>7, <1>2
<1> QED
  BY <1>6, <1>7

LEMMA CommandAdded ==
    ASSUME NEW f \in [Chats -> Seq(Messages)], NEW x, NEW m \in Messages,
           NEW g, g = [f EXCEPT ![x] = Append(@, m)]
    PROVE  g \in [Chats -> Seq(Messages)]
<1>1. \A s \in Chats : Append(f[s], m) \in Seq(Messages)
  OBVIOUS
<1>2. g = [s \in Chats |-> IF s = x THEN Append(f[s], m) ELSE f[s]]
  OBVIOUS
<1> QED
  BY <1>1, <1>2

LEMMA ServeStep ==
    ASSUME AcpIInv, Serve
    PROVE  AcpIInv'
<1>1. /\ Alive /\ outq # <<>> /\ outq' = Tail(outq) /\ UNCHANGED <<bridge, editor>>
  BY DEF Serve, Up
<1>2. PICK m : m = Head(outq)
  OBVIOUS
<1>3. /\ inq \in Seq(Messages) /\ outq \in Seq(Messages) /\ created \in Nat
      /\ cmds \in [Chats -> Seq(Messages)] /\ run \in [Chats -> Nat] /\ current \in Nat
  BY DEF AcpIInv, WiresTyped
<1>4. m \in Messages /\ m.n \in Nat /\ (m.kind = "DeleteSession" => m.n \in Chats)
  <2>1. m = outq[1] /\ m \in Messages /\ 1 \in 1 .. Len(outq)
    BY <1>1, <1>2, <1>3, RestOfMessages
  <2> QED
    BY <2>1 DEF AcpIInv, WiresTyped, Messages
<1>5. \/ ServeList(m) \/ ServeCreate(m) \/ ServeAttach(m) \/ ServeForward(m)
      \/ ServeCancel(m) \/ ServeDelete(m)
  BY <1>2 DEF Serve
<1>6. NoOne \in Nat
  BY DEF NoOne
<1> USE DEF IsCreate, IsModels
<1>7. CASE ServeList(m)
  <2>1. PICK k \in {"Sessions", "Models", "ModelsFailed"} :
          /\ inq' = Append(inq, Msg(k, NoOne))
          /\ m.kind \in {"ListSessions", "ListModels"}
          /\ k = "Models" => m.kind = "ListModels"
    BY <1>7 DEF ServeList, Reply
  <2>2. UNCHANGED <<created, current, run, cmds>>
    BY <1>7 DEF ServeList, connection, threads
  <2>3. PICK r : r = Msg(k, NoOne)
    OBVIOUS
  <2>4. r \in Messages /\ r.kind = k
    <3>1. k \in Kinds
      BY <2>1 DEF Kinds
    <3> QED
      BY <3>1, <1>6, <2>3, MsgTyped
  <2>5. inq' = inq \o <<r>>
    BY <1>3, <2>1, <2>3, <2>4
  <2> QED
    BY <1>1, <1>2, <1>3, <2>1, <2>2, <2>4, <2>5, ServedStep
<1>8. CASE ServeCreate(m)
  <2>1. /\ m.kind = "CreateSession" /\ created' = created + 1
        /\ inq' = Append(inq, Msg("SessionCreated", created + 1))
        /\ UNCHANGED <<current, run, cmds>>
    BY <1>8 DEF ServeCreate, Reply, threads
  <2>2. PICK r : r = Msg("SessionCreated", created + 1)
    OBVIOUS
  <2>3. r \in Messages /\ r.kind = "SessionCreated" /\ r.n = created + 1
    <3>1. "SessionCreated" \in Kinds /\ created + 1 \in Nat
      BY <1>3 DEF Kinds
    <3> QED
      BY <3>1, <2>2, MsgTyped
  <2>4. inq' = inq \o <<r>>
    BY <1>3, <2>1, <2>2, <2>3
  <2> QED
    BY <1>1, <1>2, <1>3, <2>1, <2>3, <2>4, ServedStep
<1>9. CASE ServeAttach(m)
  <2>1. m.kind = "AttachSession" /\ UNCHANGED <<created, run, inq>>
    BY <1>9 DEF ServeAttach
  <2>2. current' \in Nat /\ cmds' \in [Chats -> Seq(Messages)]
    <3>1. CASE m.n \in deleted
      BY <3>1, <1>9, <1>3 DEF ServeAttach
    <3>2. CASE m.n \notin deleted
      <4> DEFINE more(s) == CASE s = m.n -> <<Msg("Attach", NoOne)>>
                              [] s = current /\ s # m.n /\ ~stale -> <<Msg("Detach", NoOne)>>
                              [] OTHER -> <<>>
      <4>1. current' = m.n /\ cmds' = [s \in Chats |-> cmds[s] \o more(s)]
        BY <3>2, <1>9 DEF ServeAttach
      <4>2. {"Attach", "Detach"} \subseteq Kinds
        BY DEF Kinds
      <4>3. Msg("Attach", NoOne) \in Messages /\ Msg("Detach", NoOne) \in Messages
        BY <4>2, <1>6, MsgTyped
      <4>4. \A s \in Chats : more(s) \in Seq(Messages)
        <5> TAKE s \in Chats
        <5>1. CASE s = m.n
          BY <5>1, <4>3
        <5>2. CASE s = current /\ s # m.n /\ ~stale
          BY <5>2, <4>3
        <5>3. CASE s # m.n /\ ~(s = current /\ s # m.n /\ ~stale)
          BY <5>3
        <5> QED
          BY <5>1, <5>2, <5>3
      <4> HIDE DEF more
      <4>5. \A s \in Chats : cmds[s] \o more(s) \in Seq(Messages)
        BY <4>4, <1>3
      <4> QED
        BY <4>1, <4>5, <1>4
    <3> QED
      BY <3>1, <3>2
  <2> QED
    BY <1>1, <1>2, <1>3, <2>1, <2>2, ServedStep
<1>10. CASE ServeForward(m)
  <2>1. m.kind \in {"RunInput"} \cup Options /\ UNCHANGED <<created, current, run>>
    BY <1>10 DEF ServeForward, connection
  <2>2. ~IsCreate(m) /\ ~IsModels(m)
    BY <2>1 DEF Options
  <2>3. CASE current = NoOne
    <3>1. PICK r \in Messages : inq' = Append(inq, r) /\ Dull(r)
      <4>1. "Failed" \in Kinds
        BY DEF Kinds, Terminal
      <4>2. Msg("Failed", m.n) \in Messages /\ Dull(Msg("Failed", m.n))
        BY <4>1, <1>4, MsgTyped DEF Dull
      <4> QED
        BY <4>2, <1>10, <2>3, NotSetTyped DEF ServeForward, Reply
    <3>2. UNCHANGED cmds
      BY <1>10, <2>3 DEF ServeForward
    <3>3. inq' = inq \o <<r>>
      BY <3>1, <1>3
    <3> QED
      BY <1>1, <1>2, <1>3, <2>1, <2>2, <3>1, <3>2, <3>3, ServedStep DEF Dull
  <2>4. CASE current # NoOne
    <3>1. inq' = inq /\ Command(m)
      BY <1>10, <2>4 DEF ServeForward
    <3>2. cmds' = cmds \/ cmds' = [cmds EXCEPT ![current] = Append(@, m)]
      BY <3>1 DEF Command
    <3>3. cmds' \in [Chats -> Seq(Messages)]
      <4>1. CASE cmds' = cmds
        BY <4>1, <1>3
      <4>2. CASE cmds' = [cmds EXCEPT ![current] = Append(@, m)]
        BY <4>2, <1>3, <1>4, CommandAdded
      <4> QED
        BY <4>1, <4>2, <3>2
    <3> QED
      BY <1>1, <1>2, <1>3, <2>1, <2>2, <3>1, <3>3, ServedStep
  <2> QED
    BY <2>3, <2>4
<1>11. CASE ServeCancel(m)
  <2>1. m.kind = "Cancel" /\ UNCHANGED <<created, current, run, cmds, inq>>
    BY <1>11 DEF ServeCancel, connection
  <2> QED
    BY <1>1, <1>2, <1>3, <2>1, ServedStep
<1>12. CASE ServeDelete(m)
  <2>1. m.kind = "DeleteSession" /\ UNCHANGED <<created, current, run>>
    BY <1>12 DEF ServeDelete
  <2>2. CASE inq' = inq
    <3>1. \/ cmds' = cmds
          \/ cmds' = [cmds EXCEPT ![m.n] = Append(@, Msg("Shutdown", NoOne))]
      BY <1>12 DEF ServeDelete
    <3>2. Msg("Shutdown", NoOne) \in Messages
      <4>1. "Shutdown" \in Kinds
        BY DEF Kinds
      <4> QED
        BY <4>1, <1>6, MsgTyped
    <3>3. cmds' \in [Chats -> Seq(Messages)]
      <4>1. CASE cmds' = cmds
        BY <4>1, <1>3
      <4>2. CASE cmds' = [cmds EXCEPT ![m.n] = Append(@, Msg("Shutdown", NoOne))]
        BY <4>2, <1>3, <3>2, CommandAdded
      <4> QED
        BY <4>1, <4>2, <3>1
    <3> QED
      BY <1>1, <1>2, <1>3, <2>1, <2>2, <3>3, ServedStep
  <2>3. CASE inq' = Append(inq, Msg("SessionDeleteFailed", m.n)) /\ UNCHANGED cmds
    <3>1. PICK r : r = Msg("SessionDeleteFailed", m.n)
      OBVIOUS
    <3>2. r \in Messages /\ r.kind = "SessionDeleteFailed" /\ r.n \in Chats
      <4>1. "SessionDeleteFailed" \in Kinds
        BY DEF Kinds
      <4> QED
        BY <4>1, <3>1, <2>1, <1>4, MsgTyped
    <3>3. inq' = inq \o <<r>>
      BY <3>1, <3>2, <2>3, <1>3
    <3> QED
      BY <1>1, <1>2, <1>3, <2>1, <2>3, <3>2, <3>3, ServedStep
  <2> QED
    BY <2>2, <2>3, <1>12 DEF ServeDelete, Reply
<1> QED
  BY <1>5, <1>7, <1>8, <1>9, <1>10, <1>11, <1>12

-----------------------------------------------------------------------------
(* The editor *)

\* What a request of the editor does to the channels.
LEMMA SentWires ==
    ASSUME AcpIInv, NEW r \in Seq(Messages), DullAll(r), SendToDaemon(r),
           UNCHANGED <<inq, connection, threads, models_pending>>,
           sync'["create"] = sync["create"]
    PROVE  WiresTyped' /\ RoundsInOrder' /\ (phase' = phase \/ phase' = "error")
<1> USE DEF AcpIInv
<1>1. /\ current' \in Nat /\ run' \in [Chats -> Nat] /\ cmds' \in [Chats -> Seq(Messages)]
      /\ UNCHANGED created /\ inq \in Seq(Messages) /\ outq \in Seq(Messages)
  BY DEF WiresTyped, connection, threads
<1>2. CASE outq' = outq \o r /\ UNCHANGED phase
  <2>1. WiresTyped'
    BY <1>1, <1>2, TypedGrow
  <2>2. Alive' => Alive
    BY <1>2 DEF Alive
  <2>3. RoundsInOrder'
    BY <1>1, <1>2, <2>2, RoundsDull DEF RoundsInOrder
  <2> QED
    BY <1>2, <2>1, <2>3
<1>3. CASE phase' = "error" /\ UNCHANGED outq
  <2>1. WiresTyped'
    BY <1>1, <1>3 DEF WiresTyped
  <2> QED
    BY <2>1, <1>3 DEF RoundsInOrder, Alive
<1> QED
  BY <1>2, <1>3 DEF SendToDaemon

LEMMA AskedTyped ==
    ASSUME NEW k \in Slots \cup {"none", "delete", "prompt"}, NEW n \in Nat
    PROVE  /\ [slot |-> k, session |-> n] \in Asked
           /\ [slot |-> k, session |-> n].slot = k
           /\ [slot |-> k, session |-> n].session = n
BY DEF Asked

LEMMA ChatsAreNumbers == Chats \subseteq Nat /\ NoOne \in Nat
BY AcpBounds DEF Chats, NoOne

\* An answer on the spot, with what it does to the mapping and the guards.
LEMMA RefusedStep ==
    ASSUME AcpIInv, RespondAtOnce, UNCHANGED phase,
           mapped' \subseteq mapped, active_request' \in [Chats -> Nat],
           \A s \in Chats : active_request'[s] # NoOne => active_request[s] # NoOne,
           \A s \in mapped' : s \in Chats => active_request'[s] = active_request[s],
           next_request_id' \in Nat \ {0}
    PROVE  AcpIInv'
<1> USE DEF AcpIInv
<1>1. PICK a : a = [slot |-> "none", session |-> NoOne]
  OBVIOUS
<1>2. /\ asked' = Append(asked, a) /\ Len(asked) < MaxAsked /\ Respond({NewId})
      /\ UNCHANGED <<models_pending, sync, deleting, prompts, outq, inq, connection, threads>>
  BY <1>1 DEF RespondAtOnce, Asks
<1>3. a \in Asked
  BY <1>1, AskedTyped, ChatsAreNumbers
<1>4. AnswersFit' /\ SlotsMatch' /\ answers' \in [Ids -> Nat]
  BY <1>2, <1>3, BooksRefused
<1>5. BooksTyped'
  <2>1. asked' \in Seq(Asked) /\ Len(asked') <= MaxAsked
    BY <1>2, <1>3, AskedMore
  <2>2. mapped' \subseteq Nat
    BY DEF BooksTyped
  <2> QED
    BY <1>2, <1>4, <2>1, <2>2 DEF BooksTyped
<1>6. UNCHANGED <<current, created, run, cmds, inq, outq>>
  BY <1>2 DEF connection, threads
<1>7. WiresTyped'
  BY <1>6 DEF WiresTyped
<1>8. GuardFits'
  BY <1>2 DEF GuardFits
<1>9. FreshSessions'
  <2>1. Fresh(inq, mapped', prompts, active_request', created)
    BY FreshBooks DEF FreshSessions
  <2> QED
    BY <2>1, <1>2, <1>6 DEF FreshSessions
<1>10. RoundsInOrder'
  BY <1>2 DEF RoundsInOrder, Alive
<1> QED
  BY <1>4, <1>5, <1>7, <1>8, <1>9, <1>10

LEMMA RefuseSteps ==
    ASSUME AcpIInv, Refuse \/ \E s \in Chats : CloseSession(s) \/ PromptBusy(s)
    PROVE  AcpIInv'
<1>1. /\ mapped \subseteq Nat /\ active_request \in [Chats -> Nat]
      /\ next_request_id \in Nat \ {0}
  BY DEF AcpIInv, BooksTyped
<1>2. CASE Refuse
  BY <1>1, <1>2, RefusedStep DEF Refuse
<1>3. ASSUME NEW s \in Chats, CloseSession(s)
      PROVE  AcpIInv'
  <2>1. /\ RespondAtOnce /\ UNCHANGED <<phase, next_request_id>>
        /\ mapped' = mapped \ {s}
        /\ active_request' = [active_request EXCEPT ![s] = NoOne]
    BY <1>3 DEF CloseSession
  <2>2. /\ active_request' \in [Chats -> Nat]
        /\ \A x \in Chats : active_request'[x] # NoOne => active_request[x] # NoOne
        /\ \A x \in mapped' : x \in Chats => active_request'[x] = active_request[x]
    BY <1>1, <2>1, ChatsAreNumbers
  <2> QED
    BY <1>1, <2>1, <2>2, RefusedStep
<1>4. ASSUME NEW s \in Chats, PromptBusy(s)
      PROVE  AcpIInv'
  <2>1. /\ RespondAtOnce /\ UNCHANGED <<phase, mapped, active_request>>
        /\ next_request_id' = next_request_id + 1
    BY <1>4 DEF PromptBusy
  <2>2. next_request_id' \in Nat \ {0}
    BY <1>1, <2>1
  <2> QED
    BY <1>1, <2>1, <2>2, RefusedStep
<1> QED
  BY <1>2, <1>3, <1>4

\* What kind of request is in which slot.
LEMMA KindOfSlot ==
    ASSUME SlotsMatch, NEW i \in 1 .. Len(asked), i # NoOne
    PROVE  /\ i = models_pending => asked[i].slot = "create"
           /\ \A k \in Slots : i = sync[k] => asked[i].slot = k
           /\ \A s \in Chats : i = deleting[s] =>
                asked[i].slot = "delete" /\ asked[i].session = s
           /\ \A s \in Chats : i = prompts[s].id =>
                asked[i].slot = "prompt" /\ asked[i].session = s
<1>1. ASSUME NEW k \in Slots \cup {"none", "delete", "prompt"}, NEW n \in Nat, IsAsked(i, k, n)
      PROVE  asked[i].slot = k /\ asked[i].session = n
  <2>1. asked[i] = [slot |-> k, session |-> n]
    BY <1>1 DEF IsAsked
  <2> QED
    BY <2>1, AskedTyped
<1>2. i = models_pending => asked[i].slot = "create"
  <2>1. i = models_pending => IsAsked(i, "create", NoOne)
    BY DEF SlotsMatch
  <2>2. "create" \in Slots
    BY DEF Slots
  <2> QED
    BY <2>1, <2>2, <1>1, ChatsAreNumbers
<1>3. ASSUME NEW k \in Slots, i = sync[k]
      PROVE  asked[i].slot = k
  <2>1. IsAsked(i, k, NoOne)
    BY <1>3 DEF SlotsMatch
  <2> QED
    BY <2>1, <1>1, ChatsAreNumbers
<1>4. ASSUME NEW s \in Chats, i = deleting[s]
      PROVE  asked[i].slot = "delete" /\ asked[i].session = s
  <2>1. IsAsked(i, "delete", s)
    BY <1>4 DEF SlotsMatch
  <2> QED
    BY <2>1, <1>1, ChatsAreNumbers
<1>5. ASSUME NEW s \in Chats, i = prompts[s].id
      PROVE  asked[i].slot = "prompt" /\ asked[i].session = s
  <2>1. IsAsked(i, "prompt", s)
    BY <1>5 DEF SlotsMatch
  <2> QED
    BY <2>1, <1>1, ChatsAreNumbers
<1> QED
  BY <1>2, <1>3, <1>4, <1>5

\* session/list and the options: the slot of the kind is taken over.
LEMMA SyncAskedStep ==
    ASSUME AcpIInv, NEW k \in {"list"} \cup Options, NEW r \in Seq(Messages), DullAll(r),
           Dispatch(k, NoOne, r), sync' = [sync EXCEPT ![k] = NewId],
           UNCHANGED <<models_pending, deleting, prompts, active_request, next_request_id>>
    PROVE  AcpIInv'
<1> USE DEF AcpIInv
<1>1. PICK a : a = [slot |-> k, session |-> NoOne]
  OBVIOUS
<1>2. PICK old : old = sync[k]
  OBVIOUS
<1>3. PICK n : n = Len(asked) + 1
  OBVIOUS
<1>4. /\ asked' = Append(asked, a) /\ Len(asked) < MaxAsked /\ SendToDaemon(r)
      /\ UNCHANGED <<answers, mapped, inq, connection, threads>>
  BY <1>1 DEF Dispatch, Asks
<1>5. k \in Slots /\ k # "create"
  BY DEF Slots, Options
<1>6. a \in Asked /\ a.slot = k /\ a.session = NoOne
  BY <1>1, <1>5, AskedTyped, ChatsAreNumbers
<1>7. /\ asked' \in Seq(Asked) /\ Len(asked') = n /\ Len(asked') <= MaxAsked
      /\ \A i \in 1 .. Len(asked) : asked'[i] = asked[i] /\ i \in 1 .. Len(asked')
      /\ asked'[n] = a /\ NewId = n /\ Len(asked) \in Nat
  BY <1>3, <1>4, <1>6, AskedMore
<1>8. /\ sync \in [Slots -> Nat] /\ sync' \in [Slots -> Nat] /\ sync'[k] = n
      /\ \A j \in Slots : j # k => sync'[j] = sync[j]
      /\ old \in Nat
  BY <1>2, <1>3, <1>5, <1>7 DEF BooksTyped
<1>9. WiresTyped' /\ RoundsInOrder' /\ (phase' = phase \/ phase' = "error")
  BY <1>4, <1>5, <1>8, SentWires DEF Slots
<1>10. BooksTyped'
  BY <1>4, <1>7, <1>8, <1>9 DEF BooksTyped
<1>11. SlotsMatch'
  <2>1. \A j \in Slots : sync'[j] # NoOne => IsAsked(sync[j], j, NoOne) \/ j = k
    BY <1>8 DEF SlotsMatch
  <2>2. \A i \in 1 .. Len(asked) : asked'[i] = asked[i] /\ i \in 1 .. Len(asked')
    BY <1>7
  <2>3. n \in 1 .. Len(asked') /\ asked'[n] = [slot |-> k, session |-> NoOne]
    BY <1>1, <1>3, <1>7
  <2>4. sync'["create"] = sync["create"]
    BY <1>5, <1>8 DEF Slots
  <2> QED
    BY <1>8, <2>1, <2>2, <2>3, <2>4 DEF SlotsMatch, IsAsked
<1>12. old # NoOne => /\ old \in 1 .. Len(asked) /\ asked[old] = a
                      /\ a.slot \in {"list", "delete"} \cup Options
  BY <1>1, <1>2, <1>5, <1>6 DEF SlotsMatch, IsAsked
<1>13. Tracked(n)'
  BY <1>5, <1>8 DEF Tracked
<1>14. ASSUME NEW i \in 1 .. Len(asked)
       PROVE  Tracked(i)' <=> Tracked(i) /\ i # old
  <2>1. i # n /\ i # NoOne
    BY <1>3, <1>7 DEF NoOne
  <2>2. Tracked(i) /\ i # old => Tracked(i)'
    BY <1>2, <1>8 DEF Tracked
  <2>3. Tracked(i)' => Tracked(i)
    BY <1>8, <2>1 DEF Tracked
  <2>4. ASSUME i = old
        PROVE  ~Tracked(i)'
    <3>1. asked[i].slot = k
      BY <2>1, <2>4, <1>6, <1>12
    <3>2. i # models_pending
      BY <3>1, <2>1, <1>5, KindOfSlot
    <3>3. \A j \in Slots : i # sync'[j]
      <4> TAKE j \in Slots
      <4>1. CASE j = k
        BY <4>1, <2>1, <1>8
      <4>2. CASE j # k
        BY <4>2, <3>1, <2>1, <1>8, KindOfSlot
      <4> QED
        BY <4>1, <4>2
    <3>4. \A s \in Chats : i # deleting[s] /\ i # prompts[s].id
      <4> TAKE s \in Chats
      <4>1. k # "delete" /\ k # "prompt" /\ s \in Nat
        BY ChatsAreNumbers DEF Options
      <4> QED
        BY <4>1, <3>1, <2>1, KindOfSlot
    <3> QED
      BY <3>2, <3>3, <3>4 DEF Tracked
  <2> QED
    BY <2>2, <2>3, <2>4
<1>15. AnswersFit'
  BY <1>3, <1>4, <1>6, <1>8, <1>9, <1>12, <1>13, <1>14, BooksTracked
<1>16. GuardFits'
  BY <1>4 DEF GuardFits
<1>17. FreshSessions'
  BY <1>4 DEF FreshSessions, connection
<1> QED
  BY <1>9, <1>10, <1>11, <1>15, <1>16, <1>17

LEMMA OneDull ==
    ASSUME NEW m \in Messages, Dull(m)
    PROVE  <<m>> \in Seq(Messages) /\ DullAll(<<m>>)
<1>1. <<m>> \in Seq(Messages) /\ Len(<<m>>) = 1 /\ <<m>>[1] = m
  OBVIOUS
<1>2. \A i \in 1 .. 1 : i = 1
  OBVIOUS
<1> QED
  BY <1>1, <1>2 DEF DullAll

LEMMA SyncAskedSteps ==
    ASSUME AcpIInv, ListSessions \/ \E s \in Chats : \E k \in Options : SetConfigOption(k, s)
    PROVE  AcpIInv'
<1>1. CASE ListSessions
  <2>1. PICK m : m = Msg("ListSessions", NoOne)
    OBVIOUS
  <2>2. m \in Messages /\ Dull(m)
    BY <2>1, ChatsAreNumbers DEF Messages, Msg, Kinds, Dull
  <2> QED
    BY <1>1, <2>1, <2>2, OneDull, SyncAskedStep DEF ListSessions
<1>2. ASSUME NEW s \in Chats, NEW k \in Options, SetConfigOption(k, s)
      PROVE  AcpIInv'
  <2>1. PICK m : m = Msg(k, s)
    OBVIOUS
  <2>2. m \in Messages /\ Dull(m)
    BY <2>1, ChatsAreNumbers DEF Messages, Msg, Kinds, Dull, Options
  <2> QED
    BY <1>2, <2>1, <2>2, OneDull, SyncAskedStep DEF SetConfigOption
<1> QED
  BY <1>1, <1>2

\* session/cancel
LEMMA EditorCancelStep ==
    ASSUME AcpIInv, NEW s \in Chats, Cancel(s)
    PROVE  AcpIInv'
<1>1. PICK m : m = Msg("Cancel", prompts[s].req)
  OBVIOUS
<1>2. prompts[s].req \in Nat
  BY DEF AcpIInv, BooksTyped
<1>3. m \in Messages /\ Dull(m)
  BY <1>1, <1>2 DEF Messages, Msg, Kinds, Dull
<1>4. /\ UNCHANGED <<models_pending, sync, deleting, prompts, mapped, active_request,
                     next_request_id, connection, threads, inq, asked, answers>>
      /\ SendToDaemon(<<m>>)
  BY <1>1 DEF Cancel
<1>5. /\ UNCHANGED created /\ current' \in Nat /\ run' \in [Chats -> Nat]
      /\ cmds' \in [Chats -> Seq(Messages)]
  BY <1>4 DEF AcpIInv, WiresTyped, connection, threads
<1>6. CASE outq' = outq \o <<m>> /\ UNCHANGED phase
  BY <1>3, <1>4, <1>5, <1>6, OneDull, IdleStep
<1>7. CASE phase' = "error" /\ UNCHANGED outq
  <2>1. outq \o <<>> = outq /\ <<>> \in Seq(Messages) /\ DullAll(<<>>)
    BY DEF AcpIInv, WiresTyped, DullAll
  <2> QED
    BY <1>4, <1>5, <1>7, <2>1, IdleStep
<1> QED
  BY <1>4, <1>6, <1>7 DEF SendToDaemon

\* session/delete: the slot of the session is taken over.
LEMMA DeleteAskedStep ==
    ASSUME AcpIInv, NEW s \in Chats, DeleteSession(s)
    PROVE  AcpIInv'
<1> USE DEF AcpIInv
<1>1. PICK a : a = [slot |-> "delete", session |-> s]
  OBVIOUS
<1>2. PICK old : old = deleting[s]
  OBVIOUS
<1>3. PICK n : n = Len(asked) + 1
  OBVIOUS
<1> DEFINE m == Msg("DeleteSession", s)
<1>4. /\ asked' = Append(asked, a) /\ Len(asked) < MaxAsked /\ SendToDaemon(<<m>>)
      /\ deleting' = [deleting EXCEPT ![s] = NewId]
      /\ UNCHANGED <<answers, mapped, inq, connection, threads, models_pending, sync,
                     prompts, active_request, next_request_id>>
  BY <1>1 DEF DeleteSession, Dispatch, Asks
<1>5. m \in Messages /\ Dull(m)
  BY ChatsAreNumbers DEF Messages, Msg, Kinds, Dull
<1>6. a \in Asked /\ a.slot = "delete" /\ a.session = s
  BY <1>1, AskedTyped, ChatsAreNumbers
<1>7. /\ asked' \in Seq(Asked) /\ Len(asked') = n /\ Len(asked') <= MaxAsked
      /\ \A i \in 1 .. Len(asked) : asked'[i] = asked[i] /\ i \in 1 .. Len(asked')
      /\ asked'[n] = a /\ NewId = n /\ Len(asked) \in Nat
  BY <1>3, <1>4, <1>6, AskedMore
<1>8. /\ deleting \in [Chats -> Nat] /\ deleting' \in [Chats -> Nat] /\ deleting'[s] = n
      /\ \A x \in Chats : x # s => deleting'[x] = deleting[x]
      /\ old \in Nat
  BY <1>2, <1>3, <1>4, <1>7 DEF BooksTyped
<1>9. WiresTyped' /\ RoundsInOrder' /\ (phase' = phase \/ phase' = "error")
  <2>1. <<m>> \in Seq(Messages) /\ DullAll(<<m>>)
    BY <1>5, OneDull
  <2> HIDE DEF m
  <2> QED
    BY <1>4, <2>1, SentWires
<1>10. BooksTyped'
  BY <1>4, <1>7, <1>8, <1>9 DEF BooksTyped
<1>11. SlotsMatch'
  <2>1. \A x \in Chats : deleting'[x] # NoOne => IsAsked(deleting[x], "delete", x) \/ x = s
    BY <1>8 DEF SlotsMatch
  <2>2. n \in 1 .. Len(asked') /\ asked'[n] = [slot |-> "delete", session |-> s]
    BY <1>1, <1>3, <1>7
  <2>3. \A x \in Chats : deleting'[x] # NoOne => IsAsked(deleting[x], "delete", x)'
    BY <1>7, <1>8, <2>1, <2>2 DEF IsAsked
  <2>4. \A i, k, x : IsAsked(i, k, x) => i \in 1 .. Len(asked') /\ asked'[i] = [slot |-> k, session |-> x]
    BY <1>7 DEF IsAsked
  <2> QED
    BY <1>4, <2>3, <2>4 DEF SlotsMatch, IsAsked
<1>12. old # NoOne => /\ old \in 1 .. Len(asked) /\ asked[old] = a
                      /\ a.slot \in {"list", "delete"} \cup Options
  BY <1>1, <1>2, <1>6 DEF SlotsMatch, IsAsked
<1>13. Tracked(n)'
  BY <1>8 DEF Tracked
<1>14. ASSUME NEW i \in 1 .. Len(asked)
       PROVE  Tracked(i)' <=> Tracked(i) /\ i # old
  <2>1. i # n /\ i # NoOne
    BY <1>3, <1>7 DEF NoOne
  <2>2. Tracked(i) /\ i # old => Tracked(i)'
    BY <1>2, <1>4, <1>8 DEF Tracked
  <2>3. Tracked(i)' => Tracked(i)
    BY <1>4, <1>8, <2>1 DEF Tracked
  <2>4. ASSUME i = old
        PROVE  ~Tracked(i)'
    <3>1. asked[i].slot = "delete" /\ asked[i].session = s
      BY <2>1, <2>4, <1>6, <1>12
    <3>2. i # models_pending /\ \A k \in Slots : i # sync[k]
      BY <3>1, <2>1, KindOfSlot DEF Slots, Options
    <3>3. \A x \in Chats : i # deleting'[x] /\ i # prompts[x].id
      BY <3>1, <2>1, <1>8, KindOfSlot
    <3> QED
      BY <3>2, <3>3, <1>4 DEF Tracked
  <2> QED
    BY <2>2, <2>3, <2>4
<1>15. AnswersFit'
  BY <1>3, <1>4, <1>6, <1>8, <1>9, <1>12, <1>13, <1>14, BooksTracked
<1>16. GuardFits'
  BY <1>4 DEF GuardFits
<1>17. FreshSessions'
  BY <1>4 DEF FreshSessions, connection
<1> QED
  BY <1>9, <1>10, <1>11, <1>15, <1>16, <1>17

\* session/prompt: the guard is free, so the session has no prompt.
LEMMA PromptAskedStep ==
    ASSUME AcpIInv, NEW s \in Chats, Prompt(s)
    PROVE  AcpIInv'
<1> USE DEF AcpIInv
<1>1. PICK a : a = [slot |-> "prompt", session |-> s]
  OBVIOUS
<1>2. PICK q : q = next_request_id
  OBVIOUS
<1>3. PICK n : n = Len(asked) + 1
  OBVIOUS
<1>4. PICK ms : ms = PromptMessages(s, q)
  OBVIOUS
<1>5. /\ asked' = Append(asked, a) /\ Len(asked) < MaxAsked /\ SendToDaemon(ms)
      /\ active_request' = [active_request EXCEPT ![s] = q]
      /\ prompts' = [prompts EXCEPT ![s] = [id |-> NewId, req |-> q]]
      /\ next_request_id' = q + 1
      /\ s \in mapped /\ active_request[s] = NoOne
      /\ UNCHANGED <<answers, mapped, inq, connection, threads, models_pending, sync, deleting>>
  BY <1>1, <1>2, <1>4 DEF Prompt, Dispatch, Asks, Busy
<1>6. q \in Nat \ {0} /\ q + 1 \in Nat \ {0} /\ s \in Nat
  BY <1>2, ChatsAreNumbers DEF BooksTyped
<1>7. ms \in Seq(Messages) /\ DullAll(ms)
  <2>1. PICK m1 : m1 = Msg("AttachSession", s)
    OBVIOUS
  <2>2. PICK m2 : m2 = Msg("RunInput", q)
    OBVIOUS
  <2>3. m1 \in Messages /\ Dull(m1) /\ m2 \in Messages /\ Dull(m2)
    BY <1>6, <2>1, <2>2 DEF Messages, Msg, Kinds, Dull
  <2>4. ms = <<m1, m2>>
    BY <1>4, <2>1, <2>2 DEF PromptMessages
  <2>5. ms \in Seq(Messages) /\ Len(ms) = 2 /\ ms[1] = m1 /\ ms[2] = m2
    BY <2>3, <2>4
  <2>6. \A i \in 1 .. 2 : i = 1 \/ i = 2
    OBVIOUS
  <2> QED
    BY <2>3, <2>5, <2>6 DEF DullAll
<1>8. a \in Asked
  BY <1>1, <1>6, AskedTyped
<1>9. /\ asked' \in Seq(Asked) /\ Len(asked') = n /\ Len(asked') <= MaxAsked
      /\ \A i \in 1 .. Len(asked) : asked'[i] = asked[i] /\ i \in 1 .. Len(asked')
      /\ asked'[n] = a /\ NewId = n /\ Len(asked) \in Nat
  BY <1>3, <1>5, <1>8, AskedMore
<1>10. n \in Nat \ {0} /\ NoOne \notin {n, q}
  BY <1>3, <1>6, <1>9 DEF NoOne
<1>11. /\ prompts \in [Chats -> [id : Nat, req : Nat]]
       /\ prompts' = [prompts EXCEPT ![s] = [id |-> n, req |-> q]]
       /\ active_request \in [Chats -> Nat]
  BY <1>5, <1>9 DEF BooksTyped
<1>12. /\ prompts' \in [Chats -> [id : Nat, req : Nat]]
       /\ prompts'[s].id = n /\ prompts'[s].req = q
       /\ \A x \in Chats : x # s => prompts'[x] = prompts[x]
       /\ active_request' \in [Chats -> Nat] /\ active_request'[s] = q
       /\ \A x \in Chats : x # s => active_request'[x] = active_request[x]
  BY <1>5, <1>6, <1>10, <1>11
<1>13. prompts[s].id = NoOne
  BY <1>5 DEF GuardFits
<1>14. WiresTyped' /\ RoundsInOrder' /\ (phase' = phase \/ phase' = "error")
  BY <1>5, <1>7, SentWires
<1>15. BooksTyped'
  BY <1>5, <1>6, <1>9, <1>12, <1>14 DEF BooksTyped
<1>16. SlotsMatch'
  <2>1. \A x \in Chats : prompts'[x].id # NoOne => IsAsked(prompts[x].id, "prompt", x) \/ x = s
    BY <1>12 DEF SlotsMatch
  <2>2. n \in 1 .. Len(asked') /\ asked'[n] = [slot |-> "prompt", session |-> s]
    BY <1>1, <1>3, <1>9
  <2>3. \A x \in Chats : prompts'[x].id # NoOne => IsAsked(prompts[x].id, "prompt", x)'
    BY <1>9, <1>12, <2>1, <2>2, SMTT(30) DEF IsAsked
  <2>4. \A i, k, x : IsAsked(i, k, x) => i \in 1 .. Len(asked') /\ asked'[i] = [slot |-> k, session |-> x]
    BY <1>9 DEF IsAsked
  <2> QED
    BY <1>5, <2>3, <2>4 DEF SlotsMatch, IsAsked
<1>17. Tracked(n)'
  BY <1>12 DEF Tracked
<1>18. ASSUME NEW i \in 1 .. Len(asked)
       PROVE  Tracked(i)' <=> Tracked(i) /\ i # NoOne
  <2>1. i # n /\ i # NoOne
    BY <1>3, <1>9 DEF NoOne
  <2> QED
    BY <1>5, <1>12, <1>13, <2>1 DEF Tracked
<1>19. AnswersFit'
  BY <1>3, <1>5, <1>8, <1>14, <1>17, <1>18, BooksTracked, ChatsAreNumbers
<1>20. GuardFits'
  BY <1>5, <1>10, <1>12 DEF GuardFits
<1>21. FreshSessions'
  <2>1. PICK w : w = prompts'
    OBVIOUS
  <2>2. PICK g : g = active_request'
    OBVIOUS
  <2>3. \A x \in Chats : /\ w[x].id # NoOne => prompts[x].id # NoOne \/ x \in mapped
                         /\ g[x] # NoOne => active_request[x] # NoOne \/ x \in mapped
    BY <2>1, <2>2, <1>5, <1>12
  <2>4. Fresh(inq, mapped, w, g, created)
    BY <2>3, FreshBooks DEF FreshSessions
  <2> QED
    BY <2>1, <2>2, <2>4, <1>5 DEF FreshSessions, connection
<1> QED
  BY <1>14, <1>15, <1>16, <1>19, <1>20, <1>21

\* session/new: ListModels goes out only while no other waits for Models.
LEMMA NewSessionStep ==
    ASSUME AcpIInv, NewSession
    PROVE  AcpIInv'
<1> USE DEF AcpIInv
<1>1. PICK a : a = [slot |-> "create", session |-> NoOne]
  OBVIOUS
<1>2. PICK m : m = Msg("ListModels", NoOne)
  OBVIOUS
<1>3. PICK n : n = Len(asked) + 1
  OBVIOUS
<1>4. /\ asked' = Append(asked, a) /\ Len(asked) < MaxAsked /\ SendToDaemon(<<m>>)
      /\ models_pending = NoOne /\ models_pending' = NewId /\ phase = "ready"
      /\ UNCHANGED <<answers, mapped, inq, connection, threads, sync, deleting, prompts,
                     active_request, next_request_id>>
  BY <1>1, <1>2 DEF NewSession, Dispatch, Asks, CreationInProgress
<1>5. m \in Messages /\ m.kind = "ListModels"
  BY <1>2, ChatsAreNumbers DEF Messages, Msg, Kinds
<1>6. a \in Asked
  BY <1>1, AskedTyped, ChatsAreNumbers DEF Slots
<1>7. /\ asked' \in Seq(Asked) /\ Len(asked') = n /\ Len(asked') <= MaxAsked
      /\ \A i \in 1 .. Len(asked) : asked'[i] = asked[i] /\ i \in 1 .. Len(asked')
      /\ asked'[n] = a /\ NewId = n /\ Len(asked) \in Nat
  BY <1>3, <1>4, <1>6, AskedMore
<1>8. n \in Nat \ {0} /\ NoOne # n /\ models_pending' = n
  BY <1>3, <1>4, <1>7 DEF NoOne
<1>9. /\ outq \in Seq(Messages) /\ inq \in Seq(Messages)
      /\ UNCHANGED <<created, current, run, cmds, inq>>
  BY <1>4 DEF WiresTyped, connection, threads
<1>10. WiresTyped' /\ RoundsInOrder' /\ (phase' = phase \/ phase' = "error")
  <2>1. CASE outq' = outq \o <<m>> /\ UNCHANGED phase
    <3>1. \A i \in 1 .. Len(outq') : outq'[i].kind = "DeleteSession" => outq'[i].n \in Chats
      <4>1. /\ Len(outq') = Len(outq) + 1 /\ Len(outq) \in Nat /\ outq'[Len(outq) + 1] = m
            /\ \A i \in 1 .. Len(outq) : outq'[i] = outq[i]
        BY <2>1, <1>5, <1>9
      <4>2. \A i \in 1 .. Len(outq') : i \in 1 .. Len(outq) \/ i = Len(outq) + 1
        BY <4>1
      <4> QED
        BY <4>1, <4>2, <1>5 DEF WiresTyped
    <3>2. outq' \in Seq(Messages)
      BY <2>1, <1>5, <1>9
    <3>3. WiresTyped'
      BY <3>1, <3>2, <1>9 DEF WiresTyped
    <3>4. Rounds(NoOne, sync["create"], inq, outq)
      BY <1>4 DEF RoundsInOrder, Alive
    <3>5. Rounds(n, sync["create"], inq, outq \o <<m>>)
      BY <3>4, <1>5, <1>8, <1>9, RoundsBegin
    <3>6. RoundsInOrder'
      BY <3>5, <2>1, <1>4, <1>8 DEF RoundsInOrder
    <3> QED
      BY <2>1, <3>3, <3>6
  <2>2. CASE phase' = "error" /\ UNCHANGED outq
    BY <1>9, <2>2 DEF WiresTyped, RoundsInOrder, Alive
  <2> QED
    BY <1>4, <2>1, <2>2 DEF SendToDaemon
<1>11. BooksTyped'
  BY <1>4, <1>7, <1>8, <1>10 DEF BooksTyped
<1>12. SlotsMatch'
  <2>1. n \in 1 .. Len(asked') /\ asked'[n] = [slot |-> "create", session |-> NoOne]
    BY <1>1, <1>3, <1>7
  <2>2. \A i, k, x : IsAsked(i, k, x) => i \in 1 .. Len(asked') /\ asked'[i] = [slot |-> k, session |-> x]
    BY <1>7 DEF IsAsked
  <2>3. "create" \in Slots
    BY DEF Slots
  <2>4. n # sync["create"]
    BY <1>3, <1>7, <1>8, <2>3 DEF SlotsMatch, IsAsked
  <2> QED
    BY <1>4, <1>8, <2>1, <2>2, <2>4 DEF SlotsMatch, IsAsked
<1>13. Tracked(n)'
  BY <1>8 DEF Tracked
<1>14. ASSUME NEW i \in 1 .. Len(asked)
       PROVE  Tracked(i)' <=> Tracked(i) /\ i # NoOne
  <2>1. i # n /\ i # NoOne
    BY <1>3, <1>7 DEF NoOne
  <2> QED
    BY <1>4, <1>8, <2>1 DEF Tracked
<1>15. AnswersFit'
  BY <1>3, <1>4, <1>6, <1>10, <1>13, <1>14, BooksTracked, ChatsAreNumbers
<1>16. GuardFits'
  BY <1>4 DEF GuardFits
<1>17. FreshSessions'
  BY <1>4 DEF FreshSessions, connection
<1> QED
  BY <1>10, <1>11, <1>12, <1>15, <1>16, <1>17

LEMMA EditorStep ==
    ASSUME AcpIInv, EditorMoves
    PROVE  AcpIInv'
BY ConnectionStep, RefuseSteps, NewSessionStep, SyncAskedSteps, DeleteAskedStep,
   PromptAskedStep, EditorCancelStep DEF EditorMoves

-----------------------------------------------------------------------------
(* The loop takes a message of the daemon *)

\* What every handler finds; m is the message.
LEMMA Taken ==
    ASSUME AcpIInv, NEW kind, Take(kind)
    PROVE  /\ inq \in Seq(Messages) /\ outq \in Seq(Messages) /\ inq # <<>>
           /\ inq' = Tail(inq) /\ Head(inq) \in Messages /\ Head(inq).kind = kind
           /\ kind = "SessionDeleteFailed" => Head(inq).n \in Chats
           /\ UNCHANGED <<asked, created, current, run, cmds>>
           /\ Alive /\ phase \in {"new", "ready", "lost"}
           /\ Fresh(Tail(inq), mapped, prompts, active_request, created)
           /\ Rounds(models_pending, sync["create"], inq, outq)
<1> USE DEF AcpIInv
<1>1. /\ inq \in Seq(Messages) /\ outq \in Seq(Messages) /\ inq # <<>>
      /\ inq' = Tail(inq) /\ Head(inq).kind = kind
      /\ UNCHANGED <<asked, created, current, run, cmds>>
      /\ Alive /\ phase \in {"new", "ready", "lost"}
  BY DEF Take, WiresTyped, Alive, connection, threads
<1>2. Head(inq) \in Messages /\ Head(inq) = inq[1] /\ 1 \in 1 .. Len(inq)
  BY <1>1, RestOfMessages
<1>3. Fresh(Tail(inq), mapped, prompts, active_request, created)
  BY <1>1, FreshTaken DEF FreshSessions
<1>4. kind = "SessionDeleteFailed" => Head(inq).n \in Chats
  BY <1>1, <1>2 DEF WiresTyped
<1> QED
  BY <1>1, <1>2, <1>3, <1>4 DEF RoundsInOrder

\* What is sent is not a deletion.
LEMMA TakenWires ==
    ASSUME AcpIInv, NEW kind, Take(kind),
           \/ UNCHANGED outq
           \/ \E m \in Messages : outq' = outq \o <<m>> /\ m.kind # "DeleteSession"
    PROVE  WiresTyped'
<1> USE DEF AcpIInv
<1>1. /\ inq \in Seq(Messages) /\ outq \in Seq(Messages) /\ inq # <<>> /\ inq' = Tail(inq)
      /\ UNCHANGED <<asked, created, current, run, cmds>>
  BY Taken
<1>2. /\ inq' \in Seq(Messages) /\ Len(inq') = Len(inq) - 1 /\ Len(inq) \in Nat
      /\ \A i \in 1 .. Len(inq) - 1 : inq'[i] = inq[i + 1]
  BY <1>1, RestOfMessages
<1>3. \A i \in 1 .. Len(inq') : i + 1 \in 1 .. Len(inq) /\ inq'[i] = inq[i + 1]
  BY <1>2
<1>4. \A i \in 1 .. Len(inq') : inq'[i].kind = "SessionDeleteFailed" => inq'[i].n \in Chats
  BY <1>3 DEF WiresTyped
<1>5. /\ outq' \in Seq(Messages)
      /\ \A i \in 1 .. Len(outq') : outq'[i].kind = "DeleteSession" => outq'[i].n \in Chats
  <2>1. CASE UNCHANGED outq
    BY <2>1, <1>1 DEF WiresTyped
  <2>2. ASSUME NEW m \in Messages, outq' = outq \o <<m>>, m.kind # "DeleteSession"
        PROVE  /\ outq' \in Seq(Messages)
               /\ \A i \in 1 .. Len(outq') : outq'[i].kind = "DeleteSession" => outq'[i].n \in Chats
    <3>1. /\ Len(outq') = Len(outq) + 1 /\ Len(outq) \in Nat /\ outq'[Len(outq) + 1] = m
          /\ \A i \in 1 .. Len(outq) : outq'[i] = outq[i]
          /\ outq' \in Seq(Messages)
      BY <2>2, <1>1
    <3>2. \A i \in 1 .. Len(outq') : i \in 1 .. Len(outq) \/ i = Len(outq) + 1
      BY <3>1
    <3> QED
      BY <3>1, <3>2, <2>2 DEF WiresTyped
  <2> QED
    BY <2>1, <2>2
<1> QED
  BY <1>1, <1>2, <1>4, <1>5 DEF WiresTyped

LEMMA RespondNone ==
    ASSUME BooksTyped, UNCHANGED answers, NEW W, W = {}
    PROVE  answers' = [i \in Ids |-> answers[i] + IF i \in W THEN 1 ELSE 0]
<1>1. answers \in [Ids -> Nat]
  BY DEF BooksTyped
<1>2. \A i \in Ids : answers[i] + (IF i \in W THEN 1 ELSE 0) = answers[i]
  BY <1>1
<1> QED
  BY <1>1, <1>2

\* What the sync slots say when one is freed.
LEMMA SyncFreed ==
    ASSUME AcpIInv, NEW k \in Slots, sync' = [sync EXCEPT ![k] = NoOne],
           UNCHANGED <<models_pending, deleting, prompts, asked>>
    PROVE  /\ sync' \in [Slots -> Nat] /\ SlotsMatch'
           /\ \A i \in 1 .. Len(asked) : Tracked(i)' <=> Tracked(i) /\ i \notin {sync[k]}
           /\ \A i \in Ids : i \in {sync[k]} => i \in 1 .. Len(asked) /\ Tracked(i)
<1> USE DEF AcpIInv
<1>1. /\ sync \in [Slots -> Nat] /\ sync' \in [Slots -> Nat] /\ sync'[k] = NoOne
      /\ \A j \in Slots : j # k => sync'[j] = sync[j]
  BY ChatsAreNumbers DEF BooksTyped
<1>2. "create" \in Slots
  BY DEF Slots
<1>3. sync'["create"] = sync["create"] \/ sync'["create"] = NoOne
  BY <1>1, <1>2
<1>4. SlotsMatch'
  BY <1>1, <1>3 DEF SlotsMatch, IsAsked
<1>5. ASSUME NEW i \in 1 .. Len(asked)
      PROVE  Tracked(i)' <=> Tracked(i) /\ i # sync[k]
  <2>1. i # NoOne
    BY IdsBound DEF NoOne
  <2>2. Tracked(i)' => Tracked(i)
    BY <1>1, <2>1 DEF Tracked
  <2>3. Tracked(i) /\ i # sync[k] => Tracked(i)'
    BY <1>1 DEF Tracked
  <2>4. ASSUME i = sync[k]
        PROVE  ~Tracked(i)'
    <3>1. asked[i].slot = k
      BY <2>1, <2>4, KindOfSlot
    <3>2. i # models_pending
      BY <3>1, <2>1, <2>4, KindOfSlot DEF SlotsMatch
    <3>3. \A j \in Slots : i # sync'[j]
      BY <3>1, <2>1, <1>1, KindOfSlot
    <3>4. \A s \in Chats : i # deleting[s] /\ i # prompts[s].id
      BY <3>1, <2>1, KindOfSlot DEF Slots, Options
    <3> QED
      BY <3>2, <3>3, <3>4 DEF Tracked
  <2> QED
    BY <2>2, <2>3, <2>4
<1>6. ASSUME NEW i \in Ids, i = sync[k]
      PROVE  i \in 1 .. Len(asked) /\ Tracked(i)
  <2>1. i # NoOne
    BY IdsBound DEF NoOne
  <2> QED
    BY <1>6, <2>1 DEF SlotsMatch, IsAsked, Tracked
<1> QED
  BY <1>1, <1>4, <1>5, <1>6

LEMMA ModelsFailedStep ==
    ASSUME AcpIInv, HandleModelsFailed
    PROVE  AcpIInv'
<1> USE DEF AcpIInv
<1>1. /\ Take("ModelsFailed")
      /\ UNCHANGED <<phase, models_pending, sync, deleting, prompts, mapped, active_request,
                     next_request_id, outq, answers>>
  BY DEF HandleModelsFailed, bridge
<1>2. /\ inq \in Seq(Messages) /\ outq \in Seq(Messages) /\ inq # <<>>
      /\ inq' = Tail(inq) /\ Head(inq).kind = "ModelsFailed" /\ UNCHANGED <<asked, created>>
      /\ Fresh(Tail(inq), mapped, prompts, active_request, created)
      /\ Rounds(models_pending, sync["create"], inq, outq)
  BY <1>1, Taken
<1>3. WiresTyped'
  BY <1>1, TakenWires
<1>4. BooksTyped'
  BY <1>1, <1>2 DEF BooksTyped
<1>5. AnswersFit' /\ SlotsMatch'
  BY <1>1, <1>2, BooksKept
<1>6. GuardFits'
  BY <1>1 DEF GuardFits
<1>7. FreshSessions'
  BY <1>1, <1>2 DEF FreshSessions
<1>8. ~IsCreate(Head(inq))
  BY <1>2 DEF IsCreate
<1>9. RoundsInOrder'
  BY <1>1, <1>2, <1>8, RoundsTaken DEF RoundsInOrder
<1> QED
  BY <1>3, <1>4, <1>5, <1>6, <1>7, <1>9

\* take_sync: the request of the kind is answered.
LEMMA SyncStep ==
    ASSUME AcpIInv, HandleSync
    PROVE  AcpIInv'
<1> USE DEF AcpIInv
<1>1. PICK kind \in DOMAIN SyncKind :
        /\ Take(kind)
        /\ sync' = [sync EXCEPT ![SyncKind[kind]] = NoOne]
        /\ Respond({sync[SyncKind[kind]]})
        /\ UNCHANGED <<phase, models_pending, deleting, prompts, mapped, active_request,
                       next_request_id, outq>>
  BY DEF HandleSync
<1>2. PICK k : k = SyncKind[kind]
  OBVIOUS
<1>3. k \in Slots /\ k # "create" /\ kind \notin {"CreateSession", "SessionCreated"}
  BY <1>2 DEF SyncKind, Slots, Options
<1>4. /\ inq \in Seq(Messages) /\ outq \in Seq(Messages) /\ inq # <<>>
      /\ inq' = Tail(inq) /\ Head(inq).kind = kind /\ UNCHANGED <<asked, created>>
      /\ phase \in {"new", "ready", "lost"}
      /\ Fresh(Tail(inq), mapped, prompts, active_request, created)
      /\ Rounds(models_pending, sync["create"], inq, outq)
  BY <1>1, Taken
<1>5. WiresTyped'
  BY <1>1, TakenWires
<1>6. /\ sync' \in [Slots -> Nat] /\ SlotsMatch'
      /\ \A i \in 1 .. Len(asked) : Tracked(i)' <=> Tracked(i) /\ i \notin {sync[k]}
      /\ \A i \in Ids : i \in {sync[k]} => i \in 1 .. Len(asked) /\ Tracked(i)
  BY <1>1, <1>2, <1>3, <1>4, SyncFreed
<1>7. answers' = [i \in Ids |-> answers[i] + IF i \in {sync[k]} THEN 1 ELSE 0]
  BY <1>1, <1>2 DEF Respond
<1>8. AnswersFit' /\ answers' \in [Ids -> Nat]
  BY <1>1, <1>4, <1>6, <1>7, BooksAnswered
<1>9. BooksTyped'
  BY <1>1, <1>4, <1>6, <1>8 DEF BooksTyped
<1>10. GuardFits'
  BY <1>1 DEF GuardFits
<1>11. FreshSessions'
  BY <1>1, <1>4 DEF FreshSessions
<1>12. ~IsCreate(Head(inq))
  BY <1>3, <1>4 DEF IsCreate
<1>13. sync'["create"] = sync["create"]
  BY <1>1, <1>2, <1>3 DEF BooksTyped, Slots
<1>14. RoundsInOrder'
  BY <1>1, <1>4, <1>12, <1>13, RoundsTaken DEF RoundsInOrder
<1> QED
  BY <1>5, <1>6, <1>8, <1>9, <1>10, <1>11, <1>14

\* Models: the first round of a session/new ends and the second begins.  By
\* then no other session/new is in its second round, so no slot is lost.
LEMMA ModelsStep ==
    ASSUME AcpIInv, HandleModels
    PROVE  AcpIInv'
<1> USE DEF AcpIInv
<1>1. /\ Take("Models")
      /\ UNCHANGED <<deleting, prompts, mapped, active_request, next_request_id>>
  BY DEF HandleModels
<1>2. /\ inq \in Seq(Messages) /\ outq \in Seq(Messages) /\ inq # <<>>
      /\ inq' = Tail(inq) /\ Head(inq).kind = "Models" /\ UNCHANGED <<asked, created>>
      /\ phase \in {"new", "ready", "lost"} /\ Alive
      /\ Fresh(Tail(inq), mapped, prompts, active_request, created)
      /\ Rounds(models_pending, sync["create"], inq, outq)
  BY <1>1, Taken
<1>3. IsModels(Head(inq))
  BY <1>2 DEF IsModels
<1>4. models_pending # NoOne /\ sync["create"] = NoOne /\ ~HasModels(Tail(inq)) /\ ~HasModels(outq)
  BY <1>2, <1>3, RoundsTaken
<1>5. PICK m : m = Msg("CreateSession", NoOne)
  OBVIOUS
<1>6. m \in Messages /\ m.kind = "CreateSession"
  BY <1>5, ChatsAreNumbers DEF Messages, Msg, Kinds
<1>7. /\ models_pending' = NoOne
      /\ sync' = [sync EXCEPT !["create"] = models_pending]
      /\ SendToDaemon(<<m>>) /\ UNCHANGED answers
  BY <1>4, <1>5 DEF HandleModels
<1>8. \/ outq' = outq \o <<m>> /\ phase' = phase
      \/ outq' = outq /\ phase' = "error"
  BY <1>7 DEF SendToDaemon
<1>9. WiresTyped'
  BY <1>1, <1>6, <1>8, TakenWires
<1>10. /\ sync \in [Slots -> Nat] /\ models_pending \in Nat /\ "create" \in Slots
  BY DEF BooksTyped, Slots
<1>11. /\ sync' \in [Slots -> Nat] /\ sync'["create"] = models_pending
       /\ \A j \in Slots : j # "create" => sync'[j] = sync[j]
  BY <1>7, <1>10
<1>12. BooksTyped'
  BY <1>1, <1>2, <1>7, <1>8, <1>11, ChatsAreNumbers DEF BooksTyped
<1>13. SlotsMatch'
  BY <1>1, <1>2, <1>7, <1>11 DEF SlotsMatch, IsAsked
<1>14. ASSUME NEW i \in 1 .. Len(asked)
       PROVE  Tracked(i)' <=> Tracked(i) /\ i \notin {}
  <2>1. i # NoOne
    BY IdsBound DEF NoOne
  <2> QED
    BY <1>1, <1>4, <1>7, <1>10, <1>11, <2>1 DEF Tracked
<1>15. AnswersFit'
  <2>1. PICK W : W = {}
    OBVIOUS
  <2>2. answers' = [i \in Ids |-> answers[i] + IF i \in W THEN 1 ELSE 0]
    BY <2>1, <1>7, RespondNone
  <2>3. \A i \in 1 .. Len(asked) : Tracked(i)' <=> Tracked(i) /\ i \notin W
    BY <2>1, <1>14
  <2> QED
    BY <2>1, <2>2, <2>3, <1>2, <1>8, BooksAnswered
<1>16. GuardFits'
  BY <1>1 DEF GuardFits
<1>17. FreshSessions'
  BY <1>1, <1>2 DEF FreshSessions
<1>18. RoundsInOrder'
  <2>1. CASE outq' = outq \o <<m>> /\ phase' = phase
    <3>1. Tail(inq) \in Seq(Messages)
      BY <1>2, RestOfMessages
    <3>2. Rounds(NoOne, models_pending, Tail(inq), outq \o <<m>>)
      BY <1>2, <1>4, <1>6, <3>1, RoundsCreate
    <3> QED
      BY <3>2, <2>1, <1>2, <1>7, <1>11 DEF RoundsInOrder
  <2>2. CASE phase' = "error"
    BY <2>2 DEF RoundsInOrder, Alive
  <2> QED
    BY <1>8, <2>1, <2>2
<1> QED
  BY <1>9, <1>12, <1>13, <1>15, <1>16, <1>17, <1>18

\* SessionCreated: the session enters the mapping and its request is answered.
LEMMA SessionCreatedStep ==
    ASSUME AcpIInv, HandleSessionCreated
    PROVE  AcpIInv'
<1> USE DEF AcpIInv
<1>1. /\ Take("SessionCreated")
      /\ sync' = [sync EXCEPT !["create"] = NoOne]
      /\ UNCHANGED <<models_pending, deleting, prompts, active_request, next_request_id>>
  BY DEF HandleSessionCreated
<1>2. /\ inq \in Seq(Messages) /\ outq \in Seq(Messages) /\ inq # <<>>
      /\ inq' = Tail(inq) /\ Head(inq) \in Messages /\ Head(inq).kind = "SessionCreated"
      /\ UNCHANGED <<asked, created>>
      /\ phase \in {"new", "ready", "lost"} /\ Alive
      /\ Fresh(Tail(inq), mapped, prompts, active_request, created)
      /\ Rounds(models_pending, sync["create"], inq, outq)
  BY <1>1, Taken
<1>3. PICK c : c = Head(inq).n
  OBVIOUS
<1>4. /\ c \in Nat
      /\ Fresh(Tail(inq), mapped \cup {c}, prompts, active_request, created)
      /\ c \in Chats => prompts[c].id = NoOne /\ active_request[c] = NoOne
  BY <1>2, <1>3, FreshTaken DEF FreshSessions, Messages
<1>5. PICK m : m = Msg("AttachSession", c)
  OBVIOUS
<1>6. m \in Messages /\ m.kind = "AttachSession" /\ Dull(m)
  BY <1>4, <1>5 DEF Messages, Msg, Kinds, Dull
<1>7. "create" \in Slots
  BY DEF Slots
<1>8. /\ sync' \in [Slots -> Nat] /\ SlotsMatch'
      /\ \A i \in 1 .. Len(asked) : Tracked(i)' <=> Tracked(i) /\ i \notin {sync["create"]}
      /\ \A i \in Ids : i \in {sync["create"]} => i \in 1 .. Len(asked) /\ Tracked(i)
  BY <1>1, <1>2, <1>7, SyncFreed
<1>9. sync'["create"] = NoOne
  BY <1>1, <1>7 DEF BooksTyped
<1>10. \/ mapped' = mapped /\ outq' = outq /\ phase' = phase /\ answers' = answers
          /\ sync["create"] = NoOne
       \/ mapped' = mapped \cup {c} /\ outq' = outq \o <<m>> /\ phase' = phase
          /\ Respond({sync["create"]})
       \/ mapped' = mapped \cup {c} /\ outq' = outq /\ phase' = "error" /\ answers' = answers
  BY <1>3, <1>5 DEF HandleSessionCreated, SendToDaemon
<1>11. WiresTyped'
  BY <1>1, <1>6, <1>10, TakenWires
<1>12. AnswersFit' /\ answers' \in [Ids -> Nat]
  <2>1. CASE answers' = answers /\ sync["create"] = NoOne /\ phase' = phase
    <3>1. PICK W : W = {}
      OBVIOUS
    <3>2. \A i \in 1 .. Len(asked) : i \notin {sync["create"]} /\ i \notin W
      BY <2>1, <3>1, IdsBound DEF NoOne
    <3>3. \A i \in 1 .. Len(asked) : Tracked(i)' <=> Tracked(i) /\ i \notin W
      BY <3>2, <1>8
    <3>4. answers' = [i \in Ids |-> answers[i] + IF i \in W THEN 1 ELSE 0]
      BY <3>1, <2>1, RespondNone
    <3> QED
      BY <2>1, <3>1, <3>3, <3>4, <1>2, BooksAnswered
  <2>2. CASE Respond({sync["create"]}) /\ phase' = phase
    <3>1. answers' = [i \in Ids |-> answers[i] + IF i \in {sync["create"]} THEN 1 ELSE 0]
      BY <2>2 DEF Respond
    <3> QED
      BY <2>2, <3>1, <1>2, <1>8, BooksAnswered
  <2>3. CASE phase' = "error" /\ answers' = answers
    <3>1. \A i \in Ids : answers'[i] <= 1 /\ (i > Len(asked') => answers'[i] = 0)
      BY <2>3, <1>2 DEF AnswersFit
    <3>2. \A i \in 1 .. Len(asked') : Tracked(i)' => answers'[i] = 0
      BY <2>3, <1>2, <1>8 DEF AnswersFit
    <3> QED
      BY <2>3, <3>1, <3>2 DEF AnswersFit, BooksTyped
  <2> QED
    BY <1>10, <2>1, <2>2, <2>3
<1>13. mapped' \subseteq mapped \cup {c} /\ phase' \in {phase, "error"}
  BY <1>10
<1>14. BooksTyped'
  <2>1. mapped' \subseteq Nat
    BY <1>4, <1>13 DEF BooksTyped
  <2> QED
    BY <2>1, <1>1, <1>2, <1>8, <1>12, <1>13 DEF BooksTyped
<1>15. GuardFits'
  BY <1>1, <1>4, <1>13 DEF GuardFits
<1>16. FreshSessions'
  BY <1>1, <1>2, <1>4, <1>10 DEF FreshSessions
<1>17. RoundsInOrder'
  <2>1. Tail(inq) \in Seq(Messages)
    BY <1>2, RestOfMessages
  <2>2. Rounds(models_pending, NoOne, Tail(inq), outq)
    BY <1>2, RoundsTaken
  <2>3. Rounds(models_pending, NoOne, Tail(inq), outq \o <<m>>)
    BY <2>1, <2>2, <1>2, <1>6, OneDull, RoundsDull
  <2>4. CASE phase' = "error"
    BY <2>4 DEF RoundsInOrder, Alive
  <2>5. CASE outq' = outq
    BY <2>5, <2>2, <1>1, <1>2, <1>9 DEF RoundsInOrder
  <2>6. CASE outq' = outq \o <<m>>
    BY <2>6, <2>3, <1>1, <1>2, <1>9 DEF RoundsInOrder
  <2> QED
    BY <2>4, <2>5, <2>6, <1>10
<1> QED
  BY <1>8, <1>11, <1>12, <1>14, <1>15, <1>16, <1>17

\* SessionDeleteFailed
LEMMA DeleteFailedStep ==
    ASSUME AcpIInv, HandleSessionDeleteFailed
    PROVE  AcpIInv'
<1> USE DEF AcpIInv
<1>1. PICK s : s = Head(inq).n
  OBVIOUS
<1>2. /\ Take("SessionDeleteFailed")
      /\ deleting' = [deleting EXCEPT ![s] = NoOne] /\ Respond({deleting[s]})
      /\ UNCHANGED <<phase, models_pending, sync, prompts, mapped, active_request,
                     next_request_id, outq>>
  BY <1>1 DEF HandleSessionDeleteFailed
<1>3. /\ inq \in Seq(Messages) /\ outq \in Seq(Messages) /\ inq # <<>>
      /\ inq' = Tail(inq) /\ Head(inq).kind = "SessionDeleteFailed" /\ s \in Chats
      /\ UNCHANGED <<asked, created>> /\ phase \in {"new", "ready", "lost"}
      /\ Fresh(Tail(inq), mapped, prompts, active_request, created)
      /\ Rounds(models_pending, sync["create"], inq, outq)
  BY <1>1, <1>2, Taken
<1>4. WiresTyped'
  BY <1>2, TakenWires
<1>5. /\ deleting \in [Chats -> Nat] /\ deleting' \in [Chats -> Nat] /\ deleting'[s] = NoOne
      /\ \A x \in Chats : x # s => deleting'[x] = deleting[x]
  BY <1>2, <1>3, ChatsAreNumbers DEF BooksTyped
<1>6. SlotsMatch'
  BY <1>2, <1>3, <1>5 DEF SlotsMatch, IsAsked
<1>7. ASSUME NEW i \in 1 .. Len(asked)
      PROVE  Tracked(i)' <=> Tracked(i) /\ i \notin {deleting[s]}
  <2>1. i # NoOne
    BY IdsBound DEF NoOne
  <2>2. Tracked(i)' => Tracked(i)
    BY <1>2, <1>5, <2>1 DEF Tracked
  <2>3. Tracked(i) /\ i # deleting[s] => Tracked(i)'
    BY <1>2, <1>5 DEF Tracked
  <2>4. ASSUME i = deleting[s]
        PROVE  ~Tracked(i)'
    <3>1. asked[i].slot = "delete" /\ asked[i].session = s
      BY <2>1, <2>4, <1>3, KindOfSlot
    <3>2. i # models_pending /\ \A k \in Slots : i # sync[k]
      BY <3>1, <2>1, KindOfSlot DEF Slots, Options
    <3>3. \A x \in Chats : i # deleting'[x] /\ i # prompts[x].id
      BY <3>1, <2>1, <1>5, KindOfSlot
    <3> QED
      BY <3>2, <3>3, <1>2 DEF Tracked
  <2> QED
    BY <2>2, <2>3, <2>4
<1>8. ASSUME NEW i \in Ids, i \in {deleting[s]}
      PROVE  i \in 1 .. Len(asked) /\ Tracked(i)
  <2>1. i # NoOne
    BY IdsBound DEF NoOne
  <2> QED
    BY <1>3, <1>8, <2>1 DEF SlotsMatch, IsAsked, Tracked
<1>9. answers' = [i \in Ids |-> answers[i] + IF i \in {deleting[s]} THEN 1 ELSE 0]
  BY <1>2 DEF Respond
<1>10. AnswersFit' /\ answers' \in [Ids -> Nat]
  BY <1>2, <1>3, <1>7, <1>8, <1>9, BooksAnswered
<1>11. BooksTyped'
  BY <1>2, <1>3, <1>5, <1>10 DEF BooksTyped
<1>12. GuardFits'
  BY <1>2 DEF GuardFits
<1>13. FreshSessions'
  BY <1>2, <1>3 DEF FreshSessions
<1>14. ~IsCreate(Head(inq))
  BY <1>3 DEF IsCreate
<1>15. RoundsInOrder'
  BY <1>2, <1>3, <1>14, RoundsTaken DEF RoundsInOrder
<1> QED
  BY <1>4, <1>6, <1>10, <1>11, <1>12, <1>13, <1>15

LEMMA NoPromptIs == NoPrompt \in [id : Nat, req : Nat] /\ NoPrompt.id = NoOne /\ NoPrompt.req = NoOne
BY ChatsAreNumbers DEF NoPrompt

\* A terminal event ends the prompt of its request id, and frees the guard.
LEMMA TerminalStep ==
    ASSUME AcpIInv, HandleTerminal
    PROVE  AcpIInv'
<1> USE DEF AcpIInv
<1>1. PICK kind \in Terminal : HandleTerminal!(kind)
  BY DEF HandleTerminal
<1>2. PICK ss : ss = Awaiting(Head(inq).n)
  OBVIOUS
<1>3. PICK W : W = {prompts[s].id : s \in ss}
  OBVIOUS
<1>4. PICK w : w = [s \in Chats |-> IF s \in ss THEN NoPrompt ELSE prompts[s]]
  OBVIOUS
<1>5. PICK g : g = [s \in Chats |-> IF s \in ss THEN NoOne ELSE active_request[s]]
  OBVIOUS
<1>6. /\ Take(kind) /\ Respond(W) /\ prompts' = w /\ active_request' = g
      /\ UNCHANGED <<phase, models_pending, sync, deleting, mapped, next_request_id, outq>>
  BY <1>1, <1>2, <1>3, <1>4, <1>5 DEF EndPrompts
<1>7. /\ inq \in Seq(Messages) /\ outq \in Seq(Messages) /\ inq # <<>>
      /\ inq' = Tail(inq) /\ Head(inq).kind = kind
      /\ UNCHANGED <<asked, created>> /\ phase \in {"new", "ready", "lost"}
      /\ Fresh(Tail(inq), mapped, prompts, active_request, created)
      /\ Rounds(models_pending, sync["create"], inq, outq)
  BY <1>6, Taken
<1>8. WiresTyped'
  BY <1>6, TakenWires
<1>9. ss \subseteq Chats
  BY <1>2 DEF Awaiting
<1>10. /\ prompts \in [Chats -> [id : Nat, req : Nat]] /\ active_request \in [Chats -> Nat]
  BY DEF BooksTyped
<1>11. /\ w \in [Chats -> [id : Nat, req : Nat]] /\ g \in [Chats -> Nat]
       /\ \A s \in Chats : /\ s \in ss => w[s].id = NoOne /\ w[s].req = NoOne /\ g[s] = NoOne
                           /\ s \notin ss => w[s] = prompts[s] /\ g[s] = active_request[s]
  BY <1>4, <1>5, <1>9, <1>10, NoPromptIs, ChatsAreNumbers
<1>12. SlotsMatch'
  <2>1. \A s \in Chats : w[s].id # NoOne => IsAsked(w[s].id, "prompt", s)
    BY <1>11 DEF SlotsMatch
  <2> QED
    BY <2>1, <1>6, <1>7 DEF SlotsMatch, IsAsked
<1>13. ASSUME NEW i \in 1 .. Len(asked)
       PROVE  Tracked(i)' <=> Tracked(i) /\ i \notin W
  <2>1. i # NoOne
    BY IdsBound DEF NoOne
  <2>2. Tracked(i)' => Tracked(i)
    BY <1>6, <1>11, <2>1 DEF Tracked
  <2>3. Tracked(i) /\ i \notin W => Tracked(i)'
    BY <1>3, <1>6, <1>11 DEF Tracked
  <2>4. ASSUME i \in W
        PROVE  ~Tracked(i)'
    <3>1. PICK s \in ss : i = prompts[s].id
      BY <1>3, <2>4
    <3>2. asked[i].slot = "prompt" /\ asked[i].session = s
      BY <2>1, <3>1, <1>9, KindOfSlot
    <3>3. i # models_pending /\ \A k \in Slots : i # sync[k]
      BY <3>2, <2>1, KindOfSlot DEF Slots, Options
    <3>4. \A x \in Chats : i # deleting[x]
      BY <3>2, <2>1, KindOfSlot
    <3>5. \A x \in Chats : i # w[x].id
      <4> TAKE x \in Chats
      <4>1. CASE x \in ss
        BY <4>1, <2>1, <1>11
      <4>2. CASE x \notin ss
        BY <4>2, <3>1, <3>2, <2>1, <1>11, KindOfSlot
      <4> QED
        BY <4>1, <4>2
    <3> QED
      BY <3>3, <3>4, <3>5, <1>6 DEF Tracked
  <2> QED
    BY <2>2, <2>3, <2>4
<1>14. ASSUME NEW i \in Ids, i \in W
       PROVE  i \in 1 .. Len(asked) /\ Tracked(i)
  <2>1. i # NoOne
    BY IdsBound DEF NoOne
  <2>2. PICK s \in Chats : i = prompts[s].id
    BY <1>3, <1>9, <1>14
  <2> QED
    BY <2>1, <2>2 DEF SlotsMatch, IsAsked, Tracked
<1>15. answers' = [i \in Ids |-> answers[i] + IF i \in W THEN 1 ELSE 0]
  BY <1>6 DEF Respond
<1>16. AnswersFit' /\ answers' \in [Ids -> Nat]
  BY <1>6, <1>7, <1>13, <1>14, <1>15, BooksAnswered
<1>17. BooksTyped'
  BY <1>6, <1>7, <1>11, <1>16 DEF BooksTyped
<1>18. GuardFits'
  BY <1>6, <1>11 DEF GuardFits
<1>19. FreshSessions'
  <2>1. \A s \in Chats : /\ w[s].id # NoOne => prompts[s].id # NoOne \/ s \in mapped
                         /\ g[s] # NoOne => active_request[s] # NoOne \/ s \in mapped
    BY <1>11
  <2>2. Fresh(Tail(inq), mapped, w, g, created)
    BY <2>1, <1>7, FreshBooks
  <2> QED
    BY <2>2, <1>6, <1>7 DEF FreshSessions
<1>20. ~IsCreate(Head(inq))
  BY <1>7 DEF IsCreate, Terminal
<1>21. RoundsInOrder'
  BY <1>6, <1>7, <1>20, RoundsTaken DEF RoundsInOrder
<1> QED
  BY <1>8, <1>12, <1>16, <1>17, <1>18, <1>19, <1>21

\* Disconnected: every slot is drained with an answer.
LEMMA DisconnectedStep ==
    ASSUME AcpIInv, HandleDisconnected
    PROVE  AcpIInv'
<1> USE DEF AcpIInv
<1>1. PICK W : W = {models_pending} \cup {sync[k] : k \in Slots}
                   \cup {deleting[s] : s \in Chats} \cup {prompts[s].id : s \in Chats}
  OBVIOUS
<1>2. PICK g : g = EndPrompts({s \in Chats : prompts[s] # NoPrompt})
  OBVIOUS
<1>3. /\ Take("Disconnected") /\ phase' = "lost" /\ Respond(W)
      /\ models_pending' = NoOne
      /\ sync' = [k \in Slots |-> NoOne]
      /\ deleting' = [s \in Chats |-> NoOne]
      /\ prompts' = [s \in Chats |-> NoPrompt]
      /\ active_request' = g
      /\ UNCHANGED <<mapped, next_request_id, outq>>
  BY <1>1, <1>2 DEF HandleDisconnected
<1>4. /\ inq' = Tail(inq) /\ UNCHANGED <<asked, created>>
      /\ phase \in {"new", "ready", "lost"}
      /\ Fresh(Tail(inq), mapped, prompts, active_request, created)
  BY <1>3, Taken
<1>5. WiresTyped'
  BY <1>3, TakenWires
<1>6. /\ prompts \in [Chats -> [id : Nat, req : Nat]] /\ active_request \in [Chats -> Nat]
  BY DEF BooksTyped
<1>7. /\ sync' \in [Slots -> Nat] /\ \A k \in Slots : sync'[k] = NoOne
      /\ deleting' \in [Chats -> Nat] /\ \A s \in Chats : deleting'[s] = NoOne
      /\ prompts' \in [Chats -> [id : Nat, req : Nat]]
      /\ \A s \in Chats : prompts'[s].id = NoOne /\ prompts'[s].req = NoOne
  BY <1>3, NoPromptIs, ChatsAreNumbers
<1>8. /\ g \in [Chats -> Nat]
      /\ \A s \in Chats : g[s] = IF prompts[s] # NoPrompt THEN NoOne ELSE active_request[s]
  BY <1>2, <1>6, ChatsAreNumbers DEF EndPrompts
<1>9. SlotsMatch'
  BY <1>3, <1>7 DEF SlotsMatch
<1>10. ASSUME NEW i \in 1 .. Len(asked)
       PROVE  Tracked(i)' <=> Tracked(i) /\ i \notin W
  <2>1. i # NoOne
    BY IdsBound DEF NoOne
  <2>2. ~Tracked(i)'
    BY <1>3, <1>7, <2>1 DEF Tracked
  <2>3. Tracked(i) => i \in W
    BY <1>1 DEF Tracked
  <2> QED
    BY <2>2, <2>3
<1>11. ASSUME NEW i \in Ids, i \in W
       PROVE  i \in 1 .. Len(asked) /\ Tracked(i)
  <2>1. i # NoOne /\ i \in Nat \ {0}
    BY AcpBounds DEF NoOne, Ids
  <2>2. Tracked(i)
    BY <1>1, <1>11 DEF Tracked
  <2> QED
    BY <2>1, <2>2, TrackedWasAsked
<1>12. answers' = [i \in Ids |-> answers[i] + IF i \in W THEN 1 ELSE 0]
  BY <1>3 DEF Respond
<1>13. AnswersFit' /\ answers' \in [Ids -> Nat]
  BY <1>3, <1>4, <1>10, <1>11, <1>12, BooksAnswered
<1>14. BooksTyped'
  BY <1>3, <1>4, <1>7, <1>8, <1>13, ChatsAreNumbers DEF BooksTyped
<1>15. GuardFits'
  <2>1. \A s \in Chats \cap mapped : prompts[s] = NoPrompt => active_request[s] = NoOne
    BY NoPromptIs DEF GuardFits
  <2> QED
    BY <2>1, <1>3, <1>7, <1>8 DEF GuardFits
<1>16. FreshSessions'
  <2>1. PICK w : w = prompts'
    OBVIOUS
  <2>2. \A s \in Chats : /\ w[s].id # NoOne => prompts[s].id # NoOne \/ s \in mapped
                         /\ g[s] # NoOne => active_request[s] # NoOne \/ s \in mapped
    BY <2>1, <1>7, <1>8
  <2>3. Fresh(Tail(inq), mapped, w, g, created)
    BY <2>2, <1>4, FreshBooks
  <2> QED
    BY <2>1, <2>3, <1>3, <1>4 DEF FreshSessions
<1>17. RoundsInOrder'
  BY <1>3 DEF RoundsInOrder, Alive
<1> QED
  BY <1>5, <1>9, <1>13, <1>14, <1>15, <1>16, <1>17

-----------------------------------------------------------------------------
(* The theorem about the bridge *)

LEMMA AcpStart ==
    ASSUME AcpInit
    PROVE  AcpIInv
<1> USE DEF AcpInit
<1>1. 0 \in Nat /\ NoOne = 0 /\ 1 \in Nat \ {0} /\ MaxAsked \in Nat
  BY AcpBounds DEF NoOne
<1>2. Len(asked) = 0 /\ asked \in Seq(Asked) /\ 1 .. 0 = {}
  OBVIOUS
<1>3. BooksTyped
  <2>1. prompts \in [Chats -> [id : Nat, req : Nat]]
    BY NoPromptIs
  <2> QED
    BY <1>1, <1>2, <2>1 DEF BooksTyped
<1>4. Len(outq) = 0 /\ Len(inq) = 0 /\ outq \in Seq(Messages) /\ inq \in Seq(Messages)
      /\ cmds \in [Chats -> Seq(Messages)]
  OBVIOUS
<1>5. WiresTyped
  BY <1>1, <1>2, <1>4 DEF WiresTyped
<1>6. /\ \A k \in Slots : sync[k] = NoOne
      /\ \A s \in Chats : /\ deleting[s] = NoOne /\ prompts[s] = NoPrompt
                          /\ active_request[s] = NoOne
  OBVIOUS
<1>7. SlotsMatch
  BY <1>6, NoPromptIs DEF SlotsMatch
<1>8. AnswersFit
  BY <1>1, <1>2 DEF AnswersFit
<1>9. GuardFits
  BY <1>6, NoPromptIs DEF GuardFits
<1>10. FreshSessions
  BY <1>2, <1>4, <1>6, NoPromptIs DEF FreshSessions, Fresh
<1>11. "create" \in Slots
  BY DEF Slots
<1>12. RoundsInOrder
  BY <1>2, <1>4, <1>6, <1>11 DEF RoundsInOrder, Rounds, HasModels, OneModels
<1> QED
  BY <1>3, <1>5, <1>7, <1>8, <1>9, <1>10, <1>12 DEF AcpIInv

LEMMA AcpStep ==
    ASSUME AcpIInv, [AcpNext]_acpVars
    PROVE  AcpIInv'
<1>1. CASE EditorMoves
  BY <1>1, EditorStep
<1>2. CASE Serve
  BY <1>2, ServeStep
<1>3. CASE HandleDaemonMessage
  BY <1>3, ModelsStep, ModelsFailedStep, SessionCreatedStep, SyncStep, DeleteFailedStep,
     TerminalStep, DisconnectedStep DEF HandleDaemonMessage
<1>4. CASE DaemonDies \/ WriterFails
  BY <1>4, ConnectionStep
<1>5. CASE \E s \in Chats : ThreadMoves(s) \/ ForeignRunEnds(s)
  BY <1>5, ThreadMovesStep
<1>6. CASE UNCHANGED acpVars
  <2> USE <1>6 DEF acpVars, bridge, connection, threads, editor
  <2>1. UNCHANGED <<phase, models_pending, sync, deleting, prompts, mapped, active_request,
                    next_request_id, asked, answers, created, inq, outq, current, run, cmds>>
    OBVIOUS
  <2>2. AnswersFit' /\ SlotsMatch'
    BY <2>1, BooksKept DEF AcpIInv
  <2> QED
    BY <2>1, <2>2 DEF AcpIInv, BooksTyped, WiresTyped, GuardFits, FreshSessions,
                      RoundsInOrder, Alive
<1> QED
  BY <1>1, <1>2, <1>3, <1>4, <1>5, <1>6 DEF AcpNext

\* No request of the editor is answered twice, and while the bridge's loop runs
\* (or when it ended with the daemon) each unanswered one is in a slot, unless a
\* later request of its kind has the slot (acp_handler.rs run_event_loop,
\* pending.rs PendingRequests): for any number of sessions, requests and
\* cancels, whether or not the connection is lost.
THEOREM BridgeAnswers == AcpSpec => []AnsweredOrTracked
<1>1. AcpIInv => AnsweredOrTracked
  <2> SUFFICES ASSUME AcpIInv, NEW i \in 1 .. Len(asked)
               PROVE  /\ answers[i] <= 1
                      /\ phase \in {"ready", "lost"} =>
                           (answers[i] = 0 <=> Tracked(i)) \/ Overtaken(i)
    BY DEF AnsweredOrTracked
  <2>1. i \in Ids
    BY IdsBound DEF AcpIInv
  <2> QED
    BY <2>1 DEF AcpIInv, AnswersFit
<1> QED
  BY <1>1, AcpStart, AcpStep, PTL DEF AcpSpec
=============================================================================
