--------------------------- MODULE Server_proofs ----------------------------
(***************************************************************************)
(* Proofs about the server around the command loop, the components         *)
(* ServerLifecycle and Keystore, which share no state.                     *)
(*                                                                         *)
(* ServerLifecycle, for any clients and any connection limit: a connection *)
(* that an acceptor registered is told of the shutdown.                    *)
(*                                                                         *)
(* Keystore, for any set of clients and any number of connections and      *)
(* commands: a binding is never moved, and while users type no wrong key   *)
(* the key the daemon adopted is in some client's store.                   *)
(***************************************************************************)
EXTENDS ServerLifecycle, Keystore, TLAPS

-----------------------------------------------------------------------------
(* ServerLifecycle *)

Cmd == {"register", "gone", "broadcast", "shutdown"} \X (Conns \cup {"all"})
Spot == [at : {"check", "accept", "slot", "undo", "register", "exited"},
         with : Conns \cup {"nobody"}]

SrvTyped ==
    /\ acceptor \in [Acceptors -> Spot]
    /\ stage \in {"accepting", "joinAccept", "joinLoop", "joinThreads", "done"}
    /\ conn \in [Conns -> {"out", "backlog", "held", "dropped", "handshake",
                           "setup", "serving", "closing", "ending", "ended",
                           "aborted"}]
    /\ loop \in {"running", "teardown", "mcp", "ended"}
    /\ cmds \in Seq(Cmd)

\* What a queue holds, and in which order
Has(q, e) == \E i \in 1..Len(q) : q[i] = e
Holds(q, k) == \E i \in 1..Len(q) : q[i][1] = k
Before(q, e, k) ==
    \E i \in 1..Len(q) : q[i] = e /\ \A j \in 1..Len(q) : q[j][1] = k => i < j
Ordered(q) ==
    \A i, j \in 1..Len(q) : q[i][1] = "broadcast" /\ q[j][1] = "shutdown" => i < j

\* Between accept and spawn a connection is in the hand of one acceptor.
InHand ==
    \A a \in Acceptors :
        acceptor[a].at \in {"slot", "undo", "register"} =>
            acceptor[a].with \in Mine(a) /\ conn[acceptor[a].with] = "held"

\* A connection is unregistered at its end only, and its client knows why, is
\* about to, or does not read.
GoneHasEnded ==
    \A c \in Conns : Has(cmds, <<"gone", c>>) => conn[c] \in {"ending", "ended"}
EndedAreTold ==
    ~lateAccept =>
        \A c \in Conns :
            /\ conn[c] \in {"closing", "ended"} => c \in told \cup failing
            /\ conn[c] = "ending" => c \in mail \cup told \cup failing

\* The main thread has its last two commands queued once its own loop and,
\* unless it gave up waiting, the TCP loop have ended.
Early == stage \in {"accepting", "joinAccept"}
StagesInOrder ==
    /\ Early => /\ loop = "running"
                /\ ~Holds(cmds, "broadcast") /\ ~Holds(cmds, "shutdown")
    /\ Ordered(cmds)
    /\ stage # "accepting" => acceptor["main"].at = "exited"
    /\ ~lateAccept /\ ~Early => acceptor["tcp"].at = "exited"

\* Until the broadcast is handled every connection is registered, or its
\* registration is queued ahead of it; afterwards the message is on its way.
Pre(c) == conn[c] \in {"handshake", "setup", "serving"}
Waiting == loop = "running" /\ (Early \/ Holds(cmds, "broadcast"))
Reached ==
    ~lateAccept =>
        \A c \in Conns : Pre(c) =>
            IF Waiting THEN c \in registry \/ Before(cmds, <<"register", c>>, "broadcast")
            ELSE c \in mail

SrvIInv ==
    SrvTyped /\ InHand /\ GoneHasEnded /\ EndedAreTold /\ StagesInOrder /\ Reached

-----------------------------------------------------------------------------
(* The command queue.                                                      *)

LEMMA CmdTail ==
    ASSUME NEW q \in Seq(Cmd), q # <<>>
    PROVE  /\ Tail(q) \in Seq(Cmd) /\ Head(q) \in Cmd
           /\ \A e : Has(Tail(q), e) => Has(q, e)
           /\ Has(q, Head(q)) /\ Holds(q, Head(q)[1])
           /\ \A k : Holds(Tail(q), k) => Holds(q, k)
           /\ \A k : Holds(q, k) => Head(q)[1] = k \/ Holds(Tail(q), k)
           /\ Ordered(q) => Ordered(Tail(q))
           /\ Ordered(q) /\ Head(q)[1] = "shutdown" => ~Holds(q, "broadcast")
           /\ \A e, k : Before(q, e, k) /\ Head(q) # e => Before(Tail(q), e, k)
           /\ \A e, k : Before(q, e, k) => Head(q)[1] # k
<1>1. /\ Tail(q) \in Seq(Cmd) /\ Head(q) \in Cmd /\ Head(q) = q[1] /\ Len(q) \in Nat
      /\ Len(q) >= 1 /\ Len(Tail(q)) = Len(q) - 1
      /\ \A i \in 1..Len(Tail(q)) : Tail(q)[i] = q[i + 1]
  OBVIOUS
<1>2. \A e : Has(Tail(q), e) => Has(q, e)
  BY <1>1 DEF Has
<1>3. Has(q, Head(q)) /\ Holds(q, Head(q)[1])
  BY <1>1 DEF Has, Holds
<1>4. \A k : Holds(Tail(q), k) => Holds(q, k)
  BY <1>1 DEF Holds
<1>5. ASSUME NEW k, Holds(q, k), Head(q)[1] # k PROVE Holds(Tail(q), k)
  <2>1. PICK i \in 1..Len(q) : q[i][1] = k
    BY <1>5 DEF Holds
  <2>2. i - 1 \in 1..Len(Tail(q)) /\ Tail(q)[i - 1] = q[i]
    BY <1>1, <1>5, <2>1
  <2> QED BY <2>1, <2>2 DEF Holds
<1>6. Ordered(q) => Ordered(Tail(q))
  BY <1>1 DEF Ordered
<1>7. Ordered(q) /\ Head(q)[1] = "shutdown" => ~Holds(q, "broadcast")
  BY <1>1 DEF Ordered, Holds
<1>8. ASSUME NEW e, NEW k, Before(q, e, k), Head(q) # e PROVE Before(Tail(q), e, k)
  <2>1. PICK i \in 1..Len(q) : q[i] = e /\ \A j \in 1..Len(q) : q[j][1] = k => i < j
    BY <1>8 DEF Before
  <2>2. i - 1 \in 1..Len(Tail(q)) /\ Tail(q)[i - 1] = e
    BY <1>1, <1>8, <2>1
  <2>3. \A j \in 1..Len(Tail(q)) : Tail(q)[j][1] = k => i - 1 < j
    BY <1>1, <2>1
  <2> QED BY <2>2, <2>3 DEF Before
<1>9. \A e, k : Before(q, e, k) => Head(q)[1] # k
  BY <1>1 DEF Before
<1> QED BY <1>1, <1>2, <1>3, <1>4, <1>5, <1>6, <1>7, <1>8, <1>9

LEMMA CmdAppend ==
    ASSUME NEW q \in Seq(Cmd), NEW e \in Cmd
    PROVE  /\ Append(q, e) \in Seq(Cmd)
           /\ \A x : Has(Append(q, e), x) <=> Has(q, x) \/ x = e
           /\ \A k : Holds(Append(q, e), k) <=> Holds(q, k) \/ e[1] = k
           /\ Ordered(q) /\ (e[1] # "broadcast" \/ ~Holds(q, "shutdown"))
                => Ordered(Append(q, e))
           /\ \A x, k : Before(q, x, k) => Before(Append(q, e), x, k)
           /\ \A k : ~Holds(q, k) /\ e[1] # k => Before(Append(q, e), e, k)
<1>1. /\ Append(q, e) \in Seq(Cmd) /\ Len(Append(q, e)) = Len(q) + 1 /\ Len(q) \in Nat
      /\ Append(q, e)[Len(q) + 1] = e
      /\ \A i \in 1..Len(q) : Append(q, e)[i] = q[i]
  OBVIOUS
<1>2. \A x : Has(Append(q, e), x) <=> Has(q, x) \/ x = e
  BY <1>1 DEF Has
<1>3. \A k : Holds(Append(q, e), k) <=> Holds(q, k) \/ e[1] = k
  BY <1>1 DEF Holds
<1>4. Ordered(q) /\ (e[1] # "broadcast" \/ ~Holds(q, "shutdown")) => Ordered(Append(q, e))
  <2>1. CASE e[1] # "broadcast"
    BY <1>1, <2>1 DEF Ordered
  <2>2. CASE e[1] = "broadcast"
    BY <1>1, <2>2 DEF Ordered, Holds
  <2> QED BY <2>1, <2>2
<1>5. ASSUME NEW x, NEW k, Before(q, x, k) PROVE Before(Append(q, e), x, k)
  <2>1. PICK i \in 1..Len(q) : q[i] = x /\ \A j \in 1..Len(q) : q[j][1] = k => i < j
    BY <1>5 DEF Before
  <2>2. i \in 1..Len(Append(q, e)) /\ Append(q, e)[i] = x
    BY <1>1, <2>1
  <2>3. \A j \in 1..Len(Append(q, e)) : Append(q, e)[j][1] = k => i < j
    BY <1>1, <2>1
  <2> QED BY <2>2, <2>3 DEF Before
<1>6. ASSUME NEW k, ~Holds(q, k), e[1] # k PROVE Before(Append(q, e), e, k)
  <2>1. \A j \in 1..Len(Append(q, e)) : Append(q, e)[j][1] # k
    BY <1>1, <1>6 DEF Holds
  <2> QED BY <1>1, <2>1 DEF Before
<1> QED BY <1>1, <1>2, <1>3, <1>4, <1>5, <1>6

-----------------------------------------------------------------------------
(* The steps.                                                              *)

LEMMA SrvInitHolds == ServerInit => SrvIInv
<1> SUFFICES ASSUME ServerInit PROVE SrvIInv
  OBVIOUS
<1>1. SrvTyped
  BY DEF ServerInit, SrvTyped, Loops, Spot
<1>2. InHand
  BY DEF ServerInit, InHand, Loops
<1>3. GoneHasEnded /\ EndedAreTold
  BY DEF ServerInit, GoneHasEnded, EndedAreTold, Has
<1>4. StagesInOrder
  BY DEF ServerInit, StagesInOrder, Early, Ordered, Holds
<1>5. Reached
  BY DEF ServerInit, Reached, Pre
<1> QED BY <1>1, <1>2, <1>3, <1>4, <1>5 DEF SrvIInv

\* A connection moves on, and is unregistered at its end.
LEMMA ConnMoves ==
    ASSUME SrvIInv, SrvTyped', NEW c \in Conns, NEW to, conn' = [conn EXCEPT ![c] = to],
           UNCHANGED <<acceptor, stage, registry, loop, lateAccept>>,
           conn[c] # "held",
           told \subseteq told', failing \subseteq failing',
           ~lateAccept /\ to \in {"closing", "ended"} => c \in told' \cup failing',
           ~lateAccept /\ to = "ending" => c \in mail' \cup told' \cup failing',
           conn[c] \in {"ending", "ended"} => to \in {"ending", "ended"},
           to \in {"handshake", "setup", "serving"} => Pre(c) /\ (c \in mail => c \in mail'),
           \A d \in Conns \ {c} : d \in mail => d \in mail',
           \/ cmds' = cmds
           \/ cmds' = Append(cmds, <<"gone", c>>) /\ to \in {"ending", "ended"}
    PROVE  SrvIInv'
<1> USE DEF SrvIInv
<1>1. /\ \A d \in Conns : conn'[d] = IF d = c THEN to ELSE conn[d]
      /\ \A d \in Conns : Pre(d)' => Pre(d) /\ (d \in mail => d \in mail')
  BY DEF SrvTyped, Pre
<1>2. <<"gone", c>> \in Cmd /\ cmds \in Seq(Cmd)
  BY DEF Cmd, SrvTyped
<1>3. /\ \A x : Has(cmds', x) => Has(cmds, x) \/ (x = <<"gone", c>> /\ to \in {"ending", "ended"})
      /\ \A k \in {"broadcast", "shutdown"} : Holds(cmds', k) <=> Holds(cmds, k)
      /\ Ordered(cmds')
      /\ \A x, k : Before(cmds, x, k) => Before(cmds', x, k)
  <2>1. CASE cmds' = cmds
    BY <2>1 DEF StagesInOrder
  <2>2. CASE cmds' = Append(cmds, <<"gone", c>>) /\ to \in {"ending", "ended"}
    <3>1. <<"gone", c>>[1] = "gone" /\ Ordered(cmds)
      BY DEF StagesInOrder
    <3> HIDE DEF SrvIInv
    <3> QED BY <1>2, <2>2, <3>1, CmdAppend
  <2> QED BY <2>1, <2>2
<1>4. InHand'
  BY <1>1 DEF InHand, SrvTyped, Spot, Mine, Conns
<1>5. GoneHasEnded'
  BY <1>1, <1>3 DEF GoneHasEnded
<1>6. EndedAreTold'
  BY <1>1 DEF EndedAreTold
<1>7. StagesInOrder'
  BY <1>3 DEF StagesInOrder, Early
<1>8. Reached'
  BY <1>1, <1>3 DEF Reached, Waiting, Early
<1> QED BY <1>4, <1>5, <1>6, <1>7, <1>8

LEMMA ConnStep ==
    ASSUME SrvIInv, NEW c \in Conns, ClientConnects(c) \/ ThreadStep(c)
    PROVE  SrvIInv'
<1> USE DEF SrvIInv
<1>1. cmds \in Seq(Cmd) /\ <<"gone", c>> \in Cmd /\ Append(cmds, <<"gone", c>>) \in Seq(Cmd)
  BY CmdAppend DEF SrvTyped, Cmd
<1>2. CASE ClientConnects(c)
  <2>1. SrvTyped'
    BY <1>2 DEF ClientConnects, SrvTyped
  <2> QED BY <1>2, <2>1, ConnMoves DEF ClientConnects, Pre
<1>3. CASE HandshakeDone(c)
  <2>1. SrvTyped'
    BY <1>3 DEF HandshakeDone, Moves, SrvTyped
  <2> QED BY <1>3, <2>1, ConnMoves DEF HandshakeDone, Moves, Pre
<1>4. CASE HandshakeFails(c)
  <2>1. cmds' = cmds \/ cmds' = Append(cmds, <<"gone", c>>)
    BY <1>4 DEF HandshakeFails, Disconnected
  <2>2. SrvTyped'
    BY <1>1, <1>4, <2>1 DEF HandshakeFails, Moves, SrvTyped
  <2> QED BY <1>4, <2>1, <2>2, ConnMoves DEF HandshakeFails, Moves
<1>5. CASE SetupDone(c)
  <2>1. SrvTyped'
    BY <1>5 DEF SetupDone, Moves, SrvTyped
  <2> QED BY <1>5, <2>1, ConnMoves DEF SetupDone, Moves, Pre
<1>6. CASE SetupFails(c)
  <2>1. SrvTyped'
    BY <1>6 DEF SetupFails, Moves, SrvTyped
  <2> QED BY <1>6, <2>1, ConnMoves DEF SetupFails, Moves
<1>7. CASE WriteShuttingDown(c)
  <2>1. SrvTyped'
    BY <1>7 DEF WriteShuttingDown, SrvTyped
  <2>2. /\ told \subseteq told' /\ c \in told' \cup failing' /\ failing' = failing
        /\ \A d \in Conns \ {c} : d \in mail => d \in mail'
    BY <1>7 DEF WriteShuttingDown
  <2>3. PICK to \in {"closing", "ending"} :
           /\ conn' = [conn EXCEPT ![c] = to]
           /\ conn[c] = (IF to = "closing" THEN "serving" ELSE "ending")
    BY <1>7 DEF WriteShuttingDown
  <2>4. UNCHANGED <<acceptor, stage, registry, loop, lateAccept, cmds>>
    BY <1>7 DEF WriteShuttingDown
  <2> QED BY <2>1, <2>2, <2>3, <2>4, ConnMoves
<1>8. CASE ReaderEnds(c)
  <2>1. cmds' = cmds \/ cmds' = Append(cmds, <<"gone", c>>)
    BY <1>8 DEF ReaderEnds, Disconnected
  <2>2. SrvTyped'
    BY <1>1, <1>8, <2>1 DEF ReaderEnds, SrvTyped
  <2>3. ~lateAccept => c \in mail \cup told \cup failing
    <3>1. CASE conn[c] = "closing"
      BY <3>1 DEF EndedAreTold
    <3>2. CASE conn[c] = "serving" /\ loop = "ended"
      BY <3>2 DEF Reached, Pre, Waiting
    <3> QED BY <1>8, <3>1, <3>2 DEF ReaderEnds
  <2> QED BY <1>8, <2>1, <2>2, <2>3, ConnMoves DEF ReaderEnds
<1>9. CASE ThreadReturns(c)
  <2>1. SrvTyped'
    BY <1>9 DEF ThreadReturns, Moves, SrvTyped
  <2>2. ~lateAccept => c \in told \cup failing
    BY <1>9 DEF ThreadReturns, Moves, EndedAreTold
  <2> QED BY <1>9, <2>1, <2>2, ConnMoves DEF ThreadReturns, Moves
<1> QED BY <1>2, <1>3, <1>4, <1>5, <1>6, <1>7, <1>8, <1>9 DEF ThreadStep

\* An acceptor moves on.
LEMMA AcceptorMoves ==
    ASSUME SrvIInv, NEW a \in Acceptors, NEW s \in Spot,
           acceptor' = [acceptor EXCEPT ![a] = s],
           acceptor[a].at # "exited",
           UNCHANGED <<stage, lateAccept>>
    PROVE  /\ acceptor' \in [Acceptors -> Spot]
           /\ acceptor'[a] = s
           /\ \A b \in Acceptors \ {a} : acceptor'[b] = acceptor[b]
           /\ stage # "accepting" => acceptor'["main"].at = "exited"
           /\ ~lateAccept /\ ~Early => acceptor'["tcp"].at = "exited"
           /\ Early \/ lateAccept
<1> USE DEF SrvIInv
<1>1. acceptor' \in [Acceptors -> Spot] /\ acceptor'[a] = s
      /\ \A b \in Acceptors \ {a} : acceptor'[b] = acceptor[b]
  BY DEF SrvTyped
<1> QED BY <1>1 DEF StagesInOrder, Acceptors, Early

LEMMA AcceptorSteps ==
    ASSUME SrvIInv, NEW a \in Acceptors, AcceptorStep(a)
    PROVE  SrvIInv'
<1> USE DEF SrvIInv
<1>0. /\ UNCHANGED <<stage, told, failing, registry, mail, loop, lateAccept>>
      /\ acceptor[a].at # "exited"
      /\ \A at \in {"check", "accept", "exited"} : [at |-> at, with |-> "nobody"] \in Spot
  BY DEF AcceptorStep, CheckFlag, Accept, AcceptWakeup, TakeSlot, UndoSlot, Register, Spot
<1>1. CASE CheckFlag(a) \/ AcceptWakeup(a)
  <2>1. PICK at \in {"check", "accept", "exited"} :
           acceptor' = [acceptor EXCEPT ![a] = [at |-> at, with |-> "nobody"]]
    BY <1>1 DEF CheckFlag, AcceptWakeup, Goes
  <2>2. UNCHANGED <<conn, cmds>>
    BY <1>1 DEF CheckFlag, AcceptWakeup
  <2>3. /\ acceptor' \in [Acceptors -> Spot]
        /\ acceptor'[a] = [at |-> at, with |-> "nobody"]
        /\ \A b \in Acceptors \ {a} : acceptor'[b] = acceptor[b]
        /\ stage # "accepting" => acceptor'["main"].at = "exited"
        /\ ~lateAccept /\ ~Early => acceptor'["tcp"].at = "exited"
    BY <1>0, <2>1, AcceptorMoves
  <2>4. SrvTyped'
    BY <1>0, <2>2, <2>3 DEF SrvTyped
  <2>5. InHand'
    BY <2>2, <2>3 DEF InHand
  <2>6. GoneHasEnded' /\ EndedAreTold'
    BY <1>0, <2>2 DEF GoneHasEnded, EndedAreTold
  <2>7. StagesInOrder'
    BY <1>0, <2>2, <2>3 DEF StagesInOrder, Early
  <2>8. Reached'
    BY <1>0, <2>2 DEF Reached, Waiting, Early, Pre
  <2> QED BY <2>4, <2>5, <2>6, <2>7, <2>8
<1>2. CASE TakeSlot(a)
  <2>1. PICK at \in {"undo", "register"} :
           acceptor' = [acceptor EXCEPT ![a] = [at |-> at, with |-> acceptor[a].with]]
    BY <1>2 DEF TakeSlot, Goes
  <2>2. UNCHANGED <<conn, cmds>> /\ acceptor[a].at = "slot"
    BY <1>2 DEF TakeSlot
  <2>3. [at |-> at, with |-> acceptor[a].with] \in Spot
    BY DEF SrvTyped, Spot
  <2>4. /\ acceptor' \in [Acceptors -> Spot]
        /\ acceptor'[a] = [at |-> at, with |-> acceptor[a].with]
        /\ \A b \in Acceptors \ {a} : acceptor'[b] = acceptor[b]
        /\ stage # "accepting" => acceptor'["main"].at = "exited"
        /\ ~lateAccept /\ ~Early => acceptor'["tcp"].at = "exited"
    BY <1>0, <2>1, <2>3, AcceptorMoves
  <2>5. SrvTyped'
    BY <1>0, <2>2, <2>4 DEF SrvTyped
  <2>6. InHand'
    BY <2>2, <2>4 DEF InHand
  <2>7. GoneHasEnded' /\ EndedAreTold'
    BY <1>0, <2>2 DEF GoneHasEnded, EndedAreTold
  <2>8. StagesInOrder'
    BY <1>0, <2>2, <2>4 DEF StagesInOrder, Early
  <2>9. Reached'
    BY <1>0, <2>2 DEF Reached, Waiting, Early, Pre
  <2> QED BY <2>5, <2>6, <2>7, <2>8, <2>9
<1>3. ASSUME NEW c \in Conns, Accept(a, c) PROVE SrvIInv'
  <2>1. PICK s \in {[at |-> "exited", with |-> "nobody"], [at |-> "slot", with |-> c]} :
           /\ acceptor' = [acceptor EXCEPT ![a] = s]
           /\ conn' = [conn EXCEPT ![c] = IF s.at = "slot" THEN "held" ELSE "dropped"]
    BY <1>3 DEF Accept, Goes
  <2>2. UNCHANGED cmds /\ conn[c] = "backlog" /\ c \in Mine(a)
    BY <1>3 DEF Accept
  <2>3. s \in Spot
    BY DEF Spot
  <2>4. /\ acceptor' \in [Acceptors -> Spot]
        /\ acceptor'[a] = s
        /\ \A b \in Acceptors \ {a} : acceptor'[b] = acceptor[b]
        /\ stage # "accepting" => acceptor'["main"].at = "exited"
        /\ ~lateAccept /\ ~Early => acceptor'["tcp"].at = "exited"
    BY <1>0, <2>1, <2>3, AcceptorMoves
  <2>5. SrvTyped'
    BY <1>0, <2>1, <2>2, <2>4 DEF SrvTyped
  <2>6. conn'[c] = (IF s.at = "slot" THEN "held" ELSE "dropped")
        /\ \A d \in Conns \ {c} : conn'[d] = conn[d]
    BY <2>1 DEF SrvTyped
  <2>7. InHand'
    <3> SUFFICES ASSUME NEW b \in Acceptors, acceptor'[b].at \in {"slot", "undo", "register"}
                 PROVE  acceptor'[b].with \in Mine(b) /\ conn'[acceptor'[b].with] = "held"
      BY DEF InHand, Mine
    <3>1. CASE b = a
      BY <2>2, <2>4, <2>6, <3>1
    <3>2. CASE b # a
      <4>1. acceptor[b].with \in Mine(b) /\ conn[acceptor[b].with] = "held"
        BY <2>4, <3>2 DEF InHand
      <4>2. Mine(b) \subseteq Conns
        BY DEF Mine, Conns
      <4> QED BY <2>2, <2>4, <2>6, <3>2, <4>1, <4>2
    <3> QED BY <3>1, <3>2
  <2>8. GoneHasEnded' /\ EndedAreTold'
    BY <1>0, <2>2, <2>6 DEF GoneHasEnded, EndedAreTold
  <2>9. StagesInOrder'
    BY <1>0, <2>2, <2>4 DEF StagesInOrder, Early
  <2>10. Reached'
    BY <1>0, <2>2, <2>6 DEF Reached, Waiting, Early, Pre
  <2> QED BY <2>5, <2>7, <2>8, <2>9, <2>10
<1>4. ASSUME UndoSlot(a) \/ Register(a) PROVE SrvIInv'
  <2> DEFINE c == acceptor[a].with
  <2>1. c \in Mine(a) /\ c \in Conns /\ conn[c] = "held"
    BY <1>4 DEF UndoSlot, Register, InHand, Mine, Conns
  <2>2. PICK to \in {"dropped", "handshake", "setup"} :
           /\ conn' = [conn EXCEPT ![c] = to]
           /\ acceptor' = [acceptor EXCEPT ![a] = [at |-> "check", with |-> "nobody"]]
           /\ \/ to = "dropped" /\ cmds' = cmds
              \/ loop = "running" /\ cmds' = Append(cmds, <<"register", c>>)
              \/ loop # "running" /\ cmds' = cmds
    BY <1>4 DEF UndoSlot, Register, Goes
  <2> HIDE DEF c
  <2>3. /\ acceptor' \in [Acceptors -> Spot]
        /\ acceptor'[a] = [at |-> "check", with |-> "nobody"]
        /\ \A b \in Acceptors \ {a} : acceptor'[b] = acceptor[b]
        /\ stage # "accepting" => acceptor'["main"].at = "exited"
        /\ ~lateAccept /\ ~Early => acceptor'["tcp"].at = "exited"
        /\ Early \/ lateAccept
    BY <1>0, <2>2, AcceptorMoves
  <2>4. conn'[c] = to /\ \A d \in Conns \ {c} : conn'[d] = conn[d]
    BY <2>1, <2>2 DEF SrvTyped
  <2>5. /\ cmds' \in Seq(Cmd) /\ Ordered(cmds')
        /\ \A d : Has(cmds', <<"gone", d>>) => Has(cmds, <<"gone", d>>)
        /\ \A k \in {"broadcast", "shutdown"} : Holds(cmds', k) <=> Holds(cmds, k)
        /\ \A x, k : Before(cmds, x, k) => Before(cmds', x, k)
        /\ to # "dropped" /\ Early => Before(cmds', <<"register", c>>, "broadcast")
    <3>1. cmds \in Seq(Cmd) /\ Ordered(cmds) /\ <<"register", c>> \in Cmd
      BY <2>1 DEF SrvTyped, StagesInOrder, Cmd
    <3>2. <<"register", c>>[1] = "register" /\ \A d : <<"gone", d>> # <<"register", c>>
      OBVIOUS
    <3>3. Early => ~Holds(cmds, "broadcast") /\ loop = "running"
      BY DEF StagesInOrder
    <3> HIDE DEF SrvIInv
    <3>4. CASE cmds' = cmds
      BY <2>2, <3>1, <3>3, <3>4
    <3>5. CASE cmds' = Append(cmds, <<"register", c>>)
      BY <3>1, <3>2, <3>3, <3>5, CmdAppend
    <3> QED BY <2>2, <3>4, <3>5
  <2>6. SrvTyped'
    BY <1>0, <2>1, <2>2, <2>3, <2>5 DEF SrvTyped
  <2>7. InHand'
    <3> SUFFICES ASSUME NEW b \in Acceptors, acceptor'[b].at \in {"slot", "undo", "register"}
                 PROVE  acceptor'[b].with \in Mine(b) /\ conn'[acceptor'[b].with] = "held"
      BY DEF InHand, Mine
    <3>1. b # a /\ acceptor'[b] = acceptor[b]
      BY <2>3
    <3>2. acceptor[b].with \in Mine(b) /\ conn[acceptor[b].with] = "held"
      BY <3>1 DEF InHand
    <3>3. acceptor[b].with # c /\ acceptor[b].with \in Conns
      BY <2>1, <3>1, <3>2, ServerAssumption DEF Mine, Acceptors, Conns
    <3> QED BY <2>4, <3>1, <3>2, <3>3
  <2>8. GoneHasEnded' /\ EndedAreTold'
    BY <1>0, <2>1, <2>4, <2>5 DEF GoneHasEnded, EndedAreTold
  <2>9. StagesInOrder'
    BY <1>0, <2>3, <2>5 DEF StagesInOrder, Early
  <2>10. Reached'
    <3> SUFFICES ASSUME ~lateAccept, NEW d \in Conns, Pre(d)'
                 PROVE  d \in registry \/ Before(cmds', <<"register", d>>, "broadcast")
      BY <1>0, <2>3 DEF Reached, Waiting, StagesInOrder, Early
    <3>1. Waiting
      BY <2>3 DEF Waiting, StagesInOrder
    <3>2. CASE d = c
      BY <2>3, <2>4, <2>5, <3>2 DEF Pre
    <3>3. CASE d # c
      BY <2>4, <2>5, <3>1, <3>3 DEF Pre, Reached
    <3> QED BY <3>2, <3>3
  <2> QED BY <2>6, <2>7, <2>8, <2>9, <2>10
<1> QED BY <1>1, <1>2, <1>3, <1>4 DEF AcceptorStep

LEMMA LoopSteps ==
    ASSUME SrvIInv, LoopStep
    PROVE  SrvIInv'
<1> USE DEF SrvIInv
<1>0. UNCHANGED <<acceptor, stage, conn, told, failing, lateAccept>>
  BY DEF LoopStep, HandleCmd, SessionsJoined, ShutdownAll
<1>1. CASE SessionsJoined \/ ShutdownAll
  <2>1. /\ loop # "running" /\ loop' \in {"mcp", "ended"}
        /\ cmds' = cmds \/ cmds' = <<>>
        /\ UNCHANGED <<registry, mail>>
    BY <1>1 DEF SessionsJoined, ShutdownAll
  <2>2. /\ cmds' \in Seq(Cmd) /\ Ordered(cmds')
        /\ \A e : Has(cmds', e) => Has(cmds, e)
    <3>1. CASE cmds' = cmds
      BY <3>1 DEF SrvTyped, StagesInOrder
    <3>2. CASE cmds' = <<>>
      BY <3>2 DEF Ordered, Has
    <3> QED BY <2>1, <3>1, <3>2
  <2>3. SrvTyped'
    BY <1>0, <2>1, <2>2 DEF SrvTyped
  <2>4. InHand' /\ GoneHasEnded' /\ EndedAreTold'
    BY <1>0, <2>1, <2>2 DEF InHand, GoneHasEnded, EndedAreTold
  <2>5. StagesInOrder'
    BY <1>0, <2>1, <2>2 DEF StagesInOrder, Early
  <2>6. Reached'
    BY <1>0, <2>1 DEF Reached, Waiting, Pre
  <2> QED BY <2>3, <2>4, <2>5, <2>6
<1>2. CASE HandleCmd
  <2> DEFINE kind == Head(cmds)[1]
             who == Head(cmds)[2]
  <2>1. loop = "running" /\ cmds \in Seq(Cmd) /\ cmds # <<>> /\ cmds' = Tail(cmds)
    BY <1>2 DEF HandleCmd, SrvTyped
  <2>2. \/ kind = "register" /\ registry' = registry \cup {who} /\ UNCHANGED <<mail, loop>>
        \/ kind = "gone" /\ registry' = registry \ {who} /\ UNCHANGED <<mail, loop>>
        \/ /\ kind = "broadcast" /\ mail' = mail \cup Notified /\ registry' = Notified
           /\ UNCHANGED loop
        \/ kind = "shutdown" /\ loop' = "teardown" /\ UNCHANGED <<registry, mail>>
    BY <1>2 DEF HandleCmd
  <2>3. /\ cmds' \in Seq(Cmd) /\ Ordered(cmds')
        /\ Head(cmds) = <<kind, who>>
        /\ \A e : Has(cmds', e) => Has(cmds, e)
        /\ Has(cmds, Head(cmds)) /\ Holds(cmds, kind)
        /\ \A k : Holds(cmds', k) => Holds(cmds, k)
        /\ \A k : Holds(cmds, k) => kind = k \/ Holds(cmds', k)
        /\ kind = "shutdown" => ~Holds(cmds, "broadcast")
        /\ \A e, k : Before(cmds, e, k) /\ Head(cmds) # e => Before(cmds', e, k)
        /\ \A e, k : Before(cmds, e, k) => kind # k
    <3>1. Ordered(cmds)
      BY DEF StagesInOrder
    <3>2. Head(cmds) = <<kind, who>>
      BY <2>1, CmdTail DEF Cmd
    <3> HIDE DEF SrvIInv
    <3> QED BY <2>1, <3>1, <3>2, CmdTail
  <2> HIDE DEF kind, who
  <2>4. SrvTyped'
    BY <1>0, <2>2, <2>1, <2>3 DEF SrvTyped
  <2>5. InHand' /\ EndedAreTold'
    <3>1. mail \subseteq mail'
      BY <2>2
    <3> QED BY <1>0, <3>1 DEF InHand, EndedAreTold
  <2>6. GoneHasEnded'
    BY <1>0, <2>3 DEF GoneHasEnded
  <2>7. StagesInOrder'
    BY <1>0, <2>2, <2>3 DEF StagesInOrder, Early
  <2>8. Reached'
    <3> SUFFICES ASSUME ~lateAccept, NEW c \in Conns, Pre(c)
                 PROVE  IF Waiting'
                        THEN c \in registry' \/ Before(cmds', <<"register", c>>, "broadcast")
                        ELSE c \in mail'
      BY <1>0 DEF Reached, Pre
    <3>1. IF Waiting THEN c \in registry \/ Before(cmds, <<"register", c>>, "broadcast")
          ELSE c \in mail
      BY DEF Reached
    <3>2. Waiting' => Waiting
      BY <1>0, <2>1, <2>3 DEF Waiting, Early
    <3>3. CASE kind = "register"
      <4>1. Waiting => Waiting'
        BY <1>0, <2>1, <2>2, <2>3, <3>3 DEF Waiting, Early
      <4> QED BY <2>2, <2>3, <3>1, <3>2, <3>3, <4>1
    <3>4. CASE kind = "gone"
      <4>1. Waiting => Waiting'
        BY <1>0, <2>1, <2>2, <2>3, <3>4 DEF Waiting, Early
      <4>2. who # c
        BY <2>3, <3>4 DEF GoneHasEnded, Pre
      <4> QED BY <2>2, <2>3, <3>1, <3>2, <3>4, <4>1, <4>2
    <3>5. CASE kind = "broadcast"
      <4>1. Waiting
        BY <2>1, <2>3, <3>5 DEF Waiting
      <4>2. c \in Notified
        BY <2>3, <3>1, <3>5, <4>1 DEF Notified, Pre
      <4> QED BY <2>2, <3>5, <4>2
    <3>6. CASE kind = "shutdown"
      <4>1. ~Waiting /\ ~Waiting'
        BY <2>2, <2>3, <3>6 DEF Waiting, StagesInOrder
      <4> QED BY <2>2, <3>1, <3>6, <4>1
    <3> QED BY <2>2, <3>3, <3>4, <3>5, <3>6
  <2> QED BY <2>4, <2>5, <2>6, <2>7, <2>8
<1> QED BY <1>1, <1>2 DEF LoopStep

LEMMA MainSteps ==
    ASSUME SrvIInv, MainStep
    PROVE  SrvIInv'
<1> USE DEF SrvIInv
<1>0. UNCHANGED <<acceptor, conn, told, failing, registry, mail, loop>>
  BY DEF MainStep, Probe, JoinAccept, JoinLoop, JoinThreads
<1>1. CASE Probe
  <2>1. /\ stage = "accepting" /\ stage' = "joinAccept" /\ acceptor["main"].at = "exited"
        /\ UNCHANGED <<cmds, lateAccept>>
    BY <1>1 DEF Probe
  <2>2. SrvTyped' /\ InHand' /\ GoneHasEnded' /\ EndedAreTold'
    BY <1>0, <2>1 DEF SrvTyped, InHand, GoneHasEnded, EndedAreTold
  <2>3. StagesInOrder'
    BY <1>0, <2>1 DEF StagesInOrder, Early
  <2>4. Reached'
    BY <1>0, <2>1 DEF Reached, Waiting, Early, Pre
  <2> QED BY <2>2, <2>3, <2>4
<1>2. CASE JoinLoop \/ JoinThreads
  <2>1. /\ ~Early /\ stage' \in {"joinThreads", "done"} /\ UNCHANGED <<cmds, lateAccept>>
    BY <1>2 DEF JoinLoop, JoinThreads, Early
  <2>2. SrvTyped' /\ InHand' /\ GoneHasEnded' /\ EndedAreTold'
    BY <1>0, <2>1 DEF SrvTyped, InHand, GoneHasEnded, EndedAreTold
  <2>3. StagesInOrder'
    BY <1>0, <2>1 DEF StagesInOrder, Early
  <2>4. Reached'
    BY <1>0, <2>1 DEF Reached, Waiting, Early, Pre
  <2> QED BY <2>2, <2>3, <2>4
<1>3. CASE JoinAccept
  <2>1. /\ stage = "joinAccept" /\ stage' = "joinLoop"
        /\ \/ acceptor["tcp"].at = "exited" /\ lateAccept' = lateAccept
           \/ lateAccept' = TRUE
        /\ cmds' = cmds \o <<<<"broadcast", "all">>, <<"shutdown", "all">>>>
    BY <1>3 DEF JoinAccept, AcceptJoined
  <2> DEFINE B == <<"broadcast", "all">>
             S == <<"shutdown", "all">>
  <2>2. /\ loop = "running" /\ ~Holds(cmds, "broadcast") /\ ~Holds(cmds, "shutdown")
        /\ Ordered(cmds) /\ Early /\ acceptor["main"].at = "exited"
    BY <2>1 DEF StagesInOrder, Early
  <2>3. /\ cmds \in Seq(Cmd) /\ B \in Cmd /\ S \in Cmd
        /\ B[1] = "broadcast" /\ S[1] = "shutdown"
        /\ \A c : <<"gone", c>> # B /\ <<"gone", c>> # S
    BY DEF SrvTyped, Cmd
  <2>4. cmds' = Append(Append(cmds, B), S)
    BY <2>1, <2>3
  <2> HIDE DEF B, S
  <2>5. /\ cmds' \in Seq(Cmd) /\ Ordered(cmds') /\ Holds(cmds', "broadcast")
        /\ \A c : Has(cmds', <<"gone", c>>) => Has(cmds, <<"gone", c>>)
        /\ \A x, k : Before(cmds, x, k) => Before(cmds', x, k)
    <3> HIDE DEF SrvIInv
    <3>1. /\ Append(cmds, B) \in Seq(Cmd) /\ Ordered(Append(cmds, B))
          /\ Holds(Append(cmds, B), "broadcast")
          /\ \A c : Has(Append(cmds, B), <<"gone", c>>) => Has(cmds, <<"gone", c>>)
          /\ \A x, k : Before(cmds, x, k) => Before(Append(cmds, B), x, k)
      BY <2>2, <2>3, CmdAppend
    <3> QED BY <2>3, <2>4, <3>1, CmdAppend
  <2>6. SrvTyped' /\ InHand' /\ GoneHasEnded' /\ EndedAreTold'
    BY <1>0, <2>1, <2>5 DEF SrvTyped, InHand, GoneHasEnded, EndedAreTold
  <2>7. StagesInOrder'
    BY <1>0, <2>1, <2>2, <2>5 DEF StagesInOrder, Early
  <2>8. Reached'
    BY <1>0, <2>1, <2>2, <2>5 DEF Reached, Waiting, Pre
  <2> QED BY <2>6, <2>7, <2>8
<1> QED BY <1>1, <1>2, <1>3 DEF MainStep

LEMMA SrvStep == SrvIInv /\ [ServerNext]_serverVars => SrvIInv'
<1> SUFFICES ASSUME SrvIInv, [ServerNext]_serverVars PROVE SrvIInv'
  OBVIOUS
<1>1. ASSUME UNCHANGED <<acceptor, stage, conn, told, registry, mail, cmds, loop, lateAccept>>,
             failing \subseteq failing'
      PROVE  SrvIInv'
  BY <1>1 DEF SrvIInv, SrvTyped, InHand, GoneHasEnded, EndedAreTold, StagesInOrder, Early,
       Reached, Waiting, Pre
<1>2. CASE Signal \/ WakeMain \/ CallBlocks \/ (\E c \in Conns : ClientBreaks(c)) \/ UNCHANGED serverVars
  BY <1>1, <1>2 DEF Signal, WakeMain, CallBlocks, ClientBreaks, serverVars
<1> QED BY <1>2, ConnStep, AcceptorSteps, LoopSteps, MainSteps DEF ServerNext

-----------------------------------------------------------------------------
(* The result.                                                             *)

(* Every connection an acceptor registered is told of the shutdown, however *)
(* many there are and whatever is in the command queue: once the command    *)
(* loop has stopped, ShuttingDown is in the channel of each connection that *)
(* lives, and a connection that is over had it, has it yet to be written or *)
(* had a client that does not read; unless the join of the TCP accept thread was given up          *)
(* (run_server, register_client_writer, handle_broadcast_shutting_down).    *)
THEOREM ServerRegisteredAreTold == ServerSpec => []RegisteredAreTold
<1>1. SrvIInv => RegisteredAreTold
  BY DEF SrvIInv, EndedAreTold, Reached, Waiting, Pre, RegisteredAreTold
<1> QED BY <1>1, SrvInitHolds, SrvStep, PTL DEF ServerSpec

-----------------------------------------------------------------------------
(* Keystore *)

AnyKey == WrongKeys \cup (Clients \X Nat) \cup {NoKey}
Frame == {"unlock", "bind", "save", "lock", "subscribe"} \X AnyKey

KeysTyped ==
    /\ binding \in AnyKey
    /\ stored \in [Clients -> AnyKey] /\ pending \in [Clients -> AnyKey]
    /\ connects \in [Clients -> Nat]
    /\ up \subseteq Clients
    /\ outbox \in [Clients -> Seq(Frame)] /\ stale \in [Clients -> Seq(Frame)]

\* The key a client had before its first connection is never sent to bind.
Fresh(k) == \A d \in Clients : k # Minted(d, 0)
FreshKeys == (binding # NoKey => Fresh(binding)) /\ \A c \in up : connects[c] >= 1

\* A bind that is still to be read carries the key its client holds, one that
\* a later mint replaced, or comes too late to matter.
Sound(c, k) ==
    Fresh(k) /\ (binding # NoKey \/ k \in {NoKey} \cup replaced \/ k = stored[c])
SoundBinds(s, c) == \A i \in 1..Len(s) : s[i][1] = "bind" => Sound(c, s[i][2])
BindsKept == \A c \in Clients : SoundBinds(outbox[c], c) /\ SoundBinds(stale[c], c)

\* Before the daemon is bound a confirmation can only record what is stored
\* already; afterwards some holder of the binding waits for nothing else.
PendingAgrees == binding = NoKey => \A c \in Clients : pending[c] \in {NoKey, stored[c]}
SteadyHolder ==
    binding \notin {NoKey} \cup replaced =>
        \E c \in Clients : stored[c] = binding /\ pending[c] \in {NoKey, binding}

KsIInv == KeysTyped /\ FreshKeys /\ BindsKept /\ PendingAgrees /\ SteadyHolder

-----------------------------------------------------------------------------
(* The daemon's handlers.                                                  *)

\* Only a bind of an unbound daemon changes the binding.
LEMMA KsHandle ==
    ASSUME NEW to, NEW frame, Handle(to, frame)
    PROVE  \/ binding' = binding
           \/ frame[1] = "bind" /\ binding = NoKey /\ binding' = frame[2]
<1>1. CASE frame[1] = "unlock"
  BY <1>1 DEF Handle, HandleUnlock
<1>2. CASE frame[1] = "bind"
  BY <1>2 DEF Handle, HandleBindKeystore, Adopted
<1>3. CASE frame[1] = "save"
  BY <1>3 DEF Handle, HandleSaveCredential
<1>4. CASE frame[1] = "lock"
  BY <1>4 DEF Handle, HandleLock
<1>5. CASE frame[1] \notin {"unlock", "bind", "save", "lock"}
  BY <1>5 DEF Handle, HandleSubscribe
<1> QED BY <1>1, <1>2, <1>3, <1>4, <1>5

\* A frame leaves a queue, or joins it.
LEMMA KsTail ==
    ASSUME NEW s \in Seq(Frame), s # <<>>
    PROVE  /\ Head(s) \in Frame /\ Tail(s) \in Seq(Frame)
           /\ Len(s) >= 1 /\ Head(s) = s[1]
           /\ \A i \in 1..Len(Tail(s)) : i + 1 \in 1..Len(s) /\ Tail(s)[i] = s[i + 1]
OBVIOUS

LEMMA KsAppend ==
    ASSUME NEW s \in Seq(Frame), NEW f \in Frame
    PROVE  /\ Append(s, f) \in Seq(Frame)
           /\ \A i \in 1..Len(Append(s, f)) :
                 \/ Append(s, f)[i] = f
                 \/ i \in 1..Len(s) /\ Append(s, f)[i] = s[i]
OBVIOUS

LEMMA KsFrames ==
    ASSUME NEW k \in AnyKey
    PROVE  /\ Unlock(k) \in Frame /\ Bind(k) \in Frame /\ Save(k) \in Frame
           /\ Lock \in Frame /\ Subscribe \in Frame
           /\ Unlock(k)[1] # "bind" /\ Save(k)[1] # "bind" /\ Lock[1] # "bind"
           /\ Subscribe[1] # "bind" /\ Bind(k)[2] = k
BY DEF Unlock, Bind, Save, Lock, Subscribe, Frame, AnyKey

-----------------------------------------------------------------------------
(* The invariant.                                                          *)

LEMMA KsInitHolds == KeystoreInit => KsIInv
<1> SUFFICES ASSUME KeystoreInit PROVE KsIInv
  OBVIOUS
<1>1. KeysTyped
  BY DEF KeystoreInit, KeysTyped, AnyKey, Minted
<1>2. FreshKeys
  BY DEF KeystoreInit, FreshKeys, Fresh, Minted
<1>3. BindsKept
  BY DEF KeystoreInit, BindsKept, SoundBinds
<1>4. PendingAgrees /\ SteadyHolder
  BY DEF KeystoreInit, PendingAgrees, SteadyHolder
<1> QED BY <1>1, <1>2, <1>3, <1>4 DEF KsIInv

\* The daemon reads a frame of client c.
LEMMA KsServed ==
    ASSUME KsIInv, NEW c \in Clients, NEW f \in Frame, NEW to, Handle(to, f),
           f[1] = "bind" => Sound(c, f[2]),
           UNCHANGED <<connects, up, clientState, history>>
    PROVE  /\ binding' \in AnyKey /\ FreshKeys' /\ PendingAgrees' /\ SteadyHolder'
           /\ \A d \in Clients : \A k : Sound(d, k) => Sound(d, k)'
<1>1. \/ binding' = binding
      \/ f[1] = "bind" /\ binding = NoKey /\ binding' = f[2]
  BY KsHandle
<1>2. UNCHANGED <<stored, pending, replaced, connects, up>>
  BY DEF clientState, history
<1>3. CASE binding' = binding
  BY <1>2, <1>3 DEF KsIInv, KeysTyped, FreshKeys, Fresh, PendingAgrees, SteadyHolder,
        Sound, Minted
<1>4. CASE f[1] = "bind" /\ binding = NoKey /\ binding' = f[2]
  <2>1. binding' \in AnyKey
    BY <1>4 DEF Frame
  <2>2. Fresh(f[2]) /\ (f[2] \in {NoKey} \cup replaced \/ f[2] = stored[c])
    BY <1>4 DEF Sound
  <2>3. FreshKeys'
    BY <1>2, <1>4, <2>2 DEF KsIInv, FreshKeys, Fresh, Minted
  <2>4. PendingAgrees'
    BY <1>2, <1>4 DEF KsIInv, PendingAgrees
  <2>5. SteadyHolder'
    BY <1>2, <1>4, <2>2 DEF KsIInv, PendingAgrees, SteadyHolder
  <2>6. \A d \in Clients : \A k : Sound(d, k) => Sound(d, k)'
    BY <1>2, <1>4 DEF Sound, Fresh, Minted
  <2> QED BY <2>1, <2>3, <2>4, <2>5, <2>6
<1> QED BY <1>1, <1>3, <1>4

LEMMA KsServe ==
    ASSUME KsIInv, NEW c \in Clients, Serve(c) \/ ServeStale(c)
    PROVE  KsIInv'
<1> USE DEF KsIInv
<1>1. CASE Serve(c)
  <2>1. /\ outbox[c] \in Seq(Frame) /\ outbox[c] # <<>>
        /\ outbox' = [outbox EXCEPT ![c] = Tail(outbox[c])]
        /\ UNCHANGED <<connects, up, clientState, history, stale>>
    BY <1>1 DEF Serve, KeysTyped
  <2>2. /\ Head(outbox[c]) \in Frame /\ Tail(outbox[c]) \in Seq(Frame)
        /\ Head(outbox[c])[1] = "bind" => Sound(c, Head(outbox[c])[2])
        /\ SoundBinds(Tail(outbox[c]), c)
    BY <2>1, KsTail DEF BindsKept, SoundBinds
  <2>3. /\ binding' \in AnyKey /\ FreshKeys' /\ PendingAgrees' /\ SteadyHolder'
        /\ \A d \in Clients : \A k : Sound(d, k) => Sound(d, k)'
    BY <1>1, <2>1, <2>2, KsServed DEF Serve
  <2>4. outbox' \in [Clients -> Seq(Frame)]
    BY <2>1, <2>2 DEF KeysTyped
  <2>5. KeysTyped'
    BY <2>1, <2>3, <2>4 DEF KeysTyped, clientState
  <2>6. ASSUME NEW d \in Clients
        PROVE  SoundBinds(outbox[d], d)' /\ SoundBinds(stale[d], d)'
    <3>1. outbox'[d] = IF d = c THEN Tail(outbox[c]) ELSE outbox[d]
      BY <2>1 DEF KeysTyped
    <3>2. SoundBinds(outbox'[d], d)
      BY <2>2, <3>1 DEF BindsKept
    <3> QED BY <2>1, <2>3, <3>2 DEF SoundBinds, BindsKept
  <2> QED BY <2>3, <2>5, <2>6 DEF BindsKept
<1>2. CASE ServeStale(c)
  <2>1. /\ stale[c] \in Seq(Frame) /\ stale[c] # <<>>
        /\ stale' = [stale EXCEPT ![c] = Tail(stale[c])]
        /\ UNCHANGED <<connects, up, clientState, history, outbox>>
    BY <1>2 DEF ServeStale, KeysTyped
  <2>2. /\ Head(stale[c]) \in Frame /\ Tail(stale[c]) \in Seq(Frame)
        /\ Head(stale[c])[1] = "bind" => Sound(c, Head(stale[c])[2])
        /\ SoundBinds(Tail(stale[c]), c)
    BY <2>1, KsTail DEF BindsKept, SoundBinds
  <2>3. /\ binding' \in AnyKey /\ FreshKeys' /\ PendingAgrees' /\ SteadyHolder'
        /\ \A d \in Clients : \A k : Sound(d, k) => Sound(d, k)'
    BY <1>2, <2>1, <2>2, KsServed DEF ServeStale
  <2>4. stale' \in [Clients -> Seq(Frame)]
    BY <2>1, <2>2 DEF KeysTyped
  <2>5. KeysTyped'
    BY <2>1, <2>3, <2>4 DEF KeysTyped, clientState
  <2>6. ASSUME NEW d \in Clients
        PROVE  SoundBinds(outbox[d], d)' /\ SoundBinds(stale[d], d)'
    <3>1. stale'[d] = IF d = c THEN Tail(stale[c]) ELSE stale[d]
      BY <2>1 DEF KeysTyped
    <3>2. SoundBinds(stale'[d], d)
      BY <2>2, <3>1 DEF BindsKept
    <3> QED BY <2>1, <2>3, <3>2 DEF SoundBinds, BindsKept
  <2> QED BY <2>3, <2>5, <2>6 DEF BindsKept
<1> QED BY <1>1, <1>2

\* What a client's step has to show: the daemon's state and the old
\* connection's frames are left alone.
LEMMA KsFrame ==
    ASSUME KsIInv, NEW c \in Clients, NEW f \in Frame,
           UNCHANGED <<binding, connects, up, stale>>,
           outbox' = outbox \/ outbox' = [outbox EXCEPT ![c] = Append(outbox[c], f)],
           f[1] = "bind" => Sound(c, f[2])',
           stored' \in [Clients -> AnyKey], pending' \in [Clients -> AnyKey],
           \A d \in Clients : \A k : Sound(d, k) => Sound(d, k)'
    PROVE  KeysTyped' /\ FreshKeys' /\ BindsKept'
<1> USE DEF KsIInv
<1>1. Append(outbox[c], f) \in Seq(Frame)
  BY KsAppend DEF KeysTyped
<1>2. KeysTyped'
  BY <1>1 DEF KeysTyped
<1>3. FreshKeys'
  BY DEF FreshKeys, Fresh, Minted
<1>4. ASSUME NEW d \in Clients
      PROVE  SoundBinds(outbox[d], d)' /\ SoundBinds(stale[d], d)'
  <2>1. SoundBinds(stale[d], d)'
    BY DEF BindsKept, SoundBinds
  <2>2. CASE outbox'[d] = outbox[d]
    BY <2>1, <2>2 DEF BindsKept, SoundBinds
  <2>3. CASE d = c /\ outbox'[d] = Append(outbox[c], f)
    <3>1. \A i \in 1..Len(outbox'[d]) :
             \/ outbox'[d][i] = f
             \/ i \in 1..Len(outbox[d]) /\ outbox'[d][i] = outbox[d][i]
      BY <2>3, KsAppend DEF KeysTyped
    <3> QED BY <2>1, <2>3, <3>1 DEF BindsKept, SoundBinds
  <2> QED BY <2>2, <2>3 DEF KeysTyped
<1> QED BY <1>2, <1>3, <1>4 DEF BindsKept

\* Only the pending key moves, and not away from what is held.
LEMMA KsPending ==
    ASSUME KsIInv, NEW c \in Clients, NEW k \in AnyKey,
           UNCHANGED <<binding, stored, replaced>>,
           pending' = pending \/ pending' = [pending EXCEPT ![c] = k],
           k \in {NoKey, stored[c], binding}
    PROVE  /\ PendingAgrees' /\ SteadyHolder' /\ pending' \in [Clients -> AnyKey]
           /\ \A d \in Clients : \A key : Sound(d, key) => Sound(d, key)'
<1> USE DEF KsIInv
<1>1. pending' \in [Clients -> AnyKey]
  BY DEF KeysTyped
<1>2. PendingAgrees'
  BY DEF PendingAgrees, KeysTyped
<1>3. SteadyHolder'
  BY DEF SteadyHolder, KeysTyped
<1>4. \A d \in Clients : \A key : Sound(d, key) => Sound(d, key)'
  BY DEF Sound, Fresh, Minted
<1> QED BY <1>1, <1>2, <1>3, <1>4

LEMMA KsConnect ==
    ASSUME KsIInv, NEW c \in Clients, Connect(c)
    PROVE  KsIInv'
<1> USE DEF KsIInv
<1>1. /\ UNCHANGED <<binding, stored, replaced>>
      /\ connects' = [connects EXCEPT ![c] = connects[c] + 1]
      /\ up' = up \cup {c}
      /\ stale' = [stale EXCEPT ![c] = outbox[c]]
      /\ pending' = [pending EXCEPT ![c] = stored[c]]
  BY DEF Connect, daemonState
<1>2. \E s : /\ s = <<Subscribe>> \/ s = <<Unlock(stored[c]), Subscribe>>
             /\ outbox' = [outbox EXCEPT ![c] = s]
  BY DEF Connect
<1>3. PICK s : /\ s = <<Subscribe>> \/ s = <<Unlock(stored[c]), Subscribe>>
               /\ outbox' = [outbox EXCEPT ![c] = s]
  BY <1>2
<1>4. stored[c] \in AnyKey
  BY DEF KeysTyped
<1>5. s \in Seq(Frame) /\ SoundBinds(s, c)'
  <2>1. /\ Unlock(stored[c]) \in Frame /\ Subscribe \in Frame
        /\ Unlock(stored[c])[1] # "bind" /\ Subscribe[1] # "bind"
    BY <1>4, KsFrames
  <2>2. CASE s = <<Subscribe>>
    BY <2>1, <2>2 DEF SoundBinds
  <2>3. CASE s = <<Unlock(stored[c]), Subscribe>>
    BY <2>1, <2>3 DEF SoundBinds
  <2> QED BY <1>3, <2>2, <2>3
<1>6. /\ PendingAgrees' /\ SteadyHolder' /\ pending' \in [Clients -> AnyKey]
      /\ \A d \in Clients : \A k : Sound(d, k) => Sound(d, k)'
  BY <1>1, <1>4, KsPending
<1>7. KeysTyped'
  BY <1>1, <1>3, <1>5, <1>6 DEF KeysTyped
<1>8. FreshKeys'
  BY <1>1 DEF FreshKeys, Fresh, Minted, KeysTyped
<1>9. ASSUME NEW d \in Clients
      PROVE  SoundBinds(outbox[d], d)' /\ SoundBinds(stale[d], d)'
  <2>1. CASE d = c
    <3>1. outbox'[d] = s /\ stale'[d] = outbox[c]
      BY <1>1, <1>3, <2>1 DEF KeysTyped
    <3> QED BY <1>5, <1>6, <2>1, <3>1 DEF SoundBinds, BindsKept
  <2>2. CASE d # c
    <3>1. outbox'[d] = outbox[d] /\ stale'[d] = stale[d]
      BY <1>1, <1>3, <2>2 DEF KeysTyped
    <3> QED BY <1>6, <3>1 DEF SoundBinds, BindsKept
  <2> QED BY <2>1, <2>2
<1> QED BY <1>6, <1>7, <1>8, <1>9 DEF BindsKept

LEMMA KsDisconnect ==
    ASSUME KsIInv, NEW c \in Clients, Disconnect(c)
    PROVE  KsIInv'
<1> USE DEF KsIInv
<1>1. /\ UNCHANGED <<binding, stored, replaced, connects, stale>>
      /\ up' = up \ {c}
      /\ pending' = [pending EXCEPT ![c] = NoKey]
      /\ outbox' = outbox \/ outbox' = [outbox EXCEPT ![c] = <<>>]
  BY DEF Disconnect, history
<1>2. NoKey \in AnyKey
  BY DEF AnyKey
<1>3. /\ PendingAgrees' /\ SteadyHolder' /\ pending' \in [Clients -> AnyKey]
      /\ \A d \in Clients : \A k : Sound(d, k) => Sound(d, k)'
  BY <1>1, <1>2, KsPending
<1>4. outbox' \in [Clients -> Seq(Frame)]
  <2>1. <<>> \in Seq(Frame)
    OBVIOUS
  <2> QED BY <1>1, <2>1 DEF KeysTyped
<1>5. KeysTyped' /\ FreshKeys'
  BY <1>1, <1>3, <1>4 DEF KeysTyped, FreshKeys, Fresh, Minted
<1>6. ASSUME NEW d \in Clients
      PROVE  SoundBinds(outbox[d], d)' /\ SoundBinds(stale[d], d)'
  <2>1. SoundBinds(outbox'[d], d)
    <3>1. outbox'[d] = outbox[d] \/ outbox'[d] = <<>>
      BY <1>1 DEF KeysTyped
    <3>2. SoundBinds(<<>>, d)
      BY DEF SoundBinds
    <3> QED BY <3>1, <3>2 DEF BindsKept
  <2> QED BY <1>1, <1>3, <2>1 DEF SoundBinds, BindsKept
<1> QED BY <1>3, <1>5, <1>6 DEF BindsKept

\* The user's commands; no wrong key is typed.
LEMMA KsEnter ==
    ASSUME KsIInv, WrongKeys = {}, NEW c \in Clients,
           \/ \E k \in Key : EnterUnlock(c, k)
           \/ EnterAddKey(c)
           \/ EnterLock(c)
    PROVE  KsIInv'
<1> USE DEF KsIInv
<1>1. UNCHANGED <<binding, stored, replaced, connects, up, stale>>
  BY DEF EnterUnlock, EnterAddKey, EnterLock, Enters, daemonState, history
<1>2. PICK k \in AnyKey, f \in Frame :
         /\ k \in {NoKey, stored[c], binding}
         /\ f[1] # "bind"
         /\ pending' = pending \/ pending' = [pending EXCEPT ![c] = k]
         /\ outbox' = [outbox EXCEPT ![c] = Append(outbox[c], f)]
  <2>1. CASE \E k \in Key : EnterUnlock(c, k)
    <3>1. PICK k \in Key : EnterUnlock(c, k)
      BY <2>1
    <3>2. k \in {stored[c], binding} /\ k \in AnyKey
      BY <3>1 DEF EnterUnlock, KeysTyped
    <3>3. Unlock(k) \in Frame /\ Unlock(k)[1] # "bind"
      BY <3>2, KsFrames
    <3> QED BY <3>1, <3>2, <3>3 DEF EnterUnlock
  <2>2. CASE EnterAddKey(c)
    <3>1. stored[c] \in AnyKey
      BY DEF KeysTyped
    <3>2. Save(stored[c]) \in Frame /\ Save(stored[c])[1] # "bind"
      BY <3>1, KsFrames
    <3> QED BY <2>2, <3>1, <3>2 DEF EnterAddKey
  <2>3. CASE EnterLock(c)
    <3>1. NoKey \in AnyKey
      BY DEF AnyKey
    <3>2. Lock \in Frame /\ Lock[1] # "bind"
      BY <3>1, KsFrames
    <3> QED BY <2>3, <3>1, <3>2 DEF EnterLock
  <2> QED BY <2>1, <2>2, <2>3
<1>3. /\ PendingAgrees' /\ SteadyHolder' /\ pending' \in [Clients -> AnyKey]
      /\ \A d \in Clients : \A key : Sound(d, key) => Sound(d, key)'
  BY <1>1, <1>2, KsPending
<1>4. KeysTyped' /\ FreshKeys' /\ BindsKept'
  BY <1>1, <1>2, <1>3, KsFrame DEF KeysTyped
<1> QED BY <1>3, <1>4

LEMMA KsReceive ==
    ASSUME KsIInv, NEW c \in Clients, Receive(c)
    PROVE  KsIInv'
<1> USE DEF KsIInv
<1> DEFINE Keeps == \A d \in Clients : \A key : Sound(d, key) => Sound(d, key)'
<1>1. UNCHANGED <<binding, connects, up, stale>> /\ c \in up
  BY DEF Receive, ReceiveUnlocked, ReceiveAdded, ReceiveLocked, ReceiveLockedError,
         ReceiveAddFailed, ReceiveUnbound, Takes, daemonState
<1>2. NoKey \in AnyKey /\ Lock \in Frame /\ Lock[1] # "bind"
  BY KsFrames DEF AnyKey
<1>3. ASSUME UNCHANGED <<stored, replaced, outbox>>,
             pending' = pending \/ pending' = Discarded(c)
      PROVE  KsIInv'
  <2>1. /\ PendingAgrees' /\ SteadyHolder' /\ pending' \in [Clients -> AnyKey]
        /\ Keeps
    BY <1>1, <1>2, <1>3, KsPending DEF Discarded
  <2>2. KeysTyped' /\ FreshKeys' /\ BindsKept'
    BY <1>1, <1>2, <1>3, <2>1, KsFrame DEF KeysTyped
  <2> QED BY <2>1, <2>2
<1>4. ASSUME UNCHANGED <<replaced, outbox>>, stored' = Recorded(c), pending' = Discarded(c)
      PROVE  KsIInv'
  <2>1. stored' \in [Clients -> AnyKey] /\ pending' \in [Clients -> AnyKey]
    BY <1>2, <1>4 DEF Recorded, Discarded, KeysTyped
  <2>2. \A d \in Clients : stored'[d] = stored[d] \/ stored'[d] = pending[d]
    BY <1>4 DEF Recorded, KeysTyped
  <2>3. \A d \in Clients : binding = NoKey \/ (stored[d] = binding /\ pending[d] \in {NoKey, binding})
                           => stored'[d] = stored[d]
    BY <1>4 DEF Recorded, KeysTyped, PendingAgrees
  <2>4. PendingAgrees'
    BY <1>1, <1>4, <2>3 DEF PendingAgrees, Discarded, KeysTyped
  <2>5. SteadyHolder'
    BY <1>1, <1>4, <2>3 DEF SteadyHolder, Discarded, KeysTyped
  <2>6. Keeps
    BY <1>1, <1>4, <2>3 DEF Sound, Fresh, Minted
  <2>7. KeysTyped' /\ FreshKeys' /\ BindsKept'
    BY <1>1, <1>2, <1>4, <2>1, <2>6, KsFrame
  <2> QED BY <2>4, <2>5, <2>7
<1>5. ASSUME NEW k, k = Minted(c, connects[c]),
             stored' = PreSend(c, k),
             replaced' = replaced \cup ({stored[c]} \ {NoKey, Minted(c, 0)}),
             pending' = [pending EXCEPT ![c] = k],
             outbox' = [outbox EXCEPT ![c] = Append(outbox[c], Bind(k))]
      PROVE  KsIInv'
  <2>1. k \in AnyKey /\ Fresh(k)
    BY <1>1, <1>5 DEF AnyKey, Minted, Fresh, FreshKeys, KeysTyped
  <2>2. stored' \in [Clients -> AnyKey] /\ pending' \in [Clients -> AnyKey]
    BY <1>5, <2>1 DEF PreSend, KeysTyped
  <2>3. /\ \A d \in Clients \ {c} : stored'[d] = stored[d] /\ pending'[d] = pending[d]
        /\ stored'[c] = k /\ pending'[c] = k
    BY <1>5 DEF PreSend, KeysTyped
  <2>4. PendingAgrees'
    BY <1>1, <2>3 DEF PendingAgrees
  <2>5. SteadyHolder'
    BY <1>1, <1>5, <2>3 DEF SteadyHolder, FreshKeys, Fresh
  <2>6. Keeps
    BY <1>1, <1>5, <2>3 DEF Sound, Fresh, Minted
  <2>7. Bind(k) \in Frame /\ Sound(c, Bind(k)[2])'
    BY <2>1, <2>3, KsFrames DEF Sound, Fresh, Minted
  <2>8. KeysTyped' /\ FreshKeys' /\ BindsKept'
    BY <1>1, <1>5, <2>2, <2>6, <2>7, KsFrame
  <2> QED BY <2>4, <2>5, <2>8
<1>6. CASE ReceiveUnbound(c)
  BY <1>3, <1>5, <1>6 DEF ReceiveUnbound
<1> QED
  BY <1>3, <1>4, <1>6
     DEF Receive, ReceiveUnlocked, ReceiveAdded, ReceiveLocked, ReceiveLockedError,
         ReceiveAddFailed, history

LEMMA KsStep ==
    WrongKeys = {} /\ KsIInv /\ [KeystoreNext]_ksVars => KsIInv'
<1> SUFFICES ASSUME WrongKeys = {}, KsIInv, [KeystoreNext]_ksVars PROVE KsIInv'
  OBVIOUS
<1>1. ASSUME UNCHANGED <<binding, stored, pending, replaced, connects, up, outbox, stale>>
      PROVE  KsIInv'
  BY <1>1 DEF KsIInv, KeysTyped, FreshKeys, Fresh, BindsKept, SoundBinds, Sound,
       PendingAgrees, SteadyHolder, Minted
<1>2. ASSUME NEW c \in Clients, ReplyLocked(c) PROVE KsIInv'
  BY <1>1, <1>2 DEF ReplyLocked, daemonState, clientState
<1>3. CASE UNCHANGED ksVars
  BY <1>1, <1>3 DEF ksVars
<1> QED
  BY <1>2, <1>3, KsConnect, KsDisconnect, KsEnter, KsServe, KsReceive
     DEF KeystoreNext

-----------------------------------------------------------------------------
(* The results.                                                            *)

(* No orphaned binding: whoever wins the race to bind, and whether or not   *)
(* the confirmation arrives, the tail fails or the client goes, the key the *)
(* daemon adopted is in the store of some client, as long as users type no  *)
(* wrong key and no client has minted over it (bind_fresh_daemon,           *)
(* bind_keystore, record_confirmed_unlock_key).                             *)
THEOREM KeystoreBindingIsHeld ==
    ASSUME WrongKeys = {}
    PROVE  KeystoreSpec => []BindingIsHeld
<1>1. KsIInv => BindingIsHeld
  BY DEF KsIInv, SteadyHolder, BindingIsHeld
<1>2. KsIInv /\ [KeystoreNext]_ksVars => KsIInv'
  BY KsStep
<1> QED BY <1>1, <1>2, KsInitHolds, PTL DEF KeystoreSpec

(* Trust on first use: of two clients that bind an unbound daemon at the    *)
(* same time the first wins, and no later bind, unlock or save moves the    *)
(* binding, whatever keys are typed (bind_keystore,                         *)
(* verify_keystore_binding).                                                *)
THEOREM KeystoreNeverRebound == KeystoreSpec => NeverRebound
<1>1. [KeystoreNext]_ksVars => [binding # NoKey => binding' = binding]_ksVars
  <2> SUFFICES ASSUME KeystoreNext, binding # NoKey PROVE binding' = binding
    OBVIOUS
  <2>1. ASSUME NEW c \in Clients, Serve(c) \/ ServeStale(c) PROVE binding' = binding
    BY <2>1, KsHandle DEF Serve, ServeStale
  <2>2. ASSUME NEW c \in Clients,
               \/ Connect(c) \/ Disconnect(c) \/ ReplyLocked(c) \/ Receive(c)
               \/ \E k \in Key : EnterUnlock(c, k)
               \/ EnterAddKey(c) \/ EnterLock(c)
        PROVE  binding' = binding
    BY <2>2 DEF Connect, Disconnect, ReplyLocked, EnterUnlock, EnterAddKey, EnterLock,
         Enters, Receive, ReceiveUnlocked, ReceiveAdded, ReceiveLocked,
         ReceiveLockedError, ReceiveAddFailed, ReceiveUnbound, Takes, daemonState
  <2> QED BY <2>1, <2>2 DEF KeystoreNext
<1> QED BY <1>1, PTL DEF KeystoreSpec, NeverRebound
=============================================================================
