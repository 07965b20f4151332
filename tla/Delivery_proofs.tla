-------------------------- MODULE Delivery_proofs ---------------------------
(***************************************************************************)
(* Proofs about Delivery, for any finite set of clients, any sessions, and *)
(* any number of events, attachments, subscriptions, evictions and lost    *)
(* writers: no client reads an event twice, an attached client has its     *)
(* snapshot and every event after it, and no event is lost.                *)
(*                                                                         *)
(* The suppression of duplicates is a question of order. The daemon leaves *)
(* a client out of the fan-out of an event when the client is in           *)
(* client_subscribed_sessions at the moment the event is taken from the    *)
(* queue. Shield says that at a position of the queue: the last track or   *)
(* untrack command before it decides, or the entry in the map if there is  *)
(* none. Pairs says, for each client and session, that the commands on the *)
(* way and the log of the client fit: what the client got from the session *)
(* thread is shielded.                                                     *)
(*                                                                         *)
(* That nothing is lost is the other direction: a client the thread did    *)
(* not send an event to must not be tracked when the daemon comes to that  *)
(* event. Untracked says it of the end of the queue, and Debts of the      *)
(* place of every event that is owed and not delivered. It rests on what   *)
(* the threads and the connections know of each other: a thread that runs  *)
(* is in active_sessions (Threads), a connection holds no channel end      *)
(* newer than the thread (Waits), and a RemoveSubscriber never finds a     *)
(* client subscribed that is neither evicted nor cut off (Subscriptions).  *)
(***************************************************************************)
EXTENDS Delivery, SequenceTheorems, FiniteSetTheorems, TLAPS

-----------------------------------------------------------------------------
(* What is in the channels *)

Buses == {"BroadcastActivity", "BroadcastSessionStatus"}
Enlists == {"RegisterActivitySubscriber", "RegisterSummarySubscriber",
            "RegisterClientWriter"}
Unlists == {"UnregisterActivitySubscriber", "UnregisterSummarySubscriber"}
Books == {"TrackSessionSubscription", "UntrackSessionSubscription"}
OfClient == Enlists \cup Unlists \cup Books
            \cup {"AttachSession", "ClientDisconnected", "EvictClient"}
OfSession == Buses \cup Books \cup {"AttachSession", "SessionExited"}
Ops == OfClient \cup OfSession \cup {"EvictLargestLagging"}

Commands ==
    {m \in [op : Ops, client : Clients \cup {None}, session : Sessions \cup {None},
            msg : Items] :
        /\ m.op \in OfClient => m.client \in Clients
        /\ m.op \in OfSession => m.session \in Sessions
        /\ m.op \in Buses => m.msg.session = m.session /\ m.msg.n # 0
        /\ m.op = "BroadcastActivity" => m.msg.kind \in {"event", "status"}
        /\ m.op = "BroadcastSessionStatus" => m.msg.kind = "status"}
Parcels ==
    {m \in [op : {"Attach", "Detach", "RemoveSubscriber", "Shutdown"},
            client : Clients \cup {None}, session : Sessions, msg : {NoItem}] :
        m.op # "Shutdown" => m.client \in Clients}

Thread == [gen : Nat, up : BOOLEAN, busy : BOOLEAN, stop : BOOLEAN, status : Items]
Typed ==
    /\ daemonQ \in Seq(Commands)
    /\ active \subseteq Sessions /\ activity \subseteq Clients
    /\ summary \subseteq Clients /\ writers \subseteq Clients
    /\ tracked \subseteq Clients \X Sessions
    /\ thread \in [Sessions -> Thread]
    /\ \A s \in Sessions : thread[s].status # NoItem =>
         /\ thread[s].status.kind = "status" /\ thread[s].status.session = s
         /\ thread[s].status.n # 0
    /\ inbox \in [Sessions -> Seq(Parcels)]
    /\ subscribers \in [Sessions -> SUBSET Clients]
    /\ emitted \in [Sessions -> Nat]
    /\ conn \in [Clients -> {"new", "open", "closed"}]
    /\ awaiting \in [Clients -> [session : Sessions \cup {None}, gen : Nat]]
    /\ attached \in [Clients -> [session : Sessions \cup {None}, gen : Nat]]
    /\ writer \in [Clients -> {"run", "gone"}]
    /\ sink \in [Clients -> Seq(Items)]

\* A command about client c, and one about its subscription of session s
By(m, op, c) == m.op = op /\ m.client = c
Is(m, op, c, s) == m.op = op /\ m.client = c /\ m.session = s
Says(q, op, c) == \E i \in 1 .. Len(q) : By(q[i], op, c)
\* Event n of session s on a bus
On(m, bus, s, n) == m.op = bus /\ m.session = s /\ m.msg.n = n

-----------------------------------------------------------------------------
(* Who is a client *)

Noticed(log) == \E i \in 1 .. Len(log) : log[i].kind = "evicted"
Out(c) == writer[c] = "gone" \/ Noticed(sink[c])

Member(c, q, cn, reg, listed, log) ==
    /\ reg \/ Noticed(log) => cn # "new" /\ ~Says(q, "RegisterClientWriter", c)
    /\ Noticed(log) => ~reg
    /\ Says(q, "RegisterClientWriter", c) => cn # "new"
    /\ \A i, j \in 1 .. Len(q) : By(q[i], "RegisterClientWriter", c)
         /\ By(q[j], "RegisterClientWriter", c) => i = j
    /\ \A i \in 1 .. Len(q) : By(q[i], "ClientDisconnected", c) =>
         /\ cn = "closed"
         /\ \A j \in i + 1 .. Len(q) : \A op \in Enlists \cup {"ClientDisconnected"} :
              ~By(q[j], op, c)
    /\ cn = "closed" /\ ~Says(q, "ClientDisconnected", c) =>
         ~listed /\ \A op \in Enlists : ~Says(q, op, c)
Listed(c) == c \in activity \cup summary \cup writers
Membership ==
    \A c \in Clients : Member(c, daemonQ, conn[c], c \in writers, Listed(c), sink[c])

-----------------------------------------------------------------------------
(* What the daemon knows of a subscription when it comes to position i *)

\* The last of the commands on and off before i decides.
Latest(q, t, on, off, c, s, i) ==
    \/ \E j \in 1 .. i - 1 : /\ Is(q[j], on, c, s)
                             /\ \A k \in j + 1 .. i - 1 : ~Is(q[k], off, c, s)
    \/ t /\ \A k \in 1 .. i - 1 : ~Is(q[k], off, c, s)
TrackedAt(q, t, c, s, i) ==
    Latest(q, t, "TrackSessionSubscription", "UntrackSessionSubscription", c, s, i)
\* The connection is closed and the daemon knows it.
DroppedAt(q, cn, c, i) ==
    \/ cn = "closed" /\ ~Says(q, "ClientDisconnected", c)
    \/ \E j \in 1 .. i - 1 : By(q[j], "ClientDisconnected", c)
Shield(q, t, cn, c, s, i) == DroppedAt(q, cn, c, i) \/ TrackedAt(q, t, c, s, i)

-----------------------------------------------------------------------------
(* What a client has got *)

Ev(m, s, n) == m.kind \in {"event", "status"} /\ m.session = s /\ m.n = n
Snap(m, s) == m.kind = "snapshot" /\ m.session = s
Has(log, s, n) == \E i \in 1 .. Len(log) : Ev(log[i], s, n)
Since(log, s, n) == \A i \in 1 .. Len(log) : Snap(log[i], s) => log[i].n < n
LastSnap(log, s, p) ==
    /\ p \in 1 .. Len(log) /\ Snap(log[p], s)
    /\ \A i \in p + 1 .. Len(log) : ~Snap(log[i], s)

Log(log, e) ==
    /\ \A i \in 1 .. Len(log) : log[i].kind # "evicted" =>
         log[i].session \in Sessions /\ log[i].n <= e[log[i].session]
    /\ \A i, p \in 1 .. Len(log) : i < p /\ log[p].kind = "snapshot"
         /\ log[i].session = log[p].session /\ log[i].kind # "evicted" => log[i].n <= log[p].n
    /\ \A i, j \in 1 .. Len(log) :
         /\ i < j /\ log[i].kind = "event" /\ log[j].kind = "event"
         /\ log[i].session = log[j].session /\ log[i].n = log[j].n
         => \E k \in 1 .. j - 1 : log[k].kind = "evicted"
    /\ Noticed(log) => \E p \in 1 .. Len(log) : /\ log[p].kind = "evicted"
                                                /\ \A k \in 1 .. p - 1 : log[k].kind # "evicted"
Logs == \A c \in Clients : Log(sink[c], emitted)

\* The events are numbered in the order of the bus.
Ordered(q, e) ==
    /\ \A i \in 1 .. Len(q) : q[i].op \in Buses => q[i].msg.n <= e[q[i].session]
    /\ \A i, j \in 1 .. Len(q) : \A s \in Sessions : \A n \in Nat :
         On(q[i], "BroadcastActivity", s, n) /\ On(q[j], "BroadcastActivity", s, n) => i = j
    /\ \A i, j \in 1 .. Len(q) : \A s \in Sessions : \A n \in Nat :
         On(q[i], "BroadcastActivity", s, n) /\ On(q[j], "BroadcastSessionStatus", s, n) => i < j
Numbered ==
    /\ Ordered(daemonQ, emitted)
    /\ \A s \in Sessions : thread[s].status.n <= emitted[s]

Pair(c, s, q, t, cn, sub, log, e) ==
    /\ sub => Shield(q, t, cn, c, s, Len(q) + 1)
    /\ \A i \in 1 .. Len(q) : \A n \in Nat :
         On(q[i], "BroadcastActivity", s, n) /\ Has(log, s, n) => Shield(q, t, cn, c, s, i)
    /\ sub => \A i \in 1 .. Len(q) : \A n \in Nat :
         On(q[i], "BroadcastSessionStatus", s, n) /\ Since(log, s, n) => Shield(q, t, cn, c, s, i)
    /\ sub => \E p \in 1 .. Len(log) : LastSnap(log, s, p)
    /\ sub => \A n \in 1 .. e : Since(log, s, n) =>
         /\ Has(log, s, n)
         /\ \A i, j \in 1 .. Len(log) : Ev(log[i], s, n) /\ Ev(log[j], s, n) => i = j
Pairs ==
    \A c \in Clients, s \in Sessions : ~Out(c) =>
        Pair(c, s, daemonQ, <<c, s>> \in tracked, conn[c], c \in subscribers[s], sink[c],
             emitted[s])

DeliveryIInv == Typed /\ Membership /\ Logs /\ Numbered /\ Pairs

-----------------------------------------------------------------------------
(* Lemmas about sequences *)

LEMMA Joined ==
    ASSUME NEW S, NEW q \in Seq(S), NEW r \in Seq(S)
    PROVE  /\ q \o r \in Seq(S) /\ Len(q \o r) = Len(q) + Len(r)
           /\ \A i \in 1 .. Len(q) : (q \o r)[i] = q[i] /\ i \in 1 .. Len(q \o r)
           /\ \A i \in 1 .. Len(r) : (q \o r)[Len(q) + i] = r[i]
           /\ \A i \in 1 .. Len(q \o r) :
                i \in 1 .. Len(q) \/ (i - Len(q) \in 1 .. Len(r)
                                      /\ (q \o r)[i] = r[i - Len(q)])
           /\ Len(q) \in Nat /\ Len(r) \in Nat /\ Len(q \o r) \in Nat
OBVIOUS

LEMMA Added ==
    ASSUME NEW S, NEW q \in Seq(S), NEW m \in S
    PROVE  /\ q \o <<m>> \in Seq(S) /\ Len(q \o <<m>>) = Len(q) + 1 /\ Len(q) \in Nat
           /\ \A i \in 1 .. Len(q) : (q \o <<m>>)[i] = q[i] /\ i \in 1 .. Len(q \o <<m>>)
           /\ (q \o <<m>>)[Len(q) + 1] = m
           /\ \A i \in 1 .. Len(q \o <<m>>) : i \in 1 .. Len(q) \/ i = Len(q) + 1
           /\ Append(q, m) = q \o <<m>>
<1>1. /\ q \o <<m>> \in Seq(S) /\ Len(q \o <<m>>) = Len(q) + 1 /\ Len(q) \in Nat
      /\ (q \o <<m>>)[Len(q) + 1] = m /\ Append(q, m) = q \o <<m>>
      /\ \A i \in 1 .. Len(q) : (q \o <<m>>)[i] = q[i]
  OBVIOUS
<1>2. /\ \A i \in 1 .. Len(q) : i \in 1 .. Len(q \o <<m>>)
      /\ \A i \in 1 .. Len(q \o <<m>>) : i \in 1 .. Len(q) \/ i = Len(q) + 1
  BY <1>1
<1> QED
  BY <1>1, <1>2

LEMMA Regroup ==
    ASSUME NEW p \in Seq(Commands), NEW q \in Seq(Commands), NEW r \in Seq(Commands)
    PROVE  (p \o q) \o r = p \o (q \o r)
  BY ConcatAssociative, SMTT(30)

LEMMA Rest ==
    ASSUME NEW S, NEW q \in Seq(S), q # <<>>
    PROVE  /\ Tail(q) \in Seq(S) /\ Len(Tail(q)) = Len(q) - 1
           /\ Len(q) \in Nat \ {0} /\ Head(q) = q[1] /\ q[1] \in S /\ 1 \in 1 .. Len(q)
           /\ \A i \in 1 .. Len(Tail(q)) : Tail(q)[i] = q[i + 1] /\ i + 1 \in 2 .. Len(q)
           /\ \A i \in 1 .. Len(q) : i = 1 \/ (i - 1 \in 1 .. Len(Tail(q))
                                               /\ Tail(q)[i - 1] = q[i])
<1>1. /\ Tail(q) \in Seq(S) /\ Len(Tail(q)) = Len(q) - 1
      /\ Len(q) \in Nat \ {0} /\ Head(q) = q[1] /\ q[1] \in S
      /\ \A i \in 1 .. Len(q) - 1 : Tail(q)[i] = q[i + 1]
  OBVIOUS
<1>2. /\ \A i \in 1 .. Len(Tail(q)) : i + 1 \in 2 .. Len(q)
      /\ \A i \in 1 .. Len(q) : i = 1 \/ (i - 1 \in 1 .. Len(q) - 1 /\ i - 1 + 1 = i)
      /\ 1 \in 1 .. Len(q)
  BY <1>1
<1> QED
  BY <1>1, <1>2

-----------------------------------------------------------------------------
(* Lemmas about the last command *)

LEMMA LatestJoin ==
    ASSUME NEW S, NEW q \in Seq(S), NEW r \in Seq(S), NEW t, NEW on, NEW off, NEW c, NEW s,
           NEW i \in 1 .. Len(q) + 1
    PROVE  Latest(q \o r, t, on, off, c, s, i) <=> Latest(q, t, on, off, c, s, i)
<1>1. PICK z : z = q \o r
  OBVIOUS
<1>2. \A k \in 1 .. i - 1 : z[k] = q[k]
  BY <1>1, Joined
<1>3. \A j \in 1 .. i - 1 : \A k \in j + 1 .. i - 1 : z[k] = q[k]
  BY <1>2, Joined
<1> QED
  BY <1>1, <1>2, <1>3 DEF Latest

LEMMA LatestQuiet ==
    ASSUME NEW S, NEW q \in Seq(S), NEW r \in Seq(S), NEW t, NEW on, NEW off, NEW c, NEW s,
           \A i \in 1 .. Len(r) : ~Is(r[i], off, c, s)
    PROVE  /\ Latest(q, t, on, off, c, s, Len(q) + 1) =>
                Latest(q \o r, t, on, off, c, s, Len(q \o r) + 1)
           /\ (\A i \in 1 .. Len(r) : ~Is(r[i], on, c, s)) =>
                (Latest(q \o r, t, on, off, c, s, Len(q \o r) + 1) =>
                 Latest(q, t, on, off, c, s, Len(q) + 1))
<1>1. PICK z : z = q \o r
  OBVIOUS
<1>2. /\ Len(z) \in Nat /\ Len(q) \in Nat /\ Len(q) <= Len(z)
      /\ \A k \in 1 .. Len(q) : z[k] = q[k] /\ k \in 1 .. Len(z)
      /\ \A k \in 1 .. Len(z) : k \in 1 .. Len(q) \/ ~Is(z[k], off, c, s)
      /\ (\A i \in 1 .. Len(r) : ~Is(r[i], on, c, s)) =>
           \A k \in 1 .. Len(z) : k \in 1 .. Len(q) \/ ~Is(z[k], on, c, s)
  BY <1>1, Joined
<1>3. Len(z) + 1 - 1 = Len(z) /\ Len(q) + 1 - 1 = Len(q)
  BY <1>2
<1>4. \A j \in 1 .. Len(q) : \A k \in j + 1 .. Len(z) :
        k \in 1 .. Len(z) /\ (k \in 1 .. Len(q) => k \in j + 1 .. Len(q))
  BY <1>2
<1>5. \A j \in 1 .. Len(q) : \A k \in j + 1 .. Len(q) : k \in j + 1 .. Len(z) /\ k \in 1 .. Len(q)
  BY <1>2
<1>6. Latest(q, t, on, off, c, s, Len(q) + 1) => Latest(z, t, on, off, c, s, Len(z) + 1)
  BY <1>2, <1>3, <1>4 DEF Latest
<1>7. ASSUME \A i \in 1 .. Len(r) : ~Is(r[i], on, c, s),
             Latest(z, t, on, off, c, s, Len(z) + 1)
      PROVE  Latest(q, t, on, off, c, s, Len(q) + 1)
  BY <1>2, <1>3, <1>5, <1>7 DEF Latest
<1> QED
  BY <1>1, <1>6, <1>7

LEMMA LatestOnOff ==
    ASSUME NEW S, NEW q \in Seq(S), NEW m \in S, NEW t, NEW on, NEW off, NEW c, NEW s
    PROVE  /\ Is(m, on, c, s) => Latest(q \o <<m>>, t, on, off, c, s, Len(q \o <<m>>) + 1)
           /\ Is(m, off, c, s) /\ on # off =>
                ~Latest(q \o <<m>>, t, on, off, c, s, Len(q \o <<m>>) + 1)
<1>1. PICK z : z = q \o <<m>>
  OBVIOUS
<1>2. PICK l : l = Len(z)
  OBVIOUS
<1>3. l \in Nat \ {0} /\ z[l] = m
  BY <1>1, <1>2, Added
<1>4. /\ l \in 1 .. l /\ l + 1 - 1 = l /\ l + 1 .. l = {}
      /\ \A j \in 1 .. l : j = l \/ l \in j + 1 .. l
  BY <1>3
<1>5. Is(m, on, c, s) => Latest(z, t, on, off, c, s, l + 1)
  BY <1>3, <1>4 DEF Latest
<1>6. ASSUME Is(m, off, c, s), on # off, Latest(z, t, on, off, c, s, l + 1)
      PROVE  FALSE
  <2>1. PICK j \in 1 .. l : Is(z[j], on, c, s) /\ \A k \in j + 1 .. l : ~Is(z[k], off, c, s)
    BY <1>3, <1>4, <1>6 DEF Latest
  <2>2. j = l
    BY <2>1, <1>3, <1>4, <1>6
  <2> QED
    BY <2>1, <2>2, <1>3, <1>6 DEF Is
<1> QED
  BY <1>1, <1>2, <1>5, <1>6

LEMMA LatestTail ==
    ASSUME NEW S, NEW q \in Seq(S), q # <<>>, NEW t, NEW t2, NEW on, NEW off, NEW c, NEW s,
           NEW i \in 1 .. Len(q), on # off
    PROVE  /\ (Is(Head(q), on, c, s) => t2) /\ (t /\ ~Is(Head(q), off, c, s) => t2) =>
                (Latest(q, t, on, off, c, s, i + 1) => Latest(Tail(q), t2, on, off, c, s, i))
           /\ (t2 => Is(Head(q), on, c, s) \/ (t /\ ~Is(Head(q), off, c, s))) =>
                (Latest(Tail(q), t2, on, off, c, s, i) => Latest(q, t, on, off, c, s, i + 1))
<1>1. PICK u : u = Tail(q)
  OBVIOUS
<1>2. /\ i \in Nat \ {0} /\ i + 1 - 1 = i /\ 1 \in 1 .. i /\ Head(q) = q[1]
      /\ \A k \in 1 .. i - 1 : u[k] = q[k + 1] /\ k + 1 \in 2 .. i
      /\ \A k \in 1 .. i : k = 1 \/ (k - 1 \in 1 .. i - 1 /\ u[k - 1] = q[k])
  BY <1>1, Rest
<1>3. \A j \in 1 .. i - 1 : \A k \in j + 1 .. i - 1 :
        u[k] = q[k + 1] /\ k + 1 \in (j + 1) + 1 .. i /\ k \in 1 .. i - 1
  BY <1>2
<1>4. \A j \in 1 .. i : \A k \in j + 1 .. i :
        j # 1 => k - 1 \in (j - 1) + 1 .. i - 1 /\ u[k - 1] = q[k]
  BY <1>2
<1>5. \A k \in 1 + 1 .. i : k - 1 \in 1 .. i - 1 /\ u[k - 1] = q[k]
  BY <1>2
<1>6. ASSUME Is(q[1], on, c, s) => t2, t /\ ~Is(q[1], off, c, s) => t2,
             Latest(q, t, on, off, c, s, i + 1)
      PROVE  Latest(u, t2, on, off, c, s, i)
  <2>1. CASE t /\ \A k \in 1 .. i : ~Is(q[k], off, c, s)
    <3>1. t2 /\ \A k \in 1 .. i - 1 : ~Is(u[k], off, c, s)
      BY <2>1, <1>2, <1>6
    <3> QED
      BY <3>1 DEF Latest
  <2>2. ASSUME NEW j \in 1 .. i, Is(q[j], on, c, s), \A k \in j + 1 .. i : ~Is(q[k], off, c, s)
        PROVE  Latest(u, t2, on, off, c, s, i)
    <3>1. CASE j = 1
      <4>1. t2 /\ \A k \in 1 .. i - 1 : ~Is(u[k], off, c, s)
        BY <2>2, <3>1, <1>2, <1>6
      <4> QED
        BY <4>1 DEF Latest
    <3>2. CASE j # 1
      <4>1. PICK h : h = j - 1
        OBVIOUS
      <4>2. h \in 1 .. i - 1 /\ Is(u[h], on, c, s) /\ h + 1 = j
        BY <4>1, <2>2, <3>2, <1>2
      <4>3. \A k \in h + 1 .. i - 1 : ~Is(u[k], off, c, s)
        BY <4>2, <2>2, <1>3
      <4> QED
        BY <4>2, <4>3 DEF Latest
    <3> QED
      BY <3>1, <3>2
  <2>3. \/ \E j \in 1 .. i : /\ Is(q[j], on, c, s)
                            /\ \A k \in j + 1 .. i : ~Is(q[k], off, c, s)
        \/ t /\ \A k \in 1 .. i : ~Is(q[k], off, c, s)
    <3>1. PICK h : h = i + 1 - 1
      OBVIOUS
    <3>2. \/ \E j \in 1 .. h : /\ Is(q[j], on, c, s)
                              /\ \A k \in j + 1 .. h : ~Is(q[k], off, c, s)
          \/ t /\ \A k \in 1 .. h : ~Is(q[k], off, c, s)
      BY <3>1, <1>6 DEF Latest
    <3> QED
      BY <3>1, <3>2, <1>2
  <2> QED
    BY <2>1, <2>2, <2>3
<1>7. ASSUME t2 => Is(q[1], on, c, s) \/ (t /\ ~Is(q[1], off, c, s)),
             Latest(u, t2, on, off, c, s, i)
      PROVE  Latest(q, t, on, off, c, s, i + 1)
  <2>1. CASE t2 /\ \A k \in 1 .. i - 1 : ~Is(u[k], off, c, s)
    <3>1. \A k \in 1 .. i : k = 1 \/ ~Is(q[k], off, c, s)
      BY <2>1, <1>2
    <3>2. CASE Is(q[1], on, c, s)
      <4>1. \A k \in 1 + 1 .. i : ~Is(q[k], off, c, s)
        BY <2>1, <1>5
      <4> QED
        BY <3>2, <4>1, <1>2 DEF Latest
    <3>3. CASE t /\ ~Is(q[1], off, c, s)
      BY <3>1, <3>3, <1>2 DEF Latest
    <3> QED
      BY <2>1, <3>2, <3>3, <1>7
  <2>2. ASSUME NEW j \in 1 .. i - 1, Is(u[j], on, c, s),
               \A k \in j + 1 .. i - 1 : ~Is(u[k], off, c, s)
        PROVE  Latest(q, t, on, off, c, s, i + 1)
    <3>1. PICK h : h = j + 1
      OBVIOUS
    <3>2. h \in 1 .. i /\ Is(q[h], on, c, s) /\ h # 1 /\ h - 1 = j
      BY <3>1, <2>2, <1>2
    <3>3. \A k \in h + 1 .. i : ~Is(q[k], off, c, s)
      BY <3>2, <2>2, <1>4
    <3> QED
      BY <3>2, <3>3, <1>2 DEF Latest
  <2> QED
    BY <2>1, <2>2, <1>7 DEF Latest
<1> QED
  BY <1>1, <1>2, <1>6, <1>7

-----------------------------------------------------------------------------
(* Lemmas about the shield *)

LEMMA DroppedJoin ==
    ASSUME NEW q \in Seq(Commands), NEW r \in Seq(Commands), NEW c, NEW cn, NEW cn2,
           NEW i \in 1 .. Len(q) + 1, cn = "closed" => cn2 = "closed",
           cn # "closed" \/ ~Says(r, "ClientDisconnected", c), DroppedAt(q, cn, c, i)
    PROVE  DroppedAt(q \o r, cn2, c, i)
<1>1. PICK z : z = q \o r
  OBVIOUS
<1>2. /\ \A k \in 1 .. i - 1 : z[k] = q[k]
      /\ \A k \in 1 .. Len(z) : (k \in 1 .. Len(q) /\ z[k] = q[k])
           \/ (k - Len(q) \in 1 .. Len(r) /\ z[k] = r[k - Len(q)])
  BY <1>1, Joined
<1>3. CASE cn = "closed" /\ ~Says(q, "ClientDisconnected", c)
  BY <1>1, <1>2, <1>3 DEF DroppedAt, Says
<1>4. CASE \E j \in 1 .. i - 1 : By(q[j], "ClientDisconnected", c)
  BY <1>1, <1>2, <1>4 DEF DroppedAt
<1> QED
  BY <1>3, <1>4 DEF DroppedAt

LEMMA DroppedLater ==
    ASSUME NEW q, NEW c, NEW cn, NEW i \in Nat, NEW j \in Nat, i <= j, DroppedAt(q, cn, c, i)
    PROVE  DroppedAt(q, cn, c, j)
<1>1. \A k \in 1 .. i - 1 : k \in 1 .. j - 1
  OBVIOUS
<1> QED
  BY <1>1 DEF DroppedAt

LEMMA DroppedTail ==
    ASSUME NEW q \in Seq(Commands), q # <<>>, NEW c, NEW cn, NEW i \in 1 .. Len(q),
           By(Head(q), "ClientDisconnected", c) =>
             cn = "closed" /\ ~Says(Tail(q), "ClientDisconnected", c),
           DroppedAt(q, cn, c, i + 1)
    PROVE  DroppedAt(Tail(q), cn, c, i)
<1>1. PICK u : u = Tail(q)
  OBVIOUS
<1>2. /\ Head(q) = q[1] /\ i + 1 - 1 = i
      /\ \A k \in 1 .. Len(u) : u[k] = q[k + 1] /\ k + 1 \in 1 .. Len(q)
      /\ \A k \in 1 .. i : k = 1 \/ (k - 1 \in 1 .. i - 1 /\ u[k - 1] = q[k])
  BY <1>1, Rest
<1>3. CASE cn = "closed" /\ ~Says(q, "ClientDisconnected", c)
  BY <1>1, <1>2, <1>3 DEF DroppedAt, Says
<1>4. CASE \E j \in 1 .. i : By(q[j], "ClientDisconnected", c)
  BY <1>1, <1>2, <1>4 DEF DroppedAt
<1> QED
  BY <1>2, <1>3, <1>4 DEF DroppedAt

LEMMA ShieldJoin ==
    ASSUME NEW q \in Seq(Commands), NEW r \in Seq(Commands), NEW t, NEW c, NEW s, NEW cn, NEW cn2,
           cn = "closed" => cn2 = "closed",
           cn # "closed" \/ ~Says(r, "ClientDisconnected", c)
    PROVE  /\ \A i \in 1 .. Len(q) + 1 : Shield(q, t, cn, c, s, i) => Shield(q \o r, t, cn2, c, s, i)
           /\ (\A i \in 1 .. Len(r) : ~Is(r[i], "UntrackSessionSubscription", c, s)) =>
                (Shield(q, t, cn, c, s, Len(q) + 1) => Shield(q \o r, t, cn2, c, s, Len(q \o r) + 1))
<1>1. ASSUME NEW i \in 1 .. Len(q) + 1, Shield(q, t, cn, c, s, i)
      PROVE  Shield(q \o r, t, cn2, c, s, i)
  BY <1>1, DroppedJoin, LatestJoin DEF Shield, TrackedAt
<1>2. ASSUME \A i \in 1 .. Len(r) : ~Is(r[i], "UntrackSessionSubscription", c, s),
             Shield(q, t, cn, c, s, Len(q) + 1)
      PROVE  Shield(q \o r, t, cn2, c, s, Len(q \o r) + 1)
  <2>1. /\ Len(q) + 1 \in Nat /\ Len(q \o r) + 1 \in Nat /\ Len(q) + 1 <= Len(q \o r) + 1
        /\ Len(q) + 1 \in 1 .. Len(q) + 1
    BY Joined
  <2>2. CASE DroppedAt(q, cn, c, Len(q) + 1)
    <3>1. DroppedAt(q \o r, cn2, c, Len(q) + 1)
      BY <2>1, <2>2, DroppedJoin
    <3> QED
      BY <2>1, <3>1, DroppedLater DEF Shield
  <2>3. CASE TrackedAt(q, t, c, s, Len(q) + 1)
    BY <2>3, <1>2, LatestQuiet DEF Shield, TrackedAt
  <2> QED
    BY <1>2, <2>2, <2>3 DEF Shield
<1> QED
  BY <1>1, <1>2

LEMMA ShieldTail ==
    ASSUME NEW q \in Seq(Commands), q # <<>>, NEW t, NEW t2, NEW c, NEW s, NEW cn,
           NEW i \in 1 .. Len(q),
           By(Head(q), "ClientDisconnected", c) =>
             cn = "closed" /\ ~Says(Tail(q), "ClientDisconnected", c),
           Is(Head(q), "TrackSessionSubscription", c, s) => t2,
           t /\ ~By(Head(q), "ClientDisconnected", c)
             /\ ~Is(Head(q), "UntrackSessionSubscription", c, s) => t2,
           Shield(q, t, cn, c, s, i + 1)
    PROVE  Shield(Tail(q), t2, cn, c, s, i)
<1>1. CASE By(Head(q), "ClientDisconnected", c)
  BY <1>1 DEF Shield, DroppedAt
<1>2. CASE DroppedAt(q, cn, c, i + 1)
  BY <1>2, DroppedTail DEF Shield
<1>3. CASE TrackedAt(q, t, c, s, i + 1) /\ ~By(Head(q), "ClientDisconnected", c)
  BY <1>3, LatestTail DEF Shield, TrackedAt
<1> QED
  BY <1>1, <1>2, <1>3 DEF Shield

-----------------------------------------------------------------------------
(* Lemmas about one client and one session *)

\* Commands that matter to the subscription of s by c, and what follows them
Loud(m, c, s) ==
    /\ m.session = s
    /\ m.op \in Buses \/ (m.op = "UntrackSessionSubscription" /\ m.client = c)
Quiet(r, c, s) == \A i \in 1 .. Len(r) : ~Loud(r[i], c, s)

LEMMA PairJoin ==
    ASSUME NEW q \in Seq(Commands), NEW r \in Seq(Commands), NEW t, NEW c, NEW s, NEW cn, NEW cn2,
           NEW sub, NEW sub2, NEW log, NEW e, Pair(c, s, q, t, cn, sub, log, e),
           sub2 => sub, Quiet(r, c, s), cn = "closed" => cn2 = "closed",
           cn # "closed" \/ ~Says(r, "ClientDisconnected", c)
    PROVE  Pair(c, s, q \o r, t, cn2, sub2, log, e)
<1>1. PICK z : z = q \o r
  OBVIOUS
<1>2. /\ \A i \in 1 .. Len(q) + 1 : Shield(q, t, cn, c, s, i) => Shield(z, t, cn2, c, s, i)
      /\ Shield(q, t, cn, c, s, Len(q) + 1) => Shield(z, t, cn2, c, s, Len(z) + 1)
  BY <1>1, ShieldJoin DEF Quiet, Loud, Is
<1>3. \A i \in 1 .. Len(z) : \A n \in Nat : \A bus \in Buses :
        On(z[i], bus, s, n) => i \in 1 .. Len(q) /\ i \in 1 .. Len(q) + 1 /\ z[i] = q[i]
  BY <1>1, Joined DEF Quiet, Loud, On
<1>4. sub2 => Shield(z, t, cn2, c, s, Len(z) + 1)
  BY <1>2 DEF Pair
<1>5. \A i \in 1 .. Len(z) : \A n \in Nat :
        On(z[i], "BroadcastActivity", s, n) /\ Has(log, s, n) => Shield(z, t, cn2, c, s, i)
  BY <1>2, <1>3 DEF Pair, Buses
<1>6. sub2 => \A i \in 1 .. Len(z) : \A n \in Nat :
        On(z[i], "BroadcastSessionStatus", s, n) /\ Since(log, s, n) => Shield(z, t, cn2, c, s, i)
  BY <1>2, <1>3 DEF Pair, Buses
<1>7. Pair(c, s, z, t, cn2, sub2, log, e)
  BY <1>4, <1>5, <1>6 DEF Pair
<1> QED
  BY <1>1, <1>7

LEMMA PairTail ==
    ASSUME NEW q \in Seq(Commands), q # <<>>, NEW t, NEW t2, NEW c, NEW s, NEW cn,
           NEW sub, NEW sub2, NEW log, NEW e, Pair(c, s, q, t, cn, sub, log, e), sub2 => sub,
           By(Head(q), "ClientDisconnected", c) =>
             cn = "closed" /\ ~Says(Tail(q), "ClientDisconnected", c),
           Is(Head(q), "TrackSessionSubscription", c, s) => t2,
           t /\ ~By(Head(q), "ClientDisconnected", c)
             /\ ~Is(Head(q), "UntrackSessionSubscription", c, s) => t2
    PROVE  Pair(c, s, Tail(q), t2, cn, sub2, log, e)
<1>1. PICK u : u = Tail(q)
  OBVIOUS
<1>2. \A i \in 1 .. Len(q) : Shield(q, t, cn, c, s, i + 1) => Shield(u, t2, cn, c, s, i)
  BY <1>1, ShieldTail
<1>3. /\ Len(u) + 1 = Len(q) /\ Len(q) \in 1 .. Len(q)
      /\ \A i \in 1 .. Len(u) : u[i] = q[i + 1] /\ i + 1 \in 1 .. Len(q) /\ i \in 1 .. Len(q)
  BY <1>1, Rest
<1>4. sub2 => Shield(u, t2, cn, c, s, Len(u) + 1)
  BY <1>2, <1>3 DEF Pair
<1>5. \A i \in 1 .. Len(u) : \A n \in Nat :
        On(u[i], "BroadcastActivity", s, n) /\ Has(log, s, n) => Shield(u, t2, cn, c, s, i)
  BY <1>2, <1>3 DEF Pair
<1>6. sub2 => \A i \in 1 .. Len(u) : \A n \in Nat :
        On(u[i], "BroadcastSessionStatus", s, n) /\ Since(log, s, n) => Shield(u, t2, cn, c, s, i)
  BY <1>2, <1>3 DEF Pair
<1>7. Pair(c, s, u, t2, cn, sub2, log, e)
  BY <1>4, <1>5, <1>6 DEF Pair
<1> QED
  BY <1>1, <1>7

\* Something goes to the client's sink.
LEMMA Got ==
    ASSUME NEW log \in Seq(Items), NEW x \in Items
    PROVE  /\ \A s, n : Has(log \o <<x>>, s, n) <=> Has(log, s, n) \/ Ev(x, s, n)
           /\ \A s, n : Since(log \o <<x>>, s, n) <=> Since(log, s, n) /\ (Snap(x, s) => x.n < n)
           /\ \A s, p : LastSnap(log, s, p) /\ ~Snap(x, s) => LastSnap(log \o <<x>>, s, p)
           /\ \A s : Snap(x, s) => LastSnap(log \o <<x>>, s, Len(log) + 1)
           /\ Noticed(log \o <<x>>) <=> Noticed(log) \/ x.kind = "evicted"
           /\ Len(log) + 1 \in 1 .. Len(log \o <<x>>)
<1>1. PICK z : z = log \o <<x>>
  OBVIOUS
<1>2. PICK l : l = Len(log)
  OBVIOUS
<1>3. /\ \A i \in 1 .. l : z[i] = log[i] /\ i \in 1 .. l + 1
      /\ z[l + 1] = x /\ Len(z) = l + 1 /\ l \in Nat /\ l + 1 \in 1 .. l + 1
      /\ \A i \in 1 .. l + 1 : i \in 1 .. l \/ i = l + 1
  BY <1>1, <1>2, Added
<1>4. \A s, n : Has(z, s, n) <=> Has(log, s, n) \/ Ev(x, s, n)
  BY <1>2, <1>3 DEF Has
<1>5. \A s, n : Since(z, s, n) <=> Since(log, s, n) /\ (Snap(x, s) => x.n < n)
  BY <1>2, <1>3 DEF Since
<1>6. \A s, p : LastSnap(log, s, p) /\ ~Snap(x, s) => LastSnap(z, s, p)
  <2> SUFFICES ASSUME NEW s, NEW p, LastSnap(log, s, p), ~Snap(x, s)
               PROVE  LastSnap(z, s, p)
    OBVIOUS
  <2>1. p \in 1 .. l /\ Snap(log[p], s) /\ \A i \in p + 1 .. l : ~Snap(log[i], s)
    BY <1>2 DEF LastSnap
  <2>2. \A i \in p + 1 .. l + 1 : (i \in p + 1 .. l /\ i \in 1 .. l) \/ i = l + 1
    BY <2>1, <1>3
  <2>3. \A i \in p + 1 .. l + 1 : ~Snap(z[i], s)
    BY <2>1, <2>2, <1>3
  <2> QED
    BY <2>1, <2>3, <1>3 DEF LastSnap
<1>7. \A s : Snap(x, s) => LastSnap(z, s, l + 1)
  <2>1. (l + 1) + 1 .. l + 1 = {}
    BY <1>3
  <2> QED
    BY <2>1, <1>3 DEF LastSnap
<1>8. Noticed(z) <=> Noticed(log) \/ x.kind = "evicted"
  BY <1>2, <1>3 DEF Noticed
<1> QED
  BY <1>1, <1>2, <1>3, <1>4, <1>5, <1>6, <1>7, <1>8

\* It is of another session.
LEMMA PairOther ==
    ASSUME NEW q, NEW t, NEW c, NEW s, NEW cn, NEW sub, NEW log \in Seq(Items), NEW e,
           Pair(c, s, q, t, cn, sub, log, e), NEW x \in Items, x.session # s
    PROVE  Pair(c, s, q, t, cn, sub, log \o <<x>>, e)
<1>1. PICK z : z = log \o <<x>>
  OBVIOUS
<1>2. /\ \A n : Has(z, s, n) <=> Has(log, s, n)
      /\ \A n : Since(z, s, n) <=> Since(log, s, n)
      /\ \A p : LastSnap(log, s, p) => LastSnap(z, s, p)
  BY <1>1, Got DEF Ev, Snap
<1>3. /\ \A i \in 1 .. Len(log) : z[i] = log[i] /\ i \in 1 .. Len(z)
      /\ \A i \in 1 .. Len(z) : i \in 1 .. Len(log) \/ z[i] = x
  BY <1>1, Added
<1>4. Pair(c, s, q, t, cn, sub, z, e)
  <2>1. sub => \A n \in 1 .. e : Since(z, s, n) =>
          /\ Has(z, s, n)
          /\ \A i, j \in 1 .. Len(z) : Ev(z[i], s, n) /\ Ev(z[j], s, n) => i = j
    BY <1>2, <1>3, SMTT(30) DEF Pair, Ev
  <2> QED
    BY <2>1, <1>2, <1>3 DEF Pair
<1> QED
  BY <1>1, <1>4

\* It is an event of the session that comes from a bus.
LEMMA PairGot ==
    ASSUME NEW q, NEW t, NEW c, NEW s, NEW cn, NEW sub, NEW log \in Seq(Items), NEW e \in Nat,
           Pair(c, s, q, t, cn, sub, log, e), NEW x \in Items,
           x.kind \in {"event", "status"}, x.session = s,
           \A i \in 1 .. Len(q) : ~On(q[i], "BroadcastActivity", s, x.n),
           sub => ~Since(log, s, x.n)
    PROVE  Pair(c, s, q, t, cn, sub, log \o <<x>>, e)
<1>1. PICK z : z = log \o <<x>>
  OBVIOUS
<1>2. /\ \A n : Has(z, s, n) <=> Has(log, s, n) \/ n = x.n
      /\ \A n : Since(z, s, n) <=> Since(log, s, n)
      /\ \A p : LastSnap(log, s, p) => LastSnap(z, s, p)
  BY <1>1, Got DEF Ev, Snap
<1>3. /\ \A i \in 1 .. Len(log) : z[i] = log[i] /\ i \in 1 .. Len(z)
      /\ \A i \in 1 .. Len(z) : i \in 1 .. Len(log) \/ z[i] = x
  BY <1>1, Added
<1>4. Pair(c, s, q, t, cn, sub, z, e)
  <2>1. sub => \A n \in 1 .. e : Since(z, s, n) =>
          /\ Has(z, s, n)
          /\ \A i, j \in 1 .. Len(z) : Ev(z[i], s, n) /\ Ev(z[j], s, n) => i = j
    BY <1>2, <1>3, SMTT(30) DEF Pair, Ev
  <2>2. \A i \in 1 .. Len(q) : \A n \in Nat :
          On(q[i], "BroadcastActivity", s, n) /\ Has(z, s, n) => Shield(q, t, cn, c, s, i)
    BY <1>2 DEF Pair
  <2> QED
    BY <2>1, <2>2, <1>2, <1>3 DEF Pair
<1> QED
  BY <1>1, <1>4

\* The client is no subscriber any more; the daemon may be told so.
LEMMA PairQuit ==
    ASSUME NEW q \in Seq(Commands), NEW r \in Seq(Commands), NEW t, NEW c, NEW s, NEW cn,
           NEW sub, NEW sub2, NEW log, NEW e, Pair(c, s, q, t, cn, sub, log, e), ~sub2,
           \A i \in 1 .. Len(r) : r[i].op \notin Buses, ~Says(r, "ClientDisconnected", c)
    PROVE  Pair(c, s, q \o r, t, cn, sub2, log, e)
<1>1. PICK z : z = q \o r
  OBVIOUS
<1>2. \A i \in 1 .. Len(q) + 1 : Shield(q, t, cn, c, s, i) => Shield(z, t, cn, c, s, i)
  BY <1>1, ShieldJoin
<1>3. \A i \in 1 .. Len(z) : \A n \in Nat : On(z[i], "BroadcastActivity", s, n) =>
        i \in 1 .. Len(q) /\ i \in 1 .. Len(q) + 1 /\ z[i] = q[i]
  BY <1>1, Joined DEF On, Buses
<1>4. \A i \in 1 .. Len(z) : \A n \in Nat :
        On(z[i], "BroadcastActivity", s, n) /\ Has(log, s, n) => Shield(z, t, cn, c, s, i)
  BY <1>2, <1>3 DEF Pair
<1>5. Pair(c, s, z, t, cn, sub2, log, e)
  BY <1>4 DEF Pair
<1> QED
  BY <1>1, <1>5

\* Event e + 1: it is on the bus, and a subscriber has it.
LEMMA PairEmit ==
    ASSUME NEW q \in Seq(Commands), NEW m \in Commands, NEW t, NEW c, NEW s, NEW cn,
           NEW sub \in BOOLEAN, NEW log \in Seq(Items), NEW log2, NEW e \in Nat, NEW x \in Items,
           Pair(c, s, q, t, cn, sub, log, e),
           On(m, "BroadcastActivity", s, e + 1), Ev(x, s, e + 1),
           log2 = IF sub THEN log \o <<x>> ELSE log,
           \A i \in 1 .. Len(log) : log[i].session = s /\ log[i].kind # "evicted" => log[i].n <= e,
           \A i \in 1 .. Len(q) : q[i].op \in Buses /\ q[i].session = s => q[i].msg.n <= e
    PROVE  Pair(c, s, q \o <<m>>, t, cn, sub, log2, e + 1)
<1>1. PICK z : z = q \o <<m>>
  OBVIOUS
<1>2. /\ m.op = "BroadcastActivity" /\ m.session = s /\ m.msg.n = e + 1
      /\ \A n \in Nat : ~On(m, "BroadcastSessionStatus", s, n)
      /\ \A n \in Nat : On(m, "BroadcastActivity", s, n) => n = e + 1
      /\ ~Is(m, "UntrackSessionSubscription", c, s) /\ ~By(m, "ClientDisconnected", c)
  BY DEF On, Is, By
<1>3. /\ <<m>> \in Seq(Commands) /\ Len(<<m>>) = 1 /\ <<m>>[1] = m /\ \A i \in 1 .. 1 : i = 1
  OBVIOUS
<1>4. /\ \A i \in 1 .. Len(q) + 1 : Shield(q, t, cn, c, s, i) => Shield(z, t, cn, c, s, i)
      /\ Shield(q, t, cn, c, s, Len(q) + 1) => Shield(z, t, cn, c, s, Len(z) + 1)
  BY <1>1, <1>2, <1>3, ShieldJoin DEF Says
<1>5. /\ \A i \in 1 .. Len(z) : (i \in 1 .. Len(q) /\ i \in 1 .. Len(q) + 1 /\ z[i] = q[i])
                                \/ (i = Len(q) + 1 /\ z[i] = m)
      /\ Len(z) = Len(q) + 1 /\ Len(q) \in Nat /\ Len(q) + 1 \in 1 .. Len(q) + 1
  BY <1>1, Added
<1>6. ~Has(log, s, e + 1)
  <2>1. \A i \in 1 .. Len(log) : log[i].session = s /\ log[i].kind # "evicted" => log[i].n # e + 1
    <3>1. \A i \in 1 .. Len(log) : log[i] \in Items
      OBVIOUS
    <3>2. \A i \in 1 .. Len(log) : log[i].n \in Nat
      BY <3>1 DEF Items
    <3> QED
      BY <3>2
  <2> QED
    BY <2>1 DEF Has, Ev
<1>7. /\ \A n : Has(log2, s, n) <=> Has(log, s, n) \/ (sub /\ n = e + 1)
      /\ \A n : Since(log2, s, n) <=> Since(log, s, n)
      /\ \A p : LastSnap(log, s, p) => LastSnap(log2, s, p)
  BY Got DEF Ev, Snap
<1>8. sub => Shield(z, t, cn, c, s, Len(z) + 1)
  BY <1>4 DEF Pair
<1>9. ASSUME NEW i \in 1 .. Len(z), NEW n \in Nat, On(z[i], "BroadcastActivity", s, n),
             Has(log2, s, n)
      PROVE  Shield(z, t, cn, c, s, i)
  <2>1. CASE i \in 1 .. Len(q) /\ i \in 1 .. Len(q) + 1 /\ z[i] = q[i] /\ Has(log, s, n)
    BY <2>1, <1>4, <1>9 DEF Pair
  <2>2. CASE i \in 1 .. Len(q) + 1 /\ sub /\ n = e + 1
    <3>1. CASE i = Len(q) + 1
      BY <3>1, <2>2, <1>4 DEF Pair
    <3>2. CASE i \in 1 .. Len(q) /\ z[i] = q[i]
      <4>1. q[i].msg.n <= e /\ q[i].msg.n = e + 1
        BY <3>2, <1>9, <2>2 DEF On, Buses
      <4> QED
        BY <4>1
    <3> QED
      BY <3>1, <3>2, <1>5
  <2> QED
    BY <2>1, <2>2, <1>2, <1>5, <1>6, <1>7, <1>9
<1>10. ASSUME sub, NEW i \in 1 .. Len(z), NEW n \in Nat,
              On(z[i], "BroadcastSessionStatus", s, n), Since(log2, s, n)
       PROVE  Shield(z, t, cn, c, s, i)
  <2>1. i \in 1 .. Len(q) /\ i \in 1 .. Len(q) + 1 /\ z[i] = q[i]
    BY <1>2, <1>5, <1>10
  <2> QED
    BY <2>1, <1>4, <1>7, <1>10 DEF Pair
<1>11. sub => \E p \in 1 .. Len(log2) : LastSnap(log2, s, p)
  BY <1>7 DEF Pair, LastSnap
<1>12. ASSUME sub, NEW n \in 1 .. e + 1, Since(log2, s, n)
       PROVE  /\ Has(log2, s, n)
              /\ \A i, j \in 1 .. Len(log2) : Ev(log2[i], s, n) /\ Ev(log2[j], s, n) => i = j
  <2>1. /\ \A i \in 1 .. Len(log2) : (i \in 1 .. Len(log) /\ log2[i] = log[i])
                                     \/ (i = Len(log) + 1 /\ log2[i] = x)
    BY <1>12, Added
  <2>2. CASE n = e + 1
    <3>1. \A i \in 1 .. Len(log) : ~Ev(log[i], s, n)
      BY <2>2, <1>6 DEF Has
    <3> QED
      BY <2>1, <2>2, <3>1, <1>7, <1>12
  <2>3. CASE n \in 1 .. e
    <3>1. ~Ev(x, s, n)
      BY <2>3 DEF Ev
    <3>2. /\ Has(log, s, n)
          /\ \A i, j \in 1 .. Len(log) : Ev(log[i], s, n) /\ Ev(log[j], s, n) => i = j
      BY <2>3, <1>7, <1>12 DEF Pair
    <3> QED
      BY <2>1, <3>1, <3>2, <1>7
  <2>4. n = e + 1 \/ n \in 1 .. e
    OBVIOUS
  <2> QED
    BY <2>2, <2>3, <2>4
<1>13. Pair(c, s, z, t, cn, sub, log2, e + 1)
  BY <1>8, <1>9, <1>10, <1>11, <1>12 DEF Pair
<1> QED
  BY <1>1, <1>13

\* A status change of the session goes to the bus of the session list.
LEMMA PairForward ==
    ASSUME NEW q \in Seq(Commands), NEW m \in Commands, NEW t, NEW c, NEW s, NEW cn,
           NEW sub, NEW log, NEW e, Pair(c, s, q, t, cn, sub, log, e),
           m.op = "BroadcastSessionStatus"
    PROVE  Pair(c, s, q \o <<m>>, t, cn, sub, log, e)
<1>1. PICK z : z = q \o <<m>>
  OBVIOUS
<1>2. /\ \A n \in Nat : ~On(m, "BroadcastActivity", s, n)
      /\ ~Is(m, "UntrackSessionSubscription", c, s) /\ ~By(m, "ClientDisconnected", c)
  BY DEF On, Is, By
<1>3. /\ <<m>> \in Seq(Commands) /\ Len(<<m>>) = 1 /\ <<m>>[1] = m /\ \A i \in 1 .. 1 : i = 1
  OBVIOUS
<1>4. /\ \A i \in 1 .. Len(q) + 1 : Shield(q, t, cn, c, s, i) => Shield(z, t, cn, c, s, i)
      /\ Shield(q, t, cn, c, s, Len(q) + 1) => Shield(z, t, cn, c, s, Len(z) + 1)
  BY <1>1, <1>2, <1>3, ShieldJoin DEF Says
<1>5. /\ \A i \in 1 .. Len(z) : (i \in 1 .. Len(q) /\ i \in 1 .. Len(q) + 1 /\ z[i] = q[i])
                                \/ (i = Len(q) + 1 /\ z[i] = m /\ i \in 1 .. Len(q) + 1)
  BY <1>1, Added
<1>6. \A i \in 1 .. Len(z) : \A n \in Nat :
        On(z[i], "BroadcastActivity", s, n) /\ Has(log, s, n) => Shield(z, t, cn, c, s, i)
  BY <1>2, <1>4, <1>5 DEF Pair
<1>7. sub => \A i \in 1 .. Len(z) : \A n \in Nat :
        On(z[i], "BroadcastSessionStatus", s, n) /\ Since(log, s, n) => Shield(z, t, cn, c, s, i)
  BY <1>4, <1>5 DEF Pair
<1>8. Pair(c, s, z, t, cn, sub, log, e)
  BY <1>4, <1>6, <1>7 DEF Pair
<1> QED
  BY <1>1, <1>8

\* The client is attached: it gets a snapshot, and the daemon is told.
LEMMA PairAttach ==
    ASSUME NEW q \in Seq(Commands), NEW m \in Commands, NEW t, NEW c, NEW s, NEW cn,
           NEW sub, NEW sub2, NEW log \in Seq(Items), NEW e \in Nat, NEW x \in Items,
           Pair(c, s, q, t, cn, sub, log, e),
           Is(m, "TrackSessionSubscription", c, s), Snap(x, s), x.n = e,
           \A i \in 1 .. Len(q) : q[i].op \in Buses /\ q[i].session = s => q[i].msg.n <= e
    PROVE  Pair(c, s, q \o <<m>>, t, cn, sub2, log \o <<x>>, e)
<1>1. PICK z : z = q \o <<m>>
  OBVIOUS
<1>2. PICK log2 : log2 = log \o <<x>>
  OBVIOUS
<1>3. /\ \A n \in Nat, bus \in Buses : ~On(m, bus, s, n)
      /\ ~By(m, "ClientDisconnected", c)
  BY DEF On, Is, By, Buses
<1>4. /\ <<m>> \in Seq(Commands) /\ Len(<<m>>) = 1 /\ <<m>>[1] = m /\ \A i \in 1 .. 1 : i = 1
  OBVIOUS
<1>5. \A i \in 1 .. Len(q) + 1 : Shield(q, t, cn, c, s, i) => Shield(z, t, cn, c, s, i)
  BY <1>1, <1>3, <1>4, ShieldJoin DEF Says
<1>6. \A i \in 1 .. Len(z) : \A n \in Nat, bus \in Buses : On(z[i], bus, s, n) =>
        i \in 1 .. Len(q) /\ i \in 1 .. Len(q) + 1 /\ z[i] = q[i] /\ n <= e
  <2>1. \A i \in 1 .. Len(z) : z[i] = m
          \/ (i \in 1 .. Len(q) /\ i \in 1 .. Len(q) + 1 /\ z[i] = q[i])
    BY <1>1, Added
  <2>2. \A i \in 1 .. Len(q) : \A n \in Nat, bus \in Buses : On(q[i], bus, s, n) => n <= e
    BY DEF On
  <2> QED
    BY <2>1, <2>2, <1>3
<1>7. Shield(z, t, cn, c, s, Len(z) + 1)
  BY <1>1, LatestOnOff DEF Shield, TrackedAt
<1>8. /\ \A n : Has(log2, s, n) <=> Has(log, s, n)
      /\ \A n : Since(log2, s, n) => e < n
      /\ LastSnap(log2, s, Len(log) + 1) /\ Len(log) + 1 \in 1 .. Len(log2)
  BY <1>2, Got DEF Ev, Snap
<1>9. \A i \in 1 .. Len(z) : \A n \in Nat :
        On(z[i], "BroadcastActivity", s, n) /\ Has(log2, s, n) => Shield(z, t, cn, c, s, i)
  BY <1>5, <1>6, <1>8 DEF Pair, Buses
<1>10. \A i \in 1 .. Len(z) : \A n \in Nat :
        ~(On(z[i], "BroadcastSessionStatus", s, n) /\ Since(log2, s, n))
  <2>1. \A n \in Nat : ~(n <= e /\ e < n)
    OBVIOUS
  <2>2. "BroadcastSessionStatus" \in Buses
    BY DEF Buses
  <2> QED
    BY <1>6, <1>8, <2>1, <2>2
<1>11. \A n \in 1 .. e : ~Since(log2, s, n)
  BY <1>8
<1>12. Pair(c, s, z, t, cn, sub2, log2, e)
  BY <1>7, <1>8, <1>9, <1>10, <1>11 DEF Pair
<1> QED
  BY <1>1, <1>2, <1>12

-----------------------------------------------------------------------------
(* Lemmas about membership *)

\* A command that makes c a client of the daemon, or ends it
Joins(m, c) == \E op \in Enlists \cup {"ClientDisconnected"} : By(m, op, c)

LEMMA MemberJoin ==
    ASSUME NEW q \in Seq(Commands), NEW r \in Seq(Commands), NEW c, NEW cn, NEW reg, NEW reg2,
           NEW listed, NEW listed2, NEW log, NEW log2, Member(c, q, cn, reg, listed, log),
           \A i \in 1 .. Len(r) : ~Joins(r[i], c),
           reg2 => reg, listed2 => listed, Noticed(log2) => Noticed(log)
    PROVE  Member(c, q \o r, cn, reg2, listed2, log2)
<1>1. PICK z : z = q \o r
  OBVIOUS
<1>2. \A i \in 1 .. Len(z) : \A op \in Enlists \cup {"ClientDisconnected"} :
        By(z[i], op, c) => i \in 1 .. Len(q) /\ z[i] = q[i]
  <2>1. /\ \A i \in 1 .. Len(q) : z[i] = q[i]
        /\ \A i \in 1 .. Len(z) :
             i \in 1 .. Len(q) \/ (i - Len(q) \in 1 .. Len(r) /\ z[i] = r[i - Len(q)])
    BY <1>1, Joined
  <2>2. \A i \in 1 .. Len(r) : \A op \in Enlists \cup {"ClientDisconnected"} : ~By(r[i], op, c)
    BY DEF Joins
  <2> QED
    BY <2>1, <2>2
<1>3. /\ \A i \in 1 .. Len(q) : z[i] = q[i] /\ i \in 1 .. Len(z)
      /\ Len(q) \in Nat
  BY <1>1, Joined
<1>4. \A op \in Enlists \cup {"ClientDisconnected"} : Says(z, op, c) <=> Says(q, op, c)
  BY <1>2, <1>3 DEF Says
<1>5. "RegisterClientWriter" \in Enlists
  BY DEF Enlists
<1>6. ASSUME NEW i \in 1 .. Len(z), By(z[i], "ClientDisconnected", c)
      PROVE  /\ cn = "closed"
             /\ \A j \in i + 1 .. Len(z) : \A op \in Enlists \cup {"ClientDisconnected"} :
                  ~By(z[j], op, c)
  <2>1. i \in 1 .. Len(q) /\ By(q[i], "ClientDisconnected", c)
    BY <1>2, <1>6
  <2>2. /\ cn = "closed"
        /\ \A j \in i + 1 .. Len(q) : \A op \in Enlists \cup {"ClientDisconnected"} :
             ~By(q[j], op, c)
    BY <2>1 DEF Member
  <2>3. \A j \in i + 1 .. Len(z) : j \in 1 .. Len(z) /\ (j \in 1 .. Len(q) => j \in i + 1 .. Len(q))
    BY <2>1, <1>3
  <2> QED
    BY <2>2, <2>3, <1>2
<1>7. Member(c, z, cn, reg2, listed2, log2)
  BY <1>2, <1>4, <1>5, <1>6 DEF Member
<1> QED
  BY <1>1, <1>7

LEMMA MemberTail ==
    ASSUME NEW q \in Seq(Commands), q # <<>>, NEW c, NEW cn, NEW reg, NEW reg2,
           NEW listed, NEW listed2, NEW log, NEW log2, Member(c, q, cn, reg, listed, log),
           reg2 => reg \/ By(Head(q), "RegisterClientWriter", c),
           listed2 => listed \/ \E op \in Enlists : By(Head(q), op, c),
           By(Head(q), "ClientDisconnected", c) => ~listed2,
           Noticed(log2) => Noticed(log) \/ (reg /\ ~reg2)
    PROVE  /\ Member(c, Tail(q), cn, reg2, listed2, log2)
           /\ By(Head(q), "ClientDisconnected", c) =>
                cn = "closed" /\ ~Says(Tail(q), "ClientDisconnected", c)
<1>1. PICK u : u = Tail(q)
  OBVIOUS
<1>2. /\ Head(q) = q[1] /\ 1 \in 1 .. Len(q)
      /\ \A k \in 1 .. Len(u) : u[k] = q[k + 1] /\ k + 1 \in 2 .. Len(q) /\ k + 1 \in 1 .. Len(q)
      /\ \A k \in 1 .. Len(q) : k = 1 \/ (k - 1 \in 1 .. Len(u) /\ u[k - 1] = q[k])
      /\ Len(q) = Len(u) + 1 /\ Len(u) \in Nat
  BY <1>1, Rest
<1>3. \A op : Says(q, op, c) <=> By(q[1], op, c) \/ Says(u, op, c)
  BY <1>2 DEF Says
<1>4. \A i, j \in 1 .. Len(q) : By(q[i], "RegisterClientWriter", c)
        /\ By(q[j], "RegisterClientWriter", c) => i = j
  BY DEF Member
<1>5. \A i, j \in 1 .. Len(u) : By(u[i], "RegisterClientWriter", c)
        /\ By(u[j], "RegisterClientWriter", c) => i = j
  BY <1>2, <1>4
<1>6. By(q[1], "RegisterClientWriter", c) => ~Says(u, "RegisterClientWriter", c)
  <2>1. \A k \in 1 .. Len(u) : k + 1 # 1
    BY <1>2
  <2> QED
    BY <1>2, <1>4, <2>1 DEF Says
<1>7. ASSUME NEW i \in 1 .. Len(u), By(u[i], "ClientDisconnected", c)
      PROVE  /\ cn = "closed"
             /\ \A j \in i + 1 .. Len(u) : \A op \in Enlists \cup {"ClientDisconnected"} :
                  ~By(u[j], op, c)
  <2>1. /\ cn = "closed"
        /\ \A j \in (i + 1) + 1 .. Len(q) : \A op \in Enlists \cup {"ClientDisconnected"} :
             ~By(q[j], op, c)
    BY <1>2, <1>7 DEF Member
  <2>2. \A j \in i + 1 .. Len(u) : j \in 1 .. Len(u) /\ j + 1 \in (i + 1) + 1 .. Len(q)
    BY <1>2
  <2> QED
    BY <2>1, <2>2, <1>2
<1>8. By(q[1], "ClientDisconnected", c) =>
        /\ cn = "closed"
        /\ \A op \in Enlists \cup {"ClientDisconnected"} : ~Says(u, op, c)
  <2>1. \A k \in 1 .. Len(u) : k + 1 \in 1 + 1 .. Len(q)
    BY <1>2
  <2> QED
    BY <2>1, <1>2 DEF Member, Says
<1>9. "RegisterClientWriter" \in Enlists
  BY DEF Enlists
<1>10. reg2 \/ Noticed(log2) => cn # "new" /\ ~Says(u, "RegisterClientWriter", c)
  BY <1>2, <1>3, <1>6 DEF Member
<1>11. Noticed(log2) => ~reg2
  BY <1>2, <1>3 DEF Member
<1>12. cn = "closed" /\ ~Says(u, "ClientDisconnected", c) =>
         ~listed2 /\ \A op \in Enlists : ~Says(u, op, c)
  BY <1>2, <1>3, <1>8 DEF Member
<1>13. Member(c, u, cn, reg2, listed2, log2)
  BY <1>3, <1>5, <1>7, <1>10, <1>11, <1>12 DEF Member
<1> QED
  BY <1>1, <1>2, <1>8, <1>13

\* The client connects or subscribes.
LEMMA MemberSays ==
    ASSUME NEW q \in Seq(Commands), NEW m \in Commands, NEW c, NEW cn, NEW reg,
           NEW listed, NEW log, Member(c, q, cn, reg, listed, log), m.client = c,
           m.op \in Enlists, cn # "closed", m.op = "RegisterClientWriter" => cn = "new"
    PROVE  Member(c, q \o <<m>>, "open", reg, listed, log)
<1>1. PICK z : z = q \o <<m>>
  OBVIOUS
<1>2. /\ \A i \in 1 .. Len(z) : (i \in 1 .. Len(q) /\ z[i] = q[i]) \/ (i = Len(q) + 1 /\ z[i] = m)
      /\ \A i \in 1 .. Len(q) : z[i] = q[i] /\ i \in 1 .. Len(z)
  BY <1>1, Added
<1>3. ~By(m, "ClientDisconnected", c)
  BY DEF By, Enlists
<1>4. \A i \in 1 .. Len(z) : ~By(z[i], "ClientDisconnected", c)
  BY <1>2, <1>3 DEF Member
<1>5. By(m, "RegisterClientWriter", c) => cn = "new"
  BY DEF By
<1>6. cn = "new" => ~reg /\ ~Noticed(log) /\ ~Says(q, "RegisterClientWriter", c)
  BY DEF Member
<1>7. CASE By(m, "RegisterClientWriter", c)
  <2>1. \A i \in 1 .. Len(q) : ~By(q[i], "RegisterClientWriter", c)
    BY <1>5, <1>6, <1>7 DEF Says
  <2>2. \A i, j \in 1 .. Len(z) : By(z[i], "RegisterClientWriter", c)
          /\ By(z[j], "RegisterClientWriter", c) => i = j
    BY <2>1, <1>2
  <2>3. Member(c, z, "open", reg, listed, log)
    BY <2>2, <1>4, <1>5, <1>6, <1>7 DEF Member
  <2> QED
    BY <2>3, <1>1
<1>8. CASE ~By(m, "RegisterClientWriter", c)
  <2>1. Says(z, "RegisterClientWriter", c) => Says(q, "RegisterClientWriter", c)
    BY <1>2, <1>8 DEF Says
  <2>2. \A i, j \in 1 .. Len(z) : By(z[i], "RegisterClientWriter", c)
          /\ By(z[j], "RegisterClientWriter", c) => i = j
    BY <1>2, <1>8 DEF Member
  <2>3. Member(c, z, "open", reg, listed, log)
    BY <2>1, <2>2, <1>4 DEF Member
  <2> QED
    BY <2>3, <1>1
<1> QED
  BY <1>7, <1>8

\* The client leaves.
LEMMA MemberLeaves ==
    ASSUME NEW q \in Seq(Commands), NEW m \in Commands, NEW c, NEW reg,
           NEW listed, NEW log, Member(c, q, "open", reg, listed, log),
           By(m, "ClientDisconnected", c)
    PROVE  Member(c, q \o <<m>>, "closed", reg, listed, log)
<1>1. PICK z : z = q \o <<m>>
  OBVIOUS
<1>2. /\ \A i \in 1 .. Len(z) : (i \in 1 .. Len(q) /\ z[i] = q[i]) \/ (i = Len(q) + 1 /\ z[i] = m)
      /\ Len(z) = Len(q) + 1 /\ Len(q) + 1 \in 1 .. Len(z) /\ z[Len(q) + 1] = m
      /\ Len(q) \in Nat
  BY <1>1, Added
<1>3. ~By(m, "RegisterClientWriter", c)
  BY DEF By
<1>4. \A i \in 1 .. Len(q) : ~By(q[i], "ClientDisconnected", c)
  BY DEF Member
<1>5. Says(z, "RegisterClientWriter", c) => Says(q, "RegisterClientWriter", c)
  BY <1>2, <1>3 DEF Says
<1>6. \A i, j \in 1 .. Len(z) : By(z[i], "RegisterClientWriter", c)
        /\ By(z[j], "RegisterClientWriter", c) => i = j
  BY <1>2, <1>3 DEF Member
<1>7. Says(z, "ClientDisconnected", c)
  BY <1>2 DEF Says
<1>8. ASSUME NEW i \in 1 .. Len(z), By(z[i], "ClientDisconnected", c)
      PROVE  \A j \in i + 1 .. Len(z) : FALSE
  <2>1. i = Len(q) + 1
    BY <1>2, <1>4, <1>8
  <2> QED
    BY <2>1, <1>2
<1>9. Member(c, z, "closed", reg, listed, log)
  BY <1>5, <1>6, <1>7, <1>8 DEF Member
<1> QED
  BY <1>1, <1>9

-----------------------------------------------------------------------------
(* Lemmas about sinks and about the numbers of events *)

LEMMA LogMore ==
    ASSUME NEW log \in Seq(Items), NEW e \in [Sessions -> Nat], NEW e2 \in [Sessions -> Nat],
           \A s \in Sessions : e[s] <= e2[s], Log(log, e)
    PROVE  Log(log, e2)
<1>1. \A i \in 1 .. Len(log) : log[i] \in Items
  OBVIOUS
<1>2. \A i \in 1 .. Len(log) : log[i].n \in Nat
  BY <1>1 DEF Items
<1>3. \A i \in 1 .. Len(log) : log[i].kind # "evicted" =>
        log[i].session \in Sessions /\ log[i].n <= e2[log[i].session]
  <2> SUFFICES ASSUME NEW i \in 1 .. Len(log), log[i].kind # "evicted"
               PROVE  log[i].session \in Sessions /\ log[i].n <= e2[log[i].session]
    OBVIOUS
  <2>1. PICK s : s = log[i].session
    OBVIOUS
  <2>2. s \in Sessions /\ log[i].n <= e[s] /\ e[s] \in Nat /\ e2[s] \in Nat
    BY <2>1 DEF Log
  <2> QED
    BY <2>1, <2>2, <1>2
<1> QED
  BY <1>3 DEF Log

LEMMA LogGot ==
    ASSUME NEW log \in Seq(Items), NEW e \in [Sessions -> Nat], Log(log, e), NEW x \in Items,
           x.kind # "evicted", x.session \in Sessions, x.n <= e[x.session],
           x.kind = "snapshot" => x.n = e[x.session],
           x.kind = "event" => ~Has(log, x.session, x.n) \/ Noticed(log)
    PROVE  Log(log \o <<x>>, e)
<1>1. PICK z : z = log \o <<x>>
  OBVIOUS
<1>2. PICK l : l = Len(log)
  OBVIOUS
<1>3. /\ \A i \in 1 .. l : z[i] = log[i]
      /\ z[l + 1] = x /\ Len(z) = l + 1 /\ l \in Nat
      /\ \A i \in 1 .. l + 1 : i \in 1 .. l \/ i = l + 1
  BY <1>1, <1>2, Added
<1>4. \A i \in 1 .. l + 1 : z[i].kind # "evicted" =>
        z[i].session \in Sessions /\ z[i].n <= e[z[i].session]
  BY <1>2, <1>3 DEF Log
<1>5. ASSUME NEW i \in 1 .. l + 1, NEW p \in 1 .. l + 1, i < p, z[p].kind = "snapshot",
             z[i].session = z[p].session, z[i].kind # "evicted"
      PROVE  z[i].n <= z[p].n
  <2>1. i \in 1 .. l /\ z[i] = log[i]
    BY <1>3, <1>5
  <2>2. CASE p \in 1 .. l
    BY <2>1, <2>2, <1>2, <1>3, <1>5 DEF Log
  <2>3. CASE p = l + 1
    <3>1. log[i].n <= e[log[i].session]
      BY <2>1, <1>2, <1>5 DEF Log
    <3> QED
      BY <3>1, <2>1, <2>3, <1>3, <1>5
  <2> QED
    BY <2>2, <2>3, <1>3
<1>6. ASSUME NEW i \in 1 .. l + 1, NEW j \in 1 .. l + 1, i < j, z[i].kind = "event",
             z[j].kind = "event", z[i].session = z[j].session, z[i].n = z[j].n
      PROVE  \E k \in 1 .. j - 1 : z[k].kind = "evicted"
  <2>1. i \in 1 .. l /\ z[i] = log[i]
    BY <1>3, <1>6
  <2>2. CASE j \in 1 .. l
    <3>1. \E k \in 1 .. j - 1 : log[k].kind = "evicted"
      BY <2>1, <2>2, <1>2, <1>3, <1>6, SMTT(30) DEF Log
    <3>2. \A k \in 1 .. j - 1 : k \in 1 .. l
      BY <2>2, <1>3
    <3> QED
      BY <3>1, <3>2, <1>3
  <2>3. CASE j = l + 1
    <3>1. Has(log, x.session, x.n)
      BY <2>1, <2>3, <1>2, <1>3, <1>6 DEF Has, Ev
    <3>2. PICK k \in 1 .. l : log[k].kind = "evicted"
      BY <3>1, <2>3, <1>2, <1>3, <1>6 DEF Noticed
    <3>3. k \in 1 .. j - 1
      BY <2>3, <1>3
    <3> QED
      BY <3>2, <3>3, <1>3
  <2> QED
    BY <2>2, <2>3, <1>3
<1>7. Noticed(z) => \E p \in 1 .. l + 1 : /\ z[p].kind = "evicted"
                                          /\ \A k \in 1 .. p - 1 : z[k].kind # "evicted"
  <2>1. SUFFICES ASSUME Noticed(z)
                 PROVE  \E p \in 1 .. l + 1 : /\ z[p].kind = "evicted"
                                              /\ \A k \in 1 .. p - 1 : z[k].kind # "evicted"
    OBVIOUS
  <2>2. Noticed(log)
    BY <2>1, <1>2, <1>3 DEF Noticed
  <2>3. PICK p \in 1 .. l : log[p].kind = "evicted" /\ \A k \in 1 .. p - 1 : log[k].kind # "evicted"
    BY <2>2, <1>2 DEF Log
  <2>4. p \in 1 .. l + 1 /\ \A k \in 1 .. p - 1 : k \in 1 .. l
    BY <2>3, <1>3
  <2> QED
    BY <2>3, <2>4, <1>3
<1>8. Log(z, e)
  BY <1>3, <1>4, <1>5, <1>6, <1>7 DEF Log
<1> QED
  BY <1>1, <1>8

LEMMA LogNotice ==
    ASSUME NEW log \in Seq(Items), NEW e \in [Sessions -> Nat], Log(log, e), NEW x \in Items,
           x.kind = "evicted"
    PROVE  Log(log \o <<x>>, e)
<1>1. PICK z : z = log \o <<x>>
  OBVIOUS
<1>2. PICK l : l = Len(log)
  OBVIOUS
<1>3. /\ \A i \in 1 .. l : z[i] = log[i]
      /\ z[l + 1] = x /\ Len(z) = l + 1 /\ l \in Nat
      /\ \A i \in 1 .. l + 1 : i \in 1 .. l \/ i = l + 1
  BY <1>1, <1>2, Added
<1>4. \A i \in 1 .. l + 1 : z[i].kind # "evicted" => i \in 1 .. l
  BY <1>3
<1>5. \A i \in 1 .. l + 1 : z[i].kind # "evicted" =>
        z[i].session \in Sessions /\ z[i].n <= e[z[i].session]
  BY <1>2, <1>3, <1>4 DEF Log
<1>6. \A i, p \in 1 .. l + 1 : i < p /\ z[p].kind = "snapshot"
         /\ z[i].session = z[p].session /\ z[i].kind # "evicted" => z[i].n <= z[p].n
  BY <1>2, <1>3, <1>4 DEF Log
<1>7. ASSUME NEW i \in 1 .. l + 1, NEW j \in 1 .. l + 1, i < j, z[i].kind = "event",
             z[j].kind = "event", z[i].session = z[j].session, z[i].n = z[j].n
      PROVE  \E k \in 1 .. j - 1 : z[k].kind = "evicted"
  <2>1. i \in 1 .. l /\ j \in 1 .. l
    BY <1>4, <1>7
  <2>2. \E k \in 1 .. j - 1 : log[k].kind = "evicted"
    BY <2>1, <1>2, <1>3, <1>7 DEF Log
  <2>3. \A k \in 1 .. j - 1 : k \in 1 .. l
    BY <2>1, <1>3
  <2> QED
    BY <2>2, <2>3, <1>3
<1>8. \E p \in 1 .. l + 1 : z[p].kind = "evicted" /\ \A k \in 1 .. p - 1 : z[k].kind # "evicted"
  <2>1. CASE Noticed(log)
    <3>1. PICK p \in 1 .. l : log[p].kind = "evicted" /\ \A k \in 1 .. p - 1 : log[k].kind # "evicted"
      BY <2>1, <1>2 DEF Log
    <3>2. p \in 1 .. l + 1 /\ \A k \in 1 .. p - 1 : k \in 1 .. l
      BY <3>1, <1>3
    <3> QED
      BY <3>1, <3>2, <1>3
  <2>2. CASE ~Noticed(log)
    <3>1. l + 1 \in 1 .. l + 1 /\ (l + 1) - 1 = l
      BY <1>3
    <3> QED
      BY <2>2, <3>1, <1>2, <1>3 DEF Noticed
  <2> QED
    BY <2>1, <2>2
<1>9. Log(z, e)
  BY <1>3, <1>5, <1>6, <1>7, <1>8 DEF Log
<1> QED
  BY <1>1, <1>9

LEMMA CommandFacts ==
    ASSUME NEW m \in Commands
    PROVE  /\ m.msg \in Items /\ m.msg.n \in Nat
           /\ m.op \in OfClient => m.client \in Clients
           /\ m.op \in OfSession => m.session \in Sessions
           /\ m.op \in Buses => /\ m.session \in Sessions /\ m.msg.session = m.session
                                /\ m.msg.n # 0
                                /\ m.msg.kind \in {"event", "status"}
           /\ m.op = "BroadcastSessionStatus" => m.msg.kind = "status"
  BY DEF Commands, Items, Buses, OfSession

LEMMA OrderedMore ==
    ASSUME NEW q \in Seq(Commands), NEW e \in [Sessions -> Nat], NEW e2 \in [Sessions -> Nat],
           \A s \in Sessions : e[s] <= e2[s], Ordered(q, e)
    PROVE  Ordered(q, e2)
<1>1. ASSUME NEW i \in 1 .. Len(q), q[i].op \in Buses
      PROVE  q[i].msg.n <= e2[q[i].session]
  <2>1. q[i] \in Commands
    OBVIOUS
  <2>2. PICK s : s = q[i].session
    OBVIOUS
  <2>3. s \in Sessions /\ q[i].msg.n \in Nat
    BY <2>1, <2>2, <1>1, CommandFacts
  <2>4. q[i].msg.n <= e[s] /\ e[s] \in Nat /\ e2[s] \in Nat
    BY <2>2, <2>3, <1>1 DEF Ordered
  <2> QED
    BY <2>2, <2>3, <2>4
<1> QED
  BY <1>1 DEF Ordered

LEMMA OrderedJoin ==
    ASSUME NEW q \in Seq(Commands), NEW r \in Seq(Commands), NEW e, Ordered(q, e),
           \A i \in 1 .. Len(r) : r[i].op \notin Buses
    PROVE  Ordered(q \o r, e)
<1>1. PICK z : z = q \o r
  OBVIOUS
<1>2. \A i \in 1 .. Len(z) : z[i].op \in Buses => i \in 1 .. Len(q) /\ z[i] = q[i]
  BY <1>1, Joined
<1>3. \A i \in 1 .. Len(z) : \A s \in Sessions : \A n \in Nat : \A bus \in Buses :
        On(z[i], bus, s, n) => i \in 1 .. Len(q) /\ z[i] = q[i]
  BY <1>2 DEF On
<1>4. Ordered(z, e)
  BY <1>2, <1>3 DEF Ordered, Buses
<1> QED
  BY <1>1, <1>4

LEMMA OrderedTail ==
    ASSUME NEW q \in Seq(Commands), q # <<>>, NEW e, Ordered(q, e)
    PROVE  Ordered(Tail(q), e)
<1>1. PICK u : u = Tail(q)
  OBVIOUS
<1>2. \A i \in 1 .. Len(u) : u[i] = q[i + 1] /\ i + 1 \in 1 .. Len(q)
  BY <1>1, Rest
<1>3. Ordered(u, e)
  BY <1>2, SMTT(30) DEF Ordered
<1> QED
  BY <1>1, <1>3

LEMMA OrderedEmit ==
    ASSUME NEW q \in Seq(Commands), NEW m \in Commands, NEW e \in [Sessions -> Nat],
           NEW s \in Sessions, Ordered(q, e), On(m, "BroadcastActivity", s, e[s] + 1)
    PROVE  Ordered(q \o <<m>>, [e EXCEPT ![s] = @ + 1])
<1>1. PICK z : z = q \o <<m>>
  OBVIOUS
<1>2. PICK e2 : e2 = [e EXCEPT ![s] = @ + 1]
  OBVIOUS
<1>3. e2 \in [Sessions -> Nat] /\ e2[s] = e[s] + 1 /\ \A s1 \in Sessions : e[s1] <= e2[s1]
  BY <1>2
<1>4. Ordered(q, e2)
  BY <1>3, OrderedMore
<1>5. /\ \A i \in 1 .. Len(z) : (i \in 1 .. Len(q) /\ z[i] = q[i]) \/ (i = Len(q) + 1 /\ z[i] = m)
      /\ Len(q) \in Nat
  BY <1>1, Added
<1>6. /\ m.op = "BroadcastActivity" /\ m.session = s /\ m.msg.n = e2[s]
      /\ \A s1, n : On(m, "BroadcastActivity", s1, n) => s1 = s /\ n = e[s] + 1
      /\ \A s1, n : ~On(m, "BroadcastSessionStatus", s1, n)
  BY <1>3 DEF On
<1>7. \A i \in 1 .. Len(q) : \A bus \in Buses : ~On(q[i], bus, s, e[s] + 1)
  <2> SUFFICES ASSUME NEW i \in 1 .. Len(q), NEW bus \in Buses, On(q[i], bus, s, e[s] + 1)
               PROVE  FALSE
    OBVIOUS
  <2>1. q[i].msg.n <= e[s] /\ q[i].msg.n = e[s] + 1 /\ e[s] \in Nat
    BY DEF On, Ordered
  <2> QED
    BY <2>1
<1>8. \A i \in 1 .. Len(z) : z[i].op \in Buses => z[i].msg.n <= e2[z[i].session]
  BY <1>3, <1>4, <1>5, <1>6, SMTT(30) DEF Ordered
<1>9. \A i, j \in 1 .. Len(z) : \A s1 \in Sessions : \A n \in Nat :
         On(z[i], "BroadcastActivity", s1, n) /\ On(z[j], "BroadcastActivity", s1, n) => i = j
  <2> SUFFICES ASSUME NEW i \in 1 .. Len(z), NEW j \in 1 .. Len(z), NEW s1 \in Sessions, NEW n \in Nat,
                      On(z[i], "BroadcastActivity", s1, n), On(z[j], "BroadcastActivity", s1, n)
               PROVE  i = j
    OBVIOUS
  <2>1. "BroadcastActivity" \in Buses
    BY DEF Buses
  <2>2. CASE i \in 1 .. Len(q) /\ z[i] = q[i] /\ j \in 1 .. Len(q) /\ z[j] = q[j]
    BY <2>2, <1>4 DEF Ordered
  <2>3. CASE i = Len(q) + 1 /\ z[i] = m
    BY <2>1, <2>3, <1>5, <1>6, <1>7
  <2>4. CASE j = Len(q) + 1 /\ z[j] = m
    BY <2>1, <2>4, <1>5, <1>6, <1>7
  <2> QED
    BY <2>2, <2>3, <2>4, <1>5
<1>10. \A i, j \in 1 .. Len(z) : \A s1 \in Sessions : \A n \in Nat :
         On(z[i], "BroadcastActivity", s1, n) /\ On(z[j], "BroadcastSessionStatus", s1, n) => i < j
  <2> SUFFICES ASSUME NEW i \in 1 .. Len(z), NEW j \in 1 .. Len(z), NEW s1 \in Sessions, NEW n \in Nat,
                      On(z[i], "BroadcastActivity", s1, n), On(z[j], "BroadcastSessionStatus", s1, n)
               PROVE  i < j
    OBVIOUS
  <2>1. "BroadcastSessionStatus" \in Buses
    BY DEF Buses
  <2>2. j \in 1 .. Len(q) /\ z[j] = q[j]
    BY <1>5, <1>6
  <2>3. i \in 1 .. Len(q) /\ z[i] = q[i]
    BY <2>1, <2>2, <1>5, <1>6, <1>7
  <2> QED
    BY <2>2, <2>3, <1>4 DEF Ordered
<1>11. Ordered(z, e2)
  BY <1>8, <1>9, <1>10 DEF Ordered
<1> QED
  BY <1>1, <1>2, <1>11

LEMMA OrderedForward ==
    ASSUME NEW q \in Seq(Commands), NEW m \in Commands, NEW e \in [Sessions -> Nat],
           Ordered(q, e), m.op = "BroadcastSessionStatus", m.msg.n <= e[m.session]
    PROVE  Ordered(q \o <<m>>, e)
<1>1. PICK z : z = q \o <<m>>
  OBVIOUS
<1>2. /\ \A i \in 1 .. Len(z) : (i \in 1 .. Len(q) /\ z[i] = q[i]) \/ (i = Len(q) + 1 /\ z[i] = m)
      /\ Len(q) \in Nat /\ \A i \in 1 .. Len(q) : i < Len(q) + 1
  BY <1>1, Added
<1>3. \A s1, n : ~On(m, "BroadcastActivity", s1, n)
  BY DEF On
<1>4. \A i \in 1 .. Len(z) : z[i].op \in Buses => z[i].msg.n <= e[z[i].session]
  BY <1>2 DEF Ordered
<1>5. /\ \A i, j \in 1 .. Len(z) : \A s1 \in Sessions : \A n \in Nat :
           On(z[i], "BroadcastActivity", s1, n) /\ On(z[j], "BroadcastActivity", s1, n) => i = j
      /\ \A i, j \in 1 .. Len(z) : \A s1 \in Sessions : \A n \in Nat :
           On(z[i], "BroadcastActivity", s1, n) /\ On(z[j], "BroadcastSessionStatus", s1, n) => i < j
  <2>1. \A i \in 1 .. Len(z) : \A s1 \in Sessions : \A n \in Nat :
          On(z[i], "BroadcastActivity", s1, n) => i \in 1 .. Len(q) /\ z[i] = q[i]
    BY <1>2, <1>3
  <2>2. ASSUME NEW i \in 1 .. Len(q), NEW j \in 1 .. Len(z), NEW s1 \in Sessions, NEW n \in Nat,
               On(q[i], "BroadcastActivity", s1, n), On(z[j], "BroadcastSessionStatus", s1, n)
        PROVE  i < j
    <3>1. CASE j \in 1 .. Len(q) /\ z[j] = q[j]
      BY <2>2, <3>1 DEF Ordered
    <3>2. CASE j = Len(q) + 1
      BY <3>2, <1>2
    <3> QED
      BY <3>1, <3>2, <1>2
  <2> QED
    BY <2>1, <2>2 DEF Ordered
<1>6. Ordered(z, e)
  BY <1>4, <1>5 DEF Ordered
<1> QED
  BY <1>1, <1>6

\* A set of commands about clients as a sequence
LEMMA InSomeOrder ==
    ASSUME NEW E \in SUBSET Clients, NEW op, NEW s
    PROVE  SetToSeq({Cmd(op, c, s, NoItem) : c \in E}) \in Seq({Cmd(op, c, s, NoItem) : c \in E})
<1>1. PICK S : S = {Cmd(op, c, s, NoItem) : c \in E}
  OBVIOUS
<1>2. PICK f : f = [c \in E |-> Cmd(op, c, s, NoItem)]
  OBVIOUS
<1>3. f \in Surjection(E, S)
  BY <1>1, <1>2 DEF Surjection
<1>4. IsFiniteSet(E)
  BY FS_Subset, DeliveryAssumption
<1>5. IsFiniteSet(S)
  BY <1>3, <1>4, FS_Surjection
<1>6. Cardinality(S) \in Nat /\ ExistsBijection(1 .. Cardinality(S), S)
  BY <1>5, FS_CardinalityType
<1>7. \E g \in [1 .. Cardinality(S) -> S] : IsInjective(g)
  BY <1>6 DEF ExistsBijection, Bijection, Injection, IsInjective
<1>8. SetToSeq(S) \in [1 .. Cardinality(S) -> S]
  BY <1>7 DEF SetToSeq
<1>9. SetToSeq(S) \in Seq(S)
  BY <1>6, <1>8
<1> QED
  BY <1>1, <1>9

\* What the steps send to the daemon
LEMMA CmdType ==
    /\ NoItem \in Items /\ NoItem.n = 0
    /\ \A c \in Clients :
         \A op \in Enlists \cup Unlists \cup {"ClientDisconnected", "EvictClient"} :
           Cmd(op, c, None, NoItem) \in Commands
    /\ \A c \in Clients : \A s \in Sessions :
         /\ \A op \in Books \cup {"AttachSession"} : Cmd(op, c, s, NoItem) \in Commands
         /\ \A op \in {"Attach", "Detach", "RemoveSubscriber"} : Cmd(op, c, s, NoItem) \in Parcels
    /\ \A s \in Sessions : /\ Cmd("SessionExited", None, s, NoItem) \in Commands
                           /\ Cmd("Shutdown", None, s, NoItem) \in Parcels
    /\ Cmd("EvictLargestLagging", None, None, NoItem) \in Commands
    /\ \A s \in Sessions : \A n \in Nat :
         /\ Item("event", s, n) \in Items /\ Item("status", s, n) \in Items
         /\ Item("snapshot", s, n) \in Items /\ Item("evicted", None, 0) \in Items
    /\ \A s \in Sessions : \A x \in Items :
         x.session = s /\ x.n # 0 =>
           /\ x.kind \in {"event", "status"} => Cmd("BroadcastActivity", None, s, x) \in Commands
           /\ x.kind = "status" => Cmd("BroadcastSessionStatus", None, s, x) \in Commands
<1>1. NoItem \in Items /\ NoItem.n = 0
  BY DEF NoItem, Item, Items
<1>2. \A s \in Sessions : \A n \in Nat :
         /\ Item("event", s, n) \in Items /\ Item("status", s, n) \in Items
         /\ Item("snapshot", s, n) \in Items /\ Item("evicted", None, 0) \in Items
  BY DEF Item, Items
<1>3. /\ \A c \in Clients :
         \A op \in Enlists \cup Unlists \cup {"ClientDisconnected", "EvictClient"} :
           Cmd(op, c, None, NoItem) \in Commands
      /\ \A c \in Clients : \A s \in Sessions :
         /\ \A op \in Books \cup {"AttachSession"} : Cmd(op, c, s, NoItem) \in Commands
         /\ \A op \in {"Attach", "Detach", "RemoveSubscriber"} : Cmd(op, c, s, NoItem) \in Parcels
  BY <1>1 DEF Cmd, Commands, Parcels, Ops, OfClient, OfSession, Enlists, Unlists, Books, Buses
<1>4. /\ \A s \in Sessions : /\ Cmd("SessionExited", None, s, NoItem) \in Commands
                             /\ Cmd("Shutdown", None, s, NoItem) \in Parcels
      /\ Cmd("EvictLargestLagging", None, None, NoItem) \in Commands
  BY <1>1 DEF Cmd, Commands, Parcels, Ops, OfClient, OfSession, Enlists, Unlists, Books, Buses
<1>5. \A s \in Sessions : \A x \in Items :
         x.session = s /\ x.n # 0 =>
           /\ x.kind \in {"event", "status"} => Cmd("BroadcastActivity", None, s, x) \in Commands
           /\ x.kind = "status" => Cmd("BroadcastSessionStatus", None, s, x) \in Commands
  BY <1>1 DEF Cmd, Commands, Ops, OfClient, OfSession, Enlists, Unlists, Books, Buses
<1> QED
  BY <1>1, <1>2, <1>3, <1>4, <1>5

-----------------------------------------------------------------------------
(* A session thread broadcasts *)

\* What an enqueue leaves in the sinks
LEMMA Enqueued ==
    ASSUME NEW sk \in [Clients -> Seq(Items)], NEW m \in Items, NEW R
    PROVE  /\ Enqueue(sk, R, m) \in [Clients -> Seq(Items)]
           /\ \A c \in Clients :
                /\ c \in R /\ writer[c] = "run" => Enqueue(sk, R, m)[c] = sk[c] \o <<m>>
                /\ c \notin R \/ writer[c] # "run" => Enqueue(sk, R, m)[c] = sk[c]
<1>1. \A c \in Clients : sk[c] \in Seq(Items) /\ Append(sk[c], m) = sk[c] \o <<m>>
        /\ sk[c] \o <<m>> \in Seq(Items)
  <2> SUFFICES ASSUME NEW c \in Clients
               PROVE  sk[c] \in Seq(Items) /\ Append(sk[c], m) = sk[c] \o <<m>>
                      /\ sk[c] \o <<m>> \in Seq(Items)
    OBVIOUS
  <2>1. sk[c] \in Seq(Items)
    OBVIOUS
  <2> QED
    BY <2>1, Added
<1> QED
  BY <1>1 DEF Enqueue

\* The evictions a broadcast asks for
Chores == {"EvictClient", "EvictLargestLagging"}

LEMMA AskedEvictions ==
    ASSUME NEW R \in SUBSET Clients, NEW over \in OverLag(R), NEW budget \in OverBudget(R)
    PROVE  LET r == SetToSeq({Cmd("EvictClient", c, None, NoItem) : c \in over})
           IN  /\ r \in Seq(Commands) /\ budget \in Seq(Commands) /\ r \o budget \in Seq(Commands)
               /\ \A i \in 1 .. Len(r \o budget) : (r \o budget)[i].op \in Chores
<1>1. over \in SUBSET Clients
  BY DEF OverLag
<1>2. PICK S : S = {Cmd("EvictClient", c, None, NoItem) : c \in over}
  OBVIOUS
<1>3. PICK r : r = SetToSeq(S)
  OBVIOUS
<1>4. r \in Seq(S)
  BY <1>1, <1>2, <1>3, InSomeOrder
<1>5. \A x \in S : x \in Commands /\ x.op = "EvictClient"
  BY <1>1, <1>2, CmdType DEF Cmd
<1>6. r \in Seq(Commands) /\ \A i \in 1 .. Len(r) : r[i].op \in Chores
  <2>1. \A i \in 1 .. Len(r) : r[i] \in S
    BY <1>4
  <2> QED
    BY <2>1, <1>4, <1>5 DEF Chores
<1>7. budget \in Seq(Commands) /\ \A i \in 1 .. Len(budget) : budget[i].op \in Chores
  <2>1. CASE budget = <<>>
    BY <2>1
  <2>2. CASE budget = <<Cmd("EvictLargestLagging", None, None, NoItem)>>
    <3>1. PICK x : x = Cmd("EvictLargestLagging", None, None, NoItem)
      OBVIOUS
    <3>2. x \in Commands /\ x.op \in Chores
      BY <3>1, CmdType DEF Cmd, Chores
    <3>3. budget = <<x>>
      BY <2>2, <3>1
    <3> QED
      BY <3>2, <3>3
  <2> QED
    BY <2>1, <2>2 DEF OverBudget
<1>8. /\ r \o budget \in Seq(Commands)
      /\ \A i \in 1 .. Len(r \o budget) : (r \o budget)[i].op \in Chores
  BY <1>6, <1>7, Joined
<1> QED
  BY <1>2, <1>3, <1>6, <1>7, <1>8

\* The commands of a broadcast
LEMMA BroadcastQueue ==
    ASSUME Typed, NEW s \in Sessions, NEW kind \in {"event", "status"}, Broadcast(s, kind)
    PROVE  LET x == Item(kind, s, emitted[s] + 1)
               b == Cmd("BroadcastActivity", None, s, x)
           IN  /\ x \in Items /\ Ev(x, s, emitted[s] + 1)
               /\ b \in Commands /\ On(b, "BroadcastActivity", s, emitted[s] + 1) /\ b.client = None
               /\ \E r \in Seq(Commands) :
                    /\ daemonQ' = (daemonQ \o <<b>>) \o r
                    /\ \A i \in 1 .. Len(r) : r[i].op \in Chores
<1>1. PICK x : x = Item(kind, s, emitted[s] + 1)
  OBVIOUS
<1>2. PICK b : b = Cmd("BroadcastActivity", None, s, x)
  OBVIOUS
<1>3. emitted[s] \in Nat /\ emitted[s] + 1 \in Nat \ {0}
  BY DEF Typed
<1>4. x \in Items /\ x.kind = kind /\ x.session = s /\ x.n = emitted[s] + 1
  BY <1>1, <1>3, CmdType DEF Item
<1>5. b \in Commands /\ On(b, "BroadcastActivity", s, emitted[s] + 1) /\ b.client = None
  BY <1>2, <1>3, <1>4, CmdType DEF Cmd, On
<1>6. PICK over \in OverLag(subscribers[s]), budget \in OverBudget(subscribers[s]) :
        daemonQ' = daemonQ \o <<b>>
            \o SetToSeq({Cmd("EvictClient", c, None, NoItem) : c \in over}) \o budget
  BY <1>1, <1>2 DEF Broadcast
<1>7. PICK r : r = SetToSeq({Cmd("EvictClient", c, None, NoItem) : c \in over})
  OBVIOUS
<1>8. subscribers[s] \in SUBSET Clients
  BY DEF Typed
<1>9. /\ r \in Seq(Commands) /\ budget \in Seq(Commands) /\ r \o budget \in Seq(Commands)
      /\ \A i \in 1 .. Len(r \o budget) : (r \o budget)[i].op \in Chores
  BY <1>7, <1>8, AskedEvictions
<1>10. daemonQ \o <<b>> \in Seq(Commands)
  <2>1. daemonQ \in Seq(Commands)
    BY DEF Typed
  <2> QED
    BY <2>1, <1>5, Added
<1>11. ((daemonQ \o <<b>>) \o r) \o budget = (daemonQ \o <<b>>) \o (r \o budget)
  BY <1>9, <1>10, ConcatAssociative, SMTT(30)
<1>12. daemonQ' = (daemonQ \o <<b>>) \o (r \o budget)
  BY <1>6, <1>7, <1>11
<1> QED
  BY <1>1, <1>2, <1>4, <1>5, <1>9, <1>12 DEF Ev

\* A broadcast, and the subscribers it leaves
Casts(s, kind) ==
    /\ Broadcast(s, kind)
    /\ subscribers' = [subscribers EXCEPT ![s] = Pruned(s)]
    /\ UNCHANGED <<tracked, conn, writer, writers, activity, summary>>

LEMMA CastTypes ==
    ASSUME Typed, NEW s \in Sessions, NEW kind \in {"event", "status"}, Casts(s, kind)
    PROVE  /\ daemonQ' \in Seq(Commands) /\ sink' \in [Clients -> Seq(Items)]
           /\ emitted' \in [Sessions -> Nat] /\ emitted'[s] = emitted[s] + 1
           /\ emitted' = [emitted EXCEPT ![s] = @ + 1]
           /\ \A s1 \in Sessions : emitted[s1] <= emitted'[s1]
           /\ \A s1 \in Sessions : s1 # s => emitted'[s1] = emitted[s1]
           /\ subscribers' \in [Sessions -> SUBSET Clients]
           /\ \A s1 \in Sessions : s1 # s => subscribers'[s1] = subscribers[s1]
           /\ \A c \in Clients : writer[c] = "run" =>
                (c \in subscribers'[s] <=> c \in subscribers[s])
<1>1. PICK x : x = Item(kind, s, emitted[s] + 1)
  OBVIOUS
<1>2. PICK b : b = Cmd("BroadcastActivity", None, s, x)
  OBVIOUS
<1>3. x \in Items /\ b \in Commands
  BY <1>1, <1>2, BroadcastQueue DEF Casts
<1>4. PICK r \in Seq(Commands) : daemonQ' = (daemonQ \o <<b>>) \o r
  BY <1>1, <1>2, BroadcastQueue DEF Casts
<1>5. daemonQ \in Seq(Commands)
  BY DEF Typed
<1>6. daemonQ \o <<b>> \in Seq(Commands)
  BY <1>3, <1>5, Added
<1>7. daemonQ' \in Seq(Commands)
  BY <1>4, <1>6, Joined
<1>8. sink' \in [Clients -> Seq(Items)]
  <2>1. sink \in [Clients -> Seq(Items)] /\ sink' = Enqueue(sink, subscribers[s], x)
    BY <1>1 DEF Typed, Casts, Broadcast
  <2> QED
    BY <2>1, <1>3, Enqueued
<1>9. /\ emitted' \in [Sessions -> Nat] /\ emitted'[s] = emitted[s] + 1
      /\ emitted' = [emitted EXCEPT ![s] = @ + 1]
      /\ \A s1 \in Sessions : emitted[s1] <= emitted'[s1]
      /\ \A s1 \in Sessions : s1 # s => emitted'[s1] = emitted[s1]
  BY DEF Typed, Casts, Broadcast
<1>10. /\ subscribers' \in [Sessions -> SUBSET Clients]
       /\ \A s1 \in Sessions : s1 # s => subscribers'[s1] = subscribers[s1]
       /\ \A c \in Clients : writer[c] = "run" =>
            (c \in subscribers'[s] <=> c \in subscribers[s])
  BY DEF Typed, Casts, Pruned, Gone
<1> QED
  BY <1>7, <1>8, <1>9, <1>10

LEMMA CastKeeps ==
    ASSUME DeliveryIInv, NEW s \in Sessions, NEW kind \in {"event", "status"}, Casts(s, kind)
    PROVE  Membership' /\ Logs' /\ Ordered(daemonQ', emitted') /\ Pairs'
<1> PICK x : x = Item(kind, s, emitted[s] + 1)
  OBVIOUS
<1> PICK b : b = Cmd("BroadcastActivity", None, s, x)
  OBVIOUS
<1> PICK q : q = daemonQ
  OBVIOUS
<1>1. Typed /\ Membership /\ Logs /\ Numbered /\ Pairs
  BY DEF DeliveryIInv
<1>2. /\ x \in Items /\ Ev(x, s, emitted[s] + 1)
      /\ b \in Commands /\ On(b, "BroadcastActivity", s, emitted[s] + 1) /\ b.client = None
  BY <1>1, BroadcastQueue DEF Casts
<1>3. PICK r \in Seq(Commands) : /\ daemonQ' = (q \o <<b>>) \o r
                                 /\ \A i \in 1 .. Len(r) : r[i].op \in Chores
  BY <1>1, BroadcastQueue DEF Casts
<1>4. q \in Seq(Commands) /\ sink \in [Clients -> Seq(Items)] /\ emitted \in [Sessions -> Nat]
  BY <1>1 DEF Typed
<1>5. PICK z : z = q \o <<b>>
  OBVIOUS
<1>6. z \in Seq(Commands) /\ \A i \in 1 .. Len(z) : i \in 1 .. Len(q) \/ z[i] = b
  BY <1>2, <1>4, <1>5, Added
<1>7. /\ emitted' \in [Sessions -> Nat] /\ emitted'[s] = emitted[s] + 1
      /\ emitted' = [emitted EXCEPT ![s] = @ + 1]
      /\ \A s1 \in Sessions : emitted[s1] <= emitted'[s1]
      /\ \A s1 \in Sessions : s1 # s => emitted'[s1] = emitted[s1]
      /\ \A s1 \in Sessions : s1 # s => subscribers'[s1] = subscribers[s1]
      /\ \A c \in Clients : writer[c] = "run" => (c \in subscribers'[s] <=> c \in subscribers[s])
  BY <1>1, CastTypes
<1>8. \A c \in Clients :
        /\ c \in subscribers[s] /\ writer[c] = "run" => sink'[c] = sink[c] \o <<x>>
        /\ c \notin subscribers[s] \/ writer[c] # "run" => sink'[c] = sink[c]
  <2>1. sink' = Enqueue(sink, subscribers[s], x)
    BY DEF Casts, Broadcast
  <2> QED
    BY <2>1, <1>2, <1>4, Enqueued
<1>9. Ev(x, s, emitted[s] + 1) /\ x.kind \in {"event", "status"} /\ x.session = s /\ x.n = emitted[s] + 1
  BY <1>2 DEF Ev
<1>10. \A c \in Clients : Noticed(sink'[c]) <=> Noticed(sink[c])
  <2> SUFFICES ASSUME NEW c \in Clients
               PROVE  Noticed(sink'[c]) <=> Noticed(sink[c])
    OBVIOUS
  <2>1. sink[c] \in Seq(Items) /\ x.kind # "evicted"
    BY <1>4, <1>9
  <2>2. CASE sink'[c] = sink[c] \o <<x>>
    BY <2>1, <2>2, <1>2, Got
  <2>3. CASE sink'[c] = sink[c]
    BY <2>3
  <2> QED
    BY <2>2, <2>3, <1>8
<1>11. Membership'
  <2> SUFFICES ASSUME NEW c \in Clients
               PROVE  Member(c, daemonQ', conn'[c], c \in writers', Listed(c)', sink'[c])
    BY DEF Membership
  <2> PICK reg : reg = (c \in writers)
    OBVIOUS
  <2> PICK listed : listed = Listed(c)
    OBVIOUS
  <2> PICK log2 : log2 = sink'[c]
    OBVIOUS
  <2>1. conn'[c] = conn[c] /\ (c \in writers') = reg /\ Listed(c)' = listed
    BY DEF Casts, Listed
  <2>2. Member(c, q, conn[c], reg, listed, sink[c])
    BY <1>1 DEF Membership
  <2>3. PICK bs : bs = <<b>>
    OBVIOUS
  <2>4. bs \in Seq(Commands) /\ \A i \in 1 .. Len(bs) : bs[i] = b
    BY <2>3, <1>2
  <2>5. /\ ~Joins(b, c) /\ \A i \in 1 .. Len(r) : ~Joins(r[i], c)
    BY <1>2, <1>3 DEF Joins, By, On, Chores, Enlists
  <2>6. Noticed(log2) => Noticed(sink[c])
    BY <1>10
  <2>7. Member(c, q \o bs, conn[c], reg, listed, log2)
    BY <2>2, <2>4, <2>5, <2>6, <1>4, MemberJoin
  <2>8. Member(c, z, conn[c], reg, listed, log2)
    BY <2>3, <2>7, <1>5
  <2>9. Member(c, z \o r, conn[c], reg, listed, log2)
    BY <2>5, <2>8, <1>6, MemberJoin
  <2> QED
    BY <2>1, <2>9, <1>3, <1>5
<1>12. Logs'
  <2> SUFFICES ASSUME NEW c \in Clients
               PROVE  Log(sink'[c], emitted')
    BY DEF Logs
  <2>1. sink[c] \in Seq(Items) /\ Log(sink[c], emitted)
    BY <1>1, <1>4 DEF Logs
  <2>2. Log(sink[c], emitted')
    BY <2>1, <1>4, <1>7, LogMore
  <2>3. CASE sink'[c] = sink[c] \o <<x>>
    <3>1. ~Has(sink[c], s, emitted[s] + 1)
      <4> SUFFICES ASSUME NEW i \in 1 .. Len(sink[c]), Ev(sink[c][i], s, emitted[s] + 1)
                   PROVE  FALSE
        BY DEF Has
      <4>1. sink[c][i].n <= emitted[s] /\ sink[c][i].n = emitted[s] + 1 /\ emitted[s] \in Nat
        BY <2>1, <1>4 DEF Log, Ev
      <4> QED
        BY <4>1
    <3>2. x.kind # "evicted" /\ x.kind # "snapshot" /\ x.n <= emitted'[x.session] /\ x.session \in Sessions
      BY <1>4, <1>7, <1>9
    <3>3. PICK e : e = emitted'
      OBVIOUS
    <3>4. e \in [Sessions -> Nat] /\ Log(sink[c], e) /\ x.n <= e[x.session]
      BY <2>2, <3>2, <3>3, <1>7
    <3>5. ~Has(sink[c], x.session, x.n)
      BY <3>1, <1>9
    <3>6. Log(sink[c] \o <<x>>, e)
      BY <2>1, <3>2, <3>4, <3>5, <1>2, LogGot
    <3> QED
      BY <2>3, <3>3, <3>6
  <2> QED
    BY <2>2, <2>3, <1>8
<1>13. Ordered(daemonQ', emitted')
  <2>1. Ordered(q, emitted)
    BY <1>1 DEF Numbered
  <2>2. Ordered(z, emitted')
    BY <2>1, <1>2, <1>4, <1>5, <1>7, OrderedEmit
  <2>3. \A i \in 1 .. Len(r) : r[i].op \notin Buses
    BY <1>3 DEF Chores, Buses
  <2> QED
    BY <2>2, <2>3, <1>3, <1>5, <1>6, OrderedJoin
<1>14. Pairs'
  <2> SUFFICES ASSUME NEW c \in Clients, NEW s1 \in Sessions, ~Out(c)'
               PROVE  Pair(c, s1, daemonQ', (<<c, s1>> \in tracked)', conn'[c], (c \in subscribers[s1])',
                           sink'[c], emitted'[s1])
    BY DEF Pairs
  <2>1. ~Out(c) /\ writer[c] = "run" /\ writer'[c] = writer[c]
    BY <1>1, <1>10 DEF Out, Casts, Typed
  <2>2. PICK t : t = (<<c, s1>> \in tracked)
    OBVIOUS
  <2>3. PICK sub : sub = (c \in subscribers[s1])
    OBVIOUS
  <2>4. PICK log : log = sink[c]
    OBVIOUS
  <2>5. PICK cn : cn = conn[c]
    OBVIOUS
  <2>6. Pair(c, s1, q, t, cn, sub, log, emitted[s1])
    BY <2>1, <2>2, <2>3, <2>4, <2>5, <1>1 DEF Pairs
  <2>7. (<<c, s1>> \in tracked)' = t /\ conn'[c] = cn
    BY <2>2, <2>5 DEF Casts
  <2>8. log \in Seq(Items) /\ emitted[s1] \in Nat /\ sub \in BOOLEAN
    BY <2>3, <2>4, <1>4
  <2>9. (c \in subscribers'[s1]) = sub
    BY <2>1, <2>3, <1>7
  <2>10. PICK bs : bs = <<b>>
    OBVIOUS
  <2>11. bs \in Seq(Commands) /\ \A i \in 1 .. Len(bs) : bs[i] = b
    BY <2>10, <1>2
  <2>12. Pair(c, s1, z, t, cn, sub, sink'[c], emitted'[s1])
    <3>1. CASE s1 = s
      <4>1. sink'[c] = IF sub THEN log \o <<x>> ELSE log
        BY <2>1, <2>3, <2>4, <3>1, <1>8
      <4>2. \A i \in 1 .. Len(log) : log[i].session = s /\ log[i].kind # "evicted" =>
              log[i].n <= emitted[s]
        BY <2>4, <1>1 DEF Logs, Log
      <4>3. \A i \in 1 .. Len(q) : q[i].op \in Buses /\ q[i].session = s => q[i].msg.n <= emitted[s]
        BY <1>1 DEF Numbered, Ordered
      <4>4. PICK e : e = emitted[s]
        OBVIOUS
      <4>5. PICK log2 : log2 = sink'[c]
        OBVIOUS
      <4>6. Pair(c, s, q \o <<b>>, t, cn, sub, log2, e + 1)
        BY <2>6, <2>8, <3>1, <4>1, <4>2, <4>3, <4>4, <4>5, <1>2, <1>4, PairEmit
      <4> QED
        BY <3>1, <4>4, <4>5, <4>6, <1>5, <1>7
    <3>2. CASE s1 # s
      <4>1. Quiet(bs, c, s1)
        BY <2>11, <3>2, <1>2 DEF Quiet, Loud, On
      <4>2. ~Says(bs, "ClientDisconnected", c)
        BY <2>11, <1>2 DEF Says, By, On
      <4>3. Pair(c, s1, z, t, cn, sub, log, emitted[s1])
        BY <2>6, <2>10, <2>11, <4>1, <4>2, <1>4, <1>5, PairJoin
      <4>4. CASE sink'[c] = log \o <<x>>
        BY <2>8, <4>3, <4>4, <3>2, <1>2, <1>7, <1>9, PairOther
      <4>5. CASE sink'[c] = log
        BY <4>3, <4>5, <3>2, <1>7
      <4> QED
        BY <2>4, <4>4, <4>5, <1>8
    <3> QED
      BY <3>1, <3>2
  <2>13. Quiet(r, c, s1) /\ ~Says(r, "ClientDisconnected", c)
    BY <1>3 DEF Quiet, Loud, Says, By, Chores, Buses
  <2>14. Pair(c, s1, z \o r, t, cn, sub, sink'[c], emitted'[s1])
    BY <2>12, <2>13, <1>6, PairJoin
  <2> QED
    BY <2>7, <2>9, <2>14, <1>3, <1>5
<1> QED
  BY <1>11, <1>12, <1>13, <1>14

-----------------------------------------------------------------------------
(* Other steps that add commands to the daemon's queue *)

\* The commands r are added; nobody joins or leaves, and no sink changes.
Tells(r) ==
    /\ daemonQ' = daemonQ \o r
    /\ r \in Seq(Commands)
    /\ \A i \in 1 .. Len(r) : r[i].op \notin Enlists \cup {"ClientDisconnected"}
    /\ UNCHANGED <<tracked, conn, writer, writers, activity, summary, sink, emitted>>

LEMMA TellsKeeps ==
    ASSUME DeliveryIInv, NEW r, Tells(r)
    PROVE  /\ Membership' /\ Logs' /\ daemonQ' \in Seq(Commands)
           /\ (\A i \in 1 .. Len(r) : r[i].op \notin Buses) => Ordered(daemonQ', emitted')
<1>1. Typed /\ Membership /\ Logs /\ Numbered
  BY DEF DeliveryIInv
<1>2. PICK q : q = daemonQ
  OBVIOUS
<1>3. q \in Seq(Commands) /\ r \in Seq(Commands) /\ daemonQ' = q \o r
  BY <1>1, <1>2 DEF Typed, Tells
<1>4. Membership'
  <2> SUFFICES ASSUME NEW c \in Clients
               PROVE  Member(c, daemonQ', conn'[c], c \in writers', Listed(c)', sink'[c])
    BY DEF Membership
  <2> PICK reg : reg = (c \in writers)
    OBVIOUS
  <2> PICK listed : listed = Listed(c)
    OBVIOUS
  <2>1. conn'[c] = conn[c] /\ (c \in writers') = reg /\ Listed(c)' = listed /\ sink'[c] = sink[c]
    BY DEF Tells, Listed
  <2>2. Member(c, q, conn[c], reg, listed, sink[c])
    BY <1>1, <1>2 DEF Membership
  <2>3. \A i \in 1 .. Len(r) : ~Joins(r[i], c)
    BY DEF Tells, Joins, By
  <2>4. Member(c, q \o r, conn[c], reg, listed, sink[c])
    BY <2>2, <2>3, <1>3, MemberJoin
  <2> QED
    BY <2>1, <2>4, <1>3
<1>5. Logs'
  BY <1>1 DEF Logs, Tells
<1>6. daemonQ' \in Seq(Commands)
  BY <1>3, Joined
<1>7. ASSUME \A i \in 1 .. Len(r) : r[i].op \notin Buses
      PROVE  Ordered(daemonQ', emitted')
  <2>1. Ordered(q, emitted) /\ emitted' = emitted
    BY <1>1, <1>2 DEF Numbered, Tells
  <2>2. Ordered(q \o r, emitted)
    BY <2>1, <1>3, <1>7, OrderedJoin
  <2> QED
    BY <2>1, <2>2, <1>3
<1> QED
  BY <1>4, <1>5, <1>6, <1>7

\* Nothing else changes but that subscribers leave, who are told off.
LEMMA TellsPairs ==
    ASSUME DeliveryIInv, NEW r, Tells(r),
           \A i \in 1 .. Len(r) : r[i].op \notin Buses,
           \A c \in Clients, s \in Sessions :
             /\ c \in subscribers'[s] => c \in subscribers[s]
             /\ c \in subscribers'[s] => Quiet(r, c, s)
    PROVE  Pairs'
<1>1. Typed /\ Pairs
  BY DEF DeliveryIInv
<1>2. PICK q : q = daemonQ
  OBVIOUS
<1>3. q \in Seq(Commands) /\ r \in Seq(Commands) /\ daemonQ' = q \o r
  BY <1>1, <1>2 DEF Typed, Tells
<1> SUFFICES ASSUME NEW c \in Clients, NEW s \in Sessions, ~Out(c)'
             PROVE  Pair(c, s, daemonQ', (<<c, s>> \in tracked)', conn'[c], (c \in subscribers[s])',
                         sink'[c], emitted'[s])
  BY DEF Pairs
<1> PICK t : t = (<<c, s>> \in tracked)
  OBVIOUS
<1> PICK sub : sub = (c \in subscribers[s])
  OBVIOUS
<1> PICK sub2 : sub2 = (c \in subscribers'[s])
  OBVIOUS
<1>4. /\ ~Out(c) /\ (<<c, s>> \in tracked)' = t /\ conn'[c] = conn[c] /\ sink'[c] = sink[c]
      /\ emitted'[s] = emitted[s]
  BY DEF Out, Tells
<1>5. Pair(c, s, q, t, conn[c], sub, sink[c], emitted[s])
  BY <1>1, <1>2, <1>4 DEF Pairs
<1>6. ~Says(r, "ClientDisconnected", c)
  BY DEF Tells, Says, By
<1>7. CASE sub2
  <2>1. Quiet(r, c, s) /\ (sub2 => sub)
    BY <1>7
  <2>2. Pair(c, s, q \o r, t, conn[c], sub2, sink[c], emitted[s])
    BY <2>1, <1>3, <1>5, <1>6, PairJoin
  <2> QED
    BY <2>2, <1>3, <1>4
<1>8. CASE ~sub2
  <2>1. Pair(c, s, q \o r, t, conn[c], sub2, sink[c], emitted[s])
    BY <1>3, <1>5, <1>6, <1>8, PairQuit
  <2> QED
    BY <2>1, <1>3, <1>4
<1> QED
  BY <1>7, <1>8

\* Two sessions' threads: what Continue leaves
LEMMA Continued ==
    ASSUME Typed, NEW s \in Sessions, NEW leave \in BOOLEAN,
           NEW th \in Thread,
           th.status # NoItem => /\ th.status.kind = "status" /\ th.status.session = s
                                 /\ th.status.n # 0,
           NEW R \in SUBSET Clients, NEW rest \in Seq(Parcels),
           Continue(s, leave, th, R, rest)
    PROVE  /\ thread' \in [Sessions -> Thread]
           /\ \A s1 \in Sessions : (thread'[s1]).status # NoItem =>
                /\ (thread'[s1]).status.kind = "status" /\ (thread'[s1]).status.session = s1
                /\ (thread'[s1]).status.n # 0
           /\ inbox' \in [Sessions -> Seq(Parcels)]
           /\ subscribers' \in [Sessions -> SUBSET Clients]
           /\ \A s1 \in Sessions : s1 # s => /\ thread'[s1] = thread[s1]
                                             /\ subscribers'[s1] = subscribers[s1]
                                             /\ inbox'[s1] = inbox[s1]
           /\ ~leave => thread'[s] = th /\ \A c \in Clients : c \in subscribers'[s] <=> c \in R
           /\ leave => (thread'[s]).status = NoItem
<1>1. /\ thread \in [Sessions -> Thread]
      /\ inbox \in [Sessions -> Seq(Parcels)]
      /\ subscribers \in [Sessions -> SUBSET Clients]
      /\ \A s1 \in Sessions : thread[s1].status # NoItem =>
                /\ thread[s1].status.kind = "status" /\ thread[s1].status.session = s1
                /\ thread[s1].status.n # 0
  BY DEF Typed
<1>2. PICK new : new = IF leave THEN [Fresh(thread[s].gen) EXCEPT !.up = FALSE] ELSE th
  OBVIOUS
<1>3. /\ new \in Thread
      /\ leave => new.status = NoItem
      /\ ~leave => new = th
  BY <1>1, <1>2, CmdType DEF Fresh, Thread
<1>4. thread' = [thread EXCEPT ![s] = new]
  BY <1>2 DEF Continue
<1>5. /\ subscribers' = [subscribers EXCEPT ![s] = IF leave THEN {} ELSE R]
      /\ inbox' = [inbox EXCEPT ![s] = IF leave THEN <<>> ELSE rest]
      /\ (IF leave THEN <<>> ELSE rest) \in Seq(Parcels)
  BY DEF Continue
<1>6. /\ thread' \in [Sessions -> Thread]
      /\ thread'[s] = new /\ \A s1 \in Sessions : s1 # s => thread'[s1] = thread[s1]
  BY <1>1, <1>3, <1>4
<1>7. /\ inbox' \in [Sessions -> Seq(Parcels)]
      /\ subscribers' \in [Sessions -> SUBSET Clients]
      /\ \A s1 \in Sessions : s1 # s => /\ subscribers'[s1] = subscribers[s1]
                                        /\ inbox'[s1] = inbox[s1]
      /\ subscribers'[s] = IF leave THEN {} ELSE R
  BY <1>1, <1>5
<1>8. \A s1 \in Sessions : (thread'[s1]).status # NoItem =>
        /\ (thread'[s1]).status.kind = "status" /\ (thread'[s1]).status.session = s1
        /\ (thread'[s1]).status.n # 0
  <2>1. new.status # NoItem => /\ new.status.kind = "status" /\ new.status.session = s
                               /\ new.status.n # 0
    BY <1>3
  <2> QED
    BY <2>1, <1>1, <1>6
<1> QED
  BY <1>3, <1>6, <1>7, <1>8

\* The numbers of the status changes on their way
LEMMA StatusKept ==
    ASSUME Typed, Numbered, NEW s \in Sessions, emitted' \in [Sessions -> Nat],
           \A s1 \in Sessions : emitted[s1] <= emitted'[s1],
           \A s1 \in Sessions : s1 # s => thread'[s1] = thread[s1],
           (thread'[s]).status.n <= emitted'[s]
    PROVE  \A s1 \in Sessions : (thread'[s1]).status.n <= emitted'[s1]
<1> SUFFICES ASSUME NEW s1 \in Sessions, s1 # s
             PROVE  (thread'[s1]).status.n <= emitted'[s1]
  OBVIOUS
<1>1. /\ thread[s1].status.n <= emitted[s1] /\ thread[s1].status \in Items
      /\ emitted[s1] \in Nat /\ emitted'[s1] \in Nat /\ emitted[s1] <= emitted'[s1]
  BY DEF Numbered, Typed, Thread
<1>2. thread[s1].status.n \in Nat
  BY <1>1 DEF Items
<1> QED
  BY <1>1, <1>2

-----------------------------------------------------------------------------
(* The steps of a session thread *)

LEMMA BroadcastStep ==
    ASSUME DeliveryIInv, NEW s \in Sessions, NEW kind \in {"event", "status"},
           NEW th \in Thread, th.status # NoItem =>
             th.status.kind = "status" /\ th.status.session = s /\ th.status.n # 0,
           th.status.n <= emitted[s] + 1, NEW rest \in Seq(Parcels),
           Broadcast(s, kind), Continue(s, FALSE, th, Pruned(s), rest),
           UNCHANGED <<daemonVars, clientVars, writer>>
    PROVE  DeliveryIInv'
<1>1. Typed /\ Numbered
  BY DEF DeliveryIInv
<1>2. Casts(s, kind)
  BY <1>1 DEF Casts, Continue, daemonVars, clientVars, Typed
<1>3. Membership' /\ Logs' /\ Ordered(daemonQ', emitted') /\ Pairs'
  BY <1>2, CastKeeps
<1>4. /\ daemonQ' \in Seq(Commands) /\ sink' \in [Clients -> Seq(Items)]
      /\ emitted' \in [Sessions -> Nat] /\ emitted'[s] = emitted[s] + 1
      /\ \A s1 \in Sessions : emitted[s1] <= emitted'[s1]
  BY <1>1, <1>2, CastTypes
<1>5. Pruned(s) \in SUBSET Clients
  BY <1>1 DEF Typed, Pruned
<1>6. /\ thread' \in [Sessions -> Thread]
      /\ \A s1 \in Sessions : (thread'[s1]).status # NoItem =>
           /\ (thread'[s1]).status.kind = "status" /\ (thread'[s1]).status.session = s1
           /\ (thread'[s1]).status.n # 0
      /\ inbox' \in [Sessions -> Seq(Parcels)]
      /\ subscribers' \in [Sessions -> SUBSET Clients]
      /\ \A s1 \in Sessions : s1 # s => thread'[s1] = thread[s1]
      /\ thread'[s] = th
  BY <1>1, <1>5, Continued
<1>7. Typed'
  BY <1>1, <1>4, <1>6 DEF Typed, daemonVars, clientVars
<1>8. \A s1 \in Sessions : (thread'[s1]).status.n <= emitted'[s1]
  BY <1>1, <1>4, <1>6, StatusKept
<1> QED
  BY <1>3, <1>7, <1>8 DEF DeliveryIInv, Numbered

\* Steps that add r to the daemon's queue and go on or leave.
LEMMA TellStep ==
    ASSUME DeliveryIInv, NEW s \in Sessions, NEW leave \in BOOLEAN,
           NEW th \in Thread, th.status = NoItem \/ th = thread[s],
           NEW R \in SUBSET Clients, NEW rest \in Seq(Parcels), NEW r,
           Tells(r), Continue(s, leave, th, R, rest),
           UNCHANGED <<emitted, daemonVars, clientVars, writer, sink>>,
           Ordered(daemonQ', emitted'), Pairs'
    PROVE  DeliveryIInv'
<1>1. Typed /\ Numbered
  BY DEF DeliveryIInv
<1>2. th.status # NoItem => th.status.kind = "status" /\ th.status.session = s /\ th.status.n # 0
  BY <1>1 DEF Typed
<1>0. th.status.n <= emitted[s] /\ emitted[s] \in Nat
  BY <1>1, CmdType DEF Typed, Numbered
<1>3. /\ thread' \in [Sessions -> Thread]
      /\ \A s1 \in Sessions : (thread'[s1]).status # NoItem =>
           /\ (thread'[s1]).status.kind = "status" /\ (thread'[s1]).status.session = s1
           /\ (thread'[s1]).status.n # 0
      /\ inbox' \in [Sessions -> Seq(Parcels)]
      /\ subscribers' \in [Sessions -> SUBSET Clients]
      /\ \A s1 \in Sessions : s1 # s => thread'[s1] = thread[s1]
      /\ ~leave => thread'[s] = th
      /\ leave => (thread'[s]).status = NoItem
  <2>1. CASE leave = TRUE
    <3>1. Continue(s, TRUE, th, R, rest)
      BY <2>1
    <3> QED
      BY <2>1, <3>1, <1>1, <1>2, Continued
  <2>2. CASE leave = FALSE
    <3>1. Continue(s, FALSE, th, R, rest)
      BY <2>2
    <3> QED
      BY <2>2, <3>1, <1>1, <1>2, Continued
  <2> QED
    BY <2>1, <2>2
<1>4. Membership' /\ Logs' /\ daemonQ' \in Seq(Commands)
  BY TellsKeeps
<1>5. Typed'
  BY <1>1, <1>3, <1>4 DEF Typed, daemonVars, clientVars
<1>6. (thread'[s]).status.n <= emitted'[s]
  BY <1>0, <1>3, CmdType
<1>7. \A s1 \in Sessions : emitted[s1] <= emitted'[s1]
  BY <1>1 DEF Typed
<1>8. emitted' \in [Sessions -> Nat]
  BY <1>5 DEF Typed
<1>9. \A s1 \in Sessions : (thread'[s1]).status.n <= emitted'[s1]
  BY <1>1, <1>3, <1>6, <1>7, <1>8, StatusKept
<1> QED
  BY <1>4, <1>5, <1>9 DEF DeliveryIInv, Numbered

LEMMA ThreadFacts ==
    ASSUME Typed, NEW s \in Sessions
    PROVE  /\ thread[s] \in Thread /\ emitted[s] \in Nat /\ thread[s].status.n \in Nat
           /\ inbox[s] \in Seq(Parcels) /\ subscribers[s] \in SUBSET Clients
           /\ thread[s].status # NoItem =>
                /\ thread[s].status.kind = "status" /\ thread[s].status.session = s
                /\ thread[s].status.n # 0
           /\ \A op : NextCommand(s, op) =>
                /\ Tail(inbox[s]) \in Seq(Parcels) /\ thread[s].status = NoItem
                /\ Head(inbox[s]) \in Parcels /\ Head(inbox[s]).op = op
                /\ op # "Shutdown" => Head(inbox[s]).client \in Clients
<1>1. /\ thread[s] \in Thread /\ emitted[s] \in Nat /\ thread[s].status \in Items
      /\ inbox[s] \in Seq(Parcels) /\ subscribers[s] \in SUBSET Clients
      /\ thread[s].status # NoItem =>
           /\ thread[s].status.kind = "status" /\ thread[s].status.session = s
           /\ thread[s].status.n # 0
  BY DEF Typed, Thread
<1>2. thread[s].status.n \in Nat
  BY <1>1 DEF Items
<1>3. ASSUME NEW op, NextCommand(s, op)
      PROVE  /\ Tail(inbox[s]) \in Seq(Parcels) /\ thread[s].status = NoItem
             /\ Head(inbox[s]) \in Parcels /\ Head(inbox[s]).op = op
             /\ op # "Shutdown" => Head(inbox[s]).client \in Clients
  <2>1. inbox[s] # <<>> /\ thread[s].status = NoItem /\ Head(inbox[s]).op = op
    BY <1>3 DEF NextCommand, Free
  <2>2. Tail(inbox[s]) \in Seq(Parcels) /\ Head(inbox[s]) \in Parcels
    BY <2>1, <1>1, Rest
  <2> QED
    BY <2>1, <2>2 DEF Parcels
<1> QED
  BY <1>1, <1>2, <1>3

LEMMA SessionBroadcastsStep ==
    ASSUME DeliveryIInv, NEW s \in Sessions, SessionBroadcasts(s)
    PROVE  DeliveryIInv'
<1>1. Typed /\ Numbered
  BY DEF DeliveryIInv
<1>2. /\ thread[s] \in Thread /\ emitted[s] \in Nat /\ thread[s].status.n \in Nat
      /\ inbox[s] \in Seq(Parcels)
      /\ thread[s].status # NoItem =>
           /\ thread[s].status.kind = "status" /\ thread[s].status.session = s
           /\ thread[s].status.n # 0
  BY <1>1, ThreadFacts
<1>3. thread[s].status.n <= emitted[s] + 1
  <2>1. thread[s].status.n <= emitted[s]
    BY <1>1 DEF Numbered
  <2> QED
    BY <2>1, <1>2
<1>4. CASE SessionEvent(s)
  BY <1>2, <1>3, <1>4, BroadcastStep DEF SessionEvent
<1>5. CASE RunInput(s)
  <2>1. PICK th : th = [thread[s] EXCEPT !.busy = TRUE]
    OBVIOUS
  <2>2. th \in Thread /\ th.status = thread[s].status
    BY <2>1, <1>2 DEF Thread
  <2>3. /\ Broadcast(s, "event") /\ Continue(s, FALSE, th, Pruned(s), inbox[s])
        /\ UNCHANGED <<daemonVars, clientVars, writer>>
    BY <2>1, <1>5 DEF RunInput
  <2> QED
    BY <2>2, <2>3, <1>2, <1>3, BroadcastStep
<1>6. CASE StatusChanged(s)
  <2>1. PICK finished \in BOOLEAN :
          Continue(s, FALSE, [thread[s] EXCEPT
                  !.busy = ~finished, !.status = Item("status", s, emitted[s] + 1)],
                  Pruned(s), inbox[s])
    BY <1>6 DEF StatusChanged
  <2>2. PICK x : x = Item("status", s, emitted[s] + 1)
    OBVIOUS
  <2>3. PICK th : th = [thread[s] EXCEPT !.busy = ~finished, !.status = x]
    OBVIOUS
  <2>4. x \in Items /\ x.kind = "status" /\ x.session = s /\ x.n = emitted[s] + 1
    <3>1. emitted[s] + 1 \in Nat
      BY <1>2
    <3> QED
      BY <2>2, <3>1, CmdType DEF Item
  <2>5. th \in Thread /\ th.status = x
    BY <2>3, <2>4, <1>2 DEF Thread
  <2>6. /\ Broadcast(s, "status") /\ Continue(s, FALSE, th, Pruned(s), inbox[s])
        /\ UNCHANGED <<daemonVars, clientVars, writer>>
    BY <2>1, <2>2, <2>3, <1>6 DEF StatusChanged
  <2>7. x.n # 0 /\ x.n <= emitted[s] + 1
    BY <2>4, <1>2
  <2> QED
    BY <2>4, <2>5, <2>6, <2>7, <1>2, BroadcastStep
<1> QED
  BY <1>4, <1>5, <1>6 DEF SessionBroadcasts

\* The end of a session thread is one more command, or none.
LEMMA ExitedType ==
    ASSUME NEW s \in Sessions, NEW leave \in BOOLEAN
    PROVE  LET r == IF leave THEN Exited(s) ELSE <<>>
           IN  r \in Seq(Commands) /\ \A i \in 1 .. Len(r) : r[i].op = "SessionExited"
<1>1. PICK m : m = Cmd("SessionExited", None, s, NoItem)
  OBVIOUS
<1>2. m \in Commands /\ m.op = "SessionExited" /\ Exited(s) = <<m>>
  BY <1>1, CmdType DEF Cmd, Exited
<1>3. <<m>> \in Seq(Commands) /\ \A i \in 1 .. Len(<<m>>) : <<m>>[i].op = "SessionExited"
  BY <1>2
<1> QED
  BY <1>2, <1>3

LEMMA ForwardStatusStep ==
    ASSUME DeliveryIInv, NEW s \in Sessions, ForwardStatus(s)
    PROVE  DeliveryIInv'
<1>1. Typed /\ Numbered /\ Pairs
  BY DEF DeliveryIInv
<1>a. PICK leave : leave = LeavesWith(s, subscribers[s])
  OBVIOUS
<1>b. PICK x : x = thread[s].status
  OBVIOUS
<1>c. PICK m : m = Cmd("BroadcastSessionStatus", None, s, x)
  OBVIOUS
<1>d. PICK y : y = IF leave THEN Exited(s) ELSE <<>>
  OBVIOUS
<1>e. PICK ms : ms = <<m>>
  OBVIOUS
<1>f. PICK q : q = daemonQ
  OBVIOUS
<1>2. /\ thread[s] \in Thread /\ emitted[s] \in Nat /\ x.n \in Nat /\ x \in Items
      /\ inbox[s] \in Seq(Parcels) /\ subscribers[s] \in SUBSET Clients
      /\ x.kind = "status" /\ x.session = s /\ x.n # 0 /\ leave \in BOOLEAN
  BY <1>1, <1>a, <1>b, ThreadFacts DEF ForwardStatus, Thread, LeavesWith
<1>3. m \in Commands /\ m.op = "BroadcastSessionStatus" /\ m.session = s /\ m.msg = x
  BY <1>2, <1>c, CmdType DEF Cmd
<1>4. y \in Seq(Commands) /\ \A i \in 1 .. Len(y) : y[i].op = "SessionExited"
  BY <1>2, <1>d, ExitedType
<1>5. ms \in Seq(Commands) /\ \A i \in 1 .. Len(ms) : ms[i] = m
  BY <1>3, <1>e
<1>6. q \in Seq(Commands) /\ emitted \in [Sessions -> Nat]
  BY <1>1, <1>f DEF Typed
<1>7. daemonQ' = (q \o ms) \o y
  BY <1>a, <1>b, <1>c, <1>d, <1>e, <1>f DEF ForwardStatus
<1>8. (q \o ms) \o y = q \o (ms \o y)
  BY <1>4, <1>5, <1>6, Regroup
<1>9. /\ ms \o y \in Seq(Commands)
      /\ \A i \in 1 .. Len(ms \o y) : (ms \o y)[i].op \notin Enlists \cup {"ClientDisconnected"}
  <2>1. /\ \A i \in 1 .. Len(ms) : ms[i].op \notin Enlists \cup {"ClientDisconnected"}
        /\ \A i \in 1 .. Len(y) : y[i].op \notin Enlists \cup {"ClientDisconnected"}
    BY <1>3, <1>4, <1>5 DEF Enlists
  <2> QED
    BY <2>1, <1>4, <1>5, Joined
<1>10. Tells(ms \o y)
  BY <1>7, <1>8, <1>9, <1>f DEF Tells, ForwardStatus, daemonVars, clientVars
<1>11. PICK th : th = [thread[s] EXCEPT !.status = NoItem]
  OBVIOUS
<1>12. th \in Thread /\ th.status = NoItem
  BY <1>2, <1>11, CmdType DEF Thread
<1>13. /\ Continue(s, leave, th, subscribers[s], inbox[s])
       /\ UNCHANGED <<emitted, daemonVars, clientVars, writer, sink>>
  BY <1>11, <1>a DEF ForwardStatus
<1>14. PICK z : z = q \o ms
  OBVIOUS
<1>15. z \in Seq(Commands)
  BY <1>5, <1>6, <1>14, Joined
<1>16. Ordered(daemonQ', emitted')
  <2>1. Ordered(q, emitted) /\ emitted' = emitted /\ m.msg.n <= emitted[m.session]
    BY <1>1, <1>3, <1>13, <1>b, <1>f DEF Numbered
  <2>2. Ordered(z, emitted)
    BY <2>1, <1>3, <1>6, <1>14, <1>e, OrderedForward
  <2>3. \A i \in 1 .. Len(y) : y[i].op \notin Buses
    BY <1>4 DEF Buses
  <2>4. Ordered(z \o y, emitted)
    BY <2>2, <2>3, <1>4, <1>15, OrderedJoin
  <2> QED
    BY <2>1, <2>4, <1>7, <1>14
<1>17. Pairs'
  <2> SUFFICES ASSUME NEW c \in Clients, NEW s1 \in Sessions, ~Out(c)'
               PROVE  Pair(c, s1, daemonQ', (<<c, s1>> \in tracked)', conn'[c], (c \in subscribers[s1])',
                           sink'[c], emitted'[s1])
    BY DEF Pairs
  <2> PICK t : t = (<<c, s1>> \in tracked)
    OBVIOUS
  <2> PICK sub : sub = (c \in subscribers[s1])
    OBVIOUS
  <2> PICK sub2 : sub2 = (c \in subscribers'[s1])
    OBVIOUS
  <2>1. /\ ~Out(c) /\ (<<c, s1>> \in tracked)' = t /\ conn'[c] = conn[c] /\ sink'[c] = sink[c]
        /\ emitted'[s1] = emitted[s1]
    BY <1>13 DEF Out, daemonVars, clientVars
  <2>2. sub2 => sub
    BY <1>1, <1>13 DEF Continue, Typed
  <2>3. Pair(c, s1, q, t, conn[c], sub, sink[c], emitted[s1])
    BY <2>1, <1>1, <1>f DEF Pairs
  <2>4. Pair(c, s1, q \o <<m>>, t, conn[c], sub, sink[c], emitted[s1])
    BY <2>3, <1>3, <1>6, PairForward
  <2>5. Quiet(y, c, s1) /\ ~Says(y, "ClientDisconnected", c)
    BY <1>4 DEF Quiet, Loud, Says, By, Buses
  <2>6. Pair(c, s1, z, t, conn[c], sub, sink[c], emitted[s1])
    BY <2>4, <1>14, <1>e
  <2>7. Pair(c, s1, z \o y, t, conn[c], sub2, sink[c], emitted[s1])
    BY <2>2, <2>5, <2>6, <1>4, <1>15, PairJoin
  <2> QED
    BY <2>1, <2>7, <1>7, <1>14
<1> QED
  BY <1>2, <1>10, <1>12, <1>13, <1>16, <1>17, TellStep

\* The client of the next command leaves the session.
LEMMA QuitStep ==
    ASSUME DeliveryIInv, NEW s \in Sessions, NEW op \in {"Detach", "RemoveSubscriber"},
           NextCommand(s, op), NEW c, c = Head(inbox[s]).client,
           NEW R, R = subscribers[s] \ {c}, NEW leave, leave = LeavesWith(s, R),
           NEW r \in Seq(Commands),
           \A i \in 1 .. Len(r) : \/ r[i].op = "SessionExited"
                                  \/ Is(r[i], "UntrackSessionSubscription", c, s),
           Continue(s, leave, thread[s], R, Tail(inbox[s])), daemonQ' = daemonQ \o r,
           UNCHANGED <<emitted, daemonVars, clientVars, writer, sink>>
    PROVE  DeliveryIInv'
<1>1. Typed /\ Numbered
  BY DEF DeliveryIInv
<1>2. /\ thread[s] \in Thread /\ Tail(inbox[s]) \in Seq(Parcels) /\ R \in SUBSET Clients
      /\ thread[s].status = NoItem /\ leave \in BOOLEAN
  BY <1>1, ThreadFacts DEF LeavesWith, Thread
<1>3. /\ \A i \in 1 .. Len(r) : r[i].op \notin Enlists \cup {"ClientDisconnected"}
      /\ \A i \in 1 .. Len(r) : r[i].op \notin Buses
  BY DEF Is, Enlists, Buses
<1>4. Tells(r)
  BY <1>3 DEF Tells, daemonVars, clientVars
<1>5. Ordered(daemonQ', emitted')
  BY <1>3, <1>4, TellsKeeps
<1>6. ASSUME NEW c1 \in Clients, NEW s1 \in Sessions, c1 \in subscribers'[s1]
      PROVE  c1 \in subscribers[s1] /\ Quiet(r, c1, s1)
  <2>1. c1 \in subscribers[s1] /\ (s1 = s => c1 # c)
    BY <1>1, <1>6 DEF Continue, Typed
  <2>2. Quiet(r, c1, s1)
    BY <2>1, <1>3 DEF Quiet, Loud, Is
  <2> QED
    BY <2>1, <2>2
<1>7. Pairs'
  BY <1>3, <1>4, <1>6, TellsPairs
<1> QED
  BY <1>2, <1>4, <1>5, <1>7, TellStep

LEMMA HandleDetachStep ==
    ASSUME DeliveryIInv, NEW s \in Sessions, HandleDetach(s)
    PROVE  DeliveryIInv'
<1>1. Typed
  BY DEF DeliveryIInv
<1>2. PICK c : c = Head(inbox[s]).client
  OBVIOUS
<1>3. PICK R : R = subscribers[s] \ {c}
  OBVIOUS
<1>4. PICK leave : leave = LeavesWith(s, R)
  OBVIOUS
<1>5. PICK m : m = Cmd("UntrackSessionSubscription", c, s, NoItem)
  OBVIOUS
<1>6. PICK y : y = IF leave THEN Exited(s) ELSE <<>>
  OBVIOUS
<1>7. PICK ms : ms = <<m>>
  OBVIOUS
<1>8. NextCommand(s, "Detach") /\ c \in Clients /\ leave \in BOOLEAN
  BY <1>1, <1>2, <1>4, ThreadFacts DEF HandleDetach, LeavesWith
<1>9. m \in Commands /\ Is(m, "UntrackSessionSubscription", c, s)
  BY <1>5, <1>8, CmdType DEF Cmd, Is, Books
<1>10. y \in Seq(Commands) /\ \A i \in 1 .. Len(y) : y[i].op = "SessionExited"
  BY <1>6, <1>8, ExitedType
<1>11. ms \in Seq(Commands) /\ \A i \in 1 .. Len(ms) : ms[i] = m
  BY <1>7, <1>9
<1>12. daemonQ \in Seq(Commands)
  BY <1>1 DEF Typed
<1>13. PICK q : q = daemonQ
  OBVIOUS
<1>14. daemonQ' = (q \o ms) \o y
  BY <1>2, <1>3, <1>4, <1>5, <1>6, <1>7, <1>13 DEF HandleDetach
<1>15. (q \o ms) \o y = q \o (ms \o y)
  BY <1>10, <1>11, <1>12, <1>13, Regroup
<1>16. PICK r : r = ms \o y
  OBVIOUS
<1>17. /\ r \in Seq(Commands)
       /\ \A i \in 1 .. Len(r) : \/ r[i].op = "SessionExited"
                                 \/ Is(r[i], "UntrackSessionSubscription", c, s)
  BY <1>9, <1>10, <1>11, <1>16, Joined
<1>18. /\ Continue(s, leave, thread[s], R, Tail(inbox[s])) /\ daemonQ' = daemonQ \o r
       /\ UNCHANGED <<emitted, daemonVars, clientVars, writer, sink>>
  BY <1>2, <1>3, <1>4, <1>13, <1>14, <1>15, <1>16 DEF HandleDetach
<1> QED
  BY <1>2, <1>3, <1>4, <1>8, <1>17, <1>18, QuitStep

LEMMA HandleRemoveSubscriberStep ==
    ASSUME DeliveryIInv, NEW s \in Sessions, HandleRemoveSubscriber(s)
    PROVE  DeliveryIInv'
<1>1. Typed
  BY DEF DeliveryIInv
<1>2. PICK c : c = Head(inbox[s]).client
  OBVIOUS
<1>3. PICK R : R = subscribers[s] \ {c}
  OBVIOUS
<1>4. PICK leave : leave = LeavesWith(s, R)
  OBVIOUS
<1>5. PICK y : y = IF leave THEN Exited(s) ELSE <<>>
  OBVIOUS
<1>6. NextCommand(s, "RemoveSubscriber") /\ leave \in BOOLEAN
  BY <1>2, <1>4 DEF HandleRemoveSubscriber, LeavesWith
<1>7. y \in Seq(Commands) /\ \A i \in 1 .. Len(y) : y[i].op = "SessionExited"
  BY <1>5, <1>6, ExitedType
<1>8. /\ Continue(s, leave, thread[s], R, Tail(inbox[s])) /\ daemonQ' = daemonQ \o y
      /\ UNCHANGED <<emitted, daemonVars, clientVars, writer, sink>>
  BY <1>2, <1>3, <1>4, <1>5 DEF HandleRemoveSubscriber
<1> QED
  BY <1>2, <1>3, <1>4, <1>6, <1>7, <1>8, QuitStep

LEMMA HandleShutdownStep ==
    ASSUME DeliveryIInv, NEW s \in Sessions, HandleShutdown(s)
    PROVE  DeliveryIInv'
<1>1. Typed /\ Numbered
  BY DEF DeliveryIInv
<1>2. /\ thread[s] \in Thread /\ emitted[s] \in Nat /\ thread[s].status = NoItem
      /\ Tail(inbox[s]) \in Seq(Parcels)
  BY <1>1, ThreadFacts DEF HandleShutdown
<1>3. CASE thread[s].busy
  <2>1. PICK th : th = [thread[s] EXCEPT !.stop = TRUE]
    OBVIOUS
  <2>2. th \in Thread /\ th.status = NoItem
    BY <2>1, <1>2 DEF Thread
  <2>3. /\ Broadcast(s, "event") /\ Continue(s, FALSE, th, Pruned(s), Tail(inbox[s]))
        /\ UNCHANGED <<daemonVars, clientVars, writer>>
    BY <2>1, <1>3 DEF HandleShutdown
  <2>4. th.status.n <= emitted[s] + 1
    BY <2>2, <1>2, CmdType
  <2> QED
    BY <2>2, <2>3, <2>4, <1>2, BroadcastStep
<1>4. CASE ~thread[s].busy
  <2>1. PICK y : y = Exited(s)
    OBVIOUS
  <2>2. PICK leave : leave = TRUE
    OBVIOUS
  <2>3. y = IF leave THEN Exited(s) ELSE <<>>
    BY <2>1, <2>2
  <2>4. y \in Seq(Commands) /\ \A i \in 1 .. Len(y) : y[i].op = "SessionExited"
    BY <2>2, <2>3, ExitedType
  <2>5. /\ Continue(s, TRUE, thread[s], {}, <<>>) /\ daemonQ' = daemonQ \o y
        /\ UNCHANGED <<emitted, daemonVars, clientVars, writer, sink>>
    BY <2>1, <1>4 DEF HandleShutdown
  <2>6. /\ \A i \in 1 .. Len(y) : y[i].op \notin Enlists \cup {"ClientDisconnected"}
        /\ \A i \in 1 .. Len(y) : y[i].op \notin Buses
        /\ \A c, s1 : Quiet(y, c, s1)
    BY <2>4 DEF Enlists, Buses, Quiet, Loud
  <2>7. Tells(y)
    BY <2>4, <2>5, <2>6 DEF Tells, daemonVars, clientVars
  <2>8. Ordered(daemonQ', emitted')
    BY <2>6, <2>7, TellsKeeps
  <2>9. \A c \in Clients, s1 \in Sessions : c \in subscribers'[s1] => c \in subscribers[s1]
    BY <2>5, <1>1 DEF Continue, Typed
  <2>10. Pairs'
    BY <2>6, <2>7, <2>9, TellsPairs
  <2>11. <<>> \in Seq(Parcels) /\ {} \in SUBSET Clients
    OBVIOUS
  <2> QED
    BY <2>5, <2>7, <2>8, <2>10, <2>11, <1>2, TellStep
<1> QED
  BY <1>3, <1>4

LEMMA HandleAttachStep ==
    ASSUME DeliveryIInv, NEW s \in Sessions, HandleAttach(s)
    PROVE  DeliveryIInv'
<1>1. Typed /\ Membership /\ Logs /\ Numbered /\ Pairs
  BY DEF DeliveryIInv
<1>2. PICK c : c = Head(inbox[s]).client
  OBVIOUS
<1>3. PICK R : R = subscribers[s] \cup {c}
  OBVIOUS
<1>4. PICK m : m = Cmd("TrackSessionSubscription", c, s, NoItem)
  OBVIOUS
<1>5. PICK x : x = Item("snapshot", s, emitted[s])
  OBVIOUS
<1>6. PICK q : q = daemonQ
  OBVIOUS
<1>7. NextCommand(s, "Attach")
  BY DEF HandleAttach
<1>8. /\ thread[s] \in Thread /\ emitted[s] \in Nat /\ thread[s].status = NoItem
      /\ Tail(inbox[s]) \in Seq(Parcels) /\ c \in Clients /\ R \in SUBSET Clients
  BY <1>1, <1>2, <1>3, <1>7, ThreadFacts
<1>9. q \in Seq(Commands) /\ sink \in [Clients -> Seq(Items)] /\ emitted \in [Sessions -> Nat]
  BY <1>1, <1>6 DEF Typed
<1>10. m \in Commands /\ Is(m, "TrackSessionSubscription", c, s)
  BY <1>4, <1>8, CmdType DEF Cmd, Is, Books
<1>11. x \in Items /\ Snap(x, s) /\ x.n = emitted[s] /\ x.kind = "snapshot" /\ x.session = s
  BY <1>5, <1>8, CmdType DEF Item, Snap
<1>12. daemonQ' = q \o <<m>> /\ daemonQ' \in Seq(Commands)
  <2>1. daemonQ' = Append(q, m)
    BY <1>2, <1>4, <1>6 DEF HandleAttach
  <2> QED
    BY <2>1, <1>9, <1>10, Added
<1>13. sink' = Enqueue(sink, {c}, x)
  BY <1>2, <1>5 DEF HandleAttach
<1>14. /\ sink' \in [Clients -> Seq(Items)]
       /\ writer[c] = "run" => sink'[c] = sink[c] \o <<x>>
       /\ writer[c] # "run" => sink'[c] = sink[c]
       /\ \A c1 \in Clients : c1 # c => sink'[c1] = sink[c1]
  <2>1. PICK T : T = {c}
    OBVIOUS
  <2>2. PICK sk : sk = Enqueue(sink, T, x)
    OBVIOUS
  <2>3. /\ sk \in [Clients -> Seq(Items)]
        /\ \A c1 \in Clients :
             /\ c1 \in T /\ writer[c1] = "run" => sk[c1] = sink[c1] \o <<x>>
             /\ c1 \notin T \/ writer[c1] # "run" => sk[c1] = sink[c1]
    BY <1>9, <1>11, <2>2, Enqueued
  <2>4. sink' = sk
    BY <1>13, <2>1, <2>2
  <2> QED
    BY <1>8, <2>1, <2>3, <2>4
<1>15. /\ Continue(s, FALSE, thread[s], R, Tail(inbox[s]))
       /\ UNCHANGED <<emitted, daemonVars, clientVars, writer>>
  BY <1>2, <1>3 DEF HandleAttach
<1>16. /\ thread' \in [Sessions -> Thread]
       /\ \A s1 \in Sessions : (thread'[s1]).status # NoItem =>
            /\ (thread'[s1]).status.kind = "status" /\ (thread'[s1]).status.session = s1
            /\ (thread'[s1]).status.n # 0
       /\ inbox' \in [Sessions -> Seq(Parcels)]
       /\ subscribers' \in [Sessions -> SUBSET Clients]
       /\ \A s1 \in Sessions : s1 # s => thread'[s1] = thread[s1] /\ subscribers'[s1] = subscribers[s1]
       /\ thread'[s] = thread[s] /\ \A c1 \in Clients : c1 \in subscribers'[s] <=> c1 \in R
  <2>1. PICK th : th = thread[s]
    OBVIOUS
  <2>2. PICK rest : rest = Tail(inbox[s])
    OBVIOUS
  <2>3. th \in Thread /\ th.status = NoItem /\ rest \in Seq(Parcels) /\ R \in SUBSET Clients
    BY <2>1, <2>2, <1>8
  <2>4. Continue(s, FALSE, th, R, rest)
    BY <2>1, <2>2, <1>15
  <2>5. th.status # NoItem => th.status.kind = "status" /\ th.status.session = s /\ th.status.n # 0
    BY <2>3
  <2>6. /\ thread' \in [Sessions -> Thread]
        /\ \A s1 \in Sessions : (thread'[s1]).status # NoItem =>
             /\ (thread'[s1]).status.kind = "status" /\ (thread'[s1]).status.session = s1
             /\ (thread'[s1]).status.n # 0
        /\ inbox' \in [Sessions -> Seq(Parcels)]
        /\ subscribers' \in [Sessions -> SUBSET Clients]
        /\ \A s1 \in Sessions : s1 # s => /\ thread'[s1] = thread[s1]
                                          /\ subscribers'[s1] = subscribers[s1]
                                          /\ inbox'[s1] = inbox[s1]
        /\ thread'[s] = th /\ \A c1 \in Clients : c1 \in subscribers'[s] <=> c1 \in R
    BY <2>3, <2>4, <2>5, <1>1, Continued
  <2> QED
    BY <2>1, <2>6
<1>17. Typed'
  BY <1>1, <1>12, <1>14, <1>15, <1>16 DEF Typed, daemonVars, clientVars
<1>18. \A c1 \in Clients : Noticed(sink'[c1]) <=> Noticed(sink[c1])
  <2> SUFFICES ASSUME NEW c1 \in Clients
               PROVE  Noticed(sink'[c1]) <=> Noticed(sink[c1])
    OBVIOUS
  <2>1. sink[c1] \in Seq(Items) /\ x.kind # "evicted"
    BY <1>9, <1>11
  <2>2. CASE sink'[c1] = sink[c1] \o <<x>>
    BY <2>1, <2>2, <1>11, Got
  <2>3. CASE sink'[c1] = sink[c1]
    BY <2>3
  <2> QED
    BY <2>2, <2>3, <1>14
<1>19. PICK ms : ms = <<m>>
  OBVIOUS
<1>20. ms \in Seq(Commands) /\ \A i \in 1 .. Len(ms) : ms[i] = m
  BY <1>10, <1>19
<1>21. Membership'
  <2> SUFFICES ASSUME NEW c1 \in Clients
               PROVE  Member(c1, daemonQ', conn'[c1], c1 \in writers', Listed(c1)', sink'[c1])
    BY DEF Membership
  <2> PICK reg : reg = (c1 \in writers)
    OBVIOUS
  <2> PICK listed : listed = Listed(c1)
    OBVIOUS
  <2> PICK log2 : log2 = sink'[c1]
    OBVIOUS
  <2>1. conn'[c1] = conn[c1] /\ (c1 \in writers') = reg /\ Listed(c1)' = listed
    BY <1>15 DEF Listed, daemonVars, clientVars
  <2>2. Member(c1, q, conn[c1], reg, listed, sink[c1])
    BY <1>1, <1>6 DEF Membership
  <2>3. \A i \in 1 .. Len(ms) : ~Joins(ms[i], c1)
    BY <1>10, <1>20 DEF Joins, By, Is, Enlists
  <2>4. Noticed(log2) => Noticed(sink[c1])
    BY <1>18
  <2>5. Member(c1, q \o ms, conn[c1], reg, listed, log2)
    BY <2>2, <2>3, <2>4, <1>9, <1>20, MemberJoin
  <2> QED
    BY <2>1, <2>5, <1>12, <1>19
<1>22. Logs'
  <2> SUFFICES ASSUME NEW c1 \in Clients
               PROVE  Log(sink'[c1], emitted')
    BY DEF Logs
  <2>1. sink[c1] \in Seq(Items) /\ Log(sink[c1], emitted) /\ emitted' = emitted
    BY <1>1, <1>9, <1>15 DEF Logs
  <2>2. x.kind # "evicted" /\ x.kind # "event" /\ x.session \in Sessions /\ x.n = emitted[x.session]
        /\ x.n <= emitted[x.session]
    BY <1>8, <1>11
  <2>3. Log(sink[c1] \o <<x>>, emitted)
    BY <2>1, <2>2, <1>9, <1>11, LogGot
  <2> QED
    BY <2>1, <2>3, <1>14
<1>23. Numbered'
  <2>1. Ordered(q, emitted) /\ emitted' = emitted
    BY <1>1, <1>6, <1>15 DEF Numbered
  <2>2. \A i \in 1 .. Len(ms) : ms[i].op \notin Buses
    BY <1>10, <1>20 DEF Is, Buses
  <2>3. Ordered(q \o ms, emitted)
    BY <2>1, <2>2, <1>9, <1>20, OrderedJoin
  <2>4. Ordered(daemonQ', emitted')
    BY <2>1, <2>3, <1>12, <1>19
  <2>5. \A s1 \in Sessions : (thread'[s1]).status.n <= emitted'[s1]
    BY <2>1, <1>1, <1>16 DEF Numbered
  <2> QED
    BY <2>4, <2>5 DEF Numbered
<1>24. Pairs'
  <2> SUFFICES ASSUME NEW c1 \in Clients, NEW s1 \in Sessions, ~Out(c1)'
               PROVE  Pair(c1, s1, daemonQ', (<<c1, s1>> \in tracked)', conn'[c1], (c1 \in subscribers[s1])',
                           sink'[c1], emitted'[s1])
    BY DEF Pairs
  <2> PICK t : t = (<<c1, s1>> \in tracked)
    OBVIOUS
  <2> PICK sub : sub = (c1 \in subscribers[s1])
    OBVIOUS
  <2> PICK sub2 : sub2 = (c1 \in subscribers'[s1])
    OBVIOUS
  <2> PICK cn : cn = conn[c1]
    OBVIOUS
  <2> PICK e : e = emitted[s1]
    OBVIOUS
  <2> PICK log : log = sink[c1]
    OBVIOUS
  <2>1. /\ ~Out(c1) /\ writer[c1] = "run" /\ (<<c1, s1>> \in tracked)' = t /\ conn'[c1] = cn
        /\ emitted'[s1] = e
    BY <1>1, <1>15, <1>18 DEF Out, Typed, daemonVars, clientVars
  <2>2. Pair(c1, s1, q, t, cn, sub, log, e)
    BY <2>1, <1>1, <1>6 DEF Pairs
  <2>3. log \in Seq(Items) /\ e \in Nat
    BY <1>9
  <2>4. ~Says(ms, "ClientDisconnected", c1)
    BY <1>10, <1>20 DEF Says, By, Is
  <2>5. CASE c1 = c /\ s1 = s
    <3>1. \A i \in 1 .. Len(q) : q[i].op \in Buses /\ q[i].session = s1 => q[i].msg.n <= e
      BY <2>5, <1>1, <1>6 DEF Numbered, Ordered
    <3>2. Is(m, "TrackSessionSubscription", c1, s1) /\ Snap(x, s1) /\ x.n = e
      BY <2>5, <1>10, <1>11
    <3>3. Pair(c1, s1, q \o <<m>>, t, cn, sub2, log \o <<x>>, e)
      BY <2>2, <2>3, <3>1, <3>2, <1>9, <1>10, <1>11, PairAttach
    <3>4. sink'[c1] = log \o <<x>>
      BY <2>1, <2>5, <1>14
    <3> QED
      BY <2>1, <3>3, <3>4, <1>12
  <2>6. CASE ~(c1 = c /\ s1 = s)
    <3>1. sub2 => sub
      BY <2>6, <1>3, <1>16
    <3>2. Quiet(ms, c1, s1)
      BY <2>6, <1>10, <1>20 DEF Quiet, Loud, Is, Buses
    <3>3. Pair(c1, s1, q \o ms, t, cn, sub2, log, e)
      BY <2>2, <2>4, <3>1, <3>2, <1>9, <1>20, PairJoin
    <3>4. CASE c1 = c
      <4>1. x.session # s1 /\ sink'[c1] = log \o <<x>>
        BY <2>1, <2>6, <3>4, <1>11, <1>14
      <4>2. Pair(c1, s1, q \o ms, t, cn, sub2, log \o <<x>>, e)
        BY <2>3, <3>3, <4>1, <1>11, PairOther
      <4> QED
        BY <2>1, <4>1, <4>2, <1>12, <1>19
    <3>5. CASE c1 # c
      <4>1. sink'[c1] = log
        BY <3>5, <1>14
      <4> QED
        BY <2>1, <3>3, <4>1, <1>12, <1>19
    <3> QED
      BY <3>4, <3>5
  <2> QED
    BY <2>5, <2>6
<1> QED
  BY <1>17, <1>21, <1>22, <1>23, <1>24 DEF DeliveryIInv

LEMMA HandleInboxStep ==
    ASSUME DeliveryIInv, NEW s \in Sessions, HandleInbox(s)
    PROVE  DeliveryIInv'
  BY ForwardStatusStep, HandleAttachStep, HandleDetachStep, HandleRemoveSubscriberStep,
     HandleShutdownStep DEF HandleInbox

-----------------------------------------------------------------------------
(* The steps of the daemon's command loop *)

LEMMA QueueHead ==
    ASSUME Typed, daemonQ # <<>>
    PROVE  /\ Head(daemonQ) \in Commands /\ Tail(daemonQ) \in Seq(Commands)
           /\ daemonQ \in Seq(Commands) /\ Head(daemonQ) = daemonQ[1] /\ 1 \in 1 .. Len(daemonQ)
<1>1. daemonQ \in Seq(Commands)
  BY DEF Typed
<1> QED
  BY <1>1, Rest

\* A command is taken that changes no sink.
LEMMA Takes ==
    ASSUME DeliveryIInv, daemonQ # <<>>, daemonQ' = Tail(daemonQ),
           UNCHANGED <<conn, writer, sink, emitted, subscribers>>,
           \A c \in Clients :
             /\ c \in writers' => c \in writers \/ By(Head(daemonQ), "RegisterClientWriter", c)
             /\ Listed(c)' => Listed(c) \/ \E op \in Enlists : By(Head(daemonQ), op, c)
             /\ By(Head(daemonQ), "ClientDisconnected", c) => ~Listed(c)',
           \A c \in Clients, s \in Sessions :
             /\ Is(Head(daemonQ), "TrackSessionSubscription", c, s) => <<c, s>> \in tracked'
             /\ <<c, s>> \in tracked /\ ~By(Head(daemonQ), "ClientDisconnected", c)
                  /\ ~Is(Head(daemonQ), "UntrackSessionSubscription", c, s) => <<c, s>> \in tracked'
    PROVE  Membership' /\ Logs' /\ Ordered(daemonQ', emitted') /\ Pairs'
<1>1. Typed /\ Membership /\ Logs /\ Numbered /\ Pairs
  BY DEF DeliveryIInv
<1>2. PICK q : q = daemonQ
  OBVIOUS
<1>3. q \in Seq(Commands) /\ q # <<>> /\ daemonQ' = Tail(q)
  BY <1>1, <1>2 DEF Typed
<1>4. PICK h : h = Head(q)
  OBVIOUS
<1>5. ASSUME NEW c \in Clients
      PROVE  /\ Member(c, daemonQ', conn'[c], c \in writers', Listed(c)', sink'[c])
             /\ By(h, "ClientDisconnected", c) =>
                  conn[c] = "closed" /\ ~Says(Tail(q), "ClientDisconnected", c)
  <2> PICK reg : reg = (c \in writers)
    OBVIOUS
  <2> PICK listed : listed = Listed(c)
    OBVIOUS
  <2> PICK reg2 : reg2 = (c \in writers')
    OBVIOUS
  <2> PICK listed2 : listed2 = Listed(c)'
    OBVIOUS
  <2>1. Member(c, q, conn[c], reg, listed, sink[c])
    BY <1>1, <1>2 DEF Membership
  <2>2. /\ reg2 => reg \/ By(Head(q), "RegisterClientWriter", c)
        /\ listed2 => listed \/ \E op \in Enlists : By(Head(q), op, c)
        /\ By(Head(q), "ClientDisconnected", c) => ~listed2
    BY <1>2
  <2>3. /\ Member(c, Tail(q), conn[c], reg2, listed2, sink[c])
        /\ By(Head(q), "ClientDisconnected", c) =>
             conn[c] = "closed" /\ ~Says(Tail(q), "ClientDisconnected", c)
    BY <2>1, <2>2, <1>3, MemberTail
  <2> QED
    BY <2>3, <1>3, <1>4
<1>6. Membership'
  BY <1>5 DEF Membership
<1>7. Logs'
  BY <1>1 DEF Logs
<1>8. Ordered(daemonQ', emitted')
  <2>1. Ordered(q, emitted)
    BY <1>1, <1>2 DEF Numbered
  <2> QED
    BY <2>1, <1>3, OrderedTail
<1>9. Pairs'
  <2> SUFFICES ASSUME NEW c \in Clients, NEW s \in Sessions, ~Out(c)'
               PROVE  Pair(c, s, daemonQ', (<<c, s>> \in tracked)', conn'[c], (c \in subscribers[s])',
                           sink'[c], emitted'[s])
    BY DEF Pairs
  <2> PICK t : t = (<<c, s>> \in tracked)
    OBVIOUS
  <2> PICK t2 : t2 = (<<c, s>> \in tracked')
    OBVIOUS
  <2> PICK sub : sub = (c \in subscribers[s])
    OBVIOUS
  <2>1. /\ ~Out(c) /\ conn'[c] = conn[c] /\ sink'[c] = sink[c] /\ emitted'[s] = emitted[s]
        /\ (c \in subscribers[s])' = sub
    BY DEF Out
  <2>2. Pair(c, s, q, t, conn[c], sub, sink[c], emitted[s])
    BY <2>1, <1>1, <1>2 DEF Pairs
  <2>3. /\ Is(Head(q), "TrackSessionSubscription", c, s) => t2
        /\ t /\ ~By(Head(q), "ClientDisconnected", c)
             /\ ~Is(Head(q), "UntrackSessionSubscription", c, s) => t2
    BY <1>2
  <2>4. By(Head(q), "ClientDisconnected", c) =>
          conn[c] = "closed" /\ ~Says(Tail(q), "ClientDisconnected", c)
    BY <1>4, <1>5
  <2>5. Pair(c, s, Tail(q), t2, conn[c], sub, sink[c], emitted[s])
    BY <2>2, <2>3, <2>4, <1>3, PairTail
  <2> QED
    BY <2>1, <2>5, <1>3
<1> QED
  BY <1>6, <1>7, <1>8, <1>9

\* A client in good standing to whom the daemon sends what is at the head of
\* its queue is not shielded from it.
LEMMA Unshielded ==
    ASSUME NEW q, NEW cn, NEW reg, NEW log, NEW c, NEW s, Member(c, q, cn, reg, TRUE, log)
    PROVE  ~Shield(q, FALSE, cn, c, s, 1)
<1>1. \A j \in 1 .. 1 - 1 : FALSE
  OBVIOUS
<1>2. ~DroppedAt(q, cn, c, 1)
  BY <1>1 DEF DroppedAt, Member
<1>3. ~TrackedAt(q, FALSE, c, s, 1)
  BY <1>1 DEF TrackedAt, Latest
<1> QED
  BY <1>2, <1>3 DEF Shield

\* What the clients are sent when a command is taken, and who is evicted
Receives(c) ==
    /\ Head(daemonQ).op \in Buses
    /\ Listed(c) /\ <<c, Head(daemonQ).session>> \notin tracked /\ writer[c] = "run"
Sent(sk) ==
    /\ sk \in [Clients -> Seq(Items)]
    /\ \A c \in Clients : \/ sk[c] = sink[c]
                          \/ Receives(c) /\ sk[c] = sink[c] \o <<Head(daemonQ).msg>>

LEMMA SentNew ==
    ASSUME DeliveryIInv, daemonQ # <<>>, NEW c \in Clients, Receives(c), ~Noticed(sink[c])
    PROVE  LET h == Head(daemonQ)
           IN  /\ h.op = "BroadcastActivity" => ~Has(sink[c], h.session, h.msg.n)
               /\ c \in subscribers[h.session] => ~Since(sink[c], h.session, h.msg.n)
<1>1. Typed /\ Membership /\ Numbered /\ Pairs
  BY DEF DeliveryIInv
<1> PICK h : h = Head(daemonQ)
  OBVIOUS
<1> PICK s : s = h.session
  OBVIOUS
<1> PICK n : n = h.msg.n
  OBVIOUS
<1> PICK q : q = daemonQ
  OBVIOUS
<1> PICK sub : sub = (c \in subscribers[s])
  OBVIOUS
<1>2. /\ h \in Commands /\ h = q[1] /\ 1 \in 1 .. Len(q) /\ q \in Seq(Commands)
  BY <1>1, QueueHead
<1>3. s \in Sessions /\ n \in Nat /\ n # 0 /\ h.op \in Buses
  BY <1>2, CommandFacts DEF Receives
<1>4. ~Shield(q, FALSE, conn[c], c, s, 1)
  <2>1. PICK reg : reg = (c \in writers)
    OBVIOUS
  <2>2. Listed(c) = TRUE
    BY DEF Receives, Listed
  <2>3. Member(c, q, conn[c], reg, TRUE, sink[c])
    BY <2>1, <2>2, <1>1 DEF Membership
  <2> QED
    BY <2>3, Unshielded
<1>5. Pair(c, s, q, FALSE, conn[c], sub, sink[c], emitted[s])
  <2>1. ~Out(c) /\ (<<c, s>> \in tracked) = FALSE
    BY DEF Out, Receives
  <2> QED
    BY <2>1, <1>1, <1>3 DEF Pairs
<1>6. ASSUME h.op = "BroadcastActivity"
      PROVE  ~Has(sink[c], s, n)
  <2>1. On(q[1], "BroadcastActivity", s, n)
    BY <1>2, <1>6 DEF On
  <2> QED
    BY <2>1, <1>2, <1>3, <1>4, <1>5 DEF Pair
<1>7. ASSUME sub, Since(sink[c], s, n)
      PROVE  FALSE
  <2>1. CASE h.op = "BroadcastActivity"
    <3>1. n \in 1 .. emitted[s]
      <4>1. n <= emitted[s] /\ emitted[s] \in Nat
        BY <1>1, <1>2, <1>3 DEF Numbered, Ordered, Typed
      <4> QED
        BY <4>1, <1>3
    <3>2. Has(sink[c], s, n)
      BY <3>1, <1>5, <1>7 DEF Pair
    <3> QED
      BY <2>1, <3>2, <1>6
  <2>2. CASE h.op = "BroadcastSessionStatus"
    <3>1. On(q[1], "BroadcastSessionStatus", s, n)
      BY <1>2, <2>2 DEF On
    <3> QED
      BY <3>1, <1>2, <1>3, <1>4, <1>5, <1>7 DEF Pair
  <2> QED
    BY <2>1, <2>2, <1>3 DEF Buses
<1> QED
  BY <1>6, <1>7

LEMMA Evicts ==
    ASSUME DeliveryIInv, daemonQ # <<>>, daemonQ' = Tail(daemonQ),
           Head(daemonQ).op \in Buses \cup Chores \cup {"SessionExited"},
           NEW E \in SUBSET writers, NEW sk, Sent(sk),
           sink' = Enqueue(sk, E, Item("evicted", None, 0)),
           \A c \in Clients : Listed(c)' => Listed(c),
           writers' = writers \ E, tracked' = {p \in tracked : p[1] \notin E},
           UNCHANGED <<conn, writer, emitted, subscribers>>
    PROVE  /\ sink' \in [Clients -> Seq(Items)]
           /\ Membership' /\ Logs' /\ Ordered(daemonQ', emitted') /\ Pairs'
<1>1. Typed /\ Membership /\ Logs /\ Numbered /\ Pairs
  BY DEF DeliveryIInv
<1>2. PICK q : q = daemonQ
  OBVIOUS
<1>3. PICK h : h = Head(q)
  OBVIOUS
<1>4. PICK x : x = h.msg
  OBVIOUS
<1>5. PICK y : y = Item("evicted", None, 0)
  OBVIOUS
<1>6. /\ q \in Seq(Commands) /\ q # <<>> /\ daemonQ' = Tail(q) /\ h \in Commands /\ h = q[1]
      /\ 1 \in 1 .. Len(q) /\ x \in Items /\ x.n \in Nat
      /\ h.op \in Buses => /\ h.session \in Sessions /\ x.session = h.session /\ x.n # 0
                           /\ x.kind \in {"event", "status"}
      /\ h.op = "BroadcastSessionStatus" => x.kind = "status"
  BY <1>1, <1>2, <1>3, <1>4, QueueHead, CommandFacts
<1>7. y \in Items /\ y.kind = "evicted"
  BY <1>5 DEF Item, Items
<1>8. /\ sink' \in [Clients -> Seq(Items)]
      /\ \A c \in Clients :
           /\ c \in E /\ writer[c] = "run" => sink'[c] = sk[c] \o <<y>>
           /\ c \notin E \/ writer[c] # "run" => sink'[c] = sk[c]
  BY <1>5, <1>7, Enqueued DEF Sent
<1>9. \A c \in Clients : /\ sink[c] \in Seq(Items) /\ sk[c] \in Seq(Items)
                         /\ \/ sk[c] = sink[c]
                            \/ Receives(c) /\ sk[c] = sink[c] \o <<x>>
  BY <1>1, <1>2, <1>3, <1>4 DEF Sent, Typed
<1>10. \A c \in Clients : Receives(c) =>
         /\ h.op \in Buses /\ Listed(c) /\ <<c, h.session>> \notin tracked /\ writer[c] = "run"
  BY <1>2, <1>3 DEF Receives
<1>11. \A c \in Clients : Noticed(sk[c]) <=> Noticed(sink[c])
  <2> SUFFICES ASSUME NEW c \in Clients
               PROVE  Noticed(sk[c]) <=> Noticed(sink[c])
    OBVIOUS
  <2>1. CASE Receives(c) /\ sk[c] = sink[c] \o <<x>>
    <3>1. x.kind # "evicted" /\ sink[c] \in Seq(Items)
      BY <2>1, <1>6, <1>9, <1>10
    <3> QED
      BY <2>1, <3>1, <1>6, Got
  <2> QED
    BY <2>1, <1>9
<1>12. \A c \in Clients : Noticed(sink'[c]) <=> Noticed(sink[c]) \/ (c \in E /\ writer[c] = "run")
  <2> SUFFICES ASSUME NEW c \in Clients
               PROVE  Noticed(sink'[c]) <=> Noticed(sink[c]) \/ (c \in E /\ writer[c] = "run")
    OBVIOUS
  <2>1. CASE c \in E /\ writer[c] = "run"
    <3>1. Noticed(sk[c] \o <<y>>)
      BY <1>7, <1>9, Got
    <3> QED
      BY <2>1, <3>1, <1>8
  <2>2. CASE ~(c \in E /\ writer[c] = "run")
    <3>1. sink'[c] = sk[c]
      BY <2>2, <1>8
    <3> QED
      BY <2>2, <3>1, <1>11
  <2> QED
    BY <2>1, <2>2
<1>13. \A c : ~By(h, "ClientDisconnected", c) /\ ~By(h, "RegisterClientWriter", c)
  BY <1>2, <1>3 DEF By, Buses, Chores
<1>14. Membership'
  <2> SUFFICES ASSUME NEW c \in Clients
               PROVE  Member(c, daemonQ', conn'[c], c \in writers', Listed(c)', sink'[c])
    BY DEF Membership
  <2> PICK reg : reg = (c \in writers)
    OBVIOUS
  <2> PICK listed : listed = Listed(c)
    OBVIOUS
  <2> PICK reg2 : reg2 = (c \in writers')
    OBVIOUS
  <2> PICK listed2 : listed2 = Listed(c)'
    OBVIOUS
  <2> PICK log2 : log2 = sink'[c]
    OBVIOUS
  <2>1. Member(c, q, conn[c], reg, listed, sink[c])
    BY <1>1, <1>2 DEF Membership
  <2>2. /\ reg2 => reg
        /\ listed2 => listed
        /\ ~By(Head(q), "ClientDisconnected", c)
        /\ Noticed(log2) => Noticed(sink[c]) \/ (reg /\ ~reg2)
    BY <1>3, <1>12, <1>13
  <2>3. Member(c, Tail(q), conn[c], reg2, listed2, log2)
    BY <2>1, <2>2, <1>6, MemberTail
  <2> QED
    BY <2>3, <1>6
<1>15. Logs'
  <2> SUFFICES ASSUME NEW c \in Clients
               PROVE  Log(sink'[c], emitted)
    BY DEF Logs
  <2>1. sink[c] \in Seq(Items) /\ Log(sink[c], emitted) /\ emitted \in [Sessions -> Nat]
    BY <1>1 DEF Logs, Typed
  <2>2. Log(sk[c], emitted)
    <3>1. CASE Receives(c) /\ sk[c] = sink[c] \o <<x>>
      <4>1. /\ x.kind # "evicted" /\ x.kind # "snapshot" /\ x.session \in Sessions
        BY <3>1, <1>6, <1>10
      <4>2. x.n <= emitted[x.session]
        BY <3>1, <1>1, <1>2, <1>4, <1>6, <1>10 DEF Numbered, Ordered
      <4>3. x.kind = "event" => h.op = "BroadcastActivity"
        BY <3>1, <1>6, <1>10 DEF Buses
      <4>4. x.kind = "event" => ~Has(sink[c], x.session, x.n) \/ Noticed(sink[c])
        BY <3>1, <4>3, <1>2, <1>3, <1>4, <1>6, <1>10, SentNew
      <4> QED
        BY <2>1, <3>1, <4>1, <4>2, <4>4, <1>6, LogGot
    <3> QED
      BY <2>1, <3>1, <1>9
  <2>3. Log(sk[c] \o <<y>>, emitted)
    BY <2>1, <2>2, <1>7, <1>9, LogNotice
  <2> QED
    BY <2>2, <2>3, <1>8
<1>16. Ordered(daemonQ', emitted')
  <2>1. Ordered(q, emitted)
    BY <1>1, <1>2 DEF Numbered
  <2> QED
    BY <2>1, <1>6, OrderedTail
<1>17. Pairs'
  <2> SUFFICES ASSUME NEW c \in Clients, NEW s \in Sessions, ~Out(c)'
               PROVE  Pair(c, s, daemonQ', (<<c, s>> \in tracked)', conn'[c], (c \in subscribers[s])',
                           sink'[c], emitted'[s])
    BY DEF Pairs
  <2> PICK t : t = (<<c, s>> \in tracked)
    OBVIOUS
  <2> PICK sub : sub = (c \in subscribers[s])
    OBVIOUS
  <2> PICK e : e = emitted[s]
    OBVIOUS
  <2> PICK log : log = sink[c]
    OBVIOUS
  <2> PICK u : u = Tail(q)
    OBVIOUS
  <2>1. /\ ~Out(c) /\ writer[c] = "run" /\ c \notin E /\ conn'[c] = conn[c] /\ emitted'[s] = e
        /\ (c \in subscribers[s])' = sub
    BY <1>1, <1>12 DEF Out, Typed
  <2>2. (<<c, s>> \in tracked)' = t
    BY <2>1
  <2>3. Pair(c, s, q, t, conn[c], sub, log, e)
    BY <2>1, <1>1, <1>2 DEF Pairs
  <2>4. /\ ~Is(Head(q), "TrackSessionSubscription", c, s)
        /\ ~By(Head(q), "ClientDisconnected", c)
    BY <1>2, <1>3, <1>13 DEF Is, Buses, Chores
  <2>5. Pair(c, s, u, t, conn[c], sub, log, e)
    BY <2>3, <2>4, <1>6, PairTail
  <2>6. sink'[c] = sk[c]
    BY <2>1, <1>8
  <2>7. CASE sk[c] = sink[c]
    BY <2>1, <2>2, <2>5, <2>6, <2>7, <1>6
  <2>8. CASE Receives(c) /\ sk[c] = sink[c] \o <<x>>
    <3>1. log \in Seq(Items) /\ e \in Nat
      BY <1>1, <1>9 DEF Typed
    <3>2. CASE s # h.session
      <4>1. x.session # s
        BY <2>8, <3>2, <1>6, <1>10
      <4>2. Pair(c, s, u, t, conn[c], sub, log \o <<x>>, e)
        BY <2>5, <3>1, <4>1, <1>6, PairOther
      <4> QED
        BY <2>1, <2>2, <2>6, <2>8, <4>2, <1>6
    <3>3. CASE s = h.session
      <4>1. sub => ~Since(log, s, x.n)
        BY <2>1, <2>8, <3>3, <1>2, <1>3, <1>4, SentNew DEF Out
      <4>2. \A i \in 1 .. Len(u) : ~On(u[i], "BroadcastActivity", s, x.n)
        <5> SUFFICES ASSUME NEW i \in 1 .. Len(u), On(u[i], "BroadcastActivity", s, x.n)
                     PROVE  FALSE
          OBVIOUS
        <5>1. u[i] = q[i + 1] /\ i + 1 \in 1 .. Len(q) /\ i + 1 # 1 /\ ~(i + 1 < 1)
          BY <1>6, Rest
        <5>2. On(q[1], h.op, s, x.n) /\ h.op \in Buses
          BY <2>8, <3>3, <1>4, <1>6, <1>10 DEF On
        <5>3. CASE h.op = "BroadcastActivity"
          BY <5>1, <5>2, <5>3, <1>1, <1>2, <1>6 DEF Numbered, Ordered
        <5>4. CASE h.op = "BroadcastSessionStatus"
          BY <5>1, <5>2, <5>4, <1>1, <1>2, <1>6 DEF Numbered, Ordered
        <5> QED
          BY <5>2, <5>3, <5>4 DEF Buses
      <4>3. x.kind \in {"event", "status"} /\ x.session = s
        BY <2>8, <3>3, <1>6, <1>10
      <4>4. Pair(c, s, u, t, conn[c], sub, log \o <<x>>, e)
        BY <2>5, <3>1, <4>1, <4>2, <4>3, <1>6, PairGot
      <4> QED
        BY <2>1, <2>2, <2>6, <2>8, <4>4, <1>6
    <3> QED
      BY <3>2, <3>3
  <2> QED
    BY <2>7, <2>8, <1>9
<1> QED
  BY <1>8, <1>14, <1>15, <1>16, <1>17

LEMMA DropTypes ==
    ASSUME Typed, NEW E \in SUBSET Clients, NEW A \in SUBSET Clients, NEW S \in SUBSET Clients,
           Drop(E, A, S)
    PROVE  /\ activity' \subseteq Clients /\ summary' \subseteq Clients /\ writers' \subseteq Clients
           /\ tracked' \subseteq Clients \X Sessions /\ inbox' \in [Sessions -> Seq(Parcels)]
<1>1. /\ activity' \subseteq Clients /\ summary' \subseteq Clients /\ writers' \subseteq Clients
      /\ tracked' \subseteq Clients \X Sessions
  BY DEF Drop, Typed
<1>2. ASSUME NEW s \in Sessions
      PROVE  /\ inbox[s] \in Seq(Parcels)
             /\ inbox[s] \o SetToSeq({Cmd("RemoveSubscriber", c, s, NoItem) :
                                        c \in {d \in E : <<d, s>> \in tracked}}) \in Seq(Parcels)
  <2>1. PICK D : D = {d \in E : <<d, s>> \in tracked}
    OBVIOUS
  <2>2. PICK M : M = {Cmd("RemoveSubscriber", c, s, NoItem) : c \in D}
    OBVIOUS
  <2>3. D \in SUBSET Clients
    BY <2>1
  <2>4. SetToSeq(M) \in Seq(M)
    <3>1. SetToSeq({Cmd("RemoveSubscriber", c, s, NoItem) : c \in D})
            \in Seq({Cmd("RemoveSubscriber", c, s, NoItem) : c \in D})
      BY <2>3, InSomeOrder
    <3> QED
      BY <2>2, <3>1
  <2>5. \A x \in M : x \in Parcels
    BY <2>2, <2>3, CmdType
  <2>6. SetToSeq(M) \in Seq(Parcels)
    BY <2>4, <2>5
  <2>7. inbox[s] \in Seq(Parcels)
    BY DEF Typed
  <2>8. inbox[s] \o SetToSeq(M) \in Seq(Parcels)
    BY <2>6, <2>7, Joined
  <2> QED
    BY <2>1, <2>2, <2>7, <2>8
<1>3. inbox' \in [Sessions -> Seq(Parcels)]
  BY <1>2 DEF Drop
<1> QED
  BY <1>1, <1>3

\* The handlers that end in evictions
LEMMA EvictStep ==
    ASSUME DeliveryIInv, NEW op \in Buses \cup Chores \cup {"SessionExited"}, Dequeue(op),
           NEW E \in SUBSET writers, NEW sk, Sent(sk), NEW A \in SUBSET activity,
           NEW S \in SUBSET summary, Evict(E, sk, A, S), active' \subseteq Sessions,
           UNCHANGED <<thread, subscribers, emitted, clientVars, writer>>
    PROVE  DeliveryIInv'
<1>1. Typed /\ Numbered
  BY DEF DeliveryIInv
<1>2. daemonQ # <<>> /\ daemonQ' = Tail(daemonQ) /\ Head(daemonQ).op = op
  BY DEF Dequeue
<1>3. /\ sink' = Enqueue(sk, E, Item("evicted", None, 0)) /\ Drop(E, A, S)
      /\ writers' = writers \ E /\ tracked' = {p \in tracked : p[1] \notin E}
      /\ activity' = A \ E /\ summary' = S \ E
  BY DEF Evict, Drop
<1>4. \A c \in Clients : Listed(c)' => Listed(c)
  BY <1>3 DEF Listed
<1>5. UNCHANGED <<conn, writer, emitted, subscribers>>
  BY DEF clientVars
<1>6. /\ sink' \in [Clients -> Seq(Items)]
      /\ Membership' /\ Logs' /\ Ordered(daemonQ', emitted') /\ Pairs'
  BY <1>2, <1>3, <1>4, <1>5, Evicts
<1>7. E \in SUBSET Clients /\ A \in SUBSET Clients /\ S \in SUBSET Clients
  BY <1>1 DEF Typed
<1>8. /\ activity' \subseteq Clients /\ summary' \subseteq Clients /\ writers' \subseteq Clients
      /\ tracked' \subseteq Clients \X Sessions /\ inbox' \in [Sessions -> Seq(Parcels)]
  BY <1>1, <1>3, <1>7, DropTypes
<1>9. daemonQ' \in Seq(Commands)
  BY <1>1, <1>2, QueueHead
<1>10. Typed'
  BY <1>1, <1>6, <1>8, <1>9 DEF Typed, clientVars
<1>11. \A s \in Sessions : (thread'[s]).status.n <= emitted'[s]
  BY <1>1 DEF Numbered
<1> QED
  BY <1>6, <1>10, <1>11 DEF DeliveryIInv, Numbered

LEMMA SentToAll ==
    ASSUME DeliveryIInv, daemonQ # <<>>, Head(daemonQ).op \in Buses, NEW R \in SUBSET Clients,
           \A c \in R : Listed(c) /\ <<c, Head(daemonQ).session>> \notin tracked
    PROVE  Sent(Enqueue(sink, R, Head(daemonQ).msg))
<1>1. Typed
  BY DEF DeliveryIInv
<1>2. PICK x : x = Head(daemonQ).msg
  OBVIOUS
<1>3. sink \in [Clients -> Seq(Items)] /\ x \in Items
  <2>1. Head(daemonQ) \in Commands
    BY <1>1, QueueHead
  <2> QED
    BY <2>1, <1>1, <1>2, CommandFacts DEF Typed
<1>4. /\ Enqueue(sink, R, x) \in [Clients -> Seq(Items)]
      /\ \A c \in Clients :
           /\ c \in R /\ writer[c] = "run" => Enqueue(sink, R, x)[c] = sink[c] \o <<x>>
           /\ c \notin R \/ writer[c] # "run" => Enqueue(sink, R, x)[c] = sink[c]
  BY <1>3, Enqueued
<1> QED
  BY <1>2, <1>4 DEF Sent, Receives

LEMMA SentNothing ==
    ASSUME DeliveryIInv
    PROVE  Sent(sink)
  BY DEF DeliveryIInv, Typed, Sent

LEMMA HandleBroadcastActivityStep ==
    ASSUME DeliveryIInv, HandleBroadcastActivity
    PROVE  DeliveryIInv'
<1>1. Typed
  BY DEF DeliveryIInv
<1>2. PICK R : R = ActivityRecipients(Head(daemonQ).session)
  OBVIOUS
<1>3. PICK E \in Victims(R) :
        Evict(E, Enqueue(sink, R, Head(daemonQ).msg), activity \ Gone(R), summary)
  BY <1>2 DEF HandleBroadcastActivity, Received
<1>4. /\ Dequeue("BroadcastActivity") /\ daemonQ # <<>> /\ Head(daemonQ).op = "BroadcastActivity"
      /\ UNCHANGED <<active, thread, subscribers, emitted, clientVars, writer>>
  BY DEF HandleBroadcastActivity, Dequeue
<1>5. R \in SUBSET Clients /\ \A c \in R : Listed(c) /\ <<c, Head(daemonQ).session>> \notin tracked
  BY <1>1, <1>2 DEF ActivityRecipients, Listed, Typed
<1>6. PICK sk : sk = Enqueue(sink, R, Head(daemonQ).msg)
  OBVIOUS
<1>7. Sent(sk)
  BY <1>4, <1>5, <1>6, SentToAll DEF Buses
<1>8. E \in SUBSET writers
  BY <1>3 DEF Victims
<1>9. Evict(E, sk, activity \ Gone(R), summary)
  BY <1>3, <1>6
<1>10. active' \subseteq Sessions /\ activity \ Gone(R) \in SUBSET activity /\ summary \in SUBSET summary
  BY <1>1, <1>4 DEF Typed
<1>11. "BroadcastActivity" \in Buses \cup Chores \cup {"SessionExited"}
  BY DEF Buses
<1> QED
  BY <1>4, <1>7, <1>8, <1>9, <1>10, <1>11, EvictStep

LEMMA HandleBroadcastSessionStatusStep ==
    ASSUME DeliveryIInv, HandleBroadcastSessionStatus
    PROVE  DeliveryIInv'
<1>1. Typed
  BY DEF DeliveryIInv
<1>2. PICK R : R = StatusRecipients(Head(daemonQ).session)
  OBVIOUS
<1>3. PICK E \in Victims(R) :
        Evict(E, Enqueue(sink, R, Head(daemonQ).msg), activity, summary \ Gone(R))
  BY <1>2 DEF HandleBroadcastSessionStatus, Received
<1>4. /\ Dequeue("BroadcastSessionStatus") /\ daemonQ # <<>>
      /\ Head(daemonQ).op = "BroadcastSessionStatus"
      /\ UNCHANGED <<active, thread, subscribers, emitted, clientVars, writer>>
  BY DEF HandleBroadcastSessionStatus, Dequeue
<1>5. R \in SUBSET Clients /\ \A c \in R : Listed(c) /\ <<c, Head(daemonQ).session>> \notin tracked
  BY <1>1, <1>2 DEF StatusRecipients, Listed, Typed
<1>6. PICK sk : sk = Enqueue(sink, R, Head(daemonQ).msg)
  OBVIOUS
<1>7. Sent(sk)
  BY <1>4, <1>5, <1>6, SentToAll DEF Buses
<1>8. E \in SUBSET writers
  BY <1>3 DEF Victims
<1>9. Evict(E, sk, activity, summary \ Gone(R))
  BY <1>3, <1>6
<1>10. active' \subseteq Sessions /\ activity \in SUBSET activity /\ summary \ Gone(R) \in SUBSET summary
  BY <1>1, <1>4 DEF Typed
<1>11. "BroadcastSessionStatus" \in Buses \cup Chores \cup {"SessionExited"}
  BY DEF Buses
<1> QED
  BY <1>4, <1>7, <1>8, <1>9, <1>10, <1>11, EvictStep

\* The other handlers that may evict
LEMMA OtherEvictionsStep ==
    ASSUME DeliveryIInv,
           HandleSessionExited \/ HandleEvictClient \/ HandleEvictLargestLagging
    PROVE  DeliveryIInv'
<1>1. Typed
  BY DEF DeliveryIInv
<1>2. PICK sk : sk = sink
  OBVIOUS
<1>3. Sent(sk)
  BY <1>2, SentNothing
<1>4. /\ "SessionExited" \in Buses \cup Chores \cup {"SessionExited"}
      /\ "EvictClient" \in Buses \cup Chores \cup {"SessionExited"}
      /\ "EvictLargestLagging" \in Buses \cup Chores \cup {"SessionExited"}
  BY DEF Chores
<1>5. activity \in SUBSET activity /\ summary \in SUBSET summary
  OBVIOUS
<1>6. CASE HandleSessionExited
  <2>1. PICK R : R = activity \cup summary
    OBVIOUS
  <2>2. PICK E \in Victims(R) : Evict(E, sk, activity \ Gone(R), summary \ Gone(R))
    BY <2>1, <1>2, <1>6 DEF HandleSessionExited
  <2>3. /\ Dequeue("SessionExited") /\ active' \subseteq Sessions
        /\ UNCHANGED <<thread, subscribers, emitted, clientVars, writer>>
    BY <1>1, <1>6 DEF HandleSessionExited, Typed
  <2>4. /\ E \in SUBSET writers /\ activity \ Gone(R) \in SUBSET activity
        /\ summary \ Gone(R) \in SUBSET summary
    BY <2>2 DEF Victims
  <2> QED
    BY <2>2, <2>3, <2>4, <1>3, <1>4, EvictStep
<1>7. CASE HandleEvictClient
  <2>1. PICK E : E = {Head(daemonQ).client} \cap writers
    OBVIOUS
  <2>2. /\ Dequeue("EvictClient") /\ active' \subseteq Sessions /\ Evict(E, sk, activity, summary)
        /\ UNCHANGED <<thread, subscribers, emitted, clientVars, writer>>
    BY <2>1, <1>1, <1>2, <1>7 DEF HandleEvictClient, Received, Typed
  <2>3. E \in SUBSET writers
    BY <2>1
  <2> QED
    BY <2>2, <2>3, <1>3, <1>4, <1>5, EvictStep
<1>8. CASE HandleEvictLargestLagging
  <2>1. PICK E \in {{}} \cup {{c} : c \in writers \cap Slow} : Evict(E, sk, activity, summary)
    BY <1>2, <1>8 DEF HandleEvictLargestLagging
  <2>2. /\ Dequeue("EvictLargestLagging") /\ active' \subseteq Sessions
        /\ UNCHANGED <<thread, subscribers, emitted, clientVars, writer>>
    BY <1>1, <1>8 DEF HandleEvictLargestLagging, Typed
  <2>3. E \in SUBSET writers
    BY <2>1
  <2> QED
    BY <2>1, <2>2, <2>3, <1>3, <1>4, <1>5, EvictStep
<1> QED
  BY <1>6, <1>7, <1>8

\* The handlers that only keep the daemon's books
LEMMA BookStep ==
    ASSUME DeliveryIInv, daemonQ # <<>>, daemonQ' = Tail(daemonQ),
           \A c \in Clients :
             /\ c \in writers' => c \in writers \/ By(Head(daemonQ), "RegisterClientWriter", c)
             /\ Listed(c)' => Listed(c) \/ \E op \in Enlists : By(Head(daemonQ), op, c)
             /\ By(Head(daemonQ), "ClientDisconnected", c) => ~Listed(c)',
           \A c \in Clients, s \in Sessions :
             /\ Is(Head(daemonQ), "TrackSessionSubscription", c, s) => <<c, s>> \in tracked'
             /\ <<c, s>> \in tracked /\ ~By(Head(daemonQ), "ClientDisconnected", c)
                  /\ ~Is(Head(daemonQ), "UntrackSessionSubscription", c, s) => <<c, s>> \in tracked',
           activity' \subseteq Clients, summary' \subseteq Clients, writers' \subseteq Clients,
           tracked' \subseteq Clients \X Sessions, inbox' \in [Sessions -> Seq(Parcels)],
           UNCHANGED <<active, thread, subscribers, emitted, conn, awaiting, attached, ops, writer, sink>>
    PROVE  DeliveryIInv'
<1>1. Typed /\ Numbered
  BY DEF DeliveryIInv
<1>2. UNCHANGED <<conn, writer, sink, emitted, subscribers>>
  OBVIOUS
<1>3. Membership' /\ Logs' /\ Ordered(daemonQ', emitted') /\ Pairs'
  BY <1>2, Takes
<1>4. daemonQ' \in Seq(Commands)
  BY <1>1, QueueHead
<1>5. Typed'
  BY <1>1, <1>4 DEF Typed
<1>6. \A s \in Sessions : (thread'[s]).status.n <= emitted'[s]
  BY <1>1 DEF Numbered
<1> QED
  BY <1>3, <1>5, <1>6 DEF DeliveryIInv, Numbered

LEMMA BooksStep ==
    ASSUME DeliveryIInv,
           \/ HandleTrack \/ HandleUntrack \/ HandleRegisterClientWriter
           \/ HandleRegisterActivity \/ HandleUnregisterActivity
           \/ HandleRegisterSummary \/ HandleUnregisterSummary
    PROVE  DeliveryIInv'
<1>1. Typed
  BY DEF DeliveryIInv
<1>2. PICK h : h = Head(daemonQ)
  OBVIOUS
<1>3. daemonQ # <<>> /\ daemonQ' = Tail(daemonQ) /\ h \in Commands
  <2>1. daemonQ # <<>> /\ daemonQ' = Tail(daemonQ)
    BY DEF Dequeue, HandleTrack, HandleUntrack, HandleRegisterClientWriter,
           HandleRegisterActivity, HandleUnregisterActivity, HandleRegisterSummary,
           HandleUnregisterSummary
  <2> QED
    BY <2>1, <1>1, <1>2, QueueHead
<1>4. UNCHANGED <<active, thread, inbox, subscribers, emitted, conn, awaiting, attached, ops, writer, sink>>
  BY DEF HandleTrack, HandleUntrack, HandleRegisterClientWriter,
         HandleRegisterActivity, HandleUnregisterActivity, HandleRegisterSummary,
         HandleUnregisterSummary, sessionVars, clientVars
<1>5. inbox' \in [Sessions -> Seq(Parcels)]
  BY <1>1, <1>4 DEF Typed
<1>6. CASE HandleTrack
  <2>1. /\ h.op = "TrackSessionSubscription" /\ tracked' = tracked \cup {<<h.client, h.session>>}
        /\ UNCHANGED <<activity, summary, writers>>
    BY <1>2, <1>6 DEF HandleTrack, Dequeue, Received
  <2>2. h.client \in Clients /\ h.session \in Sessions
    BY <2>1, <1>3, CommandFacts DEF OfClient, OfSession, Books
  <2>3. \A c \in Clients : ~By(h, "ClientDisconnected", c) /\ (Listed(c)' <=> Listed(c))
    BY <2>1 DEF By, Listed
  <2>4. \A c \in Clients, s \in Sessions :
          /\ Is(h, "TrackSessionSubscription", c, s) => <<c, s>> \in tracked'
          /\ <<c, s>> \in tracked => <<c, s>> \in tracked'
    BY <2>1 DEF Is
  <2>5. activity' \subseteq Clients /\ summary' \subseteq Clients /\ writers' \subseteq Clients
        /\ tracked' \subseteq Clients \X Sessions
    BY <2>1, <2>2, <1>1 DEF Typed
  <2> QED
    BY <2>1, <2>3, <2>4, <2>5, <1>2, <1>3, <1>4, <1>5, BookStep
<1>7. CASE HandleUntrack
  <2>1. /\ h.op = "UntrackSessionSubscription" /\ tracked' = tracked \ {<<h.client, h.session>>}
        /\ UNCHANGED <<activity, summary, writers>>
    BY <1>2, <1>7 DEF HandleUntrack, Dequeue, Received
  <2>3. \A c \in Clients : ~By(h, "ClientDisconnected", c) /\ (Listed(c)' <=> Listed(c))
    BY <2>1 DEF By, Listed
  <2>4. \A c \in Clients, s \in Sessions :
          /\ ~Is(h, "TrackSessionSubscription", c, s)
          /\ <<c, s>> \in tracked /\ ~Is(h, "UntrackSessionSubscription", c, s) => <<c, s>> \in tracked'
    BY <2>1 DEF Is
  <2>5. activity' \subseteq Clients /\ summary' \subseteq Clients /\ writers' \subseteq Clients
        /\ tracked' \subseteq Clients \X Sessions
    BY <2>1, <1>1 DEF Typed
  <2> QED
    BY <2>1, <2>3, <2>4, <2>5, <1>2, <1>3, <1>4, <1>5, BookStep
<1>8. CASE HandleRegisterClientWriter
  <2>1. /\ h.op = "RegisterClientWriter" /\ writers' = writers \cup {h.client}
        /\ UNCHANGED <<activity, summary, tracked>>
    BY <1>2, <1>8 DEF HandleRegisterClientWriter, Dequeue, Received
  <2>2. h.client \in Clients
    BY <2>1, <1>3, CommandFacts DEF OfClient, Enlists
  <2>3. \A c \in Clients :
          /\ ~By(h, "ClientDisconnected", c)
          /\ c \in writers' => c \in writers \/ By(h, "RegisterClientWriter", c)
          /\ Listed(c)' => Listed(c) \/ \E op \in Enlists : By(h, op, c)
    BY <2>1 DEF By, Listed, Enlists
  <2>4. \A c \in Clients, s \in Sessions : ~Is(h, "TrackSessionSubscription", c, s)
    BY <2>1 DEF Is
  <2>5. activity' \subseteq Clients /\ summary' \subseteq Clients /\ writers' \subseteq Clients
        /\ tracked' \subseteq Clients \X Sessions
    BY <2>1, <2>2, <1>1 DEF Typed
  <2> QED
    BY <2>1, <2>3, <2>4, <2>5, <1>2, <1>3, <1>4, <1>5, BookStep
<1>9. CASE HandleRegisterActivity \/ HandleRegisterSummary
  <2>1. /\ h.op \in {"RegisterActivitySubscriber", "RegisterSummarySubscriber"}
        /\ activity' \subseteq activity \cup {h.client} /\ summary' \subseteq summary \cup {h.client}
        /\ UNCHANGED <<writers, tracked>>
    BY <1>2, <1>9 DEF HandleRegisterActivity, HandleRegisterSummary, Dequeue, Received
  <2>2. h.client \in Clients
    BY <2>1, <1>3, CommandFacts DEF OfClient, Enlists
  <2>3. \A c \in Clients :
          /\ ~By(h, "ClientDisconnected", c)
          /\ Listed(c)' => Listed(c) \/ \E op \in Enlists : By(h, op, c)
    BY <2>1 DEF By, Listed, Enlists
  <2>4. \A c \in Clients, s \in Sessions : ~Is(h, "TrackSessionSubscription", c, s)
    BY <2>1 DEF Is
  <2>5. activity' \subseteq Clients /\ summary' \subseteq Clients /\ writers' \subseteq Clients
        /\ tracked' \subseteq Clients \X Sessions
    BY <2>1, <2>2, <1>1 DEF Typed
  <2> QED
    BY <2>1, <2>3, <2>4, <2>5, <1>2, <1>3, <1>4, <1>5, BookStep
<1>10. CASE HandleUnregisterActivity \/ HandleUnregisterSummary
  <2>1. /\ h.op \in {"UnregisterActivitySubscriber", "UnregisterSummarySubscriber"}
        /\ activity' \subseteq activity /\ summary' \subseteq summary
        /\ UNCHANGED <<writers, tracked>>
    BY <1>2, <1>10 DEF HandleUnregisterActivity, HandleUnregisterSummary, Dequeue, Received
  <2>3. \A c \in Clients : ~By(h, "ClientDisconnected", c) /\ (Listed(c)' => Listed(c))
    BY <2>1 DEF By, Listed
  <2>4. \A c \in Clients, s \in Sessions : ~Is(h, "TrackSessionSubscription", c, s)
    BY <2>1 DEF Is
  <2>5. activity' \subseteq Clients /\ summary' \subseteq Clients /\ writers' \subseteq Clients
        /\ tracked' \subseteq Clients \X Sessions
    BY <2>1, <1>1 DEF Typed
  <2> QED
    BY <2>1, <2>3, <2>4, <2>5, <1>2, <1>3, <1>4, <1>5, BookStep
<1> QED
  BY <1>6, <1>7, <1>8, <1>9, <1>10

LEMMA HandleClientDisconnectedStep ==
    ASSUME DeliveryIInv, HandleClientDisconnected
    PROVE  DeliveryIInv'
<1>1. Typed
  BY DEF DeliveryIInv
<1>2. PICK h : h = Head(daemonQ)
  OBVIOUS
<1>3. /\ daemonQ # <<>> /\ daemonQ' = Tail(daemonQ) /\ h.op = "ClientDisconnected"
      /\ Drop({h.client}, activity, summary)
      /\ UNCHANGED <<active, thread, subscribers, emitted, conn, awaiting, attached, ops, writer, sink>>
  BY <1>2 DEF HandleClientDisconnected, Dequeue, Received, clientVars
<1>4. h.client \in Clients
  <2>1. h \in Commands
    BY <1>1, <1>2, <1>3, QueueHead
  <2> QED
    BY <2>1, <1>3, CommandFacts DEF OfClient
<1>5. activity \in SUBSET Clients /\ summary \in SUBSET Clients /\ {h.client} \in SUBSET Clients
  BY <1>1, <1>4 DEF Typed
<1>6. /\ activity' \subseteq Clients /\ summary' \subseteq Clients /\ writers' \subseteq Clients
      /\ tracked' \subseteq Clients \X Sessions /\ inbox' \in [Sessions -> Seq(Parcels)]
  BY <1>1, <1>3, <1>5, DropTypes
<1>7. /\ activity' = activity \ {h.client} /\ summary' = summary \ {h.client}
      /\ writers' = writers \ {h.client} /\ tracked' = {p \in tracked : p[1] \notin {h.client}}
  BY <1>3 DEF Drop
<1>8. \A c \in Clients : /\ c \in writers' => c \in writers
                         /\ Listed(c)' => Listed(c)
                         /\ By(h, "ClientDisconnected", c) => ~Listed(c)'
  BY <1>7 DEF Listed, By
<1>9. \A c \in Clients, s \in Sessions :
        /\ ~Is(h, "TrackSessionSubscription", c, s)
        /\ <<c, s>> \in tracked /\ ~By(h, "ClientDisconnected", c) => <<c, s>> \in tracked'
  BY <1>3, <1>7 DEF Is, By
<1> QED
  BY <1>2, <1>3, <1>6, <1>8, <1>9, BookStep

LEMMA HandleAttachSessionStep ==
    ASSUME DeliveryIInv, HandleAttachSession
    PROVE  DeliveryIInv'
<1>1. Typed /\ Numbered
  BY DEF DeliveryIInv
<1>2. PICK h : h = Head(daemonQ)
  OBVIOUS
<1>3. PICK s : s = h.session
  OBVIOUS
<1>4. PICK g : g = IF s \in active THEN thread[s].gen ELSE thread[s].gen + 1
  OBVIOUS
<1>5. /\ daemonQ # <<>> /\ daemonQ' = Tail(daemonQ) /\ h.op = "AttachSession"
      /\ active' = active \cup {s}
      /\ thread' = [thread EXCEPT ![s] = IF s \in active THEN @ ELSE Fresh(g)]
      /\ awaiting' = [awaiting EXCEPT ![h.client] = [session |-> s, gen |-> g]]
      /\ UNCHANGED <<activity, summary, writers, tracked, inbox, subscribers,
                     emitted, conn, attached, ops, writer, sink>>
  BY <1>2, <1>3, <1>4 DEF HandleAttachSession, Dequeue, Received
<1>6. h.client \in Clients /\ s \in Sessions
  <2>1. h \in Commands
    BY <1>1, <1>2, <1>5, QueueHead
  <2> QED
    BY <2>1, <1>3, <1>5, CommandFacts DEF OfClient, OfSession
<1>7. thread \in [Sessions -> Thread] /\ thread[s].gen \in Nat /\ g \in Nat
  <2>1. thread \in [Sessions -> Thread] /\ thread[s].gen \in Nat
    BY <1>1, <1>6 DEF Typed, Thread
  <2> QED
    BY <2>1, <1>4
<1>8. Fresh(g) \in Thread /\ Fresh(g).status = NoItem
  BY <1>7, CmdType DEF Fresh, Thread
<1>9. /\ thread' \in [Sessions -> Thread]
      /\ \A s1 \in Sessions : thread'[s1] = thread[s1] \/ (thread'[s1]).status = NoItem
  <2>1. PICK new : new = IF s \in active THEN thread[s] ELSE Fresh(g)
    OBVIOUS
  <2>2. new \in Thread /\ (new = thread[s] \/ new.status = NoItem)
    BY <2>1, <1>6, <1>7, <1>8
  <2>3. thread' = [thread EXCEPT ![s] = new]
    BY <2>1, <1>5
  <2> QED
    BY <2>2, <2>3, <1>6, <1>7
<1>10. /\ \A c \in Clients : /\ c \in writers' => c \in writers
                             /\ Listed(c)' => Listed(c)
                             /\ ~By(h, "ClientDisconnected", c)
       /\ \A c \in Clients, s1 \in Sessions :
            /\ ~Is(h, "TrackSessionSubscription", c, s1)
            /\ <<c, s1>> \in tracked => <<c, s1>> \in tracked'
  BY <1>5 DEF Listed, By, Is
<1>11. Membership' /\ Logs' /\ Ordered(daemonQ', emitted') /\ Pairs'
  BY <1>2, <1>5, <1>10, Takes
<1>12. daemonQ' \in Seq(Commands)
  BY <1>1, <1>5, QueueHead
<1>13. awaiting' \in [Clients -> [session : Sessions \cup {None}, gen : Nat]]
  BY <1>1, <1>5, <1>6, <1>7 DEF Typed
<1>14. Typed'
  BY <1>1, <1>5, <1>6, <1>9, <1>12, <1>13, SMTT(30) DEF Typed
<1>15. \A s1 \in Sessions : (thread'[s1]).status.n <= emitted'[s1]
  <2> SUFFICES ASSUME NEW s1 \in Sessions
               PROVE  (thread'[s1]).status.n <= emitted'[s1]
    OBVIOUS
  <2>1. emitted'[s1] = emitted[s1] /\ emitted[s1] \in Nat /\ thread[s1].status.n <= emitted[s1]
    BY <1>1, <1>5 DEF Typed, Numbered
  <2>2. NoItem.n <= emitted[s1]
    BY <2>1, CmdType
  <2> QED
    BY <2>1, <2>2, <1>9
<1> QED
  BY <1>11, <1>14, <1>15 DEF DeliveryIInv, Numbered

LEMMA HandleCommandStep ==
    ASSUME DeliveryIInv, HandleCommand
    PROVE  DeliveryIInv'
  BY HandleBroadcastActivityStep, HandleBroadcastSessionStatusStep, OtherEvictionsStep,
     BooksStep, HandleClientDisconnectedStep, HandleAttachSessionStep DEF HandleCommand

-----------------------------------------------------------------------------
(* The steps of a client *)

LEMMA AskStep ==
    ASSUME DeliveryIInv, NEW c \in Clients, NEW m \in Commands, m.client = c,
           m.op \notin Buses \cup Books, daemonQ' = Append(daemonQ, m),
           NEW cn2 \in {"new", "open", "closed"}, conn' = [conn EXCEPT ![c] = cn2],
           \/ /\ m.op \in Enlists /\ cn2 = "open" /\ conn[c] # "closed"
              /\ m.op = "RegisterClientWriter" => conn[c] = "new"
           \/ m.op = "ClientDisconnected" /\ conn[c] = "open" /\ cn2 = "closed"
           \/ m.op \notin Enlists \cup {"ClientDisconnected"} /\ cn2 = conn[c],
           inbox' \in [Sessions -> Seq(Parcels)],
           awaiting' \in [Clients -> [session : Sessions \cup {None}, gen : Nat]],
           UNCHANGED <<daemonVars, thread, subscribers, emitted, attached, writer, sink>>
    PROVE  DeliveryIInv'
<1>1. Typed /\ Membership /\ Logs /\ Numbered /\ Pairs
  BY DEF DeliveryIInv
<1>2. PICK q : q = daemonQ
  OBVIOUS
<1>3. q \in Seq(Commands) /\ daemonQ' = q \o <<m>> /\ daemonQ' \in Seq(Commands)
  <2>1. q \in Seq(Commands)
    BY <1>1, <1>2 DEF Typed
  <2> QED
    BY <2>1, <1>2, Added
<1>4. PICK ms : ms = <<m>>
  OBVIOUS
<1>5. ms \in Seq(Commands) /\ \A i \in 1 .. Len(ms) : ms[i] = m
  BY <1>4
<1>6. /\ conn' \in [Clients -> {"new", "open", "closed"}] /\ conn'[c] = cn2
      /\ \A c1 \in Clients : c1 # c => conn'[c1] = conn[c1]
  BY <1>1 DEF Typed
<1>7. Typed'
  BY <1>1, <1>3, <1>6 DEF Typed, daemonVars
<1>8. Membership'
  <2> SUFFICES ASSUME NEW c1 \in Clients
               PROVE  Member(c1, daemonQ', conn'[c1], c1 \in writers', Listed(c1)', sink'[c1])
    BY DEF Membership
  <2> PICK reg : reg = (c1 \in writers)
    OBVIOUS
  <2> PICK listed : listed = Listed(c1)
    OBVIOUS
  <2> PICK log : log = sink[c1]
    OBVIOUS
  <2>1. (c1 \in writers') = reg /\ Listed(c1)' = listed /\ sink'[c1] = log
    BY DEF Listed, daemonVars
  <2>2. Member(c1, q, conn[c1], reg, listed, log)
    BY <1>1, <1>2 DEF Membership
  <2>3. CASE c1 # c \/ m.op \notin Enlists \cup {"ClientDisconnected"}
    <3>1. \A i \in 1 .. Len(ms) : ~Joins(ms[i], c1)
      BY <2>3, <1>5 DEF Joins, By
    <3>2. Member(c1, q \o ms, conn[c1], reg, listed, log)
      BY <2>2, <3>1, <1>3, <1>5, MemberJoin
    <3>3. conn'[c1] = conn[c1]
      BY <2>3, <1>6 DEF Enlists
    <3> QED
      BY <2>1, <3>2, <3>3, <1>3, <1>4
  <2>4. CASE c1 = c /\ m.op \in Enlists
    <3>1. cn2 = "open" /\ conn[c1] # "closed" /\ (m.op = "RegisterClientWriter" => conn[c1] = "new")
      BY <2>4 DEF Enlists
    <3>2. Member(c1, q \o <<m>>, "open", reg, listed, log)
      BY <2>2, <2>4, <3>1, <1>3, MemberSays
    <3> QED
      BY <2>1, <2>4, <3>1, <3>2, <1>3, <1>6
  <2>5. CASE c1 = c /\ m.op = "ClientDisconnected"
    <3>1. conn[c1] = "open" /\ cn2 = "closed" /\ By(m, "ClientDisconnected", c1)
      BY <2>5 DEF Enlists, By
    <3>2. Member(c1, q, "open", reg, listed, log)
      BY <2>2, <3>1
    <3>3. Member(c1, q \o <<m>>, "closed", reg, listed, log)
      BY <3>1, <3>2, <1>3, MemberLeaves
    <3> QED
      BY <2>1, <2>5, <3>1, <3>3, <1>3, <1>6
  <2> QED
    BY <2>3, <2>4, <2>5
<1>9. Logs'
  BY <1>1 DEF Logs
<1>10. Numbered'
  <2>1. Ordered(q, emitted) /\ \A i \in 1 .. Len(ms) : ms[i].op \notin Buses
    BY <1>1, <1>2, <1>5 DEF Numbered
  <2>2. Ordered(q \o ms, emitted)
    BY <2>1, <1>3, <1>5, OrderedJoin
  <2>3. Ordered(daemonQ', emitted')
    BY <2>2, <1>3, <1>4
  <2>4. \A s1 \in Sessions : (thread'[s1]).status.n <= emitted'[s1]
    BY <1>1 DEF Numbered
  <2> QED
    BY <2>3, <2>4 DEF Numbered
<1>11. Pairs'
  <2> SUFFICES ASSUME NEW c1 \in Clients, NEW s1 \in Sessions, ~Out(c1)'
               PROVE  Pair(c1, s1, daemonQ', (<<c1, s1>> \in tracked)', conn'[c1], (c1 \in subscribers[s1])',
                           sink'[c1], emitted'[s1])
    BY DEF Pairs
  <2> PICK t : t = (<<c1, s1>> \in tracked)
    OBVIOUS
  <2> PICK sub : sub = (c1 \in subscribers[s1])
    OBVIOUS
  <2> PICK cn3 : cn3 = conn'[c1]
    OBVIOUS
  <2>1. /\ ~Out(c1) /\ (<<c1, s1>> \in tracked)' = t /\ (c1 \in subscribers[s1])' = sub
        /\ sink'[c1] = sink[c1] /\ emitted'[s1] = emitted[s1]
    BY DEF Out, daemonVars
  <2>2. Pair(c1, s1, q, t, conn[c1], sub, sink[c1], emitted[s1])
    BY <2>1, <1>1, <1>2 DEF Pairs
  <2>3. Quiet(ms, c1, s1)
    BY <1>5 DEF Quiet, Loud, Books
  <2>4. conn[c1] = "closed" => cn3 = "closed"
    BY <1>6
  <2>5. conn[c1] # "closed" \/ ~Says(ms, "ClientDisconnected", c1)
    BY <1>5 DEF Says, By, Enlists
  <2>6. Pair(c1, s1, q \o ms, t, cn3, sub, sink[c1], emitted[s1])
    BY <2>2, <2>3, <2>4, <2>5, <1>3, <1>5, PairJoin
  <2> QED
    BY <2>1, <2>6, <1>3, <1>4
<1> QED
  BY <1>7, <1>8, <1>9, <1>10, <1>11 DEF DeliveryIInv

\* Steps that the daemon's queue and the sinks do not take part in
LEMMA AsideStep ==
    ASSUME DeliveryIInv, inbox' \in [Sessions -> Seq(Parcels)],
           awaiting' \in [Clients -> [session : Sessions \cup {None}, gen : Nat]],
           attached' \in [Clients -> [session : Sessions \cup {None}, gen : Nat]],
           writer' \in [Clients -> {"run", "gone"}],
           \A c \in Clients : writer[c] = "gone" => writer'[c] = "gone",
           UNCHANGED <<daemonQ, daemonVars, thread, subscribers, emitted, conn, sink>>
    PROVE  DeliveryIInv'
<1>1. Typed /\ Membership /\ Logs /\ Numbered /\ Pairs
  BY DEF DeliveryIInv
<1>2. Typed'
  BY <1>1 DEF Typed, daemonVars
<1>3. Membership' /\ Logs' /\ Numbered'
  BY <1>1 DEF Membership, Logs, Numbered, Listed, daemonVars
<1>4. \A c \in Clients : ~Out(c)' => ~Out(c)
  BY DEF Out
<1>5. Pairs'
  BY <1>1, <1>4 DEF Pairs, daemonVars
<1> QED
  BY <1>2, <1>3, <1>5 DEF DeliveryIInv

LEMMA ClientStepStep ==
    ASSUME DeliveryIInv, NEW c \in Clients, ClientStep(c)
    PROVE  DeliveryIInv'
<1>1. Typed
  BY DEF DeliveryIInv
<1>2. /\ inbox \in [Sessions -> Seq(Parcels)] /\ conn \in [Clients -> {"new", "open", "closed"}]
      /\ awaiting \in [Clients -> [session : Sessions \cup {None}, gen : Nat]]
      /\ attached \in [Clients -> [session : Sessions \cup {None}, gen : Nat]]
      /\ writer \in [Clients -> {"run", "gone"}]
  BY <1>1 DEF Typed
<1>3. conn[c] \in {"new", "open", "closed"} /\ conn = [conn EXCEPT ![c] = conn[c]]
  BY <1>2
<1>4. CASE Connect(c)
  <2>1. PICK m : m = Cmd("RegisterClientWriter", c, None, NoItem)
    OBVIOUS
  <2>2. m \in Commands /\ m.client = c /\ m.op = "RegisterClientWriter"
    BY <2>1, CmdType DEF Cmd, Enlists
  <2>3. /\ daemonQ' = Append(daemonQ, m) /\ conn' = [conn EXCEPT ![c] = "open"] /\ conn[c] = "new"
        /\ UNCHANGED <<daemonVars, thread, inbox, subscribers, emitted, awaiting, attached, writer, sink>>
    BY <2>1, <1>4 DEF Connect, Ask, sessionVars
  <2>4. m.op \notin Buses \cup Books /\ m.op \in Enlists
    BY <2>2 DEF Buses, Books, Enlists
  <2> QED
    BY <2>2, <2>3, <2>4, <1>2, AskStep
<1>5. ASSUME NEW op \in Requests, Subscribe(c, op)
      PROVE  DeliveryIInv'
  <2>1. PICK m : m = Cmd(op, c, None, NoItem)
    OBVIOUS
  <2>2. op \in Enlists \cup Unlists /\ op # "RegisterClientWriter"
    BY DeliveryAssumption DEF SubscriptionOps, Enlists, Unlists
  <2>3. m \in Commands /\ m.client = c /\ m.op = op
    BY <2>1, <2>2, CmdType DEF Cmd
  <2>4. /\ daemonQ' = Append(daemonQ, m) /\ conn' = [conn EXCEPT ![c] = conn[c]] /\ conn[c] = "open"
        /\ UNCHANGED <<daemonVars, thread, inbox, subscribers, emitted, awaiting, attached, writer, sink>>
    BY <2>1, <1>3, <1>5 DEF Subscribe, Ask, Ready, sessionVars
  <2>5. m.op \notin Buses \cup Books /\ m.op # "ClientDisconnected"
    BY <2>2, <2>3 DEF Buses, Books, Enlists, Unlists
  <2> QED
    BY <2>2, <2>3, <2>4, <2>5, <1>2, <1>3, AskStep
<1>6. ASSUME NEW s \in Sessions, AskAttach(c, s)
      PROVE  DeliveryIInv'
  <2>1. PICK m : m = Cmd("AttachSession", c, s, NoItem)
    OBVIOUS
  <2>2. m \in Commands /\ m.client = c /\ m.op = "AttachSession"
    BY <2>1, CmdType DEF Cmd
  <2>3. /\ daemonQ' = Append(daemonQ, m) /\ conn' = [conn EXCEPT ![c] = conn[c]]
        /\ awaiting' = [awaiting EXCEPT ![c] = [session |-> s, gen |-> 0]]
        /\ UNCHANGED <<daemonVars, thread, inbox, subscribers, emitted, attached, writer, sink>>
    BY <2>1, <1>3, <1>6 DEF AskAttach, Ask, sessionVars
  <2>4. m.op \notin Buses \cup Books /\ m.op \notin Enlists \cup {"ClientDisconnected"}
    BY <2>2 DEF Buses, Books, Enlists
  <2>5. awaiting' \in [Clients -> [session : Sessions \cup {None}, gen : Nat]]
    BY <2>3, <1>2
  <2> QED
    BY <2>2, <2>3, <2>4, <2>5, <1>2, <1>3, AskStep
<1>7. CASE FinishAttach(c)
  <2>1. PICK tx : tx = awaiting[c]
    OBVIOUS
  <2>2. /\ inbox' = [s \in Sessions |->
              inbox[s]
              \o (IF Detaches(c, tx.session) /\ Reaches(attached[c], s)
                  THEN <<Cmd("Detach", c, s, NoItem)>> ELSE <<>>)
              \o (IF Reaches(tx, s)
                  THEN <<Cmd("Attach", c, s, NoItem)>> ELSE <<>>)]
        /\ attached' = [attached EXCEPT ![c] = tx]
        /\ awaiting' = [awaiting EXCEPT ![c] = NoTx]
        /\ UNCHANGED <<daemonQ, daemonVars, thread, subscribers, emitted, conn, writer, sink>>
    BY <2>1, <1>7 DEF FinishAttach
  <2>3. ASSUME NEW s \in Sessions
        PROVE  inbox'[s] \in Seq(Parcels)
    <3>1. PICK d : d = IF Detaches(c, tx.session) /\ Reaches(attached[c], s)
                       THEN <<Cmd("Detach", c, s, NoItem)>> ELSE <<>>
      OBVIOUS
    <3>2. PICK a : a = IF Reaches(tx, s) THEN <<Cmd("Attach", c, s, NoItem)>> ELSE <<>>
      OBVIOUS
    <3>3. Cmd("Detach", c, s, NoItem) \in Parcels /\ Cmd("Attach", c, s, NoItem) \in Parcels
      BY CmdType
    <3>4. d \in Seq(Parcels) /\ a \in Seq(Parcels) /\ inbox[s] \in Seq(Parcels)
      BY <3>1, <3>2, <3>3, <1>2
    <3>5. inbox'[s] = (inbox[s] \o d) \o a
      BY <2>2, <3>1, <3>2
    <3>6. inbox[s] \o d \in Seq(Parcels)
      BY <3>4, Joined
    <3> QED
      BY <3>4, <3>5, <3>6, Joined
  <2>4. inbox' \in [Sessions -> Seq(Parcels)]
    BY <2>2, <2>3
  <2>5. NoTx \in [session : Sessions \cup {None}, gen : Nat]
    BY DEF NoTx
  <2>6. /\ awaiting' \in [Clients -> [session : Sessions \cup {None}, gen : Nat]]
        /\ attached' \in [Clients -> [session : Sessions \cup {None}, gen : Nat]]
    BY <2>1, <2>2, <2>5, <1>2
  <2> QED
    BY <2>2, <2>4, <2>6, <1>2, AsideStep
<1>8. CASE Cleanup(c)
  <2>1. PICK m : m = Cmd("ClientDisconnected", c, None, NoItem)
    OBVIOUS
  <2>2. m \in Commands /\ m.client = c /\ m.op = "ClientDisconnected"
    BY <2>1, CmdType DEF Cmd
  <2>3. /\ daemonQ' = Append(daemonQ, m) /\ conn' = [conn EXCEPT ![c] = "closed"] /\ conn[c] = "open"
        /\ inbox' = [s \in Sessions |->
                        IF Reaches(attached[c], s)
                        THEN Append(inbox[s], Cmd("Detach", c, s, NoItem))
                        ELSE inbox[s]]
        /\ UNCHANGED <<daemonVars, thread, subscribers, emitted, awaiting, attached, writer, sink>>
    BY <2>1, <1>8 DEF Cleanup, Ask, Ready
  <2>4. m.op \notin Buses \cup Books
    BY <2>2 DEF Buses, Books
  <2>5. inbox' \in [Sessions -> Seq(Parcels)]
    <3>1. \A s \in Sessions : /\ inbox[s] \in Seq(Parcels)
                              /\ Append(inbox[s], Cmd("Detach", c, s, NoItem)) \in Seq(Parcels)
      <4> SUFFICES ASSUME NEW s \in Sessions
                   PROVE  /\ inbox[s] \in Seq(Parcels)
                          /\ Append(inbox[s], Cmd("Detach", c, s, NoItem)) \in Seq(Parcels)
        OBVIOUS
      <4>1. Cmd("Detach", c, s, NoItem) \in Parcels /\ inbox[s] \in Seq(Parcels)
        BY <1>2, CmdType
      <4> QED
        BY <4>1
    <3> QED
      BY <2>3, <3>1
  <2> QED
    BY <2>2, <2>3, <2>4, <2>5, <1>2, AskStep
<1>9. CASE WriterStops(c)
  <2>1. /\ writer' = [writer EXCEPT ![c] = "gone"]
        /\ UNCHANGED <<daemonQ, daemonVars, thread, inbox, subscribers, emitted, conn, awaiting, attached, sink>>
    BY <1>9 DEF WriterStops, sessionVars, clientVars
  <2>2. /\ writer' \in [Clients -> {"run", "gone"}]
        /\ \A c1 \in Clients : writer[c1] = "gone" => writer'[c1] = "gone"
    BY <2>1, <1>2
  <2> QED
    BY <2>1, <2>2, <1>2, AsideStep
<1> QED
  BY <1>4, <1>5, <1>6, <1>7, <1>8, <1>9 DEF ClientStep

LEMMA ParentExitsStep ==
    ASSUME DeliveryIInv, NEW s \in Sessions, ParentExits(s)
    PROVE  DeliveryIInv'
<1>1. Typed
  BY DEF DeliveryIInv
<1>2. PICK m : m = Cmd("Shutdown", None, s, NoItem)
  OBVIOUS
<1>3. m \in Parcels
  BY <1>2, CmdType
<1>4. inbox' = [inbox EXCEPT ![s] = Append(@, m)]
  BY <1>2 DEF ParentExits
<1>5. Append(inbox[s], m) \in Seq(Parcels)
  BY <1>1, <1>3 DEF Typed
<1>6. inbox' \in [Sessions -> Seq(Parcels)]
  BY <1>1, <1>4, <1>5 DEF Typed
<1>7. /\ awaiting' \in [Clients -> [session : Sessions \cup {None}, gen : Nat]]
      /\ attached' \in [Clients -> [session : Sessions \cup {None}, gen : Nat]]
      /\ writer' \in [Clients -> {"run", "gone"}]
      /\ UNCHANGED <<daemonQ, daemonVars, thread, subscribers, emitted, conn, writer, sink>>
  BY <1>1 DEF Typed, ParentExits, clientVars
<1> QED
  BY <1>6, <1>7, AsideStep

-----------------------------------------------------------------------------
(* The invariant *)

LEMMA DeliveryInit ==
    ASSUME Init
    PROVE  DeliveryIInv
<1>1. /\ daemonQ = <<>> /\ Len(daemonQ) = 0 /\ \A i \in 1 .. Len(daemonQ) : FALSE
      /\ \A c \in Clients : sink[c] = <<>> /\ Len(sink[c]) = 0 /\ \A i \in 1 .. Len(sink[c]) : FALSE
  BY DEF Init
<1>2. \A s \in Sessions : /\ thread[s] \in Thread /\ thread[s].status = NoItem
                          /\ emitted[s] = 0 /\ subscribers[s] = {}
  BY CmdType DEF Init, Fresh, Thread
<1>3. Typed
  <2>1. NoTx \in [session : Sessions \cup {None}, gen : Nat]
    BY DEF NoTx
  <2>2. thread \in [Sessions -> Thread]
    BY <1>2 DEF Init
  <2>3. /\ daemonQ \in Seq(Commands)
        /\ active \subseteq Sessions /\ activity \subseteq Clients
        /\ summary \subseteq Clients /\ writers \subseteq Clients
        /\ tracked \subseteq Clients \X Sessions
    BY DEF Init
  <2>4. \A s \in Sessions : thread[s].status # NoItem =>
          /\ thread[s].status.kind = "status" /\ thread[s].status.session = s
          /\ thread[s].status.n # 0
    BY <1>2
  <2>5. inbox \in [Sessions -> Seq(Parcels)]
    <3>1. <<>> \in Seq(Parcels)
      OBVIOUS
    <3> QED
      BY <3>1 DEF Init
  <2>6. sink \in [Clients -> Seq(Items)]
    <3>1. <<>> \in Seq(Items)
      OBVIOUS
    <3> QED
      BY <3>1 DEF Init
  <2>7. /\ subscribers \in [Sessions -> SUBSET Clients]
        /\ emitted \in [Sessions -> Nat]
        /\ conn \in [Clients -> {"new", "open", "closed"}]
        /\ writer \in [Clients -> {"run", "gone"}]
    BY DEF Init
  <2>8. /\ awaiting \in [Clients -> [session : Sessions \cup {None}, gen : Nat]]
        /\ attached \in [Clients -> [session : Sessions \cup {None}, gen : Nat]]
    BY <2>1 DEF Init
  <2> QED
    BY <2>2, <2>3, <2>4, <2>5, <2>6, <2>7, <2>8 DEF Typed
<1>4. \A c \in Clients : ~Noticed(sink[c])
  BY <1>1 DEF Noticed
<1>5. Membership
  BY <1>1, <1>4 DEF Membership, Member, Says, Listed, Init
<1>6. Logs
  BY <1>1, <1>4 DEF Logs, Log
<1>7. Numbered
  BY <1>1, <1>2, CmdType DEF Numbered, Ordered
<1>8. Pairs
  BY <1>1, <1>2 DEF Pairs, Pair, Has
<1> QED
  BY <1>3, <1>5, <1>6, <1>7, <1>8 DEF DeliveryIInv

LEMMA DeliveryNext ==
    ASSUME DeliveryIInv, [Next]_vars
    PROVE  DeliveryIInv'
<1>1. CASE Next
  BY <1>1, HandleCommandStep, SessionBroadcastsStep, HandleInboxStep, ParentExitsStep,
     ClientStepStep DEF Next
<1>2. CASE UNCHANGED vars
  <2>1. UNCHANGED <<daemonQ, daemonVars, thread, inbox, subscribers, emitted, conn, awaiting, attached, writer, sink>>
    BY <1>2 DEF vars, sessionVars, clientVars
  <2>2. /\ inbox \in [Sessions -> Seq(Parcels)] /\ writer \in [Clients -> {"run", "gone"}]
        /\ awaiting \in [Clients -> [session : Sessions \cup {None}, gen : Nat]]
        /\ attached \in [Clients -> [session : Sessions \cup {None}, gen : Nat]]
    BY DEF DeliveryIInv, Typed
  <2> QED
    BY <2>1, <2>2, AsideStep
<1> QED
  BY <1>1, <1>2

-----------------------------------------------------------------------------
(* What the invariant says of a client's view *)

LEMMA AtMostOne ==
    ASSUME NEW S, \A i, j \in S : i = j
    PROVE  Cardinality(S) <= 1
<1>1. CASE S = {}
  BY <1>1, FS_EmptySet
<1>2. CASE S # {}
  <2>1. PICK x : S = {x}
    BY <1>2
  <2> QED
    BY <2>1, FS_Singleton
<1> QED
  BY <1>1, <1>2

LEMMA ExactlyOne ==
    ASSUME NEW S, NEW x \in S, \A i \in S : i = x
    PROVE  Cardinality(S) = 1
<1>1. S = {x}
  OBVIOUS
<1> QED
  BY <1>1, FS_Singleton

LEMMA FirstNotice ==
    ASSUME NEW c \in Clients, sink[c] \in Seq(Items), Log(sink[c], emitted), Evicted(c)
    PROVE  /\ Min(Notices(c)) \in 1 .. Len(sink[c])
           /\ \A k \in 1 .. Min(Notices(c)) - 1 : sink[c][k].kind # "evicted"
<1>1. PICK log : log = sink[c]
  OBVIOUS
<1>2. PICK M : M = Notices(c)
  OBVIOUS
<1>3. /\ M = {i \in 1 .. Len(log) : log[i].kind = "evicted"} /\ M # {}
      /\ Len(log) \in Nat
  BY <1>1, <1>2 DEF Evicted, Notices
<1>4. Noticed(log)
  BY <1>3 DEF Noticed
<1>5. PICK p \in 1 .. Len(log) : /\ log[p].kind = "evicted"
                                 /\ \A k \in 1 .. p - 1 : log[k].kind # "evicted"
  BY <1>1, <1>4 DEF Log
<1>6. p \in M /\ \A y \in M : p =< y
  BY <1>3, <1>5
<1>7. Min(M) \in M /\ \A y \in M : Min(M) =< y
  BY <1>6 DEF Min
<1>8. Min(M) = p
  BY <1>3, <1>5, <1>6, <1>7
<1> QED
  BY <1>1, <1>2, <1>5, <1>8

LEMMA SeenIsPrefix ==
    ASSUME NEW c \in Clients, sink[c] \in Seq(Items), Log(sink[c], emitted)
    PROVE  \A j \in 1 .. Len(Seen(c)) :
             /\ j \in 1 .. Len(sink[c]) /\ Seen(c)[j] = sink[c][j]
             /\ \A k \in 1 .. j - 1 : sink[c][k].kind # "evicted"
<1>1. PICK log : log = sink[c]
  OBVIOUS
<1>2. CASE Evicted(c)
  <2>1. PICK p : p = Min(Notices(c))
    OBVIOUS
  <2>2. p \in 1 .. Len(log) /\ \A k \in 1 .. p - 1 : log[k].kind # "evicted"
    BY <1>1, <1>2, <2>1, FirstNotice
  <2>3. PICK seen : seen = SubSeq(log, 1, p)
    OBVIOUS
  <2>4. log \in Seq(Items) /\ Len(log) \in Nat /\ p \in Nat /\ p <= Len(log)
    BY <1>1, <2>2
  <2>5. Len(seen) = p /\ \A j \in 1 .. p : seen[j] = log[j]
    BY <2>3, <2>4
  <2>6. Seen(c) = seen
    BY <1>1, <1>2, <2>1, <2>3 DEF Seen
  <2>7. \A j \in 1 .. p : j \in 1 .. Len(log) /\ \A k \in 1 .. j - 1 : k \in 1 .. p - 1
    BY <2>2, <2>4
  <2> QED
    BY <1>1, <2>2, <2>5, <2>6, <2>7
<1>3. CASE ~Evicted(c)
  <2>1. Seen(c) = log /\ \A k \in 1 .. Len(log) : log[k].kind # "evicted"
    BY <1>1, <1>3 DEF Seen, Evicted, Notices
  <2>2. Len(log) \in Nat
    BY <1>1
  <2>3. \A j \in 1 .. Len(log) : \A k \in 1 .. j - 1 : k \in 1 .. Len(log)
    BY <2>2
  <2> QED
    BY <1>1, <2>1, <2>3
<1> QED
  BY <1>2, <1>3

LEMMA NoneTwice ==
    ASSUME DeliveryIInv
    PROVE  AtMostOnce
<1> SUFFICES ASSUME NEW c \in Clients, NEW s \in Sessions, NEW n \in 1 .. emitted[s]
             PROVE  Cardinality(Copies(c, s, n, {"event"})) <= 1
  BY DEF AtMostOnce
<1>1. sink[c] \in Seq(Items) /\ Log(sink[c], emitted)
  BY DEF DeliveryIInv, Typed, Logs
<1>2. ASSUME NEW i \in Copies(c, s, n, {"event"}), NEW j \in Copies(c, s, n, {"event"}), i < j
      PROVE  FALSE
  <2>1. /\ i \in 1 .. Len(Seen(c)) /\ j \in 1 .. Len(Seen(c))
        /\ Seen(c)[i].kind = "event" /\ Seen(c)[j].kind = "event"
        /\ Seen(c)[i].session = s /\ Seen(c)[j].session = s
        /\ Seen(c)[i].n = n /\ Seen(c)[j].n = n
    BY DEF Copies
  <2>2. /\ i \in 1 .. Len(sink[c]) /\ Seen(c)[i] = sink[c][i]
        /\ j \in 1 .. Len(sink[c]) /\ Seen(c)[j] = sink[c][j]
        /\ \A k \in 1 .. j - 1 : sink[c][k].kind # "evicted"
    BY <1>1, <2>1, SeenIsPrefix
  <2> QED
    BY <1>1, <1>2, <2>1, <2>2 DEF Log
<1>3. Copies(c, s, n, {"event"}) \subseteq Int
  BY DEF Copies
<1>4. \A i, j \in Copies(c, s, n, {"event"}) : i = j
  BY <1>2, <1>3
<1> QED
  BY <1>4, AtMostOne

\* The last snapshot of session s in log, and after it all the events up to e
Snaps(log, s) == {i \in 1 .. Len(log) : log[i].kind = "snapshot" /\ log[i].session = s}
From(log, s, n, p) ==
    {i \in p .. Len(log) : /\ log[i].kind \in {"event", "status"}
                           /\ log[i].session = s
                           /\ log[i].n = n}
ViewOf(log, s, e) ==
    /\ Snaps(log, s) # {}
    /\ \A n \in (log[Max(Snaps(log, s))].n + 1) .. e :
          Cardinality(From(log, s, n, Max(Snaps(log, s)))) = 1

LEMMA WholeView ==
    ASSUME DeliveryIInv, NEW s \in Sessions, NEW c \in Clients, c \in subscribers[s],
           writer[c] = "run", c \in writers
    PROVE  ViewOf(sink[c], s, emitted[s])
<1> PICK log : log = sink[c]
  OBVIOUS
<1> DEFINE snaps == Snaps(log, s)
<1> HIDE DEF snaps
<1>1. log \in Seq(Items) /\ Log(log, emitted) /\ emitted[s] \in Nat /\ Len(log) \in Nat
  BY DEF DeliveryIInv, Typed, Logs
<1>2. ~Out(c)
  BY DEF DeliveryIInv, Membership, Member, Out
<1>3. PICK t : t = (<<c, s>> \in tracked)
  OBVIOUS
<1>4. Pair(c, s, daemonQ, t, conn[c], c \in subscribers[s], log, emitted[s])
  BY <1>1, <1>2, <1>3 DEF DeliveryIInv, Pairs
<1>5. /\ \E p \in 1 .. Len(log) : LastSnap(log, s, p)
      /\ \A n \in 1 .. emitted[s] : Since(log, s, n) =>
           /\ Has(log, s, n)
           /\ \A i, j \in 1 .. Len(log) : Ev(log[i], s, n) /\ Ev(log[j], s, n) => i = j
  BY <1>4 DEF Pair
<1>6. PICK p \in 1 .. Len(log) : LastSnap(log, s, p)
  BY <1>5
<1>7. /\ p \in snaps /\ log[p].kind = "snapshot" /\ log[p].session = s
      /\ \A i \in p + 1 .. Len(log) : ~Snap(log[i], s)
  BY <1>6 DEF LastSnap, Snap, snaps, Snaps
<1>8. \A y \in snaps : p >= y /\ y \in 1 .. Len(log)
  BY <1>1, <1>6, <1>7 DEF Snap, snaps, Snaps
<1>9. Max(snaps) = p
  <2>1. PICK x : x = Max(snaps)
    OBVIOUS
  <2>2. x \in snaps /\ \A y \in snaps : x >= y
    BY <2>1, <1>7, <1>8 DEF Max
  <2>3. x \in 1 .. Len(log) /\ x >= p /\ p >= x
    BY <2>2, <1>7, <1>8
  <2> QED
    BY <2>1, <2>3, <1>1, <1>6
<1>10. log[p] \in Items /\ log[p].n \in Nat
  <2>1. log[p] \in Items
    BY <1>1, <1>6
  <2> QED
    BY <2>1 DEF Items
<1>11. ASSUME NEW n \in (log[p].n + 1) .. emitted[s]
       PROVE  Cardinality(From(log, s, n, p)) = 1
  <2>1. n \in 1 .. emitted[s] /\ log[p].n < n
    BY <1>1, <1>10
  <2>2. \A i \in 1 .. Len(log) : log[i] \in Items /\ log[i].n \in Nat
    <3>1. \A i \in 1 .. Len(log) : log[i] \in Items
      BY <1>1
    <3> QED
      BY <3>1 DEF Items
  <2>3. \A i \in 1 .. Len(log) : i < p /\ log[i].session = s /\ log[i].kind # "evicted" => log[i].n < n
    <3> SUFFICES ASSUME NEW i \in 1 .. Len(log), i < p, log[i].session = s, log[i].kind # "evicted"
                 PROVE  log[i].n < n
      OBVIOUS
    <3>1. log[i].n <= log[p].n
      BY <1>1, <1>6, <1>7 DEF Log
    <3> QED
      BY <3>1, <1>1, <1>10, <2>1, <2>2
  <2>4. Since(log, s, n)
    <3> SUFFICES ASSUME NEW i \in 1 .. Len(log), Snap(log[i], s)
                 PROVE  log[i].n < n
      BY DEF Since
    <3>1. i \in snaps /\ i <= p /\ log[i].session = s /\ log[i].kind = "snapshot"
      BY <1>1, <1>6, <1>8 DEF Snap, snaps, Snaps
    <3>2. CASE i = p
      BY <3>2, <2>1
    <3>3. CASE i < p
      BY <3>1, <3>3, <2>3
    <3> QED
      BY <3>1, <3>2, <3>3, <1>6
  <2>5. PICK x \in 1 .. Len(log) : Ev(log[x], s, n)
    BY <1>5, <2>1, <2>4 DEF Has
  <2>6. x >= p
    BY <2>3, <2>5, <1>6, <1>10, <2>1, <2>2 DEF Ev
  <2>7. \A i \in 1 .. Len(log) : Ev(log[i], s, n) => i = x
    BY <1>5, <2>1, <2>4, <2>5
  <2>8. PICK S : S = From(log, s, n, p)
    OBVIOUS
  <2>9. x \in p .. Len(log) /\ \A i \in p .. Len(log) : i \in 1 .. Len(log)
    BY <1>1, <1>6, <2>5, <2>6
  <2>10. x \in S /\ \A i \in S : i = x
    BY <2>5, <2>7, <2>8, <2>9 DEF Ev, From
  <2> QED
    BY <2>8, <2>10, ExactlyOne
<1> QED
  BY <1>7, <1>9, <1>11 DEF ViewOf, snaps

LEMMA WholeViews ==
    ASSUME DeliveryIInv
    PROVE  AttachedViewComplete
<1>1. \A s \in Sessions : subscribers[s] \subseteq Clients
  BY DEF DeliveryIInv, Typed
<1>2. \A s \in Sessions : \A c \in subscribers[s] :
        writer[c] = "run" /\ c \in writers => ViewOf(sink[c], s, emitted[s])
  BY <1>1, WholeView
<1> QED
  BY <1>2 DEF AttachedViewComplete, ViewOf, Snaps, From

-----------------------------------------------------------------------------
(* No event is lost: threads, and what is on its way to them *)

Ends(m, s) == m.op = "SessionExited" /\ m.session = s
Exits(q, s) == \E i \in 1 .. Len(q) : Ends(q[i], s)
OneExit(q) == \A i, j \in 1 .. Len(q) : \A s \in Sessions : Ends(q[i], s) /\ Ends(q[j], s) => i = j

\* A thread that runs has its entry in active_sessions; one that has left has
\* no subscriber and takes nothing from its inbox.  Only a session with a parent
\* is told to shut down.
Living(s, th, act, ex, box, sub) ==
    /\ th.up => act /\ ~ex
    /\ ~th.up => box = <<>> /\ sub = {}
    /\ ex => act
    /\ th.stop => s \in Orphanable
    /\ \A i \in 1 .. Len(box) : /\ box[i].session = s
                                /\ box[i].op = "Shutdown" => s \in Orphanable
Threads ==
    /\ OneExit(daemonQ)
    /\ \A s \in Sessions :
         Living(s, thread[s], s \in active, Exits(daemonQ, s), inbox[s], subscribers[s])

LEMMA ExitsJoin ==
    ASSUME NEW q \in Seq(Commands), NEW r \in Seq(Commands)
    PROVE  /\ \A s : Exits(q \o r, s) <=> Exits(q, s) \/ Exits(r, s)
           /\ OneExit(q) /\ OneExit(r) /\ (\A s \in Sessions : ~(Exits(q, s) /\ Exits(r, s)))
                => OneExit(q \o r)
<1>1. PICK z : z = q \o r
  OBVIOUS
<1>2. /\ Len(q) \in Nat /\ Len(r) \in Nat
      /\ \A i \in 1 .. Len(q) : z[i] = q[i] /\ i \in 1 .. Len(z)
      /\ \A i \in 1 .. Len(r) : z[Len(q) + i] = r[i] /\ Len(q) + i \in 1 .. Len(z)
      /\ \A i \in 1 .. Len(z) : i \in 1 .. Len(q) \/ (i - Len(q) \in 1 .. Len(r)
                                                      /\ z[i] = r[i - Len(q)])
  <2>1. /\ Len(q) \in Nat /\ Len(r) \in Nat /\ Len(z) = Len(q) + Len(r)
        /\ \A i \in 1 .. Len(q) : z[i] = q[i]
        /\ \A i \in 1 .. Len(r) : z[Len(q) + i] = r[i]
        /\ \A i \in 1 .. Len(z) : i \in 1 .. Len(q) \/ (i - Len(q) \in 1 .. Len(r)
                                                        /\ z[i] = r[i - Len(q)])
    BY <1>1, Joined
  <2> QED
    BY <2>1
<1>3. \A s : Exits(z, s) <=> Exits(q, s) \/ Exits(r, s)
  BY <1>2 DEF Exits
<1>4. ASSUME OneExit(q), OneExit(r), \A s \in Sessions : ~(Exits(q, s) /\ Exits(r, s)),
             NEW i \in 1 .. Len(z), NEW j \in 1 .. Len(z), NEW s \in Sessions,
             Ends(z[i], s), Ends(z[j], s)
      PROVE  i = j
  <2>1. CASE i \in 1 .. Len(q) /\ j \in 1 .. Len(q)
    BY <2>1, <1>2, <1>4 DEF OneExit
  <2>2. CASE i \in 1 .. Len(q) /\ j \notin 1 .. Len(q)
    BY <2>2, <1>2, <1>4 DEF Exits
  <2>3. CASE i \notin 1 .. Len(q) /\ j \in 1 .. Len(q)
    BY <2>3, <1>2, <1>4 DEF Exits
  <2>4. CASE i \notin 1 .. Len(q) /\ j \notin 1 .. Len(q)
    <3>1. /\ i - Len(q) \in 1 .. Len(r) /\ Ends(r[i - Len(q)], s)
          /\ j - Len(q) \in 1 .. Len(r) /\ Ends(r[j - Len(q)], s)
      BY <2>4, <1>2, <1>4
    <3>2. i - Len(q) = j - Len(q)
      BY <3>1, <1>4 DEF OneExit
    <3> QED
      BY <3>2, <1>2
  <2> QED
    BY <2>1, <2>2, <2>3, <2>4
<1> QED
  BY <1>1, <1>3, <1>4 DEF OneExit

LEMMA ExitsTail ==
    ASSUME NEW q \in Seq(Commands), q # <<>>, OneExit(q)
    PROVE  /\ OneExit(Tail(q))
           /\ \A s : Exits(Tail(q), s) => Exits(q, s)
           /\ \A s \in Sessions : Ends(Head(q), s) => ~Exits(Tail(q), s)
<1>1. PICK u : u = Tail(q)
  OBVIOUS
<1>2. /\ 1 \in 1 .. Len(q) /\ Head(q) = q[1] /\ Len(q) \in Nat
      /\ \A i \in 1 .. Len(u) : i \in Nat /\ u[i] = q[i + 1] /\ i + 1 \in 1 .. Len(q) /\ i + 1 # 1
  <2>1. /\ 1 \in 1 .. Len(q) /\ Head(q) = q[1] /\ Len(q) \in Nat
        /\ \A i \in 1 .. Len(u) : u[i] = q[i + 1] /\ i + 1 \in 2 .. Len(q)
    BY <1>1, Rest
  <2> QED
    BY <2>1
<1>3. ASSUME NEW i \in 1 .. Len(u), NEW j \in 1 .. Len(u), NEW s \in Sessions,
             Ends(u[i], s), Ends(u[j], s)
      PROVE  i = j
  <2>1. i + 1 = j + 1
    BY <1>2, <1>3 DEF OneExit
  <2> QED
    BY <2>1, <1>2
<1>4. \A s : Exits(u, s) => Exits(q, s)
  BY <1>2 DEF Exits
<1>5. ASSUME NEW s \in Sessions, Ends(q[1], s), NEW i \in 1 .. Len(u), Ends(u[i], s)
      PROVE  FALSE
  BY <1>2, <1>5 DEF OneExit
<1> QED
  BY <1>1, <1>2, <1>3, <1>4, <1>5 DEF OneExit, Exits

LEMMA NoExits ==
    ASSUME NEW r, \A i \in 1 .. Len(r) : r[i].op # "SessionExited"
    PROVE  OneExit(r) /\ \A s : ~Exits(r, s)
BY DEF OneExit, Exits, Ends

-----------------------------------------------------------------------------
(* The connections' channel ends *)

\* What is asked for is awaited, once.
Asked(q, aw) ==
    /\ \A i \in 1 .. Len(q) : q[i].op = "AttachSession" =>
         aw[q[i].client] = [session |-> q[i].session, gen |-> 0]
    /\ \A i, j \in 1 .. Len(q) : q[i].op = "AttachSession" /\ q[j].op = "AttachSession"
         /\ q[i].client = q[j].client => i = j
\* A connection holds no channel end that is newer than the thread.
Newest(cn, aw, at, th) ==
    /\ cn # "open" => aw = NoTx
    /\ at.session \in Sessions => at.gen <= th[at.session].gen
    /\ aw.gen # 0 => aw.session \in Sessions /\ aw.gen <= th[aw.session].gen
    /\ aw.gen # 0 /\ at.session = aw.session => at.gen <= aw.gen
Waits ==
    /\ Asked(daemonQ, awaiting)
    /\ \A c \in Clients : Newest(conn[c], awaiting[c], attached[c], thread)

LEMMA AskedJoin ==
    ASSUME NEW q \in Seq(Commands), NEW r \in Seq(Commands), NEW aw, Asked(q, aw),
           \A i \in 1 .. Len(r) : r[i].op # "AttachSession"
    PROVE  Asked(q \o r, aw)
<1>1. PICK z : z = q \o r
  OBVIOUS
<1>2. \A i \in 1 .. Len(z) : z[i].op = "AttachSession" => i \in 1 .. Len(q) /\ z[i] = q[i]
  <2>1. /\ \A i \in 1 .. Len(q) : z[i] = q[i]
        /\ \A i \in 1 .. Len(z) : i \in 1 .. Len(q) \/ (i - Len(q) \in 1 .. Len(r)
                                                        /\ z[i] = r[i - Len(q)])
    BY <1>1, Joined
  <2> QED
    BY <2>1
<1>3. Asked(z, aw)
  BY <1>2 DEF Asked
<1> QED
  BY <1>1, <1>3

LEMMA AskedTail ==
    ASSUME NEW q \in Seq(Commands), q # <<>>, NEW aw, Asked(q, aw)
    PROVE  /\ Asked(Tail(q), aw)
           /\ Head(q).op = "AttachSession" =>
                \A i \in 1 .. Len(Tail(q)) : Tail(q)[i].op = "AttachSession" =>
                    Tail(q)[i].client # Head(q).client
<1>1. PICK u : u = Tail(q)
  OBVIOUS
<1>2. /\ 1 \in 1 .. Len(q) /\ Head(q) = q[1] /\ Len(q) \in Nat
      /\ \A i \in 1 .. Len(u) : i \in Nat /\ u[i] = q[i + 1] /\ i + 1 \in 1 .. Len(q) /\ i + 1 # 1
  <2>1. /\ 1 \in 1 .. Len(q) /\ Head(q) = q[1] /\ Len(q) \in Nat
        /\ \A i \in 1 .. Len(u) : u[i] = q[i + 1] /\ i + 1 \in 2 .. Len(q)
    BY <1>1, Rest
  <2> QED
    BY <2>1
<1>3. ASSUME NEW i \in 1 .. Len(u), NEW j \in 1 .. Len(u),
             u[i].op = "AttachSession", u[j].op = "AttachSession", u[i].client = u[j].client
      PROVE  i = j
  <2>1. i + 1 = j + 1
    BY <1>2, <1>3 DEF Asked
  <2> QED
    BY <2>1, <1>2
<1>4. \A i \in 1 .. Len(u) : u[i].op = "AttachSession" =>
        aw[u[i].client] = [session |-> u[i].session, gen |-> 0]
  BY <1>2 DEF Asked
<1>5. ASSUME Head(q).op = "AttachSession", NEW i \in 1 .. Len(u), u[i].op = "AttachSession",
             u[i].client = Head(q).client
      PROVE  FALSE
  BY <1>2, <1>5 DEF Asked
<1> QED
  BY <1>1, <1>3, <1>4, <1>5 DEF Asked

-----------------------------------------------------------------------------
(* Subscriptions *)

LEMMA LatestNoOn ==
    ASSUME NEW S, NEW q \in Seq(S), NEW r \in Seq(S), NEW t, NEW on, NEW off, NEW c, NEW s,
           \A i \in 1 .. Len(r) : ~Is(r[i], on, c, s),
           NEW k \in Len(q) + 1 .. Len(q \o r) + 1, Latest(q \o r, t, on, off, c, s, k)
    PROVE  Latest(q, t, on, off, c, s, Len(q) + 1)
<1>1. PICK z : z = q \o r
  OBVIOUS
<1>2. /\ Len(z) \in Nat /\ Len(q) \in Nat
      /\ \A i \in 1 .. Len(q) : z[i] = q[i]
      /\ \A i \in 1 .. Len(z) : i \in 1 .. Len(q) \/ (i - Len(q) \in 1 .. Len(r)
                                                      /\ z[i] = r[i - Len(q)])
  BY <1>1, Joined
<1>3. PICK h : h = k - 1
  OBVIOUS
<1>4. /\ h \in Nat /\ Len(q) <= h /\ h <= Len(z) /\ Len(q) + 1 - 1 = Len(q)
  BY <1>1, <1>2, <1>3
<1>5. \/ \E j \in 1 .. h : /\ Is(z[j], on, c, s)
                           /\ \A i \in j + 1 .. h : ~Is(z[i], off, c, s)
      \/ t /\ \A i \in 1 .. h : ~Is(z[i], off, c, s)
  BY <1>1, <1>3 DEF Latest
<1>6. CASE t /\ \A i \in 1 .. h : ~Is(z[i], off, c, s)
  <2>1. \A i \in 1 .. Len(q) : ~Is(q[i], off, c, s)
    BY <1>2, <1>4, <1>6
  <2> QED
    BY <2>1, <1>4, <1>6 DEF Latest
<1>7. ASSUME NEW j \in 1 .. h, Is(z[j], on, c, s), \A i \in j + 1 .. h : ~Is(z[i], off, c, s)
      PROVE  Latest(q, t, on, off, c, s, Len(q) + 1)
  <2>1. j \in 1 .. Len(z)
    BY <1>4
  <2>2. j \in 1 .. Len(q)
    BY <2>1, <1>2, <1>7
  <2>3. Is(q[j], on, c, s) /\ \A i \in j + 1 .. Len(q) : ~Is(q[i], off, c, s)
    <3>1. \A i \in j + 1 .. Len(q) : i \in 1 .. Len(q) /\ i \in j + 1 .. h
      BY <2>2, <1>2, <1>4
    <3>2. z[j] = q[j] /\ \A i \in j + 1 .. Len(q) : z[i] = q[i]
      BY <2>2, <3>1, <1>2
    <3> QED
      BY <3>1, <3>2, <1>7
  <2> QED
    BY <2>2, <2>3, <1>4 DEF Latest
<1> QED
  BY <1>5, <1>6, <1>7

\* The thread's inbox decides whether c is a subscriber at its position i.
SubAt(box, sub, c, s, i) == Latest(box, sub, "Attach", "Detach", c, s, i)

\* A subscription, once the inbox is empty, is the one the connection holds; a
\* RemoveSubscriber for a client that is not evicted finds it unsubscribed.
Subscription(c, s, box, sub, at, gen, cn, out) ==
    /\ SubAt(box, sub, c, s, Len(box) + 1) => at = [session |-> s, gen |-> gen] /\ cn = "open"
    /\ ~out => \A i \in 1 .. Len(box) : By(box[i], "RemoveSubscriber", c) =>
                 ~SubAt(box, sub, c, s, i)
Subscriptions ==
    \A c \in Clients, s \in Sessions :
        Subscription(c, s, inbox[s], c \in subscribers[s], attached[c], thread[s].gen, conn[c], Out(c))

LEMMA SubJoin ==
    ASSUME NEW c, NEW s, NEW box \in Seq(Parcels), NEW r \in Seq(Parcels), NEW sub, NEW at, NEW gen,
           NEW cn, NEW out, NEW out2, Subscription(c, s, box, sub, at, gen, cn, out), out => out2,
           \A i \in 1 .. Len(r) : ~Is(r[i], "Attach", c, s),
           \A i \in 1 .. Len(r) : By(r[i], "RemoveSubscriber", c) => out2 \/ cn # "open"
    PROVE  Subscription(c, s, box \o r, sub, at, gen, cn, out2)
<1>1. PICK z : z = box \o r
  OBVIOUS
<1>2. /\ Len(z) \in Nat /\ Len(box) \in Nat /\ Len(r) \in Nat /\ Len(z) = Len(box) + Len(r)
      /\ \A i \in 1 .. Len(box) : z[i] = box[i]
      /\ \A i \in 1 .. Len(z) : i \in 1 .. Len(box) \/ (i - Len(box) \in 1 .. Len(r)
                                                        /\ z[i] = r[i - Len(box)])
  BY <1>1, Joined
<1>3. ASSUME NEW k \in Len(box) + 1 .. Len(z) + 1, SubAt(z, sub, c, s, k)
      PROVE  SubAt(box, sub, c, s, Len(box) + 1)
  BY <1>1, <1>3, LatestNoOn DEF SubAt
<1>4. SubAt(z, sub, c, s, Len(z) + 1) => at = [session |-> s, gen |-> gen] /\ cn = "open"
  <2>1. Len(z) + 1 \in Len(box) + 1 .. Len(z) + 1
    BY <1>2
  <2> QED
    BY <2>1, <1>3 DEF Subscription
<1>5. ASSUME ~out2, NEW i \in 1 .. Len(z), By(z[i], "RemoveSubscriber", c), SubAt(z, sub, c, s, i)
      PROVE  FALSE
  <2>1. CASE i \in 1 .. Len(box)
    <3>1. i \in 1 .. Len(box) + 1
      BY <2>1, <1>2
    <3>2. SubAt(box, sub, c, s, i)
      BY <3>1, <1>1, <1>5, LatestJoin DEF SubAt
    <3> QED
      BY <2>1, <3>2, <1>2, <1>5 DEF Subscription
  <2>2. CASE i \notin 1 .. Len(box)
    <3>1. i \in Len(box) + 1 .. Len(z) + 1
      BY <2>2, <1>2
    <3>2. SubAt(box, sub, c, s, Len(box) + 1)
      BY <3>1, <1>3, <1>5
    <3>3. cn = "open"
      BY <3>2 DEF Subscription
    <3> QED
      BY <3>3, <2>2, <1>2, <1>5
  <2> QED
    BY <2>1, <2>2
<1> QED
  BY <1>1, <1>4, <1>5 DEF Subscription

LEMMA SubTail ==
    ASSUME NEW c, NEW s, NEW box \in Seq(Parcels), box # <<>>, NEW sub, NEW sub2, NEW at, NEW gen,
           NEW cn, NEW out, NEW out2, Subscription(c, s, box, sub, at, gen, cn, out), out => out2,
           sub2 => Is(Head(box), "Attach", c, s) \/ (sub /\ ~Is(Head(box), "Detach", c, s))
    PROVE  Subscription(c, s, Tail(box), sub2, at, gen, cn, out2)
<1>1. PICK u : u = Tail(box)
  OBVIOUS
<1>2. /\ Len(box) \in Nat \ {0} /\ Len(u) = Len(box) - 1
      /\ \A i \in 1 .. Len(u) : u[i] = box[i + 1] /\ i + 1 \in 2 .. Len(box)
  BY <1>1, Rest
<1>3. ASSUME NEW i \in 1 .. Len(box), SubAt(u, sub2, c, s, i)
      PROVE  SubAt(box, sub, c, s, i + 1)
  <2>1. "Attach" # "Detach"
    OBVIOUS
  <2> QED
    BY <2>1, <1>1, <1>3, LatestTail DEF SubAt
<1>4. SubAt(u, sub2, c, s, Len(u) + 1) => SubAt(box, sub, c, s, Len(box) + 1)
  <2>1. Len(u) + 1 = Len(box) /\ Len(box) \in 1 .. Len(box)
    BY <1>2
  <2> QED
    BY <2>1, <1>3
<1>5. ASSUME ~out2, NEW i \in 1 .. Len(u), By(u[i], "RemoveSubscriber", c), SubAt(u, sub2, c, s, i)
      PROVE  FALSE
  <2>1. i \in 1 .. Len(box) /\ i + 1 \in 1 .. Len(box) /\ u[i] = box[i + 1]
    BY <1>2
  <2>2. SubAt(box, sub, c, s, i + 1)
    BY <2>1, <1>3, <1>5
  <2> QED
    BY <2>1, <2>2, <1>5 DEF Subscription
<1> QED
  BY <1>1, <1>4, <1>5 DEF Subscription

LEMMA SubLess ==
    ASSUME NEW c, NEW s, NEW box, NEW sub, NEW sub2, NEW at, NEW gen, NEW cn, NEW out, NEW out2,
           Subscription(c, s, box, sub, at, gen, cn, out), out => out2, sub2 => sub
    PROVE  Subscription(c, s, box, sub2, at, gen, cn, out2)
<1>1. \A i : SubAt(box, sub2, c, s, i) => SubAt(box, sub, c, s, i)
  BY DEF SubAt, Latest
<1> QED
  BY <1>1 DEF Subscription

LEMMA SubNone ==
    ASSUME NEW c, NEW s, NEW sub, ~sub
    PROVE  /\ ~SubAt(<<>>, sub, c, s, 1)
           /\ \A at, gen, cn, out : Subscription(c, s, <<>>, sub, at, gen, cn, out)
<1>1. Len(<<>>) = 0 /\ 1 .. 0 = {} /\ 0 + 1 = 1 /\ 1 .. 1 - 1 = {}
  OBVIOUS
<1>2. ~SubAt(<<>>, sub, c, s, 1)
  BY <1>1 DEF SubAt, Latest
<1> QED
  BY <1>1, <1>2 DEF Subscription

-----------------------------------------------------------------------------
(* Who is tracked, and what is owed *)

\* A client that is not subscribed is, once the queue is empty, not tracked.
Untracked ==
    \A c \in Clients, s \in Sessions \ Orphanable : ~Out(c) /\ c \notin subscribers[s] =>
        ~TrackedAt(daemonQ, <<c, s>> \in tracked, c, s, Len(daemonQ) + 1)

LEMMA TrackedJoin ==
    ASSUME NEW q \in Seq(Commands), NEW r \in Seq(Commands), NEW t, NEW c, NEW s,
           \A i \in 1 .. Len(r) : ~Is(r[i], "TrackSessionSubscription", c, s),
           TrackedAt(q \o r, t, c, s, Len(q \o r) + 1)
    PROVE  TrackedAt(q, t, c, s, Len(q) + 1)
<1>1. PICK k : k = Len(q \o r) + 1
  OBVIOUS
<1>2. k \in Len(q) + 1 .. Len(q \o r) + 1
  BY <1>1
<1> QED
  BY <1>1, <1>2, LatestNoOn DEF TrackedAt

LEMMA TrackedTail ==
    ASSUME NEW q \in Seq(Commands), q # <<>>, NEW t, NEW t2, NEW c, NEW s,
           t2 => Is(Head(q), "TrackSessionSubscription", c, s)
                 \/ (t /\ ~Is(Head(q), "UntrackSessionSubscription", c, s))
    PROVE  /\ \A i \in 1 .. Len(q) : TrackedAt(Tail(q), t2, c, s, i) => TrackedAt(q, t, c, s, i + 1)
           /\ Len(Tail(q)) + 1 = Len(q) /\ Len(q) \in 1 .. Len(q)
<1>1. "TrackSessionSubscription" # "UntrackSessionSubscription"
  OBVIOUS
<1>2. \A i \in 1 .. Len(q) : TrackedAt(Tail(q), t2, c, s, i) => TrackedAt(q, t, c, s, i + 1)
  BY <1>1, LatestTail DEF TrackedAt
<1>3. Len(Tail(q)) + 1 = Len(q) /\ Len(q) \in 1 .. Len(q)
  <2>1. Len(Tail(q)) = Len(q) - 1 /\ Len(q) \in Nat \ {0}
    BY Rest
  <2> QED
    BY <2>1
<1> QED
  BY <1>2, <1>3

\* The daemon has read that c unsubscribes, or goes, before it comes to i.
Parts(m, c) == By(m, "UnregisterActivitySubscriber", c) \/ By(m, "ClientDisconnected", c)
Unlisted(q, c, i) == \E j \in 1 .. i - 1 : Parts(q[j], c)

\* Event n of session s has reached the client, or it is in the queue at a
\* place where the daemon will send it, or where nothing is owed any more.
Comes(c, s, n, q, t, act, i) ==
    /\ On(q[i], "BroadcastActivity", s, n)
    /\ Unlisted(q, c, i) \/ (act /\ ~TrackedAt(q, t, c, s, i))
Debt(c, s, n, q, t, act, log) ==
    Has(log, s, n) \/ \E i \in 1 .. Len(q) : Comes(c, s, n, q, t, act, i)
Owing(c, s, n) == <<c, s, n>> \in owed /\ s \notin Orphanable /\ ~Out(c)
Debts ==
    /\ owed \subseteq Clients \X Sessions \X Nat
    /\ \A c \in Clients, s \in Sessions, n \in Nat : Owing(c, s, n) =>
         Debt(c, s, n, daemonQ, <<c, s>> \in tracked, c \in activity, sink[c])

LEMMA DebtJoin ==
    ASSUME NEW q \in Seq(Commands), NEW r \in Seq(Commands), NEW t, NEW c, NEW s, NEW n, NEW act,
           NEW log, NEW log2, Has(log, s, n) => Has(log2, s, n), Debt(c, s, n, q, t, act, log)
    PROVE  Debt(c, s, n, q \o r, t, act, log2)
<1>1. CASE Has(log, s, n)
  BY <1>1 DEF Debt
<1>2. ASSUME NEW i \in 1 .. Len(q), Comes(c, s, n, q, t, act, i)
      PROVE  Debt(c, s, n, q \o r, t, act, log2)
  <2>1. PICK z : z = q \o r
    OBVIOUS
  <2>2. /\ Len(q) \in Nat /\ i \in 1 .. Len(z) /\ i \in 1 .. Len(q) + 1
        /\ z[i] = q[i] /\ \A j \in 1 .. i - 1 : z[j] = q[j]
    <3>1. /\ Len(q) \in Nat
          /\ \A j \in 1 .. Len(q) : z[j] = q[j] /\ j \in 1 .. Len(z)
      BY <2>1, Joined
    <3> QED
      BY <3>1
  <2>3. TrackedAt(z, t, c, s, i) <=> TrackedAt(q, t, c, s, i)
    BY <2>1, <2>2, LatestJoin DEF TrackedAt
  <2>4. Comes(c, s, n, z, t, act, i)
    BY <2>2, <2>3, <1>2 DEF Comes, Unlisted
  <2> QED
    BY <2>1, <2>2, <2>4 DEF Debt
<1> QED
  BY <1>1, <1>2 DEF Debt

LEMMA DebtTail ==
    ASSUME NEW q \in Seq(Commands), q # <<>>, NEW t, NEW t2, NEW c, NEW s, NEW n, NEW act, NEW act2,
           NEW log, NEW log2, Has(log, s, n) => Has(log2, s, n), Debt(c, s, n, q, t, act, log),
           t2 => Is(Head(q), "TrackSessionSubscription", c, s)
                 \/ (t /\ ~Is(Head(q), "UntrackSessionSubscription", c, s)),
           ~Parts(Head(q), c), act => act2,
           On(Head(q), "BroadcastActivity", s, n) /\ act /\ ~t => Has(log2, s, n)
    PROVE  Debt(c, s, n, Tail(q), t2, act2, log2)
<1>1. CASE Has(log, s, n)
  BY <1>1 DEF Debt
<1>2. ASSUME NEW i \in 1 .. Len(q), Comes(c, s, n, q, t, act, i), i = 1
      PROVE  Has(log2, s, n)
  <2>1. 1 .. 1 - 1 = {} /\ Head(q) = q[1]
    BY Rest
  <2>2. ~Unlisted(q, c, 1)
    BY <2>1 DEF Unlisted
  <2>3. t => TrackedAt(q, t, c, s, 1)
    BY <2>1 DEF TrackedAt, Latest
  <2> QED
    BY <2>1, <2>2, <2>3, <1>2 DEF Comes
<1>3. ASSUME NEW i \in 1 .. Len(q), Comes(c, s, n, q, t, act, i), i # 1
      PROVE  Debt(c, s, n, Tail(q), t2, act2, log2)
  <2>1. PICK u : u = Tail(q)
    OBVIOUS
  <2>2. PICK h : h = i - 1
    OBVIOUS
  <2>3. /\ h \in Nat \ {0} /\ h + 1 = i /\ h \in 1 .. Len(q) /\ h \in 1 .. Len(u) /\ u[h] = q[i]
        /\ i - 1 = h /\ q[1] = Head(q)
        /\ \A j \in 1 .. h : j = 1 \/ (j - 1 \in 1 .. h - 1 /\ u[j - 1] = q[j])
    <3>1. /\ Len(q) \in Nat /\ q[1] = Head(q)
          /\ \A j \in 1 .. Len(q) : j = 1 \/ (j - 1 \in 1 .. Len(u) /\ u[j - 1] = q[j])
      BY <2>1, Rest
    <3>2. h \in Nat \ {0} /\ h + 1 = i /\ h \in 1 .. Len(q) /\ i - 1 = h
      BY <3>1, <2>2, <1>3
    <3> QED
      BY <3>1, <3>2, <1>3
  <2>4. Unlisted(q, c, i) => Unlisted(u, c, h)
    BY <2>3 DEF Unlisted
  <2>5. TrackedAt(u, t2, c, s, h) => TrackedAt(q, t, c, s, i)
    BY <2>1, <2>3, TrackedTail
  <2>6. Comes(c, s, n, u, t2, act2, h)
    BY <2>3, <2>4, <2>5, <1>3 DEF Comes
  <2> QED
    BY <2>1, <2>3, <2>6 DEF Debt
<1> QED
  BY <1>1, <1>2, <1>3 DEF Debt

LEMMA DebtNew ==
    ASSUME NEW q \in Seq(Commands), NEW b \in Commands, NEW t, NEW c, NEW s, NEW n, NEW act, NEW log,
           On(b, "BroadcastActivity", s, n), act, ~TrackedAt(q, t, c, s, Len(q) + 1)
    PROVE  Debt(c, s, n, q \o <<b>>, t, act, log)
<1>1. PICK z : z = q \o <<b>>
  OBVIOUS
<1>2. /\ Len(q) \in Nat /\ Len(q) + 1 \in 1 .. Len(q) + 1 /\ Len(z) = Len(q) + 1
      /\ z[Len(q) + 1] = b
  <2>1. Len(q) \in Nat /\ Len(z) = Len(q) + 1 /\ z[Len(q) + 1] = b
    BY <1>1, Added
  <2> QED
    BY <2>1
<1>3. <<b>> \in Seq(Commands)
  OBVIOUS
<1>4. TrackedAt(z, t, c, s, Len(q) + 1) <=> TrackedAt(q, t, c, s, Len(q) + 1)
  BY <1>1, <1>2, <1>3, LatestJoin DEF TrackedAt
<1>5. Comes(c, s, n, z, t, act, Len(q) + 1)
  BY <1>2, <1>4 DEF Comes
<1> QED
  BY <1>1, <1>2, <1>5 DEF Debt

-----------------------------------------------------------------------------
(* The steps of a session thread *)

\* The thread of s adds r to the daemon's queue and leaves its loop, or goes on
\* with state th, subscribers R and the rest of its inbox.
Moves(s, leave, th, R, rest, r) ==
    /\ thread[s].up /\ th.up /\ th.gen = thread[s].gen /\ (th.stop => s \in Orphanable)
    /\ daemonQ' = daemonQ \o r
    /\ Continue(s, leave, th, R, rest)
    /\ UNCHANGED <<daemonVars, clientVars, writer>>
    /\ OneExit(r) /\ \A s1 : Exits(r, s1) => leave /\ s1 = s
    /\ \A i \in 1 .. Len(r) : r[i].op # "AttachSession"
    /\ \/ rest = inbox[s] /\ R \subseteq subscribers[s]
       \/ /\ inbox[s] # <<>> /\ rest = Tail(inbox[s])
          /\ \A c \in R : \/ Is(Head(inbox[s]), "Attach", c, s)
                          \/ c \in subscribers[s] /\ ~Is(Head(inbox[s]), "Detach", c, s)
       \/ leave
    /\ \A c \in Clients : Out(c) => Out(c)'

LEMMA MoveOut ==
    ASSUME Typed, NEW s \in Sessions, NEW th, NEW R, NEW rest, Continue(s, TRUE, th, R, rest)
    PROVE  /\ \A s1 \in Sessions : s1 # s => /\ thread'[s1] = thread[s1]
                                             /\ subscribers'[s1] = subscribers[s1]
                                             /\ inbox'[s1] = inbox[s1]
           /\ (thread'[s]).up = FALSE /\ (thread'[s]).stop = FALSE
           /\ (thread'[s]).gen = thread[s].gen
           /\ subscribers'[s] = {} /\ inbox'[s] = <<>>
<1>1. /\ thread \in [Sessions -> Thread] /\ inbox \in [Sessions -> Seq(Parcels)]
      /\ subscribers \in [Sessions -> SUBSET Clients]
  BY DEF Typed
<1>2. PICK x : x = [Fresh(thread[s].gen) EXCEPT !.up = FALSE]
  OBVIOUS
<1>3. x.up = FALSE /\ x.stop = FALSE /\ x.gen = thread[s].gen
  BY <1>2 DEF Fresh
<1> QED
  BY <1>1, <1>2, <1>3 DEF Continue

LEMMA MoveThreads ==
    ASSUME Typed, Threads, NEW s \in Sessions, NEW leave \in BOOLEAN, NEW th \in Thread,
           NEW R \in SUBSET Clients, NEW rest \in Seq(Parcels), NEW r \in Seq(Commands),
           Moves(s, leave, th, R, rest, r)
    PROVE  Threads'
<1>1. /\ \A s1 \in Sessions : s1 # s => /\ thread'[s1] = thread[s1]
                                        /\ subscribers'[s1] = subscribers[s1]
                                        /\ inbox'[s1] = inbox[s1]
      /\ ~leave => thread'[s] = th /\ subscribers'[s] = R /\ inbox'[s] = rest
      /\ leave => /\ (thread'[s]).up = FALSE /\ (thread'[s]).stop = FALSE
                  /\ subscribers'[s] = {} /\ inbox'[s] = <<>>
  <2>1. Continue(s, leave, th, R, rest) /\ th.gen = thread[s].gen
    BY DEF Moves
  <2>2. CASE leave = TRUE
    <3>1. Continue(s, TRUE, th, R, rest)
      BY <2>1, <2>2
    <3> QED
      BY <2>1, <2>2, <3>1, MoveOut
  <2>3. CASE leave = FALSE
    <3>1. Continue(s, FALSE, th, R, rest)
      BY <2>1, <2>3
    <3>2. /\ \A s1 \in Sessions : s1 # s => /\ thread'[s1] = thread[s1]
                                            /\ subscribers'[s1] = subscribers[s1]
                                            /\ inbox'[s1] = inbox[s1]
          /\ thread'[s] = th /\ subscribers'[s] = R /\ inbox'[s] = rest
      BY <3>1 DEF Typed, Continue
    <3> QED
      BY <2>1, <2>3, <3>2
  <2> QED
    BY <2>2, <2>3
<1>2. /\ daemonQ \in Seq(Commands) /\ daemonQ' = daemonQ \o r /\ active' = active
      /\ inbox[s] \in Seq(Parcels)
  BY DEF Typed, Moves, daemonVars
<1>3. /\ OneExit(daemonQ) /\ OneExit(r) /\ \A s1 : Exits(r, s1) => leave /\ s1 = s
      /\ \A s1 \in Sessions : Living(s1, thread[s1], s1 \in active, Exits(daemonQ, s1), inbox[s1],
                                     subscribers[s1])
      /\ thread[s].up /\ th.up /\ (th.stop => s \in Orphanable)
  BY DEF Threads, Moves
<1>4. s \in active /\ ~Exits(daemonQ, s)
  BY <1>3 DEF Living
<1>5. /\ OneExit(daemonQ \o r)
      /\ \A s1 : Exits(daemonQ \o r, s1) <=> Exits(daemonQ, s1) \/ Exits(r, s1)
  BY <1>2, <1>3, <1>4, ExitsJoin
<1>6. ASSUME NEW s1 \in Sessions
      PROVE  Living(s1, thread'[s1], s1 \in active', Exits(daemonQ', s1), inbox'[s1], subscribers'[s1])
  <2>1. CASE s1 # s
    <3>1. PICK ex : ex = Exits(daemonQ, s1)
      OBVIOUS
    <3>2. PICK ex2 : ex2 = Exits(daemonQ', s1)
      OBVIOUS
    <3>3. (ex2 <=> ex) /\ Living(s1, thread[s1], s1 \in active, ex, inbox[s1], subscribers[s1])
      BY <2>1, <3>1, <3>2, <1>2, <1>3, <1>5
    <3>4. Living(s1, thread[s1], s1 \in active, ex2, inbox[s1], subscribers[s1])
      BY <3>3 DEF Living
    <3> QED
      BY <2>1, <3>2, <3>4, <1>1, <1>2
  <2>2. CASE s1 = s /\ leave
    <3>1. Len(<<>>) = 0 /\ 1 .. 0 = {}
      OBVIOUS
    <3> QED
      BY <2>2, <3>1, <1>1, <1>2, <1>4 DEF Living
  <2>3. CASE s1 = s /\ ~leave
    <3>1. \A i \in 1 .. Len(rest) : /\ rest[i].session = s
                                    /\ rest[i].op = "Shutdown" => s \in Orphanable
      <4>1. \A i \in 1 .. Len(inbox[s]) : /\ inbox[s][i].session = s
                                          /\ inbox[s][i].op = "Shutdown" => s \in Orphanable
        BY <1>3 DEF Living
      <4>2. CASE rest = inbox[s]
        BY <4>1, <4>2
      <4>3. CASE inbox[s] # <<>> /\ rest = Tail(inbox[s])
        <5>1. \A i \in 1 .. Len(rest) : rest[i] = inbox[s][i + 1] /\ i + 1 \in 1 .. Len(inbox[s])
          <6>1. /\ Len(inbox[s]) \in Nat
                /\ \A i \in 1 .. Len(rest) : rest[i] = inbox[s][i + 1] /\ i + 1 \in 2 .. Len(inbox[s])
            BY <4>3, <1>2, Rest
          <6> QED
            BY <6>1
        <5> QED
          BY <4>1, <5>1
      <4> QED
        BY <2>3, <4>2, <4>3 DEF Moves
    <3>2. ~Exits(daemonQ', s)
      BY <2>3, <1>2, <1>3, <1>4, <1>5
    <3> QED
      BY <2>3, <3>1, <3>2, <1>1, <1>2, <1>3, <1>4 DEF Living
  <2> QED
    BY <2>1, <2>2, <2>3
<1> QED
  BY <1>2, <1>5, <1>6 DEF Threads

LEMMA MoveWaits ==
    ASSUME Typed, Waits, NEW s \in Sessions, NEW leave \in BOOLEAN, NEW th \in Thread,
           NEW R \in SUBSET Clients, NEW rest \in Seq(Parcels), NEW r \in Seq(Commands),
           Moves(s, leave, th, R, rest, r)
    PROVE  Waits'
<1>1. \A s1 \in Sessions : (thread'[s1]).gen = thread[s1].gen
  <2>1. Continue(s, leave, th, R, rest) /\ th.gen = thread[s].gen
    BY DEF Moves
  <2>2. CASE leave = TRUE
    <3>1. Continue(s, TRUE, th, R, rest)
      BY <2>1, <2>2
    <3> QED
      BY <2>1, <2>2, <3>1, MoveOut
  <2>3. CASE leave = FALSE
    <3>1. Continue(s, FALSE, th, R, rest)
      BY <2>1, <2>3
    <3>2. /\ \A s1 \in Sessions : s1 # s => /\ thread'[s1] = thread[s1]
                                            /\ subscribers'[s1] = subscribers[s1]
                                            /\ inbox'[s1] = inbox[s1]
          /\ thread'[s] = th /\ subscribers'[s] = R /\ inbox'[s] = rest
      BY <3>1 DEF Typed, Continue
    <3> QED
      BY <2>1, <2>3, <3>2
  <2> QED
    BY <2>2, <2>3
<1>2. /\ daemonQ \in Seq(Commands) /\ daemonQ' = daemonQ \o r
      /\ UNCHANGED <<conn, awaiting, attached>>
  BY DEF Typed, Moves, clientVars
<1>3. Asked(daemonQ', awaiting')
  BY <1>2, AskedJoin DEF Moves, Waits
<1>4. \A c \in Clients : Newest(conn'[c], awaiting'[c], attached'[c], thread')
  BY <1>1, <1>2 DEF Waits, Newest
<1> QED
  BY <1>3, <1>4 DEF Waits

LEMMA MoveSubscriptions ==
    ASSUME Typed, Subscriptions, NEW s \in Sessions, NEW leave \in BOOLEAN, NEW th \in Thread,
           NEW R \in SUBSET Clients, NEW rest \in Seq(Parcels), NEW r \in Seq(Commands),
           Moves(s, leave, th, R, rest, r)
    PROVE  Subscriptions'
<1>1. /\ \A s1 \in Sessions : s1 # s => /\ thread'[s1] = thread[s1]
                                        /\ subscribers'[s1] = subscribers[s1]
                                        /\ inbox'[s1] = inbox[s1]
      /\ ~leave => thread'[s] = th /\ subscribers'[s] = R /\ inbox'[s] = rest
      /\ leave => subscribers'[s] = {} /\ inbox'[s] = <<>>
  <2>1. Continue(s, leave, th, R, rest) /\ th.gen = thread[s].gen
    BY DEF Moves
  <2>2. CASE leave = TRUE
    <3>1. Continue(s, TRUE, th, R, rest)
      BY <2>1, <2>2
    <3> QED
      BY <2>1, <2>2, <3>1, MoveOut
  <2>3. CASE leave = FALSE
    <3>1. Continue(s, FALSE, th, R, rest)
      BY <2>1, <2>3
    <3>2. /\ \A s1 \in Sessions : s1 # s => /\ thread'[s1] = thread[s1]
                                            /\ subscribers'[s1] = subscribers[s1]
                                            /\ inbox'[s1] = inbox[s1]
          /\ thread'[s] = th /\ subscribers'[s] = R /\ inbox'[s] = rest
      BY <3>1 DEF Typed, Continue
    <3> QED
      BY <2>1, <2>3, <3>2
  <2> QED
    BY <2>2, <2>3
<1>2. /\ UNCHANGED <<conn, attached>> /\ inbox[s] \in Seq(Parcels) /\ th.gen = thread[s].gen
      /\ \A c \in Clients : Out(c) => Out(c)'
  BY DEF Typed, Moves, clientVars
<1> SUFFICES ASSUME NEW c \in Clients, NEW s1 \in Sessions
             PROVE  Subscription(c, s1, inbox'[s1], (c \in subscribers[s1])', attached'[c],
                                 (thread'[s1]).gen, conn'[c], Out(c)')
  BY DEF Subscriptions
<1>3. PICK out2 : out2 = Out(c)'
  OBVIOUS
<1>4. PICK out : out = Out(c)
  OBVIOUS
<1>5. PICK sub : sub = (c \in subscribers[s1])
  OBVIOUS
<1>6. PICK sub2 : sub2 = (c \in subscribers'[s1])
  OBVIOUS
<1>7. /\ out => out2
      /\ Subscription(c, s1, inbox[s1], sub, attached[c], thread[s1].gen, conn[c], out)
  BY <1>2, <1>3, <1>4, <1>5 DEF Subscriptions
<1>8. CASE s1 # s
  <2>1. sub2 => sub
    BY <1>1, <1>5, <1>6, <1>8
  <2>2. Subscription(c, s1, inbox[s1], sub2, attached[c], thread[s1].gen, conn[c], out2)
    BY <2>1, <1>7, SubLess
  <2> QED
    BY <2>2, <1>1, <1>2, <1>3, <1>6, <1>8
<1>9. CASE s1 = s /\ leave
  <2>1. ~sub2
    BY <1>1, <1>6, <1>9
  <2>2. Subscription(c, s1, <<>>, sub2, attached'[c], (thread'[s1]).gen, conn'[c], out2)
    BY <2>1, SubNone
  <2> QED
    BY <2>2, <1>1, <1>3, <1>6, <1>9
<1>10. CASE s1 = s /\ ~leave
  <2>1. CASE rest = inbox[s] /\ R \subseteq subscribers[s]
    <3>1. sub2 => sub
      BY <2>1, <1>1, <1>5, <1>6, <1>10
    <3>2. Subscription(c, s1, inbox[s1], sub2, attached[c], thread[s1].gen, conn[c], out2)
      BY <3>1, <1>7, SubLess
    <3> QED
      BY <2>1, <3>2, <1>1, <1>2, <1>3, <1>6, <1>10
  <2>2. CASE /\ inbox[s] # <<>> /\ rest = Tail(inbox[s])
             /\ \A c1 \in R : \/ Is(Head(inbox[s]), "Attach", c1, s)
                              \/ c1 \in subscribers[s] /\ ~Is(Head(inbox[s]), "Detach", c1, s)
    <3>1. sub2 => Is(Head(inbox[s]), "Attach", c, s) \/ (sub /\ ~Is(Head(inbox[s]), "Detach", c, s))
      BY <2>2, <1>1, <1>5, <1>6, <1>10
    <3>2. PICK box : box = inbox[s]
      OBVIOUS
    <3>3. /\ box \in Seq(Parcels) /\ box # <<>>
          /\ Subscription(c, s, box, sub, attached[c], thread[s].gen, conn[c], out)
      BY <2>2, <3>2, <1>2, <1>7, <1>10
    <3>4. Subscription(c, s, Tail(box), sub2, attached[c], thread[s].gen, conn[c], out2)
      BY <3>1, <3>2, <3>3, <1>7, SubTail
    <3> QED
      BY <2>2, <3>2, <3>4, <1>1, <1>2, <1>3, <1>6, <1>10
  <2> QED
    BY <2>1, <2>2, <1>10 DEF Moves
<1> QED
  BY <1>8, <1>9, <1>10

LEMMA MoveUntracked ==
    ASSUME Typed, Untracked, NEW r \in Seq(Commands), daemonQ' = daemonQ \o r,
           UNCHANGED tracked, \A c \in Clients : Out(c) => Out(c)',
           \A c \in Clients, s \in Sessions \ Orphanable : ~Out(c)' /\ c \notin subscribers'[s] =>
             \/ c \notin subscribers[s]
                /\ \A i \in 1 .. Len(r) : ~Is(r[i], "TrackSessionSubscription", c, s)
             \/ ~TrackedAt(daemonQ', <<c, s>> \in tracked, c, s, Len(daemonQ') + 1)
    PROVE  Untracked'
<1>1. daemonQ \in Seq(Commands)
  BY DEF Typed
<1> SUFFICES ASSUME NEW c \in Clients, NEW s \in Sessions \ Orphanable,
                    ~Out(c)', c \notin subscribers'[s]
             PROVE  ~TrackedAt(daemonQ', (<<c, s>> \in tracked)', c, s, Len(daemonQ') + 1)
  BY DEF Untracked
<1>2. PICK t : t = (<<c, s>> \in tracked)
  OBVIOUS
<1>3. (<<c, s>> \in tracked)' = t
  BY <1>2
<1>4. CASE ~TrackedAt(daemonQ', <<c, s>> \in tracked, c, s, Len(daemonQ') + 1)
  BY <1>2, <1>3, <1>4
<1>5. CASE /\ c \notin subscribers[s]
           /\ \A i \in 1 .. Len(r) : ~Is(r[i], "TrackSessionSubscription", c, s)
  <2>1. ~TrackedAt(daemonQ, t, c, s, Len(daemonQ) + 1)
    BY <1>2, <1>5 DEF Untracked
  <2>2. ~TrackedAt(daemonQ \o r, t, c, s, Len(daemonQ \o r) + 1)
    BY <2>1, <1>1, <1>5, TrackedJoin
  <2> QED
    BY <2>2, <1>3
<1> QED
  BY <1>4, <1>5

LEMMA MoveDebts ==
    ASSUME Typed, Debts, NEW r \in Seq(Commands), daemonQ' = daemonQ \o r,
           UNCHANGED <<tracked, activity, sink, writer, owed>>
    PROVE  Debts'
<1>1. daemonQ \in Seq(Commands)
  BY DEF Typed
<1> SUFFICES ASSUME NEW c \in Clients, NEW s \in Sessions, NEW n \in Nat, Owing(c, s, n)'
             PROVE  Debt(c, s, n, daemonQ', (<<c, s>> \in tracked)', (c \in activity)', sink'[c])
  BY DEF Debts
<1>2. PICK t : t = (<<c, s>> \in tracked)
  OBVIOUS
<1>3. PICK act : act = (c \in activity)
  OBVIOUS
<1>4. Debt(c, s, n, daemonQ, t, act, sink[c])
  BY <1>2, <1>3 DEF Debts, Owing, Out
<1>5. Debt(c, s, n, daemonQ \o r, t, act, sink[c])
  BY <1>1, <1>4, DebtJoin
<1> QED
  BY <1>2, <1>3, <1>5

LossIInv == Threads /\ Waits /\ Subscriptions /\ Untracked /\ Debts

LEMMA MoveKeeps ==
    ASSUME Typed, LossIInv, NEW s \in Sessions, NEW leave \in BOOLEAN, NEW th \in Thread,
           NEW R \in SUBSET Clients, NEW rest \in Seq(Parcels), NEW r \in Seq(Commands),
           Moves(s, leave, th, R, rest, r)
    PROVE  Threads' /\ Waits' /\ Subscriptions'
<1>1. Threads'
  BY MoveThreads DEF LossIInv
<1>2. Waits'
  BY MoveWaits DEF LossIInv
<1>3. Subscriptions'
  BY MoveSubscriptions DEF LossIInv
<1> QED
  BY <1>1, <1>2, <1>3

\* What an item sent to R does to the logs
LEMMA SentMore ==
    ASSUME Typed, NEW R, NEW x \in Items, sink' = Enqueue(sink, R, x), UNCHANGED writer
    PROVE  /\ \A c \in Clients : Out(c) => Out(c)'
           /\ x.kind # "evicted" => \A c \in Clients : Out(c)' => Out(c)
           /\ \A c \in Clients : \A s, n : Has(sink[c], s, n) => Has(sink'[c], s, n)
           /\ \A c \in Clients : \A s, n : c \in R /\ ~Out(c) /\ Ev(x, s, n) => Has(sink'[c], s, n)
<1> SUFFICES ASSUME NEW c \in Clients
             PROVE  /\ Out(c) => Out(c)'
                    /\ x.kind # "evicted" => (Out(c)' => Out(c))
                    /\ \A s, n : Has(sink[c], s, n) => Has(sink'[c], s, n)
                    /\ \A s, n : c \in R /\ ~Out(c) /\ Ev(x, s, n) => Has(sink'[c], s, n)
  OBVIOUS
<1>1. sink \in [Clients -> Seq(Items)] /\ sink[c] \in Seq(Items)
      /\ writer[c] \in {"run", "gone"} /\ writer'[c] = writer[c]
  BY DEF Typed
<1>2. /\ c \in R /\ writer[c] = "run" => sink'[c] = sink[c] \o <<x>>
      /\ c \notin R \/ writer[c] # "run" => sink'[c] = sink[c]
  <2>1. PICK sk : sk = Enqueue(sink, R, x)
    OBVIOUS
  <2>2. /\ c \in R /\ writer[c] = "run" => sk[c] = sink[c] \o <<x>>
        /\ c \notin R \/ writer[c] # "run" => sk[c] = sink[c]
    BY <2>1, <1>1, Enqueued
  <2> QED
    BY <2>1, <2>2
<1>3. CASE c \in R /\ writer[c] = "run"
  <2>1. PICK log : log = sink[c]
    OBVIOUS
  <2>2. /\ \A s, n : Has(log \o <<x>>, s, n) <=> Has(log, s, n) \/ Ev(x, s, n)
        /\ Noticed(log \o <<x>>) <=> Noticed(log) \/ x.kind = "evicted"
    BY <2>1, <1>1, Got
  <2>3. PICK log2 : log2 = log \o <<x>>
    OBVIOUS
  <2>4. sink'[c] = log2
    BY <2>1, <2>3, <1>2, <1>3
  <2>5. \A s, n : Has(log2, s, n) <=> Has(log, s, n) \/ Ev(x, s, n)
    BY <2>2, <2>3
  <2> QED
    BY <2>1, <2>2, <2>3, <2>4, <2>5, <1>1 DEF Out
<1>4. CASE ~(c \in R /\ writer[c] = "run")
  <2>1. sink'[c] = sink[c]
    BY <1>2, <1>4
  <2>2. (c \in R => Out(c)) /\ (Out(c)' <=> Out(c))
    BY <2>1, <1>1, <1>4 DEF Out
  <2> QED
    BY <2>1, <2>2
<1> QED
  BY <1>3, <1>4

LEMMA BroadcastLoss ==
    ASSUME Typed, LossIInv, NEW s \in Sessions, NEW kind \in {"event", "status"},
           NEW th \in Thread, NEW rest \in Seq(Parcels),
           Broadcast(s, kind), Continue(s, FALSE, th, Pruned(s), rest),
           UNCHANGED <<daemonVars, clientVars, writer>>,
           thread[s].up, th.up, th.gen = thread[s].gen, th.stop => s \in Orphanable,
           \/ rest = inbox[s]
           \/ inbox[s] # <<>> /\ rest = Tail(inbox[s]) /\ Head(inbox[s]).op = "Shutdown"
    PROVE  LossIInv'
<1>1. PICK x : x = Item(kind, s, emitted[s] + 1)
  OBVIOUS
<1>2. PICK b : b = Cmd("BroadcastActivity", None, s, x)
  OBVIOUS
<1>3. /\ x \in Items /\ Ev(x, s, emitted[s] + 1) /\ x.kind = kind /\ x.n = emitted[s] + 1
      /\ b \in Commands /\ On(b, "BroadcastActivity", s, emitted[s] + 1)
  BY <1>1, <1>2, BroadcastQueue DEF Item
<1>4. PICK y \in Seq(Commands) : /\ daemonQ' = (daemonQ \o <<b>>) \o y
                                 /\ \A i \in 1 .. Len(y) : y[i].op \in Chores
  BY <1>1, <1>2, BroadcastQueue
<1>5. PICK q : q = daemonQ
  OBVIOUS
<1>6. PICK bs : bs = <<b>>
  OBVIOUS
<1>7. PICK r : r = bs \o y
  OBVIOUS
<1>8. /\ bs \in Seq(Commands) /\ \A i \in 1 .. Len(bs) : bs[i].op = "BroadcastActivity"
      /\ q \in Seq(Commands) /\ q \o bs \in Seq(Commands)
  <2>1. bs \in Seq(Commands) /\ \A i \in 1 .. Len(bs) : bs[i].op = "BroadcastActivity"
    BY <1>3, <1>6 DEF On
  <2>2. q \in Seq(Commands)
    BY <1>5 DEF Typed
  <2> QED
    BY <2>1, <2>2, Joined
<1>9. /\ r \in Seq(Commands)
      /\ \A i \in 1 .. Len(r) : r[i].op \in Chores \cup {"BroadcastActivity"}
  <2>1. /\ \A i \in 1 .. Len(bs) : bs[i].op \in Chores \cup {"BroadcastActivity"}
        /\ \A i \in 1 .. Len(y) : y[i].op \in Chores \cup {"BroadcastActivity"}
    BY <1>4, <1>8
  <2> QED
    BY <2>1, <1>7, <1>8, Joined, SMTT(30)
<1>10. daemonQ' = q \o r
  <2>1. (q \o bs) \o y = q \o (bs \o y)
    BY <1>8, Regroup
  <2> QED
    BY <2>1, <1>4, <1>5, <1>6, <1>7
<1>11. /\ OneExit(r) /\ \A s1 : ~Exits(r, s1)
       /\ \A i \in 1 .. Len(r) : /\ r[i].op # "AttachSession"
                                 /\ \A c, s1 : ~Is(r[i], "TrackSessionSubscription", c, s1)
  <2>1. \A i \in 1 .. Len(r) : /\ r[i].op # "AttachSession" /\ r[i].op # "SessionExited"
                               /\ r[i].op # "TrackSessionSubscription"
    BY <1>9 DEF Chores
  <2> QED
    BY <2>1, NoExits DEF Is
<1>12. sink' = Enqueue(sink, subscribers[s], x)
  BY <1>1 DEF Broadcast
<1>13. /\ \A c \in Clients : Out(c) <=> Out(c)'
       /\ \A c \in Clients : \A s1, n : Has(sink[c], s1, n) => Has(sink'[c], s1, n)
       /\ \A c \in Clients : \A s1, n : c \in subscribers[s] /\ ~Out(c) /\ Ev(x, s1, n) =>
            Has(sink'[c], s1, n)
  BY <1>3, <1>12, SentMore
<1>14. Pruned(s) \in SUBSET Clients /\ Pruned(s) \subseteq subscribers[s]
  BY DEF Typed, Pruned
<1>15. Moves(s, FALSE, th, Pruned(s), rest, r)
  BY <1>5, <1>10, <1>11, <1>13, <1>14 DEF Moves, Is
<1>16. Threads' /\ Waits' /\ Subscriptions'
  BY <1>9, <1>14, <1>15, MoveKeeps
<1>17. Untracked'
  <2>1. \A c \in Clients, s1 \in Sessions : ~Out(c) /\ c \notin subscribers'[s1] => c \notin subscribers[s1]
    BY DEF Typed, Continue, Pruned, Gone, Out
  <2>2. UNCHANGED tracked
    BY DEF daemonVars
  <2> QED
    BY <2>1, <2>2, <1>5, <1>9, <1>10, <1>11, <1>13, MoveUntracked DEF LossIInv
<1>18. Debts'
  <2>1. owed' = owed \cup {<<c, s, x.n>> : c \in activity \cup subscribers[s]}
    BY <1>1 DEF Broadcast
  <2>2. UNCHANGED <<tracked, activity>> /\ activity \subseteq Clients /\ subscribers[s] \subseteq Clients
    BY DEF daemonVars, Typed
  <2>3. x.n \in Nat /\ owed \subseteq Clients \X Sessions \X Nat
    BY <1>3 DEF Items, LossIInv, Debts
  <2>4. owed' \subseteq Clients \X Sessions \X Nat
    BY <2>1, <2>2, <2>3
  <2>5. ASSUME NEW c \in Clients, NEW s1 \in Sessions, NEW n \in Nat, Owing(c, s1, n)'
        PROVE  Debt(c, s1, n, daemonQ', (<<c, s1>> \in tracked)', (c \in activity)', sink'[c])
    <3>1. PICK t : t = (<<c, s1>> \in tracked)
      OBVIOUS
    <3>2. PICK act : act = (c \in activity)
      OBVIOUS
    <3>3. (<<c, s1>> \in tracked)' = t /\ (c \in activity)' = act
      BY <3>1, <3>2, <2>2
    <3>4. PICK log2 : log2 = sink'[c]
      OBVIOUS
    <3>5. <<c, s1, n>> \in owed' /\ s1 \notin Orphanable /\ ~Out(c)
      BY <2>5, <1>13 DEF Owing
    <3>6. CASE <<c, s1, n>> \in owed
      <4>1. Debt(c, s1, n, q, t, act, sink[c])
        BY <3>1, <3>2, <3>5, <3>6, <1>5 DEF LossIInv, Debts, Owing
      <4>2. Has(sink[c], s1, n) => Has(log2, s1, n)
        BY <3>4, <1>13
      <4>3. Debt(c, s1, n, q \o r, t, act, log2)
        BY <4>1, <4>2, <1>8, <1>9, DebtJoin
      <4> QED
        BY <4>3, <3>3, <3>4, <1>10
    <3>7. CASE s1 = s /\ n = x.n /\ c \in subscribers[s]
      <4>1. Has(log2, s1, n)
        BY <3>4, <3>5, <3>7, <1>3, <1>13
      <4> QED
        BY <4>1, <3>3, <3>4 DEF Debt
    <3>8. CASE s1 = s /\ n = x.n /\ c \in activity /\ c \notin subscribers[s]
      <4>1. ~TrackedAt(q, t, c, s, Len(q) + 1)
        BY <3>1, <3>5, <3>8, <1>5 DEF LossIInv, Untracked
      <4>2. act /\ On(b, "BroadcastActivity", s, n)
        BY <3>2, <3>8, <1>3
      <4>3. Debt(c, s, n, q \o <<b>>, t, act, log2)
        BY <4>1, <4>2, <1>3, <1>8, DebtNew
      <4>4. Debt(c, s, n, (q \o bs) \o y, t, act, log2)
        BY <4>3, <1>4, <1>6, <1>8, DebtJoin
      <4> QED
        BY <4>4, <3>3, <3>4, <3>8, <1>4, <1>5, <1>6
    <3> QED
      BY <3>5, <3>6, <3>7, <3>8, <2>1
  <2> QED
    BY <2>4, <2>5 DEF Debts
<1> QED
  BY <1>16, <1>17, <1>18 DEF LossIInv

LEMMA SessionBroadcastsLoss ==
    ASSUME Typed, LossIInv, NEW s \in Sessions, SessionBroadcasts(s)
    PROVE  LossIInv'
<1>1. /\ thread[s] \in Thread /\ emitted[s] \in Nat /\ inbox[s] \in Seq(Parcels)
      /\ thread[s].stop => s \in Orphanable
  BY ThreadFacts DEF LossIInv, Threads, Living
<1>2. thread[s].up
  BY DEF SessionBroadcasts, SessionEvent, RunInput, StatusChanged, Free
<1>3. CASE SessionEvent(s)
  BY <1>1, <1>2, <1>3, BroadcastLoss DEF SessionEvent
<1>4. CASE RunInput(s)
  <2>1. PICK th : th = [thread[s] EXCEPT !.busy = TRUE]
    OBVIOUS
  <2>2. th \in Thread /\ th.up = thread[s].up /\ th.gen = thread[s].gen /\ th.stop = thread[s].stop
    BY <2>1, <1>1 DEF Thread
  <2>3. /\ Broadcast(s, "event") /\ Continue(s, FALSE, th, Pruned(s), inbox[s])
        /\ UNCHANGED <<daemonVars, clientVars, writer>>
    BY <2>1, <1>4 DEF RunInput
  <2> QED
    BY <2>2, <2>3, <1>1, <1>2, BroadcastLoss
<1>5. CASE StatusChanged(s)
  <2>1. PICK finished \in BOOLEAN :
          Continue(s, FALSE, [thread[s] EXCEPT
                  !.busy = ~finished, !.status = Item("status", s, emitted[s] + 1)],
                  Pruned(s), inbox[s])
    BY <1>5 DEF StatusChanged
  <2>2. PICK x : x = Item("status", s, emitted[s] + 1)
    OBVIOUS
  <2>3. PICK th : th = [thread[s] EXCEPT !.busy = ~finished, !.status = x]
    OBVIOUS
  <2>4. x \in Items
    <3>1. emitted[s] + 1 \in Nat
      BY <1>1
    <3> QED
      BY <2>2, <3>1, CmdType DEF Item
  <2>5. th \in Thread /\ th.up = thread[s].up /\ th.gen = thread[s].gen /\ th.stop = thread[s].stop
    BY <2>3, <2>4, <1>1 DEF Thread
  <2>6. /\ Broadcast(s, "status") /\ Continue(s, FALSE, th, Pruned(s), inbox[s])
        /\ UNCHANGED <<daemonVars, clientVars, writer>>
    BY <2>1, <2>2, <2>3, <1>5 DEF StatusChanged
  <2> QED
    BY <2>5, <2>6, <1>1, <1>2, BroadcastLoss
<1> QED
  BY <1>3, <1>4, <1>5 DEF SessionBroadcasts

\* A thread ends once, and tells only of itself.
LEMMA ExitedOnce ==
    ASSUME NEW s \in Sessions, NEW leave \in BOOLEAN
    PROVE  LET r == IF leave THEN Exited(s) ELSE <<>>
           IN  /\ r \in Seq(Commands) /\ \A i \in 1 .. Len(r) : r[i].op = "SessionExited"
               /\ OneExit(r) /\ \A s1 : Exits(r, s1) => leave /\ s1 = s
<1>1. PICK m : m = Cmd("SessionExited", None, s, NoItem)
  OBVIOUS
<1>2. m.session = s /\ Exited(s) = <<m>>
  BY <1>1, CmdType DEF Cmd, Exited
<1>3. PICK r : r = IF leave THEN Exited(s) ELSE <<>>
  OBVIOUS
<1>4. r \in Seq(Commands) /\ \A i \in 1 .. Len(r) : r[i].op = "SessionExited"
  BY <1>3, ExitedType
<1>5. \A i \in 1 .. Len(r) : i = 1 /\ r[i] = m /\ leave
  BY <1>2, <1>3
<1>6. OneExit(r) /\ \A s1 : Exits(r, s1) => leave /\ s1 = s
  BY <1>2, <1>5 DEF OneExit, Exits, Ends
<1> QED
  BY <1>3, <1>4, <1>6

\* Steps that move the thread on and send nothing to a client
LEMMA MoveLoss ==
    ASSUME Typed, LossIInv, NEW s \in Sessions, NEW leave \in BOOLEAN, NEW th \in Thread,
           NEW R \in SUBSET Clients, NEW rest \in Seq(Parcels), NEW r \in Seq(Commands),
           Moves(s, leave, th, R, rest, r), UNCHANGED <<sink, owed>>,
           \A i \in 1 .. Len(r) : r[i].op # "TrackSessionSubscription",
           s \notin Orphanable => \A c \in Clients \ R : ~Out(c) /\ c \in subscribers[s] =>
             ~TrackedAt(daemonQ', <<c, s>> \in tracked, c, s, Len(daemonQ') + 1),
           leave => R = {} \/ s \in Orphanable
    PROVE  LossIInv'
<1>1. Threads' /\ Waits' /\ Subscriptions'
  BY MoveKeeps
<1>2. /\ daemonQ' = daemonQ \o r /\ UNCHANGED <<tracked, activity, writer>>
      /\ Continue(s, leave, th, R, rest)
  BY DEF Moves, daemonVars
<1>3. Debts'
  BY <1>2, MoveDebts DEF LossIInv
<1>4. \A c \in Clients : Out(c) <=> Out(c)'
  BY <1>2 DEF Out
<1>5. ASSUME NEW c \in Clients, NEW s1 \in Sessions \ Orphanable, ~Out(c)', c \notin subscribers'[s1]
      PROVE  \/ c \notin subscribers[s1]
                /\ \A i \in 1 .. Len(r) : ~Is(r[i], "TrackSessionSubscription", c, s1)
             \/ ~TrackedAt(daemonQ', <<c, s1>> \in tracked, c, s1, Len(daemonQ') + 1)
  <2>1. \A i \in 1 .. Len(r) : ~Is(r[i], "TrackSessionSubscription", c, s1)
    BY DEF Is
  <2>2. s1 = s => c \notin R
    <3>1. subscribers'[s] = IF leave THEN {} ELSE R
      BY <1>2 DEF Typed, Continue
    <3> QED
      BY <3>1, <1>5
  <2>3. s1 # s => subscribers'[s1] = subscribers[s1]
    BY <1>2 DEF Typed, Continue
  <2> QED
    BY <2>1, <2>2, <2>3, <1>4, <1>5
<1>6. Untracked'
  BY <1>2, <1>4, <1>5, MoveUntracked DEF LossIInv
<1> QED
  BY <1>1, <1>3, <1>6 DEF LossIInv

LEMMA OneMore ==
    ASSUME NEW m \in Commands, m.op \in Books \cup Buses, NEW y \in Seq(Commands), OneExit(y),
           \A i \in 1 .. Len(y) : y[i].op = "SessionExited", NEW r, r = <<m>> \o y
    PROVE  /\ r \in Seq(Commands) /\ <<m>> \in Seq(Commands)
           /\ OneExit(r) /\ \A s1 : Exits(r, s1) => Exits(y, s1)
           /\ \A i \in 1 .. Len(r) : r[i].op \in {m.op, "SessionExited"}
<1>2. PICK ms : ms = <<m>>
  OBVIOUS
<1>3. ms \in Seq(Commands) /\ \A i \in 1 .. Len(ms) : ms[i] = m
  BY <1>2
<1>4. \A i \in 1 .. Len(ms) : ms[i].op # "SessionExited"
  BY <1>3 DEF Books, Buses
<1>5. OneExit(ms) /\ \A s1 : ~Exits(ms, s1)
  BY <1>4, NoExits
<1>6. OneExit(ms \o y) /\ \A s1 : Exits(ms \o y, s1) <=> Exits(ms, s1) \/ Exits(y, s1)
  BY <1>3, <1>5, ExitsJoin
<1>7. /\ ms \o y \in Seq(Commands)
      /\ \A i \in 1 .. Len(ms \o y) : (ms \o y)[i].op \in {m.op, "SessionExited"}
  BY <1>3, Joined
<1> QED
  BY <1>2, <1>3, <1>5, <1>6, <1>7

LEMMA ForwardStatusLoss ==
    ASSUME Typed, LossIInv, NEW s \in Sessions, ForwardStatus(s)
    PROVE  LossIInv'
<1>a. PICK leave : leave = LeavesWith(s, subscribers[s])
  OBVIOUS
<1>b. PICK x : x = thread[s].status
  OBVIOUS
<1>c. PICK m : m = Cmd("BroadcastSessionStatus", None, s, x)
  OBVIOUS
<1>d. PICK y : y = IF leave THEN Exited(s) ELSE <<>>
  OBVIOUS
<1>e. PICK q : q = daemonQ
  OBVIOUS
<1>1. /\ thread[s] \in Thread /\ x \in Items /\ x.n \in Nat
      /\ inbox[s] \in Seq(Parcels) /\ subscribers[s] \in SUBSET Clients
      /\ x.kind = "status" /\ x.session = s /\ x.n # 0 /\ leave \in BOOLEAN
      /\ q \in Seq(Commands) /\ thread[s].up
  <2>1. q \in Seq(Commands)
    BY <1>e DEF Typed
  <2> QED
    BY <2>1, <1>a, <1>b, ThreadFacts DEF ForwardStatus, Thread, LeavesWith
<1>2. thread[s].stop => s \in Orphanable
  BY DEF LossIInv, Threads, Living
<1>3. m \in Commands /\ m.op = "BroadcastSessionStatus"
  BY <1>1, <1>c, CmdType DEF Cmd
<1>4. m.op \in Books \cup Buses
  BY <1>3 DEF Buses
<1>5. PICK r : r = <<m>> \o y
  OBVIOUS
<1>6. /\ r \in Seq(Commands) /\ <<m>> \in Seq(Commands) /\ y \in Seq(Commands)
      /\ OneExit(r) /\ \A s1 : Exits(r, s1) => leave /\ s1 = s
      /\ \A i \in 1 .. Len(r) : r[i].op \in {m.op, "SessionExited"}
  <2>1. /\ y \in Seq(Commands) /\ \A i \in 1 .. Len(y) : y[i].op = "SessionExited"
        /\ OneExit(y) /\ \A s1 : Exits(y, s1) => leave /\ s1 = s
    BY <1>1, <1>d, ExitedOnce
  <2>2. /\ r \in Seq(Commands) /\ <<m>> \in Seq(Commands)
        /\ OneExit(r) /\ \A s1 : Exits(r, s1) => Exits(y, s1)
        /\ \A i \in 1 .. Len(r) : r[i].op \in {m.op, "SessionExited"}
    BY <2>1, <1>3, <1>4, <1>5, OneMore
  <2> QED
    BY <2>1, <2>2
<1>7. daemonQ' = daemonQ \o r
  <2>1. daemonQ' = (q \o <<m>>) \o y
    BY <1>a, <1>b, <1>c, <1>d, <1>e DEF ForwardStatus
  <2>2. (q \o <<m>>) \o y = q \o (<<m>> \o y)
    BY <1>1, <1>6, Regroup
  <2> QED
    BY <2>1, <2>2, <1>5, <1>e
<1>8. PICK th : th = [thread[s] EXCEPT !.status = NoItem]
  OBVIOUS
<1>9. th \in Thread /\ th.up = thread[s].up /\ th.gen = thread[s].gen /\ th.stop = thread[s].stop
  BY <1>1, <1>8, CmdType DEF Thread
<1>10. /\ Continue(s, leave, th, subscribers[s], inbox[s])
       /\ UNCHANGED <<daemonVars, clientVars, writer, sink, owed>>
  BY <1>8, <1>a DEF ForwardStatus
<1>11. \A c \in Clients : Out(c) => Out(c)'
  BY <1>10 DEF Out
<1>12. \A i \in 1 .. Len(r) : r[i].op # "AttachSession" /\ r[i].op # "TrackSessionSubscription"
  BY <1>3, <1>6
<1>13. Moves(s, leave, th, subscribers[s], inbox[s], r)
  BY <1>1, <1>2, <1>6, <1>7, <1>9, <1>10, <1>11, <1>12 DEF Moves
<1>14. leave => subscribers[s] = {} \/ s \in Orphanable
  BY <1>2, <1>a DEF LeavesWith
<1> QED
  BY <1>1, <1>6, <1>9, <1>10, <1>12, <1>13, <1>14, MoveLoss

LEMMA HandleShutdownLoss ==
    ASSUME Typed, LossIInv, NEW s \in Sessions, HandleShutdown(s)
    PROVE  LossIInv'
<1>1. /\ thread[s] \in Thread /\ Tail(inbox[s]) \in Seq(Parcels) /\ inbox[s] \in Seq(Parcels)
      /\ thread[s].up /\ inbox[s] # <<>> /\ Head(inbox[s]).op = "Shutdown"
  BY ThreadFacts DEF HandleShutdown, NextCommand, Free
<1>2. s \in Orphanable
  <2>1. Head(inbox[s]) = inbox[s][1] /\ 1 \in 1 .. Len(inbox[s])
    BY <1>1, Rest
  <2> QED
    BY <2>1, <1>1 DEF LossIInv, Threads, Living
<1>3. CASE thread[s].busy
  <2>1. PICK th : th = [thread[s] EXCEPT !.stop = TRUE]
    OBVIOUS
  <2>2. th \in Thread /\ th.up = thread[s].up /\ th.gen = thread[s].gen
    BY <2>1, <1>1 DEF Thread
  <2>3. /\ Broadcast(s, "event") /\ Continue(s, FALSE, th, Pruned(s), Tail(inbox[s]))
        /\ UNCHANGED <<daemonVars, clientVars, writer>>
    BY <2>1, <1>3 DEF HandleShutdown
  <2> QED
    BY <2>2, <2>3, <1>1, <1>2, BroadcastLoss
<1>4. CASE ~thread[s].busy
  <2>1. PICK y : y = Exited(s)
    OBVIOUS
  <2>2. PICK leave : leave = TRUE
    OBVIOUS
  <2>3. y = IF leave THEN Exited(s) ELSE <<>>
    BY <2>1, <2>2
  <2>4. /\ y \in Seq(Commands) /\ \A i \in 1 .. Len(y) : y[i].op = "SessionExited"
        /\ OneExit(y) /\ \A s1 : Exits(y, s1) => s1 = s
    BY <2>2, <2>3, ExitedOnce
  <2>5. /\ Continue(s, TRUE, thread[s], {}, <<>>) /\ daemonQ' = daemonQ \o y
        /\ UNCHANGED <<daemonVars, clientVars, writer, sink, owed>>
    BY <2>1, <1>4 DEF HandleShutdown
  <2>6. \A c \in Clients : Out(c) => Out(c)'
    BY <2>5 DEF Out
  <2>7. \A i \in 1 .. Len(y) : y[i].op # "AttachSession" /\ y[i].op # "TrackSessionSubscription"
    BY <2>4
  <2>8. Moves(s, TRUE, thread[s], {}, <<>>, y)
    BY <2>4, <2>5, <2>6, <2>7, <1>1, <1>2 DEF Moves
  <2>9. <<>> \in Seq(Parcels) /\ {} \in SUBSET Clients /\ TRUE \in BOOLEAN
    OBVIOUS
  <2> QED
    BY <2>4, <2>5, <2>7, <2>8, <2>9, <1>1, <1>2, MoveLoss
<1> QED
  BY <1>3, <1>4

\* The client c of the next command leaves the session.
Quits(s, c, R, leave, r) ==
    /\ NextCommand(s, "Detach") \/ NextCommand(s, "RemoveSubscriber")
    /\ c = Head(inbox[s]).client /\ R = subscribers[s] \ {c} /\ leave = LeavesWith(s, R)
    /\ OneExit(r) /\ \A s1 : Exits(r, s1) => leave /\ s1 = s
    /\ \A i \in 1 .. Len(r) : r[i].op \in {"SessionExited", "UntrackSessionSubscription"}
    /\ Continue(s, leave, thread[s], R, Tail(inbox[s])) /\ daemonQ' = daemonQ \o r
    /\ UNCHANGED <<daemonVars, clientVars, writer, sink, owed>>

LEMMA QuitLoss ==
    ASSUME Typed, LossIInv, NEW s \in Sessions, NEW c, NEW R, NEW leave, NEW r \in Seq(Commands),
           Quits(s, c, R, leave, r),
           s \notin Orphanable /\ ~Out(c) /\ c \in subscribers[s] =>
             ~TrackedAt(daemonQ', <<c, s>> \in tracked, c, s, Len(daemonQ') + 1)
    PROVE  LossIInv'
<1>1. /\ thread[s] \in Thread /\ Tail(inbox[s]) \in Seq(Parcels) /\ R \in SUBSET Clients
      /\ thread[s].up /\ leave \in BOOLEAN /\ inbox[s] # <<>> /\ Head(inbox[s]).op # "Attach"
  BY ThreadFacts DEF Quits, LeavesWith, Thread, NextCommand, Free
<1>2. thread[s].stop => s \in Orphanable
  BY DEF LossIInv, Threads, Living
<1>3. \A c1 \in Clients : Out(c1) => Out(c1)'
  BY DEF Quits, Out
<1>4. \A i \in 1 .. Len(r) : r[i].op # "AttachSession" /\ r[i].op # "TrackSessionSubscription"
  BY DEF Quits
<1>5. \A c1 \in R : c1 \in subscribers[s] /\ ~Is(Head(inbox[s]), "Detach", c1, s)
  BY DEF Quits, Is
<1>6. Moves(s, leave, thread[s], R, Tail(inbox[s]), r)
  BY <1>1, <1>2, <1>3, <1>4, <1>5 DEF Quits, Moves
<1>7. leave => R = {} \/ s \in Orphanable
  BY <1>2 DEF Quits, LeavesWith
<1>8. s \notin Orphanable => \A c1 \in Clients \ R : ~Out(c1) /\ c1 \in subscribers[s] =>
        ~TrackedAt(daemonQ', <<c1, s>> \in tracked, c1, s, Len(daemonQ') + 1)
  BY <1>1 DEF Quits
<1>9. UNCHANGED <<sink, owed>>
  BY DEF Quits
<1> QED
  BY <1>1, <1>4, <1>6, <1>7, <1>8, <1>9, MoveLoss

LEMMA HandleRemoveSubscriberLoss ==
    ASSUME Typed, LossIInv, NEW s \in Sessions, HandleRemoveSubscriber(s)
    PROVE  LossIInv'
<1>1. PICK c : c = Head(inbox[s]).client
  OBVIOUS
<1>2. PICK R : R = subscribers[s] \ {c}
  OBVIOUS
<1>3. PICK leave : leave = LeavesWith(s, R)
  OBVIOUS
<1>4. PICK y : y = IF leave THEN Exited(s) ELSE <<>>
  OBVIOUS
<1>5. /\ NextCommand(s, "RemoveSubscriber") /\ leave \in BOOLEAN /\ c \in Clients
      /\ inbox[s] \in Seq(Parcels) /\ inbox[s] # <<>> /\ Head(inbox[s]).op = "RemoveSubscriber"
  BY <1>1, <1>3, ThreadFacts DEF HandleRemoveSubscriber, LeavesWith, NextCommand
<1>6. /\ y \in Seq(Commands) /\ \A i \in 1 .. Len(y) : y[i].op = "SessionExited"
      /\ OneExit(y) /\ \A s1 : Exits(y, s1) => leave /\ s1 = s
  BY <1>4, <1>5, ExitedOnce
<1>7. /\ Continue(s, leave, thread[s], R, Tail(inbox[s])) /\ daemonQ' = daemonQ \o y
      /\ UNCHANGED <<daemonVars, clientVars, writer, sink, owed>>
  BY <1>1, <1>2, <1>3, <1>4 DEF HandleRemoveSubscriber
<1>8. c \in subscribers[s] => Out(c)
  <2>1. PICK box : box = inbox[s]
    OBVIOUS
  <2>2. box[1] = Head(box) /\ 1 \in 1 .. Len(box)
    BY <2>1, <1>5, Rest
  <2>3. By(box[1], "RemoveSubscriber", c)
    BY <2>1, <2>2, <1>1, <1>5 DEF By
  <2>4. PICK sub : sub = (c \in subscribers[s])
    OBVIOUS
  <2>5. PICK out : out = Out(c)
    OBVIOUS
  <2>6. Subscription(c, s, box, sub, attached[c], thread[s].gen, conn[c], out)
    BY <2>1, <2>4, <2>5, <1>5 DEF LossIInv, Subscriptions
  <2>7. ~out => ~SubAt(box, sub, c, s, 1)
    BY <2>2, <2>3, <2>6 DEF Subscription
  <2>8. sub => SubAt(box, sub, c, s, 1)
    <3>1. 1 .. 1 - 1 = {}
      OBVIOUS
    <3> QED
      BY <3>1 DEF SubAt, Latest
  <2> QED
    BY <2>4, <2>5, <2>7, <2>8
<1>9. \A i \in 1 .. Len(y) : y[i].op \in {"SessionExited", "UntrackSessionSubscription"}
  BY <1>6
<1>10. Quits(s, c, R, leave, y)
  BY <1>1, <1>2, <1>3, <1>5, <1>6, <1>7, <1>9 DEF Quits
<1> QED
  BY <1>6, <1>8, <1>10, QuitLoss

LEMMA HandleDetachLoss ==
    ASSUME Typed, LossIInv, NEW s \in Sessions, HandleDetach(s)
    PROVE  LossIInv'
<1>1. PICK c : c = Head(inbox[s]).client
  OBVIOUS
<1>2. PICK R : R = subscribers[s] \ {c}
  OBVIOUS
<1>3. PICK leave : leave = LeavesWith(s, R)
  OBVIOUS
<1>4. PICK m : m = Cmd("UntrackSessionSubscription", c, s, NoItem)
  OBVIOUS
<1>5. PICK y : y = IF leave THEN Exited(s) ELSE <<>>
  OBVIOUS
<1>6. PICK q : q = daemonQ
  OBVIOUS
<1>7. NextCommand(s, "Detach") /\ c \in Clients /\ leave \in BOOLEAN /\ q \in Seq(Commands)
  <2>1. q \in Seq(Commands)
    BY <1>6 DEF Typed
  <2> QED
    BY <2>1, <1>1, <1>3, ThreadFacts DEF HandleDetach, LeavesWith
<1>8. m \in Commands /\ Is(m, "UntrackSessionSubscription", c, s)
  BY <1>4, <1>7, CmdType DEF Cmd, Is, Books
<1>9. m.op \in Books \cup Buses /\ m.op = "UntrackSessionSubscription"
  BY <1>8 DEF Is, Books
<1>10. /\ y \in Seq(Commands) /\ \A i \in 1 .. Len(y) : y[i].op = "SessionExited"
       /\ OneExit(y) /\ \A s1 : Exits(y, s1) => leave /\ s1 = s
  BY <1>5, <1>7, ExitedOnce
<1>11. PICK r : r = <<m>> \o y
  OBVIOUS
<1>12. /\ r \in Seq(Commands) /\ <<m>> \in Seq(Commands)
       /\ OneExit(r) /\ \A s1 : Exits(r, s1) => Exits(y, s1)
       /\ \A i \in 1 .. Len(r) : r[i].op \in {m.op, "SessionExited"}
  BY <1>8, <1>9, <1>10, <1>11, OneMore
<1>13. daemonQ' = (q \o <<m>>) \o y
  BY <1>1, <1>2, <1>3, <1>4, <1>5, <1>6 DEF HandleDetach
<1>14. daemonQ' = daemonQ \o r
  <2>1. (q \o <<m>>) \o y = q \o (<<m>> \o y)
    BY <1>7, <1>10, <1>12, Regroup
  <2> QED
    BY <2>1, <1>6, <1>11, <1>13
<1>15. /\ Continue(s, leave, thread[s], R, Tail(inbox[s]))
       /\ UNCHANGED <<daemonVars, clientVars, writer, sink, owed>>
  BY <1>1, <1>2, <1>3 DEF HandleDetach
<1>16. ~TrackedAt(daemonQ', <<c, s>> \in tracked, c, s, Len(daemonQ') + 1)
  <2>1. PICK t : t = (<<c, s>> \in tracked)
    OBVIOUS
  <2>2. PICK z : z = q \o <<m>>
    OBVIOUS
  <2>3. z \in Seq(Commands)
    BY <2>2, <1>7, <1>12, Joined
  <2>4. ~TrackedAt(z, t, c, s, Len(z) + 1)
    <3>1. "TrackSessionSubscription" # "UntrackSessionSubscription"
      OBVIOUS
    <3> QED
      BY <2>2, <3>1, <1>7, <1>8, LatestOnOff DEF TrackedAt
  <2>5. \A i \in 1 .. Len(y) : ~Is(y[i], "TrackSessionSubscription", c, s)
    BY <1>10 DEF Is
  <2>6. ~TrackedAt(z \o y, t, c, s, Len(z \o y) + 1)
    BY <2>3, <2>4, <2>5, <1>10, TrackedJoin
  <2> QED
    BY <2>1, <2>2, <2>6, <1>13
<1>17. /\ \A i \in 1 .. Len(r) : r[i].op \in {"SessionExited", "UntrackSessionSubscription"}
       /\ \A s1 : Exits(r, s1) => leave /\ s1 = s
  BY <1>9, <1>10, <1>12
<1>18. Quits(s, c, R, leave, r)
  BY <1>1, <1>2, <1>3, <1>7, <1>12, <1>14, <1>15, <1>17 DEF Quits
<1> QED
  BY <1>12, <1>16, <1>18, QuitLoss

LEMMA HandleAttachLoss ==
    ASSUME Typed, LossIInv, NEW s \in Sessions, HandleAttach(s)
    PROVE  LossIInv'
<1>1. PICK c : c = Head(inbox[s]).client
  OBVIOUS
<1>2. PICK m : m = Cmd("TrackSessionSubscription", c, s, NoItem)
  OBVIOUS
<1>3. PICK x : x = Item("snapshot", s, emitted[s])
  OBVIOUS
<1>4. PICK R : R = subscribers[s] \cup {c}
  OBVIOUS
<1>5. PICK r : r = <<m>>
  OBVIOUS
<1>6. /\ thread[s] \in Thread /\ Tail(inbox[s]) \in Seq(Parcels) /\ inbox[s] \in Seq(Parcels)
      /\ thread[s].up /\ inbox[s] # <<>> /\ Head(inbox[s]).op = "Attach" /\ c \in Clients
      /\ R \in SUBSET Clients /\ emitted[s] \in Nat /\ daemonQ \in Seq(Commands)
  <2>1. daemonQ \in Seq(Commands)
    BY DEF Typed
  <2> QED
    BY <2>1, <1>1, <1>4, ThreadFacts DEF HandleAttach, NextCommand, Free
<1>7. /\ m \in Commands /\ Is(m, "TrackSessionSubscription", c, s)
      /\ x \in Items /\ x.kind = "snapshot"
  BY <1>2, <1>3, <1>6, CmdType DEF Cmd, Is, Books, Item
<1>8. /\ Continue(s, FALSE, thread[s], R, Tail(inbox[s]))
      /\ sink' = Enqueue(sink, {c}, x) /\ UNCHANGED <<daemonVars, clientVars, writer, owed>>
  BY <1>1, <1>3, <1>4 DEF HandleAttach
<1>9. daemonQ' = daemonQ \o r
  <2>1. daemonQ' = Append(daemonQ, m)
    BY <1>1, <1>2 DEF HandleAttach
  <2> QED
    BY <2>1, <1>5, <1>6, <1>7, Added
<1>10. /\ r \in Seq(Commands)
       /\ \A i \in 1 .. Len(r) : r[i] = m /\ r[i].op = "TrackSessionSubscription"
  BY <1>5, <1>7 DEF Is
<1>11. \A i \in 1 .. Len(r) : r[i].op # "SessionExited" /\ r[i].op # "AttachSession"
  BY <1>10
<1>12. OneExit(r) /\ \A s1 : ~Exits(r, s1)
  BY <1>11, NoExits
<1>13. /\ \A c1 \in Clients : Out(c1) <=> Out(c1)'
       /\ \A c1 \in Clients : \A s1, n : Has(sink[c1], s1, n) => Has(sink'[c1], s1, n)
  BY <1>7, <1>8, SentMore
<1>14. thread[s].stop => s \in Orphanable
  BY DEF LossIInv, Threads, Living
<1>15. Head(inbox[s]).session = s
  <2>1. Head(inbox[s]) = inbox[s][1] /\ 1 \in 1 .. Len(inbox[s])
    BY <1>6, Rest
  <2> QED
    BY <2>1, <1>6 DEF LossIInv, Threads, Living
<1>16. \A c1 \in R : \/ Is(Head(inbox[s]), "Attach", c1, s)
                     \/ c1 \in subscribers[s] /\ ~Is(Head(inbox[s]), "Detach", c1, s)
  BY <1>1, <1>4, <1>6, <1>15 DEF Is
<1>17. Moves(s, FALSE, thread[s], R, Tail(inbox[s]), r)
  BY <1>6, <1>8, <1>9, <1>11, <1>12, <1>13, <1>14, <1>16 DEF Moves
<1>18. Threads' /\ Waits' /\ Subscriptions'
  BY <1>6, <1>10, <1>17, MoveKeeps
<1>19. UNCHANGED <<tracked, activity>>
  BY <1>8 DEF daemonVars
<1>20. Untracked'
  <2>1. ASSUME NEW c1 \in Clients, NEW s1 \in Sessions \ Orphanable, ~Out(c1)',
               c1 \notin subscribers'[s1]
        PROVE  /\ c1 \notin subscribers[s1]
               /\ \A i \in 1 .. Len(r) : ~Is(r[i], "TrackSessionSubscription", c1, s1)
    <3>1. c1 \notin subscribers[s1] /\ (s1 = s => c1 # c)
      BY <2>1, <1>4, <1>8 DEF Typed, Continue
    <3> QED
      BY <3>1, <1>7, <1>10 DEF Is
  <2> QED
    BY <2>1, <1>9, <1>10, <1>13, <1>19, MoveUntracked DEF LossIInv
<1>21. Debts'
  <2>1. owed' = owed /\ owed \subseteq Clients \X Sessions \X Nat
    BY <1>8 DEF LossIInv, Debts
  <2>2. ASSUME NEW c1 \in Clients, NEW s1 \in Sessions, NEW n \in Nat, Owing(c1, s1, n)'
        PROVE  Debt(c1, s1, n, daemonQ', (<<c1, s1>> \in tracked)', (c1 \in activity)', sink'[c1])
    <3>1. PICK t : t = (<<c1, s1>> \in tracked)
      OBVIOUS
    <3>2. PICK act : act = (c1 \in activity)
      OBVIOUS
    <3>3. PICK log2 : log2 = sink'[c1]
      OBVIOUS
    <3>4. Owing(c1, s1, n)
      BY <2>1, <2>2, <1>13 DEF Owing
    <3>5. Debt(c1, s1, n, daemonQ, t, act, sink[c1])
      BY <3>1, <3>2, <3>4 DEF LossIInv, Debts
    <3>6. Has(sink[c1], s1, n) => Has(log2, s1, n)
      BY <3>3, <1>13
    <3>7. Debt(c1, s1, n, daemonQ \o r, t, act, log2)
      BY <3>5, <3>6, <1>6, <1>10, DebtJoin
    <3> QED
      BY <3>1, <3>2, <3>3, <3>7, <1>9, <1>19
  <2> QED
    BY <2>1, <2>2 DEF Debts
<1> QED
  BY <1>18, <1>20, <1>21 DEF LossIInv

LEMMA HandleInboxLoss ==
    ASSUME Typed, LossIInv, NEW s \in Sessions, HandleInbox(s)
    PROVE  LossIInv'
  BY ForwardStatusLoss, HandleAttachLoss, HandleDetachLoss, HandleRemoveSubscriberLoss,
     HandleShutdownLoss DEF HandleInbox

-----------------------------------------------------------------------------
(* The steps of the daemon's command loop: nothing is lost *)

\* A command is taken, and sessions are told to drop the clients E.
Told(s, E) ==
    \/ inbox'[s] = inbox[s]
    \/ /\ thread[s].up
       /\ \E r \in Seq(Parcels) :
             /\ inbox'[s] = inbox[s] \o r
             /\ \A i \in 1 .. Len(r) : /\ r[i].op = "RemoveSubscriber"
                                       /\ r[i].client \in E /\ r[i].session = s
Shorter ==
    /\ daemonQ # <<>> /\ daemonQ' = Tail(daemonQ) /\ UNCHANGED subscribers
    /\ \A c \in Clients : Out(c) => Out(c)'
Taken(E) ==
    /\ Shorter
    /\ UNCHANGED <<thread, conn, awaiting, attached>>
    /\ \A s \in Sessions : Told(s, E)
    /\ \A s \in Sessions : s \in active' <=> s \in active /\ ~Ends(Head(daemonQ), s)
    /\ \A c \in E : Out(c)' \/ conn[c] # "open"

LEMMA TakenThreads ==
    ASSUME Typed, Threads, NEW E, Taken(E)
    PROVE  Threads'
<1>1. daemonQ \in Seq(Commands) /\ daemonQ # <<>> /\ daemonQ' = Tail(daemonQ) /\ OneExit(daemonQ)
  BY DEF Typed, Taken, Shorter, Threads
<1>2. /\ OneExit(daemonQ')
      /\ \A s : Exits(daemonQ', s) => Exits(daemonQ, s)
      /\ \A s \in Sessions : Ends(Head(daemonQ), s) => ~Exits(daemonQ', s)
  BY <1>1, ExitsTail
<1>3. \A s \in Sessions : Ends(Head(daemonQ), s) => Exits(daemonQ, s)
  BY <1>1, Rest DEF Exits
<1>4. ASSUME NEW s \in Sessions
      PROVE  Living(s, thread'[s], s \in active', Exits(daemonQ', s), inbox'[s], subscribers'[s])
  <2>1. PICK act : act = (s \in active)
    OBVIOUS
  <2>2. PICK act2 : act2 = (s \in active')
    OBVIOUS
  <2>3. PICK ex : ex = Exits(daemonQ, s)
    OBVIOUS
  <2>4. PICK ex2 : ex2 = Exits(daemonQ', s)
    OBVIOUS
  <2>5. PICK box2 : box2 = inbox'[s]
    OBVIOUS
  <2>6. PICK ends : ends = Ends(Head(daemonQ), s)
    OBVIOUS
  <2>7. /\ Living(s, thread[s], act, ex, inbox[s], subscribers[s])
        /\ thread'[s] = thread[s] /\ subscribers'[s] = subscribers[s]
        /\ act2 <=> act /\ ~ends
    BY <2>1, <2>2, <2>3, <2>6 DEF Threads, Taken, Shorter
  <2>8. (ex2 => ex) /\ (ends => ex /\ ~ex2)
    BY <2>3, <2>4, <2>6, <1>2, <1>3
  <2>9. /\ ~thread[s].up => box2 = <<>>
        /\ \A i \in 1 .. Len(box2) : /\ box2[i].session = s
                                     /\ box2[i].op = "Shutdown" => s \in Orphanable
    <3>1. CASE box2 = inbox[s]
      BY <3>1, <2>7 DEF Living
    <3>2. CASE box2 # inbox[s]
      <4>1. PICK r \in Seq(Parcels) :
              /\ inbox'[s] = inbox[s] \o r
              /\ \A i \in 1 .. Len(r) : r[i].op = "RemoveSubscriber" /\ r[i].session = s
        BY <2>5, <3>2 DEF Taken, Shorter, Told
      <4>2. thread[s].up
        BY <2>5, <3>2 DEF Taken, Shorter, Told
      <4>3. inbox[s] \in Seq(Parcels)
        BY DEF Typed
      <4>4. \A i \in 1 .. Len(box2) : \/ i \in 1 .. Len(inbox[s]) /\ box2[i] = inbox[s][i]
                                      \/ \E j \in 1 .. Len(r) : box2[i] = r[j]
        BY <4>1, <4>3, <2>5, Joined, SMTT(30)
      <4> QED
        BY <4>1, <4>2, <4>4, <2>7 DEF Living
    <3> QED
      BY <3>1, <3>2
  <2>10. Living(s, thread[s], act2, ex2, box2, subscribers[s])
    BY <2>7, <2>8, <2>9 DEF Living
  <2> QED
    BY <2>2, <2>4, <2>5, <2>7, <2>10
<1> QED
  BY <1>2, <1>4 DEF Threads

LEMMA TakenWaits ==
    ASSUME Typed, Waits, NEW E, Taken(E)
    PROVE  Waits'
<1>1. daemonQ \in Seq(Commands) /\ daemonQ # <<>> /\ daemonQ' = Tail(daemonQ)
  BY DEF Typed, Taken, Shorter
<1>2. UNCHANGED <<thread, conn, awaiting, attached>>
  BY DEF Taken, Shorter
<1>3. Asked(daemonQ', awaiting)
  BY <1>1, AskedTail DEF Waits
<1> QED
  BY <1>2, <1>3 DEF Waits

LEMMA TakenSubscriptions ==
    ASSUME Typed, Subscriptions, NEW E, Taken(E)
    PROVE  Subscriptions'
<1> SUFFICES ASSUME NEW c \in Clients, NEW s \in Sessions
             PROVE  Subscription(c, s, inbox'[s], (c \in subscribers[s])', attached'[c],
                                 (thread'[s]).gen, conn'[c], Out(c)')
  BY DEF Subscriptions
<1>1. PICK out : out = Out(c)
  OBVIOUS
<1>2. PICK out2 : out2 = Out(c)'
  OBVIOUS
<1>3. PICK sub : sub = (c \in subscribers[s])
  OBVIOUS
<1>4. PICK box : box = inbox[s]
  OBVIOUS
<1>5. /\ Subscription(c, s, box, sub, attached[c], thread[s].gen, conn[c], out)
      /\ (c \in subscribers[s])' = sub /\ attached'[c] = attached[c] /\ conn'[c] = conn[c]
      /\ (thread'[s]).gen = thread[s].gen /\ (out => out2) /\ box \in Seq(Parcels)
      /\ c \in E => out2 \/ conn[c] # "open"
  BY <1>1, <1>2, <1>3, <1>4 DEF Subscriptions, Taken, Shorter, Typed
<1>6. CASE inbox'[s] = box
  <2>1. Subscription(c, s, box, sub, attached[c], thread[s].gen, conn[c], out2)
    BY <1>5, SubLess
  <2> QED
    BY <2>1, <1>2, <1>5, <1>6
<1>7. CASE inbox'[s] # box
  <2>1. PICK r \in Seq(Parcels) :
          /\ inbox'[s] = box \o r
          /\ \A i \in 1 .. Len(r) : r[i].op = "RemoveSubscriber" /\ r[i].client \in E
    BY <1>4, <1>7 DEF Taken, Shorter, Told
  <2>2. \A i \in 1 .. Len(r) : ~Is(r[i], "Attach", c, s)
    BY <2>1 DEF Is
  <2>3. \A i \in 1 .. Len(r) : By(r[i], "RemoveSubscriber", c) => out2 \/ conn[c] # "open"
    BY <2>1, <1>5 DEF By
  <2>4. Subscription(c, s, box \o r, sub, attached[c], thread[s].gen, conn[c], out2)
    BY <2>2, <2>3, <1>5, SubJoin
  <2> QED
    BY <2>1, <2>4, <1>2, <1>5
<1> QED
  BY <1>6, <1>7

\* Nothing is tracked that was not, except what the command says.
TracksLess ==
    \A c \in Clients, s \in Sessions : <<c, s>> \in tracked' =>
        \/ Is(Head(daemonQ), "TrackSessionSubscription", c, s)
        \/ <<c, s>> \in tracked /\ ~Is(Head(daemonQ), "UntrackSessionSubscription", c, s)

LEMMA TakenUntracked ==
    ASSUME Typed, Untracked, Shorter, TracksLess
    PROVE  Untracked'
<1>1. daemonQ \in Seq(Commands) /\ daemonQ # <<>> /\ daemonQ' = Tail(daemonQ)
  BY DEF Typed, Shorter
<1> SUFFICES ASSUME NEW c \in Clients, NEW s \in Sessions \ Orphanable,
                    ~Out(c)', c \notin subscribers'[s]
             PROVE  ~TrackedAt(daemonQ', (<<c, s>> \in tracked)', c, s, Len(daemonQ') + 1)
  BY DEF Untracked
<1>2. PICK t : t = (<<c, s>> \in tracked)
  OBVIOUS
<1>3. PICK t2 : t2 = (<<c, s>> \in tracked')
  OBVIOUS
<1>4. ~TrackedAt(daemonQ, t, c, s, Len(daemonQ) + 1)
  BY <1>2 DEF Untracked, Shorter
<1>5. t2 => Is(Head(daemonQ), "TrackSessionSubscription", c, s)
            \/ (t /\ ~Is(Head(daemonQ), "UntrackSessionSubscription", c, s))
  BY <1>2, <1>3 DEF TracksLess
<1>6. /\ \A i \in 1 .. Len(daemonQ) : TrackedAt(daemonQ', t2, c, s, i) => TrackedAt(daemonQ, t, c, s, i + 1)
      /\ Len(daemonQ') + 1 = Len(daemonQ) /\ Len(daemonQ) \in 1 .. Len(daemonQ)
  BY <1>1, <1>5, TrackedTail
<1>7. ~TrackedAt(daemonQ', t2, c, s, Len(daemonQ') + 1)
  BY <1>4, <1>6
<1> QED
  BY <1>3, <1>7

\* A client that something is owed to keeps its place, and gets what is sent.
KeepsOwed ==
    /\ owed' \subseteq owed
    /\ \A c \in Clients, s \in Sessions, n \in Nat : Owing(c, s, n)' =>
         /\ Owing(c, s, n) /\ ~Parts(Head(daemonQ), c)
         /\ c \in activity => c \in activity'
         /\ Has(sink[c], s, n) => Has(sink'[c], s, n)
         /\ On(Head(daemonQ), "BroadcastActivity", s, n) /\ c \in activity
              /\ <<c, s>> \notin tracked => Has(sink'[c], s, n)

LEMMA TakenDebts ==
    ASSUME Typed, Debts, Shorter, TracksLess, KeepsOwed
    PROVE  Debts'
<1>1. daemonQ \in Seq(Commands) /\ daemonQ # <<>> /\ daemonQ' = Tail(daemonQ)
  BY DEF Typed, Shorter
<1>2. owed' \subseteq Clients \X Sessions \X Nat
  BY DEF Debts, KeepsOwed
<1>3. ASSUME NEW c \in Clients, NEW s \in Sessions, NEW n \in Nat, Owing(c, s, n)'
      PROVE  Debt(c, s, n, daemonQ', (<<c, s>> \in tracked)', (c \in activity)', sink'[c])
  <2>1. PICK t : t = (<<c, s>> \in tracked)
    OBVIOUS
  <2>2. PICK t2 : t2 = (<<c, s>> \in tracked')
    OBVIOUS
  <2>3. PICK act : act = (c \in activity)
    OBVIOUS
  <2>4. PICK act2 : act2 = (c \in activity')
    OBVIOUS
  <2>5. PICK log2 : log2 = sink'[c]
    OBVIOUS
  <2>6. PICK q : q = daemonQ
    OBVIOUS
  <2>7. /\ Owing(c, s, n) /\ ~Parts(Head(q), c) /\ (act => act2)
        /\ Has(sink[c], s, n) => Has(log2, s, n)
        /\ On(Head(q), "BroadcastActivity", s, n) /\ act /\ ~t => Has(log2, s, n)
    BY <2>1, <2>3, <2>4, <2>5, <2>6, <1>3 DEF KeepsOwed
  <2>8. t2 => Is(Head(q), "TrackSessionSubscription", c, s)
              \/ (t /\ ~Is(Head(q), "UntrackSessionSubscription", c, s))
    BY <2>1, <2>2, <2>6 DEF TracksLess
  <2>9. Debt(c, s, n, q, t, act, sink[c])
    BY <2>1, <2>3, <2>6, <2>7 DEF Debts
  <2>10. Debt(c, s, n, Tail(q), t2, act2, log2)
    BY <2>6, <2>7, <2>8, <2>9, <1>1, DebtTail
  <2> QED
    BY <2>2, <2>4, <2>5, <2>6, <2>10, <1>1
<1> QED
  BY <1>2, <1>3 DEF Debts

LEMMA TakenLoss ==
    ASSUME Typed, LossIInv, NEW E, Taken(E), TracksLess, KeepsOwed
    PROVE  LossIInv'
  BY TakenThreads, TakenWaits, TakenSubscriptions, TakenUntracked, TakenDebts
  DEF LossIInv, Taken

\* The handlers that only keep the daemon's books
LEMMA BookTaken ==
    ASSUME Typed, LossIInv, NEW op, Dequeue(op), op # "BroadcastActivity", op # "SessionExited",
           UNCHANGED <<active, sessionVars, clientVars, writer, sink>>, TracksLess,
           \A c \in Clients : c \in activity /\ c \notin activity' =>
             By(Head(daemonQ), "UnregisterActivitySubscriber", c),
           owed' \subseteq owed,
           \A c \in Clients, s \in Sessions, n \in Nat :
             Parts(Head(daemonQ), c) => <<c, s, n>> \notin owed'
    PROVE  LossIInv'
<1>1. /\ daemonQ # <<>> /\ daemonQ' = Tail(daemonQ) /\ Head(daemonQ).op = op
      /\ UNCHANGED <<thread, subscribers, inbox, conn, awaiting, attached>>
  BY DEF Dequeue, sessionVars, clientVars
<1>2. \A c \in Clients : Out(c) <=> Out(c)'
  BY DEF Out
<1>3. Taken({})
  <2>1. \A s \in Sessions : Told(s, {}) /\ ~Ends(Head(daemonQ), s)
    BY <1>1 DEF Told, Ends
  <2> QED
    BY <2>1, <1>1, <1>2 DEF Taken, Shorter
<1>4. KeepsOwed
  <2>1. ASSUME NEW c \in Clients, NEW s \in Sessions, NEW n \in Nat, Owing(c, s, n)'
        PROVE  /\ Owing(c, s, n) /\ ~Parts(Head(daemonQ), c)
               /\ c \in activity => c \in activity'
               /\ Has(sink[c], s, n) => Has(sink'[c], s, n)
               /\ ~On(Head(daemonQ), "BroadcastActivity", s, n)
    <3>1. <<c, s, n>> \in owed' /\ Owing(c, s, n)
      BY <2>1, <1>2 DEF Owing
    <3>2. ~Parts(Head(daemonQ), c)
      BY <3>1
    <3>3. c \in activity => c \in activity'
      BY <3>2 DEF Parts
    <3> QED
      BY <3>1, <3>2, <3>3, <1>1 DEF On
  <2> QED
    BY <2>1 DEF KeepsOwed
<1> QED
  BY <1>3, <1>4, TakenLoss

LEMMA BooksLoss ==
    ASSUME Typed, LossIInv,
           \/ HandleTrack \/ HandleUntrack \/ HandleRegisterClientWriter
           \/ HandleRegisterActivity \/ HandleUnregisterActivity
           \/ HandleRegisterSummary \/ HandleUnregisterSummary
    PROVE  LossIInv'
<1>1. PICK op : op = Head(daemonQ).op
  OBVIOUS
<1>2. PICK c1 : c1 = Head(daemonQ).client
  OBVIOUS
<1>3. CASE HandleUnregisterActivity
  <2>1. /\ Dequeue(op) /\ op = "UnregisterActivitySubscriber"
        /\ activity' = activity \ {c1} /\ owed' = {o \in owed : o[1] \notin {c1}}
        /\ UNCHANGED <<active, tracked, sessionVars, clientVars, writer, sink>>
    BY <1>1, <1>2, <1>3 DEF HandleUnregisterActivity, Dequeue, Received, Forgive
  <2>2. TracksLess
    BY <2>1, <1>1 DEF TracksLess, Is
  <2>3. \A c \in Clients, s \in Sessions, n \in Nat :
          Parts(Head(daemonQ), c) => <<c, s, n>> \notin owed'
    BY <2>1, <1>1, <1>2 DEF Parts, By
  <2>4. \A c \in Clients : c \in activity /\ c \notin activity' =>
          By(Head(daemonQ), "UnregisterActivitySubscriber", c)
    BY <2>1, <1>1, <1>2 DEF By
  <2> QED
    BY <2>1, <2>2, <2>3, <2>4, BookTaken
<1>4. CASE HandleTrack \/ HandleUntrack
  <2>1. PICK s1 : s1 = Head(daemonQ).session
    OBVIOUS
  <2>2. /\ Dequeue(op) /\ op \in Books /\ op # "BroadcastActivity" /\ op # "SessionExited"
        /\ UNCHANGED <<active, activity, sessionVars, clientVars, writer, sink, owed>>
    BY <1>1, <1>4 DEF HandleTrack, HandleUntrack, Dequeue, Books
  <2>3. TracksLess
    <3>1. CASE HandleTrack
      <4>1. Head(daemonQ).op = "TrackSessionSubscription" /\ tracked' = tracked \cup {<<c1, s1>>}
        BY <2>1, <3>1, <1>2 DEF HandleTrack, Dequeue, Received
      <4> QED
        BY <4>1, <2>1, <1>2 DEF TracksLess, Is
    <3>2. CASE HandleUntrack
      <4>1. Head(daemonQ).op = "UntrackSessionSubscription" /\ tracked' = tracked \ {<<c1, s1>>}
        BY <2>1, <3>2, <1>2 DEF HandleUntrack, Dequeue, Received
      <4> QED
        BY <4>1, <2>1, <1>2 DEF TracksLess, Is
    <3> QED
      BY <3>1, <3>2, <1>4
  <2>4. \A c : ~Parts(Head(daemonQ), c)
    BY <2>2, <1>1 DEF Parts, By, Books
  <2> QED
    BY <2>2, <2>3, <2>4, BookTaken
<1>5. CASE \/ HandleRegisterClientWriter \/ HandleRegisterActivity
           \/ HandleRegisterSummary \/ HandleUnregisterSummary
  <2>1. /\ Dequeue(op) /\ op \in Enlists \cup {"UnregisterSummarySubscriber"}
        /\ op # "BroadcastActivity" /\ op # "SessionExited"
        /\ UNCHANGED <<active, tracked, sessionVars, clientVars, writer, sink, owed>>
        /\ \A c \in Clients : c \in activity => c \in activity'
    BY <1>1, <1>5 DEF HandleRegisterClientWriter, HandleRegisterActivity, HandleRegisterSummary,
                      HandleUnregisterSummary, Dequeue, Enlists
  <2>2. \A c, s : /\ ~Parts(Head(daemonQ), c)
                  /\ ~Is(Head(daemonQ), "UntrackSessionSubscription", c, s)
    BY <2>1, <1>1 DEF Parts, By, Is, Enlists
  <2>3. TracksLess
    BY <2>1, <2>2 DEF TracksLess
  <2> QED
    BY <2>1, <2>2, <2>3, BookTaken
<1> QED
  BY <1>3, <1>4, <1>5

\* What remove_client_from_sessions sends
LEMMA DropTold ==
    ASSUME Typed, NEW E \in SUBSET Clients, NEW A, NEW S, Drop(E, A, S), NEW s \in Sessions
    PROVE  Told(s, E)
<1>1. CASE s \in active /\ thread[s].up
  <2>1. PICK D : D = {d \in E : <<d, s>> \in tracked}
    OBVIOUS
  <2>2. PICK M : M = {Cmd("RemoveSubscriber", c, s, NoItem) : c \in D}
    OBVIOUS
  <2>3. D \in SUBSET Clients /\ D \subseteq E
    BY <2>1
  <2>4. PICK r : r = SetToSeq(M)
    OBVIOUS
  <2>5. r \in Seq(M)
    <3>1. SetToSeq({Cmd("RemoveSubscriber", c, s, NoItem) : c \in D})
            \in Seq({Cmd("RemoveSubscriber", c, s, NoItem) : c \in D})
      BY <2>3, InSomeOrder
    <3> QED
      BY <2>2, <2>4, <3>1
  <2>6. \A x \in M : x.op = "RemoveSubscriber" /\ x.client \in E /\ x.session = s
    BY <2>2, <2>3 DEF Cmd
  <2>7. \A x \in M : x \in Parcels
    BY <2>2, <2>3, CmdType
  <2>8. r \in Seq(Parcels) /\ \A i \in 1 .. Len(r) : r[i] \in M
    BY <2>5, <2>7
  <2>9. inbox'[s] = inbox[s] \o r
    BY <2>1, <2>2, <2>4, <1>1 DEF Drop
  <2> QED
    BY <2>6, <2>8, <2>9, <1>1 DEF Told
<1>2. CASE ~(s \in active /\ thread[s].up)
  BY <1>2 DEF Drop, Told
<1> QED
  BY <1>1, <1>2

\* The handlers that end in evictions: E are evicted after sk was sent.
LEMMA EvictLoss ==
    ASSUME Typed, LossIInv, NEW op \in Buses \cup Chores \cup {"SessionExited"}, Dequeue(op),
           NEW E \in SUBSET writers, NEW sk, Sent(sk), NEW A, NEW S, Evict(E, sk, A, S),
           UNCHANGED <<thread, subscribers, clientVars, writer>>,
           \A s \in Sessions : s \in active' <=> s \in active /\ ~Ends(Head(daemonQ), s),
           \A c \in activity : c \in A \/ writer[c] = "gone",
           op = "BroadcastActivity" => \A c \in activity :
             <<c, Head(daemonQ).session>> \notin tracked /\ writer[c] # "gone" =>
               Has(sk[c], Head(daemonQ).session, Head(daemonQ).msg.n)
    PROVE  LossIInv'
<1>1. /\ daemonQ # <<>> /\ daemonQ' = Tail(daemonQ) /\ Head(daemonQ).op = op
      /\ UNCHANGED <<conn, awaiting, attached>>
  BY DEF Dequeue, clientVars
<1>2. /\ sink' = Enqueue(sk, E, Item("evicted", None, 0)) /\ Drop(E, A, S)
      /\ activity' = A \ E /\ tracked' = {p \in tracked : p[1] \notin E}
      /\ owed' = {o \in owed : o[1] \notin E}
  BY DEF Evict, Drop, Forgive
<1>3. PICK x : x = Head(daemonQ).msg
  OBVIOUS
<1>4. x \in Items /\ sk \in [Clients -> Seq(Items)] /\ sink \in [Clients -> Seq(Items)]
  <2>1. Head(daemonQ) \in Commands
    BY <1>1, QueueHead
  <2> QED
    BY <2>1, <1>3, CommandFacts DEF Sent, Typed
<1>5. ASSUME NEW c \in Clients
      PROVE  /\ Noticed(sink[c]) => Noticed(sk[c])
             /\ \A s, n : Has(sink[c], s, n) => Has(sk[c], s, n)
  <2>1. CASE sk[c] = sink[c]
    BY <2>1
  <2>2. CASE sk[c] = sink[c] \o <<x>>
    <3>1. PICK log : log = sink[c]
      OBVIOUS
    <3>2. log \in Seq(Items)
      BY <3>1, <1>4
    <3>3. /\ \A s, n : Has(log \o <<x>>, s, n) <=> Has(log, s, n) \/ Ev(x, s, n)
          /\ Noticed(log \o <<x>>) <=> Noticed(log) \/ x.kind = "evicted"
      BY <3>2, <1>4, Got
    <3>4. PICK log2 : log2 = sk[c]
      OBVIOUS
    <3>5. log2 = log \o <<x>>
      BY <2>2, <3>1, <3>4
    <3>6. /\ \A s, n : Has(log, s, n) => Has(log2, s, n)
          /\ Noticed(log) => Noticed(log2)
      BY <3>3, <3>5
    <3> QED
      BY <3>1, <3>4, <3>6
  <2> QED
    BY <2>1, <2>2, <1>3 DEF Sent
<1>6. PICK v : v = Item("evicted", None, 0)
  OBVIOUS
<1>7. v \in Items /\ v.kind = "evicted"
  BY <1>6 DEF Item, Items
<1>8. ASSUME NEW c \in Clients
      PROVE  /\ c \in E => Out(c)'
             /\ c \notin E => sink'[c] = sk[c]
  <2>1. PICK s2 : s2 = Enqueue(sk, E, v)
    OBVIOUS
  <2>2. /\ c \in E /\ writer[c] = "run" => s2[c] = sk[c] \o <<v>>
        /\ c \notin E => s2[c] = sk[c]
    <3>1. sk \in [Clients -> Seq(Items)] /\ v \in Items
      BY <1>4, <1>7
    <3>2. /\ Enqueue(sk, E, v) \in [Clients -> Seq(Items)]
          /\ \A d \in Clients :
               /\ d \in E /\ writer[d] = "run" => Enqueue(sk, E, v)[d] = sk[d] \o <<v>>
               /\ d \notin E \/ writer[d] # "run" => Enqueue(sk, E, v)[d] = sk[d]
      BY <3>1, Enqueued
    <3> QED
      BY <2>1, <3>2
  <2>3. s2 = sink' /\ writer' = writer /\ writer[c] \in {"run", "gone"} /\ sk[c] \in Seq(Items)
    BY <2>1, <1>2, <1>4, <1>6 DEF Typed
  <2>4. Noticed(sk[c] \o <<v>>)
    BY <2>3, <1>7, Got
  <2>5. c \in E /\ writer[c] = "run" => Noticed(sink'[c])
    BY <2>2, <2>3, <2>4
  <2> QED
    BY <2>2, <2>3, <2>5 DEF Out
<1>9. E \in SUBSET Clients /\ activity \subseteq Clients
  BY DEF Typed
<1>10. \A c \in Clients : Out(c) => Out(c)'
  BY <1>5, <1>8 DEF Out
<1>11. Taken(E)
  <2>1. \A s \in Sessions : Told(s, E)
    BY <1>2, <1>9, DropTold
  <2>2. \A c \in E : Out(c)'
    BY <1>8, <1>9
  <2> QED
    BY <2>1, <2>2, <1>1, <1>10 DEF Taken, Shorter
<1>12. \A c, s : ~Parts(Head(daemonQ), c) /\ ~Is(Head(daemonQ), "UntrackSessionSubscription", c, s)
  BY <1>1 DEF Parts, By, Is, Buses, Chores
<1>13. TracksLess
  BY <1>2, <1>12 DEF TracksLess
<1>14. KeepsOwed
  <2>1. owed' \subseteq owed
    BY <1>2
  <2>2. ASSUME NEW c \in Clients, NEW s \in Sessions, NEW n \in Nat, Owing(c, s, n)'
        PROVE  /\ Owing(c, s, n) /\ ~Parts(Head(daemonQ), c)
               /\ c \in activity => c \in activity'
               /\ Has(sink[c], s, n) => Has(sink'[c], s, n)
               /\ On(Head(daemonQ), "BroadcastActivity", s, n) /\ c \in activity
                    /\ <<c, s>> \notin tracked => Has(sink'[c], s, n)
    <3>1. ~Out(c)' /\ ~Out(c) /\ c \notin E /\ sink'[c] = sk[c] /\ writer[c] # "gone"
      BY <2>2, <1>8, <1>10 DEF Owing, Out
    <3>2. Owing(c, s, n)
      BY <2>1, <2>2, <3>1 DEF Owing
    <3>3. c \in activity => c \in activity'
      BY <3>1, <1>2
    <3>4. Has(sink[c], s, n) => Has(sink'[c], s, n)
      BY <3>1, <1>5
    <3>5. On(Head(daemonQ), "BroadcastActivity", s, n) /\ c \in activity
            /\ <<c, s>> \notin tracked => Has(sink'[c], s, n)
      BY <3>1, <1>1 DEF On
    <3> QED
      BY <3>2, <3>3, <3>4, <3>5, <1>12
  <2> QED
    BY <2>1, <2>2 DEF KeepsOwed
<1> QED
  BY <1>11, <1>13, <1>14, TakenLoss

LEMMA EvictionsLoss ==
    ASSUME DeliveryIInv, LossIInv,
           \/ HandleBroadcastActivity \/ HandleBroadcastSessionStatus \/ HandleSessionExited
           \/ HandleEvictClient \/ HandleEvictLargestLagging
    PROVE  LossIInv'
<1>1. Typed
  BY DEF DeliveryIInv
<1>2. PICK sk : sk = sink
  OBVIOUS
<1>3. Sent(sk)
  BY <1>2, SentNothing
<1>4. /\ "SessionExited" \in Buses \cup Chores \cup {"SessionExited"}
      /\ "EvictClient" \in Buses \cup Chores \cup {"SessionExited"}
      /\ "EvictLargestLagging" \in Buses \cup Chores \cup {"SessionExited"}
      /\ "BroadcastActivity" \in Buses \cup Chores \cup {"SessionExited"}
      /\ "BroadcastSessionStatus" \in Buses \cup Chores \cup {"SessionExited"}
  BY DEF Chores, Buses
<1>5. \A c \in activity : c \in activity \/ writer[c] = "gone"
  OBVIOUS
<1>6. CASE HandleSessionExited
  <2>1. PICK R : R = activity \cup summary
    OBVIOUS
  <2>2. PICK E \in Victims(R) : Evict(E, sk, activity \ Gone(R), summary \ Gone(R))
    BY <2>1, <1>2, <1>6 DEF HandleSessionExited
  <2>3. /\ Dequeue("SessionExited") /\ UNCHANGED <<thread, subscribers, clientVars, writer>>
        /\ \A s \in Sessions : s \in active' <=> s \in active /\ ~Ends(Head(daemonQ), s)
    BY <1>6 DEF HandleSessionExited, Dequeue, Received, Ends
  <2>4. E \in SUBSET writers /\ \A c \in activity : c \in activity \ Gone(R) \/ writer[c] = "gone"
    BY <2>2 DEF Victims, Gone
  <2> QED
    BY <2>2, <2>3, <2>4, <1>1, <1>3, <1>4, EvictLoss
<1>7. CASE HandleEvictClient
  <2>1. PICK E : E = {Head(daemonQ).client} \cap writers
    OBVIOUS
  <2>2. /\ Dequeue("EvictClient") /\ Evict(E, sk, activity, summary)
        /\ UNCHANGED <<thread, subscribers, clientVars, writer>>
        /\ \A s \in Sessions : s \in active' <=> s \in active /\ ~Ends(Head(daemonQ), s)
    BY <2>1, <1>2, <1>7 DEF HandleEvictClient, Received, Dequeue, Ends
  <2>3. E \in SUBSET writers
    BY <2>1
  <2> QED
    BY <2>2, <2>3, <1>1, <1>3, <1>4, <1>5, EvictLoss
<1>8. CASE HandleEvictLargestLagging
  <2>1. PICK E \in {{}} \cup {{c} : c \in writers \cap Slow} : Evict(E, sk, activity, summary)
    BY <1>2, <1>8 DEF HandleEvictLargestLagging
  <2>2. /\ Dequeue("EvictLargestLagging")
        /\ UNCHANGED <<thread, subscribers, clientVars, writer>>
        /\ \A s \in Sessions : s \in active' <=> s \in active /\ ~Ends(Head(daemonQ), s)
    BY <1>8 DEF HandleEvictLargestLagging, Dequeue, Ends
  <2>3. E \in SUBSET writers
    BY <2>1
  <2> QED
    BY <2>1, <2>2, <2>3, <1>1, <1>3, <1>4, <1>5, EvictLoss
<1>9. CASE HandleBroadcastSessionStatus
  <2>1. PICK R : R = StatusRecipients(Head(daemonQ).session)
    OBVIOUS
  <2>2. PICK sk1 : sk1 = Enqueue(sink, R, Head(daemonQ).msg)
    OBVIOUS
  <2>3. PICK E \in Victims(R) : Evict(E, sk1, activity, summary \ Gone(R))
    BY <2>1, <2>2, <1>9 DEF HandleBroadcastSessionStatus, Received
  <2>4. /\ Dequeue("BroadcastSessionStatus") /\ daemonQ # <<>>
        /\ Head(daemonQ).op = "BroadcastSessionStatus"
        /\ UNCHANGED <<thread, subscribers, clientVars, writer>>
        /\ \A s \in Sessions : s \in active' <=> s \in active /\ ~Ends(Head(daemonQ), s)
    BY <1>9 DEF HandleBroadcastSessionStatus, Dequeue, Ends
  <2>5. R \in SUBSET Clients /\ \A c \in R : Listed(c) /\ <<c, Head(daemonQ).session>> \notin tracked
    BY <2>1, <1>1 DEF StatusRecipients, Listed, Typed
  <2>6. Sent(sk1)
    BY <2>2, <2>4, <2>5, SentToAll DEF Buses
  <2>7. E \in SUBSET writers
    BY <2>3 DEF Victims
  <2> QED
    BY <2>3, <2>4, <2>6, <2>7, <1>1, <1>4, <1>5, EvictLoss
<1>10. CASE HandleBroadcastActivity
  <2>1. PICK R : R = ActivityRecipients(Head(daemonQ).session)
    OBVIOUS
  <2>2. PICK sk1 : sk1 = Enqueue(sink, R, Head(daemonQ).msg)
    OBVIOUS
  <2>3. PICK E \in Victims(R) : Evict(E, sk1, activity \ Gone(R), summary)
    BY <2>1, <2>2, <1>10 DEF HandleBroadcastActivity, Received
  <2>4. /\ Dequeue("BroadcastActivity") /\ daemonQ # <<>> /\ Head(daemonQ).op = "BroadcastActivity"
        /\ UNCHANGED <<thread, subscribers, clientVars, writer>>
        /\ \A s \in Sessions : s \in active' <=> s \in active /\ ~Ends(Head(daemonQ), s)
    BY <1>10 DEF HandleBroadcastActivity, Dequeue, Ends
  <2>5. R \in SUBSET Clients /\ \A c \in R : Listed(c) /\ <<c, Head(daemonQ).session>> \notin tracked
    BY <2>1, <1>1 DEF ActivityRecipients, Listed, Typed
  <2>6. Sent(sk1)
    BY <2>2, <2>4, <2>5, SentToAll DEF Buses
  <2>7. E \in SUBSET writers
    BY <2>3 DEF Victims
  <2>8. \A c \in activity : c \in activity \ Gone(R) \/ writer[c] = "gone"
    BY DEF Gone
  <2>9. ASSUME NEW c \in activity, <<c, Head(daemonQ).session>> \notin tracked, writer[c] # "gone"
        PROVE  Has(sk1[c], Head(daemonQ).session, Head(daemonQ).msg.n)
    <3>1. PICK h : h = Head(daemonQ)
      OBVIOUS
    <3>2. PICK x : x = h.msg
      OBVIOUS
    <3>3. h \in Commands /\ h.op \in Buses
      BY <2>4, <3>1, <1>1, QueueHead DEF Buses
    <3>4. x \in Items /\ Ev(x, h.session, x.n)
      BY <3>2, <3>3, CommandFacts DEF Ev
    <3>5. /\ c \in Clients /\ c \in R /\ writer[c] = "run" /\ sink \in [Clients -> Seq(Items)]
      BY <2>1, <2>9, <1>1 DEF ActivityRecipients, Typed
    <3>6. \A d \in Clients :
            d \in R /\ writer[d] = "run" => Enqueue(sink, R, x)[d] = sink[d] \o <<x>>
      BY <3>4, <3>5, Enqueued
    <3>7. sk1[c] = sink[c] \o <<x>> /\ sink[c] \in Seq(Items)
      BY <2>2, <3>1, <3>2, <3>5, <3>6
    <3>8. Has(sink[c] \o <<x>>, h.session, x.n)
      BY <3>4, <3>7, Got
    <3> QED
      BY <3>1, <3>2, <3>7, <3>8
  <2> QED
    BY <2>3, <2>4, <2>6, <2>7, <2>8, <2>9, <1>1, <1>4, EvictLoss
<1> QED
  BY <1>6, <1>7, <1>8, <1>9, <1>10

LEMMA HandleClientDisconnectedLoss ==
    ASSUME DeliveryIInv, LossIInv, HandleClientDisconnected
    PROVE  LossIInv'
<1>1. Typed /\ Membership
  BY DEF DeliveryIInv
<1>2. PICK c1 : c1 = Head(daemonQ).client
  OBVIOUS
<1>3. /\ daemonQ # <<>> /\ daemonQ' = Tail(daemonQ) /\ Head(daemonQ).op = "ClientDisconnected"
      /\ UNCHANGED <<active, thread, subscribers, conn, awaiting, attached, writer, sink>>
      /\ Drop({c1}, activity, summary)
  BY <1>2 DEF HandleClientDisconnected, Dequeue, Received, clientVars
<1>4. /\ activity' = activity \ {c1} /\ tracked' = {p \in tracked : p[1] \notin {c1}}
      /\ owed' = {o \in owed : o[1] \notin {c1}}
  BY <1>3 DEF Drop, Forgive
<1>5. c1 \in Clients /\ conn[c1] = "closed"
  <2>1. Head(daemonQ) \in Commands /\ Head(daemonQ) = daemonQ[1] /\ 1 \in 1 .. Len(daemonQ)
    BY <1>1, <1>3, QueueHead
  <2>2. c1 \in Clients /\ By(daemonQ[1], "ClientDisconnected", c1)
    BY <2>1, <1>2, <1>3, CommandFacts DEF OfClient, By
  <2> QED
    BY <2>1, <2>2, <1>1 DEF Membership, Member
<1>6. \A c \in Clients : Out(c) <=> Out(c)'
  BY <1>3 DEF Out
<1>7. Taken({c1})
  <2>1. \A s \in Sessions : Told(s, {c1})
    BY <1>1, <1>3, <1>5, DropTold
  <2>2. \A s \in Sessions : ~Ends(Head(daemonQ), s)
    BY <1>3 DEF Ends
  <2> QED
    BY <2>1, <2>2, <1>3, <1>5, <1>6 DEF Taken, Shorter
<1>8. TracksLess
  BY <1>3, <1>4 DEF TracksLess, Is
<1>9. KeepsOwed
  <2>1. ASSUME NEW c \in Clients, NEW s \in Sessions, NEW n \in Nat, Owing(c, s, n)'
        PROVE  /\ Owing(c, s, n) /\ ~Parts(Head(daemonQ), c)
               /\ c \in activity => c \in activity'
               /\ Has(sink[c], s, n) => Has(sink'[c], s, n)
               /\ ~On(Head(daemonQ), "BroadcastActivity", s, n)
    <3>1. <<c, s, n>> \in owed' /\ Owing(c, s, n)
      BY <2>1, <1>4, <1>6 DEF Owing
    <3>2. c # c1
      BY <3>1, <1>4
    <3> QED
      BY <3>1, <3>2, <1>2, <1>3, <1>4 DEF Parts, By, On
  <2> QED
    BY <2>1, <1>4 DEF KeepsOwed
<1> QED
  BY <1>1, <1>7, <1>8, <1>9, TakenLoss

LEMMA HandleAttachSessionLoss ==
    ASSUME DeliveryIInv, LossIInv, HandleAttachSession
    PROVE  LossIInv'
<1>1. Typed
  BY DEF DeliveryIInv
<1>2. PICK c1 : c1 = Head(daemonQ).client
  OBVIOUS
<1>3. PICK s1 : s1 = Head(daemonQ).session
  OBVIOUS
<1>4. PICK g : g = IF s1 \in active THEN thread[s1].gen ELSE thread[s1].gen + 1
  OBVIOUS
<1>5. /\ daemonQ # <<>> /\ daemonQ' = Tail(daemonQ) /\ Head(daemonQ).op = "AttachSession"
      /\ active' = active \cup {s1}
      /\ thread' = [thread EXCEPT ![s1] = IF s1 \in active THEN @ ELSE Fresh(g)]
      /\ awaiting' = [awaiting EXCEPT ![c1] = [session |-> s1, gen |-> g]]
      /\ UNCHANGED <<activity, tracked, inbox, subscribers, conn, attached, writer, sink, owed>>
  BY <1>2, <1>3, <1>4 DEF HandleAttachSession, Dequeue, Received
<1>6. daemonQ \in Seq(Commands) /\ Head(daemonQ) = daemonQ[1] /\ 1 \in 1 .. Len(daemonQ)
  BY <1>1, <1>5, QueueHead
<1>7. c1 \in Clients /\ s1 \in Sessions /\ thread[s1] \in Thread /\ thread[s1].gen \in Nat /\ g \in Nat
  <2>1. c1 \in Clients /\ s1 \in Sessions
    <3>1. Head(daemonQ) \in Commands
      BY <1>1, <1>5, QueueHead
    <3> QED
      BY <3>1, <1>2, <1>3, <1>5, CommandFacts DEF OfClient, OfSession
  <2>2. thread[s1] \in Thread /\ thread[s1].gen \in Nat
    BY <2>1, <1>1 DEF Typed, Thread
  <2> QED
    BY <2>1, <2>2, <1>4
<1>8. /\ \A s \in Sessions : s # s1 \/ s1 \in active => thread'[s] = thread[s]
      /\ s1 \notin active => thread'[s1] = Fresh(g)
      /\ (thread'[s1]).gen = g /\ thread[s1].gen <= g
      /\ \A s \in Sessions : \A k \in Nat : k <= thread[s].gen => k <= (thread'[s]).gen
  <2>1. /\ \A s \in Sessions : s # s1 \/ s1 \in active => thread'[s] = thread[s]
        /\ s1 \notin active => thread'[s1] = Fresh(g)
    BY <1>1, <1>5, <1>7 DEF Typed
  <2>2. (thread'[s1]).gen = g /\ thread[s1].gen <= g
    BY <2>1, <1>4, <1>7 DEF Fresh
  <2>3. ASSUME NEW s \in Sessions, NEW k \in Nat, k <= thread[s].gen
        PROVE  k <= (thread'[s]).gen
    BY <2>1, <2>2, <2>3, <1>7
  <2> QED
    BY <2>1, <2>2, <2>3
<1>9. \A c \in Clients : Out(c) <=> Out(c)'
  BY <1>5 DEF Out
<1>10. Shorter
  BY <1>5, <1>9 DEF Shorter
<1>11. TracksLess
  BY <1>5 DEF TracksLess, Is
<1>12. KeepsOwed
  BY <1>5, <1>9 DEF KeepsOwed, Owing, Parts, By, On
<1>13. Untracked' /\ Debts'
  BY <1>1, <1>10, <1>11, <1>12, TakenUntracked, TakenDebts DEF LossIInv
<1>14. Threads'
  <2>1. OneExit(daemonQ)
    BY DEF LossIInv, Threads
  <2>2. OneExit(daemonQ') /\ \A s : Exits(daemonQ', s) => Exits(daemonQ, s)
    BY <2>1, <1>5, <1>6, ExitsTail
  <2>3. ASSUME NEW s \in Sessions
        PROVE  Living(s, thread'[s], s \in active', Exits(daemonQ', s), inbox'[s], subscribers'[s])
    <3>1. PICK act : act = (s \in active)
      OBVIOUS
    <3>2. PICK act2 : act2 = (s \in active')
      OBVIOUS
    <3>3. PICK ex : ex = Exits(daemonQ, s)
      OBVIOUS
    <3>4. PICK ex2 : ex2 = Exits(daemonQ', s)
      OBVIOUS
    <3>5. /\ Living(s, thread[s], act, ex, inbox[s], subscribers[s]) /\ (ex2 => ex)
          /\ act2 <=> act \/ s = s1
      BY <2>2, <3>1, <3>2, <3>3, <3>4, <1>5 DEF LossIInv, Threads
    <3>6. thread[s].up \in BOOLEAN
      BY <1>1 DEF Typed, Thread
    <3>7. CASE s # s1 \/ s1 \in active
      <4>1. act2 <=> act
        BY <3>1, <3>5, <3>7
      <4>2. Living(s, thread[s], act2, ex2, inbox[s], subscribers[s])
        BY <4>1, <3>5, <3>6 DEF Living
      <4> QED
        BY <4>2, <3>2, <3>4, <3>7, <1>5, <1>8
    <3>8. CASE s = s1 /\ s1 \notin active
      <4>1. PICK th : th = Fresh(g)
        OBVIOUS
      <4>2. th.up = TRUE /\ th.stop = FALSE
        BY <4>1 DEF Fresh
      <4>3. ~act /\ ~ex2 /\ act2
        BY <3>1, <3>5, <3>8 DEF Living
      <4>4. inbox[s] = <<>> /\ subscribers[s] = {}
        BY <4>3, <3>5, <3>6 DEF Living
      <4>5. Living(s, th, act2, ex2, inbox[s], subscribers[s])
        <5>1. Len(<<>>) = 0 /\ 1 .. 0 = {}
          OBVIOUS
        <5> QED
          BY <4>2, <4>3, <4>4, <5>1 DEF Living
      <4> QED
        BY <4>1, <4>5, <3>2, <3>4, <3>8, <1>5, <1>8
    <3> QED
      BY <3>7, <3>8
  <2> QED
    BY <2>2, <2>3 DEF Threads
<1>15. Subscriptions'
  <2> SUFFICES ASSUME NEW c \in Clients, NEW s \in Sessions
               PROVE  Subscription(c, s, inbox'[s], (c \in subscribers[s])', attached'[c],
                                   (thread'[s]).gen, conn'[c], Out(c)')
    BY DEF Subscriptions
  <2>1. PICK out : out = Out(c)
    OBVIOUS
  <2>2. PICK out2 : out2 = Out(c)'
    OBVIOUS
  <2>3. PICK sub : sub = (c \in subscribers[s])
    OBVIOUS
  <2>4. /\ Subscription(c, s, inbox[s], sub, attached[c], thread[s].gen, conn[c], out)
        /\ (c \in subscribers[s])' = sub /\ (out => out2)
    BY <2>1, <2>2, <2>3, <1>5, <1>9 DEF LossIInv, Subscriptions
  <2>5. CASE s # s1 \/ s1 \in active
    <3>1. Subscription(c, s, inbox[s], sub, attached[c], thread[s].gen, conn[c], out2)
      BY <2>4, SubLess
    <3> QED
      BY <2>2, <2>4, <2>5, <3>1, <1>5, <1>8
  <2>6. CASE s = s1 /\ s1 \notin active
    <3>1. inbox[s] = <<>> /\ subscribers[s] = {}
      <4>1. PICK ex : ex = Exits(daemonQ, s)
        OBVIOUS
      <4>2. PICK act : act = (s \in active)
        OBVIOUS
      <4>3. Living(s, thread[s], act, ex, inbox[s], subscribers[s]) /\ ~act
        BY <2>6, <4>1, <4>2 DEF LossIInv, Threads
      <4>4. thread[s].up \in BOOLEAN
        BY <1>1 DEF Typed, Thread
      <4> QED
        BY <4>3, <4>4 DEF Living
    <3>2. ~sub
      BY <2>3, <3>1
    <3>3. Subscription(c, s, <<>>, sub, attached'[c], (thread'[s]).gen, conn'[c], out2)
      BY <3>2, SubNone
    <3> QED
      BY <2>2, <2>4, <3>1, <3>3, <1>5
  <2> QED
    BY <2>5, <2>6
<1>16. Waits'
  <2>1. /\ Asked(daemonQ, awaiting)
        /\ \A c \in Clients : Newest(conn[c], awaiting[c], attached[c], thread)
    BY DEF LossIInv, Waits
  <2>2. awaiting[c1] = [session |-> s1, gen |-> 0]
    BY <2>1, <1>2, <1>3, <1>5, <1>6 DEF Asked
  <2>3. PICK u : u = daemonQ'
    OBVIOUS
  <2>4. Asked(u, awaiting) /\ \A i \in 1 .. Len(u) : u[i].op = "AttachSession" => u[i].client # c1
    BY <2>1, <2>3, <1>2, <1>5, <1>6, AskedTail
  <2>5. \A c \in Clients : c # c1 => awaiting'[c] = awaiting[c]
    BY <1>1, <1>5 DEF Typed
  <2>6. Asked(daemonQ', awaiting')
    <3>1. u \in Seq(Commands)
      BY <2>3, <1>5, <1>6, Rest
    <3>2. \A i \in 1 .. Len(u) : u[i].op = "AttachSession" => u[i].client \in Clients
      BY <3>1, CommandFacts DEF OfClient
    <3>3. PICK aw2 : aw2 = awaiting'
      OBVIOUS
    <3>4. Asked(u, aw2)
      BY <2>4, <2>5, <3>2, <3>3 DEF Asked
    <3> QED
      BY <2>3, <3>3, <3>4
  <2>7. ASSUME NEW c \in Clients
        PROVE  Newest(conn'[c], awaiting'[c], attached'[c], thread')
    <3>1. Newest(conn[c], awaiting[c], attached[c], thread)
      BY <2>1
    <3>2. attached[c].gen \in Nat /\ awaiting[c].gen \in Nat /\ attached[c].session \in Sessions \cup {None}
      BY <1>1 DEF Typed
    <3>3. CASE c # c1
      <4>1. awaiting'[c] = awaiting[c] /\ attached'[c] = attached[c] /\ conn'[c] = conn[c]
        BY <2>5, <3>3, <1>5
      <4> QED
        BY <3>1, <3>2, <4>1, <1>8 DEF Newest
    <3>4. CASE c = c1
      <4>1. PICK aw2 : aw2 = awaiting'[c]
        OBVIOUS
      <4>2. aw2.session = s1 /\ aw2.gen = g
        BY <3>4, <4>1, <1>1, <1>5, <1>7 DEF Typed
      <4>3. conn[c] = "open"
        <5>1. awaiting[c].session # None
          BY <2>2, <3>4, <1>7, DeliveryAssumption
        <5> QED
          BY <3>1, <5>1 DEF Newest, NoTx
      <4>4. attached[c].session \in Sessions => attached[c].gen <= (thread'[attached[c].session]).gen
        <5>1. attached[c].session \in Sessions => attached[c].gen <= thread[attached[c].session].gen
          BY <3>1 DEF Newest
        <5> QED
          BY <5>1, <3>2, <1>8
      <4>5. attached[c].session = s1 => attached[c].gen <= g
        BY <3>1, <3>2, <1>7, <1>8 DEF Newest
      <4>6. Newest(conn[c], aw2, attached[c], thread')
        BY <4>2, <4>3, <4>4, <4>5, <1>7, <1>8 DEF Newest
      <4> QED
        BY <4>1, <4>6, <1>5
    <3> QED
      BY <3>3, <3>4
  <2> QED
    BY <2>6, <2>7 DEF Waits
<1> QED
  BY <1>13, <1>14, <1>15, <1>16 DEF LossIInv

LEMMA HandleCommandLoss ==
    ASSUME DeliveryIInv, LossIInv, HandleCommand
    PROVE  LossIInv'
<1>1. Typed
  BY DEF DeliveryIInv
<1> QED
  BY <1>1, EvictionsLoss, BooksLoss, HandleClientDisconnectedLoss, HandleAttachSessionLoss
  DEF HandleCommand

-----------------------------------------------------------------------------
(* The steps of a client: nothing is lost *)

\* One more parcel for a session thread, or none
Posts(s, m) ==
    /\ thread[s].up /\ inbox'[s] = inbox[s] \o <<m>> /\ m \in Parcels
    /\ m.session = s /\ (m.op = "Shutdown" => s \in Orphanable)
Posted == \A s \in Sessions : inbox'[s] = inbox[s] \/ \E m : Posts(s, m)

LEMMA PostedThreads ==
    ASSUME Typed, Threads, Posted, UNCHANGED <<thread, subscribers, active>>, OneExit(daemonQ'),
           \A s \in Sessions : Exits(daemonQ', s) <=> Exits(daemonQ, s)
    PROVE  Threads'
<1>1. ASSUME NEW s \in Sessions
      PROVE  Living(s, thread'[s], s \in active', Exits(daemonQ', s), inbox'[s], subscribers'[s])
  <2>1. PICK act : act = (s \in active)
    OBVIOUS
  <2>2. PICK ex : ex = Exits(daemonQ, s)
    OBVIOUS
  <2>3. PICK ex2 : ex2 = Exits(daemonQ', s)
    OBVIOUS
  <2>4. PICK box2 : box2 = inbox'[s]
    OBVIOUS
  <2>5. Living(s, thread[s], act, ex, inbox[s], subscribers[s]) /\ (ex2 <=> ex)
    BY <2>1, <2>2, <2>3 DEF Threads
  <2>6. /\ ~thread[s].up => box2 = <<>>
        /\ \A i \in 1 .. Len(box2) : /\ box2[i].session = s
                                     /\ box2[i].op = "Shutdown" => s \in Orphanable
    <3>1. CASE box2 = inbox[s]
      BY <3>1, <2>5 DEF Living
    <3>2. CASE box2 # inbox[s]
      <4>1. PICK m : Posts(s, m)
        BY <2>4, <3>2 DEF Posted
      <4>2. PICK box : box = inbox[s]
        OBVIOUS
      <4>3. box \in Seq(Parcels) /\ m \in Parcels /\ box2 = box \o <<m>>
        BY <2>4, <4>1, <4>2 DEF Typed, Posts
      <4>4. \A i \in 1 .. Len(box2) : (i \in 1 .. Len(box) /\ box2[i] = box[i]) \/ box2[i] = m
        BY <4>3, Added
      <4> QED
        BY <4>1, <4>2, <4>4, <2>5 DEF Living, Posts
    <3> QED
      BY <3>1, <3>2
  <2>7. Living(s, thread[s], act, ex2, box2, subscribers[s])
    BY <2>5, <2>6 DEF Living
  <2> QED
    BY <2>1, <2>3, <2>4, <2>7
<1> QED
  BY <1>1 DEF Threads

LEMMA SubQuiet ==
    ASSUME NEW c, NEW s, NEW box, NEW sub, NEW at, NEW at2, NEW gen, NEW cn, NEW cn2, NEW out, NEW out2,
           Subscription(c, s, box, sub, at, gen, cn, out), out => out2,
           SubAt(box, sub, c, s, Len(box) + 1) => at2 = [session |-> s, gen |-> gen] /\ cn2 = "open"
    PROVE  Subscription(c, s, box, sub, at2, gen, cn2, out2)
  BY DEF Subscription

\* One more parcel; only an Attach may subscribe.
LEMMA SubPost ==
    ASSUME NEW c, NEW s, NEW box \in Seq(Parcels), NEW m \in Parcels, NEW sub, NEW at, NEW at2, NEW gen,
           NEW cn, NEW cn2, NEW out, NEW out2, Subscription(c, s, box, sub, at, gen, cn, out), out => out2,
           m.op # "RemoveSubscriber",
           \/ Is(m, "Detach", c, s)
           \/ at2 = [session |-> s, gen |-> gen] /\ cn2 = "open"
           \/ at2 = at /\ cn2 = cn /\ ~Is(m, "Attach", c, s)
    PROVE  Subscription(c, s, box \o <<m>>, sub, at2, gen, cn2, out2)
<1>1. PICK z : z = box \o <<m>>
  OBVIOUS
<1>2. /\ Len(z) = Len(box) + 1 /\ Len(box) \in Nat /\ z[Len(box) + 1] = m
      /\ \A i \in 1 .. Len(box) : z[i] = box[i]
      /\ \A i \in 1 .. Len(z) : i \in 1 .. Len(box) \/ i = Len(box) + 1
  BY <1>1, Added
<1>3. <<m>> \in Seq(Parcels) /\ \A i \in 1 .. Len(<<m>>) : <<m>>[i] = m
  OBVIOUS
<1>4. ASSUME NEW i \in 1 .. Len(z), By(z[i], "RemoveSubscriber", c), ~out2, SubAt(z, sub, c, s, i)
      PROVE  FALSE
  <2>1. i \in 1 .. Len(box) /\ By(box[i], "RemoveSubscriber", c)
    BY <1>2, <1>4 DEF By
  <2>2. i \in 1 .. Len(box) + 1
    BY <2>1, <1>2
  <2>3. SubAt(box, sub, c, s, i)
    BY <2>2, <1>1, <1>3, <1>4, LatestJoin DEF SubAt
  <2> QED
    BY <2>1, <2>3, <1>4 DEF Subscription
<1>5. SubAt(z, sub, c, s, Len(z) + 1) => at2 = [session |-> s, gen |-> gen] /\ cn2 = "open"
  <2>1. CASE Is(m, "Detach", c, s)
    <3>1. "Attach" # "Detach"
      OBVIOUS
    <3>2. ~SubAt(z, sub, c, s, Len(z) + 1)
      BY <2>1, <3>1, <1>1, LatestOnOff DEF SubAt
    <3> QED
      BY <3>2
  <2>2. CASE at2 = at /\ cn2 = cn /\ ~Is(m, "Attach", c, s)
    <3>1. \A i \in 1 .. Len(<<m>>) : ~Is(<<m>>[i], "Attach", c, s)
      BY <2>2, <1>3
    <3>2. Len(z) + 1 \in Len(box) + 1 .. Len(z) + 1
      BY <1>2
    <3>3. SubAt(z, sub, c, s, Len(z) + 1) => SubAt(box, sub, c, s, Len(box) + 1)
      BY <3>1, <3>2, <1>1, <1>3, LatestNoOn DEF SubAt
    <3> QED
      BY <2>2, <3>3 DEF Subscription
  <2> QED
    BY <2>1, <2>2
<1> QED
  BY <1>1, <1>4, <1>5 DEF Subscription

\* A subscription is held by a thread that runs.
LEMMA SubscribedUp ==
    ASSUME Typed, LossIInv, NEW c \in Clients, NEW s \in Sessions, NEW sub, sub = (c \in subscribers[s]),
           SubAt(inbox[s], sub, c, s, Len(inbox[s]) + 1)
    PROVE  /\ thread[s].up /\ attached[c] = [session |-> s, gen |-> thread[s].gen] /\ conn[c] = "open"
           /\ Reaches(attached[c], s)
<1>1. PICK out : out = Out(c)
  OBVIOUS
<1>2. Subscription(c, s, inbox[s], sub, attached[c], thread[s].gen, conn[c], out)
  BY <1>1 DEF LossIInv, Subscriptions
<1>3. attached[c] = [session |-> s, gen |-> thread[s].gen] /\ conn[c] = "open"
  BY <1>2 DEF Subscription
<1>4. ASSUME ~thread[s].up
      PROVE  FALSE
  <2>1. inbox[s] = <<>> /\ subscribers[s] = {}
    BY <1>4 DEF LossIInv, Threads, Living
  <2>2. ~sub
    BY <2>1
  <2>3. ~SubAt(<<>>, sub, c, s, 1)
    BY <2>2, SubNone
  <2>4. Len(<<>>) + 1 = 1
    OBVIOUS
  <2> QED
    BY <2>1, <2>3, <2>4
<1> QED
  BY <1>3, <1>4 DEF Reaches

\* Nothing new is in the daemon's queue that matters here.
LEMMA AskedLoss ==
    ASSUME Typed, LossIInv, NEW m \in Commands, daemonQ' = Append(daemonQ, m),
           m.op # "SessionExited", m.op # "TrackSessionSubscription",
           UNCHANGED <<daemonVars, thread, subscribers, writer, sink, owed>>, Posted
    PROVE  Threads' /\ Untracked' /\ Debts'
<1>1. PICK r : r = <<m>>
  OBVIOUS
<1>2. daemonQ \in Seq(Commands) /\ r \in Seq(Commands) /\ \A i \in 1 .. Len(r) : r[i] = m
  BY <1>1 DEF Typed
<1>3. daemonQ' = daemonQ \o r
  BY <1>1, <1>2, Added
<1>4. UNCHANGED <<active, tracked, activity>> /\ \A c \in Clients : Out(c) <=> Out(c)'
  BY DEF daemonVars, Out
<1>5. \A i \in 1 .. Len(r) : r[i].op # "SessionExited"
  BY <1>2
<1>6. OneExit(r) /\ \A s : ~Exits(r, s)
  BY <1>5, NoExits
<1>7. /\ OneExit(daemonQ')
      /\ \A s \in Sessions : Exits(daemonQ', s) <=> Exits(daemonQ, s)
  <2>1. OneExit(daemonQ)
    BY DEF LossIInv, Threads
  <2> QED
    BY <2>1, <1>2, <1>3, <1>6, ExitsJoin
<1>8. Threads'
  BY <1>4, <1>7, PostedThreads DEF LossIInv
<1>9. Untracked'
  <2>1. \A c, s : \A i \in 1 .. Len(r) : ~Is(r[i], "TrackSessionSubscription", c, s)
    BY <1>2 DEF Is
  <2> QED
    BY <2>1, <1>2, <1>3, <1>4, MoveUntracked DEF LossIInv
<1>10. Debts'
  BY <1>2, <1>3, <1>4, MoveDebts DEF LossIInv
<1> QED
  BY <1>8, <1>9, <1>10

\* Connect, Subscribe and AskAttach: a connection that asks the daemon
LEMMA AskLoss ==
    ASSUME Typed, LossIInv, NEW c1 \in Clients, NEW m \in Commands, m.client = c1,
           daemonQ' = Append(daemonQ, m), m.op # "SessionExited", m.op # "TrackSessionSubscription",
           UNCHANGED <<daemonVars, thread, inbox, subscribers, attached, writer, sink, owed>>,
           conn'[c1] = "open", \A c \in Clients : c # c1 => conn'[c] = conn[c],
           \/ m.op # "AttachSession" /\ awaiting' = awaiting
           \/ /\ m.op = "AttachSession" /\ awaiting[c1] = NoTx
              /\ awaiting' = [awaiting EXCEPT ![c1] = [session |-> m.session, gen |-> 0]]
    PROVE  LossIInv'
<1>1. Posted
  BY DEF Posted
<1>2. Threads' /\ Untracked' /\ Debts'
  BY <1>1, AskedLoss
<1>3. Subscriptions'
  <2> SUFFICES ASSUME NEW c \in Clients, NEW s \in Sessions
               PROVE  Subscription(c, s, inbox'[s], (c \in subscribers[s])', attached'[c],
                                   (thread'[s]).gen, conn'[c], Out(c)')
    BY DEF Subscriptions
  <2>1. PICK out : out = Out(c)
    OBVIOUS
  <2>2. PICK sub : sub = (c \in subscribers[s])
    OBVIOUS
  <2>3. PICK cn2 : cn2 = conn'[c]
    OBVIOUS
  <2>4. /\ Subscription(c, s, inbox[s], sub, attached[c], thread[s].gen, conn[c], out)
        /\ (c \in subscribers[s])' = sub /\ Out(c)' = out
    BY <2>1, <2>2 DEF LossIInv, Subscriptions, Out
  <2>5. conn[c] = "open" => cn2 = "open"
    BY <2>3
  <2>6. Subscription(c, s, inbox[s], sub, attached[c], thread[s].gen, cn2, out)
    BY <2>4, <2>5 DEF Subscription
  <2> QED
    BY <2>3, <2>4, <2>6
<1>4. /\ Asked(daemonQ, awaiting)
      /\ \A c \in Clients : Newest(conn[c], awaiting[c], attached[c], thread)
  BY DEF LossIInv, Waits
<1>5. PICK z : z = daemonQ'
  OBVIOUS
<1>6. daemonQ \in Seq(Commands)
  BY DEF Typed
<1>7. CASE m.op # "AttachSession" /\ awaiting' = awaiting
  <2>1. PICK r : r = <<m>>
    OBVIOUS
  <2>2. r \in Seq(Commands) /\ \A i \in 1 .. Len(r) : r[i].op # "AttachSession"
    BY <2>1, <1>7
  <2>3. Asked(daemonQ \o r, awaiting)
    BY <2>2, <1>4, <1>6, AskedJoin
  <2>4. daemonQ' = daemonQ \o r
    BY <2>1, <1>6, Added
  <2>5. \A c \in Clients : Newest(conn'[c], awaiting'[c], attached'[c], thread')
    BY <1>4, <1>7 DEF Newest
  <2> QED
    BY <2>3, <2>4, <2>5, <1>2, <1>3, <1>7 DEF Waits, LossIInv
<1>8. CASE /\ m.op = "AttachSession" /\ awaiting[c1] = NoTx
           /\ awaiting' = [awaiting EXCEPT ![c1] = [session |-> m.session, gen |-> 0]]
  <2>1. PICK aw2 : aw2 = awaiting'
    OBVIOUS
  <2>2. /\ aw2[c1] = [session |-> m.session, gen |-> 0]
        /\ \A c \in Clients : c # c1 => aw2[c] = awaiting[c]
    BY <2>1, <1>8 DEF Typed
  <2>3. \A i \in 1 .. Len(daemonQ) : daemonQ[i].op = "AttachSession" =>
          daemonQ[i].client \in Clients /\ daemonQ[i].client # c1
    <3> SUFFICES ASSUME NEW i \in 1 .. Len(daemonQ), daemonQ[i].op = "AttachSession"
                 PROVE  daemonQ[i].client \in Clients /\ daemonQ[i].client # c1
      OBVIOUS
    <3>1. daemonQ[i] \in Commands
      BY <1>6
    <3>2. daemonQ[i].client \in Clients /\ daemonQ[i].session \in Sessions
      BY <3>1, CommandFacts DEF OfClient, OfSession
    <3>3. awaiting[daemonQ[i].client].session = daemonQ[i].session
      <4>1. awaiting[daemonQ[i].client] = [session |-> daemonQ[i].session, gen |-> 0]
        BY <1>4 DEF Asked
      <4> QED
        BY <4>1
    <3>4. NoTx.session \notin Sessions
      BY DeliveryAssumption DEF NoTx
    <3> QED
      BY <3>2, <3>3, <3>4, <1>8
  <2>4. /\ Len(daemonQ) \in Nat
        /\ \A i \in 1 .. Len(z) : \/ i \in 1 .. Len(daemonQ) /\ z[i] = daemonQ[i]
                                  \/ i = Len(daemonQ) + 1 /\ z[i] = m
    BY <1>5, <1>6, Added
  <2>5. Asked(z, aw2)
    <3>1. ASSUME NEW i \in 1 .. Len(z), z[i].op = "AttachSession"
          PROVE  aw2[z[i].client] = [session |-> z[i].session, gen |-> 0]
      BY <2>2, <2>3, <2>4, <3>1, <1>4 DEF Asked
    <3>2. ASSUME NEW i \in 1 .. Len(z), NEW j \in 1 .. Len(z), z[i].op = "AttachSession",
                 z[j].op = "AttachSession", z[i].client = z[j].client
          PROVE  i = j
      BY <2>3, <2>4, <3>2, <1>4 DEF Asked
    <3> QED
      BY <3>1, <3>2 DEF Asked
  <2>6. ASSUME NEW c \in Clients
        PROVE  Newest(conn'[c], aw2[c], attached'[c], thread')
    <3>1. CASE c = c1
      <4>1. aw2[c].gen = 0
        BY <2>2, <3>1
      <4> QED
        BY <3>1, <4>1, <1>4 DEF Newest
    <3>2. CASE c # c1
      BY <2>2, <3>2, <1>4
    <3> QED
      BY <3>1, <3>2
  <2> QED
    BY <2>1, <2>5, <2>6, <1>2, <1>3, <1>5 DEF Waits, LossIInv
<1> QED
  BY <1>7, <1>8

LEMMA CleanupLoss ==
    ASSUME Typed, LossIInv, NEW c1 \in Clients, Cleanup(c1)
    PROVE  LossIInv'
<1>1. PICK m : m = Cmd("ClientDisconnected", c1, None, NoItem)
  OBVIOUS
<1>2. m \in Commands /\ m.op = "ClientDisconnected"
  BY <1>1, CmdType DEF Cmd
<1>3. /\ daemonQ' = Append(daemonQ, m) /\ awaiting[c1] = NoTx
      /\ conn' = [conn EXCEPT ![c1] = "closed"]
      /\ \A s \in Sessions : inbox'[s] = IF Reaches(attached[c1], s)
                                         THEN Append(inbox[s], Cmd("Detach", c1, s, NoItem))
                                         ELSE inbox[s]
      /\ UNCHANGED <<daemonVars, thread, subscribers, awaiting, attached, writer, sink, owed>>
  BY <1>1 DEF Cleanup, Ask, Ready
<1>4. ASSUME NEW s \in Sessions, Reaches(attached[c1], s)
      PROVE  /\ Posts(s, Cmd("Detach", c1, s, NoItem))
             /\ Is(Cmd("Detach", c1, s, NoItem), "Detach", c1, s)
  <2>1. PICK d : d = Cmd("Detach", c1, s, NoItem)
    OBVIOUS
  <2>2. d \in Parcels /\ d.op = "Detach" /\ d.client = c1 /\ d.session = s
    BY <2>1, CmdType DEF Cmd
  <2>3. inbox[s] \in Seq(Parcels)
    BY DEF Typed
  <2>4. inbox'[s] = inbox[s] \o <<d>>
    <3>1. inbox'[s] = Append(inbox[s], d)
      BY <2>1, <1>3, <1>4
    <3> QED
      BY <2>2, <2>3, <3>1, Added
  <2> QED
    BY <2>1, <2>2, <2>4, <1>4 DEF Posts, Reaches, Is
<1>5. Posted
  BY <1>3, <1>4 DEF Posted
<1>6. Threads' /\ Untracked' /\ Debts'
  BY <1>2, <1>3, <1>5, AskedLoss
<1>7. Waits'
  <2>1. /\ Asked(daemonQ, awaiting) /\ daemonQ \in Seq(Commands)
        /\ \A c \in Clients : Newest(conn[c], awaiting[c], attached[c], thread)
    BY DEF LossIInv, Waits, Typed
  <2>2. PICK r : r = <<m>>
    OBVIOUS
  <2>3. r \in Seq(Commands) /\ \A i \in 1 .. Len(r) : r[i].op # "AttachSession"
    BY <2>2, <1>2
  <2>4. Asked(daemonQ \o r, awaiting)
    BY <2>1, <2>3, AskedJoin
  <2>5. daemonQ' = daemonQ \o r
    BY <2>1, <2>2, <1>2, <1>3, Added
  <2>6. \A c \in Clients : c # c1 => conn'[c] = conn[c]
    BY <1>3 DEF Typed
  <2>7. \A c \in Clients : Newest(conn'[c], awaiting'[c], attached'[c], thread')
    BY <2>1, <2>6, <1>3 DEF Newest
  <2> QED
    BY <2>4, <2>5, <2>7, <1>3 DEF Waits
<1>8. Subscriptions'
  <2> SUFFICES ASSUME NEW c \in Clients, NEW s \in Sessions
               PROVE  Subscription(c, s, inbox'[s], (c \in subscribers[s])', attached'[c],
                                   (thread'[s]).gen, conn'[c], Out(c)')
    BY DEF Subscriptions
  <2>1. PICK out : out = Out(c)
    OBVIOUS
  <2>2. PICK sub : sub = (c \in subscribers[s])
    OBVIOUS
  <2>3. PICK cn2 : cn2 = conn'[c]
    OBVIOUS
  <2>4. PICK box : box = inbox[s]
    OBVIOUS
  <2>5. /\ Subscription(c, s, box, sub, attached[c], thread[s].gen, conn[c], out)
        /\ (c \in subscribers[s])' = sub /\ Out(c)' = out /\ box \in Seq(Parcels)
        /\ c # c1 => cn2 = conn[c]
        /\ UNCHANGED <<attached, thread>>
    BY <2>1, <2>2, <2>3, <2>4, <1>3 DEF LossIInv, Subscriptions, Out, Typed
  <2>6. CASE Reaches(attached[c1], s)
    <3>1. PICK d : d = Cmd("Detach", c1, s, NoItem)
      OBVIOUS
    <3>2. d \in Parcels /\ d.op = "Detach" /\ Is(d, "Detach", c1, s) /\ inbox'[s] = box \o <<d>>
      BY <2>4, <2>6, <3>1, <1>4 DEF Posts, Is
    <3>3. Is(d, "Detach", c, s) \/ (cn2 = conn[c] /\ ~Is(d, "Attach", c, s))
      BY <2>5, <3>2 DEF Is
    <3>4. Subscription(c, s, box \o <<d>>, sub, attached[c], thread[s].gen, cn2, out)
      BY <2>5, <3>2, <3>3, SubPost
    <3> QED
      BY <2>3, <2>5, <3>2, <3>4
  <2>7. CASE ~Reaches(attached[c1], s)
    <3>1. inbox'[s] = box
      BY <2>4, <2>7, <1>3
    <3>2. SubAt(box, sub, c, s, Len(box) + 1) => c # c1
      BY <2>2, <2>4, <2>7, SubscribedUp
    <3>3. Subscription(c, s, box, sub, attached[c], thread[s].gen, cn2, out)
      BY <2>5, <3>2 DEF Subscription
    <3> QED
      BY <2>3, <2>5, <3>1, <3>3
  <2> QED
    BY <2>6, <2>7
<1> QED
  BY <1>6, <1>7, <1>8 DEF LossIInv

\* What FinishAttach posts to the thread of s
LEMMA FinishAttachPosts ==
    ASSUME Typed, NEW c1 \in Clients, FinishAttach(c1), NEW s \in Sessions, NEW tx, tx = awaiting[c1],
           NEW d, d = Cmd("Detach", c1, s, NoItem), NEW a, a = Cmd("Attach", c1, s, NoItem)
    PROVE  /\ Is(d, "Detach", c1, s) /\ Is(a, "Attach", c1, s) /\ d \in Parcels /\ a \in Parcels
           /\ \/ Reaches(tx, s) /\ Posts(s, a)
              \/ ~Reaches(tx, s) /\ Detaches(c1, tx.session) /\ Reaches(attached[c1], s) /\ Posts(s, d)
              \/ ~Reaches(tx, s) /\ ~(Detaches(c1, tx.session) /\ Reaches(attached[c1], s))
                 /\ inbox'[s] = inbox[s]
<1>1. /\ d \in Parcels /\ a \in Parcels /\ d.session = s /\ a.session = s /\ d.op = "Detach"
      /\ a.op = "Attach" /\ d.client = c1 /\ a.client = c1
  BY CmdType DEF Cmd
<1>2. PICK x : x = IF Detaches(c1, tx.session) /\ Reaches(attached[c1], s) THEN <<d>> ELSE <<>>
  OBVIOUS
<1>3. PICK y : y = IF Reaches(tx, s) THEN <<a>> ELSE <<>>
  OBVIOUS
<1>4. inbox'[s] = (inbox[s] \o x) \o y
  BY <1>2, <1>3 DEF FinishAttach
<1>5. PICK box : box = inbox[s]
  OBVIOUS
<1>6. box \in Seq(Parcels) /\ <<d>> \in Seq(Parcels) /\ <<a>> \in Seq(Parcels)
  BY <1>1, <1>5 DEF Typed
<1>7. /\ box \o <<>> = box /\ box \o <<d>> \in Seq(Parcels)
      /\ (box \o <<d>>) \o <<>> = box \o <<d>>
  <2>1. box \o <<>> = box
    BY <1>6
  <2>2. box \o <<d>> \in Seq(Parcels)
    BY <1>6, Joined
  <2>3. \A z \in Seq(Parcels) : z \o <<>> = z
    OBVIOUS
  <2> QED
    BY <2>1, <2>2, <2>3
<1>8. Reaches(tx, s) => ~(Detaches(c1, tx.session) /\ Reaches(attached[c1], s))
  BY DEF Reaches, Detaches
<1>9. CASE Reaches(tx, s)
  <2>1. inbox'[s] = inbox[s] \o <<a>>
    BY <1>2, <1>3, <1>4, <1>5, <1>7, <1>8, <1>9
  <2> QED
    BY <2>1, <1>1, <1>9 DEF Posts, Reaches, Is
<1>10. CASE ~Reaches(tx, s) /\ Detaches(c1, tx.session) /\ Reaches(attached[c1], s)
  <2>1. inbox'[s] = inbox[s] \o <<d>>
    BY <1>2, <1>3, <1>4, <1>5, <1>7, <1>10
  <2>2. thread[s].up
    BY <1>10 DEF Reaches
  <2> QED
    BY <2>1, <2>2, <1>1, <1>10 DEF Posts, Is
<1>11. CASE ~Reaches(tx, s) /\ ~(Detaches(c1, tx.session) /\ Reaches(attached[c1], s))
  <2>1. inbox'[s] = inbox[s]
    BY <1>2, <1>3, <1>4, <1>5, <1>7, <1>11
  <2> QED
    BY <2>1, <1>1, <1>11 DEF Is
<1> QED
  BY <1>9, <1>10, <1>11

\* Steps that the daemon's queue and the sinks do not take part in
LEMMA AsideLoss ==
    ASSUME Typed, LossIInv, Posted, \A c \in Clients : Out(c) => Out(c)',
           UNCHANGED <<daemonQ, daemonVars, thread, subscribers, sink, owed>>
    PROVE  Threads' /\ Untracked' /\ Debts'
<1>1. UNCHANGED <<active, tracked, activity>>
  BY DEF daemonVars
<1>2. Threads'
  <2>1. OneExit(daemonQ') /\ \A s \in Sessions : Exits(daemonQ', s) <=> Exits(daemonQ, s)
    BY DEF LossIInv, Threads
  <2> QED
    BY <2>1, <1>1, PostedThreads DEF LossIInv
<1>3. Untracked'
  <2> SUFFICES ASSUME NEW c \in Clients, NEW s \in Sessions \ Orphanable,
                      ~Out(c)', c \notin subscribers'[s]
               PROVE  ~TrackedAt(daemonQ', (<<c, s>> \in tracked)', c, s, Len(daemonQ') + 1)
    BY DEF Untracked
  <2>1. PICK t : t = (<<c, s>> \in tracked)
    OBVIOUS
  <2>2. ~TrackedAt(daemonQ, t, c, s, Len(daemonQ) + 1)
    BY <2>1 DEF LossIInv, Untracked
  <2> QED
    BY <2>1, <2>2, <1>1
<1>4. Debts'
  <2>1. owed' \subseteq Clients \X Sessions \X Nat
    BY DEF LossIInv, Debts
  <2>2. ASSUME NEW c \in Clients, NEW s \in Sessions, NEW n \in Nat, Owing(c, s, n)'
        PROVE  Debt(c, s, n, daemonQ', (<<c, s>> \in tracked)', (c \in activity)', sink'[c])
    <3>1. PICK t : t = (<<c, s>> \in tracked)
      OBVIOUS
    <3>2. PICK act : act = (c \in activity)
      OBVIOUS
    <3>3. Owing(c, s, n)
      BY <2>2 DEF Owing
    <3>4. Debt(c, s, n, daemonQ, t, act, sink[c])
      BY <3>1, <3>2, <3>3 DEF LossIInv, Debts
    <3> QED
      BY <3>1, <3>2, <3>4, <1>1
  <2> QED
    BY <2>1, <2>2 DEF Debts
<1> QED
  BY <1>2, <1>3, <1>4

LEMMA FinishAttachLoss ==
    ASSUME Typed, LossIInv, NEW c1 \in Clients, FinishAttach(c1)
    PROVE  LossIInv'
<1>1. PICK tx : tx = awaiting[c1]
  OBVIOUS
<1>2. /\ tx.gen # 0 /\ attached' = [attached EXCEPT ![c1] = tx]
      /\ awaiting' = [awaiting EXCEPT ![c1] = NoTx]
      /\ UNCHANGED <<daemonQ, daemonVars, thread, subscribers, conn, writer, sink, owed>>
  BY <1>1 DEF FinishAttach
<1>3. /\ Asked(daemonQ, awaiting) /\ daemonQ \in Seq(Commands)
      /\ \A c \in Clients : Newest(conn[c], awaiting[c], attached[c], thread)
  BY DEF LossIInv, Waits, Typed
<1>4. /\ tx.session \in Sessions /\ tx.gen \in Nat /\ tx.gen <= thread[tx.session].gen
      /\ conn[c1] = "open" /\ tx = [session |-> tx.session, gen |-> tx.gen]
  <2>1. Newest(conn[c1], tx, attached[c1], thread) /\ tx \in [session : Sessions \cup {None}, gen : Nat]
    BY <1>1, <1>3 DEF Typed
  <2>2. NoTx.gen = 0
    BY DEF NoTx
  <2> QED
    BY <2>1, <2>2, <1>2 DEF Newest
<1>5. Posted
  <2> SUFFICES ASSUME NEW s \in Sessions
               PROVE  inbox'[s] = inbox[s] \/ \E m : Posts(s, m)
    BY DEF Posted
  <2>1. PICK d : d = Cmd("Detach", c1, s, NoItem)
    OBVIOUS
  <2>2. PICK a : a = Cmd("Attach", c1, s, NoItem)
    OBVIOUS
  <2> QED
    BY <2>1, <2>2, <1>1, FinishAttachPosts
<1>6. \A c \in Clients : Out(c) <=> Out(c)'
  BY <1>2 DEF Out
<1>7. Threads' /\ Untracked' /\ Debts'
  BY <1>2, <1>5, <1>6, AsideLoss
<1>8. Waits'
  <2>1. PICK aw2 : aw2 = awaiting'
    OBVIOUS
  <2>2. /\ aw2[c1] = NoTx /\ \A c \in Clients : c # c1 => aw2[c] = awaiting[c]
        /\ attached'[c1] = tx /\ \A c \in Clients : c # c1 => attached'[c] = attached[c]
    BY <2>1, <1>2 DEF Typed
  <2>3. \A i \in 1 .. Len(daemonQ) : daemonQ[i].op = "AttachSession" =>
          daemonQ[i].client \in Clients /\ daemonQ[i].client # c1
    <3> SUFFICES ASSUME NEW i \in 1 .. Len(daemonQ), daemonQ[i].op = "AttachSession"
                 PROVE  daemonQ[i].client \in Clients /\ daemonQ[i].client # c1
      OBVIOUS
    <3>1. daemonQ[i] \in Commands
      BY <1>3
    <3>2. daemonQ[i].client \in Clients
      BY <3>1, CommandFacts DEF OfClient
    <3>3. awaiting[daemonQ[i].client] = [session |-> daemonQ[i].session, gen |-> 0]
      BY <1>3 DEF Asked
    <3>4. awaiting[daemonQ[i].client].gen = 0
      BY <3>3
    <3> QED
      BY <3>2, <3>4, <1>1, <1>2
  <2>4. Asked(daemonQ, aw2)
    BY <2>2, <2>3, <1>3 DEF Asked
  <2>5. ASSUME NEW c \in Clients
        PROVE  Newest(conn[c], aw2[c], attached'[c], thread)
    <3>1. CASE c = c1
      <4>1. NoTx.gen = 0
        BY DEF NoTx
      <4> QED
        BY <2>2, <3>1, <4>1, <1>4 DEF Newest
    <3>2. CASE c # c1
      BY <2>2, <3>2, <1>3
    <3> QED
      BY <3>1, <3>2
  <2> QED
    BY <2>1, <2>4, <2>5, <1>2 DEF Waits
<1>9. Subscriptions'
  <2> SUFFICES ASSUME NEW c \in Clients, NEW s \in Sessions
               PROVE  Subscription(c, s, inbox'[s], (c \in subscribers[s])', attached'[c],
                                   (thread'[s]).gen, conn'[c], Out(c)')
    BY DEF Subscriptions
  <2>1. PICK out : out = Out(c)
    OBVIOUS
  <2>2. PICK sub : sub = (c \in subscribers[s])
    OBVIOUS
  <2>3. PICK at2 : at2 = attached'[c]
    OBVIOUS
  <2>4. PICK box : box = inbox[s]
    OBVIOUS
  <2>5. PICK d : d = Cmd("Detach", c1, s, NoItem)
    OBVIOUS
  <2>6. PICK a : a = Cmd("Attach", c1, s, NoItem)
    OBVIOUS
  <2>7. /\ Subscription(c, s, box, sub, attached[c], thread[s].gen, conn[c], out)
        /\ (c \in subscribers[s])' = sub /\ Out(c)' = out /\ box \in Seq(Parcels)
        /\ c # c1 => at2 = attached[c]
        /\ c = c1 => at2 = tx
        /\ UNCHANGED <<conn, thread>>
    BY <2>1, <2>2, <2>3, <2>4, <1>2 DEF LossIInv, Subscriptions, Out, Typed
  <2>8. /\ Is(d, "Detach", c1, s) /\ Is(a, "Attach", c1, s) /\ d \in Parcels /\ a \in Parcels
        /\ \/ Reaches(tx, s) /\ Posts(s, a)
           \/ ~Reaches(tx, s) /\ Detaches(c1, tx.session) /\ Reaches(attached[c1], s) /\ Posts(s, d)
           \/ ~Reaches(tx, s) /\ ~(Detaches(c1, tx.session) /\ Reaches(attached[c1], s))
              /\ inbox'[s] = inbox[s]
    BY <2>5, <2>6, <1>1, FinishAttachPosts
  <2>9. a.op = "Attach" /\ d.op = "Detach" /\ a.client = c1 /\ d.client = c1
    BY <2>8 DEF Is
  <2>10. CASE Reaches(tx, s) /\ Posts(s, a)
    <3>1. inbox'[s] = box \o <<a>>
      BY <2>4, <2>10 DEF Posts
    <3>2. tx = [session |-> s, gen |-> thread[s].gen]
      BY <2>10 DEF Reaches
    <3>3. \/ at2 = [session |-> s, gen |-> thread[s].gen] /\ conn[c] = "open"
          \/ at2 = attached[c] /\ ~Is(a, "Attach", c, s)
      BY <2>7, <2>9, <3>2, <1>4 DEF Is
    <3>4. Subscription(c, s, box \o <<a>>, sub, at2, thread[s].gen, conn[c], out)
      BY <2>7, <2>8, <2>9, <3>3, SubPost
    <3> QED
      BY <2>3, <2>7, <3>1, <3>4
  <2>11. CASE ~Reaches(tx, s) /\ Posts(s, d)
    <3>1. inbox'[s] = box \o <<d>>
      BY <2>4, <2>11 DEF Posts
    <3>2. \/ Is(d, "Detach", c, s)
          \/ at2 = attached[c] /\ ~Is(d, "Attach", c, s)
      BY <2>7, <2>8, <2>9 DEF Is
    <3>3. Subscription(c, s, box \o <<d>>, sub, at2, thread[s].gen, conn[c], out)
      BY <2>7, <2>8, <2>9, <3>2, SubPost
    <3> QED
      BY <2>3, <2>7, <3>1, <3>3
  <2>12. CASE /\ ~Reaches(tx, s) /\ ~(Detaches(c1, tx.session) /\ Reaches(attached[c1], s))
              /\ inbox'[s] = inbox[s]
    <3>1. ASSUME SubAt(box, sub, c, s, Len(box) + 1), c = c1
          PROVE  FALSE
      <4>1. /\ thread[s].up /\ attached[c1] = [session |-> s, gen |-> thread[s].gen]
            /\ Reaches(attached[c1], s)
        BY <2>2, <2>4, <3>1, SubscribedUp
      <4>2. attached[c1] # NoTx /\ attached[c1].session = s /\ attached[c1].gen = thread[s].gen
        BY <4>1, DeliveryAssumption DEF NoTx
      <4>3. tx.session = s
        BY <2>12, <4>1, <4>2 DEF Detaches
      <4>4. thread[s].gen <= tx.gen
        BY <4>2, <4>3, <1>1, <1>2, <1>3 DEF Newest
      <4>5. tx.gen = thread[s].gen
        <5>1. thread[s].gen \in Nat
          BY DEF Typed, Thread
        <5> QED
          BY <4>3, <4>4, <5>1, <1>4
      <4> QED
        BY <2>12, <4>1, <4>3, <4>5, <1>4 DEF Reaches
    <3>2. SubAt(box, sub, c, s, Len(box) + 1) =>
            at2 = [session |-> s, gen |-> thread[s].gen] /\ conn[c] = "open"
      BY <2>7, <3>1 DEF Subscription
    <3>3. Subscription(c, s, box, sub, at2, thread[s].gen, conn[c], out)
      BY <2>7, <3>2, SubQuiet
    <3> QED
      BY <2>3, <2>4, <2>7, <2>12, <3>3
  <2> QED
    BY <2>8, <2>10, <2>11, <2>12
<1> QED
  BY <1>7, <1>8, <1>9 DEF LossIInv

LEMMA WriterStopsLoss ==
    ASSUME Typed, LossIInv, NEW c1 \in Clients, WriterStops(c1)
    PROVE  LossIInv'
<1>1. /\ writer' = [writer EXCEPT ![c1] = "gone"]
      /\ UNCHANGED <<daemonQ, daemonVars, thread, inbox, subscribers, conn, awaiting, attached, sink, owed>>
  BY DEF WriterStops, sessionVars, clientVars
<1>2. \A c \in Clients : Out(c) => Out(c)'
  BY <1>1 DEF Out, Typed
<1>3. Threads' /\ Untracked' /\ Debts'
  BY <1>1, <1>2, AsideLoss DEF Posted
<1>4. Waits'
  BY <1>1 DEF LossIInv, Waits
<1>5. Subscriptions'
  <2> SUFFICES ASSUME NEW c \in Clients, NEW s \in Sessions
               PROVE  Subscription(c, s, inbox'[s], (c \in subscribers[s])', attached'[c],
                                   (thread'[s]).gen, conn'[c], Out(c)')
    BY DEF Subscriptions
  <2>1. PICK out : out = Out(c)
    OBVIOUS
  <2>2. PICK out2 : out2 = Out(c)'
    OBVIOUS
  <2>3. PICK sub : sub = (c \in subscribers[s])
    OBVIOUS
  <2>4. Subscription(c, s, inbox[s], sub, attached[c], thread[s].gen, conn[c], out)
    BY <2>1, <2>3 DEF LossIInv, Subscriptions
  <2>5. out => out2
    BY <2>1, <2>2, <1>2
  <2>6. Subscription(c, s, inbox[s], sub, attached[c], thread[s].gen, conn[c], out2)
    BY <2>4, <2>5, SubLess
  <2> QED
    BY <2>2, <2>3, <2>6, <1>1
<1> QED
  BY <1>3, <1>4, <1>5 DEF LossIInv

LEMMA ParentExitsLoss ==
    ASSUME Typed, LossIInv, NEW s1 \in Sessions, ParentExits(s1)
    PROVE  LossIInv'
<1>1. PICK m : m = Cmd("Shutdown", None, s1, NoItem)
  OBVIOUS
<1>2. m \in Parcels /\ m.op = "Shutdown" /\ m.session = s1
  BY <1>1, CmdType DEF Cmd
<1>3. /\ inbox' = [inbox EXCEPT ![s1] = Append(@, m)] /\ thread[s1].up /\ s1 \in Orphanable
      /\ UNCHANGED <<daemonQ, daemonVars, thread, subscribers, conn, awaiting, attached, writer, sink, owed>>
  BY <1>1 DEF ParentExits, clientVars
<1>4. /\ inbox[s1] \in Seq(Parcels) /\ inbox'[s1] = inbox[s1] \o <<m>>
      /\ \A s \in Sessions : s # s1 => inbox'[s] = inbox[s]
  <2>1. PICK box : box = inbox[s1]
    OBVIOUS
  <2>2. /\ box \in Seq(Parcels) /\ inbox'[s1] = Append(box, m)
        /\ \A s \in Sessions : s # s1 => inbox'[s] = inbox[s]
    BY <2>1, <1>3 DEF Typed
  <2>3. Append(box, m) = box \o <<m>>
    BY <2>2, <1>2, Added
  <2> QED
    BY <2>1, <2>2, <2>3
<1>5. Posts(s1, m)
  BY <1>2, <1>3, <1>4 DEF Posts
<1>6. Posted
  BY <1>4, <1>5 DEF Posted
<1>7. \A c \in Clients : Out(c) <=> Out(c)'
  BY <1>3 DEF Out
<1>8. Threads' /\ Untracked' /\ Debts'
  BY <1>3, <1>6, <1>7, AsideLoss
<1>9. Waits'
  BY <1>3 DEF LossIInv, Waits
<1>10. Subscriptions'
  <2> SUFFICES ASSUME NEW c \in Clients, NEW s \in Sessions
               PROVE  Subscription(c, s, inbox'[s], (c \in subscribers[s])', attached'[c],
                                   (thread'[s]).gen, conn'[c], Out(c)')
    BY DEF Subscriptions
  <2>1. PICK out : out = Out(c)
    OBVIOUS
  <2>2. PICK sub : sub = (c \in subscribers[s])
    OBVIOUS
  <2>3. Subscription(c, s, inbox[s], sub, attached[c], thread[s].gen, conn[c], out)
    BY <2>1, <2>2 DEF LossIInv, Subscriptions
  <2>4. (c \in subscribers[s])' = sub /\ Out(c)' = out
    BY <2>1, <2>2, <1>3 DEF Out
  <2>5. CASE s # s1
    BY <2>3, <2>4, <2>5, <1>3, <1>4
  <2>6. CASE s = s1
    <3>1. m.op # "RemoveSubscriber" /\ ~Is(m, "Attach", c, s)
      BY <1>2 DEF Is
    <3>2. inbox[s] \in Seq(Parcels) /\ inbox'[s] = inbox[s] \o <<m>>
      BY <2>6, <1>4
    <3>3. Subscription(c, s, inbox[s] \o <<m>>, sub, attached[c], thread[s].gen, conn[c], out)
      BY <2>3, <3>1, <3>2, <1>2, SubPost
    <3> QED
      BY <2>4, <3>2, <3>3, <1>3
  <2> QED
    BY <2>5, <2>6
<1> QED
  BY <1>8, <1>9, <1>10 DEF LossIInv

LEMMA ClientStepLoss ==
    ASSUME Typed, LossIInv, NEW c \in Clients, ClientStep(c)
    PROVE  LossIInv'
<1>1. conn \in [Clients -> {"new", "open", "closed"}]
  BY DEF Typed
<1>2. CASE Connect(c)
  <2>1. PICK m : m = Cmd("RegisterClientWriter", c, None, NoItem)
    OBVIOUS
  <2>2. m \in Commands /\ m.client = c /\ m.op = "RegisterClientWriter"
    BY <2>1, CmdType DEF Cmd, Enlists
  <2>3. /\ daemonQ' = Append(daemonQ, m) /\ conn' = [conn EXCEPT ![c] = "open"] /\ awaiting' = awaiting
        /\ UNCHANGED <<daemonVars, thread, inbox, subscribers, attached, writer, sink, owed>>
    BY <2>1, <1>2 DEF Connect, Ask, sessionVars
  <2>4. conn'[c] = "open" /\ \A c1 \in Clients : c1 # c => conn'[c1] = conn[c1]
    BY <2>3, <1>1
  <2> QED
    BY <2>2, <2>3, <2>4, AskLoss
<1>3. ASSUME NEW op \in Requests, Subscribe(c, op)
      PROVE  LossIInv'
  <2>1. PICK m : m = Cmd(op, c, None, NoItem)
    OBVIOUS
  <2>2. op \in Enlists \cup Unlists
    BY DeliveryAssumption DEF SubscriptionOps, Enlists, Unlists
  <2>3. m \in Commands /\ m.client = c /\ m.op = op
    BY <2>1, <2>2, CmdType DEF Cmd
  <2>4. /\ daemonQ' = Append(daemonQ, m) /\ conn' = conn /\ conn[c] = "open" /\ awaiting' = awaiting
        /\ UNCHANGED <<daemonVars, thread, inbox, subscribers, attached, writer, sink, owed>>
    BY <2>1, <1>3 DEF Subscribe, Ask, Ready, sessionVars
  <2>5. /\ m.op # "SessionExited" /\ m.op # "TrackSessionSubscription" /\ m.op # "AttachSession"
        /\ conn'[c] = "open" /\ \A c1 \in Clients : c1 # c => conn'[c1] = conn[c1]
    BY <2>2, <2>3, <2>4 DEF Enlists, Unlists
  <2> QED
    BY <2>3, <2>4, <2>5, AskLoss
<1>4. ASSUME NEW s \in Sessions, AskAttach(c, s)
      PROVE  LossIInv'
  <2>1. PICK m : m = Cmd("AttachSession", c, s, NoItem)
    OBVIOUS
  <2>2. m \in Commands /\ m.client = c /\ m.op = "AttachSession" /\ m.session = s
    BY <2>1, CmdType DEF Cmd
  <2>3. /\ daemonQ' = Append(daemonQ, m) /\ conn' = conn /\ conn[c] = "open" /\ awaiting[c] = NoTx
        /\ awaiting' = [awaiting EXCEPT ![c] = [session |-> m.session, gen |-> 0]]
        /\ UNCHANGED <<daemonVars, thread, inbox, subscribers, attached, writer, sink, owed>>
    BY <2>1, <2>2, <1>4 DEF AskAttach, Ask, Ready, sessionVars
  <2>4. conn'[c] = "open" /\ \A c1 \in Clients : c1 # c => conn'[c1] = conn[c1]
    BY <2>3
  <2> QED
    BY <2>2, <2>3, <2>4, AskLoss
<1> QED
  BY <1>2, <1>3, <1>4, FinishAttachLoss, CleanupLoss, WriterStopsLoss DEF ClientStep

-----------------------------------------------------------------------------
(* The invariant: nothing is lost *)

LEMMA LossInit ==
    ASSUME Init
    PROVE  LossIInv
<1>1. daemonQ = <<>> /\ Len(daemonQ) = 0 /\ \A i \in 1 .. Len(daemonQ) : FALSE
  BY DEF Init
<1>2. \A s \in Sessions : /\ thread[s].up = FALSE /\ thread[s].stop = FALSE /\ thread[s].gen = 0
                          /\ inbox[s] = <<>> /\ Len(inbox[s]) = 0 /\ \A i \in 1 .. Len(inbox[s]) : FALSE
                          /\ subscribers[s] = {}
  BY DEF Init, Fresh
<1>3. \A c \in Clients : conn[c] = "new" /\ awaiting[c] = NoTx /\ attached[c] = NoTx
  BY DEF Init
<1>4. Threads
  BY <1>1, <1>2 DEF Threads, OneExit, Exits, Living
<1>5. Waits
  <2>1. NoTx.gen = 0 /\ NoTx.session \notin Sessions
    BY DeliveryAssumption DEF NoTx
  <2> QED
    BY <2>1, <1>1, <1>3 DEF Waits, Asked, Newest
<1>6. Subscriptions
  <2> SUFFICES ASSUME NEW c \in Clients, NEW s \in Sessions
               PROVE  Subscription(c, s, inbox[s], c \in subscribers[s], attached[c], thread[s].gen,
                                   conn[c], Out(c))
    BY DEF Subscriptions
  <2>1. PICK out : out = Out(c)
    OBVIOUS
  <2>2. PICK sub : sub = (c \in subscribers[s])
    OBVIOUS
  <2>3. ~sub
    BY <2>2, <1>2
  <2>4. Subscription(c, s, <<>>, sub, attached[c], thread[s].gen, conn[c], out)
    BY <2>3, SubNone
  <2> QED
    BY <2>1, <2>2, <2>4, <1>2
<1>7. Untracked
  <2> SUFFICES ASSUME NEW c \in Clients, NEW s \in Sessions
               PROVE  ~TrackedAt(daemonQ, <<c, s>> \in tracked, c, s, Len(daemonQ) + 1)
    BY DEF Untracked
  <2>1. PICK t : t = (<<c, s>> \in tracked)
    OBVIOUS
  <2>2. ~t
    BY <2>1 DEF Init
  <2>3. Len(daemonQ) + 1 = 1 /\ 1 .. 1 - 1 = {}
    BY <1>1
  <2>4. ~TrackedAt(daemonQ, t, c, s, 1)
    BY <2>2, <2>3 DEF TrackedAt, Latest
  <2> QED
    BY <2>1, <2>3, <2>4
<1>8. Debts
  BY DEF Init, Debts, Owing
<1> QED
  BY <1>4, <1>5, <1>6, <1>7, <1>8 DEF LossIInv

LEMMA LossNext ==
    ASSUME DeliveryIInv, LossIInv, [Next]_vars
    PROVE  LossIInv'
<1>1. Typed
  BY DEF DeliveryIInv
<1>2. CASE Next
  BY <1>1, <1>2, HandleCommandLoss, SessionBroadcastsLoss, HandleInboxLoss, ParentExitsLoss,
     ClientStepLoss DEF Next
<1>3. CASE UNCHANGED vars
  <2>1. UNCHANGED <<daemonQ, daemonVars, thread, inbox, subscribers, conn, awaiting, attached, writer,
                    sink, owed>>
    BY <1>3 DEF vars, sessionVars, clientVars
  <2>2. \A c \in Clients : Out(c)' = Out(c)
    BY <2>1 DEF Out
  <2>3. Threads' /\ Untracked' /\ Debts'
    BY <1>1, <2>1, <2>2, AsideLoss DEF Posted
  <2>4. Waits' /\ Subscriptions'
    BY <2>1, <2>2 DEF LossIInv, Waits, Subscriptions
  <2> QED
    BY <2>3, <2>4 DEF LossIInv
<1> QED
  BY <1>2, <1>3

LEMMA NoneLost ==
    ASSUME Typed, LossIInv
    PROVE  NoLoss
<1> SUFFICES ASSUME NEW o \in owed, o[2] \notin Orphanable
             PROVE  ReachedOrForwarded(o)
  BY DEF NoLoss
<1>1. PICK c \in Clients, s \in Sessions, n \in Nat : o = <<c, s, n>>
  BY DEF LossIInv, Debts
<1>2. o[1] = c /\ o[2] = s /\ o[3] = n
  BY <1>1
<1>3. CASE Out(c)
  BY <1>2, <1>3 DEF ReachedOrForwarded, Out, Noticed, Evicted, Notices
<1>4. CASE ~Out(c)
  <2>1. PICK t : t = (<<c, s>> \in tracked)
    OBVIOUS
  <2>2. PICK act : act = (c \in activity)
    OBVIOUS
  <2>3. Owing(c, s, n)
    BY <1>1, <1>2, <1>4 DEF Owing
  <2>4. Debt(c, s, n, daemonQ, t, act, sink[c])
    BY <2>1, <2>2, <2>3 DEF LossIInv, Debts
  <2>5. CASE Has(sink[c], s, n)
    BY <1>2, <2>5 DEF ReachedOrForwarded, Has, Ev
  <2>6. ASSUME NEW i \in 1 .. Len(daemonQ), Comes(c, s, n, daemonQ, t, act, i)
        PROVE  ReachedOrForwarded(o)
    <3>1. daemonQ[i] \in Commands
      BY DEF Typed
    <3>2. daemonQ[i].op = "BroadcastActivity" /\ daemonQ[i].session = s /\ daemonQ[i].msg.n = n
      BY <2>6 DEF Comes, On
    <3>3. daemonQ[i].msg.session = s
      BY <3>1, <3>2 DEF Commands, Buses
    <3> QED
      BY <1>2, <3>2, <3>3 DEF ReachedOrForwarded, Forwarded
  <2> QED
    BY <2>4, <2>5, <2>6 DEF Debt
<1> QED
  BY <1>3, <1>4

-----------------------------------------------------------------------------
(* The theorems *)

LEMMA DeliveryInvariant == Spec => []DeliveryIInv
  BY DeliveryInit, DeliveryNext, PTL DEF Spec

LEMMA LossInvariant == Spec => [](DeliveryIInv /\ LossIInv)
<1>1. Init => DeliveryIInv /\ LossIInv
  BY DeliveryInit, LossInit
<1>2. DeliveryIInv /\ LossIInv /\ [Next]_vars => (DeliveryIInv /\ LossIInv)'
  BY DeliveryNext, LossNext
<1> QED
  BY <1>1, <1>2, PTL DEF Spec

\* No client reads an event twice: handle_broadcast_activity leaves out the
\* clients that client_subscribed_sessions says are attached, and the track and
\* untrack commands of handle_attach and handle_detach are in the daemon's queue
\* ahead of the events they are about, however attachments, subscriptions and
\* evictions interleave.
THEOREM NoEventReadTwice == Spec => []AtMostOnce
  BY DeliveryInvariant, NoneTwice, PTL

\* A client attached to a session has its last snapshot and, after it, every
\* later event exactly once: handle_attach subscribes and takes the snapshot in
\* one step of the session thread, and neither bus repeats what the thread sends.
THEOREM AttachedClientsSeeAll == Spec => []AttachedViewComplete
  BY DeliveryInvariant, WholeViews, PTL

\* "The daemon NEVER drops a broadcast message": an event that was broadcast while
\* a client was attached to its session, or subscribed to all activity, is in the
\* client's sink or still on the daemon's bus, unless the client unsubscribes, is
\* evicted or loses its writer; broadcast() of the session thread and
\* handle_broadcast_activity between them leave no subscriber out.
THEOREM NothingIsLost == Spec => []NoLoss
<1>1. DeliveryIInv /\ LossIInv => NoLoss
  BY NoneLost DEF DeliveryIInv
<1> QED
  BY <1>1, LossInvariant, PTL
=============================================================================
