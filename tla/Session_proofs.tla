--------------------------- MODULE Session_proofs ---------------------------
(***************************************************************************)
(* Proofs about the connections and the session: a subscription that has   *)
(* not lagged is in sync, at the server and, over the wire, in the browser *)
(* (modules Connection and Session), for every number of connections,      *)
(* families, routes and messages.                                          *)
(***************************************************************************)
EXTENDS Session

-----------------------------------------------------------------------------
\* The inductive invariant of the connections.

\* The connections that have been let in by a router that is built.
Served(c) == state[c] \in {"Synchronizing", "Sending", "Active"}

\* Where the message in progress and the receivers are, what a chunk is for.
PlaceInv ==
  /\ IF current = <<>> THEN applied = 0 ELSE applied <= Len(current[1])
  /\ \A c \in Conns :
       /\ cursor[c] \in 1 .. Len(log) + 1
       /\ chunk[c] # <<>> => state[c] = "Active"
       /\ Served(c) => unseeded = {}

\* The updates of the message in progress the tries have would change nothing in
\* them if they were applied once more, unless the seed came in between.
AgainInv ==
  ~raced /\ current # <<>> => Replay(table, SubSeq(current[1], 1, applied)) = table

\* The routes the peer has, or is being sent.
Held(c) == IF state[c] = "Sending" THEN snapshot[c] ELSE view[c]

\* The messages make of the routes held what the updates r make of the tables t.
Makes(v, held, messages, t, r) ==
  Replay(Only(v, held), Flatten(messages))[v] = Replay(t, r)[v]

\* All that is behind these routes makes them what the tries will be.
Behind(c) ==
  /\ chunk[c] \in Seq(Messages)
  /\ Makes(version[c], Held(c), Backlog(c), table, Remaining)

BehindInv ==
  \A c \in Conns : intact[c] /\ state[c] \in {"Sending", "Active"} => Behind(c)

ConnInv == TypeOK /\ PlaceInv /\ AgainInv /\ BehindInv

\* The inductive invariant of the session adds the browser's.

Own(m) == m.kind = "TrieSnapshot" => m.version = Asked

\* As long as the socket is open: one request is made of a connection, and what
\* is on the wire makes the browser's routes those the server has sent it.
Attached ==
  \/ /\ browser = "Connected"
     /\ state[us] = "Idle" /\ inbox[us] = <<>> /\ wire = <<>>
  \/ /\ browser = "Synchronizing"
     /\ state[us] = "Idle" /\ inbox[us] = <<Asked>> /\ wire = <<>>
  \/ /\ browser = "Synchronizing"
     /\ state[us] \in {"Synchronizing", "Sending"}
     /\ version[us] = Asked /\ inbox[us] = <<>> /\ wire = <<>>
  \/ /\ browser \in {"Synchronizing", "Subscribed"}
     /\ state[us] = "Active"
     /\ version[us] = Asked /\ inbox[us] = <<>>
     /\ \A k \in 1 .. Len(wire) : Own(wire[k])
     /\ OnTheWire = <<view[us]>>

WireInv ==
  peer = "browser" /\ open[us] =>
    \/ browser \in {"Connecting", "Error", "Panicked"}
    \/ Attached

SessionInv == ConnInv /\ SessionTypeOK /\ WireInv

-----------------------------------------------------------------------------
\* The laws of the updates of a route table.

Tables == [Versions -> SUBSET Routes]

LEMMA UpdateType ==
  ASSUME NEW t \in Tables, NEW u \in Updates
  PROVE  Update(t, u) \in Tables
  BY DEF Update, Tables, Updates

\* An update touches its own family.
LEMMA UpdateLocal ==
  ASSUME NEW t \in Tables, NEW t2 \in Tables, NEW u \in Updates, NEW v \in Versions, t[v] = t2[v]
  PROVE  Update(t, u)[v] = Update(t2, u)[v]
  BY DEF Update, Tables, Updates

LEMMA UpdateOther ==
  ASSUME NEW t \in Tables, NEW u \in Updates, NEW v \in Versions, u \notin UpdatesOf(v)
  PROVE  Update(t, u)[v] = t[v]
  BY DEF Update, Tables, Updates, UpdatesOf

\* To apply an update twice is to apply it once.
LEMMA UpdateTwice ==
  ASSUME NEW t \in Tables, NEW u \in Updates
  PROVE  Update(Update(t, u), u) = Update(t, u)
  BY DEF Update, Tables, Updates

\* Tables that u makes the same differ about the route of u only, and other
\* updates leave it at that.
LEMMA UpdateSame ==
  ASSUME NEW t \in Tables, NEW t2 \in Tables, NEW u \in Updates, NEW w \in Updates,
         Update(t, u) = Update(t2, u)
  PROVE  Update(Update(t, w), u) = Update(Update(t2, w), u)
<1> DEFINE a == Update(Update(t, w), u)
           b == Update(Update(t2, w), u)
<1>1. a \in Tables /\ b \in Tables
  BY UpdateType
<1>2. ASSUME NEW v \in Versions, NEW r \in Routes
      PROVE  r \in a[v] <=> r \in b[v]
  <2>1. r \in Update(t, u)[v] <=> r \in Update(t2, u)[v]
    OBVIOUS
  <2> QED
    BY <2>1 DEF Update, Tables, Updates
<1> HIDE DEF a, b
<1>3. ASSUME NEW v \in Versions
      PROVE  a[v] = b[v]
  BY <1>1, <1>2 DEF Tables
<1>4. a = b
  BY <1>1, <1>3 DEF Tables
<1> QED
  BY <1>4 DEF a, b

\* g holds the tables Replay comes to after each update of s.
Replays(g, t, s) == g[0] = t /\ \A k \in 1 .. Len(s) : g[k] = Update(g[k - 1], s[k])

LEMMA ReplayUnfolds ==
  ASSUME NEW t \in Tables, NEW s \in Seq(Updates)
  PROVE  \E g \in [0 .. Len(s) -> Tables] : Replays(g, t, s) /\ Replay(t, s) = g[Len(s)]
<1> DEFINE F == [k \in 1 .. Len(s) |-> [x \in Tables |-> Update(x, s[k])]]
           UpTo(g) == [k \in 0 .. Len(s) |-> IF k = 0 THEN t ELSE Update(g[k - 1], s[k])]
<1>1. F \in [1 .. Len(s) -> [Tables -> Tables]]
  BY UpdateType
<1>2. PICK g \in [0 .. Len(s) -> Tables] :
        g[0] = t /\ \A k \in 1 .. Len(s) : g[k] = F[k][g[k - 1]]
  <2> DEFINE n == Len(s)
  <2>1. n \in Nat /\ F \in [1 .. n -> [Tables -> Tables]]
    BY <1>1
  <2> HIDE DEF F, n
  <2>2. \E g \in [0 .. n -> Tables] : Follows(g, n, t, F)
    BY <2>1, IntervalRecursion
  <2> QED
    BY <2>2 DEF Follows, n
<1>3. ASSUME NEW k \in 1 .. Len(s)
      PROVE  g[k] = Update(g[k - 1], s[k])
  <2>1. k - 1 \in 0 .. Len(s)
    OBVIOUS
  <2>2. g[k - 1] \in Tables
    BY <1>2, <2>1
  <2> QED
    BY <1>2, <2>2
<1>4. g = UpTo(g)
  <2>1. ASSUME NEW k \in 0 .. Len(s)
        PROVE  g[k] = IF k = 0 THEN t ELSE Update(g[k - 1], s[k])
    <3>1. CASE k = 0
      BY <1>2, <3>1
    <3>2. CASE k # 0
      <4>1. k \in 1 .. Len(s)
        BY <3>2
      <4> QED
        BY <1>3, <3>2, <4>1
    <3> QED
      BY <3>1, <3>2
  <2> QED
    BY <1>2, <2>1
<1> DEFINE c == CHOOSE f : f = UpTo(f)
<1>5. c = UpTo(c)
  <2> HIDE DEF UpTo
  <2> QED
    BY <1>4
<1>6. Replay(t, s) = c[Len(s)]
  BY DEF Replay
<1> HIDE DEF c
<1>7. c[0] = t
  BY <1>5
<1>8. ASSUME NEW k \in 1 .. Len(s)
      PROVE  c[k] = Update(c[k - 1], s[k])
  <2>1. k \in 0 .. Len(s) /\ k # 0
    OBVIOUS
  <2>2. UpTo(c)[k] = Update(c[k - 1], s[k])
    BY <2>1
  <2> QED
    BY <1>5, <2>2
<1>9. \A k \in 0 .. Len(s) : g[k] = c[k]
  <2> DEFINE D == {k \in 0 .. Len(s) : g[k] = c[k]}
  <2>1. 0 \in D
    BY <1>2, <1>7
  <2>2. \A k \in 1 .. Len(s) : k - 1 \in D => k \in D
    BY <1>3, <1>8
  <2> HIDE DEF D
  <2>3. D = 0 .. Len(s)
    <3>1. D \in SUBSET (0 .. Len(s))
      BY DEF D
    <3> QED
      BY <2>1, <2>2, <3>1, IntervalInduction
  <2> QED
    BY <2>3 DEF D
<1> QED
  BY <1>2, <1>3, <1>6, <1>9 DEF Replays

LEMMA ReplayType ==
  ASSUME NEW t \in Tables, NEW s \in Seq(Updates)
  PROVE  Replay(t, s) \in Tables
  BY ReplayUnfolds

LEMMA ReplayEmpty ==
  ASSUME NEW t \in Tables
  PROVE  Replay(t, <<>>) = t
<1> DEFINE e == <<>>
<1>1. e \in Seq(Updates) /\ Len(e) = 0
  OBVIOUS
<1> HIDE DEF e
<1>2. PICK g \in [0 .. Len(e) -> Tables] : Replays(g, t, e) /\ Replay(t, e) = g[Len(e)]
  BY <1>1, ReplayUnfolds
<1> QED
  BY <1>1, <1>2 DEF Replays, e

LEMMA ReplaySnoc ==
  ASSUME NEW t \in Tables, NEW s \in Seq(Updates), NEW u \in Updates
  PROVE  Replay(t, Snoc(s, u)) = Update(Replay(t, s), u)
<1> DEFINE z == Append(s, u)
           n == Len(s)
           D(g, h) == {k \in 0 .. n : g[k] = h[k]}
<1>1. /\ z \in Seq(Updates) /\ Len(z) = n + 1 /\ z[n + 1] = u /\ n \in Nat
      /\ \A k \in 1 .. n : z[k] = s[k]
  OBVIOUS
<1> HIDE DEF z, n
<1>2. PICK g \in [0 .. Len(s) -> Tables] : Replays(g, t, s) /\ Replay(t, s) = g[Len(s)]
  BY ReplayUnfolds
<1>3. PICK h \in [0 .. Len(z) -> Tables] : Replays(h, t, z) /\ Replay(t, z) = h[Len(z)]
  BY <1>1, ReplayUnfolds
<1>4. 0 \in D(g, h)
  BY <1>1, <1>2, <1>3 DEF Replays
<1>5. ASSUME NEW k \in 1 .. n, k - 1 \in D(g, h)
      PROVE  k \in D(g, h)
  <2>1. k \in 1 .. n + 1 /\ g[k - 1] = h[k - 1] /\ z[k] = s[k]
    BY <1>1, <1>5
  <2>2. g[k] = Update(g[k - 1], s[k])
    BY <1>2 DEF Replays, n
  <2>3. h[k] = Update(h[k - 1], z[k])
    BY <1>1, <1>3, <2>1 DEF Replays
  <2> QED
    BY <2>1, <2>2, <2>3
<1>6. D(g, h) = 0 .. n
  <2>1. D(g, h) \in SUBSET (0 .. n)
    OBVIOUS
  <2> HIDE DEF D
  <2> QED
    BY <1>1, <1>4, <1>5, <2>1, IntervalInduction
<1>7. g[n] = h[n]
  <2>1. n \in 0 .. n
    BY <1>1
  <2>2. n \in D(g, h)
    BY <1>6, <2>1
  <2> QED
    BY <2>2
<1>8. Replay(t, z) = Update(h[n], u)
  <2>1. n + 1 \in 1 .. Len(z) /\ (n + 1) - 1 = n
    BY <1>1
  <2> QED
    BY <1>1, <1>3, <2>1 DEF Replays
<1> QED
  BY <1>2, <1>7, <1>8 DEF z, n, Snoc

\* Updates of two batches in turn.
LEMMA ReplayJoin ==
  ASSUME NEW t \in Tables, NEW s \in Seq(Updates), NEW r \in Seq(Updates)
  PROVE  Replay(t, Join(s, r)) = Replay(Replay(t, s), r)
<1> DEFINE D == {q \in Seq(Updates) : Replay(t, Join(s, q)) = Replay(Replay(t, s), q)}
<1>1. <<>> \in D
  <2>1. <<>> \in Seq(Updates)
    OBVIOUS
  <2> QED
    BY <2>1, JoinEmpty, ReplayType, ReplayEmpty
<1>2. ASSUME NEW q \in Seq(Updates), NEW u \in Updates, q \in D
      PROVE  Snoc(q, u) \in D
  <2>1. /\ Snoc(q, u) \in Seq(Updates) /\ Join(s, q) \in Seq(Updates)
        /\ Join(s, Snoc(q, u)) = Snoc(Join(s, q), u)
    BY JoinTypes, JoinSnoc
  <2>2. Replay(t, Snoc(Join(s, q), u)) = Update(Replay(t, Join(s, q)), u)
    BY <2>1, ReplaySnoc
  <2>3. Replay(Replay(t, s), Snoc(q, u)) = Update(Replay(Replay(t, s), q), u)
    BY ReplayType, ReplaySnoc
  <2> QED
    BY <1>2, <2>1, <2>2, <2>3
<1> HIDE DEF D
<1>3. Seq(Updates) \subseteq D
  BY <1>1, <1>2, SnocInduction
<1> QED
  BY <1>3 DEF D

\* What updates make of a family depends on nothing but the family.
LEMMA ReplayLocal ==
  ASSUME NEW t \in Tables, NEW t2 \in Tables, NEW s \in Seq(Updates), NEW v \in Versions,
         t[v] = t2[v]
  PROVE  Replay(t, s)[v] = Replay(t2, s)[v]
<1> DEFINE D == {q \in Seq(Updates) : Replay(t, q)[v] = Replay(t2, q)[v]}
<1>1. <<>> \in D
  <2>1. <<>> \in Seq(Updates)
    OBVIOUS
  <2> QED
    BY <2>1, ReplayEmpty
<1>2. ASSUME NEW q \in Seq(Updates), NEW u \in Updates, q \in D
      PROVE  Snoc(q, u) \in D
  <2>1. Snoc(q, u) \in Seq(Updates)
    BY JoinTypes
  <2>2. Replay(t, Snoc(q, u)) = Update(Replay(t, q), u) /\ Replay(t, q) \in Tables
    BY ReplaySnoc, ReplayType
  <2>3. Replay(t2, Snoc(q, u)) = Update(Replay(t2, q), u) /\ Replay(t2, q) \in Tables
    BY ReplaySnoc, ReplayType
  <2> QED
    BY <1>2, <2>1, <2>2, <2>3, UpdateLocal
<1> HIDE DEF D
<1>3. Seq(Updates) \subseteq D
  BY <1>1, <1>2, SnocInduction
<1> QED
  BY <1>3 DEF D

\* ... and on none of the updates of other families.
LEMMA ReplayKept ==
  ASSUME NEW t \in Tables, NEW s \in Seq(Updates), NEW v \in Versions
  PROVE  Replay(t, Keep(s, UpdatesOf(v)))[v] = Replay(t, s)[v]
<1> DEFINE O == UpdatesOf(v)
           D == {q \in Seq(Updates) : Replay(t, Keep(q, O))[v] = Replay(t, q)[v]}
<1>1. <<>> \in D
  <2>1. <<>> \in Seq(Updates)
    OBVIOUS
  <2> QED
    BY <2>1, KeepEmpty
<1>2. ASSUME NEW q \in Seq(Updates), NEW u \in Updates, q \in D
      PROVE  Snoc(q, u) \in D
  <2> HIDE DEF O
  <2>1. Snoc(q, u) \in Seq(Updates)
    BY JoinTypes
  <2>2. Replay(t, Snoc(q, u)) = Update(Replay(t, q), u) /\ Replay(t, q) \in Tables
    BY ReplaySnoc, ReplayType
  <2>3. Keep(q, O) \in Seq(Updates)
    BY KeepType
  <2>4. /\ Replay(t, Snoc(Keep(q, O), u)) = Update(Replay(t, Keep(q, O)), u)
        /\ Replay(t, Keep(q, O)) \in Tables
    BY <2>3, ReplaySnoc, ReplayType
  <2>5. Keep(Snoc(q, u), O) = IF u \in O THEN Snoc(Keep(q, O), u) ELSE Keep(q, O)
    BY KeepSnoc
  <2>6. CASE u \in O
    BY <1>2, <2>1, <2>2, <2>4, <2>5, <2>6, UpdateLocal
  <2>7. CASE u \notin O
    BY <1>2, <2>1, <2>2, <2>5, <2>7, UpdateOther DEF O
  <2> QED
    BY <2>6, <2>7
<1> HIDE DEF D, O
<1>3. Seq(Updates) \subseteq D
  BY <1>1, <1>2, SnocInduction
<1> QED
  BY <1>3 DEF D, O

\* Tables that u makes the same are made the same by u after other updates.
LEMMA ReplaySame ==
  ASSUME NEW t \in Tables, NEW t2 \in Tables, NEW s \in Seq(Updates), NEW u \in Updates,
         Update(t, u) = Update(t2, u)
  PROVE  Update(Replay(t, s), u) = Update(Replay(t2, s), u)
<1> DEFINE D == {q \in Seq(Updates) : Update(Replay(t, q), u) = Update(Replay(t2, q), u)}
<1>1. <<>> \in D
  <2>1. <<>> \in Seq(Updates)
    OBVIOUS
  <2> QED
    BY <2>1, ReplayEmpty
<1>2. ASSUME NEW q \in Seq(Updates), NEW w \in Updates, q \in D
      PROVE  Snoc(q, w) \in D
  <2>1. Snoc(q, w) \in Seq(Updates)
    BY JoinTypes
  <2>2. Replay(t, Snoc(q, w)) = Update(Replay(t, q), w) /\ Replay(t, q) \in Tables
    BY ReplaySnoc, ReplayType
  <2>3. Replay(t2, Snoc(q, w)) = Update(Replay(t2, q), w) /\ Replay(t2, q) \in Tables
    BY ReplaySnoc, ReplayType
  <2>4. Update(Replay(t, q), u) = Update(Replay(t2, q), u)
    BY <1>2
  <2>5. Update(Update(Replay(t, q), w), u) = Update(Update(Replay(t2, q), w), u)
    BY <2>2, <2>3, <2>4, UpdateSame
  <2> QED
    BY <2>1, <2>2, <2>3, <2>5
<1> HIDE DEF D
<1>3. Seq(Updates) \subseteq D
  BY <1>1, <1>2, SnocInduction
<1> QED
  BY <1>3 DEF D

\* If the updates so far would change nothing, neither would they with u once it
\* has been applied too.
LEMMA ReplayAgain ==
  ASSUME NEW t \in Tables, NEW s \in Seq(Updates), NEW u \in Updates, Replay(t, s) = t
  PROVE  Replay(Update(t, u), Snoc(s, u)) = Update(t, u)
<1>1. Update(t, u) \in Tables
  BY UpdateType
<1>2. Replay(Update(t, u), Snoc(s, u)) = Update(Replay(Update(t, u), s), u)
  BY <1>1, ReplaySnoc
<1>3. Update(Replay(t, s), u) = Update(Replay(Update(t, u), s), u)
  BY <1>1, UpdateTwice, ReplaySame
<1> QED
  BY <1>2, <1>3

LEMMA ReplayFirst ==
  ASSUME NEW t \in Tables, NEW u \in Updates, NEW s \in Seq(Updates)
  PROVE  Replay(t, Join(<<u>>, s)) = Replay(Update(t, u), s)
<1> DEFINE e == <<>>
           o == <<u>>
<1>1. e \in Seq(Updates) /\ o \in Seq(Updates) /\ o = Snoc(e, u)
  BY DEF Snoc
<1>2. Replay(t, e) = t
  BY ReplayEmpty
<1> HIDE DEF e, o
<1>3. Replay(t, o) = Update(t, u)
  BY <1>1, <1>2, ReplaySnoc
<1>4. Replay(t, Join(o, s)) = Replay(Replay(t, o), s)
  BY <1>1, ReplayJoin
<1> QED
  BY <1>3, <1>4 DEF o

-----------------------------------------------------------------------------
\* What a subscription holds and what is behind it, as laws.

LEMMA MessageType ==
  /\ \A m \in Messages : m \in Seq(Updates)
  /\ Seq(Messages) \subseteq Seq(Seq(Updates))
<1>1. Messages \subseteq Seq(Updates)
  BY RouteTableAssumption
<1> QED
  BY <1>1

LEMMA OnlyType ==
  ASSUME NEW v \in Versions, NEW held \in SUBSET Routes
  PROVE  Only(v, held) \in Tables /\ Only(v, held)[v] = held
  BY DEF Only, Tables

\* A frame has what the messages of a chunk have for the family.
LEMMA FrameMakes ==
  ASSUME NEW v \in Versions, NEW t \in Tables, NEW s \in Seq(Messages)
  PROVE  Frame(s, v) \in Seq(Updates) /\ Replay(t, Frame(s, v))[v] = Replay(t, Flatten(s))[v]
<1>1. Keep(s, Messages) = s /\ s \in Seq(Seq(Updates))
  BY KeepAll, MessageType
<1>2. Flatten(s) \in Seq(Updates)
  BY <1>1, FlattenType
<1>3. Frame(s, v) = Keep(Flatten(s), UpdatesOf(v))
  BY <1>1 DEF Frame
<1> QED
  BY <1>2, <1>3, ReplayKept, KeepType

\* A message that begins is due and behind.
LEMMA MakesMore ==
  ASSUME NEW v \in Versions, NEW held \in SUBSET Routes, NEW s \in Seq(Messages),
         NEW t \in Tables, NEW m \in Messages, Makes(v, held, s, t, <<>>)
  PROVE  Makes(v, held, Snoc(s, m), t, m)
<1> DEFINE o == Only(v, held)
<1>1. o \in Tables /\ s \in Seq(Seq(Updates)) /\ m \in Seq(Updates)
  BY OnlyType, MessageType
<1> HIDE DEF o
<1>2. Flatten(s) \in Seq(Updates) /\ Flatten(Snoc(s, m)) = Join(Flatten(s), m)
  BY <1>1, FlattenType, FlattenSnoc
<1>3. Replay(o, Flatten(s))[v] = t[v]
  BY ReplayEmpty DEF Makes, o
<1>4. Replay(o, Flatten(s)) \in Tables
  BY <1>1, <1>2, ReplayType
<1>5. Replay(Replay(o, Flatten(s)), m)[v] = Replay(t, m)[v]
  BY <1>1, <1>3, <1>4, ReplayLocal
<1>6. Replay(o, Join(Flatten(s), m)) = Replay(Replay(o, Flatten(s)), m)
  BY <1>1, <1>2, ReplayJoin
<1> QED
  BY <1>2, <1>5, <1>6 DEF Makes, o

\* An update the tries get is due no more.
LEMMA MakesApplied ==
  ASSUME NEW v, NEW held, NEW s, NEW t \in Tables, NEW u \in Updates, NEW r \in Seq(Updates),
         Makes(v, held, s, t, Join(<<u>>, r))
  PROVE  Makes(v, held, s, Update(t, u), r)
  BY ReplayFirst DEF Makes

\* A chunk whose frame is sent is behind no more.
LEMMA MakesFlushed ==
  ASSUME NEW v \in Versions, NEW held \in SUBSET Routes, NEW x \in Seq(Messages),
         NEW s \in Seq(Messages), NEW t, NEW r, Makes(v, held, Join(x, s), t, r)
  PROVE  Makes(v, Replay(Only(v, held), Frame(x, v))[v], s, t, r)
<1> DEFINE o == Only(v, held)
           a == Flatten(x)
           b == Flatten(s)
           h == Replay(o, Frame(x, v))[v]
<1>1. o \in Tables /\ x \in Seq(Seq(Updates)) /\ s \in Seq(Seq(Updates))
  BY OnlyType, MessageType
<1>2. a \in Seq(Updates) /\ b \in Seq(Updates) /\ Flatten(Join(x, s)) = Join(a, b)
  BY <1>1, FlattenType, FlattenJoin
<1>3. Replay(o, Join(a, b))[v] = Replay(t, r)[v]
  BY <1>2 DEF Makes
<1>4. h = Replay(o, a)[v]
  BY <1>1, FrameMakes
<1> HIDE DEF o, a, b, h
<1>5. Replay(o, Join(a, b)) = Replay(Replay(o, a), b) /\ Replay(o, a) \in Tables
  BY <1>1, <1>2, ReplayJoin, ReplayType
<1>6. h \in SUBSET Routes
  BY <1>4, <1>5 DEF Tables
<1>7. Only(v, h) \in Tables /\ Only(v, h)[v] = h
  BY <1>6, OnlyType
<1>8. Replay(Only(v, h), b)[v] = Replay(Replay(o, a), b)[v]
  BY <1>2, <1>4, <1>5, <1>7, ReplayLocal
<1> QED
  BY <1>3, <1>5, <1>8 DEF Makes, b, h, o

\* One that takes what the tries have now is behind by the whole message in
\* progress, which makes no difference if its first part changes nothing.
LEMMA MakesNew ==
  ASSUME NEW v \in Versions, NEW t \in Tables, NEW p \in Seq(Updates), NEW r \in Seq(Updates),
         Join(p, r) \in Messages, Replay(t, p) = t
  PROVE  Makes(v, t[v], <<Join(p, r)>>, t, r)
<1> DEFINE o == Only(v, t[v])
           m == Join(p, r)
<1>1. t[v] \in SUBSET Routes
  BY DEF Tables
<1>2. o \in Tables /\ o[v] = t[v] /\ m \in Seq(Updates)
  BY <1>1, OnlyType, MessageType
<1> HIDE DEF o, m
<1>3. Flatten(<<m>>) = m
  BY <1>2, FlattenOne
<1>4. Replay(o, m)[v] = Replay(t, m)[v]
  BY <1>2, ReplayLocal
<1>5. Replay(t, m) = Replay(t, r)
  BY ReplayJoin DEF m
<1>6. Replay(o, Flatten(<<m>>))[v] = Replay(t, r)[v]
  BY <1>3, <1>4, <1>5
<1> QED
  BY <1>6 DEF Makes, o, m

LEMMA MakesNone ==
  ASSUME NEW v \in Versions, NEW t \in Tables
  PROVE  Makes(v, t[v], <<>>, t, <<>>)
<1> DEFINE o == Only(v, t[v])
<1>1. t[v] \in SUBSET Routes
  BY DEF Tables
<1>2. o \in Tables /\ o[v] = t[v]
  BY <1>1, OnlyType
<1> HIDE DEF o
<1>3. Replay(o, Flatten(<<>>))[v] = Replay(t, <<>>)[v]
  BY <1>2, FlattenEmpty, ReplayEmpty
<1> QED
  BY <1>3 DEF Makes, o

-----------------------------------------------------------------------------
\* The sequences a step moves an item between.

LEMMA Single ==
  ASSUME NEW S, NEW x \in S
  PROVE  <<x>> \in Seq(S) /\ Len(<<x>>) = 1 /\ <<x>>[1] = x
  OBVIOUS

LEMMA NextRead ==
  ASSUME NEW S, NEW ch \in Seq(S), NEW lg \in Seq(S), NEW k \in 1 .. Len(lg)
  PROVE  Append(ch, lg[k]) \o SubSeq(lg, k + 1, Len(lg)) = ch \o SubSeq(lg, k, Len(lg))
<1> DEFINE rest == SubSeq(lg, k + 1, Len(lg))
           all == SubSeq(lg, k, Len(lg))
<1>1. /\ rest \in Seq(S) /\ Len(rest) = Len(lg) - k
      /\ \A j \in 1 .. Len(rest) : rest[j] = lg[k + j]
  OBVIOUS
<1>2. /\ all \in Seq(S) /\ Len(all) = Len(lg) - k + 1
      /\ \A j \in 1 .. Len(all) : all[j] = lg[k + j - 1]
  OBVIOUS
<1>3. lg[k] \in S
  OBVIOUS
<1> HIDE DEF rest, all
<1>4. PICK x \in S : x = lg[k]
  BY <1>3
<1>5. all = <<x>> \o rest
  <2>0. PICK o \in Seq(S) : o = <<x>> /\ Len(o) = 1 /\ o[1] = x
    BY Single
  <2>1. /\ o \o rest \in Seq(S) /\ Len(o \o rest) = 1 + Len(rest)
        /\ \A j \in 1 .. 1 + Len(rest) : (o \o rest)[j] = IF j <= 1 THEN o[j] ELSE rest[j - 1]
    <3>1. rest \in Seq(S)
      BY <1>1
    <3>2. Len(o) = 1
      BY <2>0
    <3>3. /\ o \o rest \in Seq(S) /\ Len(o \o rest) = Len(o) + Len(rest)
          /\ \A j \in 1 .. Len(o) + Len(rest) :
               (o \o rest)[j] = IF j <= Len(o) THEN o[j] ELSE rest[j - Len(o)]
      BY <3>1, ConcatProperties
    <3> QED
      BY <3>2, <3>3, Zenon
  <2>2. ASSUME NEW j \in 1 .. Len(all)
        PROVE  all[j] = (o \o rest)[j]
    <3>1. (o \o rest)[j] = IF j = 1 THEN x ELSE rest[j - 1]
      <4>1. j \in 1 .. 1 + Len(rest)
        BY <1>1, <1>2
      <4> QED
        BY <2>0, <2>1, <4>1
    <3>2. CASE j = 1
      BY <1>2, <1>4, <3>1, <3>2
    <3>3. CASE j # 1
      <4>1. j - 1 \in 1 .. Len(rest)
        BY <1>1, <1>2, <3>3
      <4>2. rest[j - 1] = lg[k + (j - 1)] /\ k + (j - 1) = k + j - 1
        BY <1>1, <4>1
      <4> QED
        BY <1>2, <3>1, <3>3, <4>2
    <3> QED
      BY <3>2, <3>3
  <2>3. Len(all) = Len(o \o rest)
    BY <1>1, <1>2, <2>1
  <2>4. all = o \o rest
    BY <1>2, <2>1, <2>2, <2>3, SeqEqual
  <2> QED
    BY <2>0, <2>4
<1>6. Append(ch, x) \o rest = ch \o (<<x>> \o rest)
  <2>1. Append(ch, x) = ch \o <<x>>
    OBVIOUS
  <2> QED
    BY <1>1, <2>1
<1> QED
  BY <1>4, <1>5, <1>6 DEF rest, all

LEMMA NextSent ==
  ASSUME NEW S, NEW ch \in Seq(S), NEW lg \in Seq(S), NEW k \in 1 .. Len(lg) + 1, NEW m \in S
  PROVE  ch \o SubSeq(Append(lg, m), k, Len(Append(lg, m))) \o <<>> =
           ch \o SubSeq(lg, k, Len(lg)) \o <<m>>
<1> DEFINE old == SubSeq(lg, k, Len(lg))
           new == SubSeq(Append(lg, m), k, Len(Append(lg, m)))
<1>1. /\ old \in Seq(S) /\ Len(old) = Len(lg) - k + 1
      /\ \A j \in 1 .. Len(old) : old[j] = lg[k + j - 1]
  OBVIOUS
<1>2. /\ new \in Seq(S) /\ Len(new) = Len(lg) - k + 2
      /\ \A j \in 1 .. Len(new) : new[j] = Append(lg, m)[k + j - 1]
  OBVIOUS
<1> HIDE DEF old, new
<1>3. new = Append(old, m)
  <2>1. Append(old, m) \in Seq(S) /\ Len(Append(old, m)) = Len(new)
    <3>1. Append(old, m) \in Seq(S) /\ Len(Append(old, m)) = Len(old) + 1
      BY <1>1, AppendProperties
    <3>2. Len(lg) - k + 1 + 1 = Len(lg) - k + 2
      OBVIOUS
    <3> QED
      BY <1>1, <1>2, <3>1, <3>2
  <2>2. ASSUME NEW j \in 1 .. Len(new)
        PROVE  new[j] = Append(old, m)[j]
    <3>1. new[j] = Append(lg, m)[k + j - 1]
      BY <1>2
    <3>2. CASE j <= Len(old)
      <4>1. j \in 1 .. Len(old) /\ k + j - 1 \in 1 .. Len(lg)
        BY <1>1, <1>2, <3>2
      <4>2. Append(lg, m)[k + j - 1] = lg[k + j - 1]
        BY <4>1
      <4>3. Append(old, m)[j] = old[j]
        BY <1>1, <4>1
      <4> QED
        BY <1>1, <3>1, <4>1, <4>2, <4>3
    <3>3. CASE ~(j <= Len(old))
      <4>1. j = Len(old) + 1 /\ k + j - 1 = Len(lg) + 1
        <5>1. PICK p, q, n \in Nat : p = Len(old) /\ q = Len(lg) /\ n = Len(new)
          <6>1. old \in Seq(S) /\ new \in Seq(S)
            BY <1>1, <1>2
          <6>2. Len(old) \in Nat /\ Len(lg) \in Nat /\ Len(new) \in Nat
            BY <6>1, LenProperties
          <6> HIDE DEF old, new
          <6> QED
            BY <6>2, Zenon
        <5>2. p = q - k + 1 /\ n = q - k + 2 /\ j \in 1 .. n /\ ~(j <= p) /\ k \in Int
          BY <1>1, <1>2, <3>3, <5>1
        <5> QED
          BY <5>1, <5>2
      <4>2. Append(lg, m)[Len(lg) + 1] = m
        OBVIOUS
      <4>3. Append(old, m)[Len(old) + 1] = m
        <5>1. old \in Seq(S)
          BY <1>1
        <5> QED
          BY <5>1, AppendProperties
      <4> QED
        BY <3>1, <4>1, <4>2, <4>3
    <3> QED
      BY <3>2, <3>3
  <2> QED
    BY <1>2, <2>1, <2>2, SeqEqual
<1>4. Append(old, m) = old \o <<m>>
  BY <1>1
<1>5. ch \o Append(old, m) \o <<>> = ch \o old \o <<m>>
  BY <1>1, <1>4
<1> QED
  BY <1>3, <1>5 DEF old, new

\* The part of a message the tries have and the part they do not.
LEMMA Parts ==
  ASSUME NEW S, NEW m \in Seq(S), NEW a \in 0 .. Len(m)
  PROVE  /\ SubSeq(m, 1, a) \in Seq(S) /\ SubSeq(m, a + 1, Len(m)) \in Seq(S)
         /\ Join(SubSeq(m, 1, a), SubSeq(m, a + 1, Len(m))) = m
<1> DEFINE x == SubSeq(m, 1, a)
           y == SubSeq(m, a + 1, Len(m))
<1>1. x \in Seq(S) /\ Len(x) = a /\ \A j \in 1 .. a : x[j] = m[j]
  OBVIOUS
<1>2. y \in Seq(S) /\ Len(y) = Len(m) - a /\ \A j \in 1 .. Len(y) : y[j] = m[a + j]
  OBVIOUS
<1> HIDE DEF x, y
<1>3. x \o y \in Seq(S) /\ Len(x \o y) = Len(m)
  BY <1>1, <1>2
<1>4. ASSUME NEW j \in 1 .. Len(m)
      PROVE  (x \o y)[j] = m[j]
  <2>1. (x \o y)[j] = IF j <= a THEN x[j] ELSE y[j - a]
    BY <1>1, <1>2
  <2>2. CASE j <= a
    BY <1>1, <2>1, <2>2
  <2>3. CASE ~(j <= a)
    <3>1. j - a \in 1 .. Len(y)
      BY <1>2, <2>3
    <3>2. y[j - a] = m[a + (j - a)] /\ a + (j - a) = j
      BY <1>2, <3>1
    <3> QED
      BY <2>1, <2>3, <3>2
  <2> QED
    BY <2>2, <2>3
<1>5. x \o y = m
  BY <1>3, <1>4, SeqEqual
<1> QED
  BY <1>1, <1>2, <1>5 DEF x, y, Join

LEMMA NextPart ==
  ASSUME NEW S, NEW m \in Seq(S), NEW a \in 0 .. Len(m) - 1
  PROVE  /\ SubSeq(m, a + 1, Len(m)) = Join(<<m[a + 1]>>, SubSeq(m, a + 2, Len(m)))
         /\ SubSeq(m, 1, a + 1) = Snoc(SubSeq(m, 1, a), m[a + 1])
<1>1. SubSeq(m, a + 1, Len(m)) = Join(<<m[a + 1]>>, SubSeq(m, a + 2, Len(m)))
  <2> DEFINE e == <<>>
             x == m[a + 1]
  <2>1. e \in Seq(S) /\ a + 1 \in 1 .. Len(m) /\ (a + 1) + 1 = a + 2
    OBVIOUS
  <2>2. Append(e, x) \o SubSeq(m, a + 2, Len(m)) = e \o SubSeq(m, a + 1, Len(m))
    <3> HIDE DEF e
    <3> QED
      BY <2>1, NextRead
  <2>3. Append(e, x) = <<x>> /\ e \o SubSeq(m, a + 1, Len(m)) = SubSeq(m, a + 1, Len(m))
    OBVIOUS
  <2> HIDE DEF e, x
  <2> QED
    BY <2>2, <2>3 DEF Join, x
<1>2. SubSeq(m, 1, a + 1) = Snoc(SubSeq(m, 1, a), m[a + 1])
  <2>1. a + 1 \in 0 .. Len(m) /\ (a + 1) - 1 = a /\ a + 1 > 0
    OBVIOUS
  <2> QED
    BY <2>1, Initial DEF Snoc
<1> QED
  BY <1>1, <1>2

-----------------------------------------------------------------------------
\* The tables.

LEMMA TableTypes ==
  ASSUME TypeOK
  PROVE  /\ table \in Tables /\ log \in Seq(Messages) /\ current \in Seq(Messages)
         /\ applied \in Nat /\ Len(log) \in Nat
  BY DEF TypeOK, TableTypeOK, Tables

\* The message in progress.
LEMMA InProgress ==
  ASSUME TypeOK, PlaceInv, current # <<>>
  PROVE  \E m \in Messages : /\ current = <<m>> /\ current[1] = m /\ m \in Seq(Updates)
                             /\ applied \in 0 .. Len(m)
                             /\ Remaining = SubSeq(m, applied + 1, Len(m))
<1>1. current \in Seq(Messages) /\ Len(current) <= 1 /\ applied \in Nat
  BY DEF TypeOK, TableTypeOK
<1>2. current[1] \in Messages /\ current = <<current[1]>>
  BY <1>1
<1>3. applied <= Len(current[1])
  BY DEF PlaceInv
<1>4. current[1] \in Seq(Updates)
  BY <1>2, MessageType
<1> QED
  BY <1>1, <1>2, <1>3, <1>4 DEF Remaining

LEMMA RemainingType ==
  ASSUME TypeOK, PlaceInv
  PROVE  Remaining \in Seq(Updates)
<1>1. CASE current = <<>>
  BY <1>1 DEF Remaining
<1>2. CASE current # <<>>
  <2>1. PICK m \in Messages : /\ m \in Seq(Updates) /\ applied \in 0 .. Len(m)
                              /\ Remaining = SubSeq(m, applied + 1, Len(m))
    BY <1>2, InProgress
  <2> QED
    BY <2>1, Parts
<1> QED
  BY <1>1, <1>2

\* What is on its way in the channel to a receiver.
Coming(c) == SubSeq(log, cursor[c], Len(log))

LEMMA ComingType ==
  ASSUME TypeOK, PlaceInv, NEW c \in Conns
  PROVE  Coming(c) \in Seq(Messages) /\ cursor[c] \in 1 .. Len(log) + 1
<1>1. log \in Seq(Messages)
  BY TableTypes
<1>2. cursor[c] \in 1 .. Len(log) + 1
  BY DEF PlaceInv
<1> QED
  BY <1>1, <1>2 DEF Coming

\* A message of which nothing is applied yet.
LEMMA ReceiveAgain ==
  ASSUME TypeOK, NEW m \in Messages, Receive(m)
  PROVE  AgainInv'
<1>1. table \in Tables
  BY TableTypes
<1>2. current' = <<m>> /\ current'[1] = m /\ applied' = 0 /\ table' = table
  BY DEF Receive
<1>3. m \in Seq(Updates)
  BY MessageType
<1>4. SubSeq(m, 1, 0) = <<>>
  BY <1>3
<1> QED
  BY <1>1, <1>2, <1>4, ReplayEmpty DEF AgainInv

\* The effect of ApplyPrefix on the message in progress.
LEMMA ApplyEffect ==
  ASSUME TypeOK, PlaceInv, ApplyPrefix
  PROVE  \E m \in Messages :
           /\ m \in Seq(Updates) /\ applied \in 0 .. Len(m) - 1 /\ m[applied + 1] \in Updates
           /\ current = <<m>> /\ current' = <<m>> /\ current[1] = m
           /\ applied' = applied + 1 /\ table' = Update(table, m[applied + 1])
           /\ Remaining = Join(<<m[applied + 1]>>, SubSeq(m, applied + 2, Len(m)))
           /\ Remaining' = SubSeq(m, applied + 2, Len(m))
           /\ SubSeq(m, applied + 2, Len(m)) \in Seq(Updates)
           /\ SubSeq(m, 1, applied) \in Seq(Updates)
           /\ SubSeq(m, 1, applied + 1) = Snoc(SubSeq(m, 1, applied), m[applied + 1])
<1>1. current # <<>>
  BY DEF ApplyPrefix
<1>2. PICK m \in Messages : /\ current = <<m>> /\ current[1] = m /\ m \in Seq(Updates)
                            /\ applied \in 0 .. Len(m)
                            /\ Remaining = SubSeq(m, applied + 1, Len(m))
  BY <1>1, InProgress
<1>3. /\ applied < Len(m) /\ current' = current /\ applied' = applied + 1
      /\ table' = Update(table, m[applied + 1])
  BY <1>2 DEF ApplyPrefix
<1>4. applied \in 0 .. Len(m) - 1 /\ m[applied + 1] \in Updates /\ applied + 1 \in 0 .. Len(m)
  BY <1>2, <1>3
<1>5. Remaining = Join(<<m[applied + 1]>>, SubSeq(m, applied + 2, Len(m)))
  BY <1>2, <1>4, NextPart
<1>6. SubSeq(m, 1, applied + 1) = Snoc(SubSeq(m, 1, applied), m[applied + 1])
  BY <1>2, <1>4, NextPart
<1>7. SubSeq(m, 1, applied) \in Seq(Updates) /\ SubSeq(m, applied + 2, Len(m)) \in Seq(Updates)
  <2>1. (applied + 1) + 1 = applied + 2
    BY <1>4
  <2>2. SubSeq(m, (applied + 1) + 1, Len(m)) \in Seq(Updates)
    BY <1>2, <1>4, Parts
  <2> QED
    BY <1>2, <2>1, <2>2, Parts
<1>8. Remaining' = SubSeq(m, applied + 2, Len(m))
  <2>1. current' = <<m>> /\ current'[1] = m /\ current' # <<>>
    BY <1>2, <1>3
  <2>2. applied' + 1 = applied + 2
    BY <1>3, <1>4
  <2> QED
    BY <2>1, <2>2 DEF Remaining
<1> QED
  BY <1>2, <1>3, <1>4, <1>5, <1>6, <1>7, <1>8

LEMMA ApplyAgain ==
  ASSUME TypeOK, PlaceInv, AgainInv, ApplyPrefix
  PROVE  AgainInv'
<1>1. PICK m \in Messages :
        /\ m[applied + 1] \in Updates
        /\ current' = <<m>> /\ current[1] = m /\ current = <<m>>
        /\ applied' = applied + 1 /\ table' = Update(table, m[applied + 1])
        /\ SubSeq(m, 1, applied) \in Seq(Updates)
        /\ SubSeq(m, 1, applied + 1) = Snoc(SubSeq(m, 1, applied), m[applied + 1])
  BY ApplyEffect
<1>2. raced' = raced
  BY DEF ApplyPrefix
<1>3. table \in Tables
  BY TableTypes
<1> SUFFICES ASSUME ~raced
             PROVE  Replay(table', SubSeq(m, 1, applied + 1)) = table'
  <2>1. current'[1] = m
    BY <1>1
  <2> QED
    BY <1>1, <1>2, <2>1 DEF AgainInv
<1>4. Replay(table, SubSeq(m, 1, applied)) = table
  BY <1>1 DEF AgainInv
<1> QED
  BY <1>1, <1>3, <1>4, ReplayAgain

LEMMA StepAgain ==
  ASSUME TypeOK, PlaceInv, AgainInv, TableNext
  PROVE  AgainInv'
<1>1. CASE \E v \in Versions : SeedFamily(v)
  BY <1>1 DEF SeedFamily, AgainInv
<1>2. CASE \E m \in Messages : Receive(m)
  BY <1>2, ReceiveAgain
<1>3. CASE ApplyPrefix
  BY <1>3, ApplyAgain
<1>4. CASE Rebroadcast
  BY <1>4 DEF Rebroadcast, AgainInv
<1> QED
  BY <1>1, <1>2, <1>3, <1>4 DEF TableNext, Ingest

LEMMA TableType ==
  ASSUME TypeOK, PlaceInv, TableNext
  PROVE  TableTypeOK' /\ Len(log') \in Nat /\ Len(log) <= Len(log')
<1>1. TableTypeOK
  BY DEF TypeOK
<1>2. CASE \E v \in Versions : SeedFamily(v)
  <2>1. PICK v \in Versions : SeedFamily(v)
    BY <1>2
  <2>2. /\ table' = [table EXCEPT ![v] = @ \cup Seed[v]] /\ unseeded' = unseeded \ {v}
        /\ raced' = (current # <<>>)
        /\ current' = current /\ applied' = applied /\ log' = log
    BY <2>1 DEF SeedFamily
  <2>3. Seed[v] \in SUBSET Routes
    BY RouteTableAssumption
  <2>4. table' \in [Versions -> SUBSET Routes]
    BY <1>1, <2>2, <2>3 DEF TableTypeOK
  <2>5. raced' \in BOOLEAN
    BY <2>2
  <2> QED
    BY <1>1, <2>2, <2>4, <2>5 DEF TableTypeOK
<1>3. CASE \E m \in Messages : Receive(m)
  <2>1. PICK m \in Messages : Receive(m)
    BY <1>3
  <2>2. current' = <<m>> /\ applied' = 0 /\ UNCHANGED <<table, unseeded, log, raced>>
    BY <2>1 DEF Receive
  <2>3. <<m>> \in Seq(Messages) /\ Len(<<m>>) = 1
    OBVIOUS
  <2> QED
    BY <1>1, <2>2, <2>3 DEF TableTypeOK
<1>4. CASE ApplyPrefix
  <2>1. PICK m \in Messages :
          /\ m[applied + 1] \in Updates
          /\ applied' = applied + 1 /\ table' = Update(table, m[applied + 1])
    BY <1>4, ApplyEffect
  <2>2. table \in Tables
    BY TableTypes
  <2>3. table' \in [Versions -> SUBSET Routes]
    BY <2>1, <2>2, UpdateType DEF Tables
  <2>4. UNCHANGED <<unseeded, current, log, raced>>
    BY <1>4 DEF ApplyPrefix
  <2> QED
    BY <1>1, <2>1, <2>3, <2>4 DEF TableTypeOK
<1>5. CASE Rebroadcast
  <2>1. /\ current # <<>> /\ log' = Append(log, current[1]) /\ current' = <<>>
        /\ applied' = 0 /\ raced' = FALSE /\ UNCHANGED <<table, unseeded>>
    BY <1>5 DEF Rebroadcast
  <2>2. current[1] \in Messages
    BY <1>1, <2>1 DEF TableTypeOK
  <2>3. log' \in Seq(Messages) /\ Len(log') = Len(log) + 1
    BY <1>1, <2>1, <2>2, AppendProperties DEF TableTypeOK
  <2>4. <<>> \in Seq(Messages) /\ Len(<<>>) = 0 /\ Len(log) \in Nat
    BY <1>1 DEF TableTypeOK
  <2>5. TableTypeOK'
    <3>1. current' \in Seq(Messages) /\ Len(current') <= 1
      BY <2>1, <2>4
    <3>2. log' \in Seq(Messages)
      BY <2>3
    <3>3. applied' \in Nat /\ raced' \in BOOLEAN
      BY <2>1
    <3>4. table' \in [Versions -> SUBSET Routes] /\ unseeded' \subseteq Versions
      BY <1>1, <2>1 DEF TableTypeOK
    <3> QED
      BY <3>1, <3>2, <3>3, <3>4, Zenon DEF TableTypeOK
  <2>6. Len(log) <= Len(log')
    BY <2>3, <2>4
  <2>7. Len(log') \in Nat
    BY <2>3, <2>4
  <2> QED
    BY <2>5, <2>6, <2>7
<1> QED
  BY <1>2, <1>3, <1>4, <1>5 DEF TableNext, Ingest

LEMMA TableStepType ==
  ASSUME TypeOK, PlaceInv, TableNext, UNCHANGED connVars
  PROVE  TypeOK'
  BY TableType DEF TypeOK, connVars

LEMMA TableStepPlace ==
  ASSUME TypeOK, PlaceInv, TableNext, UNCHANGED connVars
  PROVE  PlaceInv'
<1>1. IF current' = <<>> THEN applied' = 0 ELSE applied' <= Len(current'[1])
  <2>1. CASE \E v \in Versions : SeedFamily(v)
    BY <2>1 DEF SeedFamily, PlaceInv
  <2>2. CASE \E m \in Messages : Receive(m)
    <3>1. PICK m \in Messages : Receive(m)
      BY <2>2
    <3>2. current'[1] = m /\ current' # <<>> /\ applied' = 0
      BY <3>1 DEF Receive
    <3>3. m \in Seq(Updates)
      BY MessageType
    <3> QED
      BY <3>2, <3>3
  <2>3. CASE ApplyPrefix
    <3>1. PICK m \in Messages :
            /\ m \in Seq(Updates) /\ applied \in 0 .. Len(m) - 1
            /\ current' = <<m>> /\ applied' = applied + 1
      BY <2>3, ApplyEffect
    <3>2. current'[1] = m /\ current' # <<>>
      BY <3>1
    <3> QED
      BY <3>1, <3>2
  <2>4. CASE Rebroadcast
    BY <2>4 DEF Rebroadcast
  <2> QED
    BY <2>1, <2>2, <2>3, <2>4 DEF TableNext, Ingest
<1>2. unseeded = {} => unseeded' = {}
  BY DEF TableNext, SeedFamily, Receive, Ingest, ApplyPrefix, Rebroadcast
<1>3. cursor' = cursor /\ chunk' = chunk /\ state' = state
  BY DEF connVars
<1>4. ASSUME NEW c \in Conns
      PROVE  /\ cursor'[c] \in 1 .. Len(log') + 1
             /\ chunk'[c] # <<>> => state'[c] = "Active"
             /\ Served(c)' => unseeded' = {}
  <2>1. cursor[c] \in 1 .. Len(log) + 1 /\ Len(log) \in Nat
    BY TableTypes DEF PlaceInv
  <2>2. PICK n, o, k \in Int : n = Len(log) /\ o = Len(log') /\ k = cursor[c] /\ n <= o
    BY <2>1, TableType
  <2>3. cursor'[c] \in 1 .. Len(log') + 1
    BY <1>3, <2>1, <2>2
  <2> QED
    BY <1>2, <1>3, <2>3 DEF PlaceInv, Served
<1> QED
  BY <1>1, <1>4 DEF PlaceInv

LEMMA TableStepBehind ==
  ASSUME TypeOK, PlaceInv, TableNext, UNCHANGED connVars, NEW c \in Conns,
         Served(c), Behind(c)
  PROVE  Behind(c)'
<1>1. /\ chunk[c] \in Seq(Messages) /\ Coming(c) \in Seq(Messages)
      /\ cursor[c] \in 1 .. Len(log) + 1 /\ log \in Seq(Messages) /\ table \in Tables
  BY ComingType, TableTypes DEF Behind
<1>2. /\ version[c] \in Versions /\ Held(c) \in SUBSET Routes
  BY DEF TypeOK, Held
<1>3. Makes(version[c], Held(c), chunk[c] \o Coming(c) \o current, table, Remaining)
  BY DEF Behind, Backlog, Coming
<1>4. /\ chunk'[c] = chunk[c] /\ cursor'[c] = cursor[c] /\ version'[c] = version[c]
      /\ Held(c)' = Held(c)
  BY DEF connVars, Held
<1> SUFFICES Makes(version[c], Held(c), chunk[c] \o Coming(c)' \o current', table', Remaining')
  BY <1>1, <1>4 DEF Behind, Backlog, Coming
<1>5. CASE \E v \in Versions : SeedFamily(v)
  BY <1>5 DEF SeedFamily, PlaceInv
<1>6. CASE \E m \in Messages : Receive(m)
  <2>1. PICK m \in Messages : Receive(m)
    BY <1>6
  <2>2. current = <<>> /\ current' = <<m>> /\ applied' = 0 /\ UNCHANGED <<table, log>>
    BY <2>1 DEF Receive
  <2>3. Coming(c)' = Coming(c)
    BY <1>4, <2>2 DEF Coming
  <2>4. Remaining = <<>>
    BY <2>2 DEF Remaining
  <2>5. Remaining' = m
    <3>1. m \in Seq(Updates)
      BY MessageType
    <3>2. SubSeq(m, 1, Len(m)) = m
      BY <3>1
    <3>3. current' # <<>> /\ current'[1] = m /\ applied' + 1 = 1
      BY <2>2
    <3> QED
      BY <3>2, <3>3 DEF Remaining
  <2>6. PICK b \in Seq(Messages) : b = chunk[c] \o Coming(c)
    <3>1. chunk[c] \o Coming(c) \in Seq(Messages)
      BY <1>1, ConcatProperties, Zenon
    <3> QED
      BY <3>1, Zenon
  <2>7. b \o <<>> = b /\ b \o <<m>> = Snoc(b, m)
    BY DEF Snoc
  <2>8. Makes(version[c], Held(c), b, table, <<>>)
    BY <1>3, <2>2, <2>4, <2>6, <2>7
  <2>9. Makes(version[c], Held(c), Snoc(b, m), table, m)
    BY <1>1, <1>2, <2>8, MakesMore
  <2> QED
    BY <2>2, <2>3, <2>5, <2>6, <2>7, <2>9
<1>7. CASE ApplyPrefix
  <2>1. PICK m \in Messages :
          /\ m[applied + 1] \in Updates
          /\ current' = current /\ table' = Update(table, m[applied + 1])
          /\ Remaining = Join(<<m[applied + 1]>>, SubSeq(m, applied + 2, Len(m)))
          /\ Remaining' = SubSeq(m, applied + 2, Len(m))
          /\ SubSeq(m, applied + 2, Len(m)) \in Seq(Updates)
    BY <1>7, ApplyEffect
  <2>2. Coming(c)' = Coming(c)
    BY <1>4, <1>7 DEF Coming, ApplyPrefix
  <2>3. PICK u \in Updates, r \in Seq(Updates) :
          u = m[applied + 1] /\ r = SubSeq(m, applied + 2, Len(m))
    BY <2>1
  <2>4. Makes(version[c], Held(c), chunk[c] \o Coming(c) \o current, Update(table, u), r)
    <3> DEFINE b == chunk[c] \o Coming(c) \o current
    <3>1. Makes(version[c], Held(c), b, table, Join(<<u>>, r))
      BY <1>3, <2>1, <2>3
    <3> HIDE DEF b
    <3>2. Makes(version[c], Held(c), b, Update(table, u), r)
      BY <1>1, <3>1, MakesApplied
    <3> QED
      BY <3>2 DEF b
  <2> QED
    BY <2>1, <2>2, <2>3, <2>4
<1>8. CASE Rebroadcast
  <2>1. /\ current # <<>> /\ applied = Len(current[1]) /\ log' = Append(log, current[1])
        /\ current' = <<>> /\ table' = table
    BY <1>8 DEF Rebroadcast
  <2>2. PICK m \in Messages : /\ current = <<m>> /\ current[1] = m /\ m \in Seq(Updates)
                              /\ Remaining = SubSeq(m, applied + 1, Len(m))
    BY <2>1, InProgress
  <2>3. Remaining = <<>>
    <3>1. SubSeq(m, Len(m) + 1, Len(m)) = <<>>
      BY <2>2
    <3> QED
      BY <2>1, <2>2, <3>1
  <2>4. Remaining' = <<>>
    BY <2>1 DEF Remaining
  <2>5. chunk[c] \o Coming(c)' \o <<>> = chunk[c] \o Coming(c) \o <<m>>
    <3>1. Coming(c)' = SubSeq(Append(log, m), cursor[c], Len(Append(log, m)))
      BY <1>4, <2>1, <2>2 DEF Coming
    <3>2. PICK ch, lg \in Seq(Messages) : ch = chunk[c] /\ lg = log
      BY <1>1, Zenon
    <3>4. PICK k \in 1 .. Len(lg) + 1 : k = cursor[c]
      BY <1>1, <3>2, Zenon
    <3>3. ch \o SubSeq(Append(lg, m), k, Len(Append(lg, m))) \o <<>> =
            ch \o SubSeq(lg, k, Len(lg)) \o <<m>>
      BY NextSent
    <3> QED
      BY <3>1, <3>2, <3>3, <3>4, Zenon DEF Coming
  <2> QED
    BY <1>3, <2>1, <2>2, <2>3, <2>4, <2>5
<1> QED
  BY <1>5, <1>6, <1>7, <1>8 DEF TableNext, Ingest

-----------------------------------------------------------------------------
\* The connections: a step of one, seen from the connections.

\* Nothing a subscription is in sync by changes, of connection d.
Same(d) ==
  /\ state'[d] = state[d] /\ version'[d] = version[d] /\ snapshot'[d] = snapshot[d]
  /\ cursor'[d] = cursor[d] /\ chunk'[d] = chunk[d] /\ view'[d] = view[d]
  /\ intact'[d] = intact[d]

\* The connection has no subscription after the step.
Leaves(c) ==
  /\ state'[c] \notin {"Sending", "Active"} /\ chunk'[c] = <<>> /\ cursor'[c] = cursor[c]
  /\ state'[c] = "Synchronizing" => unseeded = {}

Subscribes(c) ==
  /\ state[c] = "Synchronizing" /\ state'[c] = "Sending"
  /\ version'[c] = version[c] /\ snapshot'[c] = table[version[c]]
  /\ cursor'[c] = Len(log) + 1 /\ chunk'[c] = chunk[c] /\ intact'[c] = ~raced

Shows(c) ==
  /\ state[c] = "Sending" /\ state'[c] = "Active"
  /\ version'[c] = version[c] /\ view'[c] = snapshot[c]
  /\ cursor'[c] = cursor[c] /\ chunk'[c] = chunk[c] /\ intact'[c] = intact[c]

Skips(c) ==
  /\ state[c] = "Active" /\ state'[c] = "Active"
  /\ cursor'[c] = Oldest /\ intact'[c] = FALSE

Takes(c) ==
  /\ state[c] = "Active" /\ state'[c] = "Active" /\ cursor[c] <= Len(log)
  /\ version'[c] = version[c] /\ view'[c] = view[c]
  /\ chunk'[c] = Append(chunk[c], log[cursor[c]]) /\ cursor'[c] = cursor[c] + 1
  /\ intact'[c] = intact[c]

Flushes(c) ==
  /\ state[c] = "Active" /\ state'[c] = "Active"
  /\ version'[c] = version[c] /\ chunk'[c] = <<>> /\ cursor'[c] = cursor[c]
  /\ view'[c] = Replay(Only(version[c], view[c]), Frame(chunk[c], version[c]))[version[c]]
  /\ intact'[c] = intact[c]

Effect(c) ==
  \/ Same(c) \/ Leaves(c) \/ Subscribes(c) \/ Shows(c) \/ Skips(c) \/ Takes(c) \/ Flushes(c)

ConnStep(c) == Deliver(c) \/ Control(c) \/ Peer(c)

\* What there is of the types in the functions of the connections.
LEMMA ConnTypes ==
  ASSUME TypeOK
  PROVE  /\ DOMAIN state = Conns /\ DOMAIN version = Conns /\ DOMAIN snapshot = Conns
         /\ DOMAIN cursor = Conns /\ DOMAIN chunk = Conns /\ DOMAIN inbox = Conns
         /\ DOMAIN sent = Conns /\ DOMAIN open = Conns /\ DOMAIN view = Conns
         /\ DOMAIN intact = Conns
  BY DEF TypeOK

LEMMA Elsewhere ==
  ASSUME TypeOK, NEW c \in Conns, NEW d \in Conns, d # c, ConnStep(c)
  PROVE  Same(d) /\ UNCHANGED tableVars
<1>1. CASE Pull(c)
  BY <1>1, ConnTypes DEF Pull, Same
<1>2. CASE Flush(c) \/ FlushFails(c)
  BY <1>2, ConnTypes DEF Flush, FlushFails, Same, Become
<1>3. CASE IdleReceive(c)
  BY <1>3, ConnTypes DEF IdleReceive, Same, Become
<1>4. CASE Subscribe(c) \/ SendSnapshot(c) \/ SendSnapshotFails(c)
  BY <1>4, ConnTypes DEF Subscribe, SendSnapshot, SendSnapshotFails, Same, Become
<1>5. CASE ActiveReceive(c)
  BY <1>5, ConnTypes DEF ActiveReceive, Same, Become
<1>6. CASE SocketEnds(c) \/ Close(c)
  BY <1>6, ConnTypes DEF SocketEnds, Close, Same, Become
<1>7. CASE Peer(c)
  BY <1>7, ConnTypes DEF Peer, PeerGoes, PeerSends, Same
<1> QED
  BY <1>1, <1>2, <1>3, <1>4, <1>5, <1>6, <1>7 DEF ConnStep, Deliver, Control

LEMMA Here ==
  ASSUME TypeOK, PlaceInv, NEW c \in Conns, ConnStep(c)
  PROVE  Effect(c) /\ UNCHANGED tableVars
<1>0. /\ chunk[c] # <<>> => state[c] = "Active"
      /\ Served(c) => unseeded = {}
  BY DEF PlaceInv
<1>1. CASE Pull(c)
  <2>1. UNCHANGED tableVars
    BY <1>1 DEF Pull
  <2>2. CASE cursor[c] < Oldest
    <3>1. Skips(c)
      BY <1>1, <2>2, ConnTypes DEF Pull, Skips
    <3> QED
      BY <2>1, <3>1 DEF Effect
  <2>3. CASE ~(cursor[c] < Oldest)
    <3>1. Takes(c)
      BY <1>1, <2>3, ConnTypes DEF Pull, Takes
    <3> QED
      BY <2>1, <3>1 DEF Effect
  <2> QED
    BY <2>2, <2>3
<1>2. CASE Flush(c)
  <2>1. Flushes(c)
    BY <1>2, ConnTypes DEF Flush, Flushes
  <2> QED
    BY <1>2, <2>1 DEF Flush, Effect
<1>3. CASE FlushFails(c)
  <2>1. Leaves(c)
    BY <1>3, ConnTypes DEF FlushFails, Leaves, Become
  <2> QED
    BY <1>3, <2>1 DEF FlushFails, Effect
<1>4. CASE IdleReceive(c)
  <2>1. Leaves(c)
    BY <1>0, <1>4, ConnTypes DEF IdleReceive, Leaves, Become, Serving
  <2> QED
    BY <1>4, <2>1 DEF IdleReceive, Effect
<1>5. CASE Subscribe(c)
  <2>1. Subscribes(c)
    BY <1>5, ConnTypes DEF Subscribe, Subscribes, Become, Resume
  <2> QED
    BY <1>5, <2>1 DEF Subscribe, Effect
<1>6. CASE SendSnapshot(c)
  <2>1. Shows(c)
    BY <1>6, ConnTypes DEF SendSnapshot, Shows, Become
  <2> QED
    BY <1>6, <2>1 DEF SendSnapshot, Effect
<1>7. CASE SendSnapshotFails(c)
  <2>1. Leaves(c)
    BY <1>0, <1>7, ConnTypes DEF SendSnapshotFails, Leaves, Become
  <2> QED
    BY <1>7, <2>1 DEF SendSnapshotFails, Effect
<1>8. CASE ActiveReceive(c)
  <2>1. Leaves(c) \/ Same(c)
    BY <1>0, <1>8, ConnTypes DEF ActiveReceive, Leaves, Same, Become, Served
  <2> QED
    BY <1>8, <2>1 DEF ActiveReceive, Effect
<1>9. CASE SocketEnds(c)
  <2>1. Leaves(c)
    BY <1>9, ConnTypes DEF SocketEnds, Leaves, Become
  <2> QED
    BY <1>9, <2>1 DEF SocketEnds, Effect
<1>10. CASE Close(c)
  <2>1. Leaves(c)
    BY <1>0, <1>10, ConnTypes DEF Close, Leaves, Become
  <2> QED
    BY <1>10, <2>1 DEF Close, Effect
<1>11. CASE Peer(c)
  BY <1>11 DEF Peer, PeerGoes, PeerSends, Same, Effect
<1> QED
  BY <1>1, <1>2, <1>3, <1>4, <1>5, <1>6, <1>7, <1>8, <1>9, <1>10, <1>11
     DEF ConnStep, Deliver, Control

LEMMA OldestPlace ==
  ASSUME TypeOK
  PROVE  Oldest \in 1 .. Len(log) + 1
<1>1. Len(log) \in Nat /\ Capacity \in Nat \ {0}
  BY TableTypes, RouteTableAssumption
<1> QED
  BY <1>1 DEF Oldest

LEMMA ConnStepPlace ==
  ASSUME TypeOK, PlaceInv, NEW c \in Conns, ConnStep(c)
  PROVE  PlaceInv'
<1>1. Effect(c) /\ UNCHANGED tableVars
  BY Here
<1>2. IF current' = <<>> THEN applied' = 0 ELSE applied' <= Len(current'[1])
  BY <1>1 DEF PlaceInv, tableVars
<1>3. ASSUME NEW d \in Conns
      PROVE  /\ cursor'[d] \in 1 .. Len(log) + 1
             /\ chunk'[d] # <<>> => state'[d] = "Active"
             /\ Served(d)' => unseeded = {}
  <2>1. /\ cursor[d] \in 1 .. Len(log) + 1 /\ Len(log) \in Nat
        /\ chunk[d] # <<>> => state[d] = "Active"
        /\ Served(d) => unseeded = {}
    BY TableTypes DEF PlaceInv
  <2>2. CASE Same(d)
    BY <2>1, <2>2 DEF Same, Served
  <2>3. CASE ~Same(d)
    <3>1. d = c
      BY <2>3, Elsewhere
    <3>2. CASE Leaves(d)
      BY <2>1, <3>2 DEF Leaves, Served
    <3>3. CASE Subscribes(d)
      BY <2>1, <3>3 DEF Subscribes, Served
    <3>4. CASE Shows(d)
      BY <2>1, <3>4 DEF Shows, Served
    <3>5. CASE Skips(d)
      BY <2>1, <3>5, OldestPlace DEF Skips, Served
    <3>6. CASE Takes(d)
      <4>1. cursor'[d] \in 1 .. Len(log) + 1
        BY <2>1, <3>6 DEF Takes
      <4>2. state[d] = "Active" /\ state'[d] = "Active"
        BY <3>6 DEF Takes
      <4> QED
        BY <2>1, <4>1, <4>2 DEF Served
    <3>7. CASE Flushes(d)
      BY <2>1, <3>7 DEF Flushes, Served
    <3> QED
      BY <1>1, <2>3, <3>1, <3>2, <3>3, <3>4, <3>5, <3>6, <3>7 DEF Effect
  <2> QED
    BY <2>2, <2>3
<1>4. log' = log /\ unseeded' = unseeded
  BY <1>1 DEF tableVars
<1> QED
  BY <1>2, <1>3, <1>4 DEF PlaceInv

LEMMA SameBehind ==
  ASSUME NEW c \in Conns, Behind(c), Same(c), UNCHANGED tableVars
  PROVE  Behind(c)'
<1>1. /\ version'[c] = version[c] /\ cursor'[c] = cursor[c] /\ chunk'[c] = chunk[c]
      /\ Held(c)' = Held(c)
  BY DEF Same, Held
<1>2. table' = table /\ log' = log /\ current' = current /\ Remaining' = Remaining
  BY DEF tableVars, Remaining
<1>3. Backlog(c)' = Backlog(c)
  BY <1>1, <1>2, Zenon DEF Backlog
<1> QED
  BY <1>1, <1>2, <1>3, Zenon DEF Behind

\* A new subscription is behind by the message in progress, all of it.
LEMMA SubscribeBehind ==
  ASSUME TypeOK, PlaceInv, AgainInv, NEW c \in Conns, Subscribes(c), UNCHANGED tableVars,
         intact'[c]
  PROVE  Behind(c)'
<1>1. /\ version'[c] = version[c] /\ Held(c)' = table[version[c]]
      /\ cursor'[c] = Len(log) + 1 /\ chunk'[c] = chunk[c] /\ ~raced
  BY DEF Subscribes, Held
<1>2. chunk[c] = <<>>
  BY DEF Subscribes, PlaceInv
<1>3. table' = table /\ log' = log /\ current' = current /\ Remaining' = Remaining
  BY DEF tableVars, Remaining
<1>4. log \in Seq(Messages) /\ current \in Seq(Messages) /\ table \in Tables
  BY TableTypes
<1>5. Backlog(c)' = current
  <2>1. SubSeq(log, Len(log) + 1, Len(log)) = <<>>
    BY <1>4
  <2>2. Backlog(c)' = <<>> \o SubSeq(log, Len(log) + 1, Len(log)) \o current
    BY <1>1, <1>2, <1>3, Zenon DEF Backlog
  <2>3. <<>> \o <<>> \o current = current
    BY <1>4
  <2> QED
    BY <2>1, <2>2, <2>3, Zenon
<1>6. version[c] \in Versions
  BY DEF TypeOK
<1>7. Makes(version[c], table[version[c]], current, table, Remaining)
  <2>1. CASE current = <<>>
    BY <1>4, <1>6, <2>1, MakesNone DEF Remaining
  <2>2. CASE current # <<>>
    <3>1. PICK m \in Messages : /\ current = <<m>> /\ current[1] = m /\ m \in Seq(Updates)
                                /\ applied \in 0 .. Len(m)
                                /\ Remaining = SubSeq(m, applied + 1, Len(m))
      BY <2>2, InProgress
    <3>2. Replay(table, SubSeq(m, 1, applied)) = table
      BY <1>1, <2>2, <3>1 DEF AgainInv
    <3>3. PICK x, r \in Seq(Updates) :
            x = SubSeq(m, 1, applied) /\ r = SubSeq(m, applied + 1, Len(m)) /\ Join(x, r) = m
      <4>1. /\ SubSeq(m, 1, applied) \in Seq(Updates)
            /\ SubSeq(m, applied + 1, Len(m)) \in Seq(Updates)
            /\ Join(SubSeq(m, 1, applied), SubSeq(m, applied + 1, Len(m))) = m
        BY <3>1, Parts
      <4> QED
        BY <4>1, Zenon
    <3>4. Makes(version[c], table[version[c]], <<Join(x, r)>>, table, r)
      BY <1>4, <1>6, <3>2, <3>3, MakesNew
    <3> QED
      BY <3>1, <3>3, <3>4
  <2> QED
    BY <2>1, <2>2
<1>8. <<>> \in Seq(Messages)
  OBVIOUS
<1> QED
  BY <1>1, <1>2, <1>3, <1>5, <1>7, <1>8, Zenon DEF Behind

LEMMA ShowBehind ==
  ASSUME TypeOK, NEW c \in Conns, Shows(c), UNCHANGED tableVars, Behind(c)
  PROVE  Behind(c)'
<1>1. /\ version'[c] = version[c] /\ cursor'[c] = cursor[c] /\ chunk'[c] = chunk[c]
      /\ Held(c)' = Held(c)
  BY DEF Shows, Held
<1>2. table' = table /\ log' = log /\ current' = current /\ Remaining' = Remaining
  BY DEF tableVars, Remaining
<1>3. Backlog(c)' = Backlog(c)
  BY <1>1, <1>2, Zenon DEF Backlog
<1> QED
  BY <1>1, <1>2, <1>3, Zenon DEF Behind

LEMMA TakeBehind ==
  ASSUME TypeOK, PlaceInv, NEW c \in Conns, Takes(c), UNCHANGED tableVars, Behind(c)
  PROVE  Behind(c)'
<1>1. /\ version'[c] = version[c] /\ Held(c)' = Held(c)
      /\ chunk'[c] = Append(chunk[c], log[cursor[c]]) /\ cursor'[c] = cursor[c] + 1
  BY DEF Takes, Held
<1>2. table' = table /\ log' = log /\ current' = current /\ Remaining' = Remaining
  BY DEF tableVars, Remaining
<1>3. log \in Seq(Messages) /\ chunk[c] \in Seq(Messages)
  BY TableTypes DEF Behind
<1>4. cursor[c] \in 1 .. Len(log)
  <2>1. Len(log) \in Nat /\ cursor[c] \in 1 .. Len(log) + 1 /\ cursor[c] <= Len(log)
    BY TableTypes DEF PlaceInv, Takes
  <2> QED
    BY <2>1
<1>5. Append(chunk[c], log[cursor[c]]) \o SubSeq(log, cursor[c] + 1, Len(log)) =
        chunk[c] \o SubSeq(log, cursor[c], Len(log))
  BY <1>3, <1>4, NextRead
<1>6. Backlog(c)' = Backlog(c)
  BY <1>1, <1>2, <1>5, Zenon DEF Backlog
<1>7. chunk'[c] \in Seq(Messages)
  BY <1>1, <1>3, <1>4
<1> QED
  BY <1>1, <1>2, <1>6, <1>7, Zenon DEF Behind

LEMMA FlushBehind ==
  ASSUME TypeOK, PlaceInv, NEW c \in Conns, Flushes(c), UNCHANGED tableVars, Behind(c)
  PROVE  Behind(c)'
<1>1. /\ version'[c] = version[c] /\ Held(c) = view[c]
      /\ Held(c)' = Replay(Only(version[c], view[c]), Frame(chunk[c], version[c]))[version[c]]
      /\ chunk'[c] = <<>> /\ cursor'[c] = cursor[c]
  BY DEF Flushes, Held
<1>2. table' = table /\ log' = log /\ current' = current /\ Remaining' = Remaining
  BY DEF tableVars, Remaining
<1>3. PICK x, s, u \in Seq(Messages) : x = chunk[c] /\ s = Coming(c) /\ u = current
  BY TableTypes, ComingType, Zenon DEF Behind
<1>4. version[c] \in Versions /\ view[c] \in SUBSET Routes
  BY DEF TypeOK
<1>5. PICK r \in Seq(Messages) : r = s \o u
  <2>1. s \o u \in Seq(Messages)
    BY ConcatProperties, Zenon
  <2> QED
    BY <2>1, Zenon
<1>6. x \o s \o u = Join(x, r) /\ <<>> \o s \o u = r
  <2>1. x \o s \o u = x \o (s \o u) /\ <<>> \o s \o u = s \o u
    OBVIOUS
  <2> QED
    BY <1>5, <2>1, Zenon DEF Join
<1>7. Backlog(c) = Join(x, r) /\ Backlog(c)' = r
  <2>1. Backlog(c) = x \o s \o u
    BY <1>3, Zenon DEF Backlog, Coming
  <2>2. Backlog(c)' = <<>> \o s \o u
    BY <1>1, <1>2, <1>3, Zenon DEF Backlog, Coming
  <2> QED
    BY <1>6, <2>1, <2>2, Zenon
<1>8. Makes(version[c], view[c], Join(x, r), table, Remaining)
  BY <1>1, <1>7, Zenon DEF Behind
<1>9. Makes(version[c], Replay(Only(version[c], view[c]), Frame(x, version[c]))[version[c]],
            r, table, Remaining)
  BY <1>4, <1>8, MakesFlushed
<1>10. <<>> \in Seq(Messages)
  OBVIOUS
<1> QED
  BY <1>1, <1>2, <1>3, <1>7, <1>9, <1>10, Zenon DEF Behind

LEMMA ConnStepBehind ==
  ASSUME TypeOK, PlaceInv, AgainInv, BehindInv, NEW c \in Conns, ConnStep(c)
  PROVE  BehindInv'
<1>1. Effect(c) /\ UNCHANGED tableVars
  BY Here
<1> SUFFICES ASSUME NEW d \in Conns, intact'[d], state'[d] \in {"Sending", "Active"}
             PROVE  Behind(d)'
  BY DEF BehindInv
<1>2. CASE Same(d)
  <2>1. Behind(d)
    BY <1>2 DEF Same, BehindInv
  <2> QED
    BY <1>1, <1>2, <2>1, SameBehind
<1>3. CASE ~Same(d)
  <2>1. d = c
    BY <1>3, Elsewhere
  <2>2. CASE Leaves(d)
    BY <2>2 DEF Leaves
  <2>3. CASE Subscribes(d)
    BY <1>1, <2>3, SubscribeBehind
  <2>4. CASE Shows(d)
    <3>1. Behind(d)
      BY <2>4 DEF Shows, BehindInv
    <3> QED
      BY <1>1, <2>4, <3>1, ShowBehind
  <2>5. CASE Skips(d)
    BY <2>5 DEF Skips
  <2>6. CASE Takes(d)
    <3>1. Behind(d)
      BY <2>6 DEF Takes, BehindInv
    <3> QED
      BY <1>1, <2>6, <3>1, TakeBehind
  <2>7. CASE Flushes(d)
    <3>1. Behind(d)
      BY <2>7 DEF Flushes, BehindInv
    <3> QED
      BY <1>1, <2>7, <3>1, FlushBehind
  <2> QED
    BY <1>1, <1>3, <2>1, <2>2, <2>3, <2>4, <2>5, <2>6, <2>7 DEF Effect
<1> QED
  BY <1>2, <1>3

\* What Pull appends is an item of a chunk.
LEMMA PullType ==
  ASSUME TypeOK, PlaceInv, NEW c \in Conns, Pull(c)
  PROVE  TypeOK'
<1> DEFINE Items == Messages \cup {Lagged}
<1>1. /\ chunk \in [Conns -> Seq(Items)] /\ chunk[c] \in Seq(Items) /\ Len(chunk[c]) < MaxChunk
      /\ \A d \in Conns : Len(chunk[d]) <= MaxChunk
  BY DEF TypeOK, Pull, Room
<1>2. /\ cursor[c] \in 1 .. Len(log) + 1 /\ cursor[c] <= Len(log) /\ log \in Seq(Messages)
      /\ Len(log) \in Nat /\ cursor \in [Conns -> Nat] /\ Oldest \in 1 .. Len(log) + 1
  BY TableTypes, OldestPlace DEF TypeOK, PlaceInv, Pull
<1>3. PICK x \in Items : /\ chunk' = [chunk EXCEPT ![c] = Append(@, x)]
                         /\ cursor'[c] \in Nat /\ cursor' \in [Conns -> Nat]
                         /\ intact' \in [Conns -> BOOLEAN]
  <2>1. CASE cursor[c] < Oldest
    <3>1. /\ chunk' = [chunk EXCEPT ![c] = Append(@, Lagged)]
          /\ cursor' = [cursor EXCEPT ![c] = Oldest]
          /\ intact' = [intact EXCEPT ![c] = FALSE]
      BY <2>1 DEF Pull
    <3>2. Oldest \in Nat
      BY <1>2
    <3>3. cursor' \in [Conns -> Nat] /\ cursor'[c] \in Nat /\ intact' \in [Conns -> BOOLEAN]
      BY <1>2, <3>1, <3>2 DEF TypeOK
    <3> QED
      BY <3>1, <3>3, Zenon
  <2>2. CASE ~(cursor[c] < Oldest)
    <3>1. log[cursor[c]] \in Items
      <4>1. cursor[c] \in 1 .. Len(log)
        BY <1>2
      <4> QED
        BY <1>2, <4>1
    <3>2. /\ chunk' = [chunk EXCEPT ![c] = Append(@, log[cursor[c]])]
          /\ cursor' = [cursor EXCEPT ![c] = @ + 1]
          /\ intact' = intact
      BY <2>2 DEF Pull
    <3>3. cursor' \in [Conns -> Nat] /\ cursor'[c] \in Nat /\ intact' \in [Conns -> BOOLEAN]
      BY <1>2, <3>2 DEF TypeOK
    <3> HIDE DEF Items
    <3> QED
      BY <3>1, <3>2, <3>3, Zenon
  <2> QED
    BY <2>1, <2>2
<1>4. chunk' \in [Conns -> Seq(Items)] /\ \A d \in Conns : Len(chunk'[d]) <= MaxChunk
  <2>1. Append(chunk[c], x) \in Seq(Items) /\ Len(Append(chunk[c], x)) = Len(chunk[c]) + 1
    BY <1>1, AppendProperties
  <2>2. Len(Append(chunk[c], x)) <= MaxChunk
    <3>1. MaxChunk \in Nat /\ Len(chunk[c]) \in Nat
      BY <1>1, ConnectionAssumption
    <3> QED
      BY <1>1, <2>1, <3>1
  <2> QED
    BY <1>1, <1>3, <2>1, <2>2
<1>5. UNCHANGED <<tableVars, state, version, snapshot, inbox, sent, open, view>>
  BY DEF Pull
<1> QED
  BY <1>3, <1>4, <1>5 DEF TypeOK, TableTypeOK, tableVars

\* A chunk that is emptied, or left as it is, is one.
LEMMA ChunkGone ==
  ASSUME TypeOK, NEW c \in Conns,
         chunk' = [chunk EXCEPT ![c] = <<>>] \/ chunk' = chunk
  PROVE  /\ chunk' \in [Conns -> Seq(Messages \cup {Lagged})]
         /\ \A d \in Conns : Len(chunk'[d]) <= MaxChunk
<1> DEFINE e == <<>>
           Q == Seq(Messages \cup {Lagged})
<1>1. e \in Q /\ Len(e) = 0
  OBVIOUS
<1>2. chunk \in [Conns -> Q] /\ \A d \in Conns : Len(chunk[d]) <= MaxChunk
  BY DEF TypeOK
<1>3. 0 <= MaxChunk
  BY ConnectionAssumption
<1>4. chunk' = [chunk EXCEPT ![c] = e] \/ chunk' = chunk
  OBVIOUS
<1> HIDE DEF e, Q
<1>5. chunk' \in [Conns -> Q] /\ \A d \in Conns : Len(chunk'[d]) <= MaxChunk
  <2>1. CASE chunk' = chunk
    BY <1>2, <2>1
  <2>2. CASE chunk' = [chunk EXCEPT ![c] = e]
    BY <1>1, <1>2, <1>3, <2>2
  <2> QED
    BY <1>4, <2>1, <2>2
<1> QED
  BY <1>5 DEF Q

\* The peer's updates are updates, whatever the chunk holds.
LEMMA FrameType ==
  ASSUME TypeOK, NEW c \in Conns, NEW v \in Versions
  PROVE  Frame(chunk[c], v) \in Seq(Updates)
<1>1. chunk[c] \in Seq(Messages \cup {Lagged})
  BY DEF TypeOK
<1>2. Keep(chunk[c], Messages) \in Seq((Messages \cup {Lagged}) \cap Messages)
  BY <1>1, KeepType
<1>3. (Messages \cup {Lagged}) \cap Messages = Messages
  OBVIOUS
<1>4. Keep(chunk[c], Messages) \in Seq(Seq(Updates))
  BY <1>2, <1>3, MessageType
<1>5. Flatten(Keep(chunk[c], Messages)) \in Seq(Updates)
  BY <1>4, FlattenType
<1> QED
  BY <1>5, KeepType DEF Frame

LEMMA FlushType ==
  ASSUME TypeOK, NEW c \in Conns, Flush(c)
  PROVE  TypeOK'
<1> DEFINE v == version[c]
           held == Replay(Only(v, view[c]), Frame(chunk[c], v))[v]
<1>1. v \in Versions /\ view[c] \in SUBSET Routes /\ view \in [Conns -> SUBSET Routes]
  BY DEF TypeOK
<1>2. held \in SUBSET Routes
  <2>1. Only(v, view[c]) \in Tables /\ Frame(chunk[c], v) \in Seq(Updates)
    BY <1>1, OnlyType, FrameType
  <2>2. Replay(Only(v, view[c]), Frame(chunk[c], v)) \in Tables
    BY <2>1, ReplayType
  <2> QED
    BY <1>1, <2>2 DEF Tables
<1>3. view' = [view EXCEPT ![c] = held] /\ chunk' = [chunk EXCEPT ![c] = <<>>]
  BY DEF Flush
<1> HIDE DEF held, v
<1>4. view' \in [Conns -> SUBSET Routes]
  BY <1>1, <1>2, <1>3
<1>5. UNCHANGED <<tableVars, state, version, snapshot, cursor, inbox, sent, open, intact>>
  BY DEF Flush
<1> QED
  BY <1>3, <1>4, <1>5, ChunkGone DEF TypeOK, TableTypeOK, tableVars

\* What is read leaves a queue of what was sent.
LEMMA ReadsType ==
  ASSUME TypeOK, NEW c \in Conns, NEW m \in Received, Reads(c, m)
  PROVE  inbox' \in [Conns -> Seq(Received)]
<1>1. inbox \in [Conns -> Seq(Received)] /\ inbox[c] # <<>>
  BY DEF TypeOK, Reads
<1>2. Tail(inbox[c]) \in Seq(Received)
  BY <1>1
<1> QED
  BY <1>1, <1>2 DEF Reads

LEMMA ConnStepType ==
  ASSUME TypeOK, PlaceInv, NEW c \in Conns, ConnStep(c)
  PROVE  TypeOK'
<1>1. CASE Pull(c)
  BY <1>1, PullType
<1>2. CASE Flush(c)
  BY <1>2, FlushType
<1>3. CASE IdleReceive(c) \/ ActiveReceive(c)
  <2>1. PICK m \in Received : Reads(c, m)
    BY <1>3 DEF IdleReceive, ActiveReceive
  <2>2. inbox' \in [Conns -> Seq(Received)]
    BY <2>1, ReadsType
  <2>3. /\ state' \in [Conns -> {"Idle", "Synchronizing", "Sending", "Active",
                                 "Closing", "Closed", "Panicked"}]
        /\ version' \in [Conns -> Versions]
        /\ chunk' = [chunk EXCEPT ![c] = <<>>] \/ chunk' = chunk
    <3>1. CASE IdleReceive(c)
      BY <3>1 DEF IdleReceive, Become, TypeOK
    <3>2. CASE ActiveReceive(c)
      <4>1. \/ /\ \E v \in Versions : version' = [version EXCEPT ![c] = v]
               /\ state' = [state EXCEPT ![c] = "Synchronizing"]
               /\ chunk' = [chunk EXCEPT ![c] = <<>>]
            \/ UNCHANGED <<state, version, chunk>>
            \/ /\ state' = [state EXCEPT ![c] = "Closing"] /\ version' = version
               /\ chunk' = [chunk EXCEPT ![c] = <<>>]
        BY <3>2 DEF ActiveReceive, Become
      <4>2. /\ state \in [Conns -> {"Idle", "Synchronizing", "Sending", "Active",
                                    "Closing", "Closed", "Panicked"}]
            /\ version \in [Conns -> Versions]
        BY DEF TypeOK
      <4> QED
        BY <4>1, <4>2
    <3> QED
      BY <1>3, <3>1, <3>2
  <2>4. UNCHANGED <<tableVars, snapshot, cursor, sent, open, view, intact>>
    BY <1>3 DEF IdleReceive, ActiveReceive
  <2> QED
    BY <2>2, <2>3, <2>4, ChunkGone DEF TypeOK, TableTypeOK, tableVars
<1>4. CASE Subscribe(c)
  <2>1. table[version[c]] \in SUBSET Routes /\ Len(log) + 1 \in Nat
    <3>1. version[c] \in Versions /\ table \in [Versions -> SUBSET Routes] /\ Len(log) \in Nat
      BY TableTypes DEF TypeOK, TableTypeOK
    <3> QED
      BY <3>1
  <2>2. raced \in BOOLEAN
    BY DEF TypeOK, TableTypeOK
  <2>3. /\ snapshot' \in [Conns -> SUBSET Routes] /\ cursor' \in [Conns -> Nat]
        /\ intact' \in [Conns -> BOOLEAN]
        /\ state' \in [Conns -> {"Idle", "Synchronizing", "Sending", "Active",
                                 "Closing", "Closed", "Panicked"}]
    BY <1>4, <2>1, <2>2 DEF Subscribe, Become, TypeOK, Resume
  <2>4. UNCHANGED <<tableVars, version, chunk, inbox, sent, open, view>>
    BY <1>4 DEF Subscribe
  <2> QED
    BY <2>3, <2>4 DEF TypeOK, TableTypeOK, tableVars
<1>5. CASE SendSnapshot(c) \/ SendSnapshotFails(c)
  <2>1. /\ snapshot' \in [Conns -> SUBSET Routes] /\ view' \in [Conns -> SUBSET Routes]
        /\ state' \in [Conns -> {"Idle", "Synchronizing", "Sending", "Active",
                                 "Closing", "Closed", "Panicked"}]
    <3>1. CASE SendSnapshot(c)
      BY <3>1 DEF SendSnapshot, Become, TypeOK
    <3>2. CASE SendSnapshotFails(c)
      BY <3>2 DEF SendSnapshotFails, Become, TypeOK
    <3> QED
      BY <1>5, <3>1, <3>2
  <2>2. UNCHANGED <<tableVars, version, cursor, chunk, inbox, sent, open, intact>>
    BY <1>5 DEF SendSnapshot, SendSnapshotFails
  <2> QED
    BY <2>1, <2>2 DEF TypeOK, TableTypeOK, tableVars
<1>6. CASE FlushFails(c) \/ SocketEnds(c) \/ Close(c)
  <2>1. /\ state' \in [Conns -> {"Idle", "Synchronizing", "Sending", "Active",
                                 "Closing", "Closed", "Panicked"}]
        /\ chunk' = [chunk EXCEPT ![c] = <<>>] \/ chunk' = chunk
    BY <1>6 DEF FlushFails, SocketEnds, Close, Become, TypeOK
  <2>2. UNCHANGED <<tableVars, version, snapshot, cursor, inbox, sent, open, view, intact>>
    BY <1>6 DEF FlushFails, SocketEnds, Close
  <2> QED
    BY <2>1, <2>2, ChunkGone DEF TypeOK, TableTypeOK, tableVars
<1>7. CASE Peer(c)
  <2>1. CASE PeerGoes(c)
    BY <2>1 DEF PeerGoes, TypeOK, TableTypeOK, tableVars
  <2>2. CASE \E m \in Received : PeerSends(c, m)
    <3>1. PICK m \in Received : PeerSends(c, m)
      BY <2>2
    <3>2. inbox \in [Conns -> Seq(Received)] /\ Append(inbox[c], m) \in Seq(Received)
      BY DEF TypeOK
    <3>3. inbox' \in [Conns -> Seq(Received)] /\ sent' \in [Conns -> Nat]
      BY <3>1, <3>2 DEF PeerSends, TypeOK
    <3> QED
      BY <3>1, <3>3 DEF PeerSends, TypeOK, TableTypeOK, tableVars
  <2> QED
    BY <1>7, <2>1, <2>2 DEF Peer
<1> QED
  BY <1>1, <1>2, <1>3, <1>4, <1>5, <1>6, <1>7 DEF ConnStep, Deliver, Control

-----------------------------------------------------------------------------
\* The connections by themselves.

LEMMA ConnInit ==
  Init => ConnInv
<1> SUFFICES ASSUME Init
             PROVE  ConnInv
  OBVIOUS
<1> DEFINE e == <<>>
<1>1. e \in Seq(Messages) /\ e \in Seq(Messages \cup {Lagged}) /\ e \in Seq(Received) /\ Len(e) = 0
  OBVIOUS
<1>2. (CHOOSE v \in Versions : TRUE) \in Versions /\ 0 <= MaxChunk
  BY ConnectionAssumption
<1>3. /\ log = e /\ current = e /\ applied = 0 /\ chunk = [c \in Conns |-> e]
      /\ inbox = [c \in Conns |-> e]
  BY DEF Init, TableInit
<1>4. /\ state = [c \in Conns |-> "Idle"] /\ intact = [c \in Conns |-> FALSE]
      /\ cursor = [c \in Conns |-> 1]
  BY DEF Init
<1> HIDE DEF e
<1>5. TableTypeOK
  <2>1. table \in [Versions -> SUBSET Routes] /\ unseeded \subseteq Versions /\ raced \in BOOLEAN
    BY DEF Init, TableInit
  <2>2. /\ current \in Seq(Messages) /\ Len(current) <= 1 /\ applied \in Nat
        /\ log \in Seq(Messages)
    BY <1>1, <1>3
  <2> QED
    BY <2>1, <2>2 DEF TableTypeOK
<1>6. /\ chunk \in [Conns -> Seq(Messages \cup {Lagged})] /\ \A c \in Conns : Len(chunk[c]) <= MaxChunk
      /\ inbox \in [Conns -> Seq(Received)]
  BY <1>1, <1>2, <1>3
<1>7. TypeOK
  BY <1>2, <1>4, <1>5, <1>6 DEF Init, TypeOK
<1>8. PlaceInv
  BY <1>1, <1>3, <1>4 DEF PlaceInv, Served, e
<1>9. AgainInv
  BY <1>3 DEF AgainInv, e
<1>10. BehindInv
  BY <1>4 DEF BehindInv
<1> QED
  BY <1>7, <1>8, <1>9, <1>10 DEF ConnInv

LEMMA TableStepInv ==
  ASSUME ConnInv, TableNext, UNCHANGED connVars
  PROVE  ConnInv'
<1>1. TypeOK' /\ PlaceInv' /\ AgainInv'
  BY TableStepType, TableStepPlace, StepAgain DEF ConnInv
<1>2. BehindInv'
  <2> SUFFICES ASSUME NEW c \in Conns, intact'[c], state'[c] \in {"Sending", "Active"}
               PROVE  Behind(c)'
    BY DEF BehindInv
  <2>1. intact[c] /\ state[c] \in {"Sending", "Active"}
    BY DEF connVars
  <2>2. Behind(c) /\ Served(c)
    BY <2>1 DEF ConnInv, BehindInv, Served
  <2> QED
    BY <2>2, TableStepBehind DEF ConnInv
<1> QED
  BY <1>1, <1>2 DEF ConnInv

LEMMA ConnStepInv ==
  ASSUME ConnInv, NEW c \in Conns, ConnStep(c)
  PROVE  ConnInv'
<1>1. UNCHANGED tableVars
  BY Here DEF ConnInv
<1>2. AgainInv'
  BY <1>1 DEF ConnInv, AgainInv, tableVars
<1> QED
  BY <1>2, ConnStepType, ConnStepPlace, ConnStepBehind DEF ConnInv

LEMMA ConnStutter ==
  ASSUME ConnInv, UNCHANGED vars
  PROVE  ConnInv'
<1>1. UNCHANGED tableVars /\ UNCHANGED connVars
  BY DEF vars
<1>2. TypeOK' /\ PlaceInv' /\ AgainInv'
  BY <1>1 DEF ConnInv, TypeOK, TableTypeOK, PlaceInv, AgainInv, Served, tableVars, connVars
<1>3. BehindInv'
  <2> SUFFICES ASSUME NEW c \in Conns, intact'[c], state'[c] \in {"Sending", "Active"}
               PROVE  Behind(c)'
    BY DEF BehindInv
  <2>1. Same(c) /\ Behind(c)
    BY <1>1 DEF connVars, Same, ConnInv, BehindInv
  <2> QED
    BY <1>1, <2>1, SameBehind
<1> QED
  BY <1>2, <1>3 DEF ConnInv

LEMMA ConnAlways ==
  Spec => []ConnInv
<1>1. ConnInv /\ [Next]_vars => ConnInv'
  BY TableStepInv, ConnStepInv, ConnStutter DEF Next, ConnStep
<1> QED
  BY <1>1, ConnInit, PTL DEF Spec

LEMMA BacklogType ==
  ASSUME TypeOK, PlaceInv, NEW c \in Conns, chunk[c] \in Seq(Messages)
  PROVE  Backlog(c) \in Seq(Messages)
<1>1. PICK x, s, u \in Seq(Messages) : x = chunk[c] /\ s = Coming(c) /\ u = current
  BY TableTypes, ComingType, Zenon
<1>2. x \o s \o u \in Seq(Messages)
  OBVIOUS
<1> QED
  BY <1>1, <1>2, Zenon DEF Backlog, Coming

LEMMA InvInSync ==
  ASSUME ConnInv
  PROVE  InSync
<1> SUFFICES ASSUME NEW c \in Conns, intact[c], state[c] \in {"Sending", "Active"}
             PROVE  Reaches(c, Held(c)) = Due(version[c])
  BY DEF InSync, Intact, Held
<1>1. Behind(c)
  BY DEF ConnInv, BehindInv
<1>2. version[c] \in Versions /\ Held(c) \in SUBSET Routes
  BY DEF ConnInv, TypeOK, Held
<1>3. Backlog(c) \in Seq(Messages) /\ Only(version[c], Held(c)) \in Tables
  BY <1>1, <1>2, BacklogType, OnlyType DEF ConnInv, Behind
<1>4. Replay(Only(version[c], Held(c)), Frame(Backlog(c), version[c]))[version[c]] =
        Replay(Only(version[c], Held(c)), Flatten(Backlog(c)))[version[c]]
  BY <1>2, <1>3, FrameMakes
<1> QED
  BY <1>1, <1>4, Zenon DEF Behind, Makes, Reaches, Due

\* The variables of the route table and of the connections keep their types: no
\* chunk is longer than the code's, and no receiver before the channel's start.
THEOREM ConnectionTypes == Spec => []TypeOK
<1>1. ConnInv => TypeOK
  BY DEF ConnInv
<1> QED
  BY <1>1, ConnAlways, PTL

\* Snapshot, chunk, channel and the message in progress make the routes the tries
\* come to, for every subscription that has not lagged (connection.rs,
\* route_table.rs: subscribe, ingest), with any number of connections.
THEOREM SubscriptionsInSync == Spec => []InSync
<1>1. ConnInv => InSync
  BY InvInSync
<1> QED
  BY <1>1, ConnAlways, PTL

-----------------------------------------------------------------------------
\* The laws of what the browser hears.

Holdings == Seq(SUBSET Routes)

LEMMA AppliedType ==
  ASSUME NEW routes \in SUBSET Routes, NEW s \in Seq(Updates)
  PROVE  Applied(routes, s) \in SUBSET Routes
<1>1. Asked \in Versions
  BY SessionAssumption
<1>2. Replay(Only(Asked, routes), s) \in Tables
  BY <1>1, OnlyType, ReplayType
<1> QED
  BY <1>1, <1>2 DEF Applied, Tables

LEMMA HearsType ==
  ASSUME NEW held \in Holdings, NEW m \in Replies
  PROVE  Hears(held, m) \in Holdings
<1>1. CASE m.kind = "TrieSnapshot"
  <2>1. m.routes \in SUBSET Routes
    BY <1>1 DEF Replies
  <2>2. <<m.routes>> \in Holdings
    BY <2>1 DEF Holdings
  <2> QED
    BY <1>1, <2>2 DEF Hears
<1>2. CASE m.kind # "TrieSnapshot"
  <2>1. CASE held = <<>>
    BY <1>2, <2>1 DEF Hears
  <2>2. CASE held # <<>>
    <3>1. m.updates \in Seq(Updates) /\ held[1] \in SUBSET Routes
      BY <1>2, <2>2 DEF Replies, Holdings
    <3>2. Applied(held[1], m.updates) \in SUBSET Routes
      BY <3>1, AppliedType
    <3>3. <<Applied(held[1], m.updates)>> \in Holdings
      BY <3>2 DEF Holdings
    <3> QED
      BY <1>2, <2>2, <3>3 DEF Hears
  <2> QED
    BY <2>1, <2>2
<1> QED
  BY <1>1, <1>2

\* g holds what the browser has after each message of s.
HearsEach(g, held, s) == g[0] = held /\ \A k \in 1 .. Len(s) : g[k] = Hears(g[k - 1], s[k])

LEMMA HearsUnfolds ==
  ASSUME NEW held \in Holdings, NEW s \in Seq(Replies)
  PROVE  \E g \in [0 .. Len(s) -> Holdings] :
           HearsEach(g, held, s) /\ HearsAll(held, s) = g[Len(s)]
<1> DEFINE F == [k \in 1 .. Len(s) |-> [x \in Holdings |-> Hears(x, s[k])]]
           UpTo(g) == [k \in 0 .. Len(s) |-> IF k = 0 THEN held ELSE Hears(g[k - 1], s[k])]
<1>1. F \in [1 .. Len(s) -> [Holdings -> Holdings]]
  BY HearsType
<1>2. PICK g \in [0 .. Len(s) -> Holdings] :
        g[0] = held /\ \A k \in 1 .. Len(s) : g[k] = F[k][g[k - 1]]
  <2> DEFINE n == Len(s)
  <2>1. n \in Nat /\ F \in [1 .. n -> [Holdings -> Holdings]]
    BY <1>1
  <2> HIDE DEF F, n
  <2>2. \E g \in [0 .. n -> Holdings] : Follows(g, n, held, F)
    BY <2>1, IntervalRecursion
  <2> QED
    BY <2>2 DEF Follows, n
<1>3. ASSUME NEW k \in 1 .. Len(s)
      PROVE  g[k] = Hears(g[k - 1], s[k])
  <2>1. k - 1 \in 0 .. Len(s)
    OBVIOUS
  <2>2. g[k - 1] \in Holdings
    BY <1>2, <2>1
  <2> QED
    BY <1>2, <2>2
<1>4. g = UpTo(g)
  <2>1. ASSUME NEW k \in 0 .. Len(s)
        PROVE  g[k] = IF k = 0 THEN held ELSE Hears(g[k - 1], s[k])
    <3>1. CASE k = 0
      BY <1>2, <3>1
    <3>2. CASE k # 0
      <4>1. k \in 1 .. Len(s)
        BY <3>2
      <4> QED
        BY <1>3, <3>2, <4>1
    <3> QED
      BY <3>1, <3>2
  <2> QED
    BY <1>2, <2>1
<1> DEFINE c == CHOOSE f : f = UpTo(f)
<1>5. c = UpTo(c)
  <2> HIDE DEF UpTo
  <2> QED
    BY <1>4
<1>6. HearsAll(held, s) = c[Len(s)]
  BY DEF HearsAll
<1> HIDE DEF c
<1>7. c[0] = held
  BY <1>5
<1>8. ASSUME NEW k \in 1 .. Len(s)
      PROVE  c[k] = Hears(c[k - 1], s[k])
  <2>1. k \in 0 .. Len(s) /\ k # 0
    OBVIOUS
  <2>2. UpTo(c)[k] = Hears(c[k - 1], s[k])
    BY <2>1
  <2> QED
    BY <1>5, <2>2
<1>9. \A k \in 0 .. Len(s) : g[k] = c[k]
  <2> DEFINE D == {k \in 0 .. Len(s) : g[k] = c[k]}
  <2>1. 0 \in D
    BY <1>2, <1>7
  <2>2. \A k \in 1 .. Len(s) : k - 1 \in D => k \in D
    BY <1>3, <1>8
  <2> HIDE DEF D
  <2>3. D = 0 .. Len(s)
    <3>1. D \in SUBSET (0 .. Len(s))
      BY DEF D
    <3> QED
      BY <2>1, <2>2, <3>1, IntervalInduction
  <2> QED
    BY <2>3 DEF D
<1> QED
  BY <1>2, <1>3, <1>6, <1>9 DEF HearsEach

LEMMA HearsAllType ==
  ASSUME NEW held \in Holdings, NEW s \in Seq(Replies)
  PROVE  HearsAll(held, s) \in Holdings
  BY HearsUnfolds

LEMMA HearsNone ==
  ASSUME NEW held \in Holdings
  PROVE  HearsAll(held, <<>>) = held
<1> DEFINE e == <<>>
<1>1. e \in Seq(Replies) /\ Len(e) = 0
  OBVIOUS
<1> HIDE DEF e
<1>2. PICK g \in [0 .. Len(e) -> Holdings] :
        HearsEach(g, held, e) /\ HearsAll(held, e) = g[Len(e)]
  BY <1>1, HearsUnfolds
<1> QED
  BY <1>1, <1>2 DEF HearsEach, e

\* One more message is on the wire.
LEMMA HearsSnoc ==
  ASSUME NEW held \in Holdings, NEW s \in Seq(Replies), NEW m \in Replies
  PROVE  HearsAll(held, Snoc(s, m)) = Hears(HearsAll(held, s), m)
<1> DEFINE z == Append(s, m)
           n == Len(s)
           D(g, h) == {k \in 0 .. n : g[k] = h[k]}
<1>1. /\ z \in Seq(Replies) /\ Len(z) = n + 1 /\ z[n + 1] = m /\ n \in Nat
      /\ \A k \in 1 .. n : z[k] = s[k]
  OBVIOUS
<1> HIDE DEF z, n
<1>2. PICK g \in [0 .. Len(s) -> Holdings] :
        HearsEach(g, held, s) /\ HearsAll(held, s) = g[Len(s)]
  BY HearsUnfolds
<1>3. PICK h \in [0 .. Len(z) -> Holdings] :
        HearsEach(h, held, z) /\ HearsAll(held, z) = h[Len(z)]
  BY <1>1, HearsUnfolds
<1>4. 0 \in D(g, h)
  BY <1>1, <1>2, <1>3 DEF HearsEach
<1>5. ASSUME NEW k \in 1 .. n, k - 1 \in D(g, h)
      PROVE  k \in D(g, h)
  <2>1. k \in 1 .. n + 1 /\ g[k - 1] = h[k - 1] /\ z[k] = s[k]
    BY <1>1, <1>5
  <2>2. g[k] = Hears(g[k - 1], s[k])
    BY <1>2 DEF HearsEach, n
  <2>3. h[k] = Hears(h[k - 1], z[k])
    BY <1>1, <1>3, <2>1 DEF HearsEach
  <2> QED
    BY <2>1, <2>2, <2>3
<1>6. D(g, h) = 0 .. n
  <2>1. D(g, h) \in SUBSET (0 .. n)
    OBVIOUS
  <2> HIDE DEF D
  <2> QED
    BY <1>1, <1>4, <1>5, <2>1, IntervalInduction
<1>7. g[n] = h[n]
  <2>1. n \in 0 .. n
    BY <1>1
  <2>2. n \in D(g, h)
    BY <1>6, <2>1
  <2> QED
    BY <2>2
<1>8. HearsAll(held, z) = Hears(h[n], m)
  <2>1. n + 1 \in 1 .. Len(z) /\ (n + 1) - 1 = n
    BY <1>1
  <2> QED
    BY <1>1, <1>3, <2>1 DEF HearsEach
<1> QED
  BY <1>2, <1>7, <1>8 DEF z, n, Snoc

\* The first message of the wire is read.
LEMMA HearsFirst ==
  ASSUME NEW held \in Holdings, NEW m \in Replies, NEW s \in Seq(Replies)
  PROVE  HearsAll(held, Join(<<m>>, s)) = HearsAll(Hears(held, m), s)
<1> DEFINE o == <<m>>
           e == <<>>
           D == {q \in Seq(Replies) : HearsAll(held, Join(o, q)) = HearsAll(Hears(held, m), q)}
<1>1. o \in Seq(Replies) /\ e \in Seq(Replies) /\ o = Snoc(e, m)
  BY DEF Snoc
<1>2. HearsAll(held, e) = held
  BY HearsNone
<1>3. Hears(held, m) \in Holdings
  BY HearsType
<1>4. HearsAll(Hears(held, m), e) = Hears(held, m)
  BY <1>3, HearsNone
<1>5. Join(o, e) = o
  <2> HIDE DEF o
  <2> QED
    BY <1>1, JoinEmpty
<1> HIDE DEF o, e
<1>6. HearsAll(held, o) = Hears(held, m)
  BY <1>1, <1>2, HearsSnoc
<1>7. e \in D
  BY <1>1, <1>4, <1>5, <1>6
<1>8. ASSUME NEW q \in Seq(Replies), NEW x \in Replies, q \in D
      PROVE  Snoc(q, x) \in D
  <2>1. /\ Snoc(q, x) \in Seq(Replies) /\ Join(o, q) \in Seq(Replies)
        /\ Join(o, Snoc(q, x)) = Snoc(Join(o, q), x)
    BY <1>1, JoinTypes, JoinSnoc
  <2>2. HearsAll(held, Snoc(Join(o, q), x)) = Hears(HearsAll(held, Join(o, q)), x)
    BY <2>1, HearsSnoc
  <2>3. HearsAll(Hears(held, m), Snoc(q, x)) = Hears(HearsAll(Hears(held, m), q), x)
    BY <1>3, HearsSnoc
  <2> QED
    BY <1>8, <2>1, <2>2, <2>3
<1> HIDE DEF D
<1>9. Seq(Replies) \subseteq D
  BY <1>7, <1>8, SnocInduction DEF e
<1> QED
  BY <1>9 DEF D, o

-----------------------------------------------------------------------------
\* The session: the steps that are none of a table or a connection.

LEMMA Us ==
  us \in Conns /\ \A c \in Conns : c = us
<1>1. PICK d \in Conns : Conns = {d}
  BY SessionAssumption
<1>2. us \in Conns
  BY <1>1 DEF us
<1> QED
  BY <1>1, <1>2

LEMMA CrashInv ==
  ASSUME ConnInv, Crash
  PROVE  ConnInv'
<1> DEFINE e == <<>>
<1>1. e \in Seq(Messages) /\ e \in Seq(Messages \cup {Lagged}) /\ e \in Seq(Received) /\ Len(e) = 0
  OBVIOUS
<1>2. 0 <= MaxChunk
  BY ConnectionAssumption
<1>3. /\ log' = e /\ current' = e /\ applied' = 0 /\ chunk' = [c \in Conns |-> e]
      /\ inbox' = [c \in Conns |-> e]
  BY DEF Crash
<1>4. /\ state' = [c \in Conns |-> "Closed"] /\ intact' = [c \in Conns |-> FALSE]
      /\ cursor' = [c \in Conns |-> 1] /\ open' = [c \in Conns |-> FALSE]
      /\ snapshot' = [c \in Conns |-> {}]
      /\ UNCHANGED <<version, sent, view>>
  BY DEF Crash
<1>5. /\ table' \in [Versions -> SUBSET Routes] /\ unseeded' \subseteq Versions
      /\ raced' \in BOOLEAN
  BY DEF Crash
<1> HIDE DEF e
<1>6. TableTypeOK'
  <2>1. /\ current' \in Seq(Messages) /\ Len(current') <= 1 /\ applied' \in Nat
        /\ log' \in Seq(Messages)
    BY <1>1, <1>3
  <2> QED
    BY <1>5, <2>1 DEF TableTypeOK
<1>7. /\ chunk' \in [Conns -> Seq(Messages \cup {Lagged})] /\ \A c \in Conns : Len(chunk'[c]) <= MaxChunk
      /\ inbox' \in [Conns -> Seq(Received)]
  BY <1>1, <1>2, <1>3
<1>8. TypeOK'
  BY <1>4, <1>6, <1>7 DEF ConnInv, TypeOK
<1>9. PlaceInv'
  BY <1>1, <1>3, <1>4 DEF PlaceInv, Served, e
<1>10. AgainInv' /\ BehindInv'
  BY <1>3, <1>4 DEF AgainInv, BehindInv, e
<1> QED
  BY <1>8, <1>9, <1>10 DEF ConnInv

LEMMA OpenInv ==
  ASSUME ConnInv, OpenSocket
  PROVE  ConnInv'
<1>1. /\ state' = [state EXCEPT ![us] = "Idle"] /\ open' = [open EXCEPT ![us] = TRUE]
      /\ intact' = [intact EXCEPT ![us] = FALSE] /\ snapshot' = [snapshot EXCEPT ![us] = {}]
      /\ cursor' = [cursor EXCEPT ![us] = 1] /\ chunk' = [chunk EXCEPT ![us] = <<>>]
      /\ inbox' = [inbox EXCEPT ![us] = <<>>] /\ view' = [view EXCEPT ![us] = {}]
      /\ UNCHANGED <<tableVars, version, sent>>
  BY DEF OpenSocket
<1>2. TypeOK /\ us \in Conns /\ \A c \in Conns : c = us
  BY Us DEF ConnInv
<1>3. inbox' \in [Conns -> Seq(Received)]
  <2>1. inbox \in [Conns -> Seq(Received)] /\ <<>> \in Seq(Received)
    BY <1>2 DEF TypeOK
  <2> QED
    BY <1>1, <2>1
<1>4. /\ chunk' \in [Conns -> Seq(Messages \cup {Lagged})]
      /\ \A d \in Conns : Len(chunk'[d]) <= MaxChunk
  BY <1>1, <1>2, ChunkGone
<1>5. TypeOK'
  <2>1. /\ state' \in [Conns -> {"Idle", "Synchronizing", "Sending", "Active",
                                 "Closing", "Closed", "Panicked"}]
        /\ open' \in [Conns -> BOOLEAN] /\ intact' \in [Conns -> BOOLEAN]
        /\ snapshot' \in [Conns -> SUBSET Routes] /\ view' \in [Conns -> SUBSET Routes]
        /\ cursor' \in [Conns -> Nat]
    BY <1>1, <1>2 DEF TypeOK
  <2> QED
    BY <1>1, <1>2, <1>3, <1>4, <2>1 DEF TypeOK, TableTypeOK, tableVars
<1>6. state'[us] = "Idle" /\ intact'[us] = FALSE /\ chunk'[us] = <<>> /\ cursor'[us] = 1
  BY <1>1, <1>2 DEF TypeOK
<1>7. PlaceInv'
  <2>1. Len(log) \in Nat
    BY <1>2, TableTypes
  <2>2. 1 \in 1 .. Len(log) + 1
    BY <2>1
  <2> QED
    BY <1>1, <1>2, <1>6, <2>2 DEF ConnInv, PlaceInv, Served, tableVars
<1>8. AgainInv'
  BY <1>1 DEF ConnInv, AgainInv, tableVars
<1>9. BehindInv'
  BY <1>2, <1>6 DEF BehindInv
<1> QED
  BY <1>5, <1>7, <1>8, <1>9 DEF ConnInv

\* A step that leaves everything but the sockets' ends.
LEMMA DropsInv ==
  ASSUME ConnInv, Drops
  PROVE  ConnInv'
<1>1. /\ open' = [open EXCEPT ![us] = FALSE]
      /\ UNCHANGED <<tableVars, state, version, snapshot, cursor, chunk, inbox, sent, view, intact>>
  BY DEF Drops
<1>2. TypeOK'
  BY <1>1 DEF ConnInv, TypeOK, TableTypeOK, tableVars
<1>3. PlaceInv' /\ AgainInv'
  BY <1>1 DEF ConnInv, PlaceInv, AgainInv, Served, tableVars
<1>4. BehindInv'
  <2> SUFFICES ASSUME NEW c \in Conns, intact'[c], state'[c] \in {"Sending", "Active"}
               PROVE  Behind(c)'
    BY DEF BehindInv
  <2>1. Same(c) /\ Behind(c)
    BY <1>1 DEF Same, ConnInv, BehindInv
  <2> QED
    BY <1>1, <2>1, SameBehind
<1> QED
  BY <1>2, <1>3, <1>4 DEF ConnInv

\* The kinds of steps of a session, as far as the connections see them.
LEMMA SessionCases ==
  ASSUME [SessionNext]_allVars
  PROVE  \/ UNCHANGED vars
         \/ TableNext /\ UNCHANGED connVars
         \/ \E c \in Conns : ConnStep(c)
         \/ Crash \/ OpenSocket \/ Drops
<1>1. CASE UNCHANGED allVars
  BY <1>1 DEF allVars
<1>2. CASE ServerNext
  <2>1. CASE TableStep
    BY <2>1 DEF TableStep
  <2>2. CASE Crash
    BY <2>2
  <2>3. CASE \E c \in Conns : PullStep(c) \/ FlushStep(c) \/ ControlStep(c)
    BY <2>3 DEF PullStep, FlushStep, ControlStep, ConnStep, Deliver, Control
  <2> QED
    BY <1>2, <2>1, <2>2, <2>3 DEF ServerNext
<1>3. CASE SendRequest
  BY <1>3, Us, SessionAssumption DEF SendRequest, ConnStep, Peer, Received
<1>4. CASE Synchronize \/ HandleUpdates
  BY <1>4 DEF Synchronize, HandleUpdates, Reading
<1>5. CASE Draw
  BY <1>5 DEF Draw
<1>6. CASE SendRequestFails \/ Hangup
  BY <1>6 DEF SendRequestFails, Hangup
<1>7. CASE SocketFails
  BY <1>7, Us DEF SocketFails, ConnStep, Peer
<1>8. CASE \E c \in Conns : Program(c)
  BY <1>8 DEF Program, ConnStep
<1>9. CASE OpenSocket
  BY <1>9
<1> QED
  BY <1>1, <1>2, <1>3, <1>4, <1>5, <1>6, <1>7, <1>8, <1>9 DEF SessionNext, BrowserSteps

LEMMA SessionConn ==
  ASSUME ConnInv, [SessionNext]_allVars
  PROVE  ConnInv'
<1>1. CASE UNCHANGED vars
  BY <1>1, ConnStutter
<1>2. CASE TableNext /\ UNCHANGED connVars
  BY <1>2, TableStepInv
<1>3. CASE \E c \in Conns : ConnStep(c)
  BY <1>3, ConnStepInv
<1>4. CASE Crash \/ OpenSocket \/ Drops
  BY <1>4, CrashInv, OpenInv, DropsInv
<1> QED
  BY <1>1, <1>2, <1>3, <1>4, SessionCases

\* What a connection sends.
LEMMA SnapshotReply ==
  ASSUME TypeOK, NEW c \in Conns
  PROVE  Snapshot(version[c], snapshot[c]) \in Replies
  BY DEF TypeOK, Snapshot, Replies

LEMMA FrameReply ==
  ASSUME NEW s \in Seq(Updates)
  PROVE  ThinBgpUpdateFrame(s) \in Replies
  BY DEF ThinBgpUpdateFrame, Replies

LEMMA SendsType ==
  ASSUME SessionTypeOK, NEW c, NEW m \in Replies, Sends(c, m)
  PROVE  SessionTypeOK'
<1>1. wire \in Seq(Replies) /\ Append(wire, m) \in Seq(Replies)
  BY DEF SessionTypeOK
<1>2. wire' \in Seq(Replies)
  BY <1>1 DEF Sends
<1> QED
  BY <1>2 DEF Sends, SessionTypeOK

\* The message that is read.
LEMMA ReadingType ==
  ASSUME SessionTypeOK, NEW m, Reading(m)
  PROVE  /\ m \in Replies /\ wire' \in Seq(Replies) /\ wire = Join(<<m>>, wire')
         /\ wire # <<>> /\ m = wire[1] /\ Len(wire) = Len(wire') + 1
         /\ \A k \in 1 .. Len(wire') : wire'[k] = wire[k + 1]
<1>1. wire \in Seq(Replies) /\ wire # <<>> /\ m = Head(wire) /\ wire' = Tail(wire)
  BY DEF SessionTypeOK, Reading
<1>2. wire = <<Head(wire)>> \o Tail(wire)
  BY <1>1, HeadFirst
<1>3. /\ Tail(wire) \in Seq(Replies) /\ Head(wire) \in Replies /\ Head(wire) = wire[1]
      /\ Len(wire) = Len(Tail(wire)) + 1
      /\ \A k \in 1 .. Len(Tail(wire)) : Tail(wire)[k] = wire[k + 1]
  BY <1>1
<1> QED
  BY <1>1, <1>2, <1>3, Zenon DEF Join

LEMMA SessionType ==
  ASSUME TypeOK, SessionTypeOK, [SessionNext]_allVars
  PROVE  SessionTypeOK'
<1>1. CASE UNCHANGED sessionVars
  BY <1>1 DEF sessionVars, browserVars, SessionTypeOK
<1>2. CASE TableStep
  BY <1>1, <1>2 DEF TableStep, sessionVars
<1>3. CASE Crash
  BY <1>3 DEF Crash, browserVars, SessionTypeOK
<1>4. CASE \E c \in Conns : PullStep(c) \/ FlushStep(c) \/ ControlStep(c)
  <2>1. PICK c \in Conns : PullStep(c) \/ FlushStep(c) \/ ControlStep(c)
    BY <1>4
  <2>2. CASE Flush(c) /\ Sends(c, ThinBgpUpdateFrame(Frame(chunk[c], version[c])))
    <3>1. version[c] \in Versions
      BY DEF TypeOK
    <3>2. Frame(chunk[c], version[c]) \in Seq(Updates)
      BY <3>1, FrameType
    <3> QED
      BY <2>2, <3>2, FrameReply, SendsType
  <2>3. CASE SendSnapshot(c) /\ Sends(c, Snapshot(version[c], snapshot[c]))
    BY <2>3, SnapshotReply, SendsType
  <2> QED
    BY <1>1, <2>1, <2>2, <2>3 DEF PullStep, FlushStep, ControlStep
<1>5. CASE OpenSocket
  <2>1. <<>> \in Seq(Replies)
    OBVIOUS
  <2> QED
    BY <1>5, <2>1 DEF OpenSocket, SessionTypeOK
<1>6. CASE SendRequest
  BY <1>6 DEF SendRequest, SessionTypeOK
<1>7. CASE SendRequestFails \/ Hangup
  <2>1. <<>> \in Seq(Replies)
    OBVIOUS
  <2>2. wire' = <<>> /\ UNCHANGED <<peer, lives>>
    BY <1>7 DEF SendRequestFails, Hangup, Drops
  <2>3. /\ browser' \in {"Connecting", "Error"}
        /\ tree' \in {tree, {}} /\ queued' \in {"nothing", "left", queued}
        /\ drawn' \in {FALSE, drawn}
    BY <1>7 DEF SendRequestFails, Hangup
  <2> QED
    BY <2>1, <2>2, <2>3 DEF SessionTypeOK
<1>8. CASE Synchronize
  <2>1. PICK m : /\ Reading(m)
                 /\ \/ /\ m.kind = "TrieSnapshot" /\ m.version = Asked
                       /\ browser' = "Subscribed" /\ tree' = m.routes /\ drawn' = FALSE
                    \/ UNCHANGED <<browser, tree, drawn>>
    BY <1>8 DEF Synchronize
  <2>2. m \in Replies /\ wire' \in Seq(Replies)
    BY <2>1, ReadingType
  <2>3. /\ queued' = queued /\ UNCHANGED <<peer, lives>>
    BY <1>8 DEF Synchronize, Reading
  <2>4. m.kind = "TrieSnapshot" => m.routes \in SUBSET Routes
    BY <2>2 DEF Replies
  <2> QED
    BY <2>1, <2>2, <2>3, <2>4 DEF SessionTypeOK
<1>9. CASE HandleUpdates
  <2>1. PICK m : /\ Reading(m)
                 /\ \/ /\ m.kind = "ThinBgpUpdateFrame" /\ tree' = Applied(tree, m.updates)
                       /\ queued' \in {"left", "own"} /\ drawn' = FALSE
                    \/ UNCHANGED <<tree, queued, drawn>>
    BY <1>9 DEF HandleUpdates
  <2>2. m \in Replies /\ wire' \in Seq(Replies)
    BY <2>1, ReadingType
  <2>3. browser' = browser /\ UNCHANGED <<peer, lives>>
    BY <1>9 DEF HandleUpdates, Reading
  <2>4. m.kind = "ThinBgpUpdateFrame" => Applied(tree, m.updates) \in SUBSET Routes
    <3>1. m.kind = "ThinBgpUpdateFrame" => m.updates \in Seq(Updates)
      BY <2>2 DEF Replies
    <3> QED
      BY <3>1, AppliedType DEF SessionTypeOK
  <2> QED
    BY <2>1, <2>2, <2>3, <2>4 DEF SessionTypeOK
<1>10. CASE Draw
  BY <1>10 DEF Draw, SessionTypeOK
<1>11. CASE SocketFails \/ \E c \in Conns : Program(c)
  BY <1>1, <1>11 DEF SocketFails, Program
<1>12. CASE UNCHANGED allVars
  BY <1>1, <1>12 DEF allVars
<1> QED
  BY <1>2, <1>3, <1>4, <1>5, <1>6, <1>7, <1>8, <1>9, <1>10, <1>11, <1>12
     DEF SessionNext, ServerNext, BrowserSteps

-----------------------------------------------------------------------------
\* The wire between the two.

\* The routes the browser has, if it has a tree.
HasNow == IF browser = "Subscribed" THEN <<tree>> ELSE <<>>

LEMMA HasNowType ==
  ASSUME SessionTypeOK
  PROVE  HasNow \in Holdings /\ wire \in Seq(Replies) /\ OnTheWire = HearsAll(HasNow, wire)
<1>1. wire \in Seq(Replies) /\ tree \in SUBSET Routes
  BY DEF SessionTypeOK
<1>2. <<>> \in Holdings /\ <<tree>> \in Holdings
  BY <1>1 DEF Holdings
<1>3. OnTheWire = HearsAll(HasNow, wire)
  BY DEF OnTheWire, HasNow
<1> QED
  BY <1>1, <1>2, <1>3 DEF HasNow

\* The browser is served over the wire.
Fed == /\ browser \in {"Synchronizing", "Subscribed"}
       /\ state[us] = "Active" /\ version[us] = Asked /\ inbox[us] = <<>>
       /\ \A k \in 1 .. Len(wire) : Own(wire[k])
       /\ OnTheWire = <<view[us]>>

\* No step of the browser or of the connection that shows at the wire.
LEMMA WireSame ==
  ASSUME WireInv, peer' = peer, open'[us] = open[us], browser' = browser, wire' = wire,
         tree' = tree, state'[us] = state[us], version'[us] = version[us],
         inbox'[us] = inbox[us], view'[us] = view[us]
  PROVE  WireInv'
<1>1. OnTheWire' = OnTheWire
  BY DEF OnTheWire
<1> QED
  BY <1>1 DEF WireInv, Attached, Own

\* The first that is sent to the browser is a snapshot.
LEMMA SnapshotWire ==
  ASSUME ConnInv, SessionTypeOK, WireInv,
         SendSnapshot(us), Sends(us, Snapshot(version[us], snapshot[us]))
  PROVE  WireInv'
<1> SUFFICES ASSUME peer' = "browser", open'[us],
                    browser \notin {"Connecting", "Error", "Panicked"}
             PROVE  Attached'
  BY DEF WireInv, Sends
<1>1. /\ peer = "browser" /\ open[us] /\ browser' = browser /\ tree' = tree
      /\ state[us] = "Sending" /\ state'[us] = "Active" /\ version' = version
      /\ view'[us] = snapshot[us] /\ inbox' = inbox
  BY Us, ConnTypes DEF Sends, SendSnapshot, Become, ConnInv
<1>2. /\ browser = "Synchronizing" /\ version[us] = Asked /\ inbox[us] = <<>> /\ wire = <<>>
  BY <1>1 DEF WireInv, Attached
<1> DEFINE m == Snapshot(version[us], snapshot[us])
<1>3. m \in Replies /\ m.kind = "TrieSnapshot" /\ m.version = version[us] /\ m.routes = snapshot[us]
  BY Us, SnapshotReply DEF ConnInv, Snapshot
<1>4. wire' = Append(wire, m)
  BY <1>1 DEF Sends
<1> HIDE DEF m
<1>5. wire' = <<m>> /\ Len(wire') = 1 /\ wire'[1] = m
  BY <1>2, <1>4
<1>6. OnTheWire' = <<snapshot[us]>>
  <2>1. HasNow' = <<>> /\ OnTheWire' = HearsAll(<<>>, wire')
    BY <1>1, <1>2 DEF OnTheWire, HasNow
  <2> DEFINE e == <<>>
             w == <<>>
  <2>2. e \in Holdings /\ w \in Seq(Replies) /\ <<m>> = Snoc(w, m)
    BY DEF Holdings, Snoc
  <2>3. HearsAll(e, w) = e
    BY <2>2, HearsNone
  <2>4. Hears(e, m) = <<snapshot[us]>>
    BY <1>3 DEF Hears
  <2>5. OnTheWire' = HearsAll(e, <<m>>)
    BY <1>5, <2>1
  <2> HIDE DEF e, w
  <2>6. HearsAll(e, Snoc(w, m)) = Hears(HearsAll(e, w), m)
    BY <1>3, <2>2, HearsSnoc
  <2> QED
    BY <2>2, <2>3, <2>4, <2>5, <2>6
<1>7. \A k \in 1 .. Len(wire') : Own(wire'[k])
  BY <1>2, <1>3, <1>5 DEF Own
<1> QED
  BY <1>1, <1>2, <1>6, <1>7 DEF Attached

\* A frame that is sent is what the connection holds its peer to have applied.
LEMMA FrameWire ==
  ASSUME ConnInv, SessionTypeOK, WireInv,
         Flush(us), Sends(us, ThinBgpUpdateFrame(Frame(chunk[us], version[us])))
  PROVE  WireInv'
<1> SUFFICES ASSUME peer' = "browser", open'[us],
                    browser \notin {"Connecting", "Error", "Panicked"}
             PROVE  Attached'
  BY DEF WireInv, Sends
<1> DEFINE updates == Frame(chunk[us], version[us])
           m == ThinBgpUpdateFrame(updates)
<1>1. /\ peer = "browser" /\ open[us] /\ browser' = browser /\ tree' = tree
      /\ state[us] = "Active" /\ state' = state /\ version' = version /\ inbox' = inbox
      /\ view'[us] = Replay(Only(version[us], view[us]), updates)[version[us]]
  BY Us, ConnTypes DEF Sends, Flush, ConnInv
<1>2. Fed
  BY <1>1 DEF WireInv, Attached, Fed
<1>3. version[us] = Asked /\ version[us] \in Versions
  BY <1>2, Us DEF Fed, ConnInv, TypeOK
<1>4. updates \in Seq(Updates)
  BY <1>3, Us, FrameType DEF ConnInv
<1>5. m \in Replies /\ m.kind = "ThinBgpUpdateFrame" /\ m.updates = updates
  BY <1>4, FrameReply DEF ThinBgpUpdateFrame
<1>6. wire' = Append(wire, m)
  BY <1>1 DEF Sends
<1> HIDE DEF m, updates
<1>7. OnTheWire' = <<view'[us]>>
  <2>1. OnTheWire' = HearsAll(HasNow, Snoc(wire, m))
    BY <1>1, <1>6 DEF OnTheWire, HasNow, Snoc
  <2>2. HasNow \in Holdings /\ wire \in Seq(Replies) /\ OnTheWire = HearsAll(HasNow, wire)
    BY HasNowType
  <2>3. HearsAll(HasNow, Snoc(wire, m)) = Hears(<<view[us]>>, m)
    BY <1>2, <1>5, <2>2, HearsSnoc DEF Fed
  <2>4. Hears(<<view[us]>>, m) = <<Applied(view[us], updates)>>
    BY <1>5 DEF Hears
  <2>5. Applied(view[us], updates) = view'[us]
    BY <1>1, <1>3 DEF Applied
  <2> QED
    BY <2>1, <2>3, <2>4, <2>5
<1>8. \A k \in 1 .. Len(wire') : Own(wire'[k])
  <2> SUFFICES ASSUME NEW k \in 1 .. Len(wire')
               PROVE  Own(wire'[k])
    OBVIOUS
  <2>1. wire \in Seq(Replies)
    BY HasNowType
  <2>2. /\ Len(wire') = Len(wire) + 1 /\ wire'[Len(wire) + 1] = m /\ Len(wire) \in Nat
        /\ \A j \in 1 .. Len(wire) : wire'[j] = wire[j]
    BY <1>5, <1>6, <2>1, AppendProperties, LenProperties
  <2>3. CASE k \in 1 .. Len(wire)
    BY <1>2, <2>2, <2>3 DEF Fed
  <2>4. CASE k = Len(wire) + 1
    BY <1>5, <2>2, <2>4 DEF Own
  <2> QED
    BY <2>2, <2>3, <2>4
<1> QED
  BY <1>1, <1>2, <1>7, <1>8 DEF Attached, Fed

\* What is read is taken from the wire and does to the browser what it was to do.
LEMMA ReadWire ==
  ASSUME SessionTypeOK, WireInv, NEW m, Reading(m), SessionTypeOK',
         browser \in {"Synchronizing", "Subscribed"},
         browser' \in {"Synchronizing", "Subscribed"},
         peer = "browser" /\ open[us] /\ Own(m) => HasNow' = Hears(HasNow, m)
  PROVE  WireInv'
<1>1. /\ UNCHANGED vars /\ peer' = peer
      /\ m \in Replies /\ wire' \in Seq(Replies) /\ wire = Join(<<m>>, wire')
      /\ wire # <<>> /\ m = wire[1] /\ Len(wire) = Len(wire') + 1 /\ Len(wire') \in Nat
      /\ \A k \in 1 .. Len(wire') : wire'[k] = wire[k + 1]
  BY ReadingType, LenProperties DEF Reading
<1> SUFFICES ASSUME peer = "browser", open[us]
             PROVE  Attached'
  BY <1>1 DEF WireInv, vars, connVars
<1>2. Fed
  BY <1>1 DEF WireInv, Attached, Fed
<1>3. 1 \in 1 .. Len(wire) /\ \A k \in 1 .. Len(wire') : k + 1 \in 1 .. Len(wire)
  BY <1>1
<1>4. Own(m) /\ \A k \in 1 .. Len(wire') : Own(wire'[k])
  BY <1>1, <1>2, <1>3 DEF Fed
<1>5. OnTheWire' = OnTheWire
  <2>1. HasNow \in Holdings /\ OnTheWire = HearsAll(HasNow, wire)
    BY HasNowType
  <2>2. OnTheWire' = HearsAll(HasNow', wire')
    BY DEF OnTheWire, HasNow
  <2>3. HearsAll(HasNow, Join(<<m>>, wire')) = HearsAll(Hears(HasNow, m), wire')
    BY <1>1, <2>1, HearsFirst
  <2> QED
    BY <1>1, <1>4, <2>1, <2>2, <2>3
<1>6. /\ state' = state /\ version' = version /\ inbox' = inbox /\ view' = view
  BY <1>1 DEF vars, connVars
<1> QED
  BY <1>2, <1>4, <1>5, <1>6 DEF Fed, Attached

LEMMA SynchronizeWire ==
  ASSUME SessionTypeOK, SessionTypeOK', WireInv, Synchronize
  PROVE  WireInv'
<1>1. PICK m : /\ Reading(m) /\ browser = "Synchronizing"
               /\ IF m.kind = "TrieSnapshot" /\ m.version = Asked
                    THEN browser' = "Subscribed" /\ tree' = m.routes /\ drawn' = FALSE
                    ELSE UNCHANGED <<browser, tree, drawn>>
  BY DEF Synchronize
<1>2. Own(m) => HasNow' = Hears(HasNow, m)
  <2>1. m \in Replies
    BY <1>1, ReadingType
  <2>2. HasNow = <<>>
    BY <1>1 DEF HasNow
  <2>3. CASE m.kind = "TrieSnapshot" /\ m.version = Asked
    BY <1>1, <2>2, <2>3 DEF Hears, HasNow
  <2>4. CASE m.kind # "TrieSnapshot"
    BY <1>1, <2>2, <2>4 DEF Hears, HasNow
  <2> QED
    BY <2>3, <2>4 DEF Own
<1>3. browser' \in {"Synchronizing", "Subscribed"}
  BY <1>1
<1> QED
  BY <1>1, <1>2, <1>3, ReadWire

LEMMA HandleWire ==
  ASSUME SessionTypeOK, SessionTypeOK', WireInv, HandleUpdates
  PROVE  WireInv'
<1>1. PICK m : /\ Reading(m) /\ browser = "Subscribed" /\ browser' = browser
               /\ IF m.kind = "ThinBgpUpdateFrame" /\ m.updates # <<>>
                    THEN tree' = Applied(tree, m.updates)
                    ELSE tree' = tree
  BY DEF HandleUpdates
<1>2. HasNow' = Hears(HasNow, m)
  <2>1. m \in Replies
    BY <1>1, ReadingType
  <2>2. HasNow = <<tree>> /\ HasNow' = <<tree'>> /\ HasNow # <<>> /\ HasNow[1] = tree
    BY <1>1 DEF HasNow
  <2>3. CASE m.kind = "TrieSnapshot"
    BY <1>1, <2>2, <2>3 DEF Hears
  <2>4. CASE m.kind # "TrieSnapshot"
    <3>1. m.kind = "ThinBgpUpdateFrame" /\ m.updates \in Seq(Updates)
      BY <2>1, <2>4 DEF Replies
    <3>2. tree' = Applied(tree, m.updates)
      <4>1. CASE m.updates # <<>>
        BY <1>1, <3>1, <4>1
      <4>2. CASE m.updates = <<>>
        <5>1. Asked \in Versions /\ tree \in SUBSET Routes
          BY SessionAssumption DEF SessionTypeOK
        <5>2. Applied(tree, <<>>) = tree
          BY <5>1, OnlyType, ReplayEmpty DEF Applied
        <5> QED
          BY <1>1, <4>2, <5>2
      <4> QED
        BY <4>1, <4>2
    <3> QED
      BY <2>2, <2>4, <3>2 DEF Hears
  <2> QED
    BY <2>3, <2>4
<1> QED
  BY <1>1, <1>2, ReadWire

LEMMA ControlWire ==
  ASSUME ConnInv, SessionTypeOK, WireInv, ControlStep(us)
  PROVE  WireInv'
<1>1. CASE SendSnapshot(us) /\ Sends(us, Snapshot(version[us], snapshot[us]))
  BY <1>1, SnapshotWire
<1>2. CASE /\ \/ IdleReceive(us) \/ Subscribe(us) \/ SendSnapshotFails(us)
              \/ ActiveReceive(us) \/ SocketEnds(us) \/ Close(us)
           /\ UNCHANGED sessionVars
  <2> SUFFICES ASSUME peer' = "browser", open'[us],
                      browser \notin {"Connecting", "Error", "Panicked"}
               PROVE  Attached'
    BY <1>2 DEF WireInv, sessionVars, browserVars
  <2>1. open' = open /\ peer = "browser" /\ browser' = browser /\ wire' = wire /\ tree' = tree
    BY <1>2 DEF IdleReceive, Subscribe, SendSnapshotFails, ActiveReceive, SocketEnds, Close,
                sessionVars, browserVars
  <2>2. open[us] /\ Attached
    BY <2>1 DEF WireInv
  <2>3. CASE IdleReceive(us)
    <3>1. state[us] = "Idle" /\ inbox[us] # <<>>
      BY <2>3 DEF IdleReceive, Reads
    <3>2. browser = "Synchronizing" /\ inbox[us] = <<Asked>> /\ wire = <<>>
      BY <2>2, <3>1 DEF Attached
    <3>3. Head(inbox[us]) = Asked /\ Tail(inbox[us]) = <<>> /\ Asked \in Versions
      BY <3>2, SessionAssumption
    <3>4. state'[us] = "Synchronizing" /\ version'[us] = Asked /\ inbox'[us] = <<>>
      BY <2>3, <3>3, Us, ConnTypes DEF IdleReceive, Reads, Become, ConnInv
    <3> QED
      BY <2>1, <3>2, <3>4 DEF Attached
  <2>4. CASE Subscribe(us)
    <3>1. state[us] = "Synchronizing" /\ state'[us] = "Sending" /\ version' = version /\ inbox' = inbox
      BY <2>4, Us, ConnTypes DEF Subscribe, Become, ConnInv
    <3> QED
      BY <2>1, <2>2, <3>1 DEF Attached
  <2>5. CASE SendSnapshotFails(us) \/ SocketEnds(us)
    BY <2>2, <2>5 DEF SendSnapshotFails, SocketEnds, Ended
  <2>6. CASE ActiveReceive(us)
    BY <2>2, <2>6 DEF ActiveReceive, Reads, Attached
  <2>7. CASE Close(us)
    BY <2>2, <2>7 DEF Close, Attached
  <2> QED
    BY <1>2, <2>3, <2>4, <2>5, <2>6, <2>7
<1> QED
  BY <1>1, <1>2 DEF ControlStep

LEMMA SessionWire ==
  ASSUME ConnInv, SessionTypeOK, SessionTypeOK', WireInv, [SessionNext]_allVars
  PROVE  WireInv'
<1>1. CASE TableStep \/ UNCHANGED allVars
  BY <1>1, WireSame DEF TableStep, connVars, allVars, vars, sessionVars, browserVars
<1>2. CASE Crash
  BY <1>2, Us DEF Crash, WireInv
<1>3. CASE \E c \in Conns : PullStep(c)
  BY <1>3, WireSame DEF PullStep, Pull, sessionVars, browserVars
<1>4. CASE \E c \in Conns : FlushStep(c)
  <2>1. FlushStep(us)
    BY <1>4, Us
  <2>2. CASE FlushFails(us)
    BY <2>1, <2>2 DEF FlushStep, FlushFails, sessionVars, WireInv, Flush, Sends
  <2> QED
    BY <2>1, <2>2, FrameWire DEF FlushStep
<1>5. CASE \E c \in Conns : ControlStep(c)
  BY <1>5, Us, ControlWire
<1>6. CASE OpenSocket
  <2>1. state'[us] = "Idle" /\ inbox'[us] = <<>> /\ browser' = "Connected" /\ wire' = <<>>
    BY <1>6, Us, ConnTypes DEF OpenSocket, ConnInv
  <2> QED
    BY <2>1 DEF WireInv, Attached
<1>7. CASE SendRequest
  <2>1. /\ open[us] /\ peer = "browser" /\ browser = "Connected" /\ browser' = "Synchronizing"
        /\ state' = state /\ inbox' = [inbox EXCEPT ![us] = Append(@, Asked)] /\ wire' = wire
    BY <1>7 DEF SendRequest, PeerSends, Browser
  <2>2. state[us] = "Idle" /\ inbox[us] = <<>> /\ wire = <<>>
    BY <2>1 DEF WireInv, Attached
  <2>3. inbox'[us] = <<Asked>>
    BY <2>1, <2>2, Us, ConnTypes DEF ConnInv
  <2> QED
    BY <2>1, <2>2, <2>3 DEF WireInv, Attached
<1>8. CASE SendRequestFails \/ Hangup
  BY <1>8, Us, ConnTypes DEF SendRequestFails, Hangup, Drops, WireInv, ConnInv
<1>9. CASE SocketFails
  BY <1>9, Us, ConnTypes DEF SocketFails, PeerGoes, WireInv, ConnInv
<1>10. CASE Synchronize
  BY <1>10, SynchronizeWire
<1>11. CASE HandleUpdates
  BY <1>11, HandleWire
<1>12. CASE Draw
  <2>1. /\ UNCHANGED vars /\ peer' = peer /\ wire' = wire /\ tree' = tree
        /\ browser' = browser \/ browser' = "Panicked"
    BY <1>12 DEF Draw
  <2>2. CASE browser' = browser
    BY <2>1, <2>2, WireSame DEF vars, connVars
  <2>3. CASE browser' = "Panicked"
    BY <2>3 DEF WireInv
  <2> QED
    BY <2>1, <2>2, <2>3
<1>13. CASE \E c \in Conns : Program(c)
  BY <1>13 DEF Program, sessionVars, WireInv
<1> QED
  BY <1>1, <1>2, <1>3, <1>4, <1>5, <1>6, <1>7, <1>8, <1>9, <1>10, <1>11, <1>12, <1>13
     DEF SessionNext, ServerNext, BrowserSteps

LEMMA SessionAlways ==
  SessionSpec => []SessionInv
<1>1. SessionInit => SessionInv
  <2> SUFFICES ASSUME SessionInit
               PROVE  SessionInv
    OBVIOUS
  <2>1. ConnInv
    BY ConnInit DEF SessionInit
  <2>2. <<>> \in Seq(Replies)
    OBVIOUS
  <2>3. SessionTypeOK
    BY <2>2 DEF SessionInit, SessionTypeOK
  <2>4. WireInv
    BY DEF SessionInit, WireInv
  <2> QED
    BY <2>1, <2>3, <2>4 DEF SessionInv
<1>2. SessionInv /\ [SessionNext]_allVars => SessionInv'
  BY SessionConn, SessionType, SessionWire DEF SessionInv, ConnInv
<1> QED
  BY <1>1, <1>2, PTL DEF SessionSpec

\* Every subscription of a session that has not lagged is in sync, over the
\* server's crashes and the browser's reconnects too.
THEOREM SessionsInSync == SessionSpec => []InSync
<1>1. SessionInv => InSync
  BY InvInSync DEF SessionInv
<1> QED
  BY <1>1, SessionAlways, PTL

\* From the trie to the browser's tree (route_table.rs, connection.rs,
\* client/src/lib.rs): what the browser has, what is on the wire and what the
\* connection has still to send make the server's routes of the family it asked for,
\* over reconnects, crashes and whatever was on its way when a socket failed.
THEOREM BrowserInSync == SessionSpec => []ClientInSync
<1>1. SessionInv => ClientInSync
  <2> SUFFICES ASSUME SessionInv, peer = "browser", open[us], state[us] = "Active", Intact(us),
                      browser \in {"Synchronizing", "Subscribed"}
               PROVE  OnTheWire # <<>> /\ Reaches(us, OnTheWire[1]) = Due(Asked)
    BY DEF ClientInSync
  <2>1. version[us] = Asked /\ OnTheWire = <<view[us]>>
    BY DEF SessionInv, WireInv, Attached
  <2>2. Reaches(us, view[us]) = Due(version[us])
    BY Us, InvInSync DEF SessionInv, InSync
  <2> QED
    BY <2>1, <2>2
<1> QED
  BY <1>1, SessionAlways, PTL

=============================================================================
