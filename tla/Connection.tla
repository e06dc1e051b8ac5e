----------------------------- MODULE Connection -----------------------------
(***************************************************************************)
(* The server's connections (server/src/connection.rs) on the route table. *)
(* A connection subscribes, sends a snapshot, then frames of the updates   *)
(* that were re-broadcast since.  The socket keeps order and `view` is     *)
(* what its peer holds after applying everything sent to it.               *)
(***************************************************************************)
EXTENDS RouteTable, Streams

CONSTANTS
  Conns,
  MaxChunk,    \* items of a chunk, chunks_timeout(512, ..) in the code
  MaxRequests, \* bound on what a peer sends
  Lagged       \* the Err(Lagged) item of a BroadcastStream

ASSUME ConnectionAssumption == Lagged \notin Messages /\ MaxChunk \in Nat /\ Versions # {}

VARIABLES
  state,     \* of each connection's state machine
  version,   \* the family of its subscription
  snapshot,  \* the snapshot subscribe returned, until it is sent
  cursor,    \* the position in log its receiver reads next
  chunk,     \* items pulled and not yet sent: messages, or Lagged errors
  inbox,     \* what the peer sent and the connection has not read
  sent,      \* how much the peer has sent
  open,      \* the peer has not gone
  view,      \* the routes the peer holds after what was sent to it
  intact     \* history: this subscription began in order and has missed nothing

connVars ==
  <<state, version, snapshot, cursor, chunk, inbox, sent, open, view, intact>>

vars == <<tableVars, connVars>>

\* "other" is any message but a subscribe request, "garbage" one that does not decode.
Received == Versions \cup {"other", "garbage"}

TypeOK ==
  /\ TableTypeOK
  /\ state \in [Conns -> {"Idle", "Synchronizing", "Sending", "Active",
                          "Closing", "Closed", "Panicked"}]
  /\ version \in [Conns -> Versions]
  /\ snapshot \in [Conns -> SUBSET Routes]
  /\ cursor \in [Conns -> Nat]
  /\ chunk \in [Conns -> Seq(Messages \cup {Lagged})]
  /\ \A c \in Conns : Len(chunk[c]) <= MaxChunk
  /\ inbox \in [Conns -> Seq(Received)]
  /\ sent \in [Conns -> Nat]
  /\ open \in [Conns -> BOOLEAN]
  /\ view \in [Conns -> SUBSET Routes]
  /\ intact \in [Conns -> BOOLEAN]

Init ==
  /\ TableInit
  /\ state = [c \in Conns |-> "Idle"]
  /\ version = [c \in Conns |-> CHOOSE v \in Versions : TRUE]
  /\ snapshot = [c \in Conns |-> {}]
  /\ cursor = [c \in Conns |-> 1]
  /\ chunk = [c \in Conns |-> <<>>]
  /\ inbox = [c \in Conns |-> <<>>]
  /\ sent = [c \in Conns |-> 0]
  /\ open = [c \in Conns |-> TRUE]
  /\ view = [c \in Conns |-> {}]
  /\ intact = [c \in Conns |-> FALSE]

-----------------------------------------------------------------------------
\* The peer: a browser client, or any other program on the socket.

PeerSends(c, m) ==
  /\ open[c]
  /\ sent[c] < MaxRequests
  /\ inbox' = [inbox EXCEPT ![c] = Append(@, m)]
  /\ sent' = [sent EXCEPT ![c] = @ + 1]
  /\ UNCHANGED <<tableVars, state, version, snapshot, cursor, chunk, open, view, intact>>

PeerGoes(c) ==
  /\ open[c]
  /\ open' = [open EXCEPT ![c] = FALSE]
  /\ UNCHANGED <<tableVars, state, version, snapshot, cursor, chunk, inbox, sent, view, intact>>

-----------------------------------------------------------------------------

Become(c, s) == state' = [state EXCEPT ![c] = s]

\* The connection reads its next message.
Reads(c, m) ==
  /\ inbox[c] # <<>>
  /\ m = Head(inbox[c])
  /\ inbox' = [inbox EXCEPT ![c] = Tail(@)]

\* socket.next() answers None: the peer is gone and everything it sent is read.
Ended(c) == ~open[c] /\ inbox[c] = <<>>

IdleReceive(c) ==
  /\ Serving
  /\ state[c] = "Idle"
  /\ \E m \in Received :
       /\ Reads(c, m)
       /\ IF m \in Versions
            THEN Become(c, "Synchronizing") /\ version' = [version EXCEPT ![c] = m]
            ELSE UNCHANGED <<state, version>>
  /\ UNCHANGED <<tableVars, snapshot, cursor, chunk, sent, open, view, intact>>

\* Mutant: the receiver is made after the lock is released and ingest has moved on.
ResumeAhead == Len(log) + 1 + Len(current)

\* A new receiver gets the messages sent from now on.
Resume == Len(log) + 1

\* RouteTable::subscribe: the clone and the new receiver under the family's lock.
Subscribe(c) ==
  /\ state[c] = "Synchronizing"
  /\ snapshot' = [snapshot EXCEPT ![c] = table[version[c]]]
  /\ cursor' = [cursor EXCEPT ![c] = Resume]
  /\ intact' = [intact EXCEPT ![c] = ~raced]
  /\ Become(c, "Sending")
  /\ UNCHANGED <<tableVars, version, chunk, inbox, sent, open, view>>

\* The snapshot is sent while ingest goes on.
SendSnapshot(c) ==
  /\ state[c] = "Sending"
  /\ view' = [view EXCEPT ![c] = snapshot[c]]
  /\ snapshot' = [snapshot EXCEPT ![c] = {}]
  /\ Become(c, "Active")
  /\ UNCHANGED <<tableVars, version, cursor, chunk, inbox, sent, open, intact>>

\* expect("TODO: Handle this properly"): the connection's task panics.
SendSnapshotFails(c) ==
  /\ state[c] = "Sending"
  /\ ~open[c]
  /\ snapshot' = [snapshot EXCEPT ![c] = {}]
  /\ Become(c, "Panicked")
  /\ UNCHANGED <<tableVars, version, cursor, chunk, inbox, sent, open, view, intact>>

Room(c) == Len(chunk[c]) < MaxChunk

\* The chunked stream pulls the next item of the receiver.  A receiver that the
\* channel has overtaken gets a Lagged error and resumes at the oldest message.
Pull(c) ==
  /\ state[c] = "Active"
  /\ Room(c)
  /\ cursor[c] <= Len(log)
  /\ IF cursor[c] < Oldest
       THEN /\ chunk' = [chunk EXCEPT ![c] = Append(@, Lagged)]
            /\ cursor' = [cursor EXCEPT ![c] = Oldest]
            /\ intact' = [intact EXCEPT ![c] = FALSE]
       ELSE /\ chunk' = [chunk EXCEPT ![c] = Append(@, log[cursor[c]])]
            /\ cursor' = [cursor EXCEPT ![c] = @ + 1]
            /\ UNCHANGED intact
  /\ UNCHANGED <<tableVars, state, version, snapshot, inbox, sent, open, view>>

\* Mutant: only the first message of the chunk is framed.
FrameFirst(items, v) ==
  LET messages == Keep(items, Messages)
  IN  IF messages = <<>> THEN <<>> ELSE Keep(messages[1], UpdatesOf(v))

\* The updates of one family in the messages of a chunk, errors left out.
Frame(items, v) == Keep(Flatten(Keep(items, Messages)), UpdatesOf(v))

\* The tables of one who has the routes of one family only.
Only(v, routes) == [w \in Versions |-> IF w = v THEN routes ELSE {}]

\* The chunk is full, or its 16 ms have passed.
Flush(c) ==
  /\ state[c] = "Active"
  /\ chunk[c] # <<>>
  /\ chunk' = [chunk EXCEPT ![c] = <<>>]
  /\ view' = [view EXCEPT ![c] =
       LET v == version[c]
       IN  Replay(Only(v, @), Frame(chunk[c], v))[v]]
  /\ UNCHANGED <<tableVars, state, version, snapshot, cursor, inbox, sent, open, intact>>

FlushFails(c) ==
  /\ state[c] = "Active"
  /\ chunk[c] # <<>>
  /\ ~open[c]
  /\ Become(c, "Closing")
  /\ chunk' = [chunk EXCEPT ![c] = <<>>]
  /\ UNCHANGED <<tableVars, version, snapshot, cursor, inbox, sent, open, view, intact>>

\* Mutant: a message that is no request is not read.
IgnoredOnly(c) == {version[c]}

\* What an active connection reads and does nothing about.
Ignored(c) == {version[c], "other"}

\* A request for the other family drops the receiver and the chunk; one for the
\* same family is ignored.
ActiveReceive(c) ==
  /\ state[c] = "Active"
  /\ \E m \in Received :
       /\ Reads(c, m)
       /\ \/ /\ m \in Versions /\ m # version[c]
             /\ Become(c, "Synchronizing")
             /\ version' = [version EXCEPT ![c] = m]
             /\ chunk' = [chunk EXCEPT ![c] = <<>>]
          \/ /\ m \in Ignored(c)
             /\ UNCHANGED <<state, version, chunk>>
          \/ /\ m = "garbage"
             /\ Become(c, "Closing")
             /\ chunk' = [chunk EXCEPT ![c] = <<>>]
             /\ UNCHANGED version
  /\ UNCHANGED <<tableVars, snapshot, cursor, sent, open, view, intact>>

\* Idle or Active, the socket has ended.
SocketEnds(c) ==
  /\ state[c] \in {"Idle", "Active"}
  /\ Ended(c)
  /\ Become(c, "Closing")
  /\ chunk' = [chunk EXCEPT ![c] = <<>>]
  /\ UNCHANGED <<tableVars, version, snapshot, cursor, inbox, sent, open, view, intact>>

Close(c) ==
  /\ state[c] = "Closing"
  /\ Become(c, "Closed")
  /\ UNCHANGED <<tableVars, version, snapshot, cursor, chunk, inbox, sent, open, view, intact>>

Deliver(c) == Pull(c) \/ Flush(c) \/ FlushFails(c)

Control(c) ==
  \/ IdleReceive(c) \/ Subscribe(c) \/ SendSnapshot(c) \/ SendSnapshotFails(c)
  \/ ActiveReceive(c) \/ SocketEnds(c) \/ Close(c)

Peer(c) == PeerGoes(c) \/ \E m \in Received : PeerSends(c, m)

Next ==
  \/ TableNext /\ UNCHANGED connVars
  \/ \E c \in Conns : Deliver(c) \/ Control(c) \/ Peer(c)

Spec == Init /\ [][Next]_vars

-----------------------------------------------------------------------------

\* What the connection has still to send of what was re-broadcast, and of the
\* message being ingested, which will be re-broadcast whole.
Backlog(c) ==
  chunk[c] \o SubSeq(log, cursor[c], Len(log)) \o current

\* Once the message in progress is in the trie ...
Due(v) == Replay(table, Remaining)[v]

\* ... and the backlog is with the peer, starting from what it holds or is sent.
Reaches(c, held) ==
  LET v == version[c]
  IN  Replay(Only(v, held), Frame(Backlog(c), v))[v]

\* The receiver has not been overtaken since its last read either.
Intact(c) == intact[c] /\ cursor[c] >= Oldest

\* The stream resumes exactly where the snapshot ends (subscribe, ingest): a
\* subscription that has not lagged loses, reorders and repeats nothing that
\* matters, whatever part of a message the snapshot already had.  Left out is one
\* made while a message the start-up's seed overtook was still in progress.
InSync ==
  \A c \in Conns :
    Intact(c) =>
      /\ state[c] = "Sending" => Reaches(c, snapshot[c]) = Due(version[c])
      /\ state[c] = "Active" => Reaches(c, view[c]) = Due(version[c])

\* A request the peer makes is read, unless the connection ends first.
RequestsRead ==
  \A c \in Conns :
    (inbox[c] # <<>>) ~> (inbox[c] = <<>> \/ state[c] \in {"Closed", "Panicked"})

\* "To keep the client in sync with the server": no subscription is left with
\* anything but the server's routes once it has nothing more to send.
StaysInSync ==
  \A c \in Conns :
    state[c] = "Active" /\ Backlog(c) = <<>> => view[c] = table[version[c]]

=============================================================================
