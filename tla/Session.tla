------------------------------ MODULE Session ------------------------------
(***************************************************************************)
(* A session: the server's connection and, at its other end, the browser   *)
(* client (client/src/lib.rs) or any other program.  The browser's tree is *)
(* the set of its routes; its slab and buffer are in module Client.  What  *)
(* is between the two is one socket that keeps order and may fail, and the *)
(* server may crash and start again.  A connection the browser has left    *)
(* ends by itself; the next one takes its place here.                      *)
(***************************************************************************)
EXTENDS Connection

CONSTANTS
  Asked,    \* the family the browser asks for, IpVersion::V4 in the code
  MaxLives  \* bound on how often the server starts

ASSUME SessionAssumption ==
  /\ \E c \in Conns : Conns = {c}
  /\ Asked \in Versions
  /\ MaxLives \in Nat

VARIABLES
  peer,     \* who is at the other end: "browser" or "program"
  lives,
  browser,  \* the browser's ClientState
  wire,     \* messages sent to the browser that it has not read
  tree,     \* the announced routes of its tree
  queued,   \* its dirty queue: empty, of its own, or left from an earlier tree
  drawn     \* the last frame showed the tree as it is

browserVars == <<browser, wire, tree, queued, drawn>>

sessionVars == <<peer, lives, browserVars>>

allVars == <<vars, sessionVars>>

us == CHOOSE c \in Conns : TRUE

\* Mutant: the snapshot names a family the browser did not ask for.
SnapshotMixed(v, routes) ==
  [kind |-> "TrieSnapshot", version |-> CHOOSE w \in Versions : w # v, routes |-> routes]

Snapshot(v, routes) == [kind |-> "TrieSnapshot", version |-> v, routes |-> routes]

ThinBgpUpdateFrame(updates) == [kind |-> "ThinBgpUpdateFrame", updates |-> updates]

\* What the browser can be sent.
Replies ==
  [kind : {"TrieSnapshot"}, version : Versions, routes : SUBSET Routes]
    \cup [kind : {"ThinBgpUpdateFrame"}, updates : Seq(Updates)]

SessionTypeOK ==
  /\ peer \in {"browser", "program"}
  /\ lives \in Nat
  /\ browser \in {"Connecting", "Connected", "Synchronizing", "Subscribed", "Error", "Panicked"}
  /\ wire \in Seq(Replies)
  /\ tree \subseteq Routes
  /\ queued \in {"nothing", "own", "left"}
  /\ drawn \in BOOLEAN

SessionInit ==
  /\ Init
  /\ peer \in {"browser", "program"}
  /\ lives = 1
  /\ browser = "Connecting"
  /\ wire = <<>>
  /\ tree = {}
  /\ queued = "nothing"
  /\ drawn = FALSE

-----------------------------------------------------------------------------
\* The server's side.

TableStep ==
  /\ TableNext
  /\ UNCHANGED <<connVars, peer, lives, browserVars>>

\* What is sent is on its way, if there is still a way.
Sends(c, m) ==
  /\ wire' = IF peer = "browser" /\ open[c] THEN Append(wire, m) ELSE wire
  /\ UNCHANGED <<peer, lives, browser, tree, queued, drawn>>

PullStep(c) == Pull(c) /\ UNCHANGED sessionVars

FlushStep(c) ==
  \/ Flush(c) /\ Sends(c, ThinBgpUpdateFrame(Frame(chunk[c], version[c])))
  \/ FlushFails(c) /\ UNCHANGED sessionVars

ControlStep(c) ==
  \/ SendSnapshot(c) /\ Sends(c, Snapshot(version[c], snapshot[c]))
  \/ /\ \/ IdleReceive(c) \/ Subscribe(c) \/ SendSnapshotFails(c)
        \/ ActiveReceive(c) \/ SocketEnds(c) \/ Close(c)
     /\ UNCHANGED sessionVars

\* The process ends, with its tables and its connections, and is started again.
Crash ==
  /\ lives < MaxLives
  /\ lives' = lives + 1
  /\ table' = [v \in Versions |-> {}]
  /\ unseeded' = Versions
  /\ current' = <<>>
  /\ applied' = 0
  /\ log' = <<>>
  /\ raced' = FALSE
  /\ state' = [c \in Conns |-> "Closed"]
  /\ open' = [c \in Conns |-> FALSE]
  /\ intact' = [c \in Conns |-> FALSE]
  /\ snapshot' = [c \in Conns |-> {}]
  /\ cursor' = [c \in Conns |-> 1]
  /\ chunk' = [c \in Conns |-> <<>>]
  /\ inbox' = [c \in Conns |-> <<>>]
  /\ UNCHANGED <<version, sent, view, peer, browserVars>>

Program(c) == peer = "program" /\ Peer(c) /\ UNCHANGED sessionVars

-----------------------------------------------------------------------------
\* The browser.

Browser(s) == peer = "browser" /\ browser = s

\* ConnectingState: WebSocket::open returns before there is a connection.
OpenSocket ==
  /\ Browser("Connecting")
  /\ sent[us] < MaxRequests
  /\ browser' = "Connected"
  /\ wire' = <<>>
  /\ state' = [state EXCEPT ![us] = "Idle"]
  /\ open' = [open EXCEPT ![us] = TRUE]
  /\ intact' = [intact EXCEPT ![us] = FALSE]
  /\ snapshot' = [snapshot EXCEPT ![us] = {}]
  /\ cursor' = [cursor EXCEPT ![us] = 1]
  /\ chunk' = [chunk EXCEPT ![us] = <<>>]
  /\ inbox' = [inbox EXCEPT ![us] = <<>>]
  /\ view' = [view EXCEPT ![us] = {}]
  /\ UNCHANGED <<tableVars, version, sent, peer, lives, tree, queued, drawn>>

SendRequest ==
  /\ Browser("Connected")
  /\ Serving
  /\ PeerSends(us, Asked)
  /\ browser' = "Synchronizing"
  /\ UNCHANGED <<peer, lives, wire, tree, queued, drawn>>

\* The browser has done with the socket.
Drops ==
  /\ open' = [open EXCEPT ![us] = FALSE]
  /\ wire' = <<>>
  /\ UNCHANGED <<tableVars, state, version, snapshot, cursor, chunk, inbox, sent, view,
                 intact, peer, lives>>

\* Nobody listens, or the socket fails first: the Error state is the end.
SendRequestFails ==
  /\ Browser("Connected")
  /\ browser' = "Error"
  /\ Drops
  /\ UNCHANGED <<tree, queued, drawn>>

\* The socket fails.  Either end finds out for itself.
SocketFails ==
  /\ peer = "browser"
  /\ browser \in {"Connected", "Synchronizing", "Subscribed"}
  /\ PeerGoes(us)
  /\ UNCHANGED sessionVars

\* The next message, and what the browser is and holds after it.
Reading(m) ==
  /\ peer = "browser"
  /\ wire # <<>>
  /\ m = Head(wire)
  /\ wire' = Tail(wire)
  /\ UNCHANGED <<vars, peer, lives>>

\* Mutant: only the first update of a frame is handled.
AppliedFirst(routes, updates) ==
  Replay(Only(Asked, routes), SubSeq(updates, 1, 1))[Asked]

\* The routes of a tree after some updates.
Applied(routes, updates) ==
  Replay(Only(Asked, routes), updates)[Asked]

Synchronize ==
  /\ browser = "Synchronizing"
  /\ \E m \in {wire[k] : k \in 1 .. Len(wire)} :
       /\ Reading(m)
       /\ IF m.kind = "TrieSnapshot" /\ m.version = Asked
            THEN browser' = "Subscribed" /\ tree' = m.routes /\ drawn' = FALSE
            ELSE UNCHANGED <<browser, tree, drawn>>
  /\ UNCHANGED queued

\* A frame is applied to its end before anything else happens.
HandleUpdates ==
  /\ browser = "Subscribed"
  /\ \E m \in {wire[k] : k \in 1 .. Len(wire)} :
       /\ Reading(m)
       /\ IF m.kind = "ThinBgpUpdateFrame" /\ m.updates # <<>>
            THEN /\ tree' = Applied(tree, m.updates)
                 /\ queued' = IF queued = "left" THEN "left" ELSE "own"
                 /\ drawn' = FALSE
            ELSE UNCHANGED <<tree, queued, drawn>>
  /\ UNCHANGED browser

\* The stream of messages ends, or answers with an error.
StreamEnds == ~open[us] \/ (state[us] \in {"Closed", "Panicked"} /\ wire = <<>>)

\* RenderState, and with it the dirty queue, outlives the connection.
Hangup ==
  /\ peer = "browser"
  /\ StreamEnds
  /\ \/ /\ browser = "Subscribed"
        /\ browser' = "Connecting"
        /\ tree' = {}
        /\ drawn' = FALSE
        /\ queued' = IF queued = "nothing" THEN "nothing" ELSE "left"
     \/ /\ browser = "Synchronizing"
        /\ browser' \in {"Connecting", "Error"}
        /\ UNCHANGED <<tree, queued, drawn>>
  /\ Drops

\* An animation frame.  What is left in the queue may be out of the slab's bounds.
Draw ==
  /\ Browser("Subscribed")
  /\ \/ drawn' = TRUE /\ queued' = "nothing" /\ UNCHANGED browser
     \/ queued = "left" /\ browser' = "Panicked" /\ UNCHANGED <<drawn, queued>>
  /\ UNCHANGED <<vars, peer, lives, wire, tree>>

-----------------------------------------------------------------------------

ServerNext ==
  \/ TableStep \/ Crash
  \/ \E c \in Conns : PullStep(c) \/ FlushStep(c) \/ ControlStep(c)

BrowserSteps == OpenSocket \/ SendRequest \/ Synchronize \/ HandleUpdates \/ Hangup

SessionNext ==
  \/ ServerNext \/ BrowserSteps \/ SendRequestFails \/ Draw \/ SocketFails
  \/ \E c \in Conns : Program(c)

SessionSpec == SessionInit /\ [][SessionNext]_allVars

\* Tasks that can run do: the ingest of a received message, the start-up, both
\* branches of a connection's select!, which picks a ready one at random, and the
\* browser's loop, whose select! is fair to frames and messages alike.  Nothing
\* obliges RIS or a program to send anything, a socket to fail or a server to crash.
FairSession ==
  /\ SessionSpec
  /\ WF_allVars(TableStep /\ (Ingest \/ \E v \in Versions : SeedFamily(v)))
  /\ \A c \in Conns :
       WF_allVars(PullStep(c)) /\ WF_allVars(FlushStep(c)) /\ WF_allVars(ControlStep(c))
  /\ WF_allVars(BrowserSteps)
  /\ SF_allVars(Draw)

-----------------------------------------------------------------------------

\* The browser's routes, if it has a tree, after a message.
Hears(held, m) ==
  IF m.kind = "TrieSnapshot" THEN IF held = <<>> THEN <<m.routes>> ELSE held
  ELSE IF held = <<>> THEN <<>>
  ELSE <<Applied(held[1], m.updates)>>

\* ... and after each message of s in turn.
HearsAll(held, s) ==
  LET after[k \in 0 .. Len(s)] == IF k = 0 THEN held ELSE Hears(after[k - 1], s[k])
  IN  after[Len(s)]

\* The routes the browser will have when it has read what is on the wire.
OnTheWire == HearsAll(IF browser = "Subscribed" THEN <<tree>> ELSE <<>>, wire)

\* From the trie to the tree: what the browser has, then what is on the wire, then
\* what the connection has yet to send, make the server's routes, over reconnects,
\* restarts and whatever was on the wire when a socket failed.
ClientInSync ==
  peer = "browser" /\ open[us] /\ state[us] = "Active" /\ Intact(us)
    /\ browser \in {"Synchronizing", "Subscribed"} =>
       /\ OnTheWire # <<>>
       /\ Reaches(us, OnTheWire[1]) = Due(Asked)

\* Once ingest is quiet, every active subscription that never lagged ends up with
\* the server's routes of its family at its peer, and in the browser on the screen.
Converges ==
  <>[](\A c \in Conns :
         state[c] = "Active" /\ intact[c] =>
           /\ view[c] = table[version[c]]
           /\ Browser("Subscribed") /\ open[c] => tree = table[Asked] /\ drawn)

\* The browser and the connection never wait for each other: a snapshot asked for
\* comes, or the wait ends with the socket.
SnapshotComes ==
  Browser("Synchronizing") ~> browser # "Synchronizing"

=============================================================================
