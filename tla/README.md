# TLA+ models and proofs of slash0

slash0 draws the Internet's BGP route tables in a browser. A server follows RIS
Live, keeps one radix trie of announced prefixes per address family, and gives
every client a snapshot followed by a stream of updates; the client keeps its own
trie, mirrors its nodes into a GPU buffer, and a shader looks up one address per
pixel. This directory holds models of the parts whose correctness is hard to
test, the TLC runs that check them on small instances, and machine-checked
proofs, for every instance, of the most important facts.

## The system

| part | state | operations | what must hold |
|---|---|---|---|
| prefixes (`core/src/prefix.rs`) | none | `parse_cidr`, `bit_at`, `common_prefix_len`, `masked`, `covers` | a CIDR becomes the one prefix of its block; the common length is the longest agreement |
| slab (`core/src/slab.rs`) | vector, free list | `alloc`, `free`, `get_mut`, `len`, iterator | no index has two holders; `len` and the iterator see what is held |
| radix trie (`core/src/tree.rs`, `node.rs`) | slab, root, announced count | `insert`, `withdraw`, `sweep_tombstones`, `lookup`, `limited_lookup` | always one trie; it is the set of announced routes; every change reported |
| route table (`server/src/route_table.rs`, `main.rs`) | two tries behind locks, a broadcast channel | seed, `ingest`, `subscribe`, `sweep` | a snapshot and the stream after it fit together |
| connection (`server/src/connection.rs`) | Idle, Synchronizing, Active, Closing | read a request, send a snapshot, send frames | the peer ends up with the server's routes; requests are read |
| RIS stream (`ris_client/src/stream.rs`), or a recording (`mock_event_source.rs`) | websocket or file, channel | relay, reconnect, shut down | in order, nothing lost unnoticed, reconnects until told to stop |
| client (`client/src/lib.rs`, `render.rs`) | state machine, trie, dirty queue, GPU buffer, the pending animation frame | connect, synchronize, apply updates, draw | what is drawn is the trie; no callback outlives its closure |
| shader, Hilbert curve | none | per-pixel lookup, address/point conversion | round trip; same lookup as the CPU |
| server process (`main.rs`, `http.rs`, `config.rs`, `tls.rs`) | configuration, shutdown token, two listeners, certificate, requests | start up, serve, drain, stop | never silently without TLS; a shutdown ends it and lets requests finish |
| `mrt-util-cli` | none | convert a dump | |

How they meet: RIS messages go through a broadcast channel to the ingest task,
which is the only writer of the tries besides the seed at start-up and a periodic
sweep. It takes a family's lock for *one prefix at a time*, and re-broadcasts the
message through a second channel once all of it is applied. A connection clones a
trie and makes its receiver under the same lock, then reads the channel at its own
pace; a reader that is too slow is overtaken. The client applies what it receives
and uploads exactly the slots its trie's `dirty` callback named. Around all this
the process loads its configuration, serves plain HTTP and perhaps TLS, whose
certificate is validated over the former, and drains both on a signal.

What is hard: recursion that restructures a tree while suspended frames still
point at it; index reuse; snapshots taken in the middle of a message; slow
readers; start-up racing ingest; sockets and servers that go away at any moment;
reconnects that keep state; a shutdown that meets a start-up. `PROJECT.json` lists
these hazards at their lines, with the properties aimed at them.

## Modules

    Prefixes --- RadixTree --+-- RouteMap        (what a trie promises)
                     +-- RadixHistory --+
                     +-- RadixLookup ---+-- RadixTree_proofs

    Slab (what a slab promises) --- VecSlab --- VecSlab_proofs
                                                      |
    Streams (keep, flatten, and their laws) --+-------+-- Addresses_proofs
        |                                     |
    RouteTable --- Connection --- Session     +-- RisStream --- RisStream_proofs
                                     |
                              Session_proofs

    Server --- Server_proofs         Client --- Client_proofs

    AddressWords --- Hilbert --- Addresses --- (Prefixes)
                                     |
                              Addresses_proofs

RouteTable, Connection and Session are what lies between a RIS update and the screen.
The MC modules give the constants of six modules their values.

**Prefixes.** A prefix is the sequence of its significant bits, an address a
sequence of `MaxLen` (`MAX_PREFIX_LEN`) of them; the bits the code keeps at zero
past `len` do not exist, so equality of sequences is the code's bytewise equality
of masked prefixes.

**RadixTree.** `node` is a function from the live slab indices to nodes, `stack`
the recursion frames of the call in progress, `ret` the outcome that the frame
that returned last hands to the one above, `dirty` the calls of the callback. One
action per branch of a frame: `InsertReannounce`, `InsertDescend`, `InsertGraft`,
`InsertSplice`, `InsertSplit` and `InsertUnwind` are `insert_recursive`;
`InsertFirst` and `InsertReturn` are `insert`; `WithdrawHit`, `WithdrawDescend`,
`WithdrawMiss`, `WithdrawUnwind` are `withdraw_recursive`; `SweepVisit`,
`SweepKeep`, `SweepCollapse` are `sweep_recursive` with `set_parent_slot`. A frame
keeps its node and the child slot it recursed into; the copies the code makes of a
node's prefix and children before it recurses are not kept, and the model reads the node
again instead: that the frames below do not change what was copied is a theorem
(`CopiesStayTrue`). `alloc` may
return *any* free index, which is weaker than what VecSlab does. When the slab is
full `expect("slab full")` panics: `InsertFull` and `InsertSplitFull` end in
`poisoned`, after which the server's mutex refuses every call. A node's payload is
its timestamp, all that ThinData and ThickData hold. `sweep_count` is a metric and
left out. When a call returns its arguments leave the state (`Forget`).

**RouteMap** is what callers rely on: a set of announced prefixes where each call
takes effect once, on its own prefix, and `withdraw` answers whether it was there.
RadixTree implements it under the mapping `Routes`, the announced prefixes of the
nodes attached to the root, counting the subtree in `ret` while insert unwinds.

**RadixHistory** adds what the unit tests remember (`run_and_check_dirty`): the
slab before the call, and whether timestamps have come in order. **RadixLookup**
adds the loop of `limited_lookup`, an iteration an action; `lookup` is the case of
a floor that no prefix reaches. They borrow the trie, so they run between calls.

**Streams** has what `filter`, `filter_map` and `flatten` do with the items of a
stream, as recursive functions, and the laws that the proofs about streams need.

**VecSlab** is the vector and its LIFO free list without the reserved slot 0, so
positions are indices. Its callers free only what they hold, which a release build does
not check (`FreeSlot`); the trie does so, since a sweep frees the live node of its running
frame. **Slab** is the abstract slab it implements.

**RouteTable** keeps each family's trie as its route set, which RadixTree vs
RouteMap justifies. `Receive`, `ApplyPrefix` (one lock per prefix) and
`Rebroadcast` are the ingest task, `SeedFamily` the start-up's bulk insert. The
channel is a log of all messages of which only the last `Capacity` can still be
read. **Connection** adds the connections: `state` has the enum's variants, plus
`Sending` between `subscribe` and the end of the snapshot's send, `Panicked` for
the `expect` there and `Closed` for the end of the task. `cursor` is a receiver's
position, `chunk` what `chunks_timeout` has collected, `view` what the peer holds
after applying what was sent. `raced` and `intact` are history variables that
only properties read.

**Session** puts a peer at the other end of a connection: `peer` says whether it
is the browser, whose state machine follows, or any program on the websocket, which
may switch families as the browser never does. `wire` holds the messages sent and not
yet read; `SocketFails` may cut it at any moment, `Crash` ends the server with its
tables, channel and connections, to start again from the seed. The browser's tree is
its set of routes, as in RouteTable. `queued` and `drawn` keep of its renderer what a
reconnect can spoil: a dirty queue left from an earlier tree may panic a frame, as
Client shows in detail. A connection the browser has left ends by itself and writes
nothing shared, so the next one takes its place. `SnapshotComes` is what the two state
machines owe each other; neither has a time limit or sends heartbeats.

**RisStream** is the task that `subscribe` spawns (`task` is where it is in its two
nested loops), the stream it holds (`records` in flight, `up` until it has ended),
the broadcast channel as a log with the ingest task's `cursor`, and that task.
`Emit`, `SendNoise`, `Break` and `Falter` are RIS and the network. `pausing` and
`connecting` are the two awaits of the sleep arm: only in the first is the token
looked at. RouteTable starts where this ends, with the messages ingested. With
`source = "file"` the task is the one of `subscribe_from_file`: `records` are then the
lines left of a recording, there is no reconnect and no token, and the end of the file
or a line that cannot be read ends the task (`FileEnds`).

**Client** is the browser's state machine, its tree reduced to the slab, the dirty
queue and the GPU buffer. A call of the tree changes the slab in any way and
reports at least the slots in use that it changed: what `EveryChangeReported`
checks of RadixTree. `Waiting` is the `select!` of the subscribed loop; a message
is handled to its end before it is reached again, with `Sweep`, the tail of
`handle_update`, as the only step possible when it is due. `Panicked` is the index
out of bounds in `flush_dirties`. The client does not look at the shape of its
tree, so the module does not either. `frame` is the future of
`next_animation_frame`: made but not polled (`armed`), waiting (`registered`) or
ready (`granted`). `callback` is what the browser holds meanwhile; `Reconnect` drops
the future at any of these points, and with it its locals in the reverse order of their
declarations (`Declared`), the guard that takes the callback back before the closure.

**Server** is the process: `main` is the next of its steps, each of which may fail and
end it, `listener` the two `axum_server`s (lazily bound, accepting, draining, done),
`token` and `handlers` the shutdown signal and the task that installs its handlers,
`grace` the handle that both listeners share, `conn` the connections, requests until they
are upgraded. `acme` is where rustls_acme's state machine is, whose events the ACME task
logs: it loads a certificate from its cache or has none, orders one whether or not a
listener is there to be validated, and after an order that succeeds or fails goes on to
the next, unless it ends; `certificate` says that the acceptor has one to serve. That
certificates expire is left out. A configuration is reduced to the blocks that decide what start-up does:
absent, complete, or half-written (`Half`, which figment rejects). `Limit` is the
rotation size in bytes, a product that wraps: `validate` excludes 0 megabytes and not
2^44 of them. axum_server, figment and rustls_acme are modelled from how they are used.

**AddressWords** is the code on four machine words that Prefixes idealises, from the
address and length of a CIDR on, and **Hilbert** the two conversions with their helpers,
both for words of any width. An unsigned integer of n bits is the function from the
weights 0 to n - 1 to its bits, on which `^`, `&` and `<<` are defined: the code of
hilbert.rs has no arithmetic that bits do not express, and what a shift moves out of a
word is gone. The loops are recursive functions, step for step the code's.
**Addresses** walks over all addresses and lengths and compares: `parse_cidr` and
`covers` with the numbers of an address block, `common_prefix_len` with the
bit-level operator of Prefixes, the conversions with each other.

## Runs

| run | bounds | result |
|---|---|---|
| `radix_tree` | 6 keys of up to 3 bits, 5 slots, 2 timestamps | TypeOK, TrieOK, NoLeak, CountExact, SweptClean, InsertAnswer, EveryChangeReported, MaxToRootInOrder, refinement of RouteMap |
| `radix_lookup` | 4 keys, 4 slots, all 8 addresses, all floors | LongestMatch, LookupMatchesRoutes, LookupReturns, CallReturns |
| `vec_slab` | capacity 4, 2 contents | FreeListSound, LenExact, IteratesHeld, refinement of Slab |
| `session` | 2 families, 2 routes, 2 messages ingested of 2 kinds, channel of 1, chunks of 2, 2 requests or connections, 2 server lives | InSync, ClientInSync, Converges, RequestsRead, SnapshotComes |
| `client` | 2 contents, 2 slots, a sweep after 1 update, frames of 2 updates | MirrorOK, FramesShowTree, QueueInSlab, CallbackOwned, QueueDrains |
| `ris_stream` | 4 messages, 3 records in flight, channel of 2, 2 recordings | InOrder, NothingLost, StopsDrained, KeepsReconnecting, ShutdownEnds |
| `addresses` | words of 2 bits: 256 addresses, 9 lengths, all pairs | ParsesRight, CommonRight, RoundTrip, Adjacent |
| `server` | every combination of blocks, 2 requests, log sizes around the one that wraps | ShutdownEnds, GraceKept, NeverPlainOnly, TlsComesUp |
| `timestamps` | as `radix_tree` | MaxToRoot **violated** |
| `connection_lag` | Connection alone, 3 messages, no seed | StaysInSync **violated** |
| `seed_race` | Connection alone, 3 messages, a seed | UpToDate **violated** |
| `client_reconnect` | as `client` | DrawingTakesOver **violated** |

Why the bounds are enough. The six keys contain pairs in each relation (equal,
above, below, apart), three levels of nesting and forks at two depths, so every
branch of the three recursions runs under and above every other; five slots are
fewer than six keys need, so the slab also fills up, between the two allocations
of a split too. Indices are interchangeable, hence the symmetry of the runs on the
trie that check no liveness. Two timestamps give earlier, equal and later. In
`session` a channel of one against a log of two overtakes a reader, a chunk of two
holds both messages or is cut between them, and the messages touch both families and
announce and withdraw the same route; two requests allow a program to switch family
in mid-stream and the browser to reconnect; two lives put a restart anywhere before,
in and after a subscription. In `client` two
slots are enough for one to be freed and used again while the other stays, for a
slab that grows, and for a snapshot shorter than the one before; the threshold of
one puts sweeps inside and between messages. In `ris_stream` a channel of two
lets the writer overtake the reader by up to two messages, and three records hold
a message behind noise and before an error; one recording is longer than the channel,
the other breaks off. In `server` two requests can be one on each listener, or one on
the way and one that comes while draining; integers wrap at 16 with a "megabyte" of 4,
so the sizes 0, 1, 4 and 5 are the excluded one, an ordinary one, the one that wraps to
zero and one that wraps to something else; every number of orders may fail, before and after
either listener is bound. In `addresses` only the width of a
word is reduced: there still are four, two to an axis, so every boundary between
words is crossed and every length falls before, on and after one. Every passing
property is also run against a plausible bug in the code (`mutants`), which must
violate it.

Deadlock is checked in `vec_slab`. The other models really may stop: a poisoned
trie takes no call, a connection is closed while RIS is quiet (`MaxLog`,
`MaxRequests`, `MaxLives` and `MaxMessages` bound the environment), the stream's task
ends on shutdown or with its file, the client in `Error`, the process when main
returns, and a walk over all addresses at the last one.

Fairness. A mutating call or a lookup that has begun runs to its end: it is a
function call on one thread. In Session the ingest of a received message, the
seeding, and each branch of a connection's `select!` are weakly fair: tokio runs
tasks that are ready, and `select!` picks among ready branches at random. Weak
fairness of `FlushStep` supposes that the socket takes what is sent, or fails. The
browser's task is weakly fair, its frames strongly, as in Client. Nothing makes a
socket that was opened fail or a server crash, so a wait that only ends that way
would be found. In
RisStream both tasks are weakly fair; an attempt to connect has an outcome, and of
infinitely many one succeeds (strong fairness of `Connect`, only
`KeepsReconnecting` needs it); and `cancelled()` is not passed over for ever by a
`select!` that chooses at random, nor by a pause that ends just when it fires
(strong fairness of `StopReading` and `Quit`). In Client a message in hand is
handled, and the three steps of a frame are strongly fair: messages come in between,
but the future is polled, the browser grants frames while the page is visible, and
`select!` again polls in random order. A page in the background draws nothing and
uploads nothing. In Server main and the tasks run, the ten seconds of grace pass, and
what is awaited during start-up (a connection to RIS, a bind) has an outcome, good or
bad. A certificate order has an outcome too, and of infinitely many whose challenge could
be fetched one is valid (strong fairness of `OrderValid`, only `TlsComesUp` needs it); an
order that is made before the plain listener is bound cannot be, and it takes the loop of
tls.rs:39, which only logs the error, to get to the next one. No signal need
come, and no request need ever finish. Nothing obliges RIS, a caller or a peer to do
anything.

### What the violations show

* *timestamps.* `apply_announce` and `apply_withdraw` overwrite the target's
  timestamp and a frame stops propagating once `ts` does not advance, so with
  messages out of order a node can be older than its descendants. While timestamps
  arrive in order, max-to-root holds (`MaxToRootInOrder`).
* *connection_lag.* `.iter().flatten()` drops `Lagged` and the connection stays
  Active, where the route table's comment says it needs a fresh subscription.
* *seed_race.* Ingest starts before the seed is inserted; a withdrawal that comes
  first is undone by the seed.
* *client_reconnect.* The dirty queue outlives the connection it was filled in. If
  the connection ends before the next frame and the next snapshot is smaller (the
  server was restarted), the first flush indexes past the end of the new slab.
  When it is not smaller the old indices are harmless: they are uploaded from the
  new slab (`MirrorOK` and `FramesShowTree` hold over reconnects).

Smaller divergences are not runs of their own. The tests' harness forbids a call to
report a slot twice (tree.rs:684-691) and wraps sweeps too, but a sweep reports a
parent once for each child it collapses, which costs an upload and no more.
`subscribe` is documented to spawn a task that "runs until RIS Live closes the stream"
(stream.rs:97-99); it reconnects and runs until shutdown, as the comment in it says
(stream.rs:111), and that is what `KeepsReconnecting` and `StopsDrained` state. The grace
period is documented as what "in-flight connections get to finish" (main.rs:48); a
connection that was upgraded to a websocket, which the handle no longer counts, is not
waited for and is cut when main returns, so `GraceKept` speaks of requests only.
`simulate_message_rate` is documented in config.rs:140-142 and not passed on at
main.rs:232.

`InSync`, `ClientInSync` and `Converges` are about subscriptions that have not lagged, and leave
out one that begins while a message the seed overtook is still in progress
(`raced`): there the trie and the re-broadcast disagree for the reason above.

## Proofs

All are for every value of the constants. Each rests on an inductive invariant, named
below, of which the property is a part or a consequence.

**The slab** (VecSlab_proofs). `SlabInv` adds to the types that the free list is
injective, within the vector, and that the vector is within capacity. From it:
`FreeListNeverRepeats`, `LenCountsHeld` (a cardinality argument over the injective
list) and `VecSlabImplementsSlab`, step by step under the mapping of `contents` to
the held entries. `IterationMeetsHeld` needs no step: from the end of the vector
backwards, what the iterator still yields from a position on are the positions there
that are not free, in order and each once (`Lists`).

**The trie** (RadixTree_proofs), for every address length, slab, set of keys and
set of timestamps. `TrieOK` is not inductive: after `InsertSplit` the parent's
pointer is stale, and what makes the next `InsertUnwind` right is where the frames
are. The inductive invariant `TrieInv` is the conjunction of

* `TypeOK`, `CountExact`, `InsertAnswer`;
* `ShapeOK`: the *effective* child map `Kid`, in which the pending outcome already
  replaces the pointer that is about to be rewired, is a trie in the sense of
  `Shape` (the entry covers everything, edges go down on the right side, paths
  are whole, no prefix twice);
* `PathOK`: the frames are a path from the root through the recorded slots;
* `DescentOK`: all frames of an insert or a withdraw are strictly above the key
  and on its side.

The first part of the module proves what this needs about bit sequences (agreement,
transitivity of covering, the chain of prefixes of one address, which side a longer
prefix is on) and, about any function from nodes to children, that grafting a leaf,
splicing a node above, splitting and collapsing preserve the shape, that a node
has one parent and that every node but the entry has one. Each action of
RadixTree then has one lemma. The theorems are `TypeCorrect`, `AlwaysOneTrie`,
`NothingLeaks`, `CountIsExact` and `AnswerIsRight`. `PathOK` and `DescentOK` also
give `CopiesStayTrue`: what the code copied before recursing is still so when it goes on.

`TrieIsRouteMap` is the refinement of RouteMap. The shape gives that the routes
attached to the root, or to what is about to be, are the announced nodes there are; a
step of the map is then an announced node more, one less, or a stutter. What is
missing is that a withdrawal that gives up has looked where its key would be (`AskInv`:
while it descends, a node with its key lies below the running frame).
`SweepIsThorough` follows from `SweepInv`: a node that is redundant is on the stack of
the sweep, or ahead of a frame, on the side it is about to visit or has yet to. A
collapse can make the node above redundant, which then is the frame that returns next.
`SweepBoundsSlab` follows by counting: what is left that is not a route has two children,
no node is the child of two and the root is nobody's, so there are fewer such nodes than
routes.

**How long calls take** (RadixTree_proofs). No prefix on the stack is as long as another,
so a call recurses no deeper than an address has bits, and one (`DepthIsBounded`).
`CallsAreBounded` is the part of `CallReturns` that is not about fairness: each step of a
call lowers `StepsLeft`. For insert and withdraw that is the way down to the longest
prefix and back up, which the size of the trie has no part in. For a sweep it counts the
pairs of a node and a thing to do there (`Todo`): enter it, see to one side, to the other,
leave it. A collapse brings back nothing that was done: the frames above wait on the side
the running one is on (`PathDown`), and the one that takes over its child moves on. `LookupsAreBounded` says the same of the lookup's loop.

**Readers of the trie** (RadixTree_proofs, last part).

* `LookupFindsLongest`, by `WalkInv`: each match is below the node in hand (`Ahead`) or
  no longer than the best so far (`Behind`). `LookupIsLongestRoute` carries that over to
  the routes of RouteMap, by what `TrieIsRouteMap` showed of them.
* `AllChangesReported`, by `ReportInv`: in every frame, what the call has changed so far
  has been reported, and on the way down it has changed nothing.
* `AncestorsAreLatest`, by `HeapInv`: while timestamps arrive in order, that of the call
  is the latest there is, and no child is later than its parent but the one whose
  pending outcome says `advanced` (`Rising`). That is why the propagation may stop at the
  first ancestor that does not advance: it has the latest timestamp already.

**The route table and the connections** (Session_proofs, first part), for every number
of connections, families, routes, seeds and messages. `SubscriptionsInSync` states
`InSync`; `ConnInv` says of each subscription that has not lagged that replaying what its
receiver has in front of it on what the peer holds makes the routes that the tries come
to (`Behind`). Two things make that inductive. A message is re-broadcast after it was
applied, to subscribers whose snapshot may already have some of it, so applying a prefix
of it again must change nothing: this is `AgainInv`, and it fails exactly where the seed
overtook the message (`raced`). And the laws of `Replay` (how it splits, that two tables
that an update makes equal stay so under others, that it looks at one family at a time)
reduce a step to an update.

**The session** (second part of Session_proofs). `SessionInv` adds where the two state
machines can be relative to each other while a socket is open (`Attached`): one request
is unread, being answered or answered, and what is on the wire makes of the browser's
routes those the server has sent. `BrowserInSync` states `ClientInSync`, over socket
failures, restarts and reconnects; `SessionsInSync` says that `InSync` survives them too.

**The RIS stream** (RisStream_proofs), for every recording and capacity. `StreamInv` is
`TypeOK` with `OrderInv` (channel and records in flight ascend, the reader is behind),
`LosslessInv` (until something breaks or lags each message has the place of its number)
and `DrainInv` (what the reader has read by the end of the channel). They give
`OrderKept`, `NothingIsLost` and `StopsOnlyDrained`.

**The process** (Server_proofs). `GraceIsKept` is an action property; the invariant
`ServeInv` says that a listener without its block never starts, and that when all others
are done no request is in flight or the grace period is over.

**The client** (Client_proofs), for every buffer size, set of contents, sweep
interval and length of messages: `BufferMirrorsSlab`, `EveryFrameFaithful`,
`FirstQueueInSlab` and `CallbacksOwned`. The first two together are nearly inductive: a step leaves a
slot outside the queue only if it did not change, because what changed was
reported, and a flush writes what it takes off the queue; so what a frame shows is
right. What is missing is that there is no queue before the first tree
(`QueueFresh`: without an earlier connection it names slots of the slab while
subscribed and is empty otherwise).

**Addresses** (Addresses_proofs), for words of any width. First what each operator on
words does to single bits, `MaskedBits` and `ComplementLowBits` among them, where the word
boundaries are; an address is its bits (`SameBits`). Then an invariant for each loop.

* `PrefixesAreBits` is why RadixTree may take prefixes for bit sequences: over words of any
  width, comparing two prefixes, cutting one, reading a bit of one and asking whether it
  covers an address give what module Prefixes gives over their bits, and each bit sequence
  is that of one prefix and no other, since what the mask cuts off is zero.
* `CommonIsRight`: `Found`, after so many words the count is the bound, or is at a bit that
  differs, or is exactly at the end of those words, and all bits below it agree. This is the
  maximum by which Prefixes defines the common length. `ParsingIsRight` follows, with what
  the mask leaves.
* `RoundTripHolds`: on the way up from the finest level the bits at and above the level are
  zero (`Below`), so the two bits a level marks are its quadrant; on the way down from the
  coarsest, the low bits are those the way up had at that level (`Retraces`), though
  point_to_ip reflects the whole axis where ip_to_point reflects its low bits.
* `AdjacentHolds`: below the carry the smaller address is all threes and the larger all
  zeros, the two corners on the x axis; at the carry they become neighbours, in one of three
  ways (`CarryStep`); above it both are turned alike, which keeps them so (`UpStepClose`).

**Streams** holds the lemmas on sequences that the slab, the RIS stream and the
connections share. Induction enters here, over an interval of numbers and stated with sets
(a set that has 0 and, with each number, the next, has the interval) since the library's
theorems that take a predicate cannot be instantiated; so do functions defined by
recursion over an interval, and induction over the elements of a sequence.

The constants need little: `None` is not an index, the slab's indices are a finite
set, keys are prefixes, timestamps are natural numbers (`TreeAssumption`), address
lengths are natural numbers (`MaxLenAssumption`); messages are sequences of updates and
a channel retains at least one (`RouteTableAssumption`, `RisStreamAssumption`). TLC
evaluates these and the others in the runs of their modules.

**Only model-checked**: liveness (`CallReturns`, `LookupReturns`, `Converges`,
`RequestsRead`, `SnapshotComes`, `QueueDrains`, `KeepsReconnecting`, `NeverPlainOnly`,
`TlsComesUp` and both `ShutdownEnds`), which is out of this prover's reach; of
`CallReturns` and `LookupReturns` it proves the bounds above. Every
other property of the passing runs is proved. The type invariants of RadixLookup,
Connection, RisStream, Session and Server are proved and not among the properties of a run.

## Not modelled

Encodings (postcard, JSON) and the splitting of a CIDR's text, metrics, logging,
routing of HTTP requests, device set-up and drawing, the pace of a replayed recording,
`mrt-util-cli`. `server/src/api.rs` is not compiled into the server. The numbers of
routes that `add_routes_from` logs are not state (its IPv6 count is read from the IPv4
map, route_table.rs:94, which is why main.rs:220 sees identical ones).

The shader's lookup is `RadixTree::lookup`, which RadixLookup checks; the rest of it is
colour arithmetic, of which one thing may surprise: it compares the low words of two
timestamps (shader/src/lib.rs:66), which wrap after 49 days. What a write beyond the
GPU buffer does is the browser's: Client supposes that no slab exceeds it. A sweep bounds
the nodes of the server's trie by its routes (`SweepBoundsSlab`), but nothing bounds the
routes, and a slab gives no slot back. The flattening of a ThickData
trie into a ThinData one for a snapshot keeps every index, so Session's snapshot is the
trie itself.

## Plan

1. Done: trie, slab, lookup, route table, connection, RIS stream, client, address
   words and Hilbert curve; the safety proofs of the trie, the slab and the client.
2. Done: the session from RIS update to screen with failing sockets and restarts, the
   recording as a source, CIDRs, animation frames, the server process.
3. Done: the proofs of every safety property above the words of an address: the iterator,
   the refinement of RouteMap, the sweep, lookups, dirty reports, timestamps, the RIS
   stream, connections and session, the drain of the process.
4. Done: words as functions from weights to bits, and with them the proofs of the address
   words and of the curve for words of any width.
5. Done: prefixes over words as the bit sequences of the trie; how deep and how long calls
   are, and how many nodes a sweep leaves.
6. Left open: the correspondence between modules that are checked apart, the messages that
   RisStream ingests with those RouteTable receives.
