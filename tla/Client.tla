------------------------------- MODULE Client -------------------------------
(***************************************************************************)
(* The browser client (client/src/lib.rs) and its GPU buffer               *)
(* (client/src/render.rs): one task that connects, takes a snapshot of the *)
(* trie, applies updates to it and draws it.  The trie is its slab: what   *)
(* insert, withdraw and sweep do to it is what RadixHistory checks of them *)
(* (EveryChangeReported): they report every slot in use that they changed. *)
(* The position of a node in `slab` is its index; slot 0 is left out.      *)
(* The browser calls back for one animation frame at a time: the future    *)
(* that waits for it owns the closure that is called.                      *)
(***************************************************************************)
EXTENDS Integers, Sequences

CONSTANTS
  Nodes,       \* contents of a slot in use
  Free,        \* contents of a slot on the free list
  Zeroed,      \* contents of a buffer nobody has written to
  GpuSlots,    \* what the buffer has room for; no slab exceeds it
  SweepEvery,  \* 5000 in the code
  MaxFrame     \* bound on the updates of a ThinBgpUpdateFrame

ASSUME ClientAssumption ==
  /\ Free \notin Nodes
  /\ GpuSlots \in Nat
  /\ SweepEvery \in Nat
  /\ MaxFrame \in Nat

VARIABLES
  state,             \* of the ClientState machine
  slab,              \* the tree's, empty where there is no tree
  gpu,               \* slab_buffer
  dirtyNodeQueue,
  inHand,            \* updates of the message being handled
  updatesSinceSweep,
  frame,             \* the future of next_animation_frame
  callback,          \* what the browser holds of its closure
  reconnected,       \* history: there has been an earlier connection
  faithful           \* history: the last frame showed the tree of its time

vars == <<state, slab, gpu, dirtyNodeQueue, inHand, updatesSinceSweep,
          frame, callback, reconnected, faithful>>

Slot == Nodes \cup {Free}

Slabs == UNION {[1 .. n -> Slot] : n \in 0 .. GpuSlots}

\* The slots the trie reaches.
Used(s) == {i \in 1 .. Len(s) : s[i] # Free}

TypeOK ==
  /\ state \in {"Initializing", "Connecting", "Connected", "Synchronizing",
                "Subscribed", "Error", "Panicked"}
  /\ slab \in Slabs
  /\ gpu \in [1 .. GpuSlots -> Slot \cup {Zeroed}]
  /\ dirtyNodeQueue \subseteq 1 .. GpuSlots
  /\ inHand \in 0 .. MaxFrame
  /\ updatesSinceSweep \in 0 .. SweepEvery + 1
  /\ frame \in {"none", "armed", "registered", "granted"}
  /\ callback \in {"none", "held", "freed"}
  /\ reconnected \in BOOLEAN
  /\ faithful \in BOOLEAN

Init ==
  /\ state = "Initializing"
  /\ slab = <<>>
  /\ gpu = [i \in 1 .. GpuSlots |-> Zeroed]
  /\ dirtyNodeQueue = {}
  /\ inHand = 0
  /\ updatesSinceSweep = 0
  /\ frame = "none"
  /\ callback = "none"
  /\ reconnected = FALSE
  /\ faithful = TRUE

-----------------------------------------------------------------------------
\* Before there is a tree.  RenderState goes from state to state as it is.

renderVars == <<gpu, dirtyNodeQueue, faithful>>

treeVars == <<slab, inHand, updatesSinceSweep>>

frameVars == <<frame, callback>>

Advance(from, to) ==
  /\ state = from
  /\ state' = to
  /\ UNCHANGED <<treeVars, renderVars, frameVars, reconnected>>

\* RenderState::init.
Initialize == Advance("Initializing", "Connecting")

OpenSocket == Advance("Connecting", "Connected")

SendRequest == Advance("Connected", "Synchronizing")

\* What is returned as an Err ends the loop of run(): no device, no socket, a
\* request that is not sent, and while synchronizing also a socket that fails or
\* a message that does not decode.
Fail == \E s \in {"Initializing", "Connecting", "Connected", "Synchronizing"} :
          Advance(s, "Error")

\* The socket ends while synchronizing.
Hangup ==
  /\ state = "Synchronizing"
  /\ state' = "Connecting"
  /\ reconnected' = TRUE
  /\ UNCHANGED <<treeVars, renderVars, frameVars>>

\* Mutant: the last slot is left out.
UploadedShort(s) == [i \in 1 .. GpuSlots |-> IF i < Len(s) THEN s[i] ELSE gpu[i]]

\* upload_slab: one write of the whole slab, what lies beyond it stays.
Uploaded(s) == [i \in 1 .. GpuSlots |-> IF i <= Len(s) THEN s[i] ELSE gpu[i]]

\* A snapshot of the family asked for.  Any other message changes nothing.  The
\* future for the first frame is made and not yet polled.
Synchronize ==
  /\ state = "Synchronizing"
  /\ \E s \in Slabs :
       /\ slab' = s
       /\ gpu' = Uploaded(s)
  /\ updatesSinceSweep' = 0
  /\ state' = "Subscribed"
  /\ frame' = "armed"
  /\ UNCHANGED <<dirtyNodeQueue, inHand, callback, reconnected, faithful>>

-----------------------------------------------------------------------------
\* Subscribed.  A message is handled to its end before anything else happens.

Swept == updatesSinceSweep <= SweepEvery

Waiting == state = "Subscribed" /\ inHand = 0 /\ Swept

\* A ThinBgpUpdate or a ThinBgpUpdateFrame.  Any other message changes nothing.
Receive ==
  /\ Waiting
  /\ inHand' \in 1 .. MaxFrame
  /\ UNCHANGED <<state, slab, updatesSinceSweep, renderVars, frameVars, reconnected>>

\* The slots in use that differ when a call of the tree turns the slab s into t.
Changed(s, t) == {i \in Used(t) : i > Len(s) \/ t[i] # s[i]}

\* It reports these, and perhaps others.
Reports(s, t, r) == Changed(s, t) \subseteq r

\* Mutants: the queue is started anew; slots are queued by the position they have
\* in the vector with its reserved slot 0.
QueuedOnly(r) == r
QueuedShifted(r) == dirtyNodeQueue \cup {i + 1 : i \in r}

\* RenderState::update.
Queued(r) == dirtyNodeQueue \cup r

\* insert or withdraw.  The slab grows or reuses what is free.
HandleUpdate ==
  /\ state = "Subscribed"
  /\ inHand > 0
  /\ Swept
  /\ \E t \in Slabs : \E r \in SUBSET (1 .. Len(t)) :
       /\ Len(t) >= Len(slab)
       /\ Reports(slab, t, r)
       /\ slab' = t
       /\ dirtyNodeQueue' = Queued(r)
  /\ inHand' = inHand - 1
  /\ updatesSinceSweep' = updatesSinceSweep + 1
  /\ UNCHANGED <<state, gpu, frameVars, reconnected, faithful>>

\* The end of handle_update, when enough updates have gone by.
Sweep ==
  /\ state = "Subscribed"
  /\ ~Swept
  /\ \E t \in Slabs : \E r \in SUBSET (1 .. Len(t)) :
       /\ Len(t) = Len(slab)
       /\ Used(t) \subseteq Used(slab)
       /\ Reports(slab, t, r)
       /\ slab' = t
       /\ dirtyNodeQueue' = Queued(r)
  /\ updatesSinceSweep' = 0
  /\ UNCHANGED <<state, gpu, inHand, frameVars, reconnected, faithful>>

\* What becomes of a callback the browser holds when a local of
\* next_animation_frame is dropped: the guard takes it back, the closure's memory
\* goes from under it.
Dropped(local, held) ==
  IF held = "held" THEN [guard |-> "none", closure |-> "freed"][local] ELSE held

\* Mutant: the closure is declared last.
DeclaredGuardFirst == <<"guard", "closure">>

\* The locals, in the order of their declarations.
Declared == <<"closure", "guard">>

\* They are dropped with the future, the last one first.
Cancelled == Dropped(Declared[1], Dropped(Declared[2], callback))

\* The server closes, the socket fails, or a message does not decode.  The future
\* of the next frame is dropped, polled or not.
Reconnect ==
  /\ Waiting
  /\ state' = "Connecting"
  /\ slab' = <<>>
  /\ updatesSinceSweep' = 0
  /\ reconnected' = TRUE
  /\ frame' = "none"
  /\ callback' = Cancelled
  /\ UNCHANGED <<inHand, renderVars>>

\* The future is polled for the first time.
RequestFrame ==
  /\ Waiting
  /\ frame = "armed"
  /\ frame' = "registered"
  /\ callback' = "held"
  /\ UNCHANGED <<state, treeVars, renderVars, reconnected>>

\* The browser calls back, between two turns of the task.
Grant ==
  /\ Waiting
  /\ callback = "held"
  /\ frame' = "granted"
  /\ callback' = "none"
  /\ UNCHANGED <<state, treeVars, renderVars, reconnected>>

\* Every queued slot can be read from the slab.
Flushable == dirtyNodeQueue \subseteq 1 .. Len(slab)

\* flush_dirties: what is queued is written as the slab has it now.
Flushed == [i \in 1 .. GpuSlots |-> IF i \in dirtyNodeQueue THEN slab[i] ELSE gpu[i]]

\* Mutant: what was flushed stays queued.
Uncleared == dirtyNodeQueue

Cleared == {}

\* The future is ready: flush, then draw or, when the surface has no texture, not.
\* The future of the next frame takes its place.
Draw ==
  /\ Waiting
  /\ frame = "granted"
  /\ Flushable
  /\ gpu' = Flushed
  /\ dirtyNodeQueue' = Cleared
  /\ \/ faithful' = \A i \in Used(slab) : gpu'[i] = slab[i]
     \/ UNCHANGED faithful
  /\ frame' = "armed"
  /\ UNCHANGED <<state, treeVars, callback, reconnected>>

\* VecSlab::get is out of bounds.  The writes before it are of no consequence.
DrawPanics ==
  /\ Waiting
  /\ frame = "granted"
  /\ ~Flushable
  /\ state' = "Panicked"
  /\ UNCHANGED <<treeVars, renderVars, frameVars, reconnected>>

Frame == Draw \/ DrawPanics

Handle == HandleUpdate \/ Sweep

Next ==
  \/ Initialize \/ OpenSocket \/ SendRequest \/ Fail \/ Hangup \/ Synchronize
  \/ Receive \/ Handle \/ Reconnect \/ RequestFrame \/ Grant \/ Frame

Spec == Init /\ [][Next]_vars

\* A message in hand is handled.  Frames keep coming while the page is visible,
\* and select! polls its branches in random order, so messages cannot hold up a
\* frame for ever though they come between: strong fairness.
FairSpec ==
  /\ Spec
  /\ WF_vars(Handle)
  /\ SF_vars(RequestFrame)
  /\ SF_vars(Grant)
  /\ SF_vars(Frame)

-----------------------------------------------------------------------------

\* Outside the queue the buffer is the slab, slot by slot, wherever the trie can
\* lead the shader: over snapshots on top of an older tree's slots, slots freed
\* and used again between frames, and reports of many calls in one queue.
MirrorOK ==
  state = "Subscribed" =>
    \A i \in Used(slab) \ dirtyNodeQueue : gpu[i] = slab[i]

\* No frame ever shows a tree other than the one the client has when it is drawn
\* (render: flush_dirties first, then draw).
FramesShowTree == faithful

\* The queue names slots of the tree it was filled from, so as long as there has
\* been one connection every frame can be flushed.
QueueInSlab ==
  ~reconnected => Flushable \/ state # "Subscribed"

\* Whatever ends a subscription and whenever, the browser never holds a closure
\* that is gone, and the callback it holds is the one the next frame waits for.
CallbackOwned ==
  /\ callback # "freed"
  /\ callback = "held" <=> frame = "registered"
  /\ frame # "none" <=> state \in {"Subscribed", "Panicked"}

\* A slot that is queued is uploaded, whatever the stream of messages, unless the
\* subscription ends first.
QueueDrains ==
  \A i \in 1 .. GpuSlots :
    (state = "Subscribed" /\ i \in dirtyNodeQueue) ~>
      (state # "Subscribed" \/ i \notin dirtyNodeQueue)

\* "The per-frame render loop in SubscribedState takes over drawing from here":
\* no frame of a subscription fails to be drawn for what an earlier one queued.
DrawingTakesOver == state # "Panicked"

=============================================================================
