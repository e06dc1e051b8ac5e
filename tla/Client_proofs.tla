---------------------------- MODULE Client_proofs ----------------------------
(***************************************************************************)
(* For every buffer size, node type and sweep period: what the client      *)
(* draws is the trie it has, because outside the dirty queue the buffer    *)
(* always is the slab.                                                     *)
(***************************************************************************)
EXTENDS Client, TLAPS

\* QueueInSlab is not inductive: that the queue is empty until the first snapshot
\* has to be known when it arrives.
QueueFresh ==
  ~reconnected =>
    IF state = "Subscribed" THEN Flushable ELSE dirtyNodeQueue = {}

ClientInv == TypeOK /\ MirrorOK /\ FramesShowTree /\ QueueFresh /\ CallbackOwned

LEMMA SlabFacts ==
  ASSUME NEW s \in Slabs
  PROVE  /\ Len(s) \in 0 .. GpuSlots
         /\ 1 .. Len(s) \subseteq 1 .. GpuSlots
         /\ \A i \in 1 .. Len(s) : s[i] \in Slot
         /\ Used(s) \subseteq 1 .. Len(s)
<1>1. PICK n \in 0 .. GpuSlots : s \in [1 .. n -> Slot]
  BY DEF Slabs
<1>2. n \in Nat
  BY <1>1, ClientAssumption
<1>3. Len(s) = n
  BY <1>1, <1>2
<1> QED
  BY <1>1, <1>2, <1>3, ClientAssumption DEF Used

LEMMA EmptySlab == <<>> \in Slabs /\ Used(<<>>) = {}
<1>1. <<>> \in [1 .. 0 -> Slot]
  OBVIOUS
<1>2. 0 \in 0 .. GpuSlots
  BY ClientAssumption
<1> QED
  BY <1>1, <1>2 DEF Slabs, Used

LEMMA InvInit == Init => ClientInv
<1> SUFFICES ASSUME Init PROVE ClientInv
  OBVIOUS
<1>1. slab \in Slabs
  BY EmptySlab DEF Init
<1>2. gpu \in [1 .. GpuSlots -> Slot \cup {Zeroed}]
  BY DEF Init
<1>3. inHand \in 0 .. MaxFrame /\ updatesSinceSweep \in 0 .. SweepEvery + 1
  BY ClientAssumption DEF Init
<1>4. TypeOK
  BY <1>1, <1>2, <1>3 DEF Init, TypeOK
<1> QED
  BY <1>4 DEF Init, ClientInv, MirrorOK, FramesShowTree, QueueFresh, CallbackOwned

\* Between the states without a tree nothing moves but the state.
LEMMA AdvancePreserves ==
  ASSUME ClientInv, NEW from, NEW to, Advance(from, to),
         from \in {"Initializing", "Connecting", "Connected", "Synchronizing"},
         to \in {"Connecting", "Connected", "Synchronizing", "Error"}
  PROVE  ClientInv'
<1> USE DEF Advance, treeVars, renderVars, frameVars
<1>1. TypeOK'
  BY DEF ClientInv, TypeOK
<1>2. MirrorOK'
  BY DEF MirrorOK
<1>3. FramesShowTree'
  BY DEF ClientInv, FramesShowTree
<1>4. QueueFresh'
  BY DEF ClientInv, QueueFresh
<1>5. CallbackOwned'
  BY DEF ClientInv, CallbackOwned
<1> QED
  BY <1>1, <1>2, <1>3, <1>4, <1>5 DEF ClientInv

LEMMA HangupPreserves ==
  ASSUME ClientInv, Hangup
  PROVE  ClientInv'
<1> USE DEF Hangup, treeVars, renderVars, frameVars
<1>1. TypeOK'
  BY DEF ClientInv, TypeOK
<1>2. CallbackOwned'
  BY DEF ClientInv, CallbackOwned
<1> QED
  BY <1>1, <1>2 DEF ClientInv, MirrorOK, FramesShowTree, QueueFresh

\* The snapshot is written over whatever the buffer held.
LEMMA SynchronizePreserves ==
  ASSUME ClientInv, Synchronize
  PROVE  ClientInv'
<1>1. PICK s \in Slabs : slab' = s /\ gpu' = Uploaded(s)
  BY DEF Synchronize
<1>2. /\ state = "Synchronizing" /\ state' = "Subscribed"
      /\ updatesSinceSweep' = 0 /\ frame' = "armed"
      /\ UNCHANGED <<dirtyNodeQueue, inHand, callback, reconnected, faithful>>
  BY DEF Synchronize
<1>3. /\ Len(s) \in 0 .. GpuSlots
      /\ \A i \in 1 .. Len(s) : s[i] \in Slot
      /\ Used(s) \subseteq 1 .. Len(s)
      /\ 1 .. Len(s) \subseteq 1 .. GpuSlots
  BY SlabFacts
<1>4. gpu' \in [1 .. GpuSlots -> Slot \cup {Zeroed}]
  BY <1>1, <1>3 DEF ClientInv, TypeOK, Uploaded
<1>5. TypeOK'
  BY <1>1, <1>2, <1>4, ClientAssumption DEF ClientInv, TypeOK
<1>6. MirrorOK'
  BY <1>1, <1>3 DEF MirrorOK, Uploaded
<1>7. FramesShowTree'
  BY <1>2 DEF ClientInv, FramesShowTree
<1>8. QueueFresh'
  BY <1>2 DEF ClientInv, QueueFresh, Flushable
<1>9. CallbackOwned'
  BY <1>2 DEF ClientInv, CallbackOwned
<1> QED
  BY <1>5, <1>6, <1>7, <1>8, <1>9 DEF ClientInv

LEMMA ReceivePreserves ==
  ASSUME ClientInv, Receive
  PROVE  ClientInv'
<1> USE DEF Receive, Waiting, renderVars, frameVars
<1>1. TypeOK'
  BY DEF ClientInv, TypeOK
<1>2. MirrorOK'
  BY DEF ClientInv, MirrorOK
<1>3. CallbackOwned'
  BY DEF ClientInv, CallbackOwned
<1> QED
  BY <1>1, <1>2, <1>3 DEF ClientInv, FramesShowTree, QueueFresh, Flushable

\* A call of the tree: what differs afterwards is queued.
LEMMA CallPreserves ==
  ASSUME ClientInv, state = "Subscribed",
         UNCHANGED <<state, gpu, frameVars, reconnected, faithful>>,
         NEW t \in Slabs, NEW r \in SUBSET (1 .. Len(t)),
         Len(t) >= Len(slab), Reports(slab, t, r),
         slab' = t, dirtyNodeQueue' = Queued(r),
         inHand' \in 0 .. MaxFrame, updatesSinceSweep' \in 0 .. SweepEvery + 1
  PROVE  ClientInv'
<1>1. /\ Len(t) \in 0 .. GpuSlots
      /\ 1 .. Len(t) \subseteq 1 .. GpuSlots
      /\ Used(t) \subseteq 1 .. Len(t)
  BY SlabFacts
<1>2. slab \in Slabs
  BY DEF ClientInv, TypeOK
<1>3. Len(slab) \in 0 .. GpuSlots
  BY <1>2, SlabFacts
<1>4. TypeOK'
  BY <1>1 DEF ClientInv, TypeOK, Queued, frameVars
<1>5. MirrorOK'
  <2> SUFFICES ASSUME NEW i \in Used(t), i \notin dirtyNodeQueue, i \notin r
               PROVE  gpu[i] = t[i]
    BY DEF MirrorOK, Queued
  <2>1. i <= Len(slab) /\ t[i] = slab[i]
    BY <1>1, <1>3 DEF Reports, Changed
  <2>2. i \in Used(slab)
    BY <2>1, <1>1, <1>3 DEF Used
  <2> QED
    BY <2>1, <2>2 DEF ClientInv, MirrorOK
<1>6. QueueFresh'
  <2>1. 1 .. Len(slab) \subseteq 1 .. Len(t)
    BY <1>1, <1>3
  <2>2. Flushable => Flushable'
    BY <2>1 DEF Flushable, Queued
  <2> QED
    BY <2>2 DEF ClientInv, QueueFresh
<1>7. CallbackOwned'
  BY DEF ClientInv, CallbackOwned, frameVars
<1> QED
  BY <1>4, <1>5, <1>6, <1>7 DEF ClientInv, FramesShowTree

LEMMA HandleUpdatePreserves ==
  ASSUME ClientInv, HandleUpdate
  PROVE  ClientInv'
<1>1. PICK t \in Slabs : \E r \in SUBSET (1 .. Len(t)) :
        Len(t) >= Len(slab) /\ Reports(slab, t, r) /\ slab' = t /\ dirtyNodeQueue' = Queued(r)
  BY DEF HandleUpdate
<1>2. inHand' \in 0 .. MaxFrame /\ updatesSinceSweep' \in 0 .. SweepEvery + 1
  BY ClientAssumption DEF HandleUpdate, Swept, ClientInv, TypeOK
<1>3. state = "Subscribed" /\ UNCHANGED <<state, gpu, frameVars, reconnected, faithful>>
  BY DEF HandleUpdate
<1> QED
  BY <1>1, <1>2, <1>3, CallPreserves

LEMMA SweepPreserves ==
  ASSUME ClientInv, Sweep
  PROVE  ClientInv'
<1>1. PICK t \in Slabs : \E r \in SUBSET (1 .. Len(t)) :
        Len(t) = Len(slab) /\ Reports(slab, t, r) /\ slab' = t /\ dirtyNodeQueue' = Queued(r)
  BY DEF Sweep
<1>2. inHand' \in 0 .. MaxFrame /\ updatesSinceSweep' \in 0 .. SweepEvery + 1
  BY ClientAssumption DEF Sweep, ClientInv, TypeOK
<1>3. state = "Subscribed" /\ UNCHANGED <<state, gpu, frameVars, reconnected, faithful>>
  BY DEF Sweep
<1>4. Len(slab) \in Int
  BY SlabFacts DEF ClientInv, TypeOK
<1> QED
  BY <1>1, <1>2, <1>3, <1>4, CallPreserves

LEMMA ReconnectPreserves ==
  ASSUME ClientInv, Reconnect
  PROVE  ClientInv'
<1> USE DEF Reconnect, renderVars
\* The guard goes first, and the closure finds nothing held.
<1>1. Cancelled = "none"
  <2>1. callback \in {"none", "held"}
    BY DEF ClientInv, TypeOK, CallbackOwned
  <2>2. Cancelled = Dropped("closure", Dropped("guard", callback))
    BY DEF Cancelled, Declared
  <2>3. Dropped("guard", callback) = "none"
    BY <2>1 DEF Dropped
  <2> QED
    BY <2>2, <2>3 DEF Dropped
<1>2. TypeOK'
  BY <1>1, EmptySlab, ClientAssumption DEF ClientInv, TypeOK
<1>3. CallbackOwned'
  BY <1>1 DEF CallbackOwned
<1> QED
  BY <1>2, <1>3 DEF ClientInv, MirrorOK, FramesShowTree, QueueFresh

LEMMA RequestFramePreserves ==
  ASSUME ClientInv, RequestFrame
  PROVE  ClientInv'
<1> USE DEF RequestFrame, Waiting, treeVars, renderVars
<1>1. TypeOK'
  BY DEF ClientInv, TypeOK
<1>2. MirrorOK'
  BY DEF ClientInv, MirrorOK
<1>3. CallbackOwned'
  BY DEF CallbackOwned
<1> QED
  BY <1>1, <1>2, <1>3 DEF ClientInv, FramesShowTree, QueueFresh, Flushable

LEMMA GrantPreserves ==
  ASSUME ClientInv, Grant
  PROVE  ClientInv'
<1> USE DEF Grant, Waiting, treeVars, renderVars
<1>1. TypeOK'
  BY DEF ClientInv, TypeOK
<1>2. MirrorOK'
  BY DEF ClientInv, MirrorOK
<1>3. CallbackOwned'
  BY DEF CallbackOwned
<1> QED
  BY <1>1, <1>2, <1>3 DEF ClientInv, FramesShowTree, QueueFresh, Flushable

\* After the flush the buffer is the slab everywhere, and that is what is drawn.
LEMMA DrawPreserves ==
  ASSUME ClientInv, Draw
  PROVE  ClientInv'
<1>1. /\ state = "Subscribed"
      /\ dirtyNodeQueue \subseteq 1 .. Len(slab)
      /\ gpu' = Flushed
      /\ dirtyNodeQueue' = {}
      /\ frame = "granted" /\ frame' = "armed"
      /\ UNCHANGED <<state, slab, inHand, updatesSinceSweep, callback, reconnected>>
  BY DEF Draw, Waiting, Flushable, Cleared, treeVars
<1>2. /\ \A i \in 1 .. Len(slab) : slab[i] \in Slot
      /\ Used(slab) \subseteq 1 .. Len(slab)
      /\ 1 .. Len(slab) \subseteq 1 .. GpuSlots
  BY SlabFacts DEF ClientInv, TypeOK
<1>3. \A i \in Used(slab) : gpu'[i] = slab[i]
  BY <1>1, <1>2 DEF ClientInv, MirrorOK, Flushed
<1>4. gpu' \in [1 .. GpuSlots -> Slot \cup {Zeroed}]
  BY <1>1, <1>2 DEF ClientInv, TypeOK, Flushed
<1>5. faithful' = TRUE
  BY <1>3 DEF Draw, ClientInv, FramesShowTree
<1>6. TypeOK'
  BY <1>1, <1>4, <1>5 DEF ClientInv, TypeOK
<1>7. MirrorOK'
  BY <1>1, <1>3 DEF MirrorOK
<1>8. CallbackOwned'
  BY <1>1 DEF ClientInv, CallbackOwned
<1> QED
  BY <1>1, <1>5, <1>6, <1>7, <1>8 DEF ClientInv, FramesShowTree, QueueFresh, Flushable

LEMMA DrawPanicsPreserves ==
  ASSUME ClientInv, DrawPanics
  PROVE  ClientInv'
<1>1. state = "Subscribed" /\ ~Flushable /\ state' = "Panicked"
  BY DEF DrawPanics, Waiting
<1>2. reconnected
  BY <1>1 DEF ClientInv, QueueFresh
<1> USE DEF DrawPanics, treeVars, renderVars, frameVars
<1>3. TypeOK'
  BY <1>1 DEF ClientInv, TypeOK
<1>4. CallbackOwned'
  BY <1>1 DEF ClientInv, CallbackOwned
<1> QED
  BY <1>1, <1>2, <1>3, <1>4 DEF ClientInv, MirrorOK, FramesShowTree, QueueFresh

LEMMA InvStep == ClientInv /\ [Next]_vars => ClientInv'
<1> SUFFICES ASSUME ClientInv, [Next]_vars PROVE ClientInv'
  OBVIOUS
<1>1. CASE Initialize
  BY <1>1, AdvancePreserves DEF Initialize
<1>2. CASE OpenSocket
  BY <1>2, AdvancePreserves DEF OpenSocket
<1>3. CASE SendRequest
  BY <1>3, AdvancePreserves DEF SendRequest
<1>4. CASE Fail
  BY <1>4, AdvancePreserves DEF Fail
<1>5. CASE Hangup
  BY <1>5, HangupPreserves
<1>6. CASE Synchronize
  BY <1>6, SynchronizePreserves
<1>7. CASE Receive
  BY <1>7, ReceivePreserves
<1>8. CASE HandleUpdate
  BY <1>8, HandleUpdatePreserves
<1>9. CASE Sweep
  BY <1>9, SweepPreserves
<1>10. CASE Reconnect
  BY <1>10, ReconnectPreserves
<1>11. CASE Draw
  BY <1>11, DrawPreserves
<1>12. CASE DrawPanics
  BY <1>12, DrawPanicsPreserves
<1>13. CASE RequestFrame
  BY <1>13, RequestFramePreserves
<1>14. CASE Grant
  BY <1>14, GrantPreserves
<1>15. CASE UNCHANGED vars
  BY <1>15 DEF vars, ClientInv, TypeOK, MirrorOK, FramesShowTree, QueueFresh, Flushable,
               CallbackOwned
<1> QED
  BY <1>1, <1>2, <1>3, <1>4, <1>5, <1>6, <1>7, <1>8, <1>9, <1>10, <1>11, <1>12, <1>13,
     <1>14, <1>15
  DEF Next, Handle, Frame

LEMMA InvAlways == Spec => []ClientInv
<1> QED
  BY InvInit, InvStep, PTL DEF Spec

\* Outside the dirty queue the GPU buffer is the slab, at every slot the trie
\* reaches (upload_slab, handle_update, sweep_tombstones, flush_dirties).
THEOREM BufferMirrorsSlab == Spec => []MirrorOK
<1>1. ClientInv => MirrorOK
  BY DEF ClientInv
<1> QED
  BY <1>1, InvAlways, PTL

\* Every frame shows the trie the client has when it draws it (render).
THEOREM EveryFrameFaithful == Spec => []FramesShowTree
<1>1. ClientInv => FramesShowTree
  BY DEF ClientInv
<1> QED
  BY <1>1, InvAlways, PTL

\* Until a connection is lost no flush reads past the slab (flush_dirties, get).
THEOREM FirstQueueInSlab == Spec => []QueueInSlab
<1>1. ClientInv => QueueInSlab
  BY DEF ClientInv, QueueFresh, QueueInSlab
<1> QED
  BY <1>1, InvAlways, PTL

\* A subscription that ends while the browser holds a callback takes it back
\* (AnimationFrameGuard::drop), and a frame that was drawn leaves none behind.
THEOREM CallbacksOwned == Spec => []CallbackOwned
<1>1. ClientInv => CallbackOwned
  BY DEF ClientInv
<1> QED
  BY <1>1, InvAlways, PTL

=============================================================================
