----------------------------- MODULE RadixTree -----------------------------
(***************************************************************************)
(* The path-compressed binary trie of core/src/tree.rs: insert, withdraw   *)
(* and sweep_tombstones.  Each recursion frame of the code is one action:  *)
(* `stack` holds the frames of the call in progress, `ret` the outcome the *)
(* innermost finished frame hands to the one above it.  The slab is what   *)
(* its trait promises (core/src/slab.rs; module VecSlab implements it):    *)
(* alloc returns some index not in use, or fails when there is none.       *)
(***************************************************************************)
EXTENDS Prefixes, FiniteSets

CONSTANTS
  Idx,        \* slab indices, NodeIdx
  None,       \* Option::None where an index may be
  Keys,       \* the prefixes callers announce and withdraw
  Timestamps  \* the timestamps they do it at

ASSUME TreeAssumption ==
  /\ None \notin Idx
  /\ IsFiniteSet(Idx)
  /\ Keys \subseteq Prefix
  /\ Timestamps \subseteq Nat

VARIABLES
  node,            \* the slab: the live indices and the node at each
  root,
  announcedCount,
  pc,              \* which call is in progress and in which phase
  key, now,        \* its arguments
  stack,           \* its frames: subroot, and the child slot it recursed into
  ret,             \* the outcome of the frame that returned last
  dirty            \* the indices it reported to its `dirty` callback, in order

vars == <<node, root, announcedCount, pc, key, now, stack, ret, dirty>>

Live == DOMAIN node

Node == [children : [Bit -> Idx \cup {None}],
         prefix : Prefix, announced : BOOLEAN, ts : Nat]

Frame == [at : Idx, slot : 0 .. 2]

\* InsertOutcome and WithdrawOutcome in one record.
Outcome == [subroot : Idx \cup {None}, target : Idx \cup {None},
            advanced : BOOLEAN, found : BOOLEAN]

Pending == [subroot |-> None, target |-> None, advanced |-> FALSE, found |-> FALSE]

TypeOK ==
  /\ Live \subseteq Idx
  /\ node \in [Live -> Node]
  /\ root \in Idx \cup {None}
  /\ announcedCount \in Nat
  /\ pc \in {"idle", "insert", "inserted", "withdraw", "withdrawn",
             "sweep", "swept", "poisoned"}
  /\ key \in Prefix
  /\ now \in Nat
  /\ stack \in Seq(Frame)
  /\ ret \in Outcome
  /\ dirty \in Seq(Idx)

Init ==
  /\ node = <<>>
  /\ root = None
  /\ announcedCount = 0
  /\ pc = "idle"
  /\ key = <<>>
  /\ now = 0
  /\ stack = <<>>
  /\ ret = Pending
  /\ dirty = <<>>

-----------------------------------------------------------------------------
\* The running frame is the last of the stack.

Top == stack[Len(stack)]

Pop == SubSeq(stack, 1, Len(stack) - 1)

Enter(i) == <<[at |-> i, slot |-> 0]>>

Calling(s) == pc = s /\ stack # <<>>

Here == node[Top.at]

\* Mutant: the ancestor keeps its own timestamp.
LaterFirst(t1, t2) == t1

Later(t1, t2) == IF t1 > t2 THEN t1 ELSE t2

\* The slot of the running frame's node on the way to the key.
Toward == BitAt(key, Len(Here.prefix))

Childless == [b \in Bit |-> None]

\* Mutant: the new node's flags are empty, like a split node's.
LeafUnflagged == [children |-> Childless, prefix |-> key, announced |-> FALSE, ts |-> now]

Leaf == [children |-> Childless, prefix |-> key, announced |-> TRUE, ts |-> now]

Return(s, r) ==
  /\ pc' = s
  /\ stack' = Pop
  /\ ret' = r

\* The function f with y at x, where x may be a new argument.
Extended(f, x, y) == [i \in DOMAIN f \cup {x} |-> IF i = x THEN y ELSE f[i]]

\* Mutant: the slot is not freed.
WithoutNothing(f, x) == f

Without(f, x) == [i \in DOMAIN f \ {x} |-> f[i]]

-----------------------------------------------------------------------------
\* insert

InsertCall(p, t) ==
  /\ pc = "idle"
  /\ pc' = "insert"
  /\ key' = p
  /\ now' = t
  /\ stack' = IF root = None THEN <<>> ELSE Enter(root)
  /\ UNCHANGED <<node, root, announcedCount, ret, dirty>>

\* The first announcement of an empty trie.
InsertFirst ==
  /\ pc = "insert"
  /\ stack = <<>>
  /\ \E leaf \in Idx \ Live :
       /\ node' = Extended(node, leaf, Leaf)
       /\ dirty' = <<leaf>>
       /\ ret' = [subroot |-> leaf, target |-> leaf, advanced |-> TRUE, found |-> TRUE]
  /\ announcedCount' = announcedCount + 1
  /\ pc' = "inserted"
  /\ UNCHANGED <<root, key, now, stack>>

\* Mutant: the bits are compared and the lengths are not.
ExactBits == Covers(Here.prefix, key)

Exact == Here.prefix = key

\* Where the key lies relative to the running frame's node, when not exact:
\* below it, above it, or on a branch of its own.
Below == ~Exact /\ CommonPrefixLen(key, Here.prefix) = Len(Here.prefix)

Above == ~Exact /\ ~Below /\ CommonPrefixLen(key, Here.prefix) = Len(key)

Apart == ~Exact /\ ~Below /\ ~Above

InsertReannounce ==
  /\ Calling("insert")
  /\ Exact
  /\ node' = [node EXCEPT ![Top.at].announced = TRUE, ![Top.at].ts = now]
  /\ announcedCount' = IF Here.announced THEN announcedCount ELSE announcedCount + 1
  /\ dirty' = Append(dirty, Top.at)
  /\ Return("inserted", [subroot |-> Top.at, target |-> Top.at,
                         advanced |-> now > Here.ts, found |-> TRUE])
  /\ UNCHANGED <<root, key, now>>

InsertDescend ==
  /\ Calling("insert")
  /\ Below
  /\ Here.children[Toward] # None
  /\ stack' = Append(Pop, [Top EXCEPT !.slot = Toward]) \o Enter(Here.children[Toward])
  /\ UNCHANGED <<node, root, announcedCount, pc, key, now, ret, dirty>>

InsertGraft ==
  /\ Calling("insert")
  /\ Below
  /\ Here.children[Toward] = None
  /\ \E leaf \in Idx \ Live :
       /\ node' = Extended(
            [node EXCEPT ![Top.at].children[Toward] = leaf,
                         ![Top.at].ts = Later(@, now)], leaf, Leaf)
       /\ dirty' = dirty \o <<leaf, Top.at>>
       /\ Return("inserted", [subroot |-> Top.at, target |-> leaf,
                              advanced |-> now > Here.ts, found |-> TRUE])
  /\ announcedCount' = announcedCount + 1
  /\ UNCHANGED <<root, key, now>>

\* The key covers the subroot: a new node goes above it.
InsertSplice ==
  /\ Calling("insert")
  /\ Above
  /\ \E new \in Idx \ Live :
       /\ node' = Extended(node, new,
            [Leaf EXCEPT !.children[BitAt(Here.prefix, Len(key))] = Top.at,
                         !.ts = Later(now, Here.ts)])
       /\ dirty' = Append(dirty, new)
       /\ Return("inserted", [subroot |-> new, target |-> new,
                              advanced |-> now > Here.ts, found |-> TRUE])
  /\ announcedCount' = announcedCount + 1
  /\ UNCHANGED <<root, key, now>>

\* The node that forks where the key leaves the subroot's prefix.
Fork(leaf) ==
  LET common == CommonPrefixLen(key, Here.prefix)
  IN  [children |-> [Childless EXCEPT ![BitAt(key, common)] = leaf,
                                      ![BitAt(Here.prefix, common)] = Top.at],
       prefix |-> Masked(key, common),
       announced |-> FALSE,
       ts |-> Later(Here.ts, now)]

InsertSplit ==
  /\ Calling("insert")
  /\ Apart
  /\ \E leaf \in Idx \ Live, split \in Idx \ Live :
       /\ leaf # split
       /\ node' = Extended(Extended(node, leaf, Leaf), split, Fork(leaf))
       /\ dirty' = dirty \o <<split, leaf>>
       /\ Return("inserted", [subroot |-> split, target |-> leaf,
                              advanced |-> now > Here.ts, found |-> TRUE])
  /\ announcedCount' = announcedCount + 1
  /\ UNCHANGED <<root, key, now>>

\* expect("slab full") in alloc_announced_node: the call unwinds, the trie
\* stays as it is and its lock is poisoned.
InsertFull ==
  /\ pc = "insert"
  /\ Live = Idx
  /\ \/ stack = <<>>
     \/ stack # <<>> /\ (Above \/ Apart \/ (Below /\ Here.children[Toward] = None))
  /\ pc' = "poisoned"
  /\ UNCHANGED <<node, root, announcedCount, key, now, stack, ret, dirty>>

\* The same in alloc_split_node: the leaf is already allocated and counted,
\* and nothing points at it.
InsertSplitFull ==
  /\ Calling("insert")
  /\ Apart
  /\ \E leaf \in Idx \ Live :
       /\ Live \cup {leaf} = Idx
       /\ node' = Extended(node, leaf, Leaf)
  /\ announcedCount' = announcedCount + 1
  /\ pc' = "poisoned"
  /\ UNCHANGED <<root, key, now, stack, ret, dirty>>

\* Mutant: a rewired node is not reported.
UnwoundUnmoved(moved, advanced) == IF advanced THEN <<Top.at>> ELSE <<>>

\* What a suspended frame reports: its node, if its bytes changed.
Unwound(moved, advanced) == IF moved \/ advanced THEN <<Top.at>> ELSE <<>>

\* A suspended frame takes the outcome of the frame below it: it rewires its
\* child pointer and merges the timestamp if that still advances.
InsertUnwind ==
  /\ Calling("inserted")
  /\ LET moved    == ret.subroot # Here.children[Top.slot]
         advanced == ret.advanced /\ now > Here.ts
     IN  /\ node' = [node EXCEPT
                       ![Top.at].children[Top.slot] = ret.subroot,
                       ![Top.at].ts = IF ret.advanced THEN Later(@, now) ELSE @]
         /\ dirty' = dirty \o Unwound(moved, advanced)
         /\ Return("inserted", [ret EXCEPT !.subroot = Top.at, !.advanced = advanced])
  /\ UNCHANGED <<root, announcedCount, key, now>>

\* The call is over: its arguments and outcome are gone from the state.
Forget ==
  /\ pc' = "idle"
  /\ key' = <<>>
  /\ now' = 0
  /\ ret' = Pending
  /\ dirty' = <<>>

InsertReturn ==
  /\ pc = "inserted"
  /\ stack = <<>>
  /\ root' = ret.subroot
  /\ Forget
  /\ UNCHANGED <<node, announcedCount, stack>>

-----------------------------------------------------------------------------
\* withdraw

WithdrawCall(p, t) ==
  /\ pc = "idle"
  /\ pc' = "withdraw"
  /\ key' = p
  /\ now' = t
  /\ stack' = IF root = None THEN <<>> ELSE Enter(root)
  /\ UNCHANGED <<node, root, announcedCount, ret, dirty>>

WithdrawDescend ==
  /\ Calling("withdraw")
  /\ Below
  /\ Here.children[Toward] # None
  /\ stack' = Append(Pop, [Top EXCEPT !.slot = Toward]) \o Enter(Here.children[Toward])
  /\ UNCHANGED <<node, root, announcedCount, pc, key, now, ret, dirty>>

WithdrawHit ==
  /\ Calling("withdraw")
  /\ Exact
  /\ Here.announced
  /\ node' = [node EXCEPT ![Top.at].announced = FALSE, ![Top.at].ts = now]
  /\ announcedCount' = announcedCount - 1
  /\ dirty' = Append(dirty, Top.at)
  /\ Return("withdrawn", [Pending EXCEPT !.advanced = now > Here.ts, !.found = TRUE])
  /\ UNCHANGED <<root, key, now>>

\* NotFound goes up through every frame and changes nothing on its way.
WithdrawMiss ==
  /\ pc = "withdraw"
  /\ \/ stack = <<>>
     \/ /\ stack # <<>>
        /\ \/ Exact /\ ~Here.announced
           \/ Above \/ Apart
           \/ Below /\ Here.children[Toward] = None
  /\ pc' = "withdrawn"
  /\ stack' = <<>>
  /\ ret' = Pending
  /\ UNCHANGED <<node, root, announcedCount, key, now, dirty>>

WithdrawUnwind ==
  /\ Calling("withdrawn")
  /\ LET advanced == ret.advanced /\ now > Here.ts
     IN  /\ node' = [node EXCEPT ![Top.at].ts = IF ret.advanced THEN Later(@, now) ELSE @]
         /\ dirty' = dirty \o Unwound(FALSE, advanced)
         /\ Return("withdrawn", [ret EXCEPT !.advanced = advanced])
  /\ UNCHANGED <<root, announcedCount, key, now>>

WithdrawReturn ==
  /\ pc = "withdrawn"
  /\ stack = <<>>
  /\ Forget
  /\ UNCHANGED <<node, root, announcedCount, stack>>

-----------------------------------------------------------------------------
\* sweep_tombstones; the slot of a frame is the child it visits next or is in.

SweepCall ==
  /\ pc = "idle"
  /\ pc' = "sweep"
  /\ stack' = IF root = None THEN <<>> ELSE Enter(root)
  /\ UNCHANGED <<node, root, announcedCount, key, now, ret, dirty>>

SweepVisit ==
  /\ Calling("sweep")
  /\ Top.slot < 2
  /\ LET child == Here.children[Top.slot]
     IN  stack' = IF child # None
                    THEN stack \o Enter(child)
                    ELSE Append(Pop, [Top EXCEPT !.slot = @ + 1])
  /\ UNCHANGED <<node, root, announcedCount, pc, key, now, ret, dirty>>

\* Mutants: the frame above misses its other child, counts on, or starts over.
SweepUpSkips ==
  stack' = IF Len(stack) = 1 THEN <<>> ELSE [Pop EXCEPT ![Len(stack) - 1].slot = 2]
SweepUpTwice ==
  stack' = IF Len(stack) = 1 THEN <<>> ELSE [Pop EXCEPT ![Len(stack) - 1].slot = @ + 2]
SweepUpAgain == stack' = Pop

\* Leave the running frame; the frame above moves on to its next child.
SweepUp ==
  stack' = IF Len(stack) = 1 THEN <<>> ELSE [Pop EXCEPT ![Len(stack) - 1].slot = @ + 1]

Redundant(n) == ~n.announced /\ \E b \in Bit : n.children[b] = None

SweepKeep ==
  /\ Calling("sweep")
  /\ Top.slot = 2
  /\ ~Redundant(Here)
  /\ SweepUp
  /\ UNCHANGED <<node, root, announcedCount, pc, key, now, ret, dirty>>

\* Mutant: a right child is forgotten.
LeftChild(n) == n.children[0]

\* The only child of the node, or None.
OnlyChild(n) == IF n.children[0] # None THEN n.children[0] ELSE n.children[1]

\* set_parent_slot, then free.
SweepCollapse ==
  /\ Calling("sweep")
  /\ Top.slot = 2
  /\ Redundant(Here)
  /\ LET child == OnlyChild(Here)
         above == stack[Len(stack) - 1]
     IN  IF Len(stack) = 1
           THEN /\ root' = child
                /\ node' = Without(node, Top.at)
                /\ UNCHANGED dirty
           ELSE /\ node' = Without([node EXCEPT ![above.at].children[above.slot] = child],
                                   Top.at)
                /\ dirty' = Append(dirty, above.at)
                /\ UNCHANGED root
  /\ SweepUp
  /\ UNCHANGED <<announcedCount, pc, key, now, ret>>

\* The recursion is over, or an empty trie had no root to start it from.
SweepDone ==
  /\ pc = "sweep"
  /\ stack = <<>>
  /\ pc' = "swept"
  /\ UNCHANGED <<node, root, announcedCount, key, now, stack, ret, dirty>>

SweepReturn ==
  /\ pc = "swept"
  /\ Forget
  /\ UNCHANGED <<node, root, announcedCount, stack>>

-----------------------------------------------------------------------------

\* The steps of a call in progress.
Step ==
  \/ InsertFirst \/ InsertReannounce \/ InsertDescend \/ InsertGraft
  \/ InsertSplice \/ InsertSplit \/ InsertFull \/ InsertSplitFull
  \/ InsertUnwind \/ InsertReturn
  \/ WithdrawDescend \/ WithdrawHit \/ WithdrawMiss
  \/ WithdrawUnwind \/ WithdrawReturn
  \/ SweepVisit \/ SweepKeep \/ SweepCollapse
  \/ SweepDone \/ SweepReturn

Call ==
  \/ \E p \in Keys, t \in Timestamps : InsertCall(p, t) \/ WithdrawCall(p, t)
  \/ SweepCall

Next == Call \/ Step

Spec == Init /\ [][Next]_vars

\* A call that has been made runs; nothing obliges anyone to make one.
FairSpec == Spec /\ WF_vars(Step)

-----------------------------------------------------------------------------
(***************************************************************************)
(* Properties.  While insert unwinds, the outcome of the last frame stands *)
(* for the pointer that is about to be rewired, or for the root.           *)
(***************************************************************************)

Kid(i, b) ==
  IF Calling("inserted") /\ Top = [at |-> i, slot |-> b]
    THEN ret.subroot
    ELSE node[i].children[b]

Entry == IF pc = "inserted" /\ stack = <<>> THEN ret.subroot ELSE root

Attached(i) == i = Entry \/ \E j \in Live, b \in Bit : Kid(j, b) = i

\* The trie is empty exactly when it has no root, and the root covers every node.
RootCovers ==
  IF Entry = None THEN Live = {}
  ELSE Entry \in Live /\ \A i \in Live : Covers(node[Entry].prefix, node[i].prefix)

\* A child extends its parent's prefix by its slot's bit, at least.
KidsBelow ==
  \A i \in Live, b \in Bit :
    Kid(i, b) # None =>
      /\ Kid(i, b) \in Live
      /\ StrictlyCovers(node[i].prefix, node[Kid(i, b)].prefix)
      /\ BitAt(node[Kid(i, b)].prefix, Len(node[i].prefix)) = b

\* Every node is on the path that lookups of its prefix take: below any node
\* that covers it there is a child that covers it too.
PathsComplete ==
  \A i, j \in Live :
    StrictlyCovers(node[i].prefix, node[j].prefix) =>
      LET kid == Kid(i, BitAt(node[j].prefix, Len(node[i].prefix)))
      IN  kid # None /\ Covers(node[kid].prefix, node[j].prefix)

PrefixesUnique ==
  \A i, j \in Live : node[i].prefix = node[j].prefix => i = j

\* The slab, the child pointers and the prefixes describe one radix trie after
\* every frame of every call: no prefix is stored twice, none is out of reach of
\* a lookup, no slot is shared or lost (core/src/tree.rs: insert, withdraw,
\* sweep_tombstones).
TrieOK ==
  pc # "poisoned" =>
    RootCovers /\ KidsBelow /\ PathsComplete /\ PrefixesUnique

\* No live slot of the slab is leaked: node_count, which is the slab's length,
\* counts only nodes the trie still reaches.
NoLeak == pc # "poisoned" => \A i \in Live : Attached(i)

\* announced_count, kept incrementally over announcements, re-announcements and
\* withdrawals, is the number of announced nodes; it never underflows its u32.
CountExact == announcedCount = Cardinality({i \in Live : node[i].announced})

\* One pass leaves nothing to reclaim, also where a fork became redundant only
\* because the pass collapsed a node below it (sweep_recursive is post-order).
SweptClean == pc = "swept" => \A i \in Live : ~Redundant(node[i])

\* insert hands back the announced node of the prefix asked for, through every
\* restructuring of the frames above it.
InsertAnswer ==
  pc = "inserted" =>
    /\ ret.target \in Live
    /\ node[ret.target].prefix = key
    /\ node[ret.target].announced

\* The trie implements the set of announced prefixes: every call takes effect
\* on its own prefix, once, and withdraw answers whether it was announced.
Phase ==
  CASE pc = "insert"   -> "announce"
    [] pc = "withdraw" -> "withdraw"
    [] pc = "sweep"    -> "sweep"
    [] pc = "poisoned" -> "panicked"
    [] pc = "idle"     -> "idle"
    [] OTHER           -> "served"

Routes == {node[i].prefix : i \in {j \in Live : node[j].announced /\ Attached(j)}}

Map == INSTANCE RouteMap WITH
         routes <- Routes, phase <- Phase, asked <- key, answer <- ret.found,
         NoKey <- <<>>

ImplementsRouteMap == Map!MapSpec

\* Every call returns or finds the slab full: its recursion is over a finite
\* tree, also while it restructures it.
CallReturns == (pc # "idle") ~> (pc \in {"idle", "poisoned"})

=============================================================================
