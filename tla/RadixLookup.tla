---------------------------- MODULE RadixLookup ----------------------------
(***************************************************************************)
(* lookup and limited_lookup of core/src/tree.rs beside the mutations of   *)
(* RadixTree.  They borrow the trie, so they run between mutating calls:   *)
(* the loop of the code, one iteration an action.  lookup is the case of   *)
(* limited_lookup whose count_all_below no prefix reaches.                 *)
(***************************************************************************)
EXTENDS RadixTree

VARIABLES
  walk,   \* "idle", "walking" or "done"
  addr,
  floor,  \* count_all_below
  cur,    \* cur_idx
  ans

lookupVars == <<walk, addr, floor, cur, ans>>

LookupTypeOK ==
  /\ walk \in {"idle", "walking", "done"}
  /\ addr \in Address
  /\ floor \in 0 .. MaxLen + 1
  /\ cur \in Idx \cup {None}
  /\ ans \in Idx \cup {None}
  /\ walk = "walking" => cur \in Live

Zeros == [k \in 1 .. MaxLen |-> 0]

LookupInit ==
  /\ Init
  /\ walk = "idle"
  /\ addr = Zeros
  /\ floor = 0
  /\ cur = None
  /\ ans = None

\* self.root?
Begin == IF root = None THEN "done" ELSE "walking"

LookupCall(a, f) ==
  /\ pc = "idle"
  /\ walk = "idle"
  /\ walk' = Begin
  /\ addr' = a
  /\ floor' = f
  /\ cur' = root
  /\ ans' = None
  /\ UNCHANGED vars

Qualifies(n) == n.announced \/ Len(n.prefix) >= floor

\* Mutant: structural nodes are answers.
BestAny == cur

\* The answer so far, the current node considered.
Best == IF Qualifies(node[cur]) THEN cur ELSE ans

\* Mutants: the walk ends a bit early; it does not move.
OnwardShort ==
  LET len == Len(node[cur].prefix)
  IN  IF len >= MaxLen - 1 THEN None ELSE node[cur].children[BitAt(addr, len)]
OnwardNowhere == cur

\* The child on the way to the address, or None; a full-length node has none.
Onward ==
  LET len == Len(node[cur].prefix)
  IN  IF len = MaxLen THEN None ELSE node[cur].children[BitAt(addr, len)]

\* One iteration of the loop: leave where the node does not cover the address
\* or there is nowhere further to go, else go on to the child.
LookupLeave ==
  /\ walk = "walking"
  /\ ~Covers(node[cur].prefix, addr)
  /\ walk' = "done"
  /\ UNCHANGED <<vars, addr, floor, cur, ans>>

LookupVisit ==
  /\ walk = "walking"
  /\ Covers(node[cur].prefix, addr)
  /\ ans' = Best
  /\ walk' = IF Onward = None THEN "done" ELSE "walking"
  /\ cur' = IF Onward = None THEN cur ELSE Onward
  /\ UNCHANGED <<vars, addr, floor>>

LookupReturn ==
  /\ walk = "done"
  /\ walk' = "idle"
  /\ addr' = Zeros
  /\ floor' = 0
  /\ cur' = None
  /\ ans' = None
  /\ UNCHANGED vars

Walk == LookupLeave \/ LookupVisit \/ LookupReturn

Mutate == walk = "idle" /\ Next /\ UNCHANGED lookupVars

LookupNext ==
  \/ \E a \in Address, f \in 0 .. MaxLen + 1 : LookupCall(a, f)
  \/ Walk
  \/ Mutate

LookupSpec == LookupInit /\ [][LookupNext]_<<vars, lookupVars>>

\* A lookup or a mutation that has begun runs to its end.
LookupFairSpec ==
  /\ LookupSpec
  /\ WF_<<vars, lookupVars>>(Walk)
  /\ WF_<<vars, lookupVars>>(walk = "idle" /\ Step /\ UNCHANGED lookupVars)

-----------------------------------------------------------------------------

\* The live nodes an answer may be taken from.
Candidates == {i \in Live : Covers(node[i].prefix, addr) /\ Qualifies(node[i])}

\* A finished lookup has found the longest prefix that covers the address among
\* all the announced ones (and the structural ones of count_all_below bits or
\* more), although it saw only the nodes on one path.
LongestMatch ==
  walk = "done" =>
    IF ans = None THEN Candidates = {}
    ELSE /\ ans \in Candidates
         /\ \A i \in Candidates : Len(node[i].prefix) <= Len(node[ans].prefix)

\* lookup is the longest match in the abstract map of announced routes, however
\* the trie has been restructured, swept and reused since they were announced.
LookupMatchesRoutes ==
  (walk = "done" /\ floor > MaxLen) =>
    LET matches == {p \in Routes : Covers(p, addr)}
    IN  IF ans = None THEN matches = {}
        ELSE /\ node[ans].prefix \in matches
             /\ \A p \in matches : Covers(p, node[ans].prefix)

\* Every lookup ends: each iteration goes to a longer prefix.
LookupReturns == (walk = "walking") ~> (walk = "idle")

=============================================================================
