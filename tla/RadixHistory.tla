---------------------------- MODULE RadixHistory ----------------------------
(***************************************************************************)
(* RadixTree with the history its tests keep (run_and_check_dirty in       *)
(* core/src/tree.rs): the nodes as they were when the call in progress was *)
(* made, and whether timestamps have arrived in order so far.              *)
(***************************************************************************)
EXTENDS RadixTree

VARIABLES
  before,   \* the slab when the call was made
  latest,   \* the greatest timestamp any call had
  ordered   \* no call had a timestamp below an earlier one

historyVars == <<before, latest, ordered>>

HistoryInit == Init /\ before = <<>> /\ latest = 0 /\ ordered = TRUE

Arrive(t) ==
  /\ before' = node
  /\ latest' = Later(t, latest)
  /\ ordered' = (ordered /\ t >= latest)

HistoryCall ==
  \/ \E p \in Keys, t \in Timestamps :
       (InsertCall(p, t) \/ WithdrawCall(p, t)) /\ Arrive(t)
  \/ SweepCall /\ before' = node /\ UNCHANGED <<latest, ordered>>

\* The snapshot is dropped when the call returns.
HistoryStep ==
  /\ Step
  /\ before' = IF pc' = "idle" THEN <<>> ELSE before
  /\ UNCHANGED <<latest, ordered>>

HistoryNext == HistoryCall \/ HistoryStep

HistorySpec == HistoryInit /\ [][HistoryNext]_<<vars, historyVars>>

-----------------------------------------------------------------------------

Finished == pc \in {"inserted", "withdrawn", "swept"} /\ stack = <<>>

Reported == {dirty[k] : k \in 1 .. Len(dirty)}

Changed == {i \in Live : i \notin DOMAIN before \/ node[i] # before[i]}

\* Direction 1 of the tests' check: when a call finishes, every slot whose bytes
\* changed and that the trie still uses has been reported, over all the frames
\* that rewired or stamped it.  A copy of the slab written only at the reported
\* slots (the client's GPU buffer) would otherwise go stale.
EveryChangeReported == Finished => Changed \subseteq Reported

\* Every node's timestamp is at least its children's ("max-to-root").
MaxToRoot ==
  pc = "idle" =>
    \A i \in Live, b \in Bit :
      node[i].children[b] # None => node[i].ts >= node[node[i].children[b]].ts

\* Between calls "time since any descendant was touched" can be read from any
\* node, as long as timestamps arrive in order: stopping the propagation at the
\* first ancestor that does not advance is sound only then.
MaxToRootInOrder == ordered => MaxToRoot

=============================================================================
