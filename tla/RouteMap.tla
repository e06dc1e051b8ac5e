------------------------------ MODULE RouteMap ------------------------------
(***************************************************************************)
(* What a RadixTree promises its caller (the docs of insert, withdraw and  *)
(* sweep_tombstones in core/src/tree.rs): a set of announced prefixes.     *)
(* One call is in progress at a time; it takes effect on the requested     *)
(* prefix once, between the call and its return, and withdraw answers      *)
(* whether the prefix was announced.  sweep_tombstones changes no route.   *)
(* A call that finds the slab full panics and the map is never used again. *)
(***************************************************************************)
CONSTANTS
  Keys,   \* the prefixes callers ask about
  NoKey   \* what `asked` holds when no prefix is asked about

VARIABLES
  routes,  \* the announced prefixes
  phase,   \* the call in progress: what it is and whether it took effect
  asked,   \* the prefix it is about, or NoKey
  answer   \* what it will return to the caller

mapVars == <<routes, phase, asked, answer>>

MapTypeOK ==
  /\ routes \subseteq Keys
  /\ phase \in {"idle", "announce", "withdraw", "sweep", "served", "panicked"}
  /\ asked \in Keys \cup {NoKey}
  /\ answer \in BOOLEAN

MapInit ==
  /\ routes = {}
  /\ phase = "idle"
  /\ asked = NoKey
  /\ answer = FALSE

Ask(kind, p) ==
  /\ phase = "idle"
  /\ phase' = kind
  /\ asked' = p
  /\ UNCHANGED <<routes, answer>>

Announce ==
  /\ phase = "announce"
  /\ routes' = routes \cup {asked}
  /\ phase' = "served"
  /\ answer' = TRUE
  /\ UNCHANGED asked

Withdraw ==
  /\ phase = "withdraw"
  /\ routes' = routes \ {asked}
  /\ phase' = "served"
  /\ answer' = (asked \in routes)
  /\ UNCHANGED asked

Sweep ==
  /\ phase = "sweep"
  /\ phase' = "served"
  /\ UNCHANGED <<routes, asked, answer>>

Reply ==
  /\ phase = "served"
  /\ phase' = "idle"
  /\ asked' = NoKey
  /\ answer' = FALSE
  /\ UNCHANGED routes

Panic ==
  /\ phase = "announce"
  /\ phase' = "panicked"
  /\ UNCHANGED <<routes, asked, answer>>

MapNext ==
  \/ \E p \in Keys : Ask("announce", p) \/ Ask("withdraw", p)
  \/ Ask("sweep", NoKey)
  \/ Announce \/ Withdraw \/ Sweep \/ Reply \/ Panic

MapSpec == MapInit /\ [][MapNext]_mapVars

=============================================================================
