----------------------------- MODULE RouteTable -----------------------------
(***************************************************************************)
(* The server's route table (server/src/route_table.rs): one trie per      *)
(* address family, seeded once at start (server/src/main.rs), then kept by *)
(* the ingest task, which applies each RIS message prefix by prefix, the   *)
(* family's lock held for one prefix at a time, and re-broadcasts it after *)
(* that.  A trie is the set of its announced routes (module RouteMap, that *)
(* RadixTree implements), so the periodic sweep changes nothing here.      *)
(***************************************************************************)
EXTENDS Integers, Sequences, FiniteSets

CONSTANTS
  Versions,   \* address families
  Routes,     \* prefixes of a family
  Messages,   \* RIS messages: sequences of updates, announcements first
  Seed,       \* the routes of the seed file, by family
  Capacity,   \* messages the re-broadcast channel retains
  MaxLog      \* bound on the messages ingested

Updates == [op : {"announce", "withdraw"}, version : Versions, route : Routes]

ASSUME RouteTableAssumption ==
  /\ Messages \subseteq Seq(Updates)
  /\ Seed \in [Versions -> SUBSET Routes]
  /\ Capacity \in Nat \ {0}

VARIABLES
  table,    \* the announced routes of each family
  unseeded, \* the families the start-up has still to seed
  current,  \* the message being ingested, one element, or none
  applied,  \* how many of its updates the tries have
  log,      \* all the messages re-broadcast so far
  raced     \* history: a family was seeded after the message in progress began

tableVars == <<table, unseeded, current, applied, log, raced>>

TableTypeOK ==
  /\ table \in [Versions -> SUBSET Routes]
  /\ unseeded \subseteq Versions
  /\ current \in Seq(Messages) /\ Len(current) <= 1
  /\ applied \in Nat
  /\ log \in Seq(Messages)
  /\ raced \in BOOLEAN

TableInit ==
  /\ table = [v \in Versions |-> {}]
  /\ unseeded = Versions
  /\ current = <<>>
  /\ applied = 0
  /\ log = <<>>
  /\ raced = FALSE

\* The updates of one family.
UpdatesOf(v) == [op : {"announce", "withdraw"}, version : {v}, route : Routes]

\* insert or withdraw on the route sets of the families.
Update(tables, u) ==
  [tables EXCEPT ![u.version] =
     IF u.op = "announce" THEN @ \cup {u.route} ELSE @ \ {u.route}]

\* The route sets after each update of s in turn.
Replay(tables, s) ==
  LET after[k \in 0 .. Len(s)] == IF k = 0 THEN tables ELSE Update(after[k - 1], s[k])
  IN  after[Len(s)]

\* bulk_insert_routes takes a family's lock once for the whole seed.  The code seeds
\* IPv4 first; here either family may be the first.
SeedFamily(v) ==
  /\ v \in unseeded
  /\ unseeded' = unseeded \ {v}
  /\ table' = [table EXCEPT ![v] = @ \cup Seed[v]]
  /\ raced' = (current # <<>>)
  /\ UNCHANGED <<current, applied, log>>

\* The ingest task receives a message.  Messages it lags past, or that RIS never
\* delivers, are simply never received here.
Receive(m) ==
  /\ current = <<>>
  /\ Len(log) < MaxLog
  /\ current' = <<m>>
  /\ applied' = 0
  /\ UNCHANGED <<table, unseeded, log, raced>>

\* apply_prefix: lock, apply one prefix, unlock.
ApplyPrefix ==
  /\ current # <<>>
  /\ applied < Len(current[1])
  /\ table' = Update(table, current[1][applied + 1])
  /\ applied' = applied + 1
  /\ UNCHANGED <<unseeded, current, log, raced>>

Rebroadcast ==
  /\ current # <<>>
  /\ applied = Len(current[1])
  /\ log' = Append(log, current[1])
  /\ current' = <<>>
  /\ applied' = 0
  /\ raced' = FALSE
  /\ UNCHANGED <<table, unseeded>>

Ingest == ApplyPrefix \/ Rebroadcast

TableNext ==
  \/ \E v \in Versions : SeedFamily(v)
  \/ \E m \in Messages : Receive(m)
  \/ Ingest

\* The router is built once init_route_table has returned.
Serving == unseeded = {}

\* The updates of the message in progress that the tries do not have yet.
Remaining ==
  IF current = <<>> THEN <<>> ELSE SubSeq(current[1], applied + 1, Len(current[1]))

\* The oldest message a receiver can still get.
Oldest == IF Len(log) > Capacity THEN Len(log) - Capacity + 1 ELSE 1

\* The last word RIS has had about a route of a family, if any.
LastWord(v, r) ==
  LET said == {m \in 1 .. Len(log) :
                 \E k \in 1 .. Len(log[m]) : log[m][k].version = v /\ log[m][k].route = r}
      ups  == log[CHOOSE m \in said : \A n \in said : n <= m]
      at   == {k \in 1 .. Len(ups) : ups[k].version = v /\ ups[k].route = r}
  IN  IF said = {} THEN "silent" ELSE ups[CHOOSE k \in at : \A j \in at : j <= k].op

\* "Bootstrapped with data and subscribed to RIS-live to stay up to date": when
\* the server takes clients and no message is in progress, no route is announced
\* that RIS withdrew last.
UpToDate ==
  Serving /\ current = <<>> =>
    \A v \in Versions : \A r \in table[v] : LastWord(v, r) # "withdraw"

=============================================================================
