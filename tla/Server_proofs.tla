--------------------------- MODULE Server_proofs ---------------------------
(***************************************************************************)
(* Shutting down keeps its promise to requests in flight whatever the      *)
(* config files, the clients, and the order in which two listeners stop.   *)
(***************************************************************************)
EXTENDS Server, TLAPS

LEMMA InitType == Init => TypeOK
BY DEF Init, TypeOK

\* However it ends, only the connections and the listeners go with the process.
LEMMA EndsType ==
  ASSUME TypeOK, NEW how \in Ended, Ends(how)
  PROVE  TypeOK'
<1>1. /\ main' = how
      /\ UNCHANGED <<file, explicit, handlers, token, acme, certificate, grace>>
      /\ listener' = [l \in Listeners |-> "none"]
  BY DEF Ends, givenVars, taskVars, acmeVars
<1>2. conn' \in [Conns -> {"none", "request", "websocket", "over", "cut"}]
  <2>1. conn' = [c \in Conns |-> IF conn[c] \in {"request", "websocket"} THEN "cut" ELSE conn[c]]
    BY DEF Ends
  <2> QED
    BY <2>1 DEF TypeOK
<1> QED
  BY <1>1, <1>2 DEF TypeOK

LEMMA StepType == TypeOK /\ [Next]_vars => TypeOK'
<1> SUFFICES ASSUME TypeOK, [Next]_vars
             PROVE  TypeOK'
  OBVIOUS
<1>1. CASE \E how \in Ended : Ends(how)
  BY <1>1, EndsType
<1>2. CASE \E s \in {"tracing", "metrics", "subscribe", "seed", "start"} : Goes(s)
  BY <1>2 DEF Goes, givenVars, taskVars, acmeVars, TypeOK
<1>3. CASE Start
  BY <1>3 DEF Start, givenVars, TypeOK
<1>4. CASE \E l \in Listeners, s \in {"accepting", "draining", "done"} : Become(l, s)
  BY <1>4 DEF Become, givenVars, taskVars, acmeVars, TypeOK
<1>5. CASE \E c \in Conns, s \in {"request", "websocket", "over"} : Moves(c, s)
  BY <1>5 DEF Moves, givenVars, taskVars, acmeVars, TypeOK
<1>6. CASE InstallHandlers
  BY <1>6 DEF InstallHandlers, givenVars, acmeVars, TypeOK
<1>7. CASE Drain \/ GraceExpires
  BY <1>7 DEF Drain, GraceExpires, givenVars, acmeVars, TypeOK
<1>8. CASE handlers /\ token' = TRUE /\ UNCHANGED <<main, givenVars, handlers, listener,
                                                    acmeVars, grace, conn>>
  BY <1>8 DEF givenVars, acmeVars, TypeOK
<1>9. CASE UNCHANGED vars
  BY <1>9 DEF vars, TypeOK
<1>10. CASE Main
  BY <1>1, <1>2, <1>3, <1>10 DEF Main, Load, InitTracing, SetupMetrics, Subscribe, Seed,
     Return, Ended
<1>11. CASE Signal
  BY <1>1, <1>8, <1>11 DEF Signal, Ended
<1>12. CASE \E l \in Listeners : Bind(l) \/ StopAccepting(l) \/ FinishDraining(l)
  BY <1>1, <1>4, <1>12 DEF Bind, StopAccepting, FinishDraining, Ended
<1>13. CASE \E c \in Conns : Accept(c) \/ Upgrade(c) \/ Finish(c)
  BY <1>5, <1>13 DEF Accept, Upgrade, Finish
<1>14. CASE Acme
  BY <1>14 DEF Acme, LoadCache, Order, OrderValid, OrderFails, AcmeEnds, Becomes, givenVars,
     TypeOK
<1> QED
  BY <1>6, <1>7, <1>9, <1>10, <1>11, <1>12, <1>13, <1>14 DEF Next

\* The types of the process's state, whatever the files hold.
THEOREM TypeCorrect == Spec => []TypeOK
BY InitType, StepType, PTL DEF Spec

-----------------------------------------------------------------------------
\* A listener that is done waited for every request there was, but another may
\* still have been accepting: only when all are done is nothing in flight.

AllDone == \A l \in Wanted : listener[l] = "done"

ServeInv ==
  main = "serve" =>
    /\ \A l \in Listeners \ Wanted : listener[l] = "none"
    /\ AllDone => Drained

LEMMA StepServe == TypeOK /\ ServeInv /\ [Next]_vars => ServeInv'
<1> SUFFICES ASSUME TypeOK, ServeInv, [Next]_vars
             PROVE  ServeInv'
  OBVIOUS
<1>1. "http" \in Wanted /\ Wanted \subseteq Listeners
  BY DEF Wanted, Listeners
<1>2. CASE main' # "serve"
  BY <1>2 DEF ServeInv
<1>3. CASE Start
  <2>1. Wanted' = Wanted
    BY <1>3 DEF Start, givenVars, Wanted, Config
  <2>2. listener' = [l \in Listeners |-> IF l \in Wanted THEN "unbound" ELSE "none"]
    BY <1>3 DEF Start
  <2> QED
    BY <1>1, <2>1, <2>2 DEF ServeInv, AllDone
<1>4. ASSUME main' = main, main = "serve", file' = file
      PROVE  Wanted' = Wanted /\ (\A l \in Listeners \ Wanted : listener[l] = "none")
  BY <1>4 DEF Wanted, Config, ServeInv
<1>5. ASSUME NEW l \in Listeners, NEW s \in {"accepting", "draining", "done"}, main = "serve",
             Become(l, s), listener[l] # "none", s = "done" => Drained
      PROVE  ServeInv'
  <2>1. /\ main' = main /\ file' = file /\ grace' = grace /\ conn' = conn
        /\ listener' = [listener EXCEPT ![l] = s]
    BY <1>5 DEF Become, givenVars, taskVars
  <2>2. Wanted' = Wanted /\ (\A k \in Listeners \ Wanted : listener[k] = "none")
    BY <1>4, <1>5, <2>1
  <2>3. l \in Wanted
    BY <1>5, <2>2
  <2>4. \A k \in Listeners \ Wanted : listener'[k] = "none"
    BY <2>1, <2>2, <2>3 DEF TypeOK
  <2>5. listener'[l] = s
    BY <2>1 DEF TypeOK
  <2>6. Drained' <=> Drained
    BY <2>1 DEF Drained
  <2> QED
    BY <1>5, <2>2, <2>3, <2>4, <2>5, <2>6 DEF ServeInv, AllDone
<1>6. CASE \E l \in Listeners : Bind(l) \/ StopAccepting(l) \/ FinishDraining(l)
  <2>1. PICK l \in Listeners : Bind(l) \/ StopAccepting(l) \/ FinishDraining(l)
    BY <1>6
  <2>2. main = "serve" /\ listener[l] # "none"
    BY <2>1 DEF Bind, StopAccepting, FinishDraining
  <2>3. \/ Become(l, "accepting") \/ Become(l, "draining")
        \/ Become(l, "done") /\ Drained
        \/ Ends("failed")
    BY <2>1 DEF Bind, StopAccepting, FinishDraining
  <2>4. CASE Ends("failed")
    BY <1>2, <2>4 DEF Ends
  <2> QED
    BY <1>5, <2>2, <2>3, <2>4
\* Whoever is let in now was let in by a listener that is not done.
<1>7. ASSUME NEW c \in Conns, Accept(c) \/ Upgrade(c) \/ Finish(c), main' = "serve"
      PROVE  ServeInv'
  <2>1. /\ main' = main /\ file' = file /\ grace' = grace /\ listener' = listener
    BY <1>7 DEF Accept, Upgrade, Finish, Moves, givenVars, taskVars
  <2>2. Wanted' = Wanted /\ (\A l \in Listeners \ Wanted : listener[l] = "none")
    BY <1>4, <1>7, <2>1
  <2>3. AllDone => \E s \in {"websocket", "over"} : Moves(c, s)
    <3>1. AllDone => \A l \in Listeners : listener[l] # "accepting"
      BY <2>2 DEF AllDone
    <3> QED
      BY <1>7, <3>1 DEF Accept, Upgrade, Finish, Listeners
  <2>4. ASSUME AllDone
        PROVE  Drained'
    <3>1. Drained
      BY <1>7, <2>1, <2>4 DEF ServeInv
    <3>2. PICK s \in {"websocket", "over"} : conn' = [conn EXCEPT ![c] = s]
      BY <2>3, <2>4 DEF Moves
    <3>3. \A d \in Conns : conn'[d] = "request" => conn[d] = "request"
      BY <3>2 DEF TypeOK
    <3> QED
      BY <2>1, <3>1, <3>3 DEF Drained
  <2>5. AllDone' <=> AllDone
    BY <2>1, <2>2 DEF AllDone
  <2> QED
    BY <2>1, <2>2, <2>4, <2>5 DEF ServeInv
<1>8. ASSUME UNCHANGED <<main, file, listener, conn>>,
             grace' = grace \/ grace' = "over" \/ grace = "none"
      PROVE  ServeInv'
  <2>1. CASE main = "serve"
    <3>1. Wanted' = Wanted
      BY <1>4, <1>8, <2>1
    <3>2. Drained => Drained'
      BY <1>8 DEF Drained
    <3> QED
      BY <1>8, <3>1, <3>2 DEF ServeInv, AllDone
  <2>2. CASE main # "serve"
    BY <1>8, <2>2 DEF ServeInv
  <2> QED
    BY <2>1, <2>2
<1>9. CASE UNCHANGED <<main, file, listener, conn, grace>>
  BY <1>8, <1>9
<1>10. CASE Main
  <2>1. Start \/ main' # "serve"
    BY <1>10 DEF Main, Load, InitTracing, SetupMetrics, Subscribe, Seed, Return, Goes, Ends
  <2> QED
    BY <1>2, <1>3, <2>1
<1>11. CASE InstallHandlers \/ Signal \/ Acme
  <2>1. main' # "serve" \/ UNCHANGED <<main, file, listener, conn, grace>>
    BY <1>11 DEF InstallHandlers, Signal, Acme, LoadCache, Order, OrderValid, OrderFails,
       AcmeEnds, Becomes, Ends, givenVars
  <2> QED
    BY <1>2, <1>9, <2>1
<1>12. CASE Drain \/ GraceExpires
  <2>1. /\ UNCHANGED <<main, file, listener, conn>>
        /\ grace = "none" \/ grace' = "over"
    BY <1>12 DEF Drain, GraceExpires, givenVars
  <2> QED
    BY <1>8, <2>1
<1>13. CASE UNCHANGED vars
  BY <1>9, <1>13 DEF vars
<1> QED
  BY <1>2, <1>6, <1>7, <1>10, <1>11, <1>12, <1>13 DEF Next

\* The process returns of its own accord only when no request is in flight on any
\* listener, or the grace period is over.  Of websockets it says nothing.
THEOREM GraceIsKept == Spec => GraceKept
<1>1. Init => ServeInv
  BY DEF Init, ServeInv
<1>2. /\ TypeOK /\ ServeInv /\ [Next]_vars
      => [main' = "returned" /\ main # "returned" =>
            grace = "over" \/ \A c \in Conns : conn[c] # "request"]_vars
  <2> SUFFICES ASSUME TypeOK, ServeInv, Next, main' = "returned", main # "returned"
               PROVE  Drained
    BY DEF Drained
  <2>1. Return
    BY DEF Next, Main, Load, InitTracing, SetupMetrics, Subscribe, Seed, Start, Goes, Ends,
       InstallHandlers, Signal, Drain, GraceExpires, Acme, LoadCache, Order, OrderValid,
       OrderFails, AcmeEnds, Becomes, Bind, StopAccepting, FinishDraining, Become, Accept, Upgrade, Finish, Moves
  <2> QED
    BY <2>1 DEF Return, ServeInv, AllDone
<1> QED
  BY <1>1, <1>2, StepServe, TypeCorrect, PTL DEF Spec, GraceKept
=============================================================================
