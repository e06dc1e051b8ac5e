------------------------------- MODULE Server -------------------------------
(***************************************************************************)
(* The server process (server/src/main.rs, config.rs, http.rs, tls.rs):    *)
(* main from the config file to its return, the signal task, the task that *)
(* drains the listeners, the ACME task and the connections.  The listeners *)
(* are axum_server's: they bind when served, and a handle stops them.      *)
(* What the other tasks do is in RisStream, RouteTable and Connection;     *)
(* like the connections they end with the process.                         *)
(***************************************************************************)
EXTENDS Integers

CONSTANTS
  Files,       \* what the config file may hold, or that it is Absent
  Absent,
  None,        \* a block that is not there
  Half,        \* a block that lacks a required key or has one of a wrong type
  Whole,       \* a complete block
  MiB,         \* 1024 * 1024, and
  UsizeRange,  \* 2^64: what an integer of this width can hold
  Conns        \* the connections clients make

\* The blocks of a file that start-up depends on, where every key of the first and
\* `dir` of the second are required.  A complete logging.file block is its
\* max_file_size_mb.
TlsConfig == {None, Half, Whole}
FileLoggingConfig == Nat \cup {None, Half}
SeedFile == {None, Whole}

Blocks == [tls : TlsConfig, logFile : FileLoggingConfig, seed : SeedFile]

ASSUME ServerAssumption ==
  /\ Files \subseteq Blocks \cup {Absent}
  /\ Absent \notin Blocks
  /\ {None, Half, Whole} \cap Nat = {}
  /\ MiB \in Nat /\ UsizeRange \in Nat \ {0}

VARIABLES
  main,         \* what main does next, or how the process ended
  file,
  explicit,     \* --config was passed
  handlers,     \* the signal handlers are installed
  token,        \* the shutdown signal has been cancelled
  listener,
  acme,         \* the ACME task: what its state machine is at, or that it is off
  certificate,  \* the acceptor has one to serve
  grace,        \* of handle.graceful_shutdown
  conn

vars == <<main, file, explicit, handlers, token, listener, acme, certificate, grace,
          conn>>

givenVars == <<file, explicit>>
acmeVars == <<acme, certificate>>
taskVars == <<handlers, token, acmeVars, grace>>

Listeners == {"http", "https"}

Ended == {"returned", "failed", "panicked", "killed"}

TypeOK ==
  /\ main \in {"load", "tracing", "metrics", "subscribe", "seed", "start", "serve"} \cup Ended
  /\ file \in Files
  /\ explicit \in BOOLEAN
  /\ handlers \in BOOLEAN
  /\ token \in BOOLEAN
  /\ listener \in [Listeners -> {"none", "unbound", "accepting", "draining", "done"}]
  /\ acme \in {"off", "loading", "idle", "ordering", "ended"}
  /\ certificate \in BOOLEAN
  /\ grace \in {"none", "running", "over"}
  /\ conn \in [Conns -> {"none", "request", "websocket", "over", "cut"}]

Init ==
  /\ main = "load"
  /\ file \in Files
  /\ explicit \in BOOLEAN
  /\ handlers = FALSE
  /\ token = FALSE
  /\ listener = [l \in Listeners |-> "none"]
  /\ acme = "off"
  /\ certificate = FALSE
  /\ grace = "none"
  /\ conn = [c \in Conns |-> "none"]

-----------------------------------------------------------------------------
\* main.  Every `?` on the way ends it, and with it the runtime and all tasks.

Ends(how) ==
  /\ main' = how
  /\ listener' = [l \in Listeners |-> "none"]
  /\ conn' = [c \in Conns |-> IF conn[c] \in {"request", "websocket"} THEN "cut" ELSE conn[c]]
  /\ UNCHANGED <<givenVars, taskVars>>

Goes(next) ==
  /\ main' = next
  /\ UNCHANGED <<givenVars, taskVars, listener, conn>>

Defaults == [tls |-> None, logFile |-> None, seed |-> None]

\* Defaults under the file, if any.
Config == IF file = Absent THEN Defaults ELSE file

\* Mutant: a block that does not parse is taken for one that is not there.
ExtractsSome == Config.logFile # Half

Extracts == Config.tls # Half /\ Config.logFile # Half

Valid == Config.logFile # 0

\* An explicit path must exist; the default one need not.
Load ==
  /\ main = "load"
  /\ IF (file = Absent => ~explicit) /\ Extracts /\ Valid
       THEN Goes("tracing")
       ELSE Ends("failed")

\* The rotation limit; the product wraps in a release build.
Limit(mb) == (mb * MiB) % UsizeRange

\* FileRotate::new panics on a limit of zero.
RotationPanics == Config.logFile # None /\ Limit(Config.logFile) = 0

\* The filter may be invalid, the log file not open.
InitTracing ==
  /\ main = "tracing"
  /\ \/ ~RotationPanics /\ Goes("metrics")
     \/ RotationPanics /\ Ends("panicked")
     \/ Ends("failed")

\* The signal task is spawned right after it.
SetupMetrics ==
  /\ main = "metrics"
  /\ Goes("subscribe") \/ Ends("failed")

\* To RIS Live, or to a file of recorded events; then the ingest task is spawned.
Subscribe ==
  /\ main = "subscribe"
  /\ Goes("seed") \/ Ends("failed")

\* Nothing else runs on main while the routes go in.  The sweep task is next.
Seed ==
  /\ main = "seed"
  /\ \/ Goes("start")
     \/ Config.seed = Whole /\ Ends("failed")

Wanted == IF Config.tls = Whole THEN Listeners ELSE {"http"}

\* The ACME task, the router, the task that drains, and the futures that serve.
Start ==
  /\ main = "start"
  /\ main' = "serve"
  /\ acme' = IF Config.tls = Whole THEN "loading" ELSE "off"
  /\ listener' = [l \in Listeners |-> IF l \in Wanted THEN "unbound" ELSE "none"]
  /\ UNCHANGED <<givenVars, handlers, token, certificate, grace, conn>>

Become(l, s) ==
  /\ listener' = [listener EXCEPT ![l] = s]
  /\ UNCHANGED <<main, givenVars, taskVars, conn>>

\* Mutant: no listener is bound before there is a certificate to serve.
BindCertified(l) ==
  /\ main = "serve"
  /\ listener[l] = "unbound"
  /\ Config.tls = Whole => certificate
  /\ Become(l, "accepting") \/ Ends("failed")

\* A listener that cannot be bound ends try_join!, and so main, at once.
Bind(l) ==
  /\ main = "serve"
  /\ listener[l] = "unbound"
  /\ Become(l, "accepting") \/ Ends("failed")

Return ==
  /\ main = "serve"
  /\ \A l \in Wanted : listener[l] = "done"
  /\ Ends("returned")

-----------------------------------------------------------------------------
\* Shutdown.

SignalTaskRuns == main \in {"subscribe", "seed", "start", "serve"}

InstallHandlers ==
  /\ SignalTaskRuns
  /\ ~handlers
  /\ handlers' = TRUE
  /\ UNCHANGED <<main, givenVars, token, listener, acmeVars, grace, conn>>

\* SIGINT or SIGTERM.  Until there are handlers it kills the process.
Signal ==
  /\ main \notin Ended
  /\ ~token
  /\ \/ /\ handlers
        /\ token' = TRUE
        /\ UNCHANGED <<main, givenVars, handlers, listener, acmeVars, grace, conn>>
     \/ ~handlers /\ Ends("killed")

\* The task that calls graceful_shutdown, perhaps before there is a listener.
Drain ==
  /\ main = "serve"
  /\ token
  /\ grace = "none"
  /\ grace' = "running"
  /\ UNCHANGED <<main, givenVars, handlers, token, listener, acmeVars, conn>>

\* Mutant: only the first server is given the handle.
HandledFirst == {"http"}

\* The servers the handle is given to.
Handled == {"http", "https"}

StopAccepting(l) ==
  /\ main = "serve"
  /\ grace # "none"
  /\ l \in Handled
  /\ listener[l] = "accepting"
  /\ Become(l, "draining")

\* SHUTDOWN_GRACE_PERIOD is over.
GraceExpires ==
  /\ main = "serve"
  /\ grace = "running"
  /\ grace' = "over"
  /\ UNCHANGED <<main, givenVars, handlers, token, listener, acmeVars, conn>>

\* Mutant: nothing is waited for.
DrainedAtOnce == TRUE

\* The handle counts the connections of all its servers; an upgraded one no more.
Drained == grace = "over" \/ \A c \in Conns : conn[c] # "request"

FinishDraining(l) ==
  /\ main = "serve"
  /\ listener[l] = "draining"
  /\ Drained
  /\ Become(l, "done")

-----------------------------------------------------------------------------
\* The ACME task, which follows rustls_acme's state machine, and connections.

Becomes(state) ==
  /\ acme' = state
  /\ UNCHANGED <<main, givenVars, handlers, token, listener, grace, conn>>

\* The cache of an earlier run may hold a certificate, which is served at once.
LoadCache ==
  /\ main = "serve"
  /\ acme = "loading"
  /\ Becomes("idle")
  /\ certificate' \in BOOLEAN

\* A first order, one after a failure, a renewal: nothing looks at the listeners.
Order ==
  /\ main = "serve"
  /\ acme = "idle"
  /\ Becomes("ordering")
  /\ UNCHANGED certificate

\* The listeners that serve the challenge: both have the same router.
ChallengeOn == Wanted

\* Let's Encrypt has fetched the challenge over plain HTTP.
OrderValid ==
  /\ main = "serve"
  /\ acme = "ordering"
  /\ "http" \in ChallengeOn
  /\ listener["http"] = "accepting"
  /\ Becomes("idle")
  /\ certificate' = TRUE

\* It could not, for want of a listener, a name, a network, or it refuses.  The
\* error is logged, and the state machine goes on to the next order.
OrderFails ==
  /\ main = "serve"
  /\ acme = "ordering"
  /\ Becomes("idle")
  /\ UNCHANGED certificate

\* The state machine ends and the task with it: nothing is ordered any more.
AcmeEnds ==
  /\ main = "serve"
  /\ acme \in {"loading", "idle"}
  /\ Becomes("ended")
  /\ UNCHANGED certificate

Moves(c, s) ==
  /\ conn' = [conn EXCEPT ![c] = s]
  /\ UNCHANGED <<main, givenVars, taskVars, listener>>

\* A handshake before the first certificate fails.
Accept(c) ==
  /\ conn[c] = "none"
  /\ \/ listener["http"] = "accepting" /\ Moves(c, "request")
     \/ /\ listener["https"] = "accepting"
        /\ Moves(c, IF certificate THEN "request" ELSE "over")

\* ws_handler.  The handle no longer counts the connection.
Upgrade(c) == conn[c] = "request" /\ Moves(c, "websocket")

\* The answer is sent, or the client is gone.
Finish(c) == conn[c] \in {"request", "websocket"} /\ Moves(c, "over")

-----------------------------------------------------------------------------

Main == Load \/ InitTracing \/ SetupMetrics \/ Subscribe \/ Seed \/ Start \/ Return

Acme == LoadCache \/ Order \/ OrderValid \/ OrderFails \/ AcmeEnds

Next ==
  \/ Main \/ InstallHandlers \/ Signal \/ Drain
  \/ GraceExpires \/ Acme
  \/ \E l \in Listeners : Bind(l) \/ StopAccepting(l) \/ FinishDraining(l)
  \/ \E c \in Conns : Accept(c) \/ Upgrade(c) \/ Finish(c)

Spec == Init /\ [][Next]_vars

\* main and the tasks run, ten seconds pass, an attempt to connect to RIS has an
\* outcome, a bind and an order too, and of infinitely many orders whose challenge
\* can be fetched one is valid.  Nothing obliges the state machine to end, anyone to
\* send a signal, or a client to do anything.
FairSpec ==
  /\ Spec
  /\ WF_vars(Main) /\ WF_vars(Drain) /\ WF_vars(GraceExpires)
  /\ WF_vars(LoadCache) /\ WF_vars(Order) /\ WF_vars(OrderValid \/ OrderFails)
  /\ SF_vars(OrderValid)
  /\ \A l \in Listeners :
       WF_vars(Bind(l)) /\ WF_vars(StopAccepting(l)) /\ WF_vars(FinishDraining(l))

-----------------------------------------------------------------------------

\* A shutdown ends the process wherever it finds main: before the listeners exist,
\* while one of two is bound, or with connections that nobody ends.
ShutdownEnds == token ~> main \in Ended

\* A request that is in flight when main returns, and is cut off by it, has had the
\* whole grace period: neither listener's end cuts off a request on the other.  Of
\* "in-flight connections" (main.rs:48) this holds only until they are upgraded: a
\* websocket is not waited for, and ends with main as soon as no request is left.
GraceKept ==
  [][main' = "returned" /\ main # "returned" =>
       grace = "over" \/ \A c \in Conns : conn[c] # "request"]_vars

\* "A half-written block fails at startup rather than silently serving plain HTTP":
\* a file with a TLS block, written well or not, never leaves a process that goes
\* on serving plain HTTP alone, whichever listener is bound first or fails.
NeverPlainOnly ==
  (file # Absent /\ file.tls # None /\ listener["http"] = "accepting")
    ~> (listener["https"] \in {"accepting", "draining", "done"} \/ main \in Ended)

\* A process whose configuration asks for TLS comes to serve it, whatever orders fail
\* meanwhile: the listeners do not wait for the certificate, which needs one of them,
\* the task outlives the orders it makes before there is one, and the listener that
\* is validated is one that serves the challenge.  ("it can be handed to a server
\* before the first order completes".)  Excused are a shutdown, an end, and a state
\* machine that ends ("certificates will no longer renew").
TlsComesUp ==
  (main = "serve" /\ Config.tls = Whole)
    ~> \/ certificate /\ listener["https"] = "accepting"
       \/ token \/ main \in Ended \/ acme = "ended"

=============================================================================
