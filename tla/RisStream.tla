------------------------------ MODULE RisStream ------------------------------
(***************************************************************************)
(* The RIS Live stream (ris_client/src/stream.rs) and the route table's    *)
(* end of its channel (RouteTable::run in server/src/route_table.rs): a    *)
(* task that reads records off a websocket, publishes the RIS messages     *)
(* among them, reconnects when the socket is gone and ends on shutdown.  A *)
(* recording (ris_client/src/mock_event_source.rs) may take its place.     *)
(* RIS messages are numbered in the order RIS or the file has them.        *)
(***************************************************************************)
EXTENDS Streams

CONSTANTS
  Capacity,    \* CHANNEL_CAPACITY
  MaxMessages, \* bound on what RIS emits
  MaxInFlight, \* bound on the records on their way to the task
  Files,       \* recordings: the lines of a file, one record each
  Noise,       \* a record without a RIS message: another envelope, a RIS error,
               \* a ping, text that does not parse
  CloseFrame,  \* Message::Close
  ReadError    \* an Err item of the stream, a line that cannot be read

Message == 1 .. MaxMessages

Record == Message \cup {Noise, CloseFrame, ReadError}

\* The RIS messages among some records.
Messages(s) == Keep(s, Message)

ASSUME RisStreamAssumption ==
  /\ Capacity \in Nat \ {0}
  /\ MaxMessages \in Nat
  /\ {Noise, CloseFrame, ReadError} \cap Message = {}
  /\ Noise \notin {CloseFrame, ReadError}
  /\ Files \subseteq Seq(Message \cup {Noise, ReadError})
  /\ \A f \in Files : Messages(f) = [k \in 1 .. Len(Messages(f)) |-> k]

VARIABLES
  source,    \* what the route table was given: "ris" or "file"
  task,      \* where the stream's task is
  shutdown,  \* the cancellation token
  emitted,   \* how many messages RIS has emitted
  records,   \* in flight on the stream the task holds
  up,        \* that stream has not ended
  log,       \* the messages published to the channel
  cursor,    \* the position in it the route table reads next
  ingested,  \* what the route table has ingested
  running,   \* the route table's ingest task has not stopped
  seamless   \* history: no stream has broken and no reader has lagged

taskVars == <<task, log>>
risVars == <<source, emitted, records, up>>
tableVars == <<cursor, ingested, running>>
vars == <<taskVars, risVars, tableVars, shutdown, seamless>>

TypeOK ==
  /\ source \in {"ris", "file"}
  /\ task \in {"reading", "pausing", "quitting", "connecting", "ended"}
  /\ shutdown \in BOOLEAN
  /\ emitted \in 0 .. MaxMessages
  /\ records \in Seq(Record)
  /\ up \in BOOLEAN
  /\ log \in Seq(Message)
  /\ cursor \in 1 .. Len(log) + 1
  /\ ingested \in Seq(Message)
  /\ running \in BOOLEAN
  /\ seamless \in BOOLEAN

\* subscribe has connected before it spawns the task.
FromRis ==
  /\ source = "ris"
  /\ records = <<>>
  /\ emitted = 0

\* subscribe_from_file has opened the file.
FromFile ==
  /\ source = "file"
  /\ records \in Files
  /\ emitted = Len(Messages(records))

Init ==
  /\ FromRis \/ FromFile
  /\ task = "reading"
  /\ shutdown = FALSE
  /\ up = TRUE
  /\ log = <<>>
  /\ cursor = 1
  /\ ingested = <<>>
  /\ running = TRUE
  /\ seamless = TRUE

-----------------------------------------------------------------------------
\* RIS and the network, and whoever asks the process to stop.

\* A message reaches the streams there are: it is lost to one that is down.
Emit ==
  /\ source = "ris"
  /\ emitted < MaxMessages
  /\ Len(records) < MaxInFlight
  /\ emitted' = emitted + 1
  /\ records' = IF up THEN Append(records, emitted') ELSE records
  /\ UNCHANGED <<source, up, taskVars, tableVars, shutdown, seamless>>

SendNoise ==
  /\ source = "ris"
  /\ up
  /\ Len(records) < MaxInFlight
  /\ records' = Append(records, Noise)
  /\ UNCHANGED <<source, emitted, up, taskVars, tableVars, shutdown, seamless>>

\* The stream ends, after a close frame, an error or neither.
Break ==
  /\ source = "ris"
  /\ up
  /\ Len(records) < MaxInFlight
  /\ \E last \in {<<>>, <<CloseFrame>>, <<ReadError>>} : records' = records \o last
  /\ up' = FALSE
  /\ seamless' = FALSE
  /\ UNCHANGED <<source, emitted, taskVars, tableVars, shutdown>>

\* A read error need not end it.  (tokio-tungstenite ends a stream after an error;
\* the task does not rely on that.)
Falter ==
  /\ source = "ris"
  /\ up
  /\ Len(records) < MaxInFlight
  /\ records' = Append(records, ReadError)
  /\ seamless' = FALSE
  /\ UNCHANGED <<source, emitted, up, taskVars, tableVars, shutdown>>

Shutdown ==
  /\ ~shutdown
  /\ shutdown' = TRUE
  /\ UNCHANGED <<taskVars, risVars, tableVars, seamless>>

-----------------------------------------------------------------------------
\* The task.  Between cancelled() and a record that is ready select! chooses at
\* random.

NextRecord(r) ==
  /\ task = "reading"
  /\ records # <<>>
  /\ r = Head(records)
  /\ records' = Tail(records)

\* Mutant: the message is sent again when it is logged.
PublishTwice ==
  /\ \E m \in Message : NextRecord(m) /\ log' = log \o <<m, m>>
  /\ UNCHANGED <<task, source, emitted, up, tableVars, shutdown, seamless>>

Publish ==
  /\ \E m \in Message : NextRecord(m) /\ log' = Append(log, m)
  /\ UNCHANGED <<task, source, emitted, up, tableVars, shutdown, seamless>>

\* Mutant: a record that is not understood ends the stream.
StoppingAll == {CloseFrame, ReadError, Noise}

Stopping == {CloseFrame, ReadError}

Ignore ==
  /\ \E r \in Record \ (Message \cup Stopping) : NextRecord(r)
  /\ UNCHANGED <<taskVars, source, emitted, up, tableVars, shutdown, seamless>>

\* The inner loop is left.  A token that is cancelled by then wins against the
\* three seconds of the pause, and always when it is why the loop was left (done).
Leave == task' = IF shutdown THEN "quitting" ELSE "pausing"

LeaveStream ==
  /\ source = "ris"
  /\ \E r \in Stopping : NextRecord(r)
  /\ Leave
  /\ UNCHANGED <<log, source, emitted, up, tableVars, shutdown, seamless>>

\* Mutant: a stream that has ended is waited for.
EndedNever == FALSE

\* next() answers None, also when it is asked again.
Ended == ~up /\ records = <<>>

StreamEnds ==
  /\ source = "ris"
  /\ task = "reading"
  /\ Ended
  /\ Leave
  /\ UNCHANGED <<log, risVars, tableVars, shutdown, seamless>>

StopReading ==
  /\ source = "ris"
  /\ task = "reading"
  /\ shutdown
  /\ Leave
  /\ UNCHANGED <<log, risVars, tableVars, shutdown, seamless>>

\* A file ends, or cannot be read further.  Its task looks at no shutdown.
FileEnds ==
  /\ source = "file"
  /\ task = "reading"
  /\ records # <<>> => Head(records) = ReadError
  /\ task' = "ended"
  /\ seamless' = (records = <<>> /\ seamless)
  /\ UNCHANGED <<log, risVars, tableVars, shutdown>>

\* Three seconds have passed; a token cancelled during the pause may tie with that.
PauseOver ==
  /\ task = "pausing"
  /\ task' = "connecting"
  /\ UNCHANGED <<log, risVars, tableVars, shutdown, seamless>>

\* Mutant: the break leaves the inner loop alone.
QuitReading ==
  /\ task \in {"quitting", "pausing"}
  /\ shutdown
  /\ task' = "reading"
  /\ UNCHANGED <<log, risVars, tableVars, shutdown, seamless>>

\* The break out of the outer loop: the task ends, its sender is dropped.
Quit ==
  /\ task \in {"quitting", "pausing"}
  /\ shutdown
  /\ task' = "ended"
  /\ UNCHANGED <<log, risVars, tableVars, shutdown, seamless>>

\* connect_to_ris, awaited outside the reach of select!.
Connect ==
  /\ task = "connecting"
  /\ task' = "reading"
  /\ records' = <<>>
  /\ up' = TRUE
  /\ UNCHANGED <<log, source, emitted, tableVars, shutdown, seamless>>

\* Mutant: a failed attempt is the last one.
AfterFailureEnd == "ended"

\* The loop goes round on the stream the task still has.
AfterFailure == "reading"

ConnectFails ==
  /\ task = "connecting"
  /\ task' = AfterFailure
  /\ UNCHANGED <<log, risVars, tableVars, shutdown, seamless>>

-----------------------------------------------------------------------------
\* The route table's ingest task.

\* The oldest message the channel retains.
Oldest == IF Len(log) > Capacity THEN Len(log) - Capacity + 1 ELSE 1

Ingest ==
  /\ running
  /\ cursor <= Len(log)
  /\ IF cursor < Oldest
       THEN /\ cursor' = Oldest
            /\ seamless' = FALSE
            /\ UNCHANGED ingested
       ELSE /\ cursor' = cursor + 1
            /\ ingested' = Append(ingested, log[cursor])
            /\ UNCHANGED seamless
  /\ UNCHANGED <<running, taskVars, risVars, shutdown>>

\* Mutant: what is still in the channel is left there.
ClosedEarly == task = "ended"

\* recv() answers Closed once the sender is dropped and the channel is drained.
Closed == task = "ended" /\ cursor > Len(log)

StopIngest ==
  /\ running
  /\ Closed
  /\ running' = FALSE
  /\ UNCHANGED <<cursor, ingested, taskVars, risVars, shutdown, seamless>>

-----------------------------------------------------------------------------

Environment == Emit \/ SendNoise \/ Break \/ Falter \/ Shutdown

Read == Publish \/ Ignore \/ LeaveStream \/ StreamEnds \/ FileEnds

Attempt == Connect \/ ConnectFails

Table == Ingest \/ StopIngest

Next ==
  \/ Environment \/ Read \/ StopReading
  \/ PauseOver \/ Quit \/ Attempt \/ Table

Spec == Init /\ [][Next]_vars

\* The tasks run, an attempt to connect has an outcome and, among infinitely many,
\* one that succeeds; cancelled(), one of two ready branches, is not passed over
\* for ever.
FairSpec ==
  /\ Spec
  /\ WF_vars(Read) /\ WF_vars(PauseOver \/ Quit)
  /\ WF_vars(Attempt) /\ SF_vars(Connect)
  /\ SF_vars(StopReading) /\ SF_vars(Quit)
  /\ WF_vars(Table)

-----------------------------------------------------------------------------

\* Whatever breaks, is retried or lags, messages are ingested in the order RIS
\* emitted them and none twice: a failed attempt goes back to the old stream, a
\* successful one leaves it for good, and a reader that lags only skips.
InOrder == \A k \in 1 .. Len(ingested) - 1 : ingested[k] < ingested[k + 1]

\* Only a broken stream or a reader the channel overtakes loses a message: until
\* then all that RIS emitted is ingested, in the channel or on its way, while the
\* task reads, in order.
NothingLost ==
  seamless =>
    ingested \o SubSeq(log, cursor, Len(log)) \o Messages(records) = [k \in 1 .. emitted |-> k]

\* The ingest task stops for no other reason than shutdown or the end of a file (that
\* RIS closes the stream is none, as KeepsReconnecting says), never before the task
\* that sends to it (the recording's unwraps its send), and not before it has had
\* everything the channel still holds.
StopsDrained ==
  ~running =>
    /\ task = "ended"
    /\ shutdown \/ source = "file"
    /\ log # <<>> => ingested # <<>> /\ ingested[Len(ingested)] = log[Len(log)]

\* "Keep reconnecting to RIS until the shutdown signal is fired": a stream that is
\* gone is replaced, though attempts fail.  The doc of subscribe contradicts that
\* comment and the code: the task "runs until RIS Live closes the stream"
\* (stream.rs:97-99).
KeepsReconnecting == ~up ~> (up \/ shutdown)

\* A shutdown ends the task and with it the ingest, wherever it finds them.
ShutdownEnds == shutdown ~> (task = "ended" /\ ~running)

=============================================================================
