-------------------------- MODULE RisStream_proofs --------------------------
(***************************************************************************)
(* What RisStream promises of the RIS stream, for every channel capacity,  *)
(* number of messages, bound on the records in flight and set of           *)
(* recordings: order, completeness until something breaks or lags, and an  *)
(* ingest that stops only when everything is drained.                      *)
(***************************************************************************)
EXTENDS RisStream

\* The messages on their way to the task.
Waiting == Messages(records)

Ascending(s) == \A j, k \in 1 .. Len(s) : j < k => s[j] < s[k]

\* What is published, then what waits, is in the order of emission, and all that
\* was ingested is older than what the reader has in front of it.
OrderInv ==
  /\ Ascending(log)
  /\ Ascending(Waiting)
  /\ \A j \in 1 .. Len(log), k \in 1 .. Len(Waiting) : log[j] < Waiting[k]
  /\ source = "ris" =>
       /\ \A j \in 1 .. Len(log) : log[j] <= emitted
       /\ \A k \in 1 .. Len(Waiting) : Waiting[k] <= emitted
  /\ Ascending(ingested)
  /\ ingested # <<>> =>
       cursor > 1 /\ \A k \in 1 .. Len(ingested) : ingested[k] <= log[cursor - 1]

\* While nothing has broken or lagged, the stream that is read is the first one,
\* and every message has the place of its number.
LosslessInv ==
  /\ source = "file" => task \in {"reading", "ended"}
  /\ seamless =>
       /\ source = "ris" =>
            /\ up
            /\ task \in {"reading", "quitting", "ended"}
            /\ \A k \in 1 .. Len(records) : records[k] \notin Stopping
       /\ Len(log) + Len(Waiting) = emitted
       /\ \A k \in 1 .. Len(log) : log[k] = k
       /\ \A k \in 1 .. Len(Waiting) : Waiting[k] = Len(log) + k
       /\ Len(ingested) = cursor - 1
       /\ \A k \in 1 .. Len(ingested) : ingested[k] = k

\* A reader that has reached the end of the channel has read its last message, and
\* nothing is published once the task has ended.
DrainInv ==
  /\ cursor = Len(log) + 1 /\ log # <<>> =>
       ingested # <<>> /\ ingested[Len(ingested)] = log[Len(log)]
  /\ task \in {"quitting", "ended"} => shutdown \/ source = "file"
  /\ ~running => task = "ended" /\ cursor = Len(log) + 1

\* The inductive invariant.
StreamInv == TypeOK /\ OrderInv /\ LosslessInv /\ DrainInv

-----------------------------------------------------------------------------
\* The messages that wait, as the steps change the records.

LEMMA WaitingType ==
  ASSUME TypeOK
  PROVE  Waiting \in Seq(Message)
<1>1. Record \cap Message = Message
  BY DEF Record
<1> QED
  BY <1>1, KeepType DEF TypeOK, Waiting, Messages

LEMMA NotMessages ==
  /\ Noise \in Record \ Message /\ CloseFrame \in Record \ Message
  /\ ReadError \in Record \ Message
  /\ Noise \notin Stopping /\ Stopping \cap Message = {} /\ Stopping \subseteq Record
  BY RisStreamAssumption DEF Record, Stopping

\* A record more.
LEMMA RecordArrives ==
  ASSUME NEW s \in Seq(Record), NEW r \in Record
  PROVE  Messages(Append(s, r)) = IF r \in Message THEN Append(Messages(s), r) ELSE Messages(s)
  BY KeepAppend DEF Messages

\* A record less.
LEMMA RecordRead ==
  ASSUME NEW s \in Seq(Record), s # <<>>
  PROVE  Messages(s) = IF Head(s) \in Message
                         THEN <<Head(s)>> \o Messages(Tail(s)) ELSE Messages(Tail(s))
  BY KeepHead DEF Messages

\* The records lose their first.
LEMMA ReadEffect ==
  ASSUME TypeOK, NEW r \in Record, NextRecord(r)
  PROVE  /\ records # <<>> /\ records' \in Seq(Record)
         /\ \A k \in 1 .. Len(records') : records'[k] = records[k + 1] /\ k + 1 \in 1 .. Len(records)
         /\ records[1] = r /\ 1 \in 1 .. Len(records)
         /\ r \in Message =>
              /\ Len(Waiting) = Len(Waiting') + 1
              /\ Waiting[1] = r
              /\ \A k \in 1 .. Len(Waiting') : Waiting[k + 1] = Waiting'[k]
         /\ r \notin Message => Waiting' = Waiting
<1>1. /\ records \in Seq(Record) /\ records # <<>> /\ r = Head(records)
      /\ records' = Tail(records)
  BY DEF TypeOK, NextRecord
<1>2. /\ records' \in Seq(Record)
      /\ \A k \in 1 .. Len(records') : records'[k] = records[k + 1] /\ k + 1 \in 1 .. Len(records)
      /\ records[1] = r /\ 1 \in 1 .. Len(records)
  BY <1>1
<1>3. Waiting = IF r \in Message THEN <<r>> \o Waiting' ELSE Waiting'
  BY <1>1, RecordRead DEF Waiting
<1>4. Waiting' \in Seq(Message)
  <2>1. Record \cap Message = Message
    BY DEF Record
  <2> QED
    BY <1>2, <2>1, KeepType DEF Waiting, Messages
<1>5. CASE r \in Message
  <2>1. PICK w \in Seq(Message) : w = Waiting'
    BY <1>4
  <2>2. /\ Len(<<r>> \o w) = Len(w) + 1 /\ (<<r>> \o w)[1] = r
        /\ \A k \in 1 .. Len(w) : (<<r>> \o w)[k + 1] = w[k]
    BY <1>5
  <2> QED
    BY <1>1, <1>2, <1>3, <1>5, <2>1, <2>2
<1> QED
  BY <1>1, <1>2, <1>3, <1>5

LEMMA EmitEffect ==
  ASSUME TypeOK, Emit
  PROVE  /\ emitted' = emitted + 1 /\ emitted' \in Message
         /\ up => /\ records' = Append(records, emitted')
                  /\ Len(Waiting') = Len(Waiting) + 1
                  /\ Waiting'[Len(Waiting')] = emitted'
                  /\ \A k \in 1 .. Len(Waiting) : Waiting'[k] = Waiting[k]
         /\ ~up => records' = records /\ Waiting' = Waiting
<1>1. /\ emitted' = emitted + 1 /\ emitted' \in Message
      /\ records' = IF up THEN Append(records, emitted') ELSE records
  BY RisStreamAssumption DEF TypeOK, Emit, Message
<1>2. CASE up
  <2>1. Waiting' = Append(Waiting, emitted')
    <3>1. emitted' \in Record
      BY <1>1 DEF Record
    <3>2. PICK e \in Record : e = emitted'
      BY <3>1
    <3>3. Messages(Append(records, e)) = Append(Messages(records), e)
      BY <1>1, <3>2, RecordArrives DEF TypeOK
    <3> QED
      BY <1>1, <1>2, <3>2, <3>3 DEF Waiting
  <2>2. PICK w \in Seq(Message) : w = Waiting
    BY WaitingType
  <2>3. PICK e \in Message : e = emitted'
    BY <1>1
  <2>4. /\ Len(Append(w, e)) = Len(w) + 1 /\ Append(w, e)[Len(w) + 1] = e
        /\ \A k \in 1 .. Len(w) : Append(w, e)[k] = w[k]
    OBVIOUS
  <2> QED
    BY <1>1, <1>2, <2>1, <2>2, <2>3, <2>4
<1> QED
  BY <1>1, <1>2 DEF Waiting

\* What the network adds besides messages changes nothing that waits.
LEMMA NoiseEffect ==
  ASSUME TypeOK, SendNoise \/ Break \/ Falter
  PROVE  /\ Waiting' = Waiting /\ records' \in Seq(Record)
         /\ SendNoise => /\ Len(records') = Len(records) + 1
                         /\ records'[Len(records')] = Noise
                         /\ \A k \in 1 .. Len(records) : records'[k] = records[k]
<1>1. ASSUME NEW r \in Record \ Message, records' = Append(records, r)
      PROVE  /\ Waiting' = Waiting /\ records' \in Seq(Record)
             /\ Len(records') = Len(records) + 1
             /\ records'[Len(records')] = r
             /\ \A k \in 1 .. Len(records) : records'[k] = records[k]
  <2>1. records \in Seq(Record) /\ r \in Record /\ r \notin Message
    BY DEF TypeOK
  <2>2. Waiting' = Waiting
    BY <1>1, <2>1, RecordArrives DEF Waiting
  <2> QED
    BY <1>1, <2>1, <2>2
<1>2. CASE SendNoise
  BY <1>1, <1>2, NotMessages DEF SendNoise
<1>3. CASE Falter
  <2>1. ~SendNoise \/ records' = Append(records, Noise)
    BY DEF SendNoise
  <2> QED
    BY <1>1, <1>2, <1>3, NotMessages DEF Falter
<1>4. CASE Break
  <2>1. PICK last \in {<<>>, <<CloseFrame>>, <<ReadError>>} : records' = records \o last
    BY <1>4 DEF Break
  <2>2. records \in Seq(Record)
    BY DEF TypeOK
  <2>3. CASE last = <<>>
    <3>1. records' = records
      BY <2>1, <2>2, <2>3
    <3> QED
      BY <1>2, <2>2, <3>1 DEF Waiting
  <2>4. CASE last = <<CloseFrame>>
    <3>1. records' = Append(records, CloseFrame)
      BY <2>1, <2>2, <2>4
    <3> QED
      BY <1>1, <1>2, <3>1, NotMessages
  <2>5. CASE last = <<ReadError>>
    <3>1. records' = Append(records, ReadError)
      BY <2>1, <2>2, <2>5
    <3> QED
      BY <1>1, <1>2, <3>1, NotMessages
  <2> QED
    BY <2>1, <2>3, <2>4, <2>5
<1> QED
  BY <1>2, <1>3, <1>4

LEMMA PublishEffect ==
  ASSUME TypeOK, Publish
  PROVE  \E m \in Message :
           /\ NextRecord(m) /\ m \in Record
           /\ log' \in Seq(Message) /\ Len(log') = Len(log) + 1 /\ log'[Len(log')] = m
           /\ \A k \in 1 .. Len(log) : log'[k] = log[k]
<1>1. PICK m \in Message : NextRecord(m) /\ log' = Append(log, m)
  BY DEF Publish
<1>2. log \in Seq(Message)
  BY DEF TypeOK
<1>3. /\ log' \in Seq(Message) /\ Len(log') = Len(log) + 1 /\ log'[Len(log')] = m
      /\ \A k \in 1 .. Len(log) : log'[k] = log[k]
  BY <1>1, <1>2
<1> QED
  BY <1>1, <1>3 DEF Record

Quiet ==
  \/ SendNoise \/ Break \/ Falter \/ Shutdown \/ Ignore \/ LeaveStream \/ StreamEnds \/ FileEnds
  \/ StopReading \/ PauseOver \/ Quit \/ ConnectFails \/ StopIngest

\* Most steps publish, ingest and lose no message.
LEMMA QuietEffect ==
  ASSUME TypeOK, Quiet
  PROVE  Waiting' = Waiting /\ UNCHANGED <<source, emitted, log, cursor, ingested>>
<1>1. CASE SendNoise \/ Break \/ Falter
  BY <1>1, NoiseEffect DEF SendNoise, Break, Falter, taskVars, tableVars
<1>2. CASE Ignore
  <2>1. PICK r \in Record \ (Message \cup Stopping) : NextRecord(r)
    BY <1>2 DEF Ignore
  <2>2. Waiting' = Waiting
    BY <2>1, ReadEffect
  <2> QED
    BY <1>2, <2>2 DEF Ignore, taskVars, tableVars
<1>3. CASE LeaveStream
  <2>1. PICK r \in Stopping : NextRecord(r)
    BY <1>3 DEF LeaveStream
  <2>2. Waiting' = Waiting
    BY <2>1, ReadEffect, NotMessages
  <2> QED
    BY <1>3, <2>2 DEF LeaveStream, tableVars
<1>4. CASE \/ Shutdown \/ StreamEnds \/ FileEnds \/ StopReading \/ PauseOver \/ Quit
           \/ ConnectFails \/ StopIngest
  <2>1. UNCHANGED <<records, source, emitted, log, cursor, ingested>>
    BY <1>4 DEF Shutdown, StreamEnds, FileEnds, StopReading, PauseOver, Quit, ConnectFails,
                StopIngest, taskVars, risVars, tableVars
  <2> QED
    BY <2>1 DEF Waiting
<1> QED
  BY <1>1, <1>2, <1>3, <1>4 DEF Quiet

LEMMA StepCases ==
  ASSUME [Next]_vars
  PROVE  Emit \/ Publish \/ Connect \/ Ingest \/ Quiet \/ UNCHANGED vars
  BY DEF Next, Environment, Read, Attempt, Table, Quiet

\* What the ingest task does with a message in front of it.
LEMMA IngestEffect ==
  ASSUME TypeOK, Ingest
  PROVE  /\ cursor \in 1 .. Len(log)
         /\ \/ /\ cursor' \in cursor + 1 .. Len(log) /\ ~seamless' /\ ingested' = ingested
            \/ /\ cursor' = cursor + 1 /\ seamless' = seamless
               /\ ingested' = Append(ingested, log[cursor])
               /\ ingested' \in Seq(Message)
               /\ Len(ingested') = Len(ingested) + 1
               /\ ingested'[Len(ingested')] = log[cursor]
               /\ \A k \in 1 .. Len(ingested) : ingested'[k] = ingested[k]
<1>1. log \in Seq(Message) /\ ingested \in Seq(Message) /\ cursor \in 1 .. Len(log)
  BY DEF TypeOK, Ingest
<1>2. log[cursor] \in Message
  BY <1>1
<1>3. CASE cursor < Oldest
  <2>1. cursor' = Oldest /\ ~seamless' /\ ingested' = ingested
    BY <1>3 DEF Ingest
  <2>2. Oldest \in cursor + 1 .. Len(log)
    BY <1>1, <1>3, RisStreamAssumption DEF Oldest
  <2> QED
    BY <1>1, <2>1, <2>2
<1>4. CASE ~(cursor < Oldest)
  <2>1. cursor' = cursor + 1 /\ seamless' = seamless /\ ingested' = Append(ingested, log[cursor])
    BY <1>4 DEF Ingest
  <2>2. PICK m \in Message : m = log[cursor]
    BY <1>2
  <2>3. PICK s \in Seq(Message) : s = ingested
    BY <1>1
  <2>4. /\ Append(s, m) \in Seq(Message)
        /\ Len(Append(s, m)) = Len(s) + 1 /\ Append(s, m)[Len(s) + 1] = m
        /\ \A k \in 1 .. Len(s) : Append(s, m)[k] = s[k]
    OBVIOUS
  <2> QED
    BY <1>1, <2>1, <2>2, <2>3, <2>4
<1> QED
  BY <1>3, <1>4

-----------------------------------------------------------------------------
\* Each part of the invariant, step by step.

LEMMA StepType ==
  ASSUME TypeOK, [Next]_vars
  PROVE  TypeOK'
<1> USE DEF TypeOK
<1>1. CASE Emit
  <2>1. emitted' \in Message /\ emitted' \in Record /\ emitted' \in 0 .. MaxMessages
    BY <1>1, EmitEffect, RisStreamAssumption DEF Message, Record
  <2>2. records' \in Seq(Record)
    <3>1. PICK e \in Record : e = emitted'
      BY <2>1
    <3>2. Append(records, e) \in Seq(Record)
      OBVIOUS
    <3> QED
      BY <1>1, <3>1, <3>2 DEF Emit
  <2> QED
    BY <1>1, <2>1, <2>2 DEF Emit, taskVars, tableVars
<1>2. CASE Publish
  <2>1. PICK m \in Message : /\ NextRecord(m) /\ m \in Record
                             /\ log' \in Seq(Message) /\ Len(log') = Len(log) + 1
    BY <1>2, PublishEffect
  <2>2. records' \in Seq(Record)
    BY <2>1, ReadEffect
  <2>3. cursor \in 1 .. Len(log') + 1
    BY <2>1
  <2> QED
    BY <1>2, <2>1, <2>2, <2>3 DEF Publish, tableVars
<1>3. CASE Connect
  BY <1>3 DEF Connect, tableVars
<1>4. CASE Ingest
  <2>1. cursor' \in 1 .. Len(log) + 1 /\ ingested' \in Seq(Message)
    <3>1. Len(log) \in Nat
      OBVIOUS
    <3>2. cursor \in 1 .. Len(log)
      BY <1>4, IngestEffect
    <3>3. cursor + 1 \in 1 .. Len(log) + 1 /\ cursor + 1 .. Len(log) \subseteq 1 .. Len(log) + 1
      BY <3>1, <3>2
    <3>4. \/ cursor' \in cursor + 1 .. Len(log) /\ ingested' = ingested
          \/ cursor' = cursor + 1 /\ ingested' \in Seq(Message)
      BY <1>4, IngestEffect
    <3> QED
      BY <3>3, <3>4
  <2>2. seamless' \in BOOLEAN
    BY <1>4 DEF Ingest
  <2> QED
    BY <1>4, <2>1, <2>2 DEF Ingest, taskVars, risVars
<1>5. CASE Quiet
  <2>1. UNCHANGED <<source, emitted, log, cursor, ingested>>
    BY <1>5, QuietEffect
  <2>2. records' \in Seq(Record)
    <3>1. CASE SendNoise \/ Break \/ Falter
      BY <3>1, NoiseEffect
    <3>2. CASE Ignore
      <4>1. PICK r \in Record : NextRecord(r)
        BY <3>2 DEF Ignore
      <4> QED
        BY <4>1, ReadEffect
    <3>3. CASE LeaveStream
      <4>1. PICK r \in Record : NextRecord(r)
        BY <3>3, NotMessages DEF LeaveStream
      <4> QED
        BY <4>1, ReadEffect
    <3>4. CASE \/ Shutdown \/ StreamEnds \/ FileEnds \/ StopReading \/ PauseOver \/ Quit
               \/ ConnectFails \/ StopIngest
      BY <3>4 DEF Shutdown, StreamEnds, FileEnds, StopReading, PauseOver, Quit, ConnectFails,
                  StopIngest, taskVars, risVars, tableVars
    <3> QED
      BY <1>5, <3>1, <3>2, <3>3, <3>4 DEF Quiet
  <2>3. /\ task' \in {"reading", "pausing", "quitting", "connecting", "ended"}
        /\ shutdown' \in BOOLEAN /\ up' \in BOOLEAN /\ running' \in BOOLEAN
        /\ seamless' \in BOOLEAN
    BY <1>5 DEF Quiet, SendNoise, Break, Falter, Shutdown, Ignore, LeaveStream, StreamEnds,
                FileEnds, StopReading, PauseOver, Quit, ConnectFails, StopIngest, AfterFailure,
                Leave, taskVars, risVars, tableVars
  <2> QED
    BY <2>1, <2>2, <2>3
<1>6. CASE UNCHANGED vars
  BY <1>6 DEF vars, taskVars, risVars, tableVars
<1> QED
  BY <1>1, <1>2, <1>3, <1>4, <1>5, <1>6, StepCases

LEMMA StepOrder ==
  ASSUME StreamInv, [Next]_vars
  PROVE  OrderInv'
<1> USE DEF Ascending
<1>1. /\ TypeOK /\ OrderInv /\ TypeOK'
      /\ Waiting \in Seq(Nat) /\ log \in Seq(Nat) /\ ingested \in Seq(Nat) /\ emitted \in Nat
  <2>1. \A s \in Seq(Message) : s \in Seq(Nat)
    BY RisStreamAssumption DEF Message
  <2>2. TypeOK /\ OrderInv /\ TypeOK'
    BY StepType DEF StreamInv
  <2>3. Waiting \in Seq(Message) /\ log \in Seq(Message) /\ ingested \in Seq(Message)
    BY <2>2, WaitingType DEF TypeOK
  <2>4. emitted \in Nat
    BY <2>2, RisStreamAssumption DEF TypeOK
  <2> QED
    BY <2>1, <2>2, <2>3, <2>4
<1>2. CASE Emit
  <2>1. UNCHANGED <<source, log, cursor, ingested>> /\ source = "ris"
    BY <1>2 DEF Emit, taskVars, tableVars
  <2>2. CASE up
    <3>1. /\ emitted' = emitted + 1
          /\ Len(Waiting') = Len(Waiting) + 1 /\ Waiting'[Len(Waiting')] = emitted'
          /\ \A k \in 1 .. Len(Waiting) : Waiting'[k] = Waiting[k]
      BY <1>1, <1>2, <2>2, EmitEffect
    <3>2. ASSUME NEW k \in 1 .. Len(Waiting')
          PROVE  \/ k \in 1 .. Len(Waiting) /\ Waiting'[k] = Waiting[k]
                 \/ k = Len(Waiting) + 1 /\ Waiting'[k] = emitted + 1
      BY <1>1, <3>1
    <3>3. \A k \in 1 .. Len(Waiting) : Waiting[k] < emitted'
      BY <1>1, <2>1, <3>1 DEF OrderInv
    <3>4. Ascending(Waiting')
      <4>1. /\ \A i, j \in 1 .. Len(Waiting) : i < j => Waiting[i] < Waiting[j]
            /\ Len(Waiting) \in Nat
        BY <1>1 DEF OrderInv
      <4> QED
        BY <3>1, <3>2, <3>3, <4>1
    <3>5. \A j \in 1 .. Len(log), k \in 1 .. Len(Waiting') : log[j] < Waiting'[k]
      <4>1. \A j \in 1 .. Len(log) : log[j] \in Nat
        BY <1>1
      <4>2. /\ \A j \in 1 .. Len(log) : log[j] <= emitted
            /\ \A j \in 1 .. Len(log), k \in 1 .. Len(Waiting) : log[j] < Waiting[k]
        BY <1>1, <2>1 DEF OrderInv
      <4>3. emitted \in Nat /\ Len(Waiting) \in Nat
        BY <1>1
      <4> QED
        BY <3>1, <3>2, <4>1, <4>2, <4>3
    <3>6. /\ \A j \in 1 .. Len(log) : log[j] <= emitted'
          /\ \A k \in 1 .. Len(Waiting') : Waiting'[k] <= emitted'
      <4>1. /\ \A j \in 1 .. Len(log) : log[j] <= emitted
            /\ \A k \in 1 .. Len(Waiting) : Waiting[k] <= emitted
        BY <1>1, <2>1 DEF OrderInv
      <4>2. /\ \A j \in 1 .. Len(log) : log[j] \in Nat
            /\ \A k \in 1 .. Len(Waiting) : Waiting[k] \in Nat
        BY <1>1
      <4>3. emitted \in Nat /\ Len(Waiting) \in Nat
        BY <1>1
      <4> QED
        BY <3>1, <3>2, <4>1, <4>2, <4>3
    <3> HIDE DEF Ascending
    <3> QED
      BY <1>1, <2>1, <3>4, <3>5, <3>6 DEF OrderInv
  <2>3. CASE ~up
    <3>1. emitted' = emitted + 1 /\ Waiting' = Waiting
      BY <1>1, <1>2, <2>3, EmitEffect
    <3> QED
      BY <1>1, <2>1, <3>1 DEF OrderInv
  <2> QED
    BY <2>2, <2>3
<1>3. CASE Publish
  <2>1. UNCHANGED <<source, emitted, cursor, ingested>>
    BY <1>3 DEF Publish, tableVars
  <2>2. PICK m \in Message : /\ NextRecord(m) /\ m \in Record
                             /\ Len(log') = Len(log) + 1 /\ log'[Len(log')] = m
                             /\ \A k \in 1 .. Len(log) : log'[k] = log[k]
    BY <1>1, <1>3, PublishEffect
  <2>3. /\ Len(Waiting) = Len(Waiting') + 1 /\ Waiting[1] = m
        /\ \A k \in 1 .. Len(Waiting') : Waiting[k + 1] = Waiting'[k]
    BY <1>1, <2>2, ReadEffect
  <2>4. ASSUME NEW j \in 1 .. Len(log')
        PROVE  \/ j \in 1 .. Len(log) /\ log'[j] = log[j] /\ log[j] < m
               \/ j = Len(log) + 1 /\ log'[j] = m
    <3>1. 1 \in 1 .. Len(Waiting)
      BY <1>1, <2>3
    <3>2. CASE j \in 1 .. Len(log)
      <4>1. log[j] < Waiting[1]
        BY <1>1, <3>1, <3>2 DEF OrderInv
      <4> QED
        BY <2>2, <2>3, <3>2, <4>1
    <3>3. CASE j \notin 1 .. Len(log)
      <4>1. j = Len(log) + 1
        BY <1>1, <2>2, <3>3
      <4> QED
        BY <2>2, <4>1
    <3> QED
      BY <3>2, <3>3
  <2>5. ASSUME NEW k \in 1 .. Len(Waiting')
        PROVE  k + 1 \in 1 .. Len(Waiting) /\ Waiting'[k] = Waiting[k + 1] /\ m < Waiting'[k]
    <3>1. /\ 1 \in 1 .. Len(Waiting) /\ k + 1 \in 1 .. Len(Waiting) /\ 1 < k + 1
          /\ Waiting'[k] = Waiting[k + 1]
      BY <1>1, <2>3
    <3>2. \A i, j \in 1 .. Len(Waiting) : i < j => Waiting[i] < Waiting[j]
      BY <1>1 DEF OrderInv, Ascending
    <3>3. Waiting[1] < Waiting[k + 1]
      BY <3>1, <3>2
    <3> QED
      BY <2>3, <3>1, <3>3
  <2>6. Ascending(log') /\ Ascending(Waiting')
    <3>1. Ascending(log')
      <4>1. /\ \A i, j \in 1 .. Len(log) : i < j => log[i] < log[j]
            /\ Len(log) \in Nat
        BY <1>1 DEF OrderInv
      <4> QED
        BY <2>2, <2>4, <4>1
    <3>2. Ascending(Waiting')
      <4>1. Len(Waiting') \in Int
        BY <1>1, <2>3
      <4> QED
        BY <1>1, <2>5, <4>1 DEF OrderInv
    <3> QED
      BY <3>1, <3>2
  <2>7. \A j \in 1 .. Len(log'), k \in 1 .. Len(Waiting') : log'[j] < Waiting'[k]
    BY <1>1, <2>4, <2>5 DEF OrderInv
  <2>8. source = "ris" => /\ \A j \in 1 .. Len(log') : log'[j] <= emitted
                          /\ \A k \in 1 .. Len(Waiting') : Waiting'[k] <= emitted
    <3>1. 1 \in 1 .. Len(Waiting)
      BY <1>1, <2>3
    <3> QED
      BY <1>1, <2>3, <2>4, <2>5, <3>1 DEF OrderInv
  <2>9. ingested # <<>> =>
          cursor > 1 /\ \A k \in 1 .. Len(ingested) : ingested[k] <= log'[cursor - 1]
    <3>1. cursor > 1 => cursor - 1 \in 1 .. Len(log)
      BY <1>1 DEF TypeOK
    <3> QED
      BY <1>1, <2>2, <3>1 DEF OrderInv
  <2>10. Ascending(ingested)
    BY <1>1 DEF OrderInv
  <2> HIDE DEF Ascending
  <2> QED
    BY <2>1, <2>6, <2>7, <2>8, <2>9, <2>10 DEF OrderInv
<1>4. CASE Connect
  <2>1. UNCHANGED <<source, emitted, log, cursor, ingested>> /\ records' = <<>>
    BY <1>4 DEF Connect, tableVars
  <2>2. Waiting' = <<>>
    BY <2>1, KeepEmpty DEF Waiting, Messages
  <2>3. \A k \in 1 .. Len(Waiting') : FALSE
    BY <2>2
  <2> QED
    BY <1>1, <2>1, <2>3 DEF OrderInv
<1>5. CASE Ingest
  <2>1. UNCHANGED <<source, emitted, log, records>> /\ Waiting' = Waiting
    BY <1>5 DEF Ingest, taskVars, risVars, Waiting
  <2>2. cursor \in 1 .. Len(log)
    BY <1>1, <1>5, IngestEffect
  <2>3. ASSUME cursor' \in cursor + 1 .. Len(log), ingested' = ingested
        PROVE  OrderInv'
    <3>2. cursor > 1 => /\ cursor - 1 \in 1 .. Len(log) /\ cursor' - 1 \in 1 .. Len(log)
                        /\ cursor - 1 < cursor' - 1
      <4>1. Len(log) \in Nat
        BY <1>1
      <4>2. cursor \in Nat /\ 1 <= cursor /\ cursor <= Len(log)
        BY <2>2, <4>1
      <4>3. cursor' \in Int /\ cursor + 1 <= cursor' /\ cursor' <= Len(log)
        BY <2>3, <4>1, <4>2
      <4>4. cursor > 1 => cursor - 1 \in 1 .. Len(log)
        BY <4>1, <4>2
      <4>5. cursor' - 1 \in 1 .. Len(log) /\ cursor - 1 < cursor' - 1
        <5>1. PICK a, b, n \in Int : a = cursor /\ b = cursor' /\ n = Len(log)
          BY <4>1, <4>2, <4>3
        <5>2. 1 <= a /\ a + 1 <= b /\ b <= n
          BY <4>2, <4>3, <5>1
        <5>3. b - 1 \in 1 .. n /\ a - 1 < b - 1
          BY <5>2
        <5> QED
          BY <5>1, <5>3
      <4> QED
        BY <4>4, <4>5
    <3>1. log[cursor - 1] <= log[cursor' - 1] \/ cursor = 1
      <4>1. \A j, k \in 1 .. Len(log) : j < k => log[j] < log[k]
        BY <1>1 DEF OrderInv
      <4>2. CASE cursor > 1
        <5>1. log[cursor - 1] < log[cursor' - 1]
          BY <3>2, <4>1, <4>2
        <5>2. log[cursor - 1] \in Nat /\ log[cursor' - 1] \in Nat
          BY <1>1, <3>2, <4>2
        <5> QED
          BY <5>1, <5>2
      <4> QED
        BY <2>2, <4>2
    <3>3. cursor' > 1
      BY <2>2, <2>3
    <3>4. \A k \in 1 .. Len(ingested) : ingested[k] \in Nat
      BY <1>1
    <3>5. ingested # <<>> => \A k \in 1 .. Len(ingested) : ingested[k] <= log[cursor' - 1]
      BY <1>1, <3>1, <3>2, <3>4 DEF OrderInv
    <3> QED
      BY <1>1, <2>1, <2>3, <3>3, <3>5 DEF OrderInv
  <2>4. ASSUME /\ cursor' = cursor + 1
               /\ Len(ingested') = Len(ingested) + 1
               /\ ingested'[Len(ingested')] = log[cursor]
               /\ \A k \in 1 .. Len(ingested) : ingested'[k] = ingested[k]
        PROVE  OrderInv'
    <3>1. ASSUME NEW k \in 1 .. Len(ingested)
          PROVE  ingested[k] < log[cursor]
      <4>1. cursor - 1 \in 1 .. Len(log) /\ ingested[k] <= log[cursor - 1]
        BY <1>1, <2>2 DEF OrderInv
      <4>2. log[cursor - 1] < log[cursor]
        <5>1. \A i, j \in 1 .. Len(log) : i < j => log[i] < log[j]
          BY <1>1 DEF OrderInv
        <5>2. cursor - 1 < cursor
          BY <2>2
        <5> QED
          BY <2>2, <4>1, <5>1, <5>2
      <4>3. log[cursor - 1] \in Nat /\ log[cursor] \in Nat /\ ingested[k] \in Nat
        <5>1. cursor - 1 \in 1 .. Len(log) /\ cursor \in 1 .. Len(log)
          BY <2>2, <4>1
        <5> QED
          BY <1>1, <5>1
      <4> QED
        BY <4>1, <4>2, <4>3
    <3>2. ASSUME NEW k \in 1 .. Len(ingested')
          PROVE  \/ k \in 1 .. Len(ingested) /\ ingested'[k] = ingested[k]
                 \/ k = Len(ingested) + 1 /\ ingested'[k] = log[cursor]
      BY <1>1, <2>4
    <3>3. Ascending(ingested')
      <4>1. \A j, k \in 1 .. Len(ingested) : j < k => ingested[j] < ingested[k]
        BY <1>1 DEF OrderInv
      <4>2. Len(ingested) \in Nat
        BY <1>1
      <4> QED
        BY <2>4, <3>1, <3>2, <4>1, <4>2
    <3>4. cursor' > 1 /\ \A k \in 1 .. Len(ingested') : ingested'[k] <= log[cursor' - 1]
      <4>1. cursor' > 1 /\ cursor' - 1 = cursor /\ log[cursor] \in Nat
        BY <1>1, <2>2, <2>4
      <4>2. \A k \in 1 .. Len(ingested) : ingested[k] \in Nat
        BY <1>1
      <4> QED
        BY <3>1, <3>2, <4>1, <4>2
    <3> QED
      BY <1>1, <2>1, <3>3, <3>4 DEF OrderInv
  <2> QED
    BY <1>1, <1>5, <2>3, <2>4, IngestEffect
<1>6. CASE Quiet
  BY <1>1, <1>6, QuietEffect DEF OrderInv
<1>7. CASE UNCHANGED vars
  <2>1. UNCHANGED <<source, emitted, log, cursor, ingested>> /\ Waiting' = Waiting
    BY <1>7 DEF vars, taskVars, risVars, tableVars, Waiting
  <2> QED
    BY <1>1, <2>1 DEF OrderInv
<1> QED
  BY <1>2, <1>3, <1>4, <1>5, <1>6, <1>7, StepCases

LEMMA StepLossless ==
  ASSUME StreamInv, [Next]_vars
  PROVE  LosslessInv'
<1>1. /\ TypeOK /\ LosslessInv
      /\ Waiting \in Seq(Message) /\ Message \subseteq Nat
      /\ Len(log) \in Nat /\ Len(Waiting) \in Nat /\ Len(ingested) \in Nat
      /\ emitted \in Nat /\ cursor \in Nat
  BY WaitingType, RisStreamAssumption DEF StreamInv, TypeOK, Message
<1>2. CASE Emit
  <2>1. /\ UNCHANGED <<source, task, up, seamless, log, cursor, ingested>> /\ source = "ris"
    BY <1>2 DEF Emit, taskVars, tableVars
  <2>2. SUFFICES ASSUME seamless PROVE LosslessInv'
    BY <2>1 DEF LosslessInv
  <2>3. up /\ \A k \in 1 .. Len(records) : records[k] \notin Stopping
    BY <1>1, <2>1, <2>2 DEF LosslessInv
  <2>4. /\ emitted' = emitted + 1 /\ emitted' \in Message
        /\ records' = Append(records, emitted')
        /\ Len(Waiting') = Len(Waiting) + 1 /\ Waiting'[Len(Waiting')] = emitted'
        /\ \A k \in 1 .. Len(Waiting) : Waiting'[k] = Waiting[k]
    BY <1>1, <1>2, <2>3, EmitEffect
  <2>5. \A k \in 1 .. Len(records') : records'[k] \notin Stopping
    <3>1. records \in Seq(Record) /\ emitted' \notin Stopping
      BY <1>1, <2>4, NotMessages DEF TypeOK
    <3> QED
      BY <2>3, <2>4, <3>1
  <2>6. /\ Len(log) + Len(Waiting) = emitted
        /\ \A k \in 1 .. Len(Waiting) : Waiting[k] = Len(log) + k
    BY <1>1, <2>2 DEF LosslessInv
  <2>7. Len(log) + Len(Waiting') = emitted'
    BY <1>1, <2>4, <2>6
  <2>8. \A k \in 1 .. Len(Waiting') : Waiting'[k] = Len(log) + k
    <3> SUFFICES ASSUME NEW k \in 1 .. Len(Waiting')
                 PROVE  Waiting'[k] = Len(log) + k
      OBVIOUS
    <3>1. CASE k = Len(Waiting')
      BY <1>1, <2>4, <2>7, <3>1
    <3>2. CASE k # Len(Waiting')
      <4>1. k \in 1 .. Len(Waiting)
        BY <1>1, <2>4, <3>2
      <4> QED
        BY <2>4, <2>6, <4>1
    <3> QED
      BY <3>1, <3>2
  <2> QED
    BY <1>1, <2>1, <2>3, <2>5, <2>7, <2>8 DEF LosslessInv
<1>3. CASE Publish
  <2>1. UNCHANGED <<source, task, up, seamless, emitted, cursor, ingested>>
    BY <1>3 DEF Publish, tableVars
  <2>2. SUFFICES ASSUME seamless PROVE LosslessInv'
    BY <1>1, <2>1 DEF LosslessInv
  <2>3. PICK m \in Message : /\ NextRecord(m) /\ m \in Record
                             /\ Len(log') = Len(log) + 1 /\ log'[Len(log')] = m
                             /\ \A k \in 1 .. Len(log) : log'[k] = log[k]
    BY <1>1, <1>3, PublishEffect
  <2>4. /\ \A k \in 1 .. Len(records') : records'[k] = records[k + 1] /\ k + 1 \in 1 .. Len(records)
        /\ Len(Waiting) = Len(Waiting') + 1 /\ Waiting[1] = m
        /\ \A k \in 1 .. Len(Waiting') : Waiting[k + 1] = Waiting'[k]
    BY <1>1, <2>3, ReadEffect
  <2>5. /\ Len(log) + Len(Waiting) = emitted
        /\ \A k \in 1 .. Len(log) : log[k] = k
        /\ \A k \in 1 .. Len(Waiting) : Waiting[k] = Len(log) + k
    BY <1>1, <2>2 DEF LosslessInv
  <2>6. Len(Waiting') \in Nat
    BY <1>1, <2>4, WaitingType, StepType DEF StreamInv
  <2>7. m = Len(log) + 1
    <3>1. 1 \in 1 .. Len(Waiting)
      BY <1>1, <2>4, <2>6
    <3> QED
      BY <2>4, <2>5, <3>1
  <2>8. \A k \in 1 .. Len(log') : log'[k] = k
    <3> SUFFICES ASSUME NEW k \in 1 .. Len(log')
                 PROVE  log'[k] = k
      OBVIOUS
    <3>1. CASE k = Len(log')
      BY <2>3, <2>7, <3>1
    <3>2. CASE k # Len(log')
      <4>1. k \in 1 .. Len(log)
        BY <1>1, <2>3, <3>2
      <4> QED
        BY <2>3, <2>5, <4>1
    <3> QED
      BY <3>1, <3>2
  <2>9. /\ Len(log') + Len(Waiting') = emitted
        /\ \A k \in 1 .. Len(Waiting') : Waiting'[k] = Len(log') + k
    <3>1. Len(log') + Len(Waiting') = emitted
      BY <1>1, <2>3, <2>4, <2>5, <2>6
    <3>2. ASSUME NEW k \in 1 .. Len(Waiting')
          PROVE  Waiting'[k] = Len(log') + k
      <4>1. k + 1 \in 1 .. Len(Waiting) /\ Waiting'[k] = Waiting[k + 1]
        BY <2>4, <2>6
      <4>2. Waiting[k + 1] = Len(log) + (k + 1)
        BY <2>5, <4>1
      <4> QED
        BY <1>1, <2>3, <4>1, <4>2
    <3> QED
      BY <3>1, <3>2
  <2>10. source = "ris" => \A k \in 1 .. Len(records') : records'[k] \notin Stopping
    BY <1>1, <2>2, <2>4 DEF LosslessInv
  <2> QED
    BY <1>1, <2>1, <2>2, <2>8, <2>9, <2>10 DEF LosslessInv
<1>4. CASE Connect
  <2>1. task = "connecting" /\ seamless' = seamless /\ source' = source
    BY <1>4 DEF Connect
  <2>2. ~seamless /\ source # "file"
    BY <1>1, <2>1 DEF LosslessInv, TypeOK
  <2> QED
    BY <2>1, <2>2 DEF LosslessInv
<1>5. CASE Ingest
  <2>1. UNCHANGED <<source, task, up, emitted, log, records>> /\ Waiting' = Waiting
    BY <1>5 DEF Ingest, taskVars, risVars, Waiting
  <2>2. SUFFICES ASSUME seamless' PROVE LosslessInv'
    BY <1>1, <2>1 DEF LosslessInv
  <2>3. /\ cursor \in 1 .. Len(log) /\ cursor' = cursor + 1 /\ seamless
        /\ Len(ingested') = Len(ingested) + 1 /\ ingested'[Len(ingested')] = log[cursor]
        /\ \A k \in 1 .. Len(ingested) : ingested'[k] = ingested[k]
    BY <1>1, <1>5, <2>2, IngestEffect
  <2>4. /\ Len(ingested) = cursor - 1 /\ log[cursor] = cursor
        /\ \A k \in 1 .. Len(ingested) : ingested[k] = k
    BY <1>1, <2>3 DEF LosslessInv
  <2>5. Len(ingested') = cursor' - 1
    BY <1>1, <2>3, <2>4
  <2>6. \A k \in 1 .. Len(ingested') : ingested'[k] = k
    <3> SUFFICES ASSUME NEW k \in 1 .. Len(ingested')
                 PROVE  ingested'[k] = k
      OBVIOUS
    <3>1. CASE k = Len(ingested')
      BY <1>1, <2>3, <2>4, <3>1
    <3>2. CASE k # Len(ingested')
      <4>1. k \in 1 .. Len(ingested)
        BY <1>1, <2>3, <3>2
      <4> QED
        BY <2>3, <2>4, <4>1
    <3> QED
      BY <3>1, <3>2
  <2> QED
    BY <1>1, <2>1, <2>3, <2>5, <2>6 DEF LosslessInv
<1>6. CASE Quiet
  <2>1. Waiting' = Waiting /\ UNCHANGED <<source, emitted, log, cursor, ingested>>
    BY <1>1, <1>6, QuietEffect
  <2>2. source = "file" => task' \in {"reading", "ended"}
    <3>1. source = "file" => task \in {"reading", "ended"}
      BY <1>1 DEF LosslessInv
    <3> QED
      BY <1>6, <3>1 DEF Quiet, SendNoise, Break, Falter, Shutdown, Ignore, LeaveStream,
           StreamEnds, FileEnds, StopReading, PauseOver, Quit, ConnectFails, StopIngest,
           AfterFailure, taskVars, risVars, tableVars
  <2>3. ASSUME seamless', source = "ris"
        PROVE  /\ up' /\ task' \in {"reading", "quitting", "ended"}
               /\ \A k \in 1 .. Len(records') : records'[k] \notin Stopping
    <3>1. seamless
      BY <1>6, <2>3 DEF Quiet, SendNoise, Break, Falter, Shutdown, Ignore, LeaveStream,
           StreamEnds, FileEnds, StopReading, PauseOver, Quit, ConnectFails, StopIngest
    <3>2. /\ up /\ task \in {"reading", "quitting", "ended"}
          /\ \A k \in 1 .. Len(records) : records[k] \notin Stopping
      BY <1>1, <2>3, <3>1 DEF LosslessInv
    <3>3. CASE SendNoise
      <4>1. UNCHANGED <<up, task>>
        BY <3>3 DEF SendNoise, taskVars
      <4>2. ASSUME NEW k \in 1 .. Len(records')
            PROVE  records'[k] \notin Stopping
        <5>1. /\ Len(records') = Len(records) + 1 /\ records'[Len(records')] = Noise
              /\ \A j \in 1 .. Len(records) : records'[j] = records[j]
          BY <1>1, <3>3, NoiseEffect
        <5>2. k = Len(records') \/ k \in 1 .. Len(records)
          BY <1>1, <5>1 DEF TypeOK
        <5> QED
          BY <3>2, <5>1, <5>2, NotMessages
      <4> QED
        BY <3>2, <4>1, <4>2
    <3>4. CASE Ignore
      <4>1. PICK r \in Record : NextRecord(r)
        BY <3>4 DEF Ignore
      <4>2. \A k \in 1 .. Len(records') : records'[k] \notin Stopping
        BY <1>1, <3>2, <4>1, ReadEffect
      <4>3. UNCHANGED <<up, task>>
        BY <3>4 DEF Ignore, taskVars
      <4> QED
        BY <3>2, <4>2, <4>3
    <3>5. ~Break /\ ~Falter
      BY <2>3 DEF Break, Falter
    <3>6. ~LeaveStream
      <4>1. ASSUME LeaveStream PROVE FALSE
        <5>1. PICK r \in Stopping : NextRecord(r)
          BY <4>1 DEF LeaveStream
        <5>2. records[1] = r /\ 1 \in 1 .. Len(records)
          BY <1>1, <5>1, ReadEffect, NotMessages
        <5> QED
          BY <3>2, <5>2
      <4> QED
        BY <4>1
    <3>7. ~StreamEnds /\ ~PauseOver /\ ~ConnectFails /\ ~FileEnds
      BY <2>3, <3>2 DEF StreamEnds, Ended, PauseOver, ConnectFails, FileEnds
    <3>8. CASE Shutdown \/ StopReading \/ Quit \/ StopIngest
      <4>1. UNCHANGED <<up, records>> /\ task' \in {task, "quitting", "ended"}
        BY <3>8 DEF Shutdown, StopReading, Quit, StopIngest, Leave, taskVars, risVars
      <4> QED
        BY <3>2, <4>1
    <3> QED
      BY <1>6, <3>3, <3>4, <3>5, <3>6, <3>7, <3>8 DEF Quiet
  <2>4. seamless' => seamless
    BY <1>6 DEF Quiet, SendNoise, Break, Falter, Shutdown, Ignore, LeaveStream,
         StreamEnds, FileEnds, StopReading, PauseOver, Quit, ConnectFails, StopIngest
  <2> QED
    BY <1>1, <2>1, <2>2, <2>3, <2>4 DEF LosslessInv
<1>7. CASE UNCHANGED vars
  <2>1. UNCHANGED <<source, task, up, seamless, emitted, log, cursor, ingested, records>>
        /\ Waiting' = Waiting
    BY <1>7 DEF vars, taskVars, risVars, tableVars, Waiting
  <2> QED
    BY <1>1, <2>1 DEF LosslessInv
<1> QED
  BY <1>2, <1>3, <1>4, <1>5, <1>6, <1>7, StepCases

LEMMA StepDrain ==
  ASSUME StreamInv, [Next]_vars
  PROVE  DrainInv'
<1>1. /\ TypeOK /\ DrainInv
      /\ log \in Seq(Message) /\ ingested \in Seq(Message) /\ cursor \in 1 .. Len(log) + 1
      /\ Len(log) \in Nat
  BY DEF StreamInv, TypeOK
<1>2. CASE Emit
  BY <1>1, <1>2 DEF DrainInv, Emit, taskVars, tableVars
<1>3. CASE Publish
  <2>1. UNCHANGED <<source, task, shutdown, cursor, ingested, running>> /\ task = "reading"
    BY <1>3 DEF Publish, NextRecord, tableVars
  <2>2. Len(log') = Len(log) + 1
    BY <1>1, <1>3, PublishEffect
  <2>3. cursor # Len(log') + 1
    BY <1>1, <2>2
  <2> QED
    BY <1>1, <2>1, <2>3 DEF DrainInv
<1>4. CASE Connect
  BY <1>1, <1>4 DEF DrainInv, Connect, tableVars
<1>5. CASE Ingest
  <2>1. UNCHANGED <<source, task, shutdown, log, running>> /\ running
    BY <1>5 DEF Ingest, taskVars, risVars
  <2>2. cursor' = Len(log) + 1 => ingested' # <<>> /\ ingested'[Len(ingested')] = log[Len(log)]
    <3>1. CASE cursor' \in cursor + 1 .. Len(log)
      BY <1>1, <3>1
    <3>2. CASE /\ cursor' = cursor + 1 /\ ingested' \in Seq(Message)
               /\ Len(ingested') = Len(ingested) + 1 /\ ingested'[Len(ingested')] = log[cursor]
      <4>1. ingested' # <<>>
        BY <1>1, <3>2
      <4>2. cursor' = Len(log) + 1 => cursor = Len(log)
        BY <1>1, <3>2
      <4> QED
        BY <3>2, <4>1, <4>2
    <3> QED
      BY <1>1, <1>5, <3>1, <3>2, IngestEffect
  <2> QED
    BY <1>1, <2>1, <2>2 DEF DrainInv
<1>6. CASE Quiet
  <2>1. UNCHANGED <<source, log, cursor, ingested>>
    BY <1>1, <1>6, QuietEffect
  <2>2. task' \in {"quitting", "ended"} => shutdown' \/ source = "file"
    BY <1>1, <1>6 DEF DrainInv, Quiet, SendNoise, Break, Falter, Shutdown, Ignore, LeaveStream,
         StreamEnds, FileEnds, StopReading, PauseOver, Quit, ConnectFails, StopIngest,
         AfterFailure, Leave, taskVars, risVars, tableVars
  <2>3. ASSUME ~running' PROVE task' = "ended" /\ cursor = Len(log) + 1
    <3>1. CASE StopIngest
      BY <1>1, <3>1 DEF StopIngest, Closed, taskVars
    <3>2. CASE ~StopIngest
      <4>1. ~running
        BY <1>6, <2>3, <3>2 DEF Quiet, SendNoise, Break, Falter, Shutdown, Ignore, LeaveStream,
             StreamEnds, FileEnds, StopReading, PauseOver, Quit, ConnectFails, tableVars
      <4>2. task = "ended" /\ cursor = Len(log) + 1
        BY <1>1, <4>1 DEF DrainInv
      <4>3. task' = task
        BY <1>6, <3>2, <4>2 DEF Quiet, SendNoise, Break, Falter, Shutdown, Ignore, LeaveStream,
             NextRecord, StreamEnds, FileEnds, StopReading, PauseOver, Quit, ConnectFails,
             taskVars, risVars, tableVars
      <4> QED
        BY <4>2, <4>3
    <3> QED
      BY <3>1, <3>2
  <2> QED
    BY <1>1, <2>1, <2>2, <2>3 DEF DrainInv
<1>7. CASE UNCHANGED vars
  BY <1>1, <1>7 DEF DrainInv, vars, taskVars, risVars, tableVars
<1> QED
  BY <1>2, <1>3, <1>4, <1>5, <1>6, <1>7, StepCases

LEMMA InitInv ==
  ASSUME Init
  PROVE  StreamInv
<1>1. /\ log = <<>> /\ cursor = 1 /\ ingested = <<>> /\ running /\ up /\ seamless
      /\ task = "reading" /\ shutdown = FALSE /\ running = TRUE /\ up = TRUE /\ seamless = TRUE
      /\ Len(log) = 0 /\ Len(ingested) = 0
  BY DEF Init
<1>2. CASE FromRis
  <2>1. source = "ris" /\ records = <<>> /\ emitted = 0
    BY <1>2 DEF FromRis
  <2>2. TypeOK
    <3>1. <<>> \in Seq(Record) /\ <<>> \in Seq(Message) /\ 1 \in 1 .. 0 + 1
          /\ 0 \in 0 .. MaxMessages
      BY RisStreamAssumption
    <3> QED
      BY <1>1, <2>1, <3>1 DEF TypeOK
  <2>3. Waiting = <<>> /\ Len(Waiting) = 0
    BY <2>1, KeepEmpty DEF Waiting, Messages
  <2>4. OrderInv
    BY <1>1, <2>1, <2>3 DEF OrderInv, Ascending
  <2>5. LosslessInv
    BY <1>1, <2>1, <2>3 DEF LosslessInv
  <2>6. DrainInv
    BY <1>1 DEF DrainInv
  <2> QED
    BY <2>2, <2>4, <2>5, <2>6 DEF StreamInv
<1>3. CASE FromFile
  <2>1. source = "file" /\ records \in Files /\ emitted = Len(Waiting)
    BY <1>3 DEF FromFile, Waiting
  <2>2. records \in Seq(Record)
    <3>1. records \in Seq(Message \cup {Noise, ReadError})
      BY <2>1, RisStreamAssumption
    <3> QED
      BY <3>1 DEF Record
  <2>3. Waiting = [k \in 1 .. Len(Waiting) |-> k]
    BY <2>1, RisStreamAssumption DEF Waiting
  <2>4. Waiting \in Seq(Message)
    <3>1. Record \cap Message = Message
      BY DEF Record
    <3> QED
      BY <2>2, <3>1, KeepType DEF Waiting, Messages
  <2>5. \A k \in 1 .. Len(Waiting) : Waiting[k] = k
    BY <2>3
  <2>6. emitted \in 0 .. MaxMessages
    <3>1. Len(Waiting) \in Nat
      BY <2>4
    <3>2. Len(Waiting) > 0 => Waiting[Len(Waiting)] \in Message
      BY <2>4
    <3> QED
      BY <2>1, <2>5, <3>1, <3>2, RisStreamAssumption DEF Message
  <2>7. TypeOK
    <3>1. <<>> \in Seq(Message) /\ 1 \in 1 .. 0 + 1
      OBVIOUS
    <3> QED
      BY <1>1, <2>1, <2>2, <2>6, <3>1 DEF TypeOK
  <2>8. OrderInv
    BY <1>1, <2>1, <2>4, <2>5 DEF OrderInv, Ascending
  <2>9. LosslessInv
    BY <1>1, <2>1, <2>4, <2>5 DEF LosslessInv
  <2>10. DrainInv
    BY <1>1 DEF DrainInv
  <2> QED
    BY <2>7, <2>8, <2>9, <2>10 DEF StreamInv
<1> QED
  BY <1>2, <1>3 DEF Init

LEMMA Always ==
  Spec => []StreamInv
<1>1. Init => StreamInv
  BY InitInv
<1>2. StreamInv /\ [Next]_vars => StreamInv'
  BY StepType, StepOrder, StepLossless, StepDrain DEF StreamInv
<1> QED
  BY <1>1, <1>2, PTL DEF Spec

-----------------------------------------------------------------------------

\* Every variable of the stream and its reader keeps its type, and the reader is
\* never past the end of the channel.
THEOREM TypeCorrect == Spec => []TypeOK
<1>1. StreamInv => TypeOK
  BY DEF StreamInv
<1> QED
  BY <1>1, Always, PTL

\* Whatever breaks, is retried or lags, the route table ingests messages in the
\* order RIS emitted them and none twice (stream.rs, RouteTable::run).
THEOREM OrderKept == Spec => []InOrder
<1>1. StreamInv => InOrder
  <2> SUFFICES ASSUME StreamInv, NEW k \in 1 .. Len(ingested) - 1
               PROVE  ingested[k] < ingested[k + 1]
    BY DEF InOrder
  <2>1. k \in 1 .. Len(ingested) /\ k + 1 \in 1 .. Len(ingested) /\ k < k + 1
    BY DEF StreamInv, TypeOK
  <2> QED
    BY <2>1 DEF StreamInv, OrderInv, Ascending
<1> QED
  BY <1>1, Always, PTL

\* Until a stream breaks or the channel overtakes its reader, what is ingested, in
\* the channel and on its way is all that RIS emitted, in order.
THEOREM NothingIsLost == Spec => []NothingLost
<1>1. StreamInv => NothingLost
  <2> SUFFICES ASSUME StreamInv, seamless
               PROVE  ingested \o SubSeq(log, cursor, Len(log)) \o Waiting = [k \in 1 .. emitted |-> k]
    BY DEF NothingLost, Waiting
  <2>1. /\ Waiting \in Seq(Message) /\ log \in Seq(Message) /\ ingested \in Seq(Message)
        /\ cursor \in 1 .. Len(log) + 1
    BY WaitingType DEF StreamInv, TypeOK
  <2>2. /\ Len(log) + Len(Waiting) = emitted
        /\ \A k \in 1 .. Len(log) : log[k] = k
        /\ \A k \in 1 .. Len(Waiting) : Waiting[k] = Len(log) + k
        /\ Len(ingested) = cursor - 1
        /\ \A k \in 1 .. Len(ingested) : ingested[k] = k
    BY DEF StreamInv, LosslessInv
  <2> DEFINE channel == SubSeq(log, cursor, Len(log))
  <2>3. /\ channel \in Seq(Message)
        /\ Len(channel) = Len(log) - Len(ingested)
        /\ \A k \in 1 .. Len(channel) : channel[k] = Len(ingested) + k
    BY <2>1, <2>2
  <2> HIDE DEF channel
  <2>4. PICK i, c, w \in Seq(Message) : i = ingested /\ c = channel /\ w = Waiting
    BY <2>1, <2>3
  <2>5. /\ i \o c \in Seq(Message) /\ Len(i \o c) = Len(i) + Len(c)
        /\ \A k \in 1 .. Len(i) + Len(c) : (i \o c)[k] = IF k <= Len(i) THEN i[k] ELSE c[k - Len(i)]
    BY ConcatProperties
  <2>6. PICK both \in Seq(Message) : both = i \o c
    BY <2>5
  <2>7. /\ Len(both) = Len(log)
        /\ \A k \in 1 .. Len(log) : both[k] = k
    <3>1. /\ Len(i) \in Nat /\ Len(c) \in Nat /\ Len(i) + Len(c) = Len(log)
          /\ \A k \in 1 .. Len(i) : i[k] = k
          /\ \A k \in 1 .. Len(c) : c[k] = Len(i) + k
      <4>1. PICK x, y, z \in Nat : x = Len(i) /\ y = Len(c) /\ z = Len(log)
        BY <2>1, <2>4
      <4>2. x + y = z
        BY <2>3, <2>4, <4>1
      <4>3. \A k \in 1 .. Len(i) : i[k] = k
        BY <2>2, <2>4
      <4>4. \A k \in 1 .. Len(c) : c[k] = Len(i) + k
        BY <2>3, <2>4
      <4> QED
        BY <4>1, <4>2, <4>3, <4>4
    <3>2. ASSUME NEW k \in 1 .. Len(log)
          PROVE  both[k] = k
      <4>1. both[k] = IF k <= Len(i) THEN i[k] ELSE c[k - Len(i)]
        BY <2>5, <2>6, <3>1
      <4>2. CASE k <= Len(i)
        BY <3>1, <4>1, <4>2
      <4>3. CASE ~(k <= Len(i))
        <5>1. k - Len(i) \in 1 .. Len(c)
          BY <3>1, <4>3
        <5> QED
          BY <3>1, <4>1, <4>3, <5>1
      <4> QED
        BY <4>2, <4>3
    <3> QED
      BY <2>5, <2>6, <3>1, <3>2
  <2>8. /\ both \o w \in Seq(Message) /\ Len(both \o w) = Len(both) + Len(w)
        /\ \A k \in 1 .. Len(both) + Len(w) :
             (both \o w)[k] = IF k <= Len(both) THEN both[k] ELSE w[k - Len(both)]
    BY ConcatProperties
  <2>9. PICK all \in Seq(Message) : all = both \o w
    BY <2>8
  <2>10. Len(all) = emitted /\ \A k \in 1 .. emitted : all[k] = k
    <3>1. /\ Len(both) \in Nat /\ Len(w) \in Nat /\ Len(both) + Len(w) = emitted
          /\ \A k \in 1 .. Len(both) : both[k] = k
          /\ \A k \in 1 .. Len(w) : w[k] = Len(both) + k
      BY <2>2, <2>4, <2>7
    <3>2. ASSUME NEW k \in 1 .. emitted
          PROVE  all[k] = k
      <4>1. all[k] = IF k <= Len(both) THEN both[k] ELSE w[k - Len(both)]
        BY <2>8, <2>9, <3>1
      <4>2. CASE k <= Len(both)
        BY <3>1, <4>1, <4>2
      <4>3. CASE ~(k <= Len(both))
        <5>1. k - Len(both) \in 1 .. Len(w)
          BY <3>1, <4>3
        <5> QED
          BY <3>1, <4>1, <4>3, <5>1
      <4> QED
        BY <4>2, <4>3
    <3> QED
      BY <2>8, <2>9, <3>1, <3>2
  <2>11. all = [k \in 1 .. emitted |-> k]
    <3>1. all = [k \in 1 .. Len(all) |-> all[k]]
      BY LenProperties
    <3> QED
      BY <2>10, <3>1
  <2> QED
    BY <2>4, <2>6, <2>9, <2>11 DEF channel
<1> QED
  BY <1>1, Always, PTL

\* The ingest task stops only behind a stream that has ended for good, and has then
\* had the last message of the channel.
THEOREM StopsOnlyDrained == Spec => []StopsDrained
<1>1. StreamInv => StopsDrained
  BY DEF StreamInv, DrainInv, StopsDrained
<1> QED
  BY <1>1, Always, PTL

=============================================================================
