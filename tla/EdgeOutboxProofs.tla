-------------------------- MODULE EdgeOutboxProofs --------------------------
(***************************************************************************)
(* Theorems about the outbox of the Device Agent, for any set of events,   *)
(* batch limit and grace.                                                  *)
(***************************************************************************)
EXTENDS EdgeOutbox, FiniteSetTheorems, TLAPS

\* A step inserts a row, deletes the current one, or leaves the queue alone.
LEMMA DatabaseSteps ==
  ASSUME [Next]_vars
  PROVE  UNCHANGED database \/ Enqueue \/ Delete
BY DEF Next, Sample, Supervise, SkipFlush, Fetch, PublishNext, FlushDone,
   WaitFails, SqliteBusy, SqliteFatal, Connect, Disconnect, BrokerAccepts,
   Puback, ResendStray, Restart, vars

\* The broker accepts the current row or a stray one, and nothing else.
LEMMA AcceptedSteps ==
  ASSUME [Next]_vars
  PROVE  \/ UNCHANGED accepted
         \/ BrokerAccepts
         \/ \E r \in stray : accepted' = accepted \cup {r}
BY DEF Next, Sample, Supervise, Enqueue, SkipFlush, Fetch, PublishNext,
   FlushDone, WaitFails, Delete, SqliteBusy, SqliteFatal, Connect, Disconnect,
   Puback, ResendStray, Restart, vars, client

\* A stray publication was stray before or is the row of a failed wait.
LEMMA StraySteps ==
  ASSUME [Next]_vars
  PROVE  \/ stray' \subseteq stray
         \/ WaitFails
BY DEF Next, Sample, Supervise, Enqueue, SkipFlush, Fetch, PublishNext,
   FlushDone, Delete, SqliteBusy, SqliteFatal, Connect, Disconnect,
   BrokerAccepts, Puback, ResendStray, Restart, vars, client

LEMMA TypeInit == Init => TypeOK
<1>1. 0 \in 0..GraceCycles
  BY ConstantsAssumption
<1>2. Init => fatal \in BOOLEAN /\ connected \in BOOLEAN
  BY DEF Init
<1>3. Init => /\ sampled \subseteq Event
              /\ queue \subseteq Row /\ lastId \in Nat /\ sequence \in Nat
  BY DEF Init
<1>4. Init => current \in Row \cup {NoRow}
  BY DEF Init
<1>5. QED
  BY <1>1, <1>2, <1>3, <1>4 DEF Init, TypeOK

LEMMA TypeStep ==
  ASSUME TypeOK, FlushAgrees, RecorderAgrees, [Next]_vars
  PROVE  TypeOK'
<1> USE DEF TypeOK, database, lock, pub, client
<1>1. CASE UNCHANGED vars
  BY <1>1 DEF vars
<1>2. CASE \E e \in Event : Sample(e)
  BY <1>2 DEF Sample
<1>3. CASE Supervise \/ SkipFlush \/ FlushDone
  BY <1>3, ConstantsAssumption DEF Supervise, SkipFlush, FlushDone, Finish,
     Release
<1>4. CASE Enqueue
  <2>1. event \in Event
    BY <1>4 DEF Enqueue, RecorderAgrees
  <2>2. lastId + 1 \in Nat \ {0} /\ sequence + 1 \in Nat \ {0}
    OBVIOUS
  <2>3. [id |-> lastId + 1, event |-> event, seq |-> sequence + 1] \in Row
    BY <2>1, <2>2 DEF Row
  <2>4. QED
    BY <1>4, <2>2, <2>3 DEF Enqueue, EnqueueWithSequence
<1>5. CASE Fetch
  BY <1>5 DEF Fetch, Oldest
<1>6. CASE PublishNext
  BY <1>6 DEF PublishNext
<1>7. CASE WaitFails
  <2>1. current \in Row
    BY <1>7 DEF WaitFails, FlushAgrees, IsFirst
  <2>2. QED
    BY <1>7, <2>1, ConstantsAssumption DEF WaitFails, Finish, Release
<1>8. CASE Delete
  BY <1>8 DEF Delete
<1>9. CASE SqliteBusy \/ SqliteFatal
  <2>1. ~fatal
    BY <1>9 DEF SqliteBusy, SqliteFatal, AtSqlite, FlushAgrees
  <2>2. busy' \in 0..GraceCycles
    BY <1>9, <2>1, ConstantsAssumption DEF SqliteBusy, SqliteFatal, FlushAgrees
  <2>3. QED
    BY <1>9, <2>2 DEF SqliteBusy, SqliteFatal, Release
<1>10. CASE Connect \/ Disconnect \/ Puback
  BY <1>10 DEF Connect, Disconnect, Puback
<1>11. CASE BrokerAccepts
  <2>1. current \in Row
    BY <1>11 DEF BrokerAccepts, FlushAgrees, IsFirst
  <2>2. QED
    BY <1>11, <2>1 DEF BrokerAccepts
<1>12. CASE \E r \in stray : ResendStray(r)
  BY <1>12 DEF ResendStray
<1>13. CASE Restart
  <2>1. 0 \in 0..GraceCycles
    BY ConstantsAssumption
  <2>2. QED
    BY <1>13, <2>1 DEF Restart, Release
<1>14. QED
  BY <1>1, <1>2, <1>3, <1>4, <1>5, <1>6, <1>7, <1>8, <1>9, <1>10, <1>11,
     <1>12, <1>13 DEF Next

-----------------------------------------------------------------------------
(***************************************************************************)
(* Rows.                                                                   *)
(***************************************************************************)

\* What is known after a step was known before, except for an inserted row.
LEMMA KnownSteps ==
  ASSUME TypeOK, FlushAgrees, BatchIsOldest, [Next]_vars
  PROVE  \/ Known' \subseteq Known /\ lastId' = lastId /\ sequence' = sequence
         \/ /\ Enqueue /\ ~Queued(event)
            /\ Known' = Known \cup
                 {[id |-> lastId + 1, event |-> event, seq |-> sequence + 1]}
<1>1. step = "wait" => current \in queue
  BY DEF FlushAgrees, IsFirst, BatchIsOldest
<1>2. ack # "none" => current \in queue
  BY <1>1 DEF FlushAgrees
<1>3. CASE Enqueue
  BY <1>3 DEF Enqueue, EnqueueWithSequence, Known, client, database
<1>4. CASE ~Enqueue
  <2>1. queue' \subseteq queue /\ lastId' = lastId /\ sequence' = sequence
    BY <1>4, DatabaseSteps DEF database, Delete
  <2>2. stray' \subseteq stray \cup {current}
    BY StraySteps DEF WaitFails
  <2>3. stray' \subseteq Known
    BY <1>1, <2>2, StraySteps DEF Known, WaitFails
  <2>4. accepted' \subseteq Known
    BY <1>2, AcceptedSteps DEF Known, BrokerAccepts
  <2>5. QED
    BY <2>1, <2>3, <2>4 DEF Known
<1>5. QED
  BY <1>3, <1>4

LEMMA RowsStep ==
  ASSUME TypeOK, RowsAgree, BatchIsOldest, FlushAgrees, RecorderAgrees,
         [Next]_vars
  PROVE  RowsAgree'
<1>1. IsFiniteSet(queue)'
  <2>1. CASE UNCHANGED database
    BY <2>1 DEF database, RowsAgree
  <2>2. CASE Enqueue
    BY <2>2, FS_AddElement DEF Enqueue, EnqueueWithSequence, database, RowsAgree
  <2>3. CASE Delete
    <3>1. queue' \subseteq queue
      BY <2>3 DEF Delete
    <3>2. QED
      BY <3>1, FS_Subset DEF RowsAgree
  <2>4. QED
    BY <2>1, <2>2, <2>3, DatabaseSteps
<1>2. CASE Known' \subseteq Known /\ lastId' = lastId /\ sequence' = sequence
  BY <1>1, <1>2 DEF RowsAgree
<1>3. CASE Enqueue /\ ~Queued(event)
           /\ Known' = Known \cup
                {[id |-> lastId + 1, event |-> event, seq |-> sequence + 1]}
  <2> DEFINE n == [id |-> lastId + 1, event |-> event, seq |-> sequence + 1]
  <2>1. n.id = lastId + 1 /\ n.seq = sequence + 1 /\ n.event = event
    OBVIOUS
  <2>2. lastId' = lastId + 1 /\ sequence' = sequence + 1
    BY <1>3 DEF Enqueue, EnqueueWithSequence
  <2>3. \A r \in Known : r.event # event
    BY <1>3 DEF Enqueue, RecorderAgrees, Queued
  <2>4. \A r \in Known : /\ r.id <= lastId /\ r.seq <= sequence
                         /\ r.id \in Nat /\ r.seq \in Nat
    BY DEF RowsAgree, Known, TypeOK, Row
  <2>5. lastId \in Nat /\ sequence \in Nat
    BY DEF TypeOK
  <2> HIDE DEF n
  <2>6. Known' = Known \cup {n}
    BY <1>3 DEF n
  <2>7. \A r \in Known' : r.id <= lastId' /\ r.seq <= sequence'
    BY <2>1, <2>2, <2>4, <2>5, <2>6
  <2>8. \A r, q \in Known' : r.id < q.id <=> r.seq < q.seq
    BY <2>1, <2>4, <2>5, <2>6 DEF RowsAgree
  <2>9. \A r, q \in Known' : r.id = q.id \/ r.event = q.event => r = q
    BY <2>1, <2>3, <2>4, <2>5, <2>6 DEF RowsAgree
  <2>10. QED
    BY <1>1, <2>7, <2>8, <2>9 DEF RowsAgree
<1>4. QED
  BY <1>2, <1>3, KnownSteps
LEMMA BatchStep ==
  ASSUME TypeOK, RowsAgree, BatchIsOldest, FlushAgrees, [Next]_vars
  PROVE  BatchIsOldest'
<1>1. CASE Enqueue
  <2>1. batch' = {}
    BY <1>1 DEF Enqueue, FlushAgrees
  <2>2. QED
    BY <2>1 DEF BatchIsOldest
<1>2. CASE Delete
  <2>1. \A r \in queue' : r \in queue /\ r.id # current.id
    BY <1>2 DEF Delete
  <2>2. \A r \in batch' : r \in queue' /\ r \in batch
    <3>1. \A r \in batch' : r \in batch /\ r # current
      BY <1>2 DEF Delete
    <3>2. current \in Known /\ batch \subseteq Known /\ batch \subseteq queue
      BY <1>2 DEF Delete, FlushAgrees, IsFirst, BatchIsOldest, Known
    <3>3. \A r \in batch' : r.id # current.id
      BY <3>1, <3>2 DEF RowsAgree
    <3>4. QED
      BY <1>2, <3>1, <3>2, <3>3 DEF Delete
  <2>3. ASSUME NEW r \in queue', NEW q \in batch', r.id < q.id
        PROVE  r \in batch'
    <3>1. r \in batch
      BY <2>1, <2>2, <2>3 DEF BatchIsOldest
    <3>2. r # current
      BY <2>1
    <3>3. QED
      BY <1>2, <3>1, <3>2 DEF Delete
  <2>4. QED
    BY <2>2, <2>3 DEF BatchIsOldest
<1>3. CASE Fetch
  <2>1. batch' = Oldest(queue) /\ queue' = queue
    BY <1>3 DEF Fetch, database
  <2>2. ASSUME NEW r \in queue, NEW q \in Oldest(queue), r.id < q.id
        PROVE  r \in Oldest(queue)
    <3> DEFINE Before(x) == {y \in queue : y.id < x.id}
    <3>1. Before(r) \subseteq Before(q)
      <4>1. \A y \in queue : y.id \in Nat
        BY DEF TypeOK, Row
      <4>2. q \in queue
        BY DEF Oldest
      <4>3. QED
        BY <2>2, <4>1, <4>2
    <3>2. Before(q) \subseteq queue /\ IsFiniteSet(queue)
      BY DEF RowsAgree
    <3>3. IsFiniteSet(Before(q)) /\ IsFiniteSet(Before(r))
      BY <3>1, <3>2, FS_Subset
    <3>4. Cardinality(Before(r)) <= Cardinality(Before(q))
      BY <3>1, <3>3, FS_Subset
    <3>5. Cardinality(Before(q)) < BatchLimit
      BY DEF Oldest
    <3>6. Cardinality(Before(r)) \in Nat /\ Cardinality(Before(q)) \in Nat
      BY <3>3, FS_CardinalityType
    <3>7. Cardinality(Before(r)) < BatchLimit
      <4> HIDE DEF Before
      <4>1. QED
        BY <3>4, <3>5, <3>6, ConstantsAssumption
    <3>8. QED
      BY <3>7 DEF Oldest
  <2>3. Oldest(queue) \subseteq queue
    BY DEF Oldest
  <2>4. QED
    BY <2>1, <2>2, <2>3 DEF BatchIsOldest
<1>4. CASE UNCHANGED <<batch, queue>>
  BY <1>4 DEF BatchIsOldest
<1>5. CASE batch' = {}
  BY <1>5 DEF BatchIsOldest
<1>6. QED
  BY <1>1, <1>2, <1>3, <1>4, <1>5 DEF Next, Sample, Supervise, SkipFlush,
     PublishNext, FlushDone, WaitFails, SqliteBusy, SqliteFatal, Finish,
     Release, Connect, Disconnect, BrokerAccepts, Puback, ResendStray, Restart,
     vars, database, lock

LEMMA FlushStep ==
  ASSUME TypeOK, BatchIsOldest, FlushAgrees, [Next]_vars
  PROVE  FlushAgrees'
<1> USE DEF FlushAgrees
<1>1. CASE UNCHANGED <<lock, pub, fatal, busy>> /\ accepted \subseteq accepted'
  BY <1>1 DEF lock, pub, IsFirst
<1>2. CASE Release /\ busy' = 0
  BY <1>2, ConstantsAssumption DEF Release
<1>3. CASE SqliteFatal
  BY <1>3 DEF SqliteFatal, Release
<1>4. CASE SqliteBusy
  <2>1. ~fatal /\ ~fatal' /\ busy' < GraceCycles
    BY <1>4 DEF SqliteBusy, AtSqlite
  <2>2. CASE holder = "recorder"
    BY <1>4, <2>1, <2>2 DEF SqliteBusy
  <2>3. CASE holder # "recorder"
    BY <1>4, <2>1, <2>3 DEF SqliteBusy, Release
  <2>4. QED
    BY <2>2, <2>3
<1>5. CASE (\E e \in Event : Sample(e)) \/ Supervise
  BY <1>5 DEF Sample, Supervise, pub, client
<1>6. CASE Enqueue
  BY <1>6 DEF Enqueue, pub, client
<1>7. CASE Fetch
  BY <1>7 DEF Fetch, pub, client
<1>8. CASE PublishNext
  BY <1>8 DEF PublishNext, IsFirst, client
<1>9. CASE Delete
  BY <1>9 DEF Delete, client
<1>10. CASE Disconnect \/ BrokerAccepts \/ Puback
  BY <1>10 DEF Disconnect, BrokerAccepts, Puback, lock, client, IsFirst
<1>11. QED
  BY <1>1, <1>2, <1>3, <1>4, <1>5, <1>6, <1>7, <1>8, <1>9, <1>10 DEF Next,
     SkipFlush, FlushDone, WaitFails, Finish, Connect, ResendStray, Restart,
     vars, client

\* An insertion makes the event of the recorder the newest row; nothing else
\* touches that row before the recorder is done with it.
LEMMA RecorderStep ==
  ASSUME TypeOK, RowsAgree, BatchIsOldest, FlushAgrees, RecorderAgrees,
         [Next]_vars
  PROVE  RecorderAgrees'
<1>1. CASE \E e \in Event : Sample(e)
  <2>1. PICK e \in Event : Sample(e)
    BY <1>1
  <2>2. /\ Known' = Known /\ event' = e /\ sampled' = sampled \cup {e}
        /\ holder' = "recorder" /\ step' = "enqueue"
    BY <2>1 DEF Sample, Known, database, client
  <2>3. \A r \in Known : r.event # e
    BY <2>1 DEF Sample, RecorderAgrees, EventsOf
  <2>4. QED
    BY <2>2, <2>3 DEF RecorderAgrees, EventsOf
<1>2. CASE Enqueue
  <2>1. /\ holder = "recorder" /\ event \in sampled
        /\ \A r \in Known : r.event = event => r \in queue /\ r.id = lastId
    BY <1>2 DEF Enqueue, RecorderAgrees
  <2>2. /\ holder' = "recorder" /\ event' = event /\ step' = "fetch"
        /\ sampled' = sampled
    BY <1>2, <2>1 DEF Enqueue
  <2>3. CASE Queued(event)
    <3>1. Known' = Known /\ queue' = queue /\ lastId' = lastId
      BY <1>2, <2>3 DEF Enqueue, EnqueueWithSequence, Known, database, client
    <3>2. PICK r \in queue : r.event = event
      BY <2>3 DEF Queued
    <3>3. r.id = lastId
      BY <2>1, <3>2 DEF Known
    <3>4. EventsOf(Known)' \subseteq sampled
      BY <3>1 DEF RecorderAgrees, EventsOf
    <3>5. \E q \in queue' : q.event = event' /\ q.id = lastId'
      BY <2>2, <3>1, <3>2, <3>3
    <3>6. QED
      BY <2>1, <2>2, <3>4, <3>5 DEF RecorderAgrees
  <2>4. CASE ~Queued(event)
    <3> DEFINE n == [id |-> lastId + 1, event |-> event, seq |-> sequence + 1]
    <3>1. Known' = Known \cup {n} /\ n \in queue' /\ lastId' = lastId + 1
      <4>1. queue' = queue \cup {n} /\ lastId' = lastId + 1
        BY <1>2, <2>4 DEF Enqueue, EnqueueWithSequence
      <4>2. stray' = stray /\ accepted' = accepted
        BY <1>2 DEF Enqueue, client
      <4>3. QED
        BY <4>1, <4>2 DEF Known
    <3>2. n.event = event /\ n.id = lastId + 1
      OBVIOUS
    <3> HIDE DEF n
    <3>3. EventsOf(Known') \subseteq sampled
      BY <2>1, <3>1, <3>2 DEF RecorderAgrees, EventsOf
    <3>4. \E r \in queue' : r.event = event' /\ r.id = lastId'
      BY <2>2, <3>1, <3>2
    <3>5. EventsOf(Known)' = EventsOf(Known')
      BY DEF EventsOf, Known
    <3>6. QED
      BY <2>1, <2>2, <3>3, <3>4, <3>5 DEF RecorderAgrees
  <2>5. QED
    BY <2>3, <2>4
<1>3. ASSUME Known' \subseteq Known, ~(\E e \in Event : Sample(e)), ~Enqueue
      PROVE  EventsOf(Known)' \subseteq sampled' /\ sampled' = sampled
  <2>1. sampled' = sampled
    BY <1>3 DEF Next, Supervise, SkipFlush, Fetch, PublishNext, FlushDone,
       WaitFails, Delete, SqliteBusy, SqliteFatal, Connect, Disconnect,
       BrokerAccepts, Puback, ResendStray, Restart, vars
  <2>2. QED
    BY <1>3, <2>1 DEF RecorderAgrees, EventsOf, Known
<1>4. ASSUME ~(\E e \in Event : Sample(e)), ~Enqueue
      PROVE  Known' \subseteq Known /\ lastId' = lastId
  BY <1>4, KnownSteps
<1>5. CASE holder' # "recorder" /\ step' # "enqueue"
  <2>1. ~(\E e \in Event : Sample(e)) /\ ~Enqueue
    BY <1>5 DEF Sample, Enqueue, RecorderAgrees
  <2>2. QED
    BY <1>3, <1>4, <1>5, <2>1 DEF RecorderAgrees
<1>6. CASE UNCHANGED <<lock, queue>> /\ ~(\E e \in Event : Sample(e)) /\ ~Enqueue
  <2>1. /\ Known' \subseteq Known /\ lastId' = lastId /\ sampled' = sampled
        /\ EventsOf(Known)' \subseteq sampled'
    BY <1>3, <1>4, <1>6
  <2>2. /\ holder' = holder /\ step' = step /\ event' = event /\ batch' = batch
        /\ queue' = queue
    BY <1>6 DEF lock
  <2>3. QED
    BY <2>1, <2>2 DEF RecorderAgrees
<1>7. CASE (Fetch \/ PublishNext) /\ holder = "recorder"
  <2>1. /\ holder' = holder /\ event' = event /\ queue' = queue
        /\ ~(\E e \in Event : Sample(e)) /\ ~Enqueue
    BY <1>7 DEF Fetch, PublishNext, database, Sample, Enqueue
  <2>2. /\ Known' \subseteq Known /\ lastId' = lastId /\ sampled' = sampled
        /\ EventsOf(Known)' \subseteq sampled'
    BY <1>3, <1>4, <2>1
  <2>3. step' \in {"next", "wait"} /\ \E r \in queue : r.event = event /\ r.id = lastId
    BY <1>7 DEF Fetch, PublishNext, RecorderAgrees
  <2>4. QED
    BY <1>7, <2>1, <2>2, <2>3 DEF RecorderAgrees
<1>8. CASE Delete /\ holder = "recorder"
  <2>1. /\ holder' = holder /\ event' = event /\ step' = "next"
        /\ ~(\E e \in Event : Sample(e)) /\ ~Enqueue
    BY <1>8 DEF Delete, Sample, Enqueue
  <2>2. /\ Known' \subseteq Known /\ lastId' = lastId /\ sampled' = sampled
        /\ EventsOf(Known)' \subseteq sampled'
    BY <1>3, <1>4, <2>1
  <2>3. PICK r \in queue : r.event = event /\ r.id = lastId
    BY <1>8 DEF Delete, RecorderAgrees
  <2>4. CASE r.id # current.id
    <3>1. r \in queue'
      BY <1>8, <2>4 DEF Delete
    <3>2. QED
      BY <1>8, <2>1, <2>2, <2>3, <3>1 DEF RecorderAgrees
  <2>5. CASE r.id = current.id
    <3>1. \A q \in batch : current.id <= q.id /\ q \in Known /\ q.id <= lastId
                           /\ q.id \in Nat /\ current \in Known
      BY <1>8 DEF Delete, FlushAgrees, IsFirst, BatchIsOldest, Known, RowsAgree,
         TypeOK, Row
    <3>2. \A q \in batch : q.id = current.id
      BY <2>3, <2>5, <3>1 DEF TypeOK
    <3>3. \A q \in batch : q = current
      BY <3>1, <3>2 DEF RowsAgree
    <3>4. batch' = {}
      BY <1>8, <3>3 DEF Delete
    <3>5. QED
      BY <1>8, <2>1, <2>2, <3>4 DEF RecorderAgrees
  <2>6. QED
    BY <2>4, <2>5
<1>9. CASE SqliteBusy /\ holder = "recorder"
  <2>1. /\ step' = "enqueue" /\ holder' = holder /\ event' = event
        /\ ~(\E e \in Event : Sample(e))
    BY <1>9 DEF SqliteBusy, Sample
  <2>2. Known' = Known /\ queue' = queue /\ lastId' = lastId /\ sampled' = sampled
    BY <1>9 DEF SqliteBusy, Known, database, client
  <2>3. \A r \in Known : r.event = event => r \in queue /\ r.id = lastId
    <3>1. CASE step = "enqueue"
      BY <1>9, <3>1 DEF RecorderAgrees
    <3>2. CASE step \in {"fetch", "wait"}
      <4>1. PICK q \in queue : q.event = event /\ q.id = lastId
        BY <1>9, <3>2 DEF RecorderAgrees
      <4>2. \A r \in Known : r.event = event => r = q
        BY <4>1 DEF RowsAgree, Known
      <4>3. QED
        BY <4>1, <4>2
    <3>3. QED
      BY <1>9, <3>1, <3>2 DEF SqliteBusy, AtSqlite
  <2>4. QED
    BY <1>9, <2>1, <2>2, <2>3 DEF RecorderAgrees
<1>10. CASE (Fetch \/ PublishNext \/ Delete \/ SqliteBusy) /\ holder # "recorder"
  <2>1. holder' # "recorder" /\ step' # "enqueue"
    BY <1>10 DEF Fetch, PublishNext, Delete, SqliteBusy, Release
  <2>2. QED
    BY <1>5, <2>1
<1>11. QED
  BY <1>1, <1>2, <1>5, <1>6, <1>7, <1>8, <1>9, <1>10 DEF Next, Supervise,
     SkipFlush, FlushDone, WaitFails, SqliteFatal, Finish, Release, Connect,
     Disconnect, BrokerAccepts, Puback, ResendStray, Restart, vars, database
-----------------------------------------------------------------------------
(***************************************************************************)
(* Sequences.                                                              *)
(***************************************************************************)

\* An accepted sequence stays accepted.
LEMMA AcceptedGrows ==
  ASSUME [Next]_vars
  PROVE  accepted \subseteq accepted'
BY AcceptedSteps DEF BrokerAccepts

LEMMA DroppedStep ==
  ASSUME TypeOK, FlushAgrees, BatchIsOldest, RowsAgree, NothingDropped,
         [Next]_vars
  PROVE  NothingDropped'
<1>1. CASE UNCHANGED database
  BY <1>1, AcceptedGrows DEF database, NothingDropped
<1>2. CASE Enqueue
  <2>1. CASE Queued(event)
    BY <1>2, <2>1, AcceptedGrows DEF Enqueue, EnqueueWithSequence, database,
       NothingDropped
  <2>2. CASE ~Queued(event)
    <3> DEFINE n == [id |-> lastId + 1, event |-> event, seq |-> sequence + 1]
    <3>1. n \in queue' /\ queue \subseteq queue' /\ sequence' = sequence + 1
      BY <1>2, <2>2 DEF Enqueue, EnqueueWithSequence
    <3>2. n.seq = sequence + 1
      OBVIOUS
    <3> HIDE DEF n
    <3>3. \A s \in 1..(sequence + 1) : s \in 1..sequence \/ s = sequence + 1
      BY DEF TypeOK
    <3>4. QED
      BY <3>1, <3>2, <3>3, AcceptedGrows DEF NothingDropped
  <2>3. QED
    BY <2>1, <2>2
<1>3. CASE Delete
  <2>1. /\ queue' = {r \in queue : r.id # current.id} /\ sequence' = sequence
        /\ current \in accepted /\ current \in queue
    BY <1>3 DEF Delete, FlushAgrees, IsFirst, BatchIsOldest
  <2>2. \A r \in queue : r.id = current.id => r = current
    BY <2>1 DEF RowsAgree, Known
  <2>3. \A r \in queue : r \in queue' \/ r \in accepted
    BY <2>1, <2>2
  <2>4. QED
    BY <2>1, <2>3, AcceptedGrows DEF NothingDropped
<1>4. QED
  BY <1>1, <1>2, <1>3, DatabaseSteps

\* Everything before the row of a flush has left the queue and is therefore
\* accepted.
LEMMA BeforeCurrent ==
  ASSUME TypeOK, RowsAgree, BatchIsOldest, FlushAgrees, NothingDropped,
         step = "wait"
  PROVE  /\ current \in queue /\ current.seq \in Nat
         /\ \A s \in 1..(current.seq - 1) : \E q \in accepted : q.seq = s
<1>1. current \in queue /\ current \in batch /\ \A q \in batch : current.id <= q.id
  BY DEF FlushAgrees, IsFirst, BatchIsOldest
<1>2. current \in Row /\ current.seq \in Nat /\ current.seq <= sequence
  BY <1>1 DEF TypeOK, Row, RowsAgree, Known
<1>3. ASSUME NEW s \in 1..(current.seq - 1)
      PROVE  \E q \in accepted : q.seq = s
  <2>1. s \in 1..sequence /\ s < current.seq
    BY <1>2 DEF TypeOK
  <2>2. PICK r \in queue \cup accepted : r.seq = s
    BY <2>1 DEF NothingDropped
  <2>3. CASE r \in queue
    <3>1. r.id < current.id
      BY <1>1, <2>1, <2>2, <2>3 DEF RowsAgree, Known
    <3>2. r \in batch
      BY <1>1, <2>3, <3>1 DEF BatchIsOldest
    <3>3. r.id \in Nat /\ current.id \in Nat
      BY <1>1, <2>3 DEF TypeOK, Row
    <3>4. QED
      BY <1>1, <3>1, <3>2, <3>3
  <2>4. CASE r \in accepted
    BY <2>2, <2>4
  <2>5. QED
    BY <2>3, <2>4
<1>4. QED
  BY <1>1, <1>2, <1>3

LEMMA StrayStep ==
  ASSUME TypeOK, RowsAgree, BatchIsOldest, FlushAgrees, NothingDropped,
         StrayInOrder, [Next]_vars
  PROVE  StrayInOrder'
<1>1. CASE stray' \subseteq stray
  BY <1>1, AcceptedGrows DEF StrayInOrder
<1>2. CASE WaitFails
  <2>1. stray' = stray \cup {current} /\ step = "wait"
    BY <1>2 DEF WaitFails
  <2>2. QED
    BY <2>1, BeforeCurrent, AcceptedGrows DEF StrayInOrder
<1>3. QED
  BY <1>1, <1>2, StraySteps

LEMMA OrderStep ==
  ASSUME TypeOK, RowsAgree, BatchIsOldest, FlushAgrees, NothingDropped,
         StrayInOrder, FirstCopiesInOrder, [Next]_vars
  PROVE  FirstCopiesInOrder'
<1>1. CASE UNCHANGED accepted
  BY <1>1 DEF FirstCopiesInOrder
<1>2. ASSUME NEW r \in Row, accepted' = accepted \cup {r},
             \A s \in 1..(r.seq - 1) : \E q \in accepted : q.seq = s
      PROVE  FirstCopiesInOrder'
  <2>1. r.seq \in Nat
    BY DEF Row
  <2>2. \A s \in 1..r.seq : s \in 1..(r.seq - 1) \/ s = r.seq
    BY <2>1
  <2>3. \A s \in 1..r.seq : \E q \in accepted' : q.seq = s
    BY <1>2, <2>2
  <2>4. QED
    BY <1>2, <2>3 DEF FirstCopiesInOrder
<1>3. CASE BrokerAccepts
  <2>1. step = "wait" /\ accepted' = accepted \cup {current}
    BY <1>3 DEF BrokerAccepts, FlushAgrees
  <2>2. current \in Row
    BY <2>1, BeforeCurrent DEF TypeOK
  <2>3. QED
    BY <1>2, <2>1, <2>2, BeforeCurrent
<1>4. CASE \E r \in stray : accepted' = accepted \cup {r}
  BY <1>2, <1>4 DEF StrayInOrder, TypeOK
<1>5. QED
  BY <1>1, <1>3, <1>4, AcceptedSteps

-----------------------------------------------------------------------------
(***************************************************************************)
(* The theorems.                                                           *)
(***************************************************************************)

LEMMA OutboxInvInit == Init => OutboxInv
<1> SUFFICES ASSUME Init PROVE OutboxInv
  OBVIOUS
<1>1. TypeOK
  BY TypeInit
<1>2. RowsAgree
  BY FS_EmptySet DEF Init, RowsAgree, Known
<1>3. BatchIsOldest /\ StrayInOrder /\ FirstCopiesInOrder /\ NothingDropped
  BY DEF Init, BatchIsOldest, StrayInOrder, FirstCopiesInOrder, NothingDropped
<1>4. FlushAgrees
  BY ConstantsAssumption DEF Init, FlushAgrees
<1>5. RecorderAgrees
  BY DEF Init, RecorderAgrees, EventsOf, Known
<1>6. QED
  BY <1>1, <1>2, <1>3, <1>4, <1>5 DEF OutboxInv

LEMMA OutboxInvStep == OutboxInv /\ [Next]_vars => OutboxInv'
  BY TypeStep, RowsStep, BatchStep, FlushStep, RecorderStep, DroppedStep,
     StrayStep, OrderStep DEF OutboxInv

\* Queue, lock holder, client and broker agree at every point: the outbox
\* invariant is inductive.
THEOREM OutboxInvariant == Spec => []OutboxInv
<1>1. QED
  BY OutboxInvInit, OutboxInvStep, PTL DEF Spec

\* No event is ever published under two sequences.
THEOREM OneSequence == Spec => []OneSequencePerEvent
<1>1. OutboxInv => OneSequencePerEvent
  <2> SUFFICES ASSUME OutboxInv, NEW r \in Known, NEW q \in Known
               PROVE  r.event = q.event <=> r.seq = q.seq
    BY DEF OneSequencePerEvent
  <2>1. r.id \in Nat /\ q.id \in Nat /\ r.seq \in Nat /\ q.seq \in Nat
    BY DEF OutboxInv, TypeOK, Known, Row
  <2>2. QED
    BY <2>1 DEF OutboxInv, RowsAgree
<1>2. QED
  BY <1>1, OutboxInvariant, PTL

\* No recorded event is dropped before the broker has it.
THEOREM NoDrop == Spec => []NothingDropped
<1>1. OutboxInv => NothingDropped
  BY DEF OutboxInv
<1>2. QED
  BY <1>1, OutboxInvariant, PTL

\* First copies reach the broker in sequence order.
THEOREM InOrder == Spec => []FirstCopiesInOrder
<1>1. OutboxInv => FirstCopiesInOrder
  BY DEF OutboxInv
<1>2. QED
  BY <1>1, OutboxInvariant, PTL

\* The outbox keeps the custody contract towards the broker: an insertion is
\* accepted into custody, the broker's acceptance settles it, and only a
\* settled event leaves the queue.
LEMMA CustodyStep ==
  ASSUME OutboxInv, [Next]_vars
  PROVE  [TC!Next]_(TC!vars)
<1> USE DEF OutboxInv
<1>0. /\ EventsOf(queue) \subseteq Event /\ EventsOf(accepted) \subseteq Event
      /\ EventsOf(queue)' = EventsOf(queue')
      /\ EventsOf(accepted)' = EventsOf(accepted')
      /\ EventsOf(queue \cup accepted)' = EventsOf(queue') \cup EventsOf(accepted')
      /\ EventsOf(queue \cup accepted) = EventsOf(queue) \cup EventsOf(accepted)
  BY DEF EventsOf, TypeOK, Row
<1>1. ASSUME Enqueue, ~Queued(event)
      PROVE  TC!Next
  <2> DEFINE n == [id |-> lastId + 1, event |-> event, seq |-> sequence + 1]
  <2>1. queue' = queue \cup {n} /\ accepted' = accepted
    BY <1>1 DEF Enqueue, EnqueueWithSequence, client
  <2>2. n.event = event
    OBVIOUS
  <2> HIDE DEF n
  <2>3. EventsOf(queue') = EventsOf(queue) \cup {event}
    BY <2>1, <2>2 DEF EventsOf
  <2>4. event \in Event
    BY <1>1 DEF Enqueue, RecorderAgrees, TypeOK
  <2>5. TC!Accept(event)
    BY <1>0, <2>1, <2>3 DEF TC!Accept
  <2>6. QED
    BY <2>4, <2>5 DEF TC!Next
<1>2. CASE UNCHANGED <<queue, accepted>>
  BY <1>2 DEF TC!vars, EventsOf
<1>3. ASSUME NEW r \in queue \cup accepted \cup stray, accepted' = accepted \cup {r},
             queue' = queue
      PROVE  TC!Next
  <2>1. EventsOf(accepted') = EventsOf(accepted) \cup {r.event}
    BY <1>3 DEF EventsOf
  <2>2. r.event \in EventsOf(queue) \cup EventsOf(accepted)
    <3>1. r.seq \in 1..sequence /\ r \in Known
      BY DEF Known, RowsAgree, TypeOK, Row
    <3>2. PICK q \in queue \cup accepted : q.seq = r.seq
      BY <3>1 DEF NothingDropped
    <3>3. q.event = r.event
      <4>1. q.id \in Nat /\ r.id \in Nat /\ q.seq \in Nat
        BY <3>1, <3>2 DEF TypeOK, Known, Row
      <4>2. q = r
        BY <3>1, <3>2, <4>1 DEF RowsAgree, Known
      <4>3. QED
        BY <4>2
    <3>4. QED
      BY <3>2, <3>3 DEF EventsOf
  <2>3. r.event \in Event
    BY <1>0, <2>2
  <2>4. TC!Progress({r.event}, {})
    BY <1>0, <1>3, <2>1, <2>2 DEF TC!Progress
  <2>5. QED
    BY <2>3, <2>4 DEF TC!Next
<1>4. ASSUME Delete
      PROVE  TC!Next
  <2>1. /\ queue' \subseteq queue /\ accepted' = accepted
        /\ current \in accepted /\ current \in queue
        /\ \A r \in queue : r \in queue' \/ r.id = current.id
    BY <1>4 DEF Delete, client, FlushAgrees, IsFirst, BatchIsOldest
  <2>2. \A r \in queue : r \in queue' \/ r = current
    BY <2>1 DEF RowsAgree, Known
  <2>3. EventsOf(queue) \ EventsOf(queue') \subseteq EventsOf(accepted)
    BY <2>1, <2>2 DEF EventsOf
  <2>4. EventsOf(queue') \subseteq EventsOf(queue)
    BY <2>1 DEF EventsOf
  <2>5. TC!Progress({}, EventsOf(queue) \ EventsOf(queue'))
    BY <1>0, <2>1, <2>3, <2>4 DEF TC!Progress
  <2>6. QED
    BY <1>0, <2>5 DEF TC!Next
<1>5. CASE UNCHANGED database
  <2>1. CASE BrokerAccepts
    BY <1>3, <1>5, <2>1, BeforeCurrent DEF BrokerAccepts, FlushAgrees, database
  <2>2. CASE ~BrokerAccepts
    BY <1>2, <1>3, <1>5, <2>2, AcceptedSteps DEF database
  <2>3. QED
    BY <2>1, <2>2
<1>6. CASE Enqueue
  BY <1>1, <1>2, <1>6 DEF Enqueue, EnqueueWithSequence, database, client
<1>7. QED
  BY <1>4, <1>5, <1>6, DatabaseSteps

THEOREM Custodian == Spec => ImplementsCustody
<1>1. Init => TC!Init
  BY DEF Init, TC!Init, EventsOf
<1>2. OutboxInv /\ [Next]_vars => [TC!Next]_(TC!vars)
  BY CustodyStep
<1>3. QED
  BY <1>1, <1>2, OutboxInvariant, PTL DEF Spec, ImplementsCustody, TC!Spec
=============================================================================
