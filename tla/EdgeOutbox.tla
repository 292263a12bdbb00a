----------------------------- MODULE EdgeOutbox -----------------------------
(***************************************************************************)
(* The outbox of the edge Device Agent (device-agent main.py and           *)
(* adaptive_main.py): a SQLite queue between the acquisition threads and   *)
(* MQTT.                                                                   *)
(*                                                                         *)
(* A bus worker records a sample under the publish lock: the row and its   *)
(* node_sequence are committed together, then the queue is flushed.  The   *)
(* supervisor flushes once a second under the same lock.  A flush          *)
(* publishes the oldest rows one by one with QoS 1 and deletes a row only  *)
(* after its PUBACK.  A publication whose wait ended early stays in the    *)
(* MQTT client, which sends it again by itself whenever it is connected.   *)
(*                                                                         *)
(* Abstractions: an event stands for the record and its payload; the       *)
(* client's timed-out publications are a set (it keeps every copy and      *)
(* sends them in order; here copies of a row merge and are sent in any     *)
(* order); the retries inside one SQLite call are part of the call.        *)
(* Only organization-scoped telemetry is modelled (enqueue_with_sequence). *)
(***************************************************************************)
EXTENDS Naturals, FiniteSets

CONSTANTS
  Event,        \* the samples taken, one event id each
  NoEvent,
  BatchLimit,   \* oldest(limit)
  GraceCycles   \* SQLITE_BUSY_SUPERVISOR_GRACE_CYCLES

ASSUME ConstantsAssumption ==
  /\ NoEvent \notin Event
  /\ BatchLimit \in Nat \ {0}
  /\ GraceCycles \in Nat \ {0}

VARIABLES
  sampled,    \* events a bus worker has brought to the publish lock
  queue,      \* rows of outbound_queue
  lastId,     \* its AUTOINCREMENT counter
  sequence,   \* node_stream_sequences: last telemetry sequence
  holder,     \* who holds the publish lock
  step,       \* what the holder does next
  event,      \* the event the recorder holds
  batch,      \* rows read by oldest() and not yet deleted
  current,    \* the row the holder is publishing
  ack,        \* how far its publication has come
  busy,       \* consecutive busy cycles of the supervisor
  fatal,      \* a persistence error stopped the agent
  connected,  \* the client's connection to the broker
  stray,      \* timed-out publications the client still sends
  accepted    \* rows the broker has accepted

database == <<queue, lastId, sequence>>
lock     == <<holder, step, event, batch>>
pub      == <<current, ack>>
client   == <<connected, stray, accepted>>
vars     == <<sampled, database, lock, pub, busy, fatal, client>>

Row == [id : Nat \ {0}, event : Event, seq : Nat \ {0}]

NoRow == [id |-> 0, event |-> NoEvent, seq |-> 0]

Init ==
  /\ sampled = {}
  /\ queue = {} /\ lastId = 0 /\ sequence = 0
  /\ holder = "none" /\ step = "idle" /\ event = NoEvent /\ batch = {}
  /\ current = NoRow /\ ack = "none" /\ busy = 0 /\ fatal = FALSE
  /\ connected = FALSE /\ stray = {} /\ accepted = {}

-----------------------------------------------------------------------------
(* The queue                                                               *)

\* ORDER BY id LIMIT
Oldest(S) == {r \in S : Cardinality({q \in S : q.id < r.id}) < BatchLimit}

\* The row a flush publishes next.
IsFirst(r) == r \in batch /\ \A q \in batch : r.id <= q.id

Queued(e) == \E r \in queue : r.event = e

\* Mutant: the sequence is taken outside the transaction of the insert, so that a
\* reused row still consumes one.
AllocateFirst(e) ==
  /\ sequence' = sequence + 1
  /\ IF Queued(e)
     THEN UNCHANGED <<queue, lastId>>
     ELSE /\ lastId' = lastId + 1
          /\ queue' = queue \cup
               {[id |-> lastId + 1, event |-> e, seq |-> sequence + 1]}

\* enqueue_with_sequence: one transaction, idempotent by event id.
EnqueueWithSequence(e) ==
  IF Queued(e)
  THEN UNCHANGED database
  ELSE /\ sequence' = sequence + 1
       /\ lastId' = lastId + 1
       /\ queue' = queue \cup
            {[id |-> lastId + 1, event |-> e, seq |-> sequence + 1]}

-----------------------------------------------------------------------------
(* The publish lock                                                        *)

Release ==
  /\ holder' = "none" /\ step' = "idle" /\ event' = NoEvent /\ batch' = {}
  /\ current' = NoRow /\ ack' = "none"

\* publish_or_queue or flush_queue returned: _reset_busy_supervisor.
Finish == Release /\ busy' = 0

\* _record_scheduled_result takes the lock with a new record.
Sample(e) ==
  /\ holder = "none" /\ ~fatal
  /\ e \notin sampled
  /\ sampled' = sampled \cup {e}
  /\ holder' = "recorder" /\ step' = "enqueue" /\ event' = e
  /\ UNCHANGED <<database, batch, pub, busy, fatal, client>>

\* A pass of the run loop takes it to flush.
Supervise ==
  /\ holder = "none" /\ ~fatal
  /\ holder' = "supervisor" /\ step' = "fetch"
  /\ UNCHANGED <<sampled, database, event, batch, pub, busy, fatal, client>>

Enqueue ==
  /\ step = "enqueue"
  /\ EnqueueWithSequence(event)
  /\ step' = "fetch"
  /\ UNCHANGED <<sampled, holder, event, batch, pub, busy, fatal, client>>

\* flush_queue: nothing to do without a connection.
SkipFlush ==
  /\ step = "fetch" /\ ~connected
  /\ Finish
  /\ UNCHANGED <<sampled, database, fatal, client>>

Fetch ==
  /\ step = "fetch" /\ connected
  /\ batch' = Oldest(queue)
  /\ step' = "next"
  /\ UNCHANGED <<sampled, database, holder, event, pub, busy, fatal, client>>

PublishNext ==
  /\ step = "next"
  /\ \E r \in batch : IsFirst(r) /\ current' = r
  /\ ack' = "sent"
  /\ step' = "wait"
  /\ UNCHANGED <<sampled, database, holder, event, batch, busy, fatal, client>>

FlushDone ==
  /\ step = "next" /\ batch = {}
  /\ Finish
  /\ UNCHANGED <<sampled, database, fatal, client>>

\* Mutants: the flush goes on with the next row; the lock is not given back.
WaitFailsAndGoesOn ==
  /\ step = "wait" /\ ack # "acked"
  /\ stray' = stray \cup {current}
  /\ batch' = batch \ {current}
  /\ step' = "next" /\ current' = NoRow /\ ack' = "none"
  /\ UNCHANGED <<sampled, database, holder, event, busy, fatal, connected,
                 accepted>>

WaitFailsKeepingLock ==
  /\ step = "wait" /\ ack # "acked"
  /\ stray' = stray \cup {current}
  /\ step' = "idle" /\ event' = NoEvent /\ batch' = {}
  /\ current' = NoRow /\ ack' = "none" /\ busy' = 0
  /\ UNCHANGED <<sampled, database, holder, fatal, connected, accepted>>

\* wait_for_publish times out, or publish reports an error: the flush ends,
\* the row stays and so does the client's copy.
WaitFails ==
  /\ step = "wait" /\ ack # "acked"
  /\ stray' = stray \cup {current}
  /\ Finish
  /\ UNCHANGED <<sampled, database, fatal, connected, accepted>>

\* Mutant: the row is deleted once the client has taken the publication.
DeleteOnPublish ==
  /\ step = "wait"
  /\ queue' = {r \in queue : r.id # current.id}
  /\ batch' = batch \ {current}
  /\ step' = "next" /\ current' = NoRow /\ ack' = "none"
  /\ UNCHANGED <<sampled, lastId, sequence, holder, event, busy, fatal,
                 client>>

Delete ==
  /\ step = "wait" /\ ack = "acked"
  /\ queue' = {r \in queue : r.id # current.id}
  /\ batch' = batch \ {current}
  /\ step' = "next" /\ current' = NoRow /\ ack' = "none"
  /\ UNCHANGED <<sampled, lastId, sequence, holder, event, busy, fatal,
                 client>>

-----------------------------------------------------------------------------
(* SQLite errors of the holder                                             *)

AtSqlite ==
  \/ step = "enqueue"
  \/ step = "fetch" /\ (connected \/ holder = "supervisor")
  \/ step = "wait" /\ ack = "acked"

\* The call exhausts its retries on a lock: the recorder starts its record
\* again, the supervisor gives up this pass, until the grace is used up.
SqliteBusy ==
  /\ AtSqlite
  /\ busy + 1 < GraceCycles
  /\ busy' = busy + 1
  /\ IF holder = "recorder"
     THEN /\ step' = "enqueue" /\ batch' = {}
          /\ current' = NoRow /\ ack' = "none"
          /\ UNCHANGED <<holder, event>>
     ELSE Release
  /\ UNCHANGED <<sampled, database, fatal, client>>

\* The grace is used up, or the error is another one: the agent fails closed.
SqliteFatal ==
  /\ AtSqlite
  /\ \/ busy + 1 >= GraceCycles /\ busy' = busy + 1
     \/ UNCHANGED busy
  /\ fatal' = TRUE
  /\ Release
  /\ UNCHANGED <<sampled, database, client>>

-----------------------------------------------------------------------------
(* The MQTT client and the broker                                          *)

Connect ==
  /\ ~connected
  /\ connected' = TRUE
  /\ UNCHANGED <<sampled, database, lock, pub, busy, fatal, stray, accepted>>

\* A PUBACK under way is lost; the client will send the message again.
Disconnect ==
  /\ connected
  /\ connected' = FALSE
  /\ ack' = IF ack = "accepted" THEN "sent" ELSE ack
  /\ UNCHANGED <<sampled, database, lock, current, busy, fatal, stray, accepted>>

BrokerAccepts ==
  /\ connected /\ ack = "sent"
  /\ accepted' = accepted \cup {current}
  /\ ack' = "accepted"
  /\ UNCHANGED <<sampled, database, lock, current, busy, fatal, connected, stray>>

Puback ==
  /\ connected /\ ack = "accepted"
  /\ ack' = "acked"
  /\ UNCHANGED <<sampled, database, lock, current, busy, fatal, client>>

\* The client sends a timed-out publication again; its PUBACK, if it comes,
\* is nobody's concern any more.
ResendStray(r) ==
  /\ connected /\ r \in stray
  /\ accepted' = accepted \cup {r}
  /\ stray' \in {stray, stray \ {r}}
  /\ <<accepted', stray'>> # <<accepted, stray>>
  /\ UNCHANGED <<sampled, database, lock, pub, busy, fatal, connected>>

\* The agent stops or dies and starts again: only the database is left.
Restart ==
  /\ Release
  /\ busy' = 0 /\ fatal' = FALSE
  /\ connected' = FALSE /\ stray' = {}
  /\ <<lock, pub, busy, fatal, connected, stray>>'
       # <<lock, pub, busy, fatal, connected, stray>>
  /\ UNCHANGED <<sampled, database, accepted>>

Next ==
  \/ \E e \in Event : Sample(e)
  \/ Supervise \/ Enqueue \/ SkipFlush \/ Fetch \/ PublishNext \/ FlushDone
  \/ WaitFails \/ Delete
  \/ SqliteBusy \/ SqliteFatal
  \/ Connect \/ Disconnect \/ BrokerAccepts \/ Puback
  \/ \E r \in stray : ResendStray(r)
  \/ Restart

Spec == Init /\ [][Next]_vars

\* The run loop and the lock holder are scheduled, the supervisor gets the
\* lock again and again, a stopped agent is restarted, and neither SQLite nor
\* the network defeats every single attempt.
Fairness ==
  /\ SF_vars(Supervise)
  /\ SF_vars(Enqueue) /\ SF_vars(Fetch)
  /\ WF_vars(SkipFlush \/ PublishNext \/ FlushDone)
  /\ SF_vars(Delete)
  /\ SF_vars(BrokerAccepts) /\ SF_vars(Puback)
  /\ WF_vars(fatal /\ Restart)

FairSpec == Spec /\ Fairness

-----------------------------------------------------------------------------
(* Properties                                                              *)

TypeOK ==
  /\ sampled \subseteq Event
  /\ queue \subseteq Row /\ lastId \in Nat /\ sequence \in Nat
  /\ holder \in {"none", "recorder", "supervisor"}
  /\ step \in {"idle", "enqueue", "fetch", "next", "wait"}
  /\ event \in Event \cup {NoEvent}
  /\ batch \subseteq Row /\ current \in Row \cup {NoRow}
  /\ ack \in {"none", "sent", "accepted", "acked"}
  /\ busy \in 0..GraceCycles
  /\ fatal \in BOOLEAN /\ connected \in BOOLEAN
  /\ stray \subseteq Row /\ accepted \subseteq Row

\* Rows the agent or the broker knows.
Known == queue \cup stray \cup accepted

\* An event keeps one sequence and a sequence one event, through every retry
\* of a record whose flush failed: the node stream never shows one event twice
\* under different sequences.
OneSequencePerEvent ==
  \A r, q \in Known : r.event = q.event <=> r.seq = q.seq

\* Every allocated sequence is still queued or was accepted by the broker: a
\* row is deleted only when the broker has it, and no sequence is skipped.
NothingDropped ==
  \A s \in 1..sequence : \E r \in queue \cup accepted : r.seq = s

\* The broker accepts the first copies of a node's events in sequence order,
\* whatever is timed out, resent or restarted.  The ingress cursor of the
\* central service relies on it.
FirstCopiesInOrder ==
  \A r \in accepted : \A s \in 1..r.seq : \E q \in accepted : q.seq = s

\* The rows a flush holds are the oldest of the queue.
BatchIsOldest ==
  /\ batch \subseteq queue
  /\ \A r \in queue, q \in batch : r.id < q.id => r \in batch

EventsOf(S) == {r.event : r \in S}

\* Ids, sequences and events of the rows tell the same story.
RowsAgree ==
  /\ IsFiniteSet(queue)
  /\ \A r \in Known : r.id <= lastId /\ r.seq <= sequence
  /\ \A r, q \in Known : /\ r.id < q.id <=> r.seq < q.seq
                         /\ r.id = q.id \/ r.event = q.event => r = q

\* The holder of the lock publishes the first row of its batch; a fatal error
\* ends its work.
FlushAgrees ==
  /\ step = "idle" <=> holder = "none"
  /\ step \in {"idle", "enqueue", "fetch"} => batch = {}
  /\ step = "wait" => IsFirst(current)
  /\ step # "wait" => ack = "none"
  /\ ack \in {"accepted", "acked"} => current \in accepted
  /\ fatal => holder = "none"
  /\ ~fatal => busy < GraceCycles

\* A record that may have to be enqueued again is either unknown or the
\* newest row of the queue: this is what the publish lock is for.
RecorderAgrees ==
  /\ EventsOf(Known) \subseteq sampled
  /\ holder = "recorder" => event \in sampled
  /\ step = "enqueue" =>
       /\ holder = "recorder"
       /\ \A r \in Known : r.event = event => r \in queue /\ r.id = lastId
  /\ holder = "recorder" /\ step \in {"fetch", "next", "wait"} =>
       \/ \E r \in queue : r.event = event /\ r.id = lastId
       \/ step = "next" /\ batch = {}

\* Everything before a timed-out publication has been accepted.
StrayInOrder ==
  \A r \in stray : \A s \in 1..(r.seq - 1) : \E q \in accepted : q.seq = s

\* The inductive invariant behind the properties above.
OutboxInv ==
  /\ TypeOK /\ RowsAgree /\ BatchIsOldest /\ FlushAgrees /\ RecorderAgrees
  /\ NothingDropped /\ StrayInOrder /\ FirstCopiesInOrder

TC == INSTANCE TelemetryCustody
        WITH Payload <- Event,
             published <- EventsOf(queue \cup accepted),
             custody <- EventsOf(queue),
             settled <- EventsOf(accepted)

\* Towards the broker the outbox keeps the custody contract: a recorded event
\* stays in the queue until the broker has accepted it.
ImplementsCustody == TC!Spec

\* Once the connection stays up, every recorded event reaches the broker and
\* leaves the queue, through SQLite contention, timeouts and fail-closed stops.
EventuallyDrained ==
  <>[]connected => \A e \in Event : Queued(e) ~> ~Queued(e)
=============================================================================
