-------------------------- MODULE DurableIngestion --------------------------
(***************************************************************************)
(* The durable central ingestion path of the telemetry service:            *)
(*                                                                         *)
(*   broker session --> MQTT callback --> SQLite spool --> worker -->      *)
(*   ingress cursor, samples, dead letters, live feed, alert processing    *)
(*                                                                         *)
(* The MQTT callback (mqtt_consumer.py) and the persistence worker         *)
(* (ingestion.py) are two threads that share the spool (durable_spool.py). *)
(* Every transaction of the spool or of PostgreSQL is one step; the process *)
(* may die between any two of them.                                        *)
(*                                                                         *)
(* Abstractions: a payload is a model value with the event, the node and   *)
(* the node_sequence its JSON decodes to; the spool's byte limit is its    *)
(* record limit; MQTT message ids do not wrap; metrics and delays are left *)
(* out; publications are QoS 1.                                            *)
(***************************************************************************)
EXTENDS Naturals, Sequences, FiniteSets, SequencesExt

CONSTANTS
  Payload,      \* the byte strings publishers send
  Event,        \* event ids
  Node,         \* registered nodes
  EventOf,      \* the event id a payload carries, NoEvent when it has none
  NodeOf,       \* the node whose topic the payload arrives on
  SequenceOf,        \* its node_sequence
  Retirable,    \* payloads a later release of the event contract refuses
  Administered, \* nodes an administrator suspends and reactivates
  NoEvent,
  Enforced,     \* settings.mqtt_node_registry_enforced
  MaxRecords,   \* the spool's record capacity
  MaxPublish    \* bound: publications the broker accepts

ASSUME ConstantsAssumption ==
  /\ NoEvent \notin Event
  /\ EventOf \in [Payload -> Event \cup {NoEvent}]
  /\ NodeOf \in [Payload -> Node]
  /\ SequenceOf \in [Payload -> Nat]
  /\ Retirable \subseteq Payload /\ Administered \subseteq Node
  /\ Enforced \in BOOLEAN
  /\ MaxRecords \in Nat \ {0}
  /\ MaxPublish \in Nat

\* The edge numbers the events of a node from 1 and gives no number to two of
\* them (enqueue_with_sequence; OneSequencePerEvent of EdgeOutbox).
ASSUME SequenceAssumption ==
  \A p, q \in Payload : EventOf[p] # NoEvent /\ EventOf[q] # NoEvent =>
    /\ SequenceOf[p] >= 1
    /\ NodeOf[p] = NodeOf[q] /\ SequenceOf[p] = SequenceOf[q] => EventOf[p] = EventOf[q]

VARIABLES
  published,    \* history: payloads the broker has accepted at least once
  session,      \* broker: unacknowledged messages of the persistent session
  nextMid,      \* broker: next message id
  delivered,    \* broker: ids handed over on the present connection
  rx,           \* the MQTT callback: phase and message in hand
  spool,        \* rows of ingestion_spool in the order of their ids
  wk,           \* the persistence worker: step, row in hand, refusal reason
  retired,      \* payloads the running release refuses to decode
  active,       \* nodes that are ACTIVE with an unrevoked credential
  cursor,       \* ingress cursor of each node
  stored,       \* payloads inserted into telemetry_samples
  deadLetters,  \* dead_letter_events, as [payload, why]
  live,         \* events handed to the live feed, with how often
  processed     \* events whose alert processing completed

broker == <<session, nextMid, delivered, published>>
db     == <<cursor, stored, deadLetters, live, processed>>
vars   == <<broker, rx, spool, wk, retired, active, db>>

Message == [mid : Nat, payload : Payload]
Record  == [status : {"pending", "terminal"},
            type : {"telemetry", "dead_letter"}, mid : Nat, payload : Payload]
Reason  == {"schema", "authorization", "replay"}

Idle    == [phase |-> "idle"]
Polling == [step |-> "poll"]

RxStates == {Idle} \cup [phase : {"staging", "staged"}, msg : Message]
WkSteps  == {"authorize", "persist", "publish", "after", "dead_letter",
             "reject", "delete", "quarantine"}
WkStates == {Polling} \cup [step : WkSteps, row : Nat \ {0}, why : Reason]

NoCursor == [seq |-> 0, event |-> NoEvent]

-----------------------------------------------------------------------------
(* Decoding and the spool                                                  *)

\* _decode_submission and _work_from_spool: the payload is a valid event
\* under the contract of the running release.
Decodes(p) == EventOf[p] # NoEvent /\ p \notin retired

WorkType(p) == IF Decodes(p) THEN "telemetry" ELSE "dead_letter"

\* Rows that carry the event id (telemetry rows only) or the delivery key
\* (message id and payload digest) of the message.
FindExisting(m) ==
  {i \in DOMAIN spool :
     \/ /\ Decodes(m.payload)
        /\ spool[i].type = "telemetry"
        /\ EventOf[spool[i].payload] = EventOf[m.payload]
     \/ spool[i].mid = m.mid /\ spool[i].payload = m.payload}

Pending  == {i \in DOMAIN spool : spool[i].status = "pending"}
Terminal == {i \in DOMAIN spool : spool[i].status = "terminal"}

\* Mutants: the query without ORDER BY id, and without the status filter.
AnyPending(i) == i \in Pending
FirstRow(i) == i \in Pending /\ \A j \in DOMAIN spool : i <= j

\* ORDER BY id LIMIT 1
OldestPending(i) == i \in Pending /\ \A j \in Pending : i <= j

NewRecord(m) == [status |-> "pending",
                 type |-> WorkType(m.payload),
                 mid |-> m.mid, payload |-> m.payload]

-----------------------------------------------------------------------------
Init ==
  /\ published = {} /\ session = {} /\ nextMid = 1 /\ delivered = {}
  /\ rx = Idle
  /\ spool = <<>>
  /\ wk = Polling
  /\ retired = {}
  /\ active = Node
  /\ cursor = [n \in Node |-> NoCursor]
  /\ stored = {} /\ deadLetters = {} /\ processed = {}
  /\ live = [e \in Event |-> 0]

-----------------------------------------------------------------------------
(* The broker, as the consumer uses it                                     *)

\* A publisher's message enters the persistent session.  The edge outbox
\* sends the first copies of a node's events in sequence order and may send
\* any event again (device-agent flush_queue).
Publish(p) ==
  /\ nextMid <= MaxPublish
  /\ \A q \in Payload : /\ EventOf[p] # NoEvent /\ EventOf[q] # NoEvent
                        /\ NodeOf[q] = NodeOf[p] /\ SequenceOf[q] < SequenceOf[p]
                        => q \in published \/
                             \E t \in published : EventOf[t] = EventOf[q]
  /\ session' = session \cup {[mid |-> nextMid, payload |-> p]}
  /\ nextMid' = nextMid + 1
  /\ published' = published \cup {p}
  /\ UNCHANGED <<delivered, rx, spool, wk, retired, active, db>>

\* The network thread takes the next message and enters the callback.
Deliver(m) ==
  /\ rx = Idle
  /\ m \in session /\ m.mid \notin delivered
  /\ \A o \in session : o.mid \notin delivered => m.mid <= o.mid
  /\ rx' = [phase |-> "staging", msg |-> m]
  /\ delivered' = delivered \cup {m.mid}
  /\ UNCHANGED <<session, nextMid, published, spool, wk, retired,
                 active, db>>

\* The connection drops and comes back: the broker sends again, in order,
\* whatever it holds unacknowledged.
Reconnect ==
  /\ rx = Idle /\ delivered # {}
  /\ delivered' = {}
  /\ UNCHANGED <<session, nextMid, published, rx, spool, wk, retired,
                 active, db>>

-----------------------------------------------------------------------------
(* The MQTT callback                                                       *)

\* stage_mqtt_payload finds the work already in the spool, with this payload.
StageDuplicate ==
  /\ rx.phase = "staging"
  /\ \E i \in FindExisting(rx.msg) : spool[i].payload = rx.msg.payload
  /\ rx' = [rx EXCEPT !.phase = "staged"]
  /\ UNCHANGED <<broker, spool, wk, retired, active, db>>

\* stage_mqtt_payload inserts a row.  When the key belongs to another payload
\* or the spool is full nothing happens: the callback keeps the message and
\* tries again.
StageNew ==
  /\ rx.phase = "staging"
  /\ FindExisting(rx.msg) = {}
  /\ Len(spool) < MaxRecords
  /\ spool' = Append(spool, NewRecord(rx.msg))
  /\ rx' = [rx EXCEPT !.phase = "staged"]
  /\ UNCHANGED <<broker, wk, retired, active, db>>

\* Mutant: the acknowledgement is sent before the row is committed.
AckOnReceipt ==
  /\ rx # Idle
  /\ session' = session \ {rx.msg}
  /\ delivered' = delivered \ {rx.msg.mid}
  /\ rx' = Idle
  /\ UNCHANGED <<nextMid, published, spool, wk, retired, active, db>>

\* The PUBACK reaches the broker, which forgets the message.
Ack ==
  /\ rx.phase = "staged"
  /\ session' = session \ {rx.msg}
  /\ delivered' = delivered \ {rx.msg.mid}
  /\ rx' = Idle
  /\ UNCHANGED <<nextMid, published, spool, wk, retired,
                 active, db>>

\* client.ack fails, or the PUBACK is lost with the connection.
AckLost ==
  /\ rx.phase = "staged"
  /\ rx' = Idle
  /\ UNCHANGED <<broker, spool, wk, retired, active, db>>

-----------------------------------------------------------------------------
(* The persistence worker: _run_durable and _persist                       *)

rec == spool[wk.row]
EvOf == EventOf[rec.payload]
Goto(step) == wk' = [wk EXCEPT !.step = step]
AtStep(step) == wk # Polling /\ wk.step = step

FirstStep(r) ==
  CASE r.type = "dead_letter"                        -> "dead_letter"
    [] r.type = "telemetry" /\ ~Decodes(r.payload)   -> "quarantine"
    [] r.type = "telemetry" /\ Decodes(r.payload)    ->
         IF Enforced THEN "authorize" ELSE "persist"

\* oldest_pending and _work_from_spool
TakeRecord(i) ==
  /\ wk = Polling
  /\ OldestPending(i)
  /\ wk' = [step |-> FirstStep(spool[i]), row |-> i, why |-> "schema"]
  /\ UNCHANGED <<broker, rx, spool, retired, active, db>>

\* Mutant: a sequence equal to the cursor is always a replay.
AuthorizedOnlyAbove(p) ==
  /\ SequenceOf[p] >= 1
  /\ NodeOf[p] \in active
  /\ SequenceOf[p] > cursor[NodeOf[p]].seq

\* NodeIngressAuthorizer.authorize: one transaction of its own.
Authorized(p) ==
  LET c == cursor[NodeOf[p]] IN
  /\ SequenceOf[p] >= 1
  /\ NodeOf[p] \in active
  /\ \/ SequenceOf[p] > c.seq
     \/ SequenceOf[p] = c.seq /\ EventOf[p] = c.event

RejectReason(p) ==
  IF SequenceOf[p] >= 1 /\ NodeOf[p] \notin active THEN "authorization" ELSE "replay"

AdvanceCursor ==
  cursor' = [cursor EXCEPT ![NodeOf[rec.payload]] =
               [seq |-> SequenceOf[rec.payload], event |-> EvOf]]

Authorize ==
  /\ AtStep("authorize") /\ Authorized(rec.payload)
  /\ AdvanceCursor
  /\ Goto("persist")
  /\ UNCHANGED <<broker, rx, spool, retired, active, stored,
                 deadLetters, live, processed>>

RefuseIngress ==
  /\ AtStep("authorize") /\ ~Authorized(rec.payload)
  /\ wk' = [wk EXCEPT !.step = "reject", !.why = RejectReason(rec.payload)]
  /\ UNCHANGED <<broker, rx, spool, retired, active, db>>

\* Database.persist: INSERT .. ON CONFLICT (event_id) DO NOTHING.
IsStored(e) == \E q \in stored : EventOf[q] = e

InsertSample ==
  stored' = IF IsStored(EvOf) THEN stored ELSE stored \cup {rec.payload}

\* Mutants: duplicates skip the post-persist step; duplicates are published.
PersistSkipsAfter ==
  /\ AtStep("persist")
  /\ InsertSample
  /\ Goto(IF IsStored(EvOf) THEN "delete" ELSE "publish")
  /\ UNCHANGED <<broker, rx, spool, retired, active, cursor, deadLetters, live,
                 processed>>

PersistAlwaysPublishes ==
  /\ AtStep("persist")
  /\ InsertSample
  /\ Goto("publish")
  /\ UNCHANGED <<broker, rx, spool, retired, active, cursor, deadLetters, live,
                 processed>>

Persist ==
  /\ AtStep("persist")
  /\ InsertSample
  /\ Goto(IF IsStored(EvOf) THEN "after" ELSE "publish")
  /\ UNCHANGED <<broker, rx, spool, retired, active, cursor,
                 deadLetters, live, processed>>

\* _on_persisted: the live feed, only for an event this call inserted.
PublishLive ==
  /\ AtStep("publish")
  /\ live' = [live EXCEPT ![EvOf] = @ + 1]
  /\ Goto("after")
  /\ UNCHANGED <<broker, rx, spool, retired, active, cursor, stored,
                 deadLetters, processed>>

\* _after_persist: alert processing, for duplicates too.
AfterPersist ==
  /\ AtStep("after")
  /\ processed' = processed \cup {EvOf}
  /\ Goto("delete")
  /\ UNCHANGED <<broker, rx, spool, retired, active, cursor, stored,
                 deadLetters, live>>

InsertDeadLetter ==
  deadLetters' = deadLetters \cup {[payload |-> rec.payload, why |-> wk.why]}

\* persist_dead_letter, for invalid work and for refused telemetry.
PersistDeadLetter ==
  /\ AtStep("dead_letter") \/ AtStep("reject")
  /\ InsertDeadLetter
  /\ Goto("delete")
  /\ UNCHANGED <<broker, rx, spool, retired, active, cursor, stored,
                 live, processed>>

DeleteRecord ==
  /\ AtStep("delete")
  /\ spool' = RemoveAt(spool, wk.row)
  /\ wk' = Polling
  /\ UNCHANGED <<broker, rx, retired, active, db>>

\* Mutant: the undecodable row is dropped.
DropRow ==
  /\ AtStep("quarantine")
  /\ spool' = RemoveAt(spool, wk.row)
  /\ wk' = Polling
  /\ UNCHANGED <<broker, rx, retired, active, db>>

MarkTerminal ==
  /\ AtStep("quarantine")
  /\ spool' = [spool EXCEPT ![wk.row].status = "terminal"]
  /\ wk' = Polling
  /\ UNCHANGED <<broker, rx, retired, active, db>>

\* A step raises before anything is committed.  Every except branch of
\* _run_durable leaves the record pending and goes back to oldest_pending.
StepFails ==
  /\ wk # Polling /\ wk.step # "publish"
  /\ wk' = Polling
  /\ UNCHANGED <<broker, rx, spool, retired, active, db>>

\* A PostgreSQL transaction commits but its reply is lost: the same except
\* branches run although the effect is there.
LoseReply ==
  /\ wk' = Polling
  /\ \/ /\ AtStep("authorize") /\ Authorized(rec.payload)
        /\ AdvanceCursor /\ UNCHANGED <<stored, deadLetters>>
     \/ /\ AtStep("persist")
        /\ InsertSample /\ UNCHANGED <<cursor, deadLetters>>
     \/ /\ AtStep("dead_letter") \/ AtStep("reject")
        /\ InsertDeadLetter /\ UNCHANGED <<cursor, stored>>
  /\ UNCHANGED <<broker, rx, spool, retired, active, live, processed>>

-----------------------------------------------------------------------------
(* Environment of the process                                              *)

\* The process dies, or stops, and starts again, perhaps as a release with
\* another contract.  Spool, database and broker session stay.
Restart(R) ==
  /\ retired' = R
  /\ rx' = Idle /\ wk' = Polling /\ delivered' = {}
  /\ <<rx, wk, delivered, retired>> # <<Idle, Polling, {}, R>>
  /\ UNCHANGED <<session, nextMid, published, spool, active, db>>

\* An administrator suspends or reactivates a node.
SetNodeActive(n) ==
  /\ active' = IF n \in active THEN active \ {n} ELSE active \cup {n}
  /\ UNCHANGED <<broker, rx, spool, wk, retired, db>>

Callback == StageDuplicate \/ StageNew \/ Ack \/ AckLost

Worker ==
  \/ \E i \in DOMAIN spool : TakeRecord(i)
  \/ Authorize \/ RefuseIngress \/ Persist \/ PublishLive \/ AfterPersist
  \/ PersistDeadLetter \/ DeleteRecord \/ MarkTerminal
  \/ StepFails \/ LoseReply

Environment ==
  \/ \E p \in Payload : Publish(p)
  \/ \E m \in session : Deliver(m)
  \/ Reconnect
  \/ \E R \in SUBSET Retirable : Restart(R)
  \/ \E n \in Administered : SetNodeActive(n)

Next == Callback \/ Worker \/ Environment

Spec == Init /\ [][Next]_vars

\* The threads are scheduled and the service restarts after a crash; SQLite,
\* PostgreSQL, the alert processor and the connection may fail any number of
\* times, but not every time: each retry loop is unbounded, so an operation
\* tried again and again succeeds once.
Fairness ==
  /\ SF_vars(\E m \in session : Deliver(m))
  /\ SF_vars(StageDuplicate \/ StageNew)
  /\ SF_vars(Ack)
  /\ WF_vars(\E i \in DOMAIN spool : TakeRecord(i))
  /\ SF_vars(Authorize \/ RefuseIngress)
  /\ SF_vars(Persist \/ PersistDeadLetter \/ MarkTerminal)
  /\ SF_vars(PublishLive \/ AfterPersist)
  /\ SF_vars(DeleteRecord)

FairSpec == Spec /\ Fairness

-----------------------------------------------------------------------------
(* Properties                                                              *)

TypeOK ==
  /\ published \subseteq Payload
  /\ session \subseteq Message /\ nextMid \in Nat \ {0}
  /\ delivered \subseteq Nat
  /\ rx \in RxStates
  /\ spool \in Seq(Record)
  /\ wk \in WkStates
  /\ retired \subseteq Payload
  /\ active \subseteq Node
  /\ cursor \in [Node -> [seq : Nat, event : Event \cup {NoEvent}]]
  /\ stored \subseteq Payload
  /\ deadLetters \subseteq [payload : Payload, why : Reason]
  /\ live \in [Event -> Nat]
  /\ processed \subseteq Event

\* Payloads with a durable outcome: their event is a stored sample, they are
\* a dead letter, or their row is quarantined in the spool.
Settled ==
  {p \in Payload : \/ EventOf[p] # NoEvent /\ IsStored(EventOf[p])
                   \/ \E d \in deadLetters : d.payload = p
                   \/ \E i \in Terminal : spool[i].payload = p}

\* Payloads the broker or the spool still holds.
Custody ==
  {p \in Payload : \/ \E m \in session : m.payload = p
                   \/ \E i \in Pending : spool[i].payload = p}

\* A payload the broker accepted is still held or has an outcome, whatever
\* acknowledgements, replies and processes are lost on the way.
NothingLost == published \subseteq Custody \cup Settled

\* What the row demands has been done: the worker may forget it.
Done(r) ==
  \/ /\ r.type = "telemetry"
     /\ IsStored(EventOf[r.payload]) /\ EventOf[r.payload] \in processed
  \/ \E d \in deadLetters : d.payload = r.payload

\* The worker's steps agree with its row and with the database.
WorkerConsistent ==
  wk # Polling =>
    /\ wk.row \in Pending
    /\ wk.step \in {"authorize", "persist", "publish", "after", "quarantine"}
         => rec.type = "telemetry"
    /\ wk.step \in {"publish", "after"} => IsStored(EvOf)
    /\ wk.step = "delete" => Done(rec)

\* A staged message is in the spool or has an outcome already.
StagedIsDurable ==
  rx.phase = "staged" =>
    \/ rx.msg.payload \in Settled
    \/ \E i \in Pending : spool[i].payload = rx.msg.payload

\* The broker still holds the message in the callback's hand.
MessageHeld == rx # Idle => rx.msg \in session

TelemetryRowsHaveEvents ==
  \A i \in DOMAIN spool :
    spool[i].type = "telemetry" => EventOf[spool[i].payload] \in Event

\* Why nothing is lost: at every point between two transactions, spool,
\* database, callback and worker agree on what is already durable.
PathInv ==
  /\ TypeOK
  /\ WorkerConsistent
  /\ MessageHeld
  /\ StagedIsDurable
  /\ TelemetryRowsHaveEvents
  /\ NothingLost

TC == INSTANCE TelemetryCustody WITH custody <- Custody, settled <- Settled

\* The path implements the abstract custody contract: nothing leaves it
\* without a durable outcome and no outcome is taken back.
ImplementsCustody == TC!Spec

\* A row leaves the spool only when it is done: telemetry is stored and its
\* alert processing is complete, or a dead letter of the payload exists.
ForgetOnlyWhenDone ==
  [][\A i \in DOMAIN spool :
       \/ \E j \in DOMAIN spool' : /\ spool'[j].mid = spool[i].mid
                                  /\ spool'[j].payload = spool[i].payload
       \/ Done(spool[i])]_vars

\* Some published copy of the event has a durable outcome.
Handled(e) == \E q \in Settled : EventOf[q] = e

\* The ingress cursor, committed before the sample, never runs ahead of the
\* data: every published event below it has an outcome, and the event at it
\* has one or is a row the worker will come back to.
CursorCoversEvents ==
  \A p \in published :
    LET e == EventOf[p]
        c == cursor[NodeOf[p]]
    IN e # NoEvent =>
       /\ SequenceOf[p] < c.seq => Handled(e)
       /\ e = c.event => \/ Handled(e)
                         \/ \E i \in Pending : EventOf[spool[i].payload] = e

\* An event refused as a replay was stored, refused for another reason or
\* quarantined before: no first copy is mistaken for a replay, however often
\* the broker redelivers and the worker restarts.
NoFalseReplay ==
  \A d \in deadLetters : d.why = "replay" =>
    LET e == EventOf[d.payload] IN
    \/ IsStored(e)
    \/ \E o \in deadLetters : o.why # "replay" /\ EventOf[o.payload] = e
    \/ \E i \in Terminal : EventOf[spool[i].payload] = e

\* The live feed sees an event at most once and only after its commit.
LiveOnceAfterCommit ==
  \A e \in Event : live[e] <= 1 /\ (live[e] > 0 => IsStored(e))

\* A telemetry row of the event is in the spool.
HasRow(e) == \E i \in DOMAIN spool :
               spool[i].type = "telemetry" /\ EventOf[spool[i].payload] = e

\* A stored event has been through alert processing, or its row is still in
\* the spool, or ingress refused it when its processing was tried again.
StoredIsProcessed ==
  \A e \in Event : IsStored(e) =>
    \/ e \in processed
    \/ HasRow(e)
    \/ \E d \in deadLetters : d.why = "authorization" /\ EventOf[d.payload] = e

\* Every stored event goes through alert processing or is still to do it.
CommittedTelemetryIsProcessed ==
  \A e \in Event : IsStored(e) =>
    \/ e \in processed
    \/ HasRow(e)

\* Quarantined rows fill the spool, or one of them holds the event id of
\* another payload: the callback can stage nothing more.
Blocked ==
  \/ Cardinality(Terminal) = MaxRecords
  \/ \E i \in Terminal, m \in session :
       /\ spool[i].type = "telemetry" /\ spool[i].payload # m.payload
       /\ EventOf[spool[i].payload] = EventOf[m.payload]

\* Whatever fails and restarts, a published payload gets an outcome, unless
\* quarantined rows block the spool.
EventuallySettled ==
  \A p \in Payload : p \in published ~> (p \in Settled \/ Blocked)
=============================================================================
