---------------------------- MODULE NodeStreams ----------------------------
(***************************************************************************)
(* The health and status streams of one node, from the Device Agent        *)
(* (operational_streams.py, main.py) over Mosquitto to the central service *)
(* (mqtt_consumer.py, nodes/stream_ingestion.py, stream_repository.py) and *)
(* the availability its API reports (nodes/api.py).                        *)
(*                                                                         *)
(* Before a connection the agent reserves two status sequences: one for    *)
(* the "online" it publishes once connected, one for the "offline" the     *)
(* broker publishes as its last will.  Connected, it reserves the pair of  *)
(* the next connection.  The broker retains the last status and keeps      *)
(* messages for the central session.  The central callback puts them into  *)
(* a queue in memory and acknowledges them; the worker stores those above  *)
(* the stream's cursor and dead-letters the others.                        *)
(*                                                                         *)
(* Abstractions: a message is its stream, sequence and availability; the   *)
(* node's clock does not step back, so that captured_at and node_sequence  *)
(* order statuses alike; rows are received in the order they are stored;   *)
(* a status the MQTT client sends again on a later connection is left out: *)
(* it is below the one already sent there and is refused as a replay; so   *)
(* are the health samples of an agent whose network thread has ended; a    *)
(* retained status that still waits is not queued twice.                   *)
(***************************************************************************)
EXTENDS Naturals, Sequences, SequencesExt

CONSTANTS
  MaxSequence,  \* bound: status sequences the agent allocates
  MaxBeats,     \* bound: health samples it publishes
  MaxBad,       \* bound: health or status payloads no schema accepts
  Backlog,      \* bound: messages waiting for the central session
  Window,       \* max_inflight_messages of the broker
  QueueSize     \* settings.ingestion_queue_maxsize

ASSUME ConstantsAssumption ==
  /\ MaxSequence \in Nat /\ MaxBeats \in Nat /\ MaxBad \in Nat /\ Backlog \in Nat
  /\ Window \in Nat \ {0} /\ QueueSize \in Nat \ {0}

VARIABLES
  allocated,  \* node_stream_sequences: last status sequence
  beats,      \* the same of the health stream
  pair,       \* _prepared_online and _prepared_will
  link,       \* the agent's client: stopped, down, connack, up, broken or hung
  conn,       \* the will of the node's connection at the broker, 0 for none
  retained,   \* the retained status message
  top,        \* history: the highest status sequence the broker has taken
  inOrder,    \* history: the retained status is above all before it
  denied,     \* history: the retained status was refused by authorization
  bad,        \* refusable messages published so far
  queued,     \* messages waiting for the central session
  held,       \* delivered to it and not acknowledged
  consumer,   \* the central MQTT thread: down, subscribed or dead
  worker,     \* the node stream worker: running or dead
  queue,      \* NodeStreamIngestor._queue, the pending work at its head
  active,     \* the node is ACTIVE in the registry
  cursor,     \* CentralNodeIngressCursor of both streams
  latest,     \* the status row latest_status returns
  newest      \* stream of the row received last

agent  == <<allocated, beats, pair, link>>
status == <<retained, top, inOrder, denied>>
broker == <<conn, status, bad, queued, held>>
stored == <<cursor, latest, newest>>
vars   == <<agent, broker, consumer, worker, queue, active, stored>>

Message == [stream : {"status", "health", "bad"}, seq : Nat, online : BOOLEAN]

Status(n, on) == [stream |-> "status", seq |-> n, online |-> on]
Health(n)     == [stream |-> "health", seq |-> n, online |-> TRUE]
Bad           == [stream |-> "bad", seq |-> 0, online |-> FALSE]
NoStatus      == Status(0, FALSE)
NoPair        == [online |-> 0, will |-> 0]

Init ==
  /\ allocated = 0 /\ beats = 0 /\ pair = NoPair /\ link = "stopped"
  /\ conn = 0 /\ retained = NoStatus /\ top = 0 /\ inOrder = TRUE /\ denied = FALSE
  /\ bad = 0
  /\ queued = <<>> /\ held = <<>>
  /\ consumer = "down" /\ worker = "running" /\ queue = <<>>
  /\ active = TRUE /\ cursor = [s \in {"status", "health"} |-> 0]
  /\ latest = NoStatus /\ newest = "none"

-----------------------------------------------------------------------------
(* The broker                                                              *)

\* The session of the central service has room for k messages more.
Room(k) == Len(queued) + k <= Backlog

\* A retained publication of the node.
Retain(m) ==
  /\ retained' = m
  /\ inOrder' = (m.seq > top)
  /\ top' = IF m.seq > top THEN m.seq ELSE top
  /\ denied' = FALSE

\* The last will of the node's connection.
FireWill ==
  /\ Room(1)
  /\ Retain(Status(conn, FALSE))
  /\ queued' = Append(queued, Status(conn, FALSE))

-----------------------------------------------------------------------------
(* The Device Agent                                                        *)

\* Mutant: one sequence serves the online status and the will.
PrepareSharing ==
  /\ allocated + 2 <= MaxSequence
  /\ allocated' = allocated + 1
  /\ pair' = [online |-> allocated + 1, will |-> allocated + 1]

\* _prepare_connection_locked
PrepareConnection ==
  /\ allocated + 2 <= MaxSequence
  /\ allocated' = allocated + 2
  /\ pair' = [online |-> allocated + 1, will |-> allocated + 2]

\* connect(): the first pair is reserved before the first CONNECT.
Start ==
  /\ link = "stopped"
  /\ PrepareConnection
  /\ link' = "down"
  /\ UNCHANGED <<beats, broker, consumer, worker, queue, active, stored>>

\* CONNECT with the prepared will reaches the broker.  A connection of the same
\* client that the broker still holds is taken over and its will published.
Connect ==
  /\ link = "down"
  /\ link' = "connack" /\ conn' = pair.will
  /\ \/ conn = 0 /\ UNCHANGED <<status, queued>>
     \/ conn # 0 /\ FireWill
  /\ UNCHANGED <<allocated, beats, pair, bad, held, consumer, worker, queue, active, stored>>

\* _on_connect: the online status and a health sample are published, and the
\* next pair is reserved whether they get through or not: what does not was
\* sent on a broken connection, where nothing sent later arrives either.
OnConnect ==
  /\ link = "connack"
  /\ PrepareConnection
  /\ LET online == Status(pair.online, TRUE) IN
     \/ /\ conn # 0 /\ Room(2) /\ Retain(online)
        /\ beats < MaxBeats /\ beats' = beats + 1
        /\ queued' = queued \o <<online, Health(beats + 1)>>
        /\ link' = "up"
     \/ /\ conn # 0 /\ Room(1) /\ Retain(online)
        /\ queued' = Append(queued, online)
        /\ link' = "up" /\ UNCHANGED beats
     \/ link' = "broken" /\ UNCHANGED <<beats, status, queued>>
  /\ UNCHANGED <<conn, bad, held, consumer, worker, queue, active, stored>>

\* SQLite is busy when the next pair is reserved: the error leaves _on_connect
\* and ends the client's network thread.
OnConnectFails ==
  /\ link = "connack"
  /\ link' = "hung"
  /\ \/ /\ conn # 0 /\ Room(1) /\ Retain(Status(pair.online, TRUE))
        /\ queued' = Append(queued, Status(pair.online, TRUE))
     \/ UNCHANGED <<status, queued>>
  /\ UNCHANGED <<allocated, beats, pair, conn, bad, held, consumer, worker, queue, active, stored>>

\* publish_health_if_due
Heartbeat ==
  /\ link = "up" /\ conn # 0 /\ beats < MaxBeats /\ Room(1)
  /\ beats' = beats + 1
  /\ queued' = Append(queued, Health(beats + 1))
  /\ UNCHANGED <<allocated, pair, link, conn, status, bad, held, consumer, worker, queue,
                 active, stored>>

\* The client notices the loss of its connection, or gives up waiting for the
\* CONNACK; it will connect again with the pair it has.
LoseLink ==
  /\ link \in {"connack", "up", "broken"}
  /\ link' = "down"
  /\ UNCHANGED <<allocated, beats, pair, broker, consumer, worker, queue, active, stored>>

\* The broker notices it: the will of the connection is published.
DropConnection ==
  /\ conn # 0
  /\ FireWill
  /\ conn' = 0
  /\ UNCHANGED <<agent, bad, held, consumer, worker, queue, active, stored>>

\* publish_graceful_offline and disconnect: both arrive, the DISCONNECT is
\* lost, or both are.
Stop ==
  /\ link \in {"up", "broken", "hung"} /\ allocated < MaxSequence
  /\ allocated' = allocated + 1 /\ pair' = NoPair /\ link' = "stopped"
  /\ LET offline == Status(allocated + 1, FALSE) IN
     \/ /\ link # "broken" /\ conn # 0 /\ Room(1) /\ Retain(offline)
        /\ queued' = Append(queued, offline)
        /\ conn' \in {0, conn}
     \/ UNCHANGED <<status, queued, conn>>
  /\ UNCHANGED <<beats, bad, held, consumer, worker, queue, active, stored>>

\* The agent dies, or stops without a connection.
Crash ==
  /\ link # "stopped"
  /\ link' = "stopped" /\ pair' = NoPair
  /\ UNCHANGED <<allocated, beats, broker, consumer, worker, queue, active, stored>>

\* A payload that no schema accepts, from this or another node.
PublishBad ==
  /\ bad < MaxBad /\ Room(1)
  /\ bad' = bad + 1
  /\ queued' = Append(queued, Bad)
  /\ UNCHANGED <<agent, conn, status, held, consumer, worker, queue, active, stored>>
-----------------------------------------------------------------------------
(* The MQTT callback of the central service                                *)

\* Mutant: the retained status is not asked for.
ResumedWithoutRetained == held \o queued

\* What the central session holds again once the service is back: deliveries
\* not acknowledged first, then what waited, then the retained status, which
\* every subscription delivers anew.
Resumed ==
  LET waiting == held \o queued IN
  IF retained = NoStatus \/ \E i \in DOMAIN waiting : waiting[i] = retained
  THEN waiting
  ELSE Append(waiting, retained)

Subscribe ==
  /\ consumer = "down"
  /\ consumer' = "subscribed"
  /\ queued' = Resumed /\ held' = <<>>
  /\ UNCHANGED <<agent, conn, status, bad, worker, queue, active, stored>>

Unsubscribe ==
  /\ consumer = "subscribed"
  /\ consumer' = "down"
  /\ UNCHANGED <<agent, broker, worker, queue, active, stored>>

\* The next message is delivered while the in-flight window is open.
CanDeliver == consumer = "subscribed" /\ queued # <<>> /\ Len(held) < Window

\* submit_payload puts it into the queue and it is acknowledged, or the
\* acknowledgement is lost with the connection.
Submit ==
  /\ CanDeliver /\ Head(queued).stream # "bad" /\ Len(queue) < QueueSize
  /\ queue' = Append(queue, Head(queued))
  /\ queued' = Tail(queued)
  /\ \/ UNCHANGED <<held, consumer>>
     \/ held' = Append(held, Head(queued)) /\ consumer' = "down"
  /\ UNCHANGED <<agent, conn, status, bad, worker, active, stored>>

\* The queue is full, or no schema accepts the payload and a dead letter is
\* written: the message is not acknowledged.
NotAccepted ==
  /\ CanDeliver
  /\ Head(queued).stream = "bad" \/ Len(queue) = QueueSize
  /\ queued' = Tail(queued) /\ held' = Append(held, Head(queued))
  /\ UNCHANGED <<agent, conn, status, bad, consumer, worker, queue, active, stored>>

\* Its dead letter cannot be written: the error leaves the callback and ends
\* the MQTT thread.
CallbackFails ==
  /\ CanDeliver /\ Head(queued).stream = "bad"
  /\ queued' = Tail(queued) /\ held' = Append(held, Head(queued))
  /\ consumer' = "dead"
  /\ UNCHANGED <<agent, conn, status, bad, worker, queue, active, stored>>

-----------------------------------------------------------------------------
(* The worker of the node streams                                          *)

Pending == Head(queue)

\* The worker has work; without the database it tries again later.
CanPersist == worker = "running" /\ queue # <<>>

\* _authorize_and_advance: the event is above the cursor of its stream.
IsNew(m) == m.seq > cursor[m.stream]

IsReplay(m) == m.seq < cursor[m.stream]

\* persist_health, persist_status: cursor and row in one transaction.
Persist ==
  /\ CanPersist /\ active /\ IsNew(Pending)
  /\ cursor' = [cursor EXCEPT ![Pending.stream] = Pending.seq]
  /\ latest' = IF Pending.stream = "status" THEN Pending ELSE latest
  /\ newest' = Pending.stream
  /\ queue' = Tail(queue)
  /\ UNCHANGED <<agent, broker, consumer, worker, active>>

\* The event the cursor stands at was stored before: nothing changes.
PersistDuplicate ==
  /\ CanPersist /\ active
  /\ ~IsNew(Pending) /\ ~IsReplay(Pending)
  /\ queue' = Tail(queue)
  /\ UNCHANGED <<agent, broker, consumer, worker, active, stored>>

\* Mutant: a refused event is tried again like a failed one.
RefuseRetrying ==
  /\ CanPersist /\ (~active \/ IsReplay(Pending))
  /\ UNCHANGED vars

\* A replay, or an event of a node that is not active, is dead-lettered.
Refuse ==
  /\ CanPersist /\ (~active \/ IsReplay(Pending))
  /\ queue' = Tail(queue)
  /\ denied' = (denied \/ (~active /\ Pending = retained))
  /\ UNCHANGED <<agent, conn, retained, top, inOrder, bad, queued, held, consumer, worker,
                 active, stored>>

\* The dead letter cannot be written: the error ends the worker.
RefuseFails ==
  /\ CanPersist /\ (~active \/ IsReplay(Pending))
  /\ worker' = "dead"
  /\ queue' = Tail(queue)
  /\ UNCHANGED <<agent, broker, consumer, active, stored>>

\* The service restarts; what is in memory is lost.
Restart ==
  /\ consumer' = "down" /\ worker' = "running" /\ queue' = <<>>
  /\ UNCHANGED <<agent, broker, active, stored>>

\* The node is suspended or activated.
SetActive ==
  /\ active' = ~active
  /\ UNCHANGED <<agent, broker, consumer, worker, queue, stored>>

Agent   == Start \/ Connect \/ OnConnect \/ OnConnectFails \/ Heartbeat
           \/ LoseLink \/ Stop \/ Crash
Central == Subscribe \/ Unsubscribe \/ Submit \/ NotAccepted \/ CallbackFails
           \/ Persist \/ PersistDuplicate \/ Refuse \/ RefuseFails
           \/ Restart \/ SetActive

Next == Agent \/ DropConnection \/ PublishBad \/ Central

Spec == Init /\ [][Next]_vars
\* The service comes back and subscribes, delivers and persists again and
\* again; no assumption on the node, the broker's view of it or restarts.
Fairness ==
  /\ SF_vars(Subscribe)
  /\ SF_vars(Submit \/ NotAccepted)
  /\ SF_vars(Persist \/ PersistDuplicate \/ Refuse)

FairSpec == Spec /\ Fairness

-----------------------------------------------------------------------------
(* Properties                                                              *)

StreamOf == {"status", "health"}

TypeOK ==
  /\ allocated \in Nat /\ beats \in Nat
  /\ pair \in [online : Nat, will : Nat]
  /\ link \in {"stopped", "down", "connack", "up", "broken", "hung"}
  /\ conn \in Nat /\ retained \in Message /\ top \in Nat /\ inOrder \in BOOLEAN /\ denied \in BOOLEAN
  /\ bad \in Nat /\ queued \in Seq(Message) /\ held \in Seq(Message)
  /\ consumer \in {"down", "subscribed", "dead"} /\ worker \in {"running", "dead"}
  /\ queue \in Seq(Message) /\ active \in BOOLEAN
  /\ cursor \in [StreamOf -> Nat] /\ latest \in Message
  /\ newest \in {"none"} \cup StreamOf

Waiting == ToSet(queued) \cup ToSet(held) \cup ToSet(queue)

Statuses == {m \in Waiting \cup {retained, latest} : m.stream = "status"}

\* Whatever is on its way was allocated, and the cursor stands at the newest
\* status stored.
InSequence ==
  /\ \A m \in Statuses : m.seq <= top
  /\ top <= allocated /\ conn <= allocated
  /\ pair.online <= allocated /\ pair.will <= allocated
  /\ retained.stream = "status" /\ latest.stream = "status"
  /\ inOrder => retained.seq = top
  /\ cursor["status"] = latest.seq
  /\ \A m \in ToSet(queue) : m.stream \in StreamOf

\* The agent has a pair whose online status was not sent.
Prepared == link \in {"down", "connack", "up", "broken"}

\* A status sequence means one thing, whoever publishes it: the agent, or the
\* broker for it, more than once.
OneMeaning ==
  /\ \A m, n \in Statuses : m.seq = n.seq => m = n
  /\ \A m \in Statuses : m.seq \in {0, conn, pair.will} => ~m.online
  /\ Prepared =>
       /\ pair.online > 0 /\ pair.online < pair.will /\ pair.online # conn
       /\ \A m \in Statuses : m.seq # pair.online

\* While both threads work, the retained status is stored or waits for one of
\* them.
OnItsWay ==
  consumer = "subscribed" /\ worker = "running" /\ inOrder /\ ~denied
    => latest = retained \/ retained \in Waiting

\* The allocator of the agent, the retained status, the messages under way and
\* the central cursor agree after every step.
StreamInv == TypeOK /\ InSequence /\ OneMeaning /\ OnItsWay

\* The API, nodes/api.py _operational_state: the newest offline status counts
\* unless a sample was received after it ("online" becomes "stale" by age).
Availability ==
  CASE latest # NoStatus /\ ~latest.online /\ newest = "status" -> "offline"
    [] cursor["health"] # 0 -> "online"
    [] OTHER -> IF latest.online THEN "stale" ELSE "unknown"

\* Nothing is left to handle: both threads run and every message was taken.
Quiet ==
  /\ consumer = "subscribed" /\ worker = "running"
  /\ queued = <<>> /\ held = <<>> /\ queue = <<>>

\* When the central service has handled all it was sent, it knows the status
\* the broker retains: lost acknowledgements, full queues and restarts that
\* empty the memory are made good by the retained message.  Only a status
\* published out of sequence, or refused by authorization, is not known.
StatusTold ==
  Quiet /\ inOrder /\ ~denied => latest = retained

\* The central service refuses or cannot take the retained status: one of its
\* threads died, the in-flight window is full of messages it will not
\* acknowledge, or the status itself is one of them.
Stuck ==
  \/ consumer = "dead" \/ worker = "dead"
  \/ Len(held) = Window
  \/ retained \in ToSet(held)

\* The retained status, or a later one, is stored; or it was refused because
\* the node is not active.
StatusKnown == cursor["status"] >= retained.seq \/ denied

\* Unless it is stuck for good the central service comes to know the status
\* the broker retains, again and again, whatever is restarted.
LastStatusArrives == []<>(StatusKnown \/ Stuck)

\* telemetry-service/tests/test_node_stream_api.py: a newer offline status
\* overrides previous health.
OfflineOverridesHealth ==
  Quiet /\ ~denied /\ conn = 0 /\ retained # NoStatus /\ ~retained.online
    => Availability = "offline"
=============================================================================
