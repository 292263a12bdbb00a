------------------------- MODULE NodeStreamsProofs -------------------------
(***************************************************************************)
(* Theorems about the node streams, for every value of the bounds: the     *)
(* allocator of the agent, the retained status, the messages under way and *)
(* the central cursor agree after every step, and so the central service   *)
(* knows the retained status when it has handled all it was sent.          *)
(***************************************************************************)
EXTENDS NodeStreams, TLAPS

-----------------------------------------------------------------------------
(* What a queue holds                                                      *)

\* A message put at the end of a queue is all that is added to it.
LEMMA ToSetAppend ==
  ASSUME NEW S, NEW s \in Seq(S), NEW x \in S
  PROVE  ToSet(Append(s, x)) = ToSet(s) \cup {x}
<1>1. /\ DOMAIN Append(s, x) = 1 .. Len(s) + 1
      /\ \A i \in 1 .. Len(s) : Append(s, x)[i] = s[i]
      /\ Append(s, x)[Len(s) + 1] = x
  OBVIOUS
<1>2. DOMAIN s = 1 .. Len(s) /\ Len(s) \in Nat
  OBVIOUS
<1>3. ToSet(s) \subseteq ToSet(Append(s, x)) /\ x \in ToSet(Append(s, x))
  <2>1. \A i \in DOMAIN s : i \in DOMAIN Append(s, x) /\ s[i] = Append(s, x)[i]
    BY <1>1, <1>2
  <2>2. Len(s) + 1 \in DOMAIN Append(s, x)
    BY <1>1, <1>2
  <2> QED
    BY <1>1, <2>1, <2>2 DEF ToSet
<1>4. ToSet(Append(s, x)) \subseteq ToSet(s) \cup {x}
  <2> SUFFICES ASSUME NEW i \in DOMAIN Append(s, x)
               PROVE  Append(s, x)[i] \in ToSet(s) \cup {x}
    BY DEF ToSet
  <2>1. i \in DOMAIN s \/ i = Len(s) + 1
    BY <1>1, <1>2
  <2> QED
    BY <1>1, <1>2, <2>1 DEF ToSet
<1> QED
  BY <1>3, <1>4

\* Joined queues hold what each of them holds.
LEMMA ToSetConcat ==
  ASSUME NEW S, NEW s \in Seq(S), NEW t \in Seq(S)
  PROVE  ToSet(s \o t) = ToSet(s) \cup ToSet(t)
<1>1. /\ Len(s \o t) = Len(s) + Len(t) /\ DOMAIN (s \o t) = 1 .. Len(s \o t)
      /\ \A i \in 1 .. Len(s) : (s \o t)[i] = s[i]
      /\ \A i \in 1 .. Len(t) : (s \o t)[Len(s) + i] = t[i]
  OBVIOUS
<1>2. /\ DOMAIN s = 1 .. Len(s) /\ Len(s) \in Nat
      /\ DOMAIN t = 1 .. Len(t) /\ Len(t) \in Nat
  OBVIOUS
<1>3. ASSUME NEW i \in DOMAIN (s \o t)
      PROVE  (s \o t)[i] \in ToSet(s) \cup ToSet(t)
  <2>1. CASE i \in 1 .. Len(s)
    BY <2>1, <1>1, <1>2 DEF ToSet
  <2>2. CASE i \notin 1 .. Len(s)
    <3>1. i - Len(s) \in 1 .. Len(t) /\ i = Len(s) + (i - Len(s))
      BY <2>2, <1>1, <1>2, <1>3
    <3> QED
      BY <3>1, <1>1, <1>2 DEF ToSet
  <2> QED
    BY <2>1, <2>2
<1>4. \A i \in DOMAIN s : i \in DOMAIN (s \o t) /\ s[i] = (s \o t)[i]
  BY <1>1, <1>2
<1>5. \A i \in DOMAIN t : Len(s) + i \in DOMAIN (s \o t) /\ t[i] = (s \o t)[Len(s) + i]
  BY <1>1, <1>2
<1>6. ToSet(s \o t) \subseteq ToSet(s) \cup ToSet(t)
  <2> SUFFICES ASSUME NEW x \in ToSet(s \o t)
               PROVE  x \in ToSet(s) \cup ToSet(t)
    OBVIOUS
  <2>1. PICK i \in DOMAIN (s \o t) : x = (s \o t)[i]
    BY DEF ToSet
  <2> QED
    BY <2>1, <1>3
<1>7. ToSet(s) \subseteq ToSet(s \o t)
  <2> SUFFICES ASSUME NEW i \in DOMAIN s
               PROVE  s[i] \in ToSet(s \o t)
    BY DEF ToSet
  <2> QED
    BY <1>4 DEF ToSet
<1>8. ToSet(t) \subseteq ToSet(s \o t)
  <2> SUFFICES ASSUME NEW i \in DOMAIN t
               PROVE  t[i] \in ToSet(s \o t)
    BY DEF ToSet
  <2> QED
    BY <1>5 DEF ToSet
<1> QED
  BY <1>6, <1>7, <1>8

\* A queue holds the message at its head and what is behind it.
LEMMA ToSetHead ==
  ASSUME NEW S, NEW s \in Seq(S), s # <<>>
  PROVE  /\ Head(s) \in S /\ Tail(s) \in Seq(S)
         /\ ToSet(s) = {Head(s)} \cup ToSet(Tail(s))
<1>1. /\ Head(s) \in S /\ Tail(s) \in Seq(S) /\ Head(s) = s[1]
      /\ Len(s) \in Nat \ {0} /\ DOMAIN s = 1 .. Len(s)
      /\ Len(Tail(s)) = Len(s) - 1 /\ DOMAIN Tail(s) = 1 .. Len(s) - 1
      /\ \A i \in 1 .. Len(s) - 1 : Tail(s)[i] = s[i + 1]
  OBVIOUS
<1>2. \A i \in DOMAIN s : i = 1 \/ (i - 1 \in DOMAIN Tail(s) /\ s[i] = Tail(s)[i - 1])
  BY <1>1
<1>3. \A i \in DOMAIN Tail(s) : i + 1 \in DOMAIN s /\ Tail(s)[i] = s[i + 1]
  BY <1>1
<1>4. Head(s) \in ToSet(s)
  <2>1. 1 \in DOMAIN s /\ Head(s) = s[1]
    BY <1>1
  <2> QED
    BY <2>1 DEF ToSet
<1>5. ToSet(Tail(s)) \subseteq ToSet(s)
  <2> SUFFICES ASSUME NEW i \in DOMAIN Tail(s)
               PROVE  Tail(s)[i] \in ToSet(s)
    BY DEF ToSet
  <2> QED
    BY <1>3 DEF ToSet
<1>6. ToSet(s) \subseteq {Head(s)} \cup ToSet(Tail(s))
  <2> SUFFICES ASSUME NEW i \in DOMAIN s
               PROVE  s[i] \in {Head(s)} \cup ToSet(Tail(s))
    BY DEF ToSet
  <2>1. CASE i = 1
    BY <2>1, <1>1
  <2>2. CASE i # 1
    BY <2>2, <1>2 DEF ToSet
  <2> QED
    BY <2>1, <2>2
<1>7. Head(s) \in S /\ Tail(s) \in Seq(S)
  BY <1>1
<1> QED
  BY <1>4, <1>5, <1>6, <1>7

-----------------------------------------------------------------------------
(* Types                                                                   *)

\* What the constructors of a message return.
LEMMA StatusMessage ==
  ASSUME NEW n \in Nat, NEW on \in BOOLEAN
  PROVE  /\ Status(n, on) \in Message /\ Status(n, on).stream = "status"
         /\ Status(n, on).seq = n /\ Status(n, on).online = on
BY DEF Status, Message

LEMMA OtherMessages ==
  /\ \A n \in Nat : Health(n) \in Message /\ Health(n).stream = "health"
  /\ Bad \in Message /\ Bad.stream = "bad"
  /\ NoStatus \in Message /\ NoStatus.stream = "status"
  /\ NoStatus.seq = 0 /\ NoStatus.online = FALSE
BY DEF Health, Bad, NoStatus, Status, Message

\* A message is its stream, sequence and availability.
LEMMA SameMessage ==
  ASSUME NEW m \in Message, NEW n \in Message,
         m.stream = n.stream, m.seq = n.seq, m.online = n.online
  PROVE  m = n
BY DEF Message

LEMMA PairType ==
  ASSUME NEW a \in Nat, NEW b \in Nat
  PROVE  /\ [online |-> a, will |-> b] \in [online : Nat, will : Nat]
         /\ [online |-> a, will |-> b].online = a
         /\ [online |-> a, will |-> b].will = b
OBVIOUS

\* The type invariant in two parts: the Boolean variables, and the others.
Flags == inOrder \in BOOLEAN /\ denied \in BOOLEAN /\ active \in BOOLEAN

Data ==
  /\ allocated \in Nat /\ beats \in Nat
  /\ pair \in [online : Nat, will : Nat]
  /\ link \in {"stopped", "down", "connack", "up", "broken", "hung"}
  /\ conn \in Nat /\ retained \in Message /\ top \in Nat
  /\ bad \in Nat /\ queued \in Seq(Message) /\ held \in Seq(Message)
  /\ consumer \in {"down", "subscribed", "dead"} /\ worker \in {"running", "dead"}
  /\ queue \in Seq(Message)
  /\ cursor \in [StreamOf -> Nat] /\ latest \in Message
  /\ newest \in {"none"} \cup StreamOf

LEMMA TypeParts ==
  /\ TypeOK <=> Flags /\ Data
  /\ TypeOK' <=> Flags' /\ Data'
BY Zenon DEF TypeOK, Flags, Data

LEMMA TypeInit == Init => TypeOK
<1> SUFFICES ASSUME Init
             PROVE  TypeOK
  OBVIOUS
<1>1. NoPair \in [online : Nat, will : Nat]
  BY PairType DEF NoPair
<1>2. retained \in Message /\ latest \in Message
  BY OtherMessages DEF Init
<1>3. cursor \in [StreamOf -> Nat] /\ newest \in {"none"} \cup StreamOf
  BY DEF Init, StreamOf
<1>4. Flags
  BY DEF Init, Flags
<1>5. Data
  <2>1. /\ allocated = 0 /\ beats = 0 /\ pair = NoPair /\ link = "stopped"
        /\ conn = 0 /\ top = 0 /\ bad = 0 /\ queued = <<>> /\ held = <<>>
        /\ consumer = "down" /\ worker = "running" /\ queue = <<>>
    BY Zenon DEF Init
  <2> QED
    BY <1>1, <1>2, <1>3, <2>1 DEF Data
<1> QED
  BY <1>4, <1>5, TypeParts

\* A retained publication keeps the types of the broker's status.
LEMMA RetainType ==
  ASSUME TypeOK, NEW m \in Message, Retain(m)
  PROVE  retained' \in Message /\ top' \in Nat
BY DEF TypeOK, Retain, Message

LEMMA PrepareType ==
  ASSUME TypeOK, PrepareConnection
  PROVE  /\ allocated' = allocated + 2 /\ allocated' \in Nat
         /\ pair' \in [online : Nat, will : Nat]
         /\ pair'.online = allocated + 1 /\ pair'.will = allocated + 2
<1>1. allocated \in Nat /\ allocated + 1 \in Nat /\ allocated + 2 \in Nat
  BY DEF TypeOK
<1> QED
  BY <1>1, PairType DEF PrepareConnection

LEMMA NoPairType ==
  /\ NoPair \in [online : Nat, will : Nat]
  /\ NoPair.online = 0 /\ NoPair.will = 0
BY PairType DEF NoPair

LEMMA ResumedType ==
  ASSUME TypeOK
  PROVE  Resumed \in Seq(Message)
<1>1. held \o queued \in Seq(Message)
  BY DEF TypeOK
<1>2. Append(held \o queued, retained) \in Seq(Message)
  BY <1>1 DEF TypeOK
<1> QED
  BY <1>1, <1>2 DEF Resumed

\* A publication of one message or two, and nothing, keeps the backlog typed.
LEMMA QueueType ==
  ASSUME NEW S, NEW s \in Seq(S), NEW a \in S, NEW b \in S
  PROVE  Append(s, a) \in Seq(S) /\ s \o <<a, b>> \in Seq(S)
<1>1. <<a, b>> \in Seq(S)
  OBVIOUS
<1> QED
  BY <1>1

LEMMA FlagsStep ==
  ASSUME Flags, [Next]_vars
  PROVE  Flags'
<1>1. \/ UNCHANGED inOrder
      \/ \E m : Retain(m)
  BY Zenon DEF Next, Agent, Central, Start, Connect, OnConnect, OnConnectFails, Heartbeat,
     LoseLink, Stop, Crash, DropConnection, FireWill, PublishBad, Subscribe, Unsubscribe,
     Submit, NotAccepted, CallbackFails, Persist, PersistDuplicate, Refuse,
     RefuseFails, Restart, SetActive, vars, broker, status
<1>2. \/ UNCHANGED denied
      \/ \E m : Retain(m)
      \/ Refuse
  BY Zenon DEF Next, Agent, Central, Start, Connect, OnConnect, OnConnectFails, Heartbeat,
     LoseLink, Stop, Crash, DropConnection, FireWill, PublishBad, Subscribe, Unsubscribe,
     Submit, NotAccepted, CallbackFails, Persist, PersistDuplicate,
     RefuseFails, Restart, SetActive, vars, broker, status
<1>3. UNCHANGED active \/ SetActive
  BY Zenon DEF Next, Agent, Central, Start, Connect, OnConnect, OnConnectFails, Heartbeat,
     LoseLink, Stop, Crash, DropConnection, PublishBad, Subscribe, Unsubscribe,
     Submit, NotAccepted, CallbackFails, Persist, PersistDuplicate, Refuse,
     RefuseFails, Restart, vars
<1>4. inOrder' \in BOOLEAN
  <2>1. CASE \E m : Retain(m)
    <3>1. PICK m : Retain(m)
      BY <2>1
    <3>2. inOrder' = (m.seq > top)
      BY <3>1 DEF Retain
    <3>3. (m.seq > top) \in BOOLEAN
      OBVIOUS
    <3> QED
      BY <3>2, <3>3, Zenon
  <2>2. CASE UNCHANGED inOrder
    BY <2>2, Zenon DEF Flags
  <2> QED
    BY <1>1, <2>1, <2>2
<1>5. denied' \in BOOLEAN
  <2>1. CASE Refuse
    <3>1. denied' = (denied \/ (~active /\ Pending = retained))
      BY <2>1 DEF Refuse
    <3> QED
      BY <3>1, Zenon
  <2>2. CASE \E m : Retain(m)
    BY <2>2 DEF Retain
  <2> QED
    BY <1>2, <2>1, <2>2 DEF Flags
<1>6. active' \in BOOLEAN
  BY <1>3 DEF Flags, SetActive
<1> QED
  BY <1>4, <1>5, <1>6 DEF Flags

LEMMA DataStep ==
  ASSUME TypeOK, [Next]_vars
  PROVE  Data'
<1>0. /\ \A n \in Nat : Status(n, TRUE) \in Message /\ Status(n, FALSE) \in Message
      /\ \A n \in Nat : Health(n) \in Message
      /\ Bad \in Message
  BY StatusMessage, OtherMessages
<1>a. Data
  BY TypeParts
<1> USE DEF Data, agent, status, broker, stored
<1>1. CASE UNCHANGED vars
  BY <1>a, <1>1 DEF vars
<1>2. CASE Start
  BY <1>a, <1>2, PrepareType DEF Start
<1>3. CASE Connect
  <2>1. pair.will \in Nat
    BY <1>a
  <2>2. CASE conn = 0 /\ UNCHANGED <<status, queued>>
    BY <1>a, <1>3, <2>1, <2>2 DEF Connect
  <2>3. CASE FireWill
    <3>1. queued' \in Seq(Message)
      BY <1>a, <2>3, <1>0, QueueType DEF FireWill
    <3>2. retained' \in Message /\ top' \in Nat
      BY <1>a, <2>3, <1>0, RetainType DEF FireWill
    <3> QED
      BY <1>a, <1>3, <2>1, <3>1, <3>2 DEF Connect
  <2> QED
    BY <1>3, <2>2, <2>3 DEF Connect
<1>4. CASE OnConnect
  <2>1. pair.online \in Nat /\ Status(pair.online, TRUE) \in Message
    BY <1>a, <1>0
  <2>2. PrepareConnection
    BY <1>4 DEF OnConnect
  <2>3. /\ beats' \in Nat /\ link' \in {"up", "broken"}
        /\ queued' \in Seq(Message)
        /\ Retain(Status(pair.online, TRUE)) \/ UNCHANGED status
    <3>1. beats + 1 \in Nat /\ Health(beats + 1) \in Message
      BY <1>a, <1>0
    <3>2. /\ queued \o <<Status(pair.online, TRUE), Health(beats + 1)>> \in Seq(Message)
          /\ Append(queued, Status(pair.online, TRUE)) \in Seq(Message)
      BY <1>a, <2>1, <3>1, QueueType
    <3>3. \/ /\ Retain(Status(pair.online, TRUE)) /\ beats' = beats + 1
             /\ queued' = queued \o <<Status(pair.online, TRUE), Health(beats + 1)>>
             /\ link' = "up"
          \/ /\ Retain(Status(pair.online, TRUE)) /\ beats' = beats
             /\ queued' = Append(queued, Status(pair.online, TRUE))
             /\ link' = "up"
          \/ link' = "broken" /\ UNCHANGED <<beats, status, queued>>
      BY <1>4 DEF OnConnect
    <3> QED
      BY <1>a, <3>1, <3>2, <3>3 DEF Data
  <2>4. retained' \in Message /\ top' \in Nat
    BY <1>a, <2>1, <2>3, RetainType
  <2>5. UNCHANGED <<conn, bad, held, consumer, worker, queue, active, stored>>
    BY <1>4 DEF OnConnect
  <2> QED
    BY <1>a, <2>2, <2>3, <2>4, <2>5, PrepareType
<1>5. CASE OnConnectFails
  <2>1. pair.online \in Nat /\ Status(pair.online, TRUE) \in Message
    BY <1>a, <1>0
  <2>2. CASE UNCHANGED <<status, queued>>
    BY <1>a, <1>5, <2>2 DEF OnConnectFails
  <2>3. CASE /\ Retain(Status(pair.online, TRUE))
             /\ queued' = Append(queued, Status(pair.online, TRUE))
    <3>1. queued' \in Seq(Message)
      BY <1>a, <2>3, <2>1, QueueType
    <3>2. retained' \in Message /\ top' \in Nat
      BY <2>3, <2>1, RetainType
    <3>3. link' = "hung"
          /\ UNCHANGED <<allocated, beats, pair, conn, bad, held, consumer, worker, queue, stored>>
      BY <1>5 DEF OnConnectFails
    <3> QED
      BY <1>a, <3>1, <3>2, <3>3
  <2> QED
    BY <1>5, <2>2, <2>3 DEF OnConnectFails
<1>6. CASE Heartbeat
  <2>1. beats + 1 \in Nat /\ Append(queued, Health(beats + 1)) \in Seq(Message)
    BY <1>a, <1>0, QueueType
  <2> QED
    BY <1>a, <1>6, <2>1 DEF Heartbeat
<1>7. CASE LoseLink
  BY <1>a, <1>7 DEF LoseLink
<1>8. CASE Stop
  <2>0. allocated + 1 \in Nat
    BY <1>a
  <2>1. allocated + 1 \in Nat /\ Status(allocated + 1, FALSE) \in Message
    BY <2>0, <1>0
  <2>2. CASE UNCHANGED <<status, queued, conn>>
    <3>1. /\ allocated' = allocated + 1 /\ pair' = NoPair /\ link' = "stopped"
          /\ UNCHANGED <<beats, bad, held, consumer, worker, queue, stored>>
      BY <1>8 DEF Stop
    <3> QED
      BY <1>a, <2>1, <2>2, <3>1, NoPairType
  <2>3. CASE /\ Retain(Status(allocated + 1, FALSE))
             /\ queued' = Append(queued, Status(allocated + 1, FALSE))
             /\ conn' \in {0, conn}
    <3>1. queued' \in Seq(Message)
      BY <1>a, <2>3, <2>1, QueueType
    <3>2. retained' \in Message /\ top' \in Nat
      BY <2>3, <2>1, RetainType
    <3>3. /\ allocated' = allocated + 1 /\ pair' = NoPair /\ link' = "stopped"
          /\ UNCHANGED <<beats, bad, held, consumer, worker, queue, stored>>
      BY <1>8 DEF Stop
    <3> QED
      BY <1>a, <2>1, <2>3, <3>1, <3>2, <3>3, NoPairType
  <2> QED
    BY <1>8, <2>2, <2>3 DEF Stop
<1>9. CASE Crash
  BY <1>a, <1>9, NoPairType DEF Crash
<1>10. CASE DropConnection
  <2>1. queued' \in Seq(Message)
    BY <1>a, <1>10, <1>0, QueueType DEF DropConnection, FireWill
  <2>2. retained' \in Message /\ top' \in Nat
    BY <1>a, <1>10, <1>0, RetainType DEF DropConnection, FireWill
  <2> QED
    BY <1>a, <1>10, <2>1, <2>2 DEF DropConnection
<1>11. CASE PublishBad
  <2>1. bad + 1 \in Nat /\ Append(queued, Bad) \in Seq(Message)
    BY <1>a, <1>0, QueueType
  <2> QED
    BY <1>a, <1>11, <2>1 DEF PublishBad
<1>12. CASE Subscribe
  BY <1>a, <1>12, ResumedType DEF Subscribe
<1>13. CASE Unsubscribe \/ Restart
  <2>1. CASE Unsubscribe
    BY <1>a, <2>1 DEF Unsubscribe
  <2>2. CASE Restart
    BY <1>a, <2>2 DEF Restart
  <2> QED
    BY <1>13, <2>1, <2>2
<1>14. CASE Submit \/ NotAccepted \/ CallbackFails
  <2>1. Head(queued) \in Message /\ Tail(queued) \in Seq(Message)
    BY <1>a, <1>14, ToSetHead DEF Submit, NotAccepted, CallbackFails, CanDeliver
  <2>2. /\ Append(queue, Head(queued)) \in Seq(Message)
        /\ Append(held, Head(queued)) \in Seq(Message)
    BY <1>a, <2>1, QueueType
  <2> QED
    BY <1>a, <1>14, <2>1, <2>2 DEF Submit, NotAccepted, CallbackFails
<1>15. CASE Persist
  <2>1. Head(queue) \in Message /\ Tail(queue) \in Seq(Message)
    BY <1>a, <1>15, ToSetHead DEF Persist, CanPersist
  <2>2. cursor' = [cursor EXCEPT ![Head(queue).stream] = Head(queue).seq]
    BY <1>15 DEF Persist, Pending
  <2>3. cursor' \in [StreamOf -> Nat]
    BY <1>a, <2>1, <2>2 DEF Message
  <2>4. latest' \in Message
    BY <1>a, <1>15, <2>1 DEF Persist, Pending
  <2> QED
    BY <1>a, <1>15, <2>1, <2>3, <2>4 DEF Persist, Pending
<1>16. CASE PersistDuplicate \/ Refuse \/ RefuseFails
  <2>1. Tail(queue) \in Seq(Message)
    BY <1>a, <1>16, ToSetHead DEF PersistDuplicate, Refuse, RefuseFails, CanPersist
  <2> QED
    BY <1>a, <1>16, <2>1 DEF PersistDuplicate, Refuse, RefuseFails
<1>19. CASE SetActive
  BY <1>a, <1>19 DEF SetActive
<1> QED
  BY <1>1, <1>2, <1>3, <1>4, <1>5, <1>6, <1>7, <1>8, <1>9, <1>10, <1>11, <1>12,
     <1>13, <1>14, <1>15, <1>16, <1>19, Zenon DEF Next, Agent, Central

LEMMA TypeStep == TypeOK /\ [Next]_vars => TypeOK'
BY FlagsStep, DataStep, TypeParts

-----------------------------------------------------------------------------
(* Sequences and their meaning                                             *)

\* What the invariant says of the messages and what the central service has
\* stored of them.
Told ==
  /\ \A m \in Statuses : m.seq <= top
  /\ retained.stream = "status" /\ latest.stream = "status"
  /\ inOrder => retained.seq = top
  /\ cursor["status"] = latest.seq
  /\ \A m \in ToSet(queue) : m.stream \in StreamOf
  /\ \A m, n \in Statuses : m.seq = n.seq => m = n

\* What it says of the sequences the agent and its connection still hold.
Reserved ==
  /\ top <= allocated /\ conn <= allocated
  /\ pair.online <= allocated /\ pair.will <= allocated
  /\ \A m \in Statuses : m.seq \in {0, conn, pair.will} => ~m.online
  /\ Prepared =>
       /\ pair.online > 0 /\ pair.online < pair.will /\ pair.online # conn
       /\ \A m \in Statuses : m.seq # pair.online

LEMMA Parts ==
  /\ InSequence /\ OneMeaning <=> Told /\ Reserved
  /\ InSequence' /\ OneMeaning' <=> Told' /\ Reserved'
<1>1. InSequence /\ OneMeaning <=> Told /\ Reserved
  BY Zenon DEF InSequence, OneMeaning, Told, Reserved
<1>2. InSequence' /\ OneMeaning' <=> Told' /\ Reserved'
  BY Zenon DEF InSequence, OneMeaning, Told, Reserved
<1> QED
  BY <1>1, <1>2

LEMMA StatusesType ==
  ASSUME TypeOK
  PROVE  /\ \A m \in Statuses : m \in Message /\ m.seq \in Nat /\ m.stream = "status"
         /\ \A m \in Waiting : m \in Message
<1>1. \A s \in Seq(Message) : ToSet(s) \subseteq Message
  BY DEF ToSet
<1>2. Waiting \subseteq Message
  BY <1>1 DEF Waiting, TypeOK
<1> QED
  BY <1>2 DEF Statuses, Message, TypeOK

LEMMA NumbersType ==
  ASSUME TypeOK
  PROVE  /\ allocated \in Nat /\ pair.online \in Nat /\ pair.will \in Nat
         /\ conn \in Nat /\ top \in Nat
BY DEF TypeOK

\* Steps after which nothing is under way that was not before.
NothingNew ==
  /\ Statuses' \subseteq Statuses
  /\ UNCHANGED <<retained, top, inOrder>>

LEMMA ToldKept ==
  ASSUME Told, NothingNew, latest'.stream = "status", cursor'["status"] = latest'.seq,
         \A m \in ToSet(queue') : m.stream \in StreamOf
  PROVE  Told'
<1>1. \A m \in Statuses' : m.seq <= top'
  BY DEF Told, NothingNew
<1>2. retained'.stream = "status" /\ (inOrder' => retained'.seq = top')
  BY Zenon DEF Told, NothingNew
<1>3. \A m, n \in Statuses' : m.seq = n.seq => m = n
  BY DEF Told, NothingNew
<1> QED
  BY <1>1, <1>2, <1>3, Zenon DEF Told

LEMMA ReservedKept ==
  ASSUME Reserved, NothingNew, UNCHANGED <<allocated, pair, link, conn>>
  PROVE  Reserved'
<1>1. Prepared' <=> Prepared
  BY DEF Prepared
<1> QED
  BY <1>1 DEF Reserved, NothingNew

\* A status is published that has one meaning with those under way.
LEMMA ToldPublished ==
  ASSUME TypeOK, Told, NEW m \in Message, m.stream = "status",
         Retain(m), Statuses' \subseteq Statuses \cup {m},
         \A n \in Statuses : n.seq = m.seq => n = m,
         UNCHANGED <<cursor, latest, queue>>
  PROVE  Told' /\ (top' = top \/ top' = m.seq)
<1>0. m.seq \in Nat /\ top \in Nat /\ \A n \in Statuses : n.seq \in Nat
  BY StatusesType, NumbersType DEF Message
<1>1. retained' = m /\ top' = (IF m.seq > top THEN m.seq ELSE top)
  BY DEF Retain
<1>2. inOrder' => m.seq > top
  BY Zenon DEF Retain
<1>3. \A n \in Statuses' : n.seq <= top'
  BY <1>0, <1>1 DEF Told
<1>4. \A k, n \in Statuses' : k.seq = n.seq => k = n
  BY DEF Told
<1>5. m.seq > top => retained'.seq = top'
  BY <1>1
<1>6. /\ retained'.stream = "status" /\ latest'.stream = "status"
      /\ cursor'["status"] = latest'.seq
      /\ \A n \in ToSet(queue') : n.stream \in StreamOf
  BY <1>1 DEF Told
<1>7. Told'
  BY <1>2, <1>3, <1>4, <1>5, <1>6, Zenon DEF Told
<1> QED
  BY <1>1, <1>7

-----------------------------------------------------------------------------
(* What the steps add to the messages under way                            *)

LEMMA Idle ==
  ASSUME UNCHANGED <<queued, held, queue, retained, latest>>
  PROVE  Waiting' = Waiting /\ Statuses' = Statuses
<1>1. Waiting' = Waiting
  BY DEF Waiting
<1> QED
  BY <1>1 DEF Statuses

LEMMA Publishes ==
  ASSUME TypeOK, NEW m \in Message, Retain(m), queued' = Append(queued, m),
         UNCHANGED <<held, queue, latest>>
  PROVE  Statuses' \subseteq Statuses \cup {m} /\ retained' \in Waiting'
<1>1. ToSet(queued') = ToSet(queued) \cup {m}
  BY ToSetAppend DEF TypeOK
<1>2. Waiting' = Waiting \cup {m}
  BY <1>1 DEF Waiting
<1>3. retained' = m
  BY DEF Retain
<1> QED
  BY <1>2, <1>3 DEF Statuses

LEMMA PublishesBoth ==
  ASSUME TypeOK, NEW m \in Message, NEW h \in Message, h.stream = "health",
         Retain(m), queued' = queued \o <<m, h>>, UNCHANGED <<held, queue, latest>>
  PROVE  Statuses' \subseteq Statuses \cup {m} /\ retained' \in Waiting'
<1> DEFINE both == <<m, h>>
<1>1. ToSet(both) = {m, h} /\ both \in Seq(Message)
  BY DEF ToSet
<1>2. ToSet(queued') = ToSet(queued) \cup {m, h}
  <2>1. queued' = queued \o both /\ queued \in Seq(Message)
    BY DEF TypeOK
  <2> HIDE DEF both
  <2>2. ToSet(queued \o both) = ToSet(queued) \cup ToSet(both)
    BY <1>1, <2>1, ToSetConcat
  <2> QED
    BY <1>1, <2>1, <2>2
<1>3. Waiting' = Waiting \cup {m, h}
  BY <1>2 DEF Waiting
<1>4. retained' = m
  BY DEF Retain
<1> QED
  BY <1>3, <1>4 DEF Statuses

LEMMA AddsOther ==
  ASSUME TypeOK, NEW m \in Message, m.stream # "status", queued' = Append(queued, m),
         UNCHANGED <<held, queue, retained, latest>>
  PROVE  Statuses' \subseteq Statuses /\ Waiting \subseteq Waiting'
<1>1. ToSet(queued') = ToSet(queued) \cup {m}
  BY ToSetAppend DEF TypeOK
<1>2. Waiting' = Waiting \cup {m}
  BY <1>1 DEF Waiting
<1> QED
  BY <1>2 DEF Statuses

\* What the session holds again when the service is back.
LEMMA ResumedHolds ==
  ASSUME TypeOK
  PROVE  /\ ToSet(held) \cup ToSet(queued) \subseteq ToSet(Resumed)
         /\ ToSet(Resumed) \subseteq ToSet(held) \cup ToSet(queued) \cup {retained}
         /\ retained = NoStatus \/ retained \in ToSet(Resumed)
<1> DEFINE waiting == held \o queued
<1>1. waiting \in Seq(Message) /\ ToSet(waiting) = ToSet(held) \cup ToSet(queued)
  BY ToSetConcat DEF TypeOK
<1>2. ToSet(Append(waiting, retained)) = ToSet(waiting) \cup {retained}
  <2>1. retained \in Message
    BY DEF TypeOK
  <2> HIDE DEF waiting
  <2> QED
    BY <1>1, <2>1, ToSetAppend
<1>3. CASE retained = NoStatus \/ \E i \in DOMAIN waiting : waiting[i] = retained
  <2>1. Resumed = waiting
    BY <1>3 DEF Resumed
  <2>2. retained = NoStatus \/ retained \in ToSet(waiting)
    BY <1>3 DEF ToSet
  <2> HIDE DEF waiting
  <2> QED
    BY <1>1, <2>1, <2>2
<1>4. CASE ~(retained = NoStatus \/ \E i \in DOMAIN waiting : waiting[i] = retained)
  <2>1. Resumed = Append(waiting, retained)
    BY <1>4 DEF Resumed
  <2> HIDE DEF waiting
  <2> QED
    BY <1>1, <1>2, <2>1
<1> QED
  BY <1>3, <1>4

LEMMA Subscribes ==
  ASSUME TypeOK, Subscribe
  PROVE  /\ Waiting \subseteq Waiting' /\ Waiting' \subseteq Waiting \cup {retained}
         /\ Statuses' \subseteq Statuses
         /\ retained = NoStatus \/ retained \in Waiting'
<1>1. queued' = Resumed /\ ToSet(held') = {} /\ UNCHANGED <<retained, latest, queue>>
  BY DEF Subscribe, status, stored, ToSet
<1>2. Waiting' = ToSet(Resumed) \cup ToSet(queue)
  BY <1>1 DEF Waiting
<1>3. Waiting' \subseteq Waiting \cup {retained} /\ Waiting \subseteq Waiting'
  BY <1>2, ResumedHolds DEF Waiting
<1> QED
  BY <1>1, <1>2, <1>3, ResumedHolds DEF Statuses

\* The callback moves the next message: it stays under way.
LEMMA Moves ==
  ASSUME TypeOK, Submit \/ NotAccepted \/ CallbackFails
  PROVE  Waiting' = Waiting /\ Statuses' = Statuses
<1>1. queued # <<>> /\ queued' = Tail(queued) /\ UNCHANGED <<retained, latest>>
  BY DEF Submit, NotAccepted, CallbackFails, CanDeliver, status, stored
<1>2. /\ Head(queued) \in Message
      /\ ToSet(queued) = {Head(queued)} \cup ToSet(queued')
  BY <1>1, ToSetHead DEF TypeOK
<1>3. /\ ToSet(Append(queue, Head(queued))) = ToSet(queue) \cup {Head(queued)}
      /\ ToSet(Append(held, Head(queued))) = ToSet(held) \cup {Head(queued)}
  BY <1>2, ToSetAppend DEF TypeOK
<1>4. \/ /\ queue' = Append(queue, Head(queued))
         /\ held' = held \/ held' = Append(held, Head(queued))
      \/ queue' = queue /\ held' = Append(held, Head(queued))
  BY DEF Submit, NotAccepted, CallbackFails
<1>5. Waiting' = Waiting
  BY <1>2, <1>3, <1>4 DEF Waiting
<1> QED
  BY <1>1, <1>5 DEF Statuses

\* The worker takes the message at the head of its queue.
LEMMA Takes ==
  ASSUME TypeOK, CanPersist, queue' = Tail(queue), UNCHANGED <<queued, held>>
  PROVE  /\ Pending \in Message /\ Pending \in ToSet(queue) /\ Pending \in Waiting
         /\ ToSet(queue') \subseteq ToSet(queue)
         /\ Waiting' \subseteq Waiting /\ Waiting \subseteq Waiting' \cup {Pending}
<1>1. /\ Pending \in Message
      /\ ToSet(queue) = {Pending} \cup ToSet(queue')
  BY ToSetHead DEF TypeOK, CanPersist, Pending
<1> QED
  BY <1>1 DEF Waiting

-----------------------------------------------------------------------------
(* The steps of the central service                                        *)

\* Its steps bring nothing new under way and keep the cursor at the row.
LEMMA CentralTold ==
  ASSUME TypeOK, Told, Central
  PROVE  NothingNew /\ Told'
<1>0. UNCHANGED <<retained, top, inOrder>>
  BY DEF Central, Subscribe, Unsubscribe, Submit, NotAccepted, CallbackFails, Persist,
     PersistDuplicate, Refuse, RefuseFails, Restart, SetActive, broker, status
<1> DEFINE Row    == latest'.stream = "status" /\ cursor'["status"] = latest'.seq
           Queued == \A m \in ToSet(queue') : m.stream \in StreamOf
<1>1. UNCHANGED <<latest, cursor>> => Row
  BY DEF Told
<1>2. ToSet(queue') \subseteq ToSet(queue) => Queued
  BY DEF Told
<1>3. CASE Subscribe
  BY <1>3, <1>0, <1>1, <1>2, Subscribes, ToldKept DEF Subscribe, stored, NothingNew
<1>4. CASE Unsubscribe \/ SetActive
  BY <1>4, <1>0, <1>1, <1>2, Idle, ToldKept DEF Unsubscribe, SetActive, broker, status, stored, NothingNew
<1>5. CASE Submit
  <2>1. Head(queued).stream \in StreamOf
    <3>1. Head(queued) \in Message
      BY <1>5, ToSetHead DEF TypeOK, Submit, CanDeliver
    <3> QED
      BY <1>5, <3>1 DEF Submit, Message, StreamOf
  <2>2. ToSet(queue') = ToSet(queue) \cup {Head(queued)}
    <3>1. Head(queued) \in Message
      BY <1>5, ToSetHead DEF TypeOK, Submit, CanDeliver
    <3> QED
      BY <1>5, <3>1, ToSetAppend DEF TypeOK, Submit
  <2>3. Queued
    BY <2>1, <2>2 DEF Told
  <2> QED
    BY <1>5, <1>0, <1>1, <2>3, Moves, ToldKept DEF Submit, stored, NothingNew
<1>6. CASE NotAccepted \/ CallbackFails
  BY <1>6, <1>0, <1>1, <1>2, Moves, ToldKept DEF NotAccepted, CallbackFails, stored, NothingNew
<1>7. CASE Persist
  <2>1. /\ CanPersist /\ queue' = Tail(queue) /\ UNCHANGED <<queued, held>>
        /\ cursor' = [cursor EXCEPT ![Pending.stream] = Pending.seq]
        /\ latest' = IF Pending.stream = "status" THEN Pending ELSE latest
    BY <1>7 DEF Persist, broker
  <2>2. Row
    <3>1. cursor \in [StreamOf -> Nat] /\ "status" \in StreamOf
      BY DEF TypeOK, StreamOf
    <3> QED
      BY <2>1, <3>1 DEF Told
  <2>3. Statuses' \subseteq Statuses
    BY <2>1, <1>0, Takes DEF Statuses
  <2> QED
    BY <1>0, <1>2, <2>1, <2>2, <2>3, Takes, ToldKept DEF NothingNew
<1>8. CASE PersistDuplicate \/ Refuse \/ RefuseFails
  <2>1. /\ CanPersist /\ queue' = Tail(queue) /\ UNCHANGED <<queued, held>>
        /\ UNCHANGED <<latest, cursor>>
    BY <1>8 DEF PersistDuplicate, Refuse, RefuseFails, broker, stored
  <2>3. Statuses' \subseteq Statuses
    BY <2>1, <1>0, Takes DEF Statuses
  <2> QED
    BY <1>0, <1>1, <1>2, <2>1, <2>3, Takes, ToldKept DEF NothingNew
<1>9. CASE Restart
  <2>1. ToSet(queue') = {} /\ UNCHANGED <<queued, held, retained, latest, cursor>>
    BY <1>9 DEF Restart, broker, status, stored, ToSet
  <2>2. Statuses' \subseteq Statuses
    BY <2>1 DEF Statuses, Waiting
  <2> QED
    BY <1>0, <1>1, <1>2, <2>1, <2>2, ToldKept DEF NothingNew
<1> QED
  BY <1>3, <1>4, <1>5, <1>6, <1>7, <1>8, <1>9 DEF Central

\* Nor do they touch what the agent and its connection hold.
LEMMA CentralReserved ==
  ASSUME TypeOK, Told, Reserved, Central
  PROVE  Reserved'
<1>1. UNCHANGED <<allocated, pair, link, conn>>
  BY DEF Central, Subscribe, Unsubscribe, Submit, NotAccepted, CallbackFails, Persist,
     PersistDuplicate, Refuse, RefuseFails, Restart, SetActive, broker, agent
<1> QED
  BY <1>1, CentralTold, ReservedKept

-----------------------------------------------------------------------------
(* The steps of the agent and its connection                               *)

\* The retained status goes out, or what was under way stays there.
Delivers ==
  \/ retained' \in Waiting'
  \/ Waiting \subseteq Waiting' /\ UNCHANGED <<consumer, worker, retained, latest, inOrder, denied>>

\* Nothing is published: only the sequences the agent holds may change.
LEMMA Silent ==
  ASSUME Told, UNCHANGED <<status, queued, held, queue, stored, consumer, worker>>
  PROVE  Told' /\ NothingNew /\ Delivers
<1>1. /\ UNCHANGED <<queued, held, queue, retained, latest, top, inOrder, denied, cursor>>
      /\ UNCHANGED <<consumer, worker>>
  BY DEF status, stored
<1>2. Waiting' = Waiting /\ Statuses' = Statuses
  BY <1>1, Idle
<1>3. NothingNew /\ Delivers
  BY <1>1, <1>2, Zenon DEF NothingNew, Delivers
<1>4. latest'.stream = "status" /\ cursor'["status"] = latest'.seq
      /\ \A m \in ToSet(queue') : m.stream \in StreamOf
  BY <1>1 DEF Told
<1> QED
  BY <1>3, <1>4, ToldKept

\* The will of the connection the broker holds.
LEMMA WillPublished ==
  ASSUME TypeOK, Told, Reserved, FireWill, UNCHANGED <<held, queue, stored>>
  PROVE  /\ Told' /\ Delivers /\ top' <= allocated /\ top' \in Nat
         /\ Statuses' \subseteq Statuses \cup {Status(conn, FALSE)}
<1>1. /\ Status(conn, FALSE) \in Message /\ Status(conn, FALSE).stream = "status"
      /\ Status(conn, FALSE).seq = conn /\ Status(conn, FALSE).online = FALSE
  BY StatusMessage DEF TypeOK
<1>2. /\ Retain(Status(conn, FALSE)) /\ queued' = Append(queued, Status(conn, FALSE))
      /\ UNCHANGED <<latest, cursor>>
  BY DEF FireWill, stored
<1>3. /\ Statuses' \subseteq Statuses \cup {Status(conn, FALSE)}
      /\ retained' \in Waiting'
  BY <1>1, <1>2, Publishes
<1>4. ASSUME NEW n \in Statuses, n.seq = Status(conn, FALSE).seq
      PROVE  n = Status(conn, FALSE)
  <2>1. ~n.online /\ n \in Message /\ n.stream = "status"
    BY <1>1, <1>4, StatusesType DEF Reserved
  <2>2. n.online = FALSE
    BY <2>1 DEF Message
  <2> QED
    BY <1>1, <1>4, <2>1, <2>2, SameMessage
<1>5. Told' /\ (top' = top \/ top' = conn)
  BY <1>1, <1>2, <1>3, <1>4, ToldPublished
<1> QED
  BY <1>3, <1>5, NumbersType DEF Reserved, Delivers

\* The online status of the pair the agent has prepared.
LEMMA OnlinePublished ==
  ASSUME TypeOK, Told, Reserved, Prepared, Retain(Status(pair.online, TRUE)),
         Statuses' \subseteq Statuses \cup {Status(pair.online, TRUE)},
         UNCHANGED <<queue, stored>>
  PROVE  Told' /\ top' <= allocated /\ top' \in Nat
<1>1. /\ Status(pair.online, TRUE) \in Message /\ Status(pair.online, TRUE).stream = "status"
      /\ Status(pair.online, TRUE).seq = pair.online
  BY StatusMessage, NumbersType
<1>2. \A n \in Statuses : n.seq = Status(pair.online, TRUE).seq => n = Status(pair.online, TRUE)
  BY <1>1 DEF Reserved
<1>3. Told' /\ (top' = top \/ top' = pair.online)
  BY <1>1, <1>2, ToldPublished DEF stored
<1> QED
  BY <1>3, NumbersType DEF Reserved

\* A new pair lies above everything allocated before.
LEMMA FreshPair ==
  ASSUME TypeOK, Told, Reserved, PrepareConnection, top' \in Nat, top' <= allocated,
         Statuses' \subseteq Statuses \cup {Status(pair.online, TRUE)},
         Statuses' \subseteq Statuses \/ Prepared,
         UNCHANGED conn
  PROVE  Reserved'
<1>1. /\ allocated' = allocated + 2
      /\ pair'.online = allocated + 1 /\ pair'.will = allocated + 2
  BY PrepareType
<1>2. /\ allocated \in Nat /\ pair.online \in Nat /\ conn \in Nat /\ top \in Nat
      /\ \A m \in Statuses : m.seq \in Nat
  BY NumbersType, StatusesType
<1>3. ASSUME NEW m \in Statuses'
      PROVE  /\ m.seq <= allocated /\ m.seq \in Nat
             /\ m.seq \in {0, conn} => ~m.online
  <2>1. CASE m \in Statuses
    BY <2>1, <1>2 DEF Told, Reserved
  <2>2. CASE m = Status(pair.online, TRUE) /\ Prepared
    <3>1. m.seq = pair.online
      BY <2>2, <1>2, StatusMessage
    <3>2. pair.online <= allocated /\ pair.online > 0 /\ pair.online # conn
      BY <2>2, Zenon DEF Reserved
    <3> QED
      BY <3>1, <3>2, <1>2
  <2> QED
    BY <1>3, <2>1, <2>2
<1>4. \A m \in Statuses' : m.seq # pair'.online /\ m.seq # pair'.will
  BY <1>1, <1>2, <1>3
<1>5. /\ top' <= allocated' /\ conn' <= allocated'
      /\ pair'.online <= allocated' /\ pair'.will <= allocated'
      /\ pair'.online > 0 /\ pair'.online < pair'.will /\ pair'.online # conn'
  <2>1. conn <= allocated
    BY DEF Reserved
  <2> QED
    BY <1>1, <1>2, <2>1
<1>6. \A m \in Statuses' : m.seq \in {0, conn', pair'.will} => ~m.online
  BY <1>3, <1>4
<1> QED
  BY <1>4, <1>5, <1>6 DEF Reserved

LEMMA StartStep ==
  ASSUME TypeOK, Told, Reserved, Start
  PROVE  Told' /\ Reserved' /\ Delivers
<1>1. Told' /\ NothingNew /\ Delivers
  BY Silent DEF Start, broker
<1>2. PrepareConnection /\ UNCHANGED conn
  BY DEF Start, broker
<1>3. top' \in Nat /\ top' <= allocated
  BY <1>1, NumbersType DEF NothingNew, Reserved
<1> QED
  BY <1>1, <1>2, <1>3, FreshPair DEF NothingNew

LEMMA ConnectStep ==
  ASSUME TypeOK, Told, Reserved, Connect
  PROVE  Told' /\ Reserved' /\ Delivers
<1>1. /\ Prepared /\ link' = "connack" /\ conn' = pair.will
      /\ UNCHANGED <<allocated, pair, held, queue, stored, consumer, worker>>
  BY DEF Connect, Prepared
<1>2. /\ Told' /\ Delivers /\ top' <= allocated /\ top' \in Nat
      /\ Statuses' \subseteq Statuses \cup {Status(conn, FALSE)}
  <2>1. CASE conn = 0 /\ UNCHANGED <<status, queued>>
    BY <1>1, <2>1, Silent, NumbersType DEF NothingNew, Reserved
  <2>2. CASE FireWill
    BY <1>1, <2>2, WillPublished
  <2> QED
    BY <2>1, <2>2 DEF Connect
<1>3. /\ pair.online > 0 /\ pair.online < pair.will /\ pair.online # conn
      /\ \A m \in Statuses : m.seq # pair.online
      /\ pair.online <= allocated /\ pair.will <= allocated
  BY <1>1, Zenon DEF Reserved
<1>4. pair.online # pair.will
  BY <1>3, NumbersType
<1>5. Status(conn, FALSE).seq = conn /\ ~Status(conn, FALSE).online
  BY StatusMessage, NumbersType
<1>6. \A m \in Statuses' : m.seq # pair.online
  BY <1>2, <1>3, <1>5
<1>7. \A m \in Statuses' : m.seq \in {0, pair.will} => ~m.online
  BY <1>2, <1>5 DEF Reserved
<1>8. Prepared'
  BY <1>1 DEF Prepared
<1>9. Reserved'
  BY <1>1, <1>2, <1>3, <1>4, <1>6, <1>7, <1>8 DEF Reserved
<1> QED
  BY <1>2, <1>9

LEMMA OnConnectStep ==
  ASSUME TypeOK, Told, Reserved, OnConnect
  PROVE  Told' /\ Reserved' /\ Delivers
<1>1. /\ Prepared /\ PrepareConnection
      /\ UNCHANGED <<conn, held, queue, stored, consumer, worker>>
  BY DEF OnConnect, Prepared
<1>2. CASE UNCHANGED <<status, queued>>
  <2>1. Told' /\ NothingNew /\ Delivers
    BY <1>1, <1>2, Silent
  <2>2. top' \in Nat /\ top' <= allocated
    BY <2>1, NumbersType DEF NothingNew, Reserved
  <2> QED
    BY <1>1, <2>1, <2>2, FreshPair DEF NothingNew
<1>3. CASE /\ Retain(Status(pair.online, TRUE))
           /\ \/ queued' = queued \o <<Status(pair.online, TRUE), Health(beats + 1)>>
              \/ queued' = Append(queued, Status(pair.online, TRUE))
  <2>1. Status(pair.online, TRUE) \in Message
    BY StatusMessage, NumbersType
  <2>2. Health(beats + 1) \in Message /\ Health(beats + 1).stream = "health"
    BY OtherMessages DEF TypeOK
  <2>3. /\ Statuses' \subseteq Statuses \cup {Status(pair.online, TRUE)}
        /\ retained' \in Waiting'
    BY <1>1, <1>3, <2>1, <2>2, Publishes, PublishesBoth DEF stored
  <2>4. Told' /\ top' <= allocated /\ top' \in Nat
    BY <1>1, <1>3, <2>3, OnlinePublished
  <2> QED
    BY <1>1, <2>3, <2>4, FreshPair DEF Delivers
<1> QED
  BY <1>2, <1>3 DEF OnConnect

LEMMA OnConnectFailsStep ==
  ASSUME TypeOK, Told, Reserved, OnConnectFails
  PROVE  Told' /\ Reserved' /\ Delivers
<1>1. /\ Prepared /\ link' = "hung"
      /\ UNCHANGED <<allocated, pair, conn, held, queue, stored, consumer, worker>>
  BY DEF OnConnectFails, Prepared
<1>2. ~Prepared'
  BY <1>1 DEF Prepared
<1>3. CASE UNCHANGED <<status, queued>>
  <2>1. Told' /\ NothingNew /\ Delivers
    BY <1>1, <1>3, Silent
  <2> QED
    BY <1>1, <1>2, <2>1 DEF Reserved, NothingNew
<1>4. CASE /\ Retain(Status(pair.online, TRUE))
           /\ queued' = Append(queued, Status(pair.online, TRUE))
  <2>1. Status(pair.online, TRUE) \in Message /\ Status(pair.online, TRUE).seq = pair.online
    BY StatusMessage, NumbersType
  <2>2. /\ Statuses' \subseteq Statuses \cup {Status(pair.online, TRUE)}
        /\ retained' \in Waiting'
    BY <1>1, <1>4, <2>1, Publishes DEF stored
  <2>3. Told' /\ top' <= allocated /\ top' \in Nat
    BY <1>1, <1>4, <2>2, OnlinePublished
  <2>4. pair.online > 0 /\ pair.online < pair.will /\ pair.online # conn
    BY <1>1, Zenon DEF Reserved
  <2>5. pair.online \notin {0, conn, pair.will}
    BY <2>4, NumbersType
  <2>6. \A m \in Statuses' : m.seq \in {0, conn', pair'.will} => ~m.online
    BY <1>1, <2>1, <2>2, <2>5 DEF Reserved
  <2>7. conn <= allocated /\ pair.online <= allocated /\ pair.will <= allocated
    BY Zenon DEF Reserved
  <2>8. Reserved'
    BY <1>1, <1>2, <2>3, <2>6, <2>7 DEF Reserved
  <2> QED
    BY <2>2, <2>3, <2>8 DEF Delivers
<1> QED
  BY <1>3, <1>4 DEF OnConnectFails

LEMMA StopStep ==
  ASSUME TypeOK, Told, Reserved, Stop
  PROVE  Told' /\ Reserved' /\ Delivers
<1>0. /\ allocated \in Nat /\ allocated' = allocated + 1 /\ allocated + 1 \in Nat
      /\ pair'.online = 0 /\ pair'.will = 0
  BY NumbersType, NoPairType DEF Stop
<1>1. UNCHANGED <<held, queue, stored, consumer, worker>>
  BY DEF Stop
<1>2. ~Prepared'
  BY DEF Stop, Prepared
<1>3. conn' \in {0, conn} /\ conn <= allocated /\ conn \in Nat
  BY NumbersType DEF Stop, Reserved
<1>4. \A m \in Statuses : m.seq \in {0, conn} => ~m.online
  BY DEF Reserved
<1>5. CASE UNCHANGED <<status, queued>>
  <2>1. Told' /\ NothingNew /\ Delivers
    BY <1>1, <1>5, Silent
  <2>2. \A m \in Statuses' : m.seq \in {0, conn', pair'.will} => ~m.online
    BY <1>0, <1>3, <1>4, <2>1 DEF NothingNew
  <2>3. top' <= allocated /\ top' \in Nat
    BY <2>1, NumbersType DEF NothingNew, Reserved
  <2>4. /\ top' <= allocated' /\ conn' <= allocated'
        /\ pair'.online <= allocated' /\ pair'.will <= allocated'
    BY <1>0, <1>3, <2>3
  <2> QED
    BY <1>2, <2>1, <2>2, <2>4 DEF Reserved
<1>6. CASE /\ Retain(Status(allocated + 1, FALSE))
           /\ queued' = Append(queued, Status(allocated + 1, FALSE))
  <2>1. /\ Status(allocated + 1, FALSE) \in Message
        /\ Status(allocated + 1, FALSE).stream = "status"
        /\ Status(allocated + 1, FALSE).seq = allocated + 1
        /\ Status(allocated + 1, FALSE).online = FALSE
    BY <1>0, StatusMessage
  <2>2. /\ Statuses' \subseteq Statuses \cup {Status(allocated + 1, FALSE)}
        /\ retained' \in Waiting'
    BY <1>1, <1>6, <2>1, Publishes DEF stored
  <2>3. top <= allocated /\ top \in Nat
    BY NumbersType DEF Reserved
  <2>4. \A n \in Statuses : n.seq # allocated + 1
    BY <1>0, <2>3, StatusesType DEF Told
  <2>5. Told' /\ (top' = top \/ top' = allocated + 1)
    BY <1>1, <1>6, <2>1, <2>2, <2>4, ToldPublished DEF stored
  <2>6. \A m \in Statuses' : m.seq \in {0, conn', pair'.will} => ~m.online
    BY <1>0, <1>3, <1>4, <2>1, <2>2
  <2>7. /\ top' <= allocated' /\ conn' <= allocated'
        /\ pair'.online <= allocated' /\ pair'.will <= allocated'
    BY <1>0, <1>3, <2>3, <2>5
  <2>8. Reserved'
    BY <1>2, <2>6, <2>7 DEF Reserved
  <2> QED
    BY <2>2, <2>5, <2>8 DEF Delivers
<1> QED
  BY <1>5, <1>6 DEF Stop

LEMMA DropStep ==
  ASSUME TypeOK, Told, Reserved, DropConnection
  PROVE  Told' /\ Reserved' /\ Delivers
<1>1. /\ FireWill /\ conn' = 0
      /\ UNCHANGED <<allocated, pair, link, held, queue, stored>>
  BY DEF DropConnection, agent
<1>2. /\ Told' /\ Delivers /\ top' <= allocated /\ top' \in Nat
      /\ Statuses' \subseteq Statuses \cup {Status(conn, FALSE)}
  BY <1>1, WillPublished
<1>3. Status(conn, FALSE).seq = conn /\ ~Status(conn, FALSE).online
  BY StatusMessage, NumbersType
<1>4. \A m \in Statuses' : m.seq \in {0, conn', pair'.will} => ~m.online
  BY <1>1, <1>2, <1>3 DEF Reserved
<1>5. conn' <= allocated' /\ pair'.online <= allocated' /\ pair'.will <= allocated'
  BY <1>1, NumbersType DEF Reserved
<1>6. ASSUME Prepared'
      PROVE  /\ pair'.online > 0 /\ pair'.online < pair'.will /\ pair'.online # conn'
             /\ \A m \in Statuses' : m.seq # pair'.online
  <2>1. Prepared
    BY <1>1, <1>6 DEF Prepared
  <2>2. /\ pair.online > 0 /\ pair.online < pair.will /\ pair.online # conn
        /\ \A m \in Statuses : m.seq # pair.online
    BY <2>1, Zenon DEF Reserved
  <2>3. \A m \in Statuses' : m.seq # pair.online
    BY <1>2, <1>3, <2>2
  <2> QED
    BY <1>1, <2>2, <2>3
<1>7. Reserved'
  BY <1>1, <1>2, <1>4, <1>5, <1>6 DEF Reserved
<1> QED
  BY <1>2, <1>7

\* The link is lost or the agent dies: at most its pair goes.
LEMMA LinkStep ==
  ASSUME TypeOK, Told, Reserved, LoseLink \/ Crash
  PROVE  Told' /\ Reserved' /\ Delivers
<1>1. UNCHANGED <<allocated, conn, status, queued, held, queue, stored, consumer, worker>>
  BY DEF LoseLink, Crash, broker
<1>2. Told' /\ NothingNew /\ Delivers
  BY <1>1, Silent
<1>3. CASE LoseLink
  <2>1. UNCHANGED pair /\ (Prepared' => Prepared)
    BY <1>3 DEF LoseLink, Prepared
  <2> QED
    BY <1>1, <1>2, <2>1 DEF Reserved, NothingNew
<1>4. CASE Crash
  <2>1. pair'.online = 0 /\ pair'.will = 0 /\ ~Prepared'
    BY <1>4, NoPairType DEF Crash, Prepared
  <2> QED
    BY <1>1, <1>2, <2>1, NumbersType DEF Reserved, NothingNew
<1> QED
  BY <1>3, <1>4

\* What is not a status changes nothing that is said of them.
LEMMA OtherStep ==
  ASSUME TypeOK, Told, Reserved, Heartbeat \/ PublishBad
  PROVE  Told' /\ Reserved' /\ Delivers
<1>1. /\ UNCHANGED <<allocated, pair, link, conn, retained, top, inOrder, denied>>
      /\ UNCHANGED <<held, queue, latest, cursor, consumer, worker>>
  BY DEF Heartbeat, PublishBad, agent, status, stored
<1>2. Statuses' \subseteq Statuses /\ Waiting \subseteq Waiting'
  <2>1. /\ Bad \in Message /\ Bad.stream # "status"
        /\ Health(beats + 1) \in Message /\ Health(beats + 1).stream # "status"
    BY OtherMessages DEF TypeOK
  <2>2. queued' = Append(queued, Bad) \/ queued' = Append(queued, Health(beats + 1))
    BY DEF Heartbeat, PublishBad
  <2> QED
    BY <1>1, <2>1, <2>2, AddsOther
<1>3. NothingNew /\ Delivers
  BY <1>1, <1>2, Zenon DEF NothingNew, Delivers
<1>4. latest'.stream = "status" /\ cursor'["status"] = latest'.seq
      /\ \A m \in ToSet(queue') : m.stream \in StreamOf
  BY <1>1 DEF Told
<1> QED
  BY <1>1, <1>3, <1>4, ToldKept, ReservedKept

LEMMA AgentStep ==
  ASSUME TypeOK, Told, Reserved, Agent \/ DropConnection \/ PublishBad
  PROVE  Told' /\ Reserved' /\ Delivers
BY StartStep, ConnectStep, OnConnectStep, OnConnectFailsStep, StopStep, DropStep,
   LinkStep, OtherStep DEF Agent

-----------------------------------------------------------------------------
(* The retained status on its way                                          *)

\* In order, the retained status is above what is stored; what has its
\* sequence is the same status.
LEMMA RetainedIsTop ==
  ASSUME TypeOK, Told, inOrder
  PROVE  /\ retained.seq = top /\ retained \in Statuses
         /\ latest.seq <= top /\ cursor["status"] = latest.seq
         /\ latest.seq = retained.seq => latest = retained
         /\ \A m \in Waiting : m.stream = "status" => m.seq <= top
         /\ top \in Nat /\ latest.seq \in Nat
<1>1. retained \in Statuses /\ latest \in Statuses
  BY DEF Told, Statuses
<1>2. \A m \in Waiting : m.stream = "status" => m \in Statuses
  BY DEF Statuses
<1>3. retained.seq = top
  BY Zenon DEF Told
<1> QED
  BY <1>1, <1>2, <1>3, StatusesType, NumbersType DEF Told

\* The worker handles the message at the head of its queue.
LEMMA HandlesStep ==
  ASSUME TypeOK, Told, OnItsWay, Persist \/ PersistDuplicate \/ Refuse,
         consumer = "subscribed", worker = "running", inOrder, ~denied'
  PROVE  latest' = retained' \/ retained' \in Waiting'
<1>1. CanPersist /\ queue' = Tail(queue) /\ UNCHANGED <<queued, held, retained>>
  BY DEF Persist, PersistDuplicate, Refuse, broker, status
<1>2. /\ Pending \in Message /\ Pending \in Waiting /\ Pending \in ToSet(queue)
      /\ Waiting \subseteq Waiting' \cup {Pending}
  BY <1>1, Takes
<1>3. ~denied
  BY Zenon DEF Persist, PersistDuplicate, Refuse, broker, status
<1>4. latest = retained \/ retained \in Waiting
  BY <1>3 DEF OnItsWay
<1>5. Pending = retained => Pending.stream = "status"
  BY DEF Told
<1>6. CASE Persist
  <2>1. /\ Pending.seq > cursor[Pending.stream]
        /\ latest' = IF Pending.stream = "status" THEN Pending ELSE latest
    BY <1>6 DEF Persist, IsNew
  <2>2. CASE latest = retained
    <3>1. Pending.stream # "status"
      <4>1. SUFFICES ASSUME Pending.stream = "status"
                     PROVE  FALSE
        OBVIOUS
      <4>2. Pending.seq <= top /\ Pending.seq > top /\ top \in Nat /\ Pending.seq \in Nat
        BY <4>1, <2>1, <2>2, <1>2, RetainedIsTop DEF Message
      <4> QED
        BY <4>2
    <3> QED
      BY <1>1, <2>1, <2>2, <3>1
  <2>3. CASE retained \in Waiting
    BY <1>1, <1>2, <1>5, <2>1, <2>3
  <2> QED
    BY <1>4, <2>2, <2>3
<1>7. CASE PersistDuplicate
  <2>1. UNCHANGED latest /\ ~IsNew(Pending) /\ ~IsReplay(Pending)
    BY <1>7 DEF PersistDuplicate, stored
  <2>2. Pending = retained => latest = retained
    <3>1. SUFFICES ASSUME Pending = retained
                   PROVE  latest = retained
      OBVIOUS
    <3>2. ~(Pending.seq > latest.seq) /\ ~(Pending.seq < latest.seq)
      BY <3>1, <1>5, <2>1, RetainedIsTop DEF IsNew, IsReplay
    <3>3. Pending.seq = latest.seq
      BY <3>2, <1>2, RetainedIsTop DEF Message
    <3> QED
      BY <3>1, <3>3, RetainedIsTop
  <2> QED
    BY <1>1, <1>2, <1>4, <2>1, <2>2
<1>8. CASE Refuse
  <2>1. UNCHANGED latest /\ (IsReplay(Pending) \/ Pending # retained)
    BY <1>8, Zenon DEF Refuse, stored
  <2>2. Pending = retained => FALSE
    <3>1. SUFFICES ASSUME Pending = retained
                   PROVE  FALSE
      OBVIOUS
    <3>2. Pending.seq < latest.seq
      BY <3>1, <1>5, <2>1, RetainedIsTop DEF IsReplay
    <3> QED
      BY <3>1, <3>2, RetainedIsTop
  <2> QED
    BY <1>1, <1>2, <1>4, <2>1, <2>2
<1> QED
  BY <1>6, <1>7, <1>8

\* Subscribed again, the central service is sent what is retained.
LEMMA SubscribedStep ==
  ASSUME TypeOK, Told, Subscribe, inOrder
  PROVE  latest' = retained' \/ retained' \in Waiting'
<1>1. UNCHANGED <<latest, retained>>
  BY DEF Subscribe, status, stored
<1>2. CASE retained = NoStatus
  <2>1. retained.seq = 0
    BY <1>2, OtherMessages
  <2>2. latest = retained
    BY <2>1, RetainedIsTop
  <2> QED
    BY <1>1, <2>2
<1>3. CASE retained \in Waiting'
  BY <1>1, <1>3
<1> QED
  BY <1>2, <1>3, Subscribes

LEMMA OnItsWayStep ==
  ASSUME TypeOK, Told, Reserved, OnItsWay, [Next]_vars
  PROVE  OnItsWay'
<1> SUFFICES ASSUME consumer' = "subscribed", worker' = "running", inOrder', ~denied'
             PROVE  latest' = retained' \/ retained' \in Waiting'
  BY Zenon DEF OnItsWay
<1>1. CASE Agent \/ DropConnection \/ PublishBad
  <2>1. Delivers
    BY <1>1, AgentStep
  <2>2. CASE retained' \in Waiting'
    BY <2>2
  <2>3. CASE /\ Waiting \subseteq Waiting'
             /\ UNCHANGED <<consumer, worker, retained, latest, inOrder, denied>>
    <3>1. latest = retained \/ retained \in Waiting
      BY <2>3, Zenon DEF OnItsWay
    <3> QED
      BY <2>3, <3>1
  <2> QED
    BY <2>1, <2>2, <2>3, Zenon DEF Delivers
<1>2. CASE Subscribe
  <2>1. inOrder
    BY <1>2, Zenon DEF Subscribe, status
  <2> QED
    BY <1>2, <2>1, SubscribedStep
<1>3. CASE Persist \/ PersistDuplicate \/ Refuse
  <2>1. consumer = "subscribed" /\ worker = "running"
    BY <1>3 DEF Persist, PersistDuplicate, Refuse, CanPersist
  <2>2. inOrder
    BY <1>3, Zenon DEF Persist, PersistDuplicate, Refuse, broker, status
  <2> QED
    BY <1>3, <2>1, <2>2, HandlesStep
<1>4. CASE Unsubscribe \/ CallbackFails \/ RefuseFails \/ Restart
  BY <1>4 DEF Unsubscribe, CallbackFails, RefuseFails, Restart
<1>5. CASE Submit \/ NotAccepted \/ SetActive \/ UNCHANGED vars
  <2>1. UNCHANGED <<worker, retained, latest>> /\ consumer = "subscribed"
    BY <1>5 DEF Submit, NotAccepted, CanDeliver, SetActive, vars, broker, status, stored
  <2>2. inOrder /\ ~denied
    <3>1. UNCHANGED <<inOrder, denied>>
      BY <1>5 DEF Submit, NotAccepted, SetActive, vars, broker, status
    <3> QED
      BY <3>1, Zenon
  <2>3. Waiting' = Waiting
    <3>1. CASE Submit \/ NotAccepted
      BY <3>1, Moves
    <3>2. CASE SetActive \/ UNCHANGED vars
      BY <3>2, Idle DEF SetActive, vars, broker, status, stored
    <3> QED
      BY <1>5, <3>1, <3>2
  <2>4. latest = retained \/ retained \in Waiting
    BY <2>1, <2>2 DEF OnItsWay
  <2> QED
    BY <2>1, <2>3, <2>4
<1> QED
  BY <1>1, <1>2, <1>3, <1>4, <1>5, Zenon DEF Next, Central

-----------------------------------------------------------------------------
(* The theorems                                                            *)

LEMMA StreamInit == Init => StreamInv
<1> SUFFICES ASSUME Init
             PROVE  StreamInv
  OBVIOUS
<1>1. TypeOK
  BY TypeInit
<1>2. /\ queued = <<>> /\ held = <<>> /\ queue = <<>> /\ retained = NoStatus
      /\ latest = NoStatus /\ link = "stopped" /\ consumer = "down"
      /\ allocated = 0 /\ conn = 0 /\ top = 0 /\ pair = NoPair
  BY DEF Init
<1>3. Waiting = {} /\ ToSet(queue) = {}
  BY <1>2 DEF Waiting, ToSet
<1>4. Statuses = {NoStatus}
  BY <1>2, <1>3, OtherMessages DEF Statuses
<1>5. Told
  <2>1. cursor["status"] = 0
    BY DEF Init
  <2> QED
    BY <1>2, <1>3, <1>4, <2>1, OtherMessages DEF Told
<1>6. Reserved
  <2>1. ~Prepared
    BY <1>2 DEF Prepared
  <2> QED
    BY <1>2, <1>4, <2>1, OtherMessages, NoPairType DEF Reserved
<1>7. OnItsWay
  BY <1>2 DEF OnItsWay
<1> QED
  BY <1>1, <1>5, <1>6, <1>7, Parts DEF StreamInv

LEMMA StreamStep == StreamInv /\ [Next]_vars => StreamInv'
<1> SUFFICES ASSUME StreamInv, [Next]_vars
             PROVE  StreamInv'
  OBVIOUS
<1>1. TypeOK /\ Told /\ Reserved /\ OnItsWay
  BY Parts DEF StreamInv
<1>2. TypeOK'
  BY <1>1, TypeStep
<1>3. Told' /\ Reserved'
  <2>1. CASE Agent \/ DropConnection \/ PublishBad
    BY <1>1, <2>1, AgentStep
  <2>2. CASE Central
    BY <1>1, <2>2, CentralTold, CentralReserved
  <2>3. CASE UNCHANGED vars
    <3>1. /\ UNCHANGED <<status, queued, held, queue, stored, consumer, worker>>
          /\ UNCHANGED <<allocated, pair, link, conn>>
      BY <2>3 DEF vars, broker, agent
    <3>2. Told' /\ NothingNew
      BY <1>1, <3>1, Silent
    <3> QED
      BY <1>1, <3>1, <3>2, ReservedKept
  <2> QED
    BY <2>1, <2>2, <2>3 DEF Next
<1>4. OnItsWay'
  BY <1>1, OnItsWayStep
<1> QED
  BY <1>2, <1>3, <1>4, Parts DEF StreamInv

\* After every step of agent, broker and central service, connections lost
\* and services restarted anywhere: each status sequence has one meaning and
\* was allocated, the cursor stands at the stored status, and the retained
\* status is stored or on its way.
THEOREM StreamInvariant == Spec => []StreamInv
<1> QED
  BY StreamInit, StreamStep, PTL DEF Spec

\* Once the central service has handled all it was sent, it has stored the
\* status that the broker retains, unless that was published out of sequence
\* or refused because the node was not active.
THEOREM RetainedIsKnown == Spec => []StatusTold
<1>1. StreamInv => StatusTold
  <2> SUFFICES ASSUME StreamInv, Quiet, inOrder, ~denied
               PROVE  latest = retained
    BY Zenon DEF StatusTold
  <2>1. consumer = "subscribed" /\ worker = "running"
    BY DEF Quiet
  <2>2. latest = retained \/ retained \in Waiting
    BY <2>1 DEF StreamInv, OnItsWay
  <2>3. Waiting = {}
    BY DEF Quiet, Waiting, ToSet
  <2> QED
    BY <2>2, <2>3
<1> QED
  BY <1>1, StreamInvariant, PTL

=============================================================================
