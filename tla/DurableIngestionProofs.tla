----------------------- MODULE DurableIngestionProofs -----------------------
(***************************************************************************)
(* Theorems about the durable ingestion path, for all payloads, events,    *)
(* nodes, capacities and bounds.                                           *)
(***************************************************************************)
EXTENDS DurableIngestion, SequenceTheorems, TLAPS

(***************************************************************************)
(* Removing position i of a sequence keeps every other element and adds    *)
(* none: what spool.delete does to the rows of the spool.                  *)
(***************************************************************************)
LEMMA RemoveAtElements ==
  ASSUME NEW S, NEW s \in Seq(S), NEW i \in DOMAIN s
  PROVE  /\ RemoveAt(s, i) \in Seq(S)
         /\ Len(RemoveAt(s, i)) = Len(s) - 1
         /\ \A j \in DOMAIN RemoveAt(s, i) :
              RemoveAt(s, i)[j] = IF j < i THEN s[j] ELSE s[j+1]
<1>1. i \in 1..Len(s) /\ Len(s) \in Nat
  OBVIOUS
<1> DEFINE a == SubSeq(s, 1, i-1)
           b == SubSeq(s, i+1, Len(s))
<1>2. a \in Seq(S) /\ Len(a) = i-1 /\ \A j \in 1..(i-1) : a[j] = s[j]
  BY <1>1
<1>3. /\ b \in Seq(S) /\ Len(b) = Len(s)-i
      /\ \A j \in 1..(Len(s)-i) : b[j] = s[j+i]
  BY <1>1
<1>4. RemoveAt(s, i) = a \o b
  BY DEF RemoveAt
<1> HIDE DEF a, b
<1>5. a \o b \in Seq(S) /\ Len(a \o b) = Len(s) - 1
  BY <1>1, <1>2, <1>3
<1>6. ASSUME NEW j \in 1..(Len(s)-1)
      PROVE  (a \o b)[j] = IF j < i THEN s[j] ELSE s[j+1]
  <2>1. CASE j < i
    BY <1>1, <1>2, <1>3, <2>1
  <2>2. CASE ~(j < i)
    <3>1. (a \o b)[j] = b[j - (i-1)]
      BY <1>1, <1>2, <1>3, <2>2, SMTT(30)
    <3>2. j - (i-1) \in 1..(Len(s)-i) /\ j - (i-1) + i = j + 1
      BY <1>1, <2>2
    <3>3. QED  BY <3>1, <3>2, <1>3, <2>2
  <2>3. QED  BY <2>1, <2>2
<1>7. DOMAIN RemoveAt(s, i) = 1..(Len(s)-1)
  BY <1>1, <1>4, <1>5
<1>8. QED
  BY <1>4, <1>5, <1>6, <1>7

\* Where the worker starts with a record: only invalid work begins as a dead
\* letter.
LEMMA FirstStepKinds ==
  ASSUME NEW r \in Record
  PROVE  /\ FirstStep(r) \in {"dead_letter", "quarantine", "authorize", "persist"}
         /\ FirstStep(r) # "dead_letter" => r.type = "telemetry"
<1>1. Decodes(r.payload) \in BOOLEAN /\ Enforced \in BOOLEAN
  BY ConstantsAssumption DEF Decodes
<1>2. r.type \in {"telemetry", "dead_letter"}
  BY DEF Record
<1>3. CASE r.type = "dead_letter"
  BY <1>3 DEF FirstStep
<1>4. CASE r.type = "telemetry" /\ ~Decodes(r.payload)
  BY <1>4 DEF FirstStep
<1>5. CASE r.type = "telemetry" /\ Decodes(r.payload)
  BY <1>1, <1>5 DEF FirstStep
<1>6. QED
  BY <1>1, <1>2, <1>3, <1>4, <1>5

-----------------------------------------------------------------------------
(***************************************************************************)
(* Type correctness.  The row the worker holds must exist for the rows it  *)
(* rewrites and removes to be rows, so it needs WorkerConsistent.          *)
(***************************************************************************)
LEMMA TypeInit == Init => TypeOK
  BY ConstantsAssumption DEF Init, TypeOK, RxStates, WkStates, NoCursor, Idle,
     Polling

LEMMA TypeStep ==
  ASSUME TypeOK, WorkerConsistent, TelemetryRowsHaveEvents, [Next]_vars
  PROVE  TypeOK'
<1> USE DEF TypeOK
<1>1. CASE UNCHANGED vars
  BY <1>1 DEF vars, broker, db
<1>2. CASE Callback
  <2> USE DEF broker, db, RxStates, Idle, Message
  <2>1. CASE StageDuplicate
    BY <2>1 DEF StageDuplicate
  <2>2. CASE StageNew
    <3>1. rx.msg \in Message
      BY <2>2 DEF StageNew
    <3>2. NewRecord(rx.msg) \in Record
      BY <3>1 DEF NewRecord, Record, WorkType
    <3>3. spool' \in Seq(Record)
      BY <2>2, <3>2 DEF StageNew
    <3>4. QED
      BY <2>2, <3>3 DEF StageNew
  <2>3. CASE Ack
    BY <2>3 DEF Ack
  <2>4. CASE AckLost
    BY <2>4 DEF AckLost
  <2>5. QED
    BY <1>2, <2>1, <2>2, <2>3, <2>4 DEF Callback
<1>3. CASE Worker
  <2> USE DEF broker, db, WkStates, WkSteps, Reason, AtStep, Goto, Polling
  <2>1. wk # Polling => /\ wk.row \in DOMAIN spool
                        /\ rec \in Record /\ rec.payload \in Payload
    <3>1. wk # Polling => wk.row \in DOMAIN spool
      BY DEF WorkerConsistent, Pending
    <3>2. \A i \in DOMAIN spool : spool[i] \in Record
      BY ElementOfSeq
    <3>3. QED
      BY <3>1, <3>2 DEF rec, Record
  <2>2. wk # Polling => wk \in [step : WkSteps, row : Nat \ {0}, why : Reason]
    OBVIOUS
  <2>event. wk # Polling /\ wk.step \in {"publish", "after"} => EvOf \in Event
    BY <2>1 DEF WorkerConsistent, TelemetryRowsHaveEvents, rec, EvOf
  <2>3. ASSUME NEW i \in DOMAIN spool, TakeRecord(i)
        PROVE  TypeOK'
    <3>1. FirstStep(spool[i]) \in WkSteps
      BY ElementOfSeq, FirstStepKinds
    <3>2. wk' \in WkStates
      BY <2>3, <3>1 DEF TakeRecord
    <3>3. QED
      BY <2>3, <3>2 DEF TakeRecord
  <2>4. CASE Authorize
    <3>1. EvOf \in Event \cup {NoEvent} /\ NodeOf[rec.payload] \in Node
          /\ SequenceOf[rec.payload] \in Nat
      BY <2>1, <2>4, ConstantsAssumption DEF Authorize, EvOf
    <3>2. cursor' \in [Node -> [seq : Nat, event : Event \cup {NoEvent}]]
      BY <2>4, <3>1 DEF Authorize, AdvanceCursor
    <3>3. wk' \in WkStates
      BY <2>4, <2>2 DEF Authorize
    <3>4. QED
      BY <2>4, <3>2, <3>3 DEF Authorize
  <2>5. CASE RefuseIngress
    BY <2>5, <2>2 DEF RefuseIngress, RejectReason
  <2>6. CASE Persist
    <3>1. stored' \subseteq Payload
      BY <2>6, <2>1 DEF Persist, InsertSample
    <3>2. wk' \in WkStates
      BY <2>6, <2>2 DEF Persist
    <3>3. QED
      BY <2>6, <3>1, <3>2 DEF Persist
  <2>7. CASE PublishLive
    <3>1. live' \in [Event -> Nat]
      BY <2>7, <2>event DEF PublishLive
    <3>2. wk' \in WkStates
      BY <2>7, <2>2 DEF PublishLive
    <3>3. QED
      BY <2>7, <3>1, <3>2 DEF PublishLive
  <2>8. CASE AfterPersist
    <3>1. processed' \subseteq Event
      BY <2>8, <2>event DEF AfterPersist
    <3>2. wk' \in WkStates
      BY <2>8, <2>2 DEF AfterPersist
    <3>3. QED
      BY <2>8, <3>1, <3>2 DEF AfterPersist
  <2>9. CASE PersistDeadLetter
    <3>1. deadLetters' \subseteq [payload : Payload, why : Reason]
      BY <2>9, <2>1, <2>2 DEF PersistDeadLetter, InsertDeadLetter
    <3>2. wk' \in WkStates
      BY <2>9, <2>2 DEF PersistDeadLetter
    <3>3. QED
      BY <2>9, <3>1, <3>2 DEF PersistDeadLetter
  <2>10. CASE DeleteRecord
    <3>1. spool' \in Seq(Record)
      BY <2>10, <2>1, RemoveAtElements DEF DeleteRecord
    <3>2. QED
      BY <2>10, <3>1 DEF DeleteRecord
  <2>11. CASE MarkTerminal
    <3>1. spool' = [spool EXCEPT ![wk.row] = [rec EXCEPT !.status = "terminal"]]
      BY <2>11, <2>1 DEF MarkTerminal, rec
    <3>2. [rec EXCEPT !.status = "terminal"] \in Record
      BY <2>11, <2>1 DEF MarkTerminal, Record
    <3>3. spool' \in Seq(Record)
      BY <2>11, <2>1, <3>1, <3>2 DEF MarkTerminal
    <3>4. QED
      BY <2>11, <3>3 DEF MarkTerminal
  <2>12. CASE StepFails
    BY <2>12 DEF StepFails
  <2>13. CASE LoseReply
    <3>1. AtStep("authorize") /\ AdvanceCursor =>
            cursor' \in [Node -> [seq : Nat, event : Event \cup {NoEvent}]]
      BY <2>1, ConstantsAssumption DEF AdvanceCursor, EvOf
    <3>2. AtStep("persist") /\ InsertSample => stored' \subseteq Payload
      BY <2>1 DEF InsertSample
    <3>3. wk # Polling /\ InsertDeadLetter =>
            deadLetters' \subseteq [payload : Payload, why : Reason]
      BY <2>1, <2>2 DEF InsertDeadLetter
    <3>4. QED
      BY <2>13, <3>1, <3>2, <3>3 DEF LoseReply
  <2>14. QED
    BY <1>3, <2>3, <2>4, <2>5, <2>6, <2>7, <2>8, <2>9, <2>10, <2>11, <2>12,
       <2>13 DEF Worker
<1>4. CASE Environment
  <2> USE DEF broker, db, RxStates, Idle, Message
  <2>1. ASSUME NEW p \in Payload, Publish(p)
        PROVE  TypeOK'
    BY <2>1 DEF Publish
  <2>2. ASSUME NEW q \in session, Deliver(q)
        PROVE  TypeOK'
    BY <2>2 DEF Deliver
  <2>3. CASE Reconnect
    BY <2>3 DEF Reconnect
  <2>4. ASSUME NEW R \in SUBSET Retirable, Restart(R)
        PROVE  TypeOK'
    BY <2>4, ConstantsAssumption DEF Restart, WkStates
  <2>5. ASSUME NEW n \in Administered, SetNodeActive(n)
        PROVE  TypeOK'
    BY <2>5, ConstantsAssumption DEF SetNodeActive
  <2>6. QED
    BY <1>4, <2>1, <2>2, <2>3, <2>4, <2>5 DEF Environment
<1>5. QED
  BY <1>1, <1>2, <1>3, <1>4 DEF Next

-----------------------------------------------------------------------------
(***************************************************************************)
(* What a step can do to the rows of the spool and to the outcomes.        *)
(***************************************************************************)
LEMMA SpoolSteps ==
  ASSUME TypeOK, WorkerConsistent, [Next]_vars
  PROVE  \/ UNCHANGED spool
         \/ StageNew
         \/ DeleteRecord
         \/ MarkTerminal
BY DEF Next, Callback, Worker, Environment, StageDuplicate, Ack, AckLost,
   TakeRecord, Authorize, RefuseIngress, Persist, PublishLive, AfterPersist,
   PersistDeadLetter, StepFails, LoseReply, Publish, Deliver, Reconnect,
   Restart, SetNodeActive, vars

\* Staging appends one row; deleting takes away the row in hand and nothing
\* else; quarantining changes only the status of the row in hand.
LEMMA StageRows ==
  ASSUME TypeOK, StageNew
  PROVE  /\ DOMAIN spool' = DOMAIN spool \cup {Len(spool) + 1}
         /\ \A i \in DOMAIN spool : spool'[i] = spool[i]
         /\ spool'[Len(spool) + 1] = NewRecord(rx.msg)
BY DEF TypeOK, StageNew

LEMMA DeleteRows ==
  ASSUME TypeOK, WorkerConsistent, DeleteRecord
  PROVE  /\ \A i \in DOMAIN spool \ {wk.row} :
              \E j \in DOMAIN spool' : spool'[j] = spool[i]
         /\ \A j \in DOMAIN spool' :
              \E i \in DOMAIN spool \ {wk.row} : spool'[j] = spool[i]
<1>1. wk.row \in DOMAIN spool /\ spool \in Seq(Record) /\ Len(spool) \in Nat
      /\ DOMAIN spool = 1..Len(spool)
  BY DEF TypeOK, WorkerConsistent, DeleteRecord, AtStep, Pending
<1>2. /\ spool' \in Seq(Record) /\ DOMAIN spool' = 1..(Len(spool) - 1)
      /\ \A j \in DOMAIN spool' :
           spool'[j] = IF j < wk.row THEN spool[j] ELSE spool[j+1]
  BY <1>1, RemoveAtElements DEF DeleteRecord
<1>3. ASSUME NEW i \in DOMAIN spool \ {wk.row}
      PROVE  \E j \in DOMAIN spool' : spool'[j] = spool[i]
  <2>1. CASE i < wk.row
    <3>1. i \in DOMAIN spool' /\ spool'[i] = spool[i]
      BY <1>1, <1>2, <2>1
    <3>2. QED  BY <3>1
  <2>2. CASE i > wk.row
    <3>1. i-1 \in DOMAIN spool' /\ ~(i-1 < wk.row) /\ (i-1)+1 = i
      BY <1>1, <1>2, <2>2
    <3>2. spool'[i-1] = spool[i]
      BY <1>2, <3>1
    <3>3. QED  BY <3>1, <3>2
  <2>3. QED  BY <1>1, <2>1, <2>2
<1>4. ASSUME NEW j \in DOMAIN spool'
      PROVE  \E i \in DOMAIN spool \ {wk.row} : spool'[j] = spool[i]
  <2>1. CASE j < wk.row
    <3>1. j \in DOMAIN spool \ {wk.row} /\ spool'[j] = spool[j]
      BY <1>1, <1>2, <2>1
    <3>2. QED  BY <3>1
  <2>2. CASE ~(j < wk.row)
    <3>1. j+1 \in DOMAIN spool \ {wk.row} /\ spool'[j] = spool[j+1]
      BY <1>1, <1>2, <2>2
    <3>2. QED  BY <3>1
  <2>3. QED  BY <2>1, <2>2
<1>5. QED
  BY <1>3, <1>4

LEMMA QuarantineRows ==
  ASSUME TypeOK, WorkerConsistent, MarkTerminal
  PROVE  /\ DOMAIN spool' = DOMAIN spool
         /\ wk.row \in Pending
         /\ \A i \in DOMAIN spool \ {wk.row} : spool'[i] = spool[i]
         /\ spool'[wk.row] = [rec EXCEPT !.status = "terminal"]
<1>1. wk.row \in Pending /\ wk.row \in DOMAIN spool
  BY DEF WorkerConsistent, MarkTerminal, AtStep, Pending
<1>2. QED
  BY <1>1 DEF TypeOK, MarkTerminal, rec

\* Stored samples, dead letters and completed processing are never undone.
LEMMA DatabaseGrows ==
  ASSUME [Next]_vars
  PROVE  /\ stored \subseteq stored'
         /\ deadLetters \subseteq deadLetters'
         /\ processed \subseteq processed'
BY DEF Next, Callback, Worker, Environment, StageDuplicate, StageNew, Ack,
   AckLost, TakeRecord, Authorize, RefuseIngress, Persist, InsertSample,
   PublishLive, AfterPersist, PersistDeadLetter, InsertDeadLetter,
   DeleteRecord, MarkTerminal, StepFails, LoseReply, Publish, Deliver,
   Reconnect, Restart, SetNodeActive, vars, db

\* An outcome, once there, stays.
LEMMA OutcomesStay ==
  ASSUME TypeOK, WorkerConsistent, [Next]_vars
  PROVE  /\ Settled \subseteq Settled'
         /\ \A e : IsStored(e) => IsStored(e)'
         /\ \A r : Done(r) => Done(r)'
<1>1. \A e : IsStored(e) => IsStored(e)'
  BY DatabaseGrows DEF IsStored
<1>2. \A r : Done(r) => Done(r)'
  BY <1>1, DatabaseGrows DEF Done
<1>3. \A i \in Terminal : \E j \in Terminal' : spool'[j].payload = spool[i].payload
  <2>1. CASE UNCHANGED spool
    BY <2>1 DEF Terminal
  <2>2. CASE StageNew
    BY <2>2, StageRows DEF Terminal
  <2>3. CASE DeleteRecord
    <3>1. wk.row \in Pending
      BY <2>3 DEF DeleteRecord, WorkerConsistent, AtStep
    <3>2. \A i \in Terminal : i \in DOMAIN spool \ {wk.row}
      BY <3>1 DEF Terminal, Pending
    <3>3. QED
      BY <2>3, <3>2, DeleteRows DEF Terminal
  <2>4. CASE MarkTerminal
    <3>1. \A i \in Terminal : i \in DOMAIN spool \ {wk.row}
      BY <2>4, QuarantineRows DEF Terminal, Pending
    <3>2. QED
      BY <2>4, <3>1, QuarantineRows DEF Terminal
  <2>5. QED
    BY <2>1, <2>2, <2>3, <2>4, SpoolSteps
<1>4. QED
  BY <1>1, <1>2, <1>3, DatabaseGrows DEF Settled

-----------------------------------------------------------------------------
(***************************************************************************)
(* The remaining conjuncts of PathInv, one lemma each.                     *)
(***************************************************************************)
LEMMA TelemetryRowsStep ==
  ASSUME TypeOK, WorkerConsistent, TelemetryRowsHaveEvents, [Next]_vars
  PROVE  TelemetryRowsHaveEvents'
<1> USE DEF TelemetryRowsHaveEvents
<1>1. CASE UNCHANGED spool
  BY <1>1
<1>2. CASE StageNew
  <2>1. rx.msg.payload \in Payload
    BY <1>2 DEF StageNew, TypeOK, RxStates, Idle, Message
  <2>2. NewRecord(rx.msg).type = "telemetry" =>
          EventOf[NewRecord(rx.msg).payload] \in Event
    BY <2>1, ConstantsAssumption DEF NewRecord, WorkType, Decodes
  <2>3. QED
    BY <1>2, <2>2, StageRows
<1>3. CASE DeleteRecord
  BY <1>3, DeleteRows
<1>4. CASE MarkTerminal
  <2>1. rec \in Record /\ rec = spool[wk.row] /\ wk.row \in DOMAIN spool
    BY <1>4, QuarantineRows, ElementOfSeq DEF rec, Pending, TypeOK
  <2>2. spool'[wk.row].type = rec.type /\ spool'[wk.row].payload = rec.payload
    BY <1>4, <2>1, QuarantineRows DEF Record
  <2>3. QED
    BY <1>4, <2>1, <2>2, QuarantineRows
<1>5. QED
  BY <1>1, <1>2, <1>3, <1>4, SpoolSteps

LEMMA WorkerStep ==
  ASSUME TypeOK, WorkerConsistent, TelemetryRowsHaveEvents, [Next]_vars
  PROVE  WorkerConsistent'
<1>1. ASSUME wk' = Polling
      PROVE  WorkerConsistent'
  BY <1>1 DEF WorkerConsistent
<1>2. ASSUME UNCHANGED wk, \/ UNCHANGED spool
                           \/ StageNew
      PROVE  WorkerConsistent'
  <2>1. SUFFICES ASSUME wk # Polling
                 PROVE  WorkerConsistent'
    BY <1>2 DEF WorkerConsistent
  <2>2. wk.row \in DOMAIN spool /\ wk.row \in Pending
    BY <2>1 DEF WorkerConsistent, Pending
  <2>3. wk.row \in DOMAIN spool' /\ spool'[wk.row] = spool[wk.row]
    BY <1>2, <2>2, StageRows
  <2>4. rec' = rec /\ EvOf' = EvOf /\ wk.row \in Pending'
    BY <1>2, <2>2, <2>3 DEF rec, EvOf, Pending
  <2>5. QED
    BY <1>2, <2>1, <2>4, OutcomesStay DEF WorkerConsistent
<1>3. ASSUME NEW step \in WkSteps, wk # Polling, UNCHANGED spool,
             wk'.step = step, wk'.row = wk.row,
             step \in {"authorize", "persist", "publish", "after", "quarantine"}
               => rec.type = "telemetry",
             step \in {"publish", "after"} => IsStored(EvOf)',
             step = "delete" => Done(rec)'
      PROVE  WorkerConsistent'
  <2>1. rec' = rec /\ EvOf' = EvOf /\ wk'.row \in Pending'
    BY <1>3 DEF rec, EvOf, Pending, WorkerConsistent
  <2>2. QED
    BY <1>3, <2>1 DEF WorkerConsistent
<1>4. CASE UNCHANGED vars
  BY <1>4, <1>2 DEF vars
<1>5. CASE Callback
  BY <1>5, <1>2 DEF Callback, StageDuplicate, StageNew, Ack, AckLost
<1>6. CASE Environment
  BY <1>6, <1>1, <1>2 DEF Environment, Publish, Deliver, Reconnect, Restart,
     SetNodeActive
<1>7. CASE Worker
  <2> USE DEF AtStep, Goto, WkSteps
  <2>0. wk # Polling => wk \in [step : WkSteps, row : Nat \ {0}, why : Reason]
    BY DEF TypeOK, WkStates
  <2>1. ASSUME NEW i \in DOMAIN spool, TakeRecord(i)
        PROVE  WorkerConsistent'
    <3>1. spool[i] \in Record
      BY ElementOfSeq DEF TypeOK
    <3>2. /\ wk'.row = i /\ wk'.step = FirstStep(spool[i])
          /\ spool' = spool /\ i \in Pending'
      BY <2>1 DEF TakeRecord, OldestPending, Pending
    <3>3. /\ FirstStep(spool[i]) \in {"dead_letter", "quarantine", "authorize",
                                      "persist"}
          /\ FirstStep(spool[i]) # "dead_letter" => spool[i].type = "telemetry"
      BY <3>1, FirstStepKinds
    <3>4. rec' = spool[i]
      BY <3>2 DEF rec
    <3>5. QED
      BY <3>2, <3>3, <3>4 DEF WorkerConsistent
  <2>2. CASE Authorize
    BY <2>2, <2>0, <1>3 DEF Authorize, WorkerConsistent
  <2>3. CASE RefuseIngress
    BY <2>3, <2>0, <1>3 DEF RefuseIngress, WorkerConsistent
  <2>4. CASE Persist
    <3>1. rec.type = "telemetry" /\ rec.payload \in Payload
      <4>1. wk.row \in DOMAIN spool /\ rec.type = "telemetry"
        BY <2>4 DEF Persist, WorkerConsistent, Pending
      <4>2. rec \in Record
        BY <4>1, ElementOfSeq DEF TypeOK, rec
      <4>3. QED
        BY <4>1, <4>2 DEF Record
    <3>2. EvOf' = EvOf
      BY <2>4 DEF Persist, EvOf, rec
    <3>3. IsStored(EvOf)'
      BY <2>4, <3>1, <3>2 DEF Persist, InsertSample, IsStored, EvOf
    <3>4. QED
      BY <2>4, <2>0, <3>1, <3>3, <1>3 DEF Persist
  <2>5. CASE PublishLive
    <3>1. IsStored(EvOf)'
      BY <2>5 DEF PublishLive, WorkerConsistent, IsStored, EvOf, rec
    <3>2. QED
      BY <2>5, <2>0, <3>1, <1>3 DEF PublishLive, WorkerConsistent
  <2>6. CASE AfterPersist
    <3>1. Done(rec)'
      BY <2>6 DEF AfterPersist, WorkerConsistent, Done, IsStored, EvOf, rec
    <3>2. QED
      BY <2>6, <2>0, <3>1, <1>3 DEF AfterPersist
  <2>7. CASE PersistDeadLetter
    <3>1. rec' = rec
      BY <2>7, <2>0 DEF PersistDeadLetter, rec
    <3>2. [payload |-> rec.payload, why |-> wk.why] \in deadLetters'
      BY <2>7 DEF PersistDeadLetter, InsertDeadLetter
    <3>3. Done(rec)'
      BY <3>1, <3>2 DEF Done
    <3>4. QED
      BY <2>7, <2>0, <3>3, <1>3 DEF PersistDeadLetter
  <2>8. CASE DeleteRecord \/ MarkTerminal \/ StepFails \/ LoseReply
    BY <2>8, <1>1 DEF DeleteRecord, MarkTerminal, StepFails, LoseReply
  <2>9. QED
    BY <1>7, <2>1, <2>2, <2>3, <2>4, <2>5, <2>6, <2>7, <2>8 DEF Worker
<1>8. QED
  BY <1>4, <1>5, <1>6, <1>7 DEF Next
\* A payload that is settled or has a pending row is so after any step.
LEMMA PendingOrSettled ==
  ASSUME TypeOK, WorkerConsistent, TelemetryRowsHaveEvents, [Next]_vars,
         NEW p \in Payload,
         p \in Settled \/ \E i \in Pending : spool[i].payload = p
  PROVE  p \in Settled' \/ \E i \in Pending' : spool'[i].payload = p
<1>1. CASE p \in Settled
  BY <1>1, OutcomesStay
<1>2. ASSUME NEW i \in Pending, spool[i].payload = p
      PROVE  p \in Settled' \/ \E j \in Pending' : spool'[j].payload = p
  <2>1. i \in DOMAIN spool /\ spool[i].status = "pending" /\ spool[i] \in Record
    BY ElementOfSeq DEF Pending, TypeOK
  <2>2. CASE UNCHANGED spool
    BY <1>2, <2>2 DEF Pending
  <2>3. CASE StageNew
    BY <1>2, <2>1, <2>3, StageRows DEF Pending
  <2>4. CASE DeleteRecord /\ i # wk.row
    BY <1>2, <2>1, <2>4, DeleteRows DEF Pending
  <2>5. CASE DeleteRecord /\ i = wk.row
    <3>1. Done(rec) /\ rec.payload = p
      BY <1>2, <2>5 DEF DeleteRecord, WorkerConsistent, AtStep, rec
    <3>2. rec.type = "telemetry" => EventOf[p] # NoEvent
      BY <1>2, <2>1, <2>5, <3>1, ConstantsAssumption
         DEF TelemetryRowsHaveEvents, rec
    <3>3. p \in Settled
      BY <3>1, <3>2 DEF Done, Settled
    <3>4. QED
      BY <3>3, OutcomesStay
  <2>6. CASE MarkTerminal /\ i # wk.row
    BY <1>2, <2>1, <2>6, QuarantineRows DEF Pending
  <2>7. CASE MarkTerminal /\ i = wk.row
    <3>1. /\ wk.row \in DOMAIN spool'
          /\ spool'[wk.row].status = "terminal" /\ spool'[wk.row].payload = p
      BY <1>2, <2>1, <2>7, QuarantineRows DEF rec, Record
    <3>2. QED
      BY <3>1 DEF Settled, Terminal
  <2>8. QED
    BY <2>2, <2>3, <2>4, <2>5, <2>6, <2>7, SpoolSteps
<1>3. QED
  BY <1>1, <1>2

\* A message whose row was committed is durable until it is acknowledged: the
\* worker deletes the row only with an outcome behind it.
LEMMA StagedStep ==
  ASSUME TypeOK, WorkerConsistent, TelemetryRowsHaveEvents, StagedIsDurable,
         [Next]_vars
  PROVE  StagedIsDurable'
<1>1. ASSUME NEW p \in Payload,
             p \in Settled \/ \E i \in Pending : spool[i].payload = p
      PROVE  p \in Settled' \/ \E i \in Pending' : spool'[i].payload = p
  BY <1>1, PendingOrSettled
<1>2. CASE UNCHANGED rx
  <2>1. rx.phase = "staged" => rx.msg.payload \in Payload
    BY DEF TypeOK, RxStates, Idle, Message
  <2>2. QED
    BY <1>1, <1>2, <2>1 DEF StagedIsDurable
<1>3. CASE rx'.phase # "staged"
  BY <1>3 DEF StagedIsDurable
<1>4. CASE StageDuplicate
  <2>1. PICK i \in FindExisting(rx.msg) : spool[i].payload = rx.msg.payload
    BY <1>4 DEF StageDuplicate
  <2>2. i \in DOMAIN spool /\ i \in Pending \cup Terminal
    <3>1. i \in DOMAIN spool
      BY DEF FindExisting
    <3>2. spool[i] \in Record
      BY <3>1, ElementOfSeq DEF TypeOK
    <3>3. QED
      BY <3>1, <3>2 DEF Record, Pending, Terminal
  <2>3. rx.msg.payload \in Payload
    BY <1>4 DEF StageDuplicate, TypeOK, RxStates, Idle, Message
  <2>4. rx.msg.payload \in Settled \/ \E k \in Pending : spool[k].payload = rx.msg.payload
    BY <2>1, <2>2, <2>3 DEF Settled
  <2>5. rx'.msg = rx.msg
    BY <1>4 DEF StageDuplicate, TypeOK, RxStates, Idle
  <2>6. QED
    BY <1>1, <2>3, <2>4, <2>5 DEF StagedIsDurable
<1>5. CASE StageNew
  <2>1. rx'.msg = rx.msg
    BY <1>5 DEF StageNew, TypeOK, RxStates, Idle
  <2>2. /\ Len(spool) + 1 \in Pending'
        /\ spool'[Len(spool) + 1].payload = rx.msg.payload
    BY <1>5, StageRows DEF Pending, NewRecord
  <2>3. QED
    BY <2>1, <2>2 DEF StagedIsDurable
<1>6. QED
  BY <1>2, <1>3, <1>4, <1>5 DEF Next, Callback, Worker, Environment, Ack,
     AckLost, TakeRecord, Authorize, RefuseIngress, Persist, PublishLive,
     AfterPersist, PersistDeadLetter, DeleteRecord, MarkTerminal, StepFails,
     LoseReply, Publish, Deliver, Reconnect, Restart, SetNodeActive, vars, Idle
\* Whatever is published is held by the broker, held by the spool or settled
\* after any step: only Ack takes a message from the broker, and only with its
\* row durable.
LEMMA NothingLostStep ==
  ASSUME TypeOK, WorkerConsistent, StagedIsDurable, TelemetryRowsHaveEvents,
         NothingLost, [Next]_vars
  PROVE  NothingLost'
<1>1. \A p \in Payload :
        (p \in Settled \/ \E i \in Pending : spool[i].payload = p)
          => p \in Custody' \cup Settled'
  BY PendingOrSettled DEF Custody
<1>2. published \subseteq Payload
  BY DEF TypeOK
<1>3. ASSUME published' = published, session \subseteq session'
      PROVE  NothingLost'
  <2>1. \A p \in published :
          \/ \E m \in session' : m.payload = p
          \/ p \in Settled \/ \E i \in Pending : spool[i].payload = p
    BY <1>3 DEF NothingLost, Custody
  <2>2. \A p \in published : (\E m \in session' : m.payload = p) => p \in Custody'
    BY <1>2 DEF Custody
  <2>3. QED
    BY <1>1, <1>2, <1>3, <2>1, <2>2 DEF NothingLost
<1>4. ASSUME Ack
      PROVE  NothingLost'
  <2>1. \A p \in published :
          \/ \E m \in session' : m.payload = p
          \/ p \in Settled \/ \E i \in Pending : spool[i].payload = p
    BY <1>4 DEF Ack, NothingLost, Custody, StagedIsDurable
  <2>2. \A p \in published : (\E m \in session' : m.payload = p) => p \in Custody'
    BY <1>2 DEF Custody
  <2>3. published' = published
    BY <1>4 DEF Ack
  <2>4. QED
    BY <1>1, <1>2, <2>1, <2>2, <2>3 DEF NothingLost
<1>5. ASSUME NEW p \in Payload, Publish(p)
      PROVE  NothingLost'
  <2>1. session \subseteq session' /\ published' = published \cup {p}
    BY <1>5 DEF Publish
  <2>2. \E m \in session' : m.payload = p
    <3>1. [mid |-> nextMid, payload |-> p] \in session'
      BY <1>5 DEF Publish
    <3>2. QED
      BY <3>1
  <2>3. \A q \in published :
          \/ \E m \in session' : m.payload = q
          \/ q \in Settled \/ \E i \in Pending : spool[i].payload = q
    BY <2>1 DEF NothingLost, Custody
  <2>4. \A q \in published \cup {p} :
          (\E m \in session' : m.payload = q) => q \in Custody'
    BY <1>2 DEF Custody
  <2>5. QED
    BY <1>1, <1>2, <2>1, <2>2, <2>3, <2>4 DEF NothingLost
<1>6. QED
  BY <1>3, <1>4, <1>5 DEF Next, Callback, Worker, Environment, StageDuplicate,
     StageNew, AckLost, TakeRecord, Authorize, RefuseIngress, Persist,
     PublishLive, AfterPersist, PersistDeadLetter, DeleteRecord, MarkTerminal,
     StepFails, LoseReply, Deliver, Reconnect, Restart, SetNodeActive, vars,
     broker

-----------------------------------------------------------------------------
\* The broker forgets a message only when the callback acknowledges it, and
\* then the callback lets it go.
LEMMA MessageStep ==
  ASSUME TypeOK, MessageHeld, [Next]_vars
  PROVE  MessageHeld'
BY DEF MessageHeld, TypeOK, RxStates, Idle, Next, Callback, Worker, Environment,
   StageDuplicate, StageNew, Ack, AckLost, TakeRecord, Authorize,
   RefuseIngress, Persist, PublishLive, AfterPersist, PersistDeadLetter,
   DeleteRecord, MarkTerminal, StepFails, LoseReply, Publish, Deliver,
   Reconnect, Restart, SetNodeActive, vars, broker

(***************************************************************************)
(* The theorems.                                                           *)
(***************************************************************************)

\* PathInv holds initially and is preserved: it is inductive.
LEMMA PathInvInit == Init => PathInv
  BY TypeInit DEF Init, PathInv, WorkerConsistent, MessageHeld, StagedIsDurable,
     TelemetryRowsHaveEvents, NothingLost, Idle, Polling

LEMMA PathInvStep == PathInv /\ [Next]_vars => PathInv'
  BY TypeStep, WorkerStep, StagedStep, TelemetryRowsStep, NothingLostStep,
     MessageStep
     DEF PathInv

\* Between any two transactions, spool, database, callback and worker agree on
\* what is already durable.
THEOREM PathInvariant == Spec => []PathInv
<1>1. QED
  BY PathInvInit, PathInvStep, PTL DEF Spec

\* Every variable of the path keeps its type.
THEOREM TypeCorrect == Spec => []TypeOK
<1>1. PathInv => TypeOK
  BY DEF PathInv
<1>2. QED
  BY <1>1, PathInvariant, PTL

\* No telemetry the broker accepted is lost, whatever crashes, restarts, lost
\* acknowledgements, lost replies and failures happen and in whatever order.
THEOREM NoLoss == Spec => []NothingLost
<1>1. PathInv => NothingLost
  BY DEF PathInv
<1>2. QED
  BY <1>1, PathInvariant, PTL
\* The worker forgets a record only when its work is done: a row leaves the
\* spool with its sample stored and its alert processing complete, or with a
\* dead letter written.
THEOREM Forgetting == Spec => ForgetOnlyWhenDone
<1>1. PathInv /\ [Next]_vars =>
        [\A i \in DOMAIN spool :
           \/ \E j \in DOMAIN spool' : /\ spool'[j].mid = spool[i].mid
                                      /\ spool'[j].payload = spool[i].payload
           \/ Done(spool[i])]_vars
  <2> SUFFICES ASSUME PathInv, Next, NEW i \in DOMAIN spool
               PROVE  \/ \E j \in DOMAIN spool' :
                           /\ spool'[j].mid = spool[i].mid
                           /\ spool'[j].payload = spool[i].payload
                      \/ Done(spool[i])
    OBVIOUS
  <2> USE DEF PathInv
  <2>0. [Next]_vars
    OBVIOUS
  <2>1. CASE UNCHANGED spool
    BY <2>1
  <2>2. CASE StageNew
    BY <2>2, StageRows
  <2>3. CASE DeleteRecord /\ i # wk.row
    BY <2>3, DeleteRows
  <2>4. CASE DeleteRecord /\ i = wk.row
    BY <2>4 DEF DeleteRecord, WorkerConsistent, AtStep, rec
  <2>5. CASE MarkTerminal /\ i # wk.row
    BY <2>5, QuarantineRows
  <2>6. CASE MarkTerminal /\ i = wk.row
    <3>1. rec \in Record /\ rec = spool[i]
      BY <2>6, ElementOfSeq DEF TypeOK, rec
    <3>2. spool'[i].mid = rec.mid /\ spool'[i].payload = rec.payload
      BY <2>6, <3>1, QuarantineRows DEF Record
    <3>3. i \in DOMAIN spool'
      BY <2>6, QuarantineRows
    <3>4. QED
      BY <3>1, <3>2, <3>3
  <2>7. QED
    BY <2>0, <2>1, <2>2, <2>3, <2>4, <2>5, <2>6, SpoolSteps
<1>2. QED
  BY <1>1, PathInvariant, PTL DEF Spec, ForgetOnlyWhenDone

\* A new row of the spool carries a payload the broker or the spool held.
LEMMA NewRowsAreHeld ==
  ASSUME TypeOK, WorkerConsistent, MessageHeld, [Next]_vars, NEW i \in Pending'
  PROVE  \/ \E m \in session : m.payload = spool'[i].payload
         \/ \E j \in Pending : spool[j].payload = spool'[i].payload
<1>1. i \in DOMAIN spool' /\ spool'[i].status = "pending"
  BY DEF Pending
<1>2. CASE UNCHANGED spool
  BY <1>2 DEF Pending
<1>3. CASE StageNew /\ i = Len(spool) + 1
  <2>1. rx.msg \in session
    BY <1>3 DEF StageNew, MessageHeld, Idle
  <2>2. spool'[i].payload = rx.msg.payload
    BY <1>3, StageRows DEF NewRecord
  <2>3. QED
    BY <2>1, <2>2
<1>4. CASE StageNew /\ i # Len(spool) + 1
  BY <1>1, <1>4, StageRows DEF Pending
<1>5. CASE DeleteRecord
  BY <1>1, <1>5, DeleteRows DEF Pending
<1>6. CASE MarkTerminal
  <2>1. i # wk.row
    <3>1. rec \in Record
      BY <1>6, QuarantineRows, ElementOfSeq DEF TypeOK, rec, Pending
    <3>2. spool'[wk.row].status = "terminal"
      BY <1>6, <3>1, QuarantineRows DEF Record
    <3>3. QED
      BY <1>1, <3>2
  <2>2. QED
    BY <1>1, <1>6, <2>1, QuarantineRows DEF Pending
<1>7. QED
  BY <1>2, <1>3, <1>4, <1>5, <1>6, SpoolSteps

\* Every step keeps the custody contract: a publication is accepted into
\* custody, and any other step only settles payloads and lets go of settled
\* ones.
LEMMA CustodyStep ==
  ASSUME PathInv, [Next]_vars
  PROVE  [TC!Next]_(TC!vars)
<1> USE DEF PathInv
<1>1. Settled \subseteq Settled' /\ Settled' \subseteq Payload
      /\ Custody \subseteq Payload
  BY OutcomesStay DEF Settled, Custody
<1>2. ASSUME NEW p \in Payload, Publish(p)
      PROVE  TC!Accept(p)
  <2>1. session' = session \cup {[mid |-> nextMid, payload |-> p]}
        /\ published' = published \cup {p}
        /\ spool' = spool /\ stored' = stored /\ deadLetters' = deadLetters
    BY <1>2 DEF Publish, db
  <2>2. Settled' = Settled
    BY <2>1 DEF Settled, IsStored, Terminal
  <2>3. \A q \in Payload : (\E m \in session' : m.payload = q)
                             <=> (\E m \in session : m.payload = q) \/ q = p
    <3>1. [mid |-> nextMid, payload |-> p].payload = p
      OBVIOUS
    <3>2. [mid |-> nextMid, payload |-> p] \in session'
      BY <2>1
    <3>3. \A m \in session' : m \in session \/ m.payload = p
      BY <2>1, <3>1
    <3>4. session \subseteq session'
      BY <2>1
    <3>5. QED
      BY <3>1, <3>2, <3>3, <3>4
  <2>4. Custody' = Custody \cup {p}
    BY <2>1, <2>3 DEF Custody, Pending
  <2>5. QED
    BY <2>1, <2>2, <2>4 DEF TC!Accept
<1>3. ASSUME published' = published, session' \subseteq session,
             session' = session \/ Ack
      PROVE  \E S, R \in SUBSET Payload : TC!Progress(S, R)
  <2>1. Custody' \subseteq Custody
    <3>1. \A i \in Pending' : \/ \E m \in session : m.payload = spool'[i].payload
                              \/ \E j \in Pending : spool[j].payload = spool'[i].payload
      BY NewRowsAreHeld
    <3>2. QED
      BY <1>3, <3>1 DEF Custody
  <2>2. ASSUME NEW p \in Custody, p \notin Custody'
        PROVE  p \in Settled'
    <3>1. p \in Payload
      BY DEF Custody
    <3>2. \/ p \in Settled \/ \E i \in Pending : spool[i].payload = p
          \/ \E m \in session' : m.payload = p
      BY <1>3 DEF Custody, StagedIsDurable, Ack
    <3>3. QED
      BY <2>2, <3>1, <3>2, PendingOrSettled DEF Custody
  <2>3. TC!Progress(Settled', Custody \ Custody')
    BY <1>1, <1>3, <2>1, <2>2 DEF TC!Progress
  <2>4. QED
    BY <1>1, <2>3
<1>4. CASE UNCHANGED vars
  BY <1>4 DEF TC!vars, vars, broker, db, Custody, Settled, IsStored, Pending,
     Terminal
<1>5. CASE Next
  BY <1>2, <1>3, <1>5 DEF TC!Next, Next, Callback, Worker, Environment,
     StageDuplicate, StageNew, Ack, AckLost, TakeRecord, Authorize,
     RefuseIngress, Persist, PublishLive, AfterPersist, PersistDeadLetter,
     DeleteRecord, MarkTerminal, StepFails, LoseReply, Deliver, Reconnect,
     Restart, SetNodeActive, broker
<1>6. QED
  BY <1>4, <1>5

\* The durable path implements the custody contract of its publishers.
THEOREM Custodian == Spec => ImplementsCustody
<1>1. Init => TC!Init
  BY DEF Init, TC!Init, Custody, Settled, IsStored, Pending, Terminal
<1>2. PathInv /\ [Next]_vars => [TC!Next]_(TC!vars)
  BY CustodyStep
<1>3. QED
  BY <1>1, <1>2, PathInvariant, PTL DEF Spec, ImplementsCustody, TC!Spec

\* The contract itself forbids losing a published payload: custody is given up
\* only for settled payloads, and what is settled stays settled.
THEOREM ContractLosesNothing == TC!Spec => []TC!NothingLost
<1>1. TC!Init => TC!NothingLost
  BY DEF TC!Init, TC!NothingLost
<1>2. TC!NothingLost /\ [TC!Next]_(TC!vars) => TC!NothingLost'
  BY DEF TC!NothingLost, TC!Next, TC!Accept, TC!Progress, TC!vars
<1>3. QED
  BY <1>1, <1>2, PTL DEF TC!Spec
-----------------------------------------------------------------------------
(***************************************************************************)
(* The ingress cursor and the live feed.  NothingLost says where a payload *)
(* may be; what follows says in which order: of two events of a node the   *)
(* lower is never behind the higher.                                       *)
(***************************************************************************)
Earlier(q, p) ==
  /\ EventOf[q] # NoEvent /\ EventOf[p] # NoEvent
  /\ NodeOf[q] = NodeOf[p] /\ SequenceOf[q] < SequenceOf[p]

Waits(e) == \E i \in Pending : EventOf[spool[i].payload] = e

\* Message ids are given once, in the order of the publications.
MessageIds ==
  /\ \A m \in session : m.mid < nextMid
  /\ \A d \in delivered : d < nextMid
  /\ \A m, o \in session : m.mid = o.mid => m = o

\* The callback has handed on whatever was delivered before what it holds.
DeliveredIsDurable ==
  /\ \A m \in session :
       m.mid \in delivered =>
         \/ rx # Idle /\ rx.msg = m
         \/ m.payload \in Settled
         \/ \E i \in Pending : spool[i].payload = m.payload
  /\ rx # Idle => \A m \in session : m.mid < rx.msg.mid => m.mid \in delivered

\* Before a message there was one of each earlier event, and before a row one.
MessagesInOrder ==
  \A m \in session, q \in Payload :
    Earlier(q, m.payload) =>
      \/ Handled(EventOf[q]) \/ Waits(EventOf[q])
      \/ \E o \in session : o.mid < m.mid /\ EventOf[o.payload] = EventOf[q]

RowsInOrder ==
  \A i \in Pending, q \in Payload :
    Earlier(q, spool[i].payload) =>
      \/ Handled(EventOf[q])
      \/ \E j \in Pending : j < i /\ EventOf[spool[j].payload] = EventOf[q]

\* The worker does not skip a row.
RowIsOldest == wk # Polling => OldestPending(wk.row)

\* The cursor stands at an event that was published, and all below are handled.
CursorOrdered ==
  \A n \in Node :
    /\ \A q \in Payload :
         EventOf[q] # NoEvent /\ NodeOf[q] = n /\ SequenceOf[q] < cursor[n].seq
           => Handled(EventOf[q])
    /\ \/ cursor[n] = NoCursor
       \/ /\ cursor[n].event # NoEvent
          /\ Handled(cursor[n].event) \/ Waits(cursor[n].event)
          /\ \E r \in Payload : /\ NodeOf[r] = n /\ SequenceOf[r] = cursor[n].seq
                                /\ EventOf[r] = cursor[n].event

OrderInv ==
  /\ MessageIds /\ DeliveredIsDurable /\ MessagesInOrder /\ RowsInOrder
  /\ RowIsOldest /\ CursorOrdered

\* The event of a dead letter of this reason.
Refused(e, why) == \E d \in deadLetters : d.why = why /\ EventOf[d.payload] = e

\* The cases NoFalseReplay allows for an event.
Explained(e) ==
  \/ IsStored(e)
  \/ \E d \in deadLetters : d.why # "replay" /\ EventOf[d.payload] = e
  \/ \E i \in Terminal : EventOf[spool[i].payload] = e

Quarantined(e) ==
  \E i \in Terminal : spool[i].type = "telemetry" /\ EventOf[spool[i].payload] = e

Unprocessed(e) ==
  /\ IsStored(e) /\ e \notin processed
  /\ ~Refused(e, "authorization") /\ ~Quarantined(e)

AtCursor(p) ==
  /\ SequenceOf[p] >= 1
  /\ cursor[NodeOf[p]] = [seq |-> SequenceOf[p], event |-> EventOf[p]]

\* The row of an event that was committed and not processed is the next one,
\* and the cursor still stands at it.
UnprocessedIsNext ==
  \A e \in Event : Unprocessed(e) =>
    \E i \in DOMAIN spool :
      /\ spool[i].type = "telemetry" /\ EventOf[spool[i].payload] = e
      /\ OldestPending(i)
      /\ Enforced => AtCursor(spool[i].payload)

\* What the step of the worker says about the event in hand.
StepsKnow ==
  wk # Polling =>
    /\ wk.step = "authorize" => Enforced
    /\ wk.step = "publish" => live[EvOf] = 0
    /\ wk.step = "persist" /\ Enforced => AtCursor(rec.payload)
    /\ wk.step = "dead_letter" => wk.why = "schema" /\ rec.type = "dead_letter"
    /\ wk.step = "reject" =>
         /\ rec.type = "telemetry" /\ wk.why \in {"authorization", "replay"}
         /\ wk.why = "replay" => Explained(EvOf) /\ ~Unprocessed(EvOf)
    /\ wk.step = "delete" /\ rec.type = "telemetry" => ~Unprocessed(EvOf)

EventsInv ==
  LiveOnceAfterCommit /\ UnprocessedIsNext /\ StepsKnow /\ NoFalseReplay

-----------------------------------------------------------------------------
(***************************************************************************)
(* The order of messages and rows.                                         *)
(***************************************************************************)
\* What a step can do to the broker's session and to the callback.
LEMMA BrokerSteps ==
  ASSUME [Next]_vars
  PROVE  \/ UNCHANGED <<session, nextMid, delivered, rx>>
         \/ StageDuplicate \/ StageNew \/ Ack \/ AckLost \/ Reconnect
         \/ \E p \in Payload : Publish(p)
         \/ \E m \in session : Deliver(m)
         \/ \E R \in SUBSET Retirable : Restart(R)
BY DEF Next, Callback, Worker, Environment, TakeRecord, Authorize, RefuseIngress,
   Persist, PublishLive, AfterPersist, PersistDeadLetter, DeleteRecord,
   MarkTerminal, StepFails, LoseReply, SetNodeActive, vars, broker

\* An event with an outcome keeps it, and one that waits in the spool waits on
\* or gets one.
LEMMA HandledStays ==
  ASSUME TypeOK, WorkerConsistent, [Next]_vars, NEW e, Handled(e)
  PROVE  Handled(e)'
BY OutcomesStay DEF Handled

LEMMA RowsAreRecords ==
  ASSUME TypeOK, NEW i \in DOMAIN spool
  PROVE  /\ spool[i] \in Record /\ spool[i].payload \in Payload
         /\ spool[i].type \in {"telemetry", "dead_letter"}
         /\ i \in Pending \/ i \in Terminal
         /\ i \in Nat
<1>1. spool[i] \in Record /\ i \in Nat
  BY ElementOfSeq DEF TypeOK
<1>2. QED
  BY <1>1 DEF Record, Pending, Terminal

LEMMA WaitingStays ==
  ASSUME TypeOK, WorkerConsistent, TelemetryRowsHaveEvents, [Next]_vars, NEW e,
         Handled(e) \/ Waits(e)
  PROVE  Handled(e)' \/ Waits(e)'
<1>1. CASE Handled(e)
  BY <1>1, HandledStays
<1>2. CASE Waits(e)
  <2>1. PICK i \in Pending : EventOf[spool[i].payload] = e
    BY <1>2 DEF Waits
  <2>2. spool[i].payload \in Payload
    BY RowsAreRecords DEF Pending
  <2>3. spool[i].payload \in Settled' \/ \E j \in Pending' : spool'[j].payload = spool[i].payload
    BY <2>2, PendingOrSettled
  <2>4. QED
    BY <2>1, <2>3 DEF Handled, Waits
<1>3. QED
  BY <1>1, <1>2

\* A payload in the spool or with an outcome says the same of its event.
LEMMA PayloadSaysEvent ==
  ASSUME NEW p \in Payload, p \in Settled \/ \E i \in Pending : spool[i].payload = p
  PROVE  Handled(EventOf[p]) \/ Waits(EventOf[p])
BY DEF Handled, Waits

\* Done rows have an outcome for their event.
LEMMA DoneIsHandled ==
  ASSUME TypeOK, TelemetryRowsHaveEvents, NEW i \in DOMAIN spool, Done(spool[i])
  PROVE  Handled(EventOf[spool[i].payload])
<1>1. spool[i].payload \in Payload
  BY RowsAreRecords
<1>2. spool[i].type = "telemetry" => EventOf[spool[i].payload] # NoEvent
  BY ConstantsAssumption DEF TelemetryRowsHaveEvents
<1>3. spool[i].payload \in Settled
  BY <1>1, <1>2 DEF Done, Settled
<1>4. QED
  BY <1>3 DEF Handled

LEMMA MessageIdsStep ==
  ASSUME TypeOK, MessageIds, [Next]_vars
  PROVE  MessageIds'
<1> USE DEF MessageIds
<1>1. session \subseteq Message /\ nextMid \in Nat /\ delivered \subseteq Nat
      /\ \A m \in session : m.mid \in Nat
  BY DEF TypeOK, Message
<1>2. CASE UNCHANGED <<session, nextMid>> /\ delivered' \subseteq delivered
  BY <1>2
<1>3. ASSUME NEW p \in Payload, Publish(p)
      PROVE  MessageIds'
  <2>1. /\ session' = session \cup {[mid |-> nextMid, payload |-> p]}
        /\ nextMid' = nextMid + 1 /\ delivered' = delivered
    BY <1>3 DEF Publish
  <2>2. \A m \in session' : m \in session \/ m = [mid |-> nextMid, payload |-> p]
    BY <2>1
  <2>3. \A m \in session : m.mid < nextMid /\ m.mid # nextMid
    BY <1>1
  <2>4. \A m \in session' : m.mid < nextMid'
    BY <1>1, <2>1, <2>2, <2>3
  <2>5. \A m, o \in session' : m.mid = o.mid => m = o
    BY <2>2, <2>3
  <2>6. \A d \in delivered' : d < nextMid'
    BY <1>1, <2>1
  <2>7. QED
    BY <2>4, <2>5, <2>6
<1>4. ASSUME NEW m \in session, Deliver(m)
      PROVE  MessageIds'
  BY <1>1, <1>4 DEF Deliver
<1>5. CASE Ack
  BY <1>5 DEF Ack
<1>6. QED
  BY <1>2, <1>3, <1>4, <1>5, BrokerSteps DEF StageDuplicate, StageNew, AckLost,
     Reconnect, Restart, broker

LEMMA DeliveredStep ==
  ASSUME PathInv, MessageIds, DeliveredIsDurable, [Next]_vars
  PROVE  DeliveredIsDurable'
<1> USE DEF PathInv
<1>1. session \subseteq Message /\ nextMid \in Nat
      /\ \A m \in session : m.mid \in Nat /\ m.payload \in Payload
  BY DEF TypeOK, Message
<1>2. ASSUME NEW m \in session,
             m.payload \in Settled \/ \E i \in Pending : spool[i].payload = m.payload
      PROVE  m.payload \in Settled' \/ \E i \in Pending' : spool'[i].payload = m.payload
  BY <1>1, <1>2, PendingOrSettled
<1>3. CASE UNCHANGED <<session, delivered, rx>>
  BY <1>2, <1>3 DEF DeliveredIsDurable
<1>4. CASE StageDuplicate \/ StageNew
  <2>1. UNCHANGED <<session, delivered>> /\ rx # Idle /\ rx' # Idle /\ rx'.msg = rx.msg
    BY <1>4 DEF StageDuplicate, StageNew, broker, TypeOK, RxStates, Idle
  <2>2. QED
    BY <1>2, <2>1 DEF DeliveredIsDurable
<1>5. CASE AckLost \/ Ack
  <2>1. /\ session' \subseteq session /\ delivered' \subseteq delivered
        /\ rx' = Idle /\ rx.phase = "staged"
    BY <1>5 DEF Ack, AckLost, broker
  <2>2. rx.msg.payload \in Settled \/ \E i \in Pending : spool[i].payload = rx.msg.payload
    BY <2>1 DEF StagedIsDurable
  <2>3. \A m \in session : m.mid \in delivered =>
          m.payload \in Settled \/ \E i \in Pending : spool[i].payload = m.payload
    BY <2>2 DEF DeliveredIsDurable
  <2>4. QED
    BY <1>2, <2>1, <2>3 DEF DeliveredIsDurable
<1>6. CASE Reconnect \/ \E R \in SUBSET Retirable : Restart(R)
  BY <1>6 DEF Reconnect, Restart, DeliveredIsDurable
<1>7. ASSUME NEW p \in Payload, Publish(p)
      PROVE  DeliveredIsDurable'
  <2>1. /\ session' = session \cup {[mid |-> nextMid, payload |-> p]}
        /\ UNCHANGED <<delivered, rx>>
    BY <1>7 DEF Publish
  <2>2. nextMid \notin delivered
    BY <1>1 DEF MessageIds
  <2>3. rx # Idle => ~(nextMid < rx.msg.mid)
    BY <1>1 DEF MessageIds, MessageHeld
  <2>4. \A m \in session' : m \in session \/ m.mid = nextMid
    BY <2>1
  <2>5. QED
    BY <1>2, <2>1, <2>2, <2>3, <2>4 DEF DeliveredIsDurable
<1>8. ASSUME NEW m \in session, Deliver(m)
      PROVE  DeliveredIsDurable'
  <2>1. /\ UNCHANGED session /\ delivered' = delivered \cup {m.mid}
        /\ rx' = [phase |-> "staging", msg |-> m] /\ rx = Idle
        /\ \A o \in session : o.mid \notin delivered => m.mid <= o.mid
    BY <1>8 DEF Deliver
  <2>2. \A o \in session : o.mid = m.mid => o = m
    BY DEF MessageIds
  <2>3. \A o \in session : o.mid < m.mid => o.mid \in delivered
    BY <1>1, <2>1
  <2>4. rx' # Idle /\ rx'.msg = m
    BY <2>1 DEF Idle
  <2>5. QED
    BY <1>2, <2>1, <2>2, <2>3, <2>4 DEF DeliveredIsDurable
<1>9. QED
  BY <1>3, <1>4, <1>5, <1>6, <1>7, <1>8, BrokerSteps

\* A message follows one of each earlier event: that is what publishers promise
\* (Publish), and a message leaves the session only when its event waits.
LEMMA MessagesStep ==
  ASSUME PathInv, MessageIds, MessagesInOrder, [Next]_vars
  PROVE  MessagesInOrder'
<1> USE DEF PathInv
<1>1. session \subseteq Message /\ nextMid \in Nat
      /\ \A m \in session : m.mid \in Nat /\ m.payload \in Payload
  BY DEF TypeOK, Message
<1>2. ASSUME NEW e, Handled(e) \/ Waits(e)
      PROVE  Handled(e)' \/ Waits(e)'
  BY <1>2, WaitingStays
<1>3. CASE UNCHANGED session
  BY <1>2, <1>3 DEF MessagesInOrder
<1>4. CASE Ack
  <2>1. session' = session \ {rx.msg} /\ rx.msg \in session
    BY <1>4 DEF Ack, MessageHeld, Idle
  <2>2. Handled(EventOf[rx.msg.payload]) \/ Waits(EventOf[rx.msg.payload])
    BY <1>1, <1>4, <2>1, PayloadSaysEvent DEF Ack, StagedIsDurable
  <2>3. \A m \in session', q \in Payload :
          Earlier(q, m.payload) =>
            \/ Handled(EventOf[q]) \/ Waits(EventOf[q])
            \/ \E o \in session' : o.mid < m.mid /\ EventOf[o.payload] = EventOf[q]
    BY <2>1, <2>2 DEF MessagesInOrder
  <2>4. QED
    BY <1>2, <2>3 DEF MessagesInOrder
<1>5. ASSUME NEW p \in Payload, Publish(p)
      PROVE  MessagesInOrder'
  <2> DEFINE new == [mid |-> nextMid, payload |-> p]
  <2>1. session' = session \cup {new} /\ new.mid = nextMid /\ new.payload = p
    BY <1>5 DEF Publish
  <2>2. ASSUME NEW q \in Payload, Earlier(q, p)
        PROVE  \/ Handled(EventOf[q]) \/ Waits(EventOf[q])
               \/ \E o \in session : o.mid < nextMid /\ EventOf[o.payload] = EventOf[q]
    <3>1. PICK t \in published : EventOf[t] = EventOf[q]
      BY <1>5, <2>2 DEF Publish, Earlier
    <3>2. t \in Custody \cup Settled /\ t \in Payload
      BY DEF NothingLost, TypeOK
    <3>3. \/ t \in Settled \/ \E i \in Pending : spool[i].payload = t
          \/ \E o \in session : o.payload = t
      BY <3>2 DEF Custody
    <3>4. QED
      BY <3>1, <3>2, <3>3, PayloadSaysEvent DEF MessageIds
  <2> HIDE DEF new
  <2>3. \A m \in session', q \in Payload :
          Earlier(q, m.payload) =>
            \/ Handled(EventOf[q]) \/ Waits(EventOf[q])
            \/ \E o \in session' : o.mid < m.mid /\ EventOf[o.payload] = EventOf[q]
    <3>1. SUFFICES ASSUME NEW m \in session', NEW q \in Payload, Earlier(q, m.payload)
                   PROVE  \/ Handled(EventOf[q]) \/ Waits(EventOf[q])
                          \/ \E o \in session : o.mid < m.mid /\ EventOf[o.payload] = EventOf[q]
      BY <2>1
    <3>2. CASE m \in session
      BY <3>1, <3>2 DEF MessagesInOrder
    <3>3. CASE m = new
      BY <2>1, <2>2, <3>1, <3>3
    <3>4. QED
      BY <2>1, <3>2, <3>3
  <2>4. QED
    BY <1>2, <2>3 DEF MessagesInOrder
<1>6. QED
  BY <1>3, <1>4, <1>5, BrokerSteps DEF StageDuplicate, StageNew, AckLost,
     Reconnect, Restart, Deliver, broker

\* Deleting the row in hand moves those behind it up by one.
LEMMA DeleteShifts ==
  ASSUME TypeOK, WorkerConsistent, DeleteRecord
  PROVE  /\ DOMAIN spool = 1..Len(spool) /\ Len(spool) \in Nat /\ wk.row \in DOMAIN spool
         /\ DOMAIN spool' = 1..(Len(spool) - 1)
         /\ \A j \in DOMAIN spool' :
              spool'[j] = IF j < wk.row THEN spool[j] ELSE spool[j+1]
<1>1. wk.row \in DOMAIN spool /\ spool \in Seq(Record) /\ Len(spool) \in Nat
      /\ DOMAIN spool = 1..Len(spool)
  BY DEF TypeOK, WorkerConsistent, DeleteRecord, AtStep, Pending
<1>2. QED
  BY <1>1, RemoveAtElements DEF DeleteRecord

\* Rows keep the order of their messages.
LEMMA RowsStep ==
  ASSUME PathInv, MessageIds, DeliveredIsDurable, MessagesInOrder, RowsInOrder,
         RowIsOldest, [Next]_vars
  PROVE  RowsInOrder'
<1> USE DEF PathInv
<1>1. ASSUME NEW e, Handled(e)
      PROVE  Handled(e)'
  BY <1>1, HandledStays
<1>2. SUFFICES ASSUME NEW i \in Pending', NEW q \in Payload,
                      Earlier(q, spool'[i].payload), ~Handled(EventOf[q])'
               PROVE  \E j \in Pending' : j < i /\ EventOf[spool'[j].payload] = EventOf[q]
  BY DEF RowsInOrder
<1>3. ~Handled(EventOf[q])
  BY <1>1, <1>2
<1>4. i \in DOMAIN spool' /\ spool'[i].status = "pending"
  BY DEF Pending
<1>5. CASE UNCHANGED spool
  BY <1>2, <1>3, <1>5 DEF RowsInOrder, Pending
<1>6. CASE StageNew
  <2>1. \A j \in Pending : j \in Pending' /\ spool'[j] = spool[j]
    BY <1>6, StageRows DEF Pending
  <2>2. CASE i = Len(spool) + 1
    <3>1. spool'[i].payload = rx.msg.payload /\ rx.msg \in session /\ rx # Idle
      BY <1>6, <2>2, StageRows DEF NewRecord, MessageHeld, StageNew, Idle
    <3>2. \/ Waits(EventOf[q])
          \/ \E o \in session : o.mid < rx.msg.mid /\ EventOf[o.payload] = EventOf[q]
      BY <1>2, <1>3, <3>1 DEF MessagesInOrder
    <3>3. ASSUME NEW o \in session, o.mid < rx.msg.mid, EventOf[o.payload] = EventOf[q]
          PROVE  Waits(EventOf[q])
      <4>1. o.mid \in delivered /\ o # rx.msg /\ o.payload \in Payload
        BY <3>1, <3>3 DEF DeliveredIsDurable, TypeOK, Message
      <4>2. o.payload \in Settled \/ \E k \in Pending : spool[k].payload = o.payload
        BY <4>1 DEF DeliveredIsDurable
      <4>3. QED
        BY <1>3, <3>3, <4>1, <4>2, PayloadSaysEvent
    <3>4. PICK j \in Pending : EventOf[spool[j].payload] = EventOf[q]
      BY <3>2, <3>3 DEF Waits
    <3>5. j < i
      BY <2>2 DEF Pending, TypeOK
    <3>6. QED
      BY <2>1, <3>4, <3>5
  <2>3. CASE i # Len(spool) + 1
    <3>1. i \in Pending /\ spool'[i] = spool[i]
      BY <1>4, <1>6, <2>3, StageRows DEF Pending
    <3>2. QED
      BY <1>2, <1>3, <2>1, <3>1 DEF RowsInOrder
  <2>4. QED
    BY <2>2, <2>3
<1>7. CASE DeleteRecord
  <2> DEFINE k == IF i < wk.row THEN i ELSE i + 1
  <2>1. i \in 1..(Len(spool) - 1) /\ wk.row \in 1..Len(spool) /\ Len(spool) \in Nat
    BY <1>4, <1>7, DeleteShifts
  <2>2. k \in DOMAIN spool /\ k # wk.row /\ spool'[i] = spool[k]
    BY <1>4, <1>7, <2>1, DeleteShifts
  <2>3. k \in Pending
    BY <1>4, <2>2 DEF Pending
  <2>4. wk.row < k
    BY <1>7, <2>1, <2>2, <2>3 DEF DeleteRecord, AtStep, RowIsOldest, OldestPending
  <2>5. PICK j \in Pending : j < k /\ EventOf[spool[j].payload] = EventOf[q]
    BY <1>2, <1>3, <2>2, <2>3 DEF RowsInOrder
  <2>6. j \in DOMAIN spool /\ wk.row <= j
    BY <1>7 DEF DeleteRecord, AtStep, RowIsOldest, OldestPending, Pending
  <2>7. j # wk.row
    <3>1. Done(spool[wk.row])
      BY <1>7 DEF DeleteRecord, AtStep, WorkerConsistent, rec
    <3>2. Handled(EventOf[spool[wk.row].payload])
      BY <1>7, <3>1, DeleteShifts, DoneIsHandled
    <3>3. QED
      BY <1>3, <2>5, <3>2
  <2>8. /\ j - 1 \in DOMAIN spool' /\ ~(j - 1 < wk.row) /\ (j - 1) + 1 = j
        /\ j - 1 < i
    BY <1>7, <2>1, <2>4, <2>5, <2>6, <2>7, DeleteShifts
  <2>9. spool'[j - 1] = spool[j]
    BY <1>7, <2>8, DeleteShifts
  <2>10. j - 1 \in Pending'
    BY <2>8, <2>9 DEF Pending
  <2>11. QED
    BY <2>5, <2>8, <2>9, <2>10
<1>8. CASE MarkTerminal
  <2>1. /\ wk.row \in DOMAIN spool' /\ spool'[wk.row].status = "terminal"
        /\ spool'[wk.row].payload = spool[wk.row].payload
    BY <1>8, QuarantineRows, RowsAreRecords DEF Pending, rec, Record
  <2>2. i # wk.row /\ i \in Pending /\ spool'[i] = spool[i]
    BY <1>4, <1>8, <2>1, QuarantineRows DEF Pending
  <2>3. PICK j \in Pending : j < i /\ EventOf[spool[j].payload] = EventOf[q]
    BY <1>2, <1>3, <2>2 DEF RowsInOrder
  <2>4. j # wk.row
    <3>1. spool[wk.row].payload \in Payload
      BY <1>8, QuarantineRows, RowsAreRecords DEF Pending
    <3>2. spool[wk.row].payload \in Settled'
      BY <2>1, <3>1 DEF Settled, Terminal
    <3>3. QED
      BY <1>2, <2>3, <3>2 DEF Handled
  <2>5. j \in Pending' /\ spool'[j] = spool[j]
    BY <1>8, <2>4, QuarantineRows DEF Pending
  <2>6. QED
    BY <2>3, <2>5
<1>9. QED
  BY <1>5, <1>6, <1>7, <1>8, SpoolSteps

LEMMA OldestStep ==
  ASSUME TypeOK, WorkerConsistent, RowIsOldest, [Next]_vars
  PROVE  RowIsOldest'
<1>1. CASE wk' = Polling
  BY <1>1 DEF RowIsOldest
<1>2. ASSUME UNCHANGED spool, wk # Polling, wk'.row = wk.row
      PROVE  RowIsOldest'
  BY <1>2 DEF RowIsOldest, OldestPending, Pending
<1>3. CASE StageNew
  <2>1. SUFFICES ASSUME wk # Polling
                 PROVE  OldestPending(wk.row)'
    BY <1>3 DEF StageNew, RowIsOldest
  <2>2. wk.row \in Pending /\ wk.row \in DOMAIN spool /\ \A j \in Pending : wk.row <= j
    BY <2>1 DEF RowIsOldest, OldestPending, Pending
  <2>3. wk.row < Len(spool) + 1 /\ Len(spool) \in Nat
    BY <2>2 DEF TypeOK
  <2>4. \A j \in Pending' : j \in Pending \/ j = Len(spool) + 1
    BY <1>3, StageRows DEF Pending
  <2>5. wk.row \in Pending'
    BY <1>3, <2>2, StageRows DEF Pending
  <2>6. wk'.row = wk.row
    BY <1>3 DEF StageNew
  <2>7. QED
    BY <2>2, <2>3, <2>4, <2>5, <2>6 DEF OldestPending
<1>4. ASSUME NEW i \in DOMAIN spool, TakeRecord(i)
      PROVE  RowIsOldest'
  BY <1>4 DEF TakeRecord, RowIsOldest, OldestPending, Pending
<1>5. CASE UNCHANGED <<spool, wk>>
  BY <1>5 DEF RowIsOldest, OldestPending, Pending
<1>6. CASE Worker
  <2>1. wk # Polling => wk \in [step : WkSteps, row : Nat \ {0}, why : Reason]
    BY DEF TypeOK, WkStates
  <2>2. QED
    BY <1>1, <1>2, <1>4, <1>6, <2>1 DEF Worker, Authorize, RefuseIngress, Persist,
       PublishLive, AfterPersist, PersistDeadLetter, DeleteRecord, MarkTerminal,
       StepFails, LoseReply, AtStep, Goto
<1>7. QED
  BY <1>1, <1>3, <1>5, <1>6 DEF Next, Callback, Environment, StageDuplicate, Ack,
     AckLost, Publish, Deliver, Reconnect, Restart, SetNodeActive, vars

\* What the worker knows of its row.
LEMMA RowInHand ==
  ASSUME TypeOK, WorkerConsistent, TelemetryRowsHaveEvents, wk # Polling
  PROVE  /\ wk.row \in DOMAIN spool /\ wk.row \in Pending /\ rec = spool[wk.row]
         /\ rec \in Record /\ rec.payload \in Payload
         /\ NodeOf[rec.payload] \in Node /\ SequenceOf[rec.payload] \in Nat
         /\ rec.type = "telemetry" => EvOf \in Event /\ EvOf # NoEvent
         /\ wk \in [step : WkSteps, row : Nat \ {0}, why : Reason]
<1>1. wk.row \in DOMAIN spool /\ wk.row \in Pending
  BY DEF WorkerConsistent, Pending
<1>2. rec \in Record /\ rec.payload \in Payload
  BY <1>1, RowsAreRecords DEF rec
<1>3. QED
  BY <1>1, <1>2, ConstantsAssumption DEF rec, EvOf, TelemetryRowsHaveEvents, TypeOK,
     WkStates

\* The cursor moves only in the transaction of Authorize.
LEMMA CursorSteps ==
  ASSUME [Next]_vars
  PROVE  \/ UNCHANGED cursor
         \/ /\ AtStep("authorize") /\ Authorized(rec.payload) /\ AdvanceCursor
            /\ UNCHANGED <<spool, stored, deadLetters, live, processed>>
            /\ Authorize \/ wk' = Polling
BY DEF Next, Callback, Worker, Environment, StageDuplicate, StageNew, Ack,
   AckLost, TakeRecord, Authorize, RefuseIngress, Persist, PublishLive,
   AfterPersist, PersistDeadLetter, DeleteRecord, MarkTerminal, StepFails,
   LoseReply, Publish, Deliver, Reconnect, Restart, SetNodeActive, vars, broker, db

\* The cursor moves past events that are handled: their rows are before the one
\* in hand, which is the oldest.
LEMMA CursorStep ==
  ASSUME PathInv, RowsInOrder, RowIsOldest, CursorOrdered, [Next]_vars
  PROVE  CursorOrdered'
<1> USE DEF PathInv
<1>1. /\ \A e : Handled(e) => Handled(e)'
      /\ \A e : Handled(e) \/ Waits(e) => Handled(e)' \/ Waits(e)'
  BY HandledStays, WaitingStays
<1> DEFINE Held(e) == (\E q \in Settled' : EventOf[q] = e)
                      \/ \E i \in Pending' : EventOf[spool'[i].payload] = e
<1>0. ASSUME NEW e, Handled(e) \/ Waits(e)
      PROVE  Held(e)
  BY <1>1, <1>0 DEF Handled, Waits
<1> HIDE DEF Held
<1>2. CASE UNCHANGED cursor
  <2>1. SUFFICES ASSUME NEW n \in Node
                 PROVE  /\ \A q \in Payload :
                             EventOf[q] # NoEvent /\ NodeOf[q] = n
                             /\ SequenceOf[q] < cursor[n].seq => Handled(EventOf[q])'
                        /\ \/ cursor[n] = NoCursor
                           \/ /\ cursor[n].event # NoEvent
                              /\ Held(cursor[n].event)
                              /\ \E r \in Payload :
                                   /\ NodeOf[r] = n /\ SequenceOf[r] = cursor[n].seq
                                   /\ EventOf[r] = cursor[n].event
    BY <1>2 DEF CursorOrdered, Held, Handled, Waits, NoCursor
  <2>2. \A q \in Payload : EventOf[q] # NoEvent /\ NodeOf[q] = n
                           /\ SequenceOf[q] < cursor[n].seq => Handled(EventOf[q])'
    BY <1>1 DEF CursorOrdered
  <2>3. cursor[n] # NoCursor => Held(cursor[n].event)
    BY <1>0 DEF CursorOrdered
  <2>4. QED
    BY <2>2, <2>3 DEF CursorOrdered
<1>3. ASSUME AtStep("authorize"), AdvanceCursor
      PROVE  CursorOrdered'
  <2> DEFINE p == rec.payload
  <2>1. /\ p \in Payload /\ NodeOf[p] \in Node /\ SequenceOf[p] \in Nat
        /\ EvOf # NoEvent /\ EvOf = EventOf[p] /\ wk.row \in Pending
        /\ rec = spool[wk.row]
    <3>1. wk # Polling /\ rec.type = "telemetry"
      BY <1>3 DEF AtStep, WorkerConsistent
    <3>2. QED
      BY <3>1, RowInHand DEF EvOf
  <2>2. cursor' = [cursor EXCEPT ![NodeOf[p]] = [seq |-> SequenceOf[p], event |-> EventOf[p]]]
    BY <1>3 DEF AdvanceCursor, EvOf
  <2>3. cursor \in [Node -> [seq : Nat, event : Event \cup {NoEvent}]]
    BY DEF TypeOK
  <2>4. Waits(EventOf[p])
    BY <2>1 DEF Waits
  <2>5. ASSUME NEW q \in Payload, Earlier(q, p)
        PROVE  Handled(EventOf[q])
    <3>1. \A j \in Pending : wk.row <= j /\ j \in Nat
      BY <1>3 DEF AtStep, RowIsOldest, OldestPending, Pending, TypeOK
    <3>2. \A j \in Pending : ~(j < wk.row)
      BY <2>1, <3>1
    <3>3. QED
      BY <2>1, <2>5, <3>2 DEF RowsInOrder
  <2> HIDE DEF p
  <2>6. ASSUME NEW n \in Node, n # NodeOf[p]
        PROVE  cursor'[n] = cursor[n]
    BY <2>2, <2>3, <2>6
  <2>7. cursor'[NodeOf[p]] = [seq |-> SequenceOf[p], event |-> EventOf[p]]
    BY <2>1, <2>2, <2>3
  <2>8. \A n \in Node, q \in Payload :
          EventOf[q] # NoEvent /\ NodeOf[q] = n /\ SequenceOf[q] < cursor'[n].seq
            => Handled(EventOf[q])
    BY <2>1, <2>5, <2>6, <2>7 DEF CursorOrdered, Earlier
  <2>9. ASSUME NEW n \in Node
        PROVE  \/ cursor'[n] = NoCursor
               \/ /\ cursor'[n].event # NoEvent
                  /\ Handled(cursor'[n].event) \/ Waits(cursor'[n].event)
                  /\ \E r \in Payload :
                       /\ NodeOf[r] = n /\ SequenceOf[r] = cursor'[n].seq
                       /\ EventOf[r] = cursor'[n].event
    BY <2>1, <2>4, <2>6, <2>7 DEF CursorOrdered
  <2>10. ASSUME NEW n \in Node, cursor'[n] # NoCursor
         PROVE  Held(cursor'[n].event)
    BY <1>0, <2>9, <2>10
  <2>11. \A n \in Node, q \in Payload :
          EventOf[q] # NoEvent /\ NodeOf[q] = n /\ SequenceOf[q] < cursor'[n].seq
            => Handled(EventOf[q])'
    BY <1>1, <2>8
  <2>12. QED
    BY <2>9, <2>10, <2>11 DEF CursorOrdered, Held, Handled, Waits, NoCursor
<1>4. QED
  BY <1>2, <1>3, CursorSteps

LEMMA OrderInit == Init => OrderInv
  BY ConstantsAssumption DEF Init, OrderInv, MessageIds, DeliveredIsDurable, MessagesInOrder, RowsInOrder,
     RowIsOldest, CursorOrdered, Idle, Polling, Pending, NoCursor

LEMMA OrderStep == PathInv /\ OrderInv /\ [Next]_vars => OrderInv'
<1>1. PathInv => TypeOK /\ WorkerConsistent
  BY DEF PathInv
<1>2. QED
  BY <1>1, MessageIdsStep, DeliveredStep, MessagesStep, RowsStep, OldestStep, CursorStep
     DEF OrderInv

\* Whatever is redelivered, messages, rows and the cursor keep the order of the
\* events of a node (DurableMqttConsumer, DurableSpool, authorize_ingress).
THEOREM Order == Spec => []OrderInv
<1>1. QED
  BY OrderInit, OrderStep, PathInvariant, PTL DEF Spec

\* The cursor is never ahead of the data: each published event below it has an
\* outcome, and the one at it has one or is a row the worker comes back to.
THEOREM CursorCovers == Spec => []CursorCoversEvents
<1>1. PathInv /\ OrderInv => CursorCoversEvents
  <2> SUFFICES ASSUME PathInv, OrderInv, NEW p \in published, EventOf[p] # NoEvent
               PROVE  /\ SequenceOf[p] < cursor[NodeOf[p]].seq => Handled(EventOf[p])
                      /\ EventOf[p] = cursor[NodeOf[p]].event =>
                           Handled(EventOf[p]) \/ Waits(EventOf[p])
    BY DEF CursorCoversEvents, Waits
  <2>1. p \in Payload /\ NodeOf[p] \in Node
    BY ConstantsAssumption DEF PathInv, TypeOK
  <2>2. QED
    BY <2>1 DEF OrderInv, CursorOrdered, NoCursor
<1>2. QED
  BY <1>1, PathInvariant, Order, PTL
-----------------------------------------------------------------------------
(***************************************************************************)
(* What the path says of an event: stored, processed, refused, explained.  *)
(***************************************************************************)
\* A quarantined row is never touched again.
LEMMA TerminalStays ==
  ASSUME TypeOK, WorkerConsistent, [Next]_vars
  PROVE  \A i \in Terminal : \E j \in Terminal' : spool'[j] = spool[i]
<1>1. CASE UNCHANGED spool
  BY <1>1 DEF Terminal
<1>2. CASE StageNew
  BY <1>2, StageRows DEF Terminal
<1>3. CASE DeleteRecord
  <2>1. wk.row \in Pending
    BY <1>3 DEF DeleteRecord, WorkerConsistent, AtStep
  <2>2. \A i \in Terminal : i \in DOMAIN spool \ {wk.row}
    BY <2>1 DEF Terminal, Pending
  <2>3. QED
    BY <1>3, <2>2, DeleteRows DEF Terminal
<1>4. CASE MarkTerminal
  <2>1. \A i \in Terminal : i \in DOMAIN spool \ {wk.row}
    BY <1>4, QuarantineRows DEF Terminal, Pending
  <2>2. QED
    BY <1>4, <2>1, QuarantineRows DEF Terminal
<1>5. QED
  BY <1>1, <1>2, <1>3, <1>4, SpoolSteps

\* What is known of an event stays known.
LEMMA KnowledgeStays ==
  ASSUME TypeOK, WorkerConsistent, [Next]_vars
  PROVE  /\ \A e : IsStored(e) => IsStored(e)'
         /\ \A e, why : Refused(e, why) => Refused(e, why)'
         /\ \A e : Explained(e) => Explained(e)'
         /\ \A e : Quarantined(e) => Quarantined(e)'
<1>1. \A e : IsStored(e) => IsStored(e)'
  BY OutcomesStay
<1>2. deadLetters \subseteq deadLetters'
  BY DatabaseGrows
<1>3. \A i \in Terminal : \E j \in Terminal' : spool'[j] = spool[i]
  BY TerminalStays
<1>4. \A e, why : Refused(e, why) => Refused(e, why)'
  BY <1>2 DEF Refused
<1>5. ASSUME NEW e, Quarantined(e)
      PROVE  Quarantined(e)'
  <2>1. PICK i \in Terminal : spool[i].type = "telemetry" /\ EventOf[spool[i].payload] = e
    BY <1>5 DEF Quarantined
  <2>2. PICK j \in Terminal' : spool'[j] = spool[i]
    BY <1>3
  <2>3. QED
    BY <2>1, <2>2 DEF Quarantined
<1>6. ASSUME NEW e, Explained(e)
      PROVE  Explained(e)'
  <2>1. CASE IsStored(e)
    BY <1>1, <2>1 DEF Explained
  <2>2. CASE \E d \in deadLetters : d.why # "replay" /\ EventOf[d.payload] = e
    BY <1>2, <2>2 DEF Explained
  <2>3. ASSUME NEW i \in Terminal, EventOf[spool[i].payload] = e
        PROVE  Explained(e)'
    <3>1. PICK j \in Terminal' : spool'[j] = spool[i]
      BY <1>3
    <3>2. QED
      BY <2>3, <3>1 DEF Explained
  <2>4. QED
    BY <1>6, <2>1, <2>2, <2>3 DEF Explained
<1>7. QED
  BY <1>1, <1>4, <1>5, <1>6

\* An outcome explains a refusal, unless it is a refused replay itself; and
\* that was explained when it was refused.
LEMMA HandledIsExplained ==
  ASSUME NoFalseReplay, NEW e, Handled(e)
  PROVE  Explained(e)
<1>1. PICK q \in Settled : EventOf[q] = e
  BY DEF Handled
<1>2. CASE EventOf[q] # NoEvent /\ IsStored(EventOf[q])
  BY <1>1, <1>2 DEF Explained
<1>3. CASE \E d \in deadLetters : d.payload = q
  BY <1>1, <1>3 DEF NoFalseReplay, Explained
<1>4. CASE \E i \in Terminal : spool[i].payload = q
  BY <1>1, <1>4 DEF Explained
<1>5. QED
  BY <1>2, <1>3, <1>4 DEF Settled

\* Where samples, dead letters and live events come from.
LEMMA StoredSteps ==
  ASSUME [Next]_vars
  PROVE  \/ UNCHANGED stored
         \/ /\ AtStep("persist") /\ InsertSample
            /\ UNCHANGED <<spool, cursor, deadLetters, live, processed>>
BY DEF Next, Callback, Worker, Environment, StageDuplicate, StageNew, Ack,
   AckLost, TakeRecord, Authorize, RefuseIngress, Persist, PublishLive,
   AfterPersist, PersistDeadLetter, DeleteRecord, MarkTerminal, StepFails,
   LoseReply, Publish, Deliver, Reconnect, Restart, SetNodeActive, vars, broker, db

LEMMA DeadLetterSteps ==
  ASSUME [Next]_vars
  PROVE  \/ UNCHANGED deadLetters
         \/ (AtStep("dead_letter") \/ AtStep("reject")) /\ InsertDeadLetter
BY DEF Next, Callback, Worker, Environment, StageDuplicate, StageNew, Ack,
   AckLost, TakeRecord, Authorize, RefuseIngress, Persist, PublishLive,
   AfterPersist, PersistDeadLetter, DeleteRecord, MarkTerminal, StepFails,
   LoseReply, Publish, Deliver, Reconnect, Restart, SetNodeActive, vars, broker, db

LEMMA LiveSteps ==
  ASSUME [Next]_vars
  PROVE  UNCHANGED live \/ PublishLive
BY DEF Next, Callback, Worker, Environment, StageDuplicate, StageNew, Ack,
   AckLost, TakeRecord, Authorize, RefuseIngress, Persist, AfterPersist,
   PersistDeadLetter, DeleteRecord, MarkTerminal, StepFails,
   LoseReply, Publish, Deliver, Reconnect, Restart, SetNodeActive, vars, broker, db

\* An event becomes committed and unprocessed only by the insert of its row.
LEMMA UnprocessedArises ==
  ASSUME TypeOK, WorkerConsistent, [Next]_vars, NEW e, ~Unprocessed(e), Unprocessed(e)'
  PROVE  /\ AtStep("persist") /\ EvOf = e
         /\ UNCHANGED <<spool, cursor, deadLetters, live, processed>>
<1>1. e \notin processed /\ ~Refused(e, "authorization") /\ ~Quarantined(e)
  BY KnowledgeStays, DatabaseGrows DEF Unprocessed
<1>2. ~IsStored(e) /\ IsStored(e)'
  BY <1>1 DEF Unprocessed
<1>3. /\ AtStep("persist") /\ InsertSample
      /\ UNCHANGED <<spool, cursor, deadLetters, live, processed>>
  BY <1>2, StoredSteps DEF IsStored
<1>4. EvOf = e
  BY <1>2, <1>3 DEF IsStored, InsertSample, EvOf
<1>5. QED
  BY <1>3, <1>4

\* Two oldest rows are one.
LEMMA OneOldest ==
  ASSUME TypeOK, NEW i, NEW j, OldestPending(i), OldestPending(j)
  PROVE  i = j
<1>1. i \in Nat /\ j \in Nat
  BY DEF TypeOK, OldestPending, Pending
<1>2. i <= j /\ j <= i
  BY DEF OldestPending
<1>3. QED
  BY <1>1, <1>2

\* With the row of an unprocessed event in hand, the cursor stands at it.
LEMMA UnprocessedInHand ==
  ASSUME TypeOK, RowIsOldest, UnprocessedIsNext, wk # Polling,
         NEW e \in Event, Unprocessed(e)
  PROVE  /\ rec.type = "telemetry" /\ EvOf = e
         /\ Enforced => AtCursor(rec.payload)
<1>1. PICK i \in DOMAIN spool :
        /\ spool[i].type = "telemetry" /\ EventOf[spool[i].payload] = e
        /\ OldestPending(i)
        /\ Enforced => AtCursor(spool[i].payload)
  BY DEF UnprocessedIsNext
<1>2. i = wk.row
  BY <1>1, OneOldest DEF RowIsOldest
<1>3. QED
  BY <1>1, <1>2 DEF rec, EvOf

\* The transaction of Authorize puts the cursor at the event in hand.
LEMMA AdvancePlacesCursor ==
  ASSUME TypeOK, WorkerConsistent, TelemetryRowsHaveEvents, wk # Polling,
         Authorized(rec.payload), AdvanceCursor, NEW p \in Payload, p = rec.payload
  PROVE  AtCursor(p)'
<1>1. NodeOf[p] \in Node /\ EvOf = EventOf[p] /\ SequenceOf[p] >= 1
  BY ConstantsAssumption DEF Authorized, EvOf
<1>2. cursor \in [Node -> [seq : Nat, event : Event \cup {NoEvent}]]
  BY DEF TypeOK
<1>3. cursor'[NodeOf[p]] = [seq |-> SequenceOf[p], event |-> EventOf[p]]
  BY <1>1, <1>2 DEF AdvanceCursor
<1>4. QED
  BY <1>1, <1>3 DEF AtCursor

\* And only an enforced registry sends the telemetry to be authorized.
LEMMA FirstStepChoice ==
  ASSUME NEW r \in Record
  PROVE  /\ FirstStep(r) \in {"dead_letter", "quarantine", "authorize", "persist"}
         /\ FirstStep(r) = "dead_letter" => r.type = "dead_letter"
         /\ FirstStep(r) = "authorize" => Enforced
         /\ FirstStep(r) = "persist" => ~Enforced
<1>1. Decodes(r.payload) \in BOOLEAN /\ Enforced \in BOOLEAN
  BY ConstantsAssumption DEF Decodes
<1>2. r.type \in {"telemetry", "dead_letter"}
  BY DEF Record
<1>3. CASE r.type = "dead_letter"
  BY <1>3 DEF FirstStep
<1>4. CASE r.type = "telemetry" /\ ~Decodes(r.payload)
  BY <1>4 DEF FirstStep
<1>5. CASE r.type = "telemetry" /\ Decodes(r.payload)
  BY <1>1, <1>5 DEF FirstStep
<1>6. QED
  BY <1>1, <1>2, <1>3, <1>4, <1>5

\* The row of an unprocessed event stays the next one until it is processed,
\* refused or quarantined.
LEMMA UnprocessedStep ==
  ASSUME PathInv, RowIsOldest, UnprocessedIsNext, StepsKnow, [Next]_vars
  PROVE  UnprocessedIsNext'
<1> USE DEF PathInv
<1> DEFINE AtNext(p) == /\ SequenceOf[p] >= 1
                        /\ cursor'[NodeOf[p]] = [seq |-> SequenceOf[p],
                                                 event |-> EventOf[p]]
           NextIs(i) == i \in Pending' /\ \A j \in Pending' : i <= j
<1> SUFFICES ASSUME NEW e \in Event, Unprocessed(e)'
             PROVE  \E i \in DOMAIN spool' :
                      /\ spool'[i].type = "telemetry" /\ EventOf[spool'[i].payload] = e
                      /\ NextIs(i)
                      /\ Enforced => AtNext(spool'[i].payload)
  BY DEF UnprocessedIsNext, AtCursor, OldestPending
<1> HIDE DEF AtNext, NextIs
<1>1. CASE ~Unprocessed(e)
  <2>1. /\ AtStep("persist") /\ EvOf = e /\ UNCHANGED <<spool, cursor>>
    BY <1>1, UnprocessedArises
  <2>2. /\ wk # Polling /\ wk.row \in DOMAIN spool /\ rec = spool[wk.row]
        /\ rec.type = "telemetry" /\ OldestPending(wk.row)
    BY <2>1, RowInHand DEF AtStep, WorkerConsistent, RowIsOldest
  <2>3. Enforced => AtCursor(rec.payload)
    BY <2>1 DEF AtStep, StepsKnow
  <2>4. NextIs(wk.row)
    BY <2>1, <2>2 DEF OldestPending, Pending, NextIs
  <2>5. \A p : AtCursor(p) => AtNext(p)
    BY <2>1 DEF AtCursor, AtNext
  <2>6. QED
    BY <2>1, <2>2, <2>3, <2>4, <2>5 DEF EvOf
<1>2. CASE Unprocessed(e)
  <2>1. PICK i \in DOMAIN spool :
          /\ spool[i].type = "telemetry" /\ EventOf[spool[i].payload] = e
          /\ OldestPending(i)
          /\ Enforced => AtCursor(spool[i].payload)
    BY <1>2 DEF UnprocessedIsNext
  <2>2. spool[i].payload \in Payload
    BY RowsAreRecords
  <2>3. wk # Polling => i = wk.row
    BY <2>1, OneOldest DEF RowIsOldest
  <2>4. ASSUME Enforced
        PROVE  AtNext(spool[i].payload)
    <3>1. PICK p \in Payload : p = spool[i].payload
      BY <2>2
    <3>2. CASE UNCHANGED cursor
      BY <2>1, <2>4, <3>2 DEF AtCursor, AtNext
    <3>3. CASE AtStep("authorize") /\ Authorized(rec.payload) /\ AdvanceCursor
               /\ UNCHANGED spool
      <4>1. wk # Polling /\ p = rec.payload
        BY <2>3, <3>1, <3>3 DEF AtStep, rec
      <4>2. AtCursor(p)'
        BY <3>3, <4>1, AdvancePlacesCursor
      <4>3. QED
        BY <3>1, <4>2 DEF AtCursor, AtNext
    <3>4. QED
      BY <3>2, <3>3, CursorSteps
  <2>5. CASE UNCHANGED spool
    BY <2>1, <2>4, <2>5 DEF OldestPending, Pending, NextIs
  <2>6. CASE StageNew
    <3>1. i \in DOMAIN spool' /\ spool'[i] = spool[i]
      BY <2>6, StageRows
    <3>2. Len(spool) \in Nat /\ i \in 1..Len(spool)
      BY DEF TypeOK
    <3>3. \A j \in Pending' : j \in Pending \/ j = Len(spool) + 1
      BY <2>6, StageRows DEF Pending
    <3>4. NextIs(i)
      BY <2>1, <3>1, <3>2, <3>3 DEF OldestPending, Pending, NextIs
    <3>5. QED
      BY <2>1, <2>4, <3>1, <3>4
  <2>7. CASE DeleteRecord
    <3>1. wk # Polling /\ wk.step = "delete" /\ i = wk.row
      BY <2>3, <2>7 DEF DeleteRecord, AtStep
    <3>2. ~Unprocessed(EvOf) /\ EvOf = e
      BY <2>1, <3>1 DEF StepsKnow, rec, EvOf
    <3>3. QED
      BY <1>2, <3>2
  <2>8. CASE MarkTerminal
    <3>1. i = wk.row
      BY <2>3, <2>8 DEF MarkTerminal, AtStep
    <3>2. /\ i \in DOMAIN spool' /\ spool'[i].status = "terminal"
          /\ spool'[i].type = "telemetry" /\ spool'[i].payload = spool[i].payload
      BY <2>1, <2>8, <3>1, QuarantineRows, RowsAreRecords DEF rec, Record
    <3>3. Quarantined(e)'
      BY <2>1, <3>2 DEF Quarantined, Terminal
    <3>4. QED
      BY <3>3 DEF Unprocessed
  <2>9. QED
    BY <2>5, <2>6, <2>7, <2>8, SpoolSteps
<1>3. QED
  BY <1>1, <1>2

\* A replay is refused with a reason: the events below the cursor are handled,
\* and so is the one at it when it is another; and the event was processed, or
\* the cursor would stand at it and let it pass.
LEMMA RefusalExplained ==
  ASSUME PathInv, CursorOrdered, RowIsOldest, EventsInv,
         AtStep("authorize"), ~Authorized(rec.payload),
         RejectReason(rec.payload) = "replay"
  PROVE  Explained(EvOf) /\ ~Unprocessed(EvOf)
<1> USE DEF PathInv, EventsInv
<1> DEFINE p == rec.payload
           c == cursor[NodeOf[p]]
<1>1. /\ wk # Polling /\ rec.type = "telemetry" /\ wk.step = "authorize"
  BY DEF AtStep, WorkerConsistent
<1>2. /\ p \in Payload /\ NodeOf[p] \in Node /\ SequenceOf[p] \in Nat
      /\ EvOf = EventOf[p] /\ EvOf \in Event /\ EvOf # NoEvent
  BY <1>1, RowInHand DEF EvOf
<1> HIDE DEF p
<1>3. SequenceOf[p] >= 1
  BY <1>2, SequenceAssumption
<1>4. NodeOf[p] \in active
  BY <1>3 DEF RejectReason, p
<1>5. c.seq \in Nat /\ c.event \in Event \cup {NoEvent}
  BY <1>2 DEF TypeOK
<1>6. /\ ~(SequenceOf[p] > c.seq)
      /\ ~(SequenceOf[p] = c.seq /\ EventOf[p] = c.event)
  BY <1>3, <1>4 DEF Authorized, p
<1>7. Handled(EvOf)
  <2>1. CASE SequenceOf[p] < c.seq
    BY <1>2, <2>1 DEF CursorOrdered
  <2>2. CASE SequenceOf[p] = c.seq
    <3>1. c # NoCursor
      BY <1>3, <2>2 DEF NoCursor
    <3>2. c.event # NoEvent
          /\ \E r \in Payload : NodeOf[r] = NodeOf[p] /\ SequenceOf[r] = c.seq
                                /\ EventOf[r] = c.event
      BY <1>2, <3>1 DEF CursorOrdered
    <3>3. c.event = EventOf[p]
      BY <1>2, <2>2, <3>2, SequenceAssumption
    <3>4. QED
      BY <1>6, <2>2, <3>3
  <2>3. QED
    BY <1>2, <1>5, <1>6, <2>1, <2>2
<1>8. Explained(EvOf)
  BY <1>7, HandledIsExplained
<1>9. ASSUME Unprocessed(EvOf)
      PROVE  FALSE
  <2>1. AtCursor(p)
    BY <1>1, <1>2, <1>9, UnprocessedInHand DEF StepsKnow, p
  <2>2. SequenceOf[p] = c.seq /\ EventOf[p] = c.event
    BY <2>1 DEF AtCursor
  <2>3. QED
    BY <1>6, <2>2
<1>10. QED
  BY <1>8, <1>9

LEMMA StepsKnowStep ==
  ASSUME PathInv, OrderInv, EventsInv, [Next]_vars
  PROVE  StepsKnow'
<1> USE DEF PathInv, OrderInv, EventsInv
<1>1. CASE wk' = Polling
  BY <1>1 DEF StepsKnow
<1>2. CASE UNCHANGED <<wk, db>> /\ (UNCHANGED spool \/ StageNew)
  <2>1. SUFFICES ASSUME wk # Polling
                 PROVE  StepsKnow'
    BY <1>2 DEF StepsKnow
  <2>2. wk.row \in DOMAIN spool
    BY <2>1, RowInHand
  <2>3. rec' = rec /\ EvOf' = EvOf
    BY <1>2, <2>2, StageRows DEF rec, EvOf
  <2>4. PICK e : e = EvOf
    OBVIOUS
  <2>5. wk.step = "reject" /\ wk.why = "replay" => Explained(e)'
    BY <2>1, <2>4, KnowledgeStays DEF StepsKnow
  <2>6. wk.step # "persist" /\ ~Unprocessed(e) => ~Unprocessed(e)'
    BY UnprocessedArises DEF AtStep
  <2>7. wk.step = "persist" /\ Enforced => AtCursor(rec.payload)'
    BY <1>2, <2>1, <2>3 DEF StepsKnow, AtCursor, db
  <2>8. wk.step = "publish" => live'[e] = 0
    BY <1>2, <2>1, <2>4 DEF StepsKnow, db
  <2>9. EvOf' = e
    BY <2>3, <2>4
  <2>10. /\ wk.step = "reject" /\ wk.why = "replay" => ~Unprocessed(e)
         /\ wk.step = "delete" /\ rec.type = "telemetry" => ~Unprocessed(e)
    BY <2>1, <2>4 DEF StepsKnow
  <2>11. /\ wk.step = "authorize" => Enforced
         /\ wk.step = "dead_letter" => wk.why = "schema" /\ rec.type = "dead_letter"
         /\ wk.step = "reject" => rec.type = "telemetry"
                                  /\ wk.why \in {"authorization", "replay"}
    BY <2>1 DEF StepsKnow
  <2>12. wk' = wk
    BY <1>2
  <2>13. QED
    BY <2>3, <2>5, <2>6, <2>7, <2>8, <2>9, <2>10, <2>11, <2>12 DEF StepsKnow
<1>3. ASSUME NEW i \in DOMAIN spool, TakeRecord(i)
      PROVE  StepsKnow'
  <2>1. spool[i] \in Record
    BY RowsAreRecords
  <2>2. /\ wk'.step = FirstStep(spool[i]) /\ wk'.why = "schema" /\ rec' = spool[i]
    BY <1>3 DEF TakeRecord, rec
  <2>3. /\ FirstStep(spool[i]) \in {"dead_letter", "quarantine", "authorize", "persist"}
        /\ FirstStep(spool[i]) = "dead_letter" => spool[i].type = "dead_letter"
        /\ FirstStep(spool[i]) = "authorize" => Enforced
        /\ FirstStep(spool[i]) = "persist" => ~Enforced
    BY <2>1, FirstStepChoice
  <2>4. QED
    BY <2>2, <2>3 DEF StepsKnow
<1>4. CASE Worker /\ wk # Polling /\ wk' # Polling
  <2>1. /\ wk \in [step : WkSteps, row : Nat \ {0}, why : Reason]
        /\ wk.row \in DOMAIN spool /\ rec.payload \in Payload
    BY <1>4, RowInHand
  <2>2. UNCHANGED spool /\ wk'.row = wk.row
    BY <1>4, <2>1 DEF Worker, TakeRecord, Authorize, RefuseIngress, Persist, PublishLive,
       AfterPersist, PersistDeadLetter, DeleteRecord, MarkTerminal, StepFails,
       LoseReply, Goto
  <2>3. rec' = rec /\ EvOf' = EvOf
    BY <2>2 DEF rec, EvOf
  <2>4. PICK e, p : e = EvOf /\ p = rec.payload /\ EvOf' = e /\ rec'.payload = p
                    /\ p \in Payload
    BY <2>1, <2>3
  <2>5. wk.step # "persist" /\ ~Unprocessed(e) => ~Unprocessed(e)'
    BY UnprocessedArises DEF AtStep
  <2>6. CASE Authorize
    <3>1. AtCursor(p)'
      BY <1>4, <2>4, <2>6, AdvancePlacesCursor DEF Authorize
    <3>2. wk'.step = "persist"
      BY <2>1, <2>6 DEF Authorize, Goto
    <3>3. AtCursor(rec.payload)'
      BY <2>3, <2>4, <3>1 DEF AtCursor
    <3>4. QED
      BY <3>2, <3>3 DEF StepsKnow
  <2>7. CASE RefuseIngress
    <3>1. /\ wk'.step = "reject" /\ wk'.why = RejectReason(rec.payload)
          /\ rec.type = "telemetry" /\ UNCHANGED <<spool, db>>
      BY <2>1, <2>7 DEF RefuseIngress, AtStep, WorkerConsistent
    <3>2. RejectReason(rec.payload) \in {"authorization", "replay"}
      BY DEF RejectReason
    <3>3. RejectReason(rec.payload) = "replay" => Explained(e) /\ ~Unprocessed(e)
      BY <2>4, <2>7, RefusalExplained DEF RefuseIngress
    <3>4. Explained(e) => Explained(e)'
      BY KnowledgeStays
    <3>5. wk.step # "persist"
      BY <2>7 DEF RefuseIngress, AtStep
    <3>6. wk'.why = "replay" => Explained(e)' /\ ~Unprocessed(e)'
      BY <2>5, <3>1, <3>3, <3>4, <3>5
    <3>7. QED
      BY <2>3, <2>4, <3>1, <3>2, <3>6 DEF StepsKnow
  <2>8. CASE Persist
    <3>1. wk'.step = (IF IsStored(e) THEN "after" ELSE "publish") /\ live' = live
      BY <2>1, <2>4, <2>8 DEF Persist, Goto
    <3>2. e \in Event
      BY <1>4, <2>4, <2>8, RowInHand DEF Persist, AtStep, WorkerConsistent
    <3>3. ~IsStored(e) => live[e] = 0
      BY <3>2 DEF LiveOnceAfterCommit, TypeOK
    <3>4. QED
      BY <2>4, <3>1, <3>3 DEF StepsKnow
  <2>9. CASE PublishLive
    <3>1. wk'.step = "after"
      BY <2>1, <2>9 DEF PublishLive, Goto
    <3>2. QED
      BY <3>1 DEF StepsKnow
  <2>10. CASE AfterPersist
    <3>1. wk'.step = "delete" /\ e \in processed'
      BY <2>1, <2>4, <2>10 DEF AfterPersist, Goto
    <3>2. ~Unprocessed(e)'
      BY <3>1 DEF Unprocessed
    <3>3. QED
      BY <2>4, <3>1, <3>2 DEF StepsKnow
  <2>11. CASE PersistDeadLetter
    <3>1. wk'.step = "delete" /\ wk.step \in {"dead_letter", "reject"}
      BY <2>1, <2>11 DEF PersistDeadLetter, Goto, AtStep
    <3>2. CASE rec.type = "dead_letter"
      BY <2>3, <3>1, <3>2 DEF StepsKnow
    <3>3. CASE wk.step = "reject" /\ wk.why = "replay"
      <4>1. ~Unprocessed(e)
        BY <1>4, <2>4, <3>3 DEF StepsKnow
      <4>2. ~Unprocessed(e)'
        BY <2>5, <3>3, <4>1
      <4>3. QED
        BY <2>4, <3>1, <4>2 DEF StepsKnow
    <3>4. CASE wk.step = "reject" /\ wk.why = "authorization"
      <4>1. [payload |-> p, why |-> "authorization"] \in deadLetters' /\ EventOf[p] = e
        BY <2>4, <2>11, <3>4 DEF PersistDeadLetter, InsertDeadLetter, EvOf
      <4>2. Refused(e, "authorization")'
        BY <4>1 DEF Refused
      <4>3. ~Unprocessed(e)'
        BY <4>2 DEF Unprocessed
      <4>4. QED
        BY <2>4, <3>1, <4>3 DEF StepsKnow
    <3>5. QED
      BY <1>4, <3>1, <3>2, <3>3, <3>4 DEF StepsKnow
  <2>12. QED
    BY <1>4, <2>6, <2>7, <2>8, <2>9, <2>10, <2>11 DEF Worker, TakeRecord,
       DeleteRecord, MarkTerminal, StepFails, LoseReply
<1>5. CASE Worker
  BY <1>1, <1>3, <1>4, <1>5 DEF Worker, Authorize, RefuseIngress, Persist, PublishLive,
     AfterPersist, PersistDeadLetter, DeleteRecord, MarkTerminal, StepFails,
     LoseReply, AtStep
<1>6. CASE ~Worker
  BY <1>1, <1>2, <1>6 DEF Next, Callback, Environment, StageDuplicate, StageNew, Ack,
     AckLost, Publish, Deliver, Reconnect, Restart, SetNodeActive, vars
<1>7. QED
  BY <1>5, <1>6

LEMMA LiveStep ==
  ASSUME PathInv, EventsInv, [Next]_vars
  PROVE  LiveOnceAfterCommit'
<1> USE DEF PathInv, EventsInv
<1>1. \A e : IsStored(e) => IsStored(e)'
  BY KnowledgeStays
<1>2. CASE UNCHANGED live
  BY <1>1, <1>2 DEF LiveOnceAfterCommit
<1>3. CASE PublishLive
  <2>1. /\ wk # Polling /\ EvOf \in Event /\ IsStored(EvOf) /\ live[EvOf] = 0
    BY <1>3, RowInHand DEF PublishLive, AtStep, WorkerConsistent, StepsKnow
  <2>2. live' = [live EXCEPT ![EvOf] = 1] /\ live \in [Event -> Nat]
    BY <1>3, <2>1 DEF PublishLive, TypeOK
  <2>3. QED
    BY <1>1, <2>1, <2>2 DEF LiveOnceAfterCommit
<1>4. QED
  BY <1>2, <1>3, LiveSteps

LEMMA ReplayStep ==
  ASSUME PathInv, EventsInv, [Next]_vars
  PROVE  NoFalseReplay'
<1> USE DEF PathInv, EventsInv
<1> SUFFICES ASSUME NEW d \in deadLetters', d.why = "replay"
             PROVE  Explained(EventOf[d.payload])'
  BY DEF NoFalseReplay, Explained
<1>1. CASE d \in deadLetters
  BY <1>1, KnowledgeStays DEF NoFalseReplay, Explained
<1>2. CASE d \notin deadLetters
  <2>1. /\ AtStep("dead_letter") \/ AtStep("reject")
        /\ d = [payload |-> rec.payload, why |-> wk.why]
    BY <1>2, DeadLetterSteps DEF InsertDeadLetter
  <2>2. wk # Polling /\ wk.step = "reject" /\ wk.why = "replay"
    BY <2>1 DEF AtStep, StepsKnow
  <2>3. Explained(EvOf) /\ EvOf = EventOf[d.payload]
    BY <2>1, <2>2 DEF StepsKnow, EvOf
  <2>4. QED
    BY <2>3, KnowledgeStays
<1>3. QED
  BY <1>1, <1>2

LEMMA EventsStep == PathInv /\ OrderInv /\ EventsInv /\ [Next]_vars => EventsInv'
<1> SUFFICES ASSUME PathInv, OrderInv, EventsInv, [Next]_vars
             PROVE  EventsInv'
  OBVIOUS
<1>1. UnprocessedIsNext'
  BY UnprocessedStep DEF OrderInv, EventsInv
<1>2. LiveOnceAfterCommit' /\ StepsKnow' /\ NoFalseReplay'
  BY LiveStep, StepsKnowStep, ReplayStep
<1>3. QED
  BY <1>1, <1>2 DEF EventsInv

\* The worker knows what became of the event in hand, and a committed event that
\* still needs its processing is the oldest row (DurableIngestionWorker).
THEOREM Events == Spec => []EventsInv
<1>1. Init => EventsInv
  BY DEF Init, EventsInv, LiveOnceAfterCommit, UnprocessedIsNext, Unprocessed, IsStored,
     StepsKnow, NoFalseReplay
<1>2. QED
  BY <1>1, EventsStep, PathInvariant, Order, PTL DEF Spec

\* An event refused as a replay was stored, refused for another reason or
\* quarantined before.
THEOREM NoReplayIsFalse == Spec => []NoFalseReplay
<1>1. EventsInv => NoFalseReplay
  BY DEF EventsInv
<1>2. QED
  BY <1>1, Events, PTL

\* The live feed sees an event at most once and only after its commit.
THEOREM LiveOnce == Spec => []LiveOnceAfterCommit
<1>1. EventsInv => LiveOnceAfterCommit
  BY DEF EventsInv
<1>2. QED
  BY <1>1, Events, PTL

\* A stored event was processed, has its row in the spool, or was refused when
\* its processing was tried again.
THEOREM ProcessedOrHeld == Spec => []StoredIsProcessed
<1>1. EventsInv => StoredIsProcessed
  BY DEF EventsInv, UnprocessedIsNext, Unprocessed, Refused, Quarantined,
     StoredIsProcessed, HasRow, Terminal
<1>2. QED
  BY <1>1, Events, PTL
=============================================================================
