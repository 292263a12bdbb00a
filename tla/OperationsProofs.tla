-------------------------- MODULE OperationsProofs --------------------------
(***************************************************************************)
(* Theorems about what operators change while a worker goes by it: the     *)
(* release a host runs (VersionSpec) and the test sessions (SessionSpec).  *)
(***************************************************************************)
EXTENDS TestSessions, VersionManagement, FiniteSetTheorems, SequenceTheorems, TLAPS

-----------------------------------------------------------------------------
(***************************************************************************)
(* Version management, for any bundles, operations and deaths.             *)
(*                                                                         *)
(* An operation is taken off the screen because its request is, and a      *)
(* request is taken away only by the run that answered it.  So as long as  *)
(* no operation was published beside a request there is one request at a   *)
(* time (OneRequest), it starts where the host is or brought it there, and *)
(* whatever is shown as active is that request.                            *)
(***************************************************************************)
PublisherStates ==
  {NoPublisher}
  \cup [step : {"read"}, seen : [bundle : Bundles, known : BOOLEAN, last : 0..MaxOperations]]
  \cup [step : {"request", "record"}, op : Ids]

RunStates ==
  {NoRun} \cup [step : {"prepare", "install", "verify", "finish", "revert", "failed", "remove"},
                op : Ids]

InPublication(o) == publisher.step \in {"request", "record"} /\ publisher.op = o

\* An operation that left any trace has its plan, and a new one has no trace.
PlansKept ==
  /\ \A o \in Ids : o \in requests \/ record[o] # "none" \/ InPublication(o) => o \notin Unused
  /\ publisher.step = "request" =>
       publisher.op \notin requests /\ record[publisher.op] = "none"

\* What the run in progress knows of its operation.
RunKnows ==
  /\ manager.step # "idle" => manager.op \in requests
  /\ manager.step = "verify" => runtime = plan[manager.op].goal
  /\ manager.step = "remove" =>
       record[manager.op] \in {"succeeded", "failed"} \/ manager.op \in phantom

OneRequest ==
  unaware = {} =>
    \A o \in requests : /\ \A q \in requests : q = o
                        /\ StartsHere(o) \/ current.last = o

ShownIsRequested == \A o \in Ongoing : o \in requests \/ o \in phantom

\* A request with a result is about to be removed, or its run died over it.
ResultBeforeRemoval ==
  \A o \in requests :
    record[o] \in {"succeeded", "failed"} =>
      deaths > 0 \/ (manager.step = "remove" /\ manager.op = o)

VersionIInv ==
  /\ VersionTypeOK
  /\ publisher \in PublisherStates /\ manager \in RunStates
  /\ KnownRuntime /\ PlansKept /\ RunKnows
  /\ OneRequest /\ ShownIsRequested /\ ResultBeforeRemoval

LEMMA VersionStarts == VersionInit => VersionIInv
<1> SUFFICES ASSUME VersionInit
             PROVE  VersionIInv
  OBVIOUS
<1> USE VersionAssumption DEF VersionInit
<1>1. PICK b \in Bundles : /\ current = [bundle |-> b, known |-> TRUE, last |-> 0]
                           /\ runtime = b
                           /\ plan = [o \in Ids |-> [source |-> b, goal |-> b]]
  OBVIOUS
<1>2. VersionTypeOK
  <2>1. /\ current \in [bundle : Bundles, known : BOOLEAN, last : 0..MaxOperations]
        /\ runtime \in Bundles \cup {"mixed"} /\ deaths \in 0..MaxDeaths
    BY <1>1
  <2>2. plan \in [Ids -> [source : Bundles, goal : Bundles]]
    BY <1>1
  <2>3. record \in [Ids -> {"none", "queued", "running", "succeeded", "failed"}]
    OBVIOUS
  <2>4. QED
    <3>1. /\ publisher.step \in {"idle", "read", "request", "record"}
          /\ manager.step \in {"idle", "prepare", "install", "verify", "finish", "revert",
                               "failed", "remove"}
          /\ manager.op \in 0..MaxOperations
      BY DEF NoPublisher, NoRun
    <3>2. requests \subseteq Ids /\ unaware \cup phantom \subseteq Ids /\ interrupted \in BOOLEAN
      OBVIOUS
    <3>3. QED
      BY <2>1, <2>2, <2>3, <3>1, <3>2 DEF VersionTypeOK
<1>3. publisher \in PublisherStates /\ manager \in RunStates
  BY DEF PublisherStates, RunStates
<1>4. KnownRuntime /\ PlansKept /\ RunKnows
  BY <1>1 DEF KnownRuntime, PlansKept, RunKnows, InPublication, NoPublisher, NoRun
<1>5. OneRequest /\ ShownIsRequested /\ ResultBeforeRemoval
  BY DEF OneRequest, ShownIsRequested, ResultBeforeRemoval, Ongoing
<1>6. QED
  BY <1>2, <1>3, <1>4, <1>5 DEF VersionIInv

\* What the types say of the publisher and of the run.
LEMMA VersionHands ==
  ASSUME publisher \in PublisherStates, manager \in RunStates
  PROVE  /\ publisher.step = "read" =>
              publisher.seen \in [bundle : Bundles, known : BOOLEAN, last : 0..MaxOperations]
         /\ publisher.step \in {"request", "record"} =>
              publisher.op \in Ids /\ publisher = [step |-> publisher.step, op |-> publisher.op]
         /\ publisher.step \in {"idle", "read", "request", "record"}
         /\ manager.step # "idle" =>
              manager.op \in Ids /\ manager = [step |-> manager.step, op |-> manager.op]
         /\ manager.step = "idle" => manager = NoRun
         /\ manager.step \in {"idle", "prepare", "install", "verify", "finish", "revert",
                              "failed", "remove"}
BY DEF PublisherStates, RunStates, NoPublisher, NoRun

\* The steps of a publication.
LEMMA PublicationKeeps ==
  ASSUME VersionIInv,
         \/ ReadCurrent \/ ReadOperations \/ ScheduledActivation
         \/ WriteRequest \/ WriteRecord \/ PublisherDies
  PROVE  VersionIInv'
<1> USE DEF VersionIInv
<1>1. /\ UNCHANGED <<current, runtime, manager, interrupted>>
      /\ deaths' \in 0..MaxDeaths /\ deaths' >= deaths
  BY VersionAssumption DEF ReadCurrent, ReadOperations, ScheduledActivation, WriteRequest,
     WriteRecord, PublisherDies, Death, releaseVars, runVars, VersionTypeOK
<1>2. KnownRuntime'
  BY <1>1 DEF KnownRuntime
<1>3. CASE ReadCurrent \/ PublisherDies
  <2>1. /\ UNCHANGED <<requests, record, plan, unaware, phantom>>
        /\ publisher' = NoPublisher \/ publisher' = [step |-> "read", seen |-> current]
    BY <1>3 DEF ReadCurrent, PublisherDies, queueVars, publicationVars
  <2>2. publisher' \in PublisherStates /\ publisher'.step \in {"idle", "read"}
    BY <2>1 DEF PublisherStates, VersionTypeOK, NoPublisher
  <2>3. VersionTypeOK'
    BY <1>1, <2>1, <2>2 DEF VersionTypeOK
  <2>4. PlansKept' /\ RunKnows'
    BY <1>1, <2>1, <2>2 DEF PlansKept, RunKnows, InPublication, Unused
  <2>5. OneRequest' /\ ShownIsRequested' /\ ResultBeforeRemoval'
    BY <1>1, <2>1 DEF OneRequest, ShownIsRequested, ResultBeforeRemoval, Ongoing, StartsHere,
       VersionTypeOK
  <2>6. QED
    BY <1>1, <1>2, <2>2, <2>3, <2>4, <2>5
<1>4. CASE ReadOperations \/ ScheduledActivation
  <2>1. UNCHANGED <<requests, record, unaware, phantom, deaths>>
    BY <1>4 DEF ReadOperations, ScheduledActivation, publicationVars
  <2>2. CASE UNCHANGED plan /\ publisher' = NoPublisher
    <3>1. VersionTypeOK' /\ publisher' \in PublisherStates
      BY <1>1, <2>1, <2>2 DEF VersionTypeOK, PublisherStates, NoPublisher
    <3>2. PlansKept' /\ RunKnows'
      BY <1>1, <2>1, <2>2 DEF PlansKept, RunKnows, InPublication, Unused, NoPublisher
    <3>3. OneRequest' /\ ShownIsRequested' /\ ResultBeforeRemoval'
      BY <1>1, <2>1, <2>2 DEF OneRequest, ShownIsRequested, ResultBeforeRemoval, Ongoing,
         StartsHere
    <3>4. QED
      BY <1>1, <1>2, <3>1, <3>2, <3>3
  <2>3. ASSUME NEW source \in Bundles, Draft(source)
        PROVE  VersionIInv'
    <3>1. PICK o \in Unused, goal \in Bundles \ {source} :
            /\ plan' = [plan EXCEPT ![o] = [source |-> source, goal |-> goal]]
            /\ publisher' = [step |-> "request", op |-> o]
      BY <2>3 DEF Draft
    <3>2. o \in Ids /\ plan \in [Ids -> [source : Bundles, goal : Bundles]]
          /\ o \notin requests /\ record[o] = "none"
      BY <3>1 DEF Unused, PlansKept, VersionTypeOK
    <3>3. /\ plan' \in [Ids -> [source : Bundles, goal : Bundles]]
          /\ plan'[o] = [source |-> source, goal |-> goal]
          /\ \A q \in Ids \ {o} : plan'[q] = plan[q]
      BY <3>1, <3>2
    <3>4. publisher' \in PublisherStates
      BY <3>1, <3>2 DEF PublisherStates
    <3>5. VersionTypeOK'
      BY <1>1, <2>1, <3>1, <3>3 DEF VersionTypeOK
    <3>6. PlansKept'
      <4>1. \A q \in Ids : q \in requests \/ record[q] # "none" \/ q = o => q \notin Unused'
        BY <3>2, <3>3 DEF PlansKept, Unused
      <4>2. publisher'.step = "request" /\ publisher'.op = o
        BY <3>1
      <4>3. QED
        BY <2>1, <3>2, <4>1, <4>2 DEF PlansKept, InPublication
    <3>7. manager.step # "idle" => manager.op \in Ids /\ manager.op # o
      BY <3>2, VersionHands DEF RunKnows
    <3>8. RunKnows'
      BY <1>1, <2>1, <3>3, <3>7 DEF RunKnows
    <3>9. OneRequest'
      BY <1>1, <2>1, <3>2, <3>3 DEF OneRequest, StartsHere, VersionTypeOK
    <3>10. ShownIsRequested' /\ ResultBeforeRemoval'
      BY <1>1, <2>1 DEF ShownIsRequested, ResultBeforeRemoval, Ongoing
    <3>11. QED
      BY <1>1, <1>2, <3>4, <3>5, <3>6, <3>8, <3>9, <3>10
  <2>4. publisher.step = "read" => publisher.seen.bundle \in Bundles
    BY VersionHands
  <2>5. current.bundle \in Bundles
    BY DEF VersionTypeOK
  <2>6. QED
    BY <1>4, <2>2, <2>3, <2>4, <2>5 DEF ReadOperations, ScheduledActivation
<1>5. CASE WriteRequest
  <2> DEFINE o == publisher.op
  <2>1. /\ publisher.step = "request" /\ o \in Ids /\ publisher' = [step |-> "record", op |-> o]
        /\ requests' = requests \cup {o} /\ UNCHANGED <<record, plan, phantom, deaths>>
        /\ unaware' = IF requests = {} /\ plan[o].source = current.bundle
                      THEN unaware ELSE unaware \cup {o}
    BY <1>5, VersionHands DEF WriteRequest
  <2>2. o \notin requests /\ record[o] = "none" /\ o \notin Unused
    BY <2>1 DEF PlansKept, InPublication
  <2> HIDE DEF o
  <2>3. VersionTypeOK' /\ publisher' \in PublisherStates
    BY <1>1, <2>1 DEF VersionTypeOK, PublisherStates
  <2>4. PlansKept'
    BY <2>1, <2>2 DEF PlansKept, InPublication, Unused
  <2>5. RunKnows'
    BY <1>1, <2>1 DEF RunKnows
  <2>6. OneRequest'
    BY <1>1, <2>1 DEF OneRequest, StartsHere
  <2>7. ShownIsRequested' /\ ResultBeforeRemoval'
    BY <1>1, <2>1, <2>2 DEF ShownIsRequested, ResultBeforeRemoval, Ongoing
  <2>8. QED
    BY <1>1, <1>2, <2>3, <2>4, <2>5, <2>6, <2>7
<1>6. CASE WriteRecord
  <2> DEFINE o == publisher.op
  <2>1. /\ publisher.step = "record" /\ o \in Ids /\ publisher' = NoPublisher
        /\ record' = [record EXCEPT ![o] = "queued"] /\ UNCHANGED <<requests, plan, unaware, deaths>>
        /\ phantom' = IF o \in requests /\ manager # [step |-> "remove", op |-> o]
                      THEN phantom ELSE phantom \cup {o}
    BY <1>6, VersionHands DEF WriteRecord
  <2>2. o \notin Unused
    BY <2>1 DEF PlansKept, InPublication
  <2> HIDE DEF o
  <2>3. /\ record'[o] = "queued" /\ \A q \in Ids \ {o} : record'[q] = record[q]
        /\ record' \in [Ids -> {"none", "queued", "running", "succeeded", "failed"}]
    BY <2>1 DEF VersionTypeOK
  <2>4. VersionTypeOK' /\ publisher' \in PublisherStates
    BY <1>1, <2>1, <2>3 DEF VersionTypeOK, PublisherStates, NoPublisher
  <2>5. PlansKept'
    BY <2>1, <2>2, <2>3 DEF PlansKept, InPublication, Unused, NoPublisher
  <2>6. manager.step = "remove" /\ manager.op = o => o \in phantom'
    BY <2>1, VersionHands
  <2>7. RunKnows'
    <3>1. manager.step = "remove" => manager.op \in Ids
      BY VersionHands
    <3>2. phantom \subseteq phantom'
      BY <2>1
    <3>3. QED
      BY <1>1, <2>1, <2>3, <2>6, <3>1, <3>2 DEF RunKnows
  <2>8. OneRequest'
    BY <1>1, <2>1 DEF OneRequest, StartsHere
  <2>9. ShownIsRequested' /\ ResultBeforeRemoval'
    BY <1>1, <2>1, <2>3 DEF ShownIsRequested, ResultBeforeRemoval, Ongoing, VersionTypeOK
  <2>10. QED
    BY <1>1, <1>2, <2>4, <2>5, <2>7, <2>8, <2>9
<1>7. QED
  BY <1>3, <1>4, <1>5, <1>6

\* The steps of a run.
LEMMA RunKeeps ==
  ASSUME VersionIInv,
         \/ TakeRequest \/ StartInstaller \/ Installed \/ Commit \/ Fails \/ Revert
         \/ EndRecord \/ RemoveRequest \/ ManagerDies
  PROVE  VersionIInv'
<1> USE DEF VersionIInv
<1>1. /\ UNCHANGED <<plan, publisher, unaware, phantom>>
      /\ deaths' \in 0..MaxDeaths /\ deaths' >= deaths
  BY VersionAssumption DEF TakeRequest, StartInstaller, Installed, Commit, Fails, Revert,
     EndRecord, RemoveRequest, ManagerDies, Death, releaseVars, queueVars, publicationVars,
     VersionTypeOK
<1>2. publisher.step \in {"request", "record"} => publisher.op \in Ids
  BY VersionHands
\* The steps that leave the files of the queue alone.
<1>3. ASSUME NEW from, NEW to \in {"install", "verify", "finish", "revert", "failed"},
             Step(from, to), from \notin {"idle", "remove"}, UNCHANGED <<requests, record, deaths>>
      PROVE  /\ manager' \in RunStates /\ PlansKept' /\ ShownIsRequested'
             /\ ResultBeforeRemoval'
             /\ manager'.step = to /\ manager'.op = manager.op /\ manager.op \in Ids
             /\ manager.op \in requests /\ manager.step = from
  <2>1. /\ manager.op \in Ids /\ manager = [step |-> from, op |-> manager.op]
        /\ manager.op \in requests /\ manager.step = from
    BY <1>3, VersionHands DEF Step, RunKnows
  <2>2. manager' = [step |-> to, op |-> manager.op]
    BY <1>3, <2>1 DEF Step
  <2>3. manager' \in RunStates
    BY <2>1, <2>2 DEF RunStates
  <2>4. PlansKept' /\ ShownIsRequested'
    BY <1>1, <1>3 DEF PlansKept, InPublication, Unused, ShownIsRequested, Ongoing
  <2>5. ResultBeforeRemoval'
    BY <1>3, <2>1 DEF ResultBeforeRemoval
  <2>6. QED
    BY <2>1, <2>2, <2>3, <2>4, <2>5
<1>4. CASE StartInstaller
  <2>1. /\ Step("prepare", "install") /\ runtime' = "mixed"
        /\ UNCHANGED <<current, requests, record, interrupted, deaths>>
    BY <1>4 DEF StartInstaller, queueVars
  <2>2. manager'.step = "install" /\ manager'.op = manager.op
    BY <1>3, <2>1
  <2>3. VersionTypeOK' /\ KnownRuntime'
    BY <1>1, <1>3, <2>1, <2>2 DEF VersionTypeOK, KnownRuntime
  <2>4. RunKnows' /\ OneRequest'
    BY <1>1, <1>3, <2>1, <2>2 DEF RunKnows, OneRequest, StartsHere
  <2>5. QED
    BY <1>1, <1>3, <2>1, <2>3, <2>4
<1>5. CASE Installed
  <2>1. /\ Step("install", "verify") /\ runtime' = plan[manager.op].goal
        /\ UNCHANGED <<current, requests, record, interrupted, deaths>>
    BY <1>5 DEF Installed, queueVars
  <2>2. /\ manager'.step = "verify" /\ manager'.op = manager.op /\ manager.op \in Ids
        /\ manager.op \in requests
    BY <1>3, <2>1
  <2>3. VersionTypeOK' /\ KnownRuntime'
    BY <1>1, <2>1, <2>2 DEF VersionTypeOK, KnownRuntime
  <2>4. RunKnows' /\ OneRequest'
    BY <1>1, <2>1, <2>2 DEF RunKnows, OneRequest, StartsHere
  <2>5. QED
    BY <1>1, <1>3, <2>1, <2>3, <2>4
<1>6. CASE Commit
  <2> DEFINE o == manager.op
  <2>1. /\ Step("verify", "finish") /\ interrupted' = FALSE
        /\ current' = [bundle |-> plan[o].goal, known |-> TRUE, last |-> o]
        /\ UNCHANGED <<runtime, requests, record, deaths>>
    BY <1>6 DEF Commit, queueVars
  <2>2. /\ manager'.step = "finish" /\ manager'.op = o /\ o \in Ids /\ o \in requests
        /\ manager.step = "verify"
    BY <1>3, <2>1
  <2>3. runtime = plan[o].goal
    BY <2>2 DEF RunKnows
  <2> HIDE DEF o
  <2>4. VersionTypeOK'
    <3>1. /\ o \in 0..MaxOperations /\ plan[o].goal \in Bundles /\ plan[o].source \in Bundles
      BY <2>2 DEF VersionTypeOK, Ids
    <3>2. current' \in [bundle : Bundles, known : BOOLEAN, last : 0..MaxOperations]
      BY <2>1, <3>1
    <3>3. QED
      BY <1>1, <2>1, <2>2, <3>1, <3>2 DEF VersionTypeOK
  <2>5. KnownRuntime' /\ RunKnows'
    BY <1>1, <2>1, <2>2, <2>3 DEF KnownRuntime, RunKnows
  <2>6. OneRequest'
    BY <1>1, <2>1, <2>2 DEF OneRequest
  <2>7. QED
    BY <1>1, <1>3, <2>1, <2>4, <2>5, <2>6
<1>7. CASE Fails
  <2>1. /\ UNCHANGED <<current, runtime, requests, record, interrupted, deaths>>
        /\ \/ Step("prepare", "failed")
           \/ \E from \in {"install", "verify", "finish"} : Step(from, "revert")
    BY <1>7 DEF Fails, queueVars, releaseVars
  <2>2. ASSUME NEW from \in {"prepare", "install", "verify", "finish"},
               NEW to \in {"failed", "revert"}, Step(from, to),
               from = "prepare" \/ to = "revert"
        PROVE  VersionIInv'
    <3>1. /\ manager'.step = to /\ manager'.op = manager.op /\ manager.op \in Ids
          /\ manager.op \in requests /\ manager.step = from
          /\ manager' \in RunStates /\ PlansKept' /\ ShownIsRequested' /\ ResultBeforeRemoval'
      BY <1>3, <2>1, <2>2
    <3>2. VersionTypeOK' /\ KnownRuntime'
      BY <1>1, <2>1, <2>2, <3>1 DEF VersionTypeOK, KnownRuntime
    <3>3. RunKnows' /\ OneRequest'
      BY <1>1, <2>1, <2>2, <3>1 DEF RunKnows, OneRequest, StartsHere
    <3>4. QED
      BY <1>1, <3>1, <3>2, <3>3
  <2>3. QED
    BY <2>1, <2>2
<1>8. CASE Revert
  <2> DEFINE o == manager.op
  <2>1. /\ Step("revert", "failed") /\ interrupted' = FALSE
        /\ current' = [bundle |-> plan[o].source, known |-> FALSE, last |-> o]
        /\ UNCHANGED <<runtime, requests, record, deaths>>
    BY <1>8 DEF Revert, Unverified, queueVars
  <2>2. /\ manager'.step = "failed" /\ manager'.op = o /\ o \in Ids /\ o \in requests
    BY <1>3, <2>1
  <2> HIDE DEF o
  <2>4. VersionTypeOK'
    <3>1. /\ o \in 0..MaxOperations /\ plan[o].goal \in Bundles /\ plan[o].source \in Bundles
      BY <2>2 DEF VersionTypeOK, Ids
    <3>2. current' \in [bundle : Bundles, known : BOOLEAN, last : 0..MaxOperations]
      BY <2>1, <3>1
    <3>3. QED
      BY <1>1, <2>1, <2>2, <3>1, <3>2 DEF VersionTypeOK
  <2>5. KnownRuntime' /\ RunKnows'
    BY <1>1, <2>1, <2>2 DEF KnownRuntime, RunKnows
  <2>6. OneRequest'
    BY <1>1, <2>1, <2>2 DEF OneRequest
  <2>7. QED
    BY <1>1, <1>3, <2>1, <2>4, <2>5, <2>6
<1>9. CASE TakeRequest
  <2>1. PICK o \in requests :
          /\ StartsHere(o) /\ record' = [record EXCEPT ![o] = "running"]
          /\ manager' = [step |-> "prepare", op |-> o]
    BY <1>9 DEF TakeRequest
  <2>2. /\ manager.step = "idle" /\ o \in Ids
        /\ UNCHANGED <<current, runtime, requests, interrupted, deaths>>
    BY <1>9 DEF TakeRequest, releaseVars, VersionTypeOK
  <2>3. /\ record'[o] = "running" /\ \A q \in Ids \ {o} : record'[q] = record[q]
        /\ record' \in [Ids -> {"none", "queued", "running", "succeeded", "failed"}]
    BY <2>1, <2>2 DEF VersionTypeOK
  <2>4. VersionTypeOK' /\ manager' \in RunStates
    BY <1>1, <2>1, <2>2, <2>3 DEF VersionTypeOK, RunStates, Ids
  <2>5. PlansKept'
    BY <1>1, <1>2, <2>1, <2>2, <2>3 DEF PlansKept, InPublication, Unused
  <2>6. KnownRuntime' /\ RunKnows'
    BY <1>1, <2>1, <2>2 DEF KnownRuntime, RunKnows
  <2>7. OneRequest'
    BY <1>1, <2>2 DEF OneRequest, StartsHere
  <2>8. ShownIsRequested'
    BY <1>1, <2>1, <2>2, <2>3 DEF ShownIsRequested, Ongoing
  <2>9. ResultBeforeRemoval'
    BY <1>1, <2>2, <2>3 DEF ResultBeforeRemoval, VersionTypeOK
  <2>10. QED
    BY <1>1, <2>4, <2>5, <2>6, <2>7, <2>8, <2>9
<1>10. CASE EndRecord
  <2> DEFINE o == manager.op
  <2>1. PICK result \in {"succeeded", "failed"}, from \in {"finish", "failed"} :
          Step(from, "remove") /\ record' = [record EXCEPT ![o] = result]
    BY <1>10 DEF EndRecord
  <2>2. /\ o \in Ids /\ o \in requests /\ manager' = [step |-> "remove", op |-> o]
        /\ manager.step = from
    BY <2>1, VersionHands DEF Step, RunKnows
  <2> HIDE DEF o
  <2>3. UNCHANGED <<current, runtime, requests, interrupted, deaths>>
    BY <1>10 DEF EndRecord, releaseVars
  <2>4. /\ record'[o] = result /\ \A q \in Ids \ {o} : record'[q] = record[q]
        /\ record' \in [Ids -> {"none", "queued", "running", "succeeded", "failed"}]
    BY <2>1, <2>2 DEF VersionTypeOK
  <2>5. VersionTypeOK' /\ manager' \in RunStates
    BY <1>1, <2>2, <2>3, <2>4 DEF VersionTypeOK, RunStates, Ids
  <2>6. PlansKept'
    BY <1>1, <1>2, <2>2, <2>3, <2>4 DEF PlansKept, InPublication, Unused
  <2>7. KnownRuntime' /\ RunKnows'
    BY <1>1, <2>2, <2>3, <2>4 DEF KnownRuntime, RunKnows
  <2>8. OneRequest'
    BY <1>1, <2>3 DEF OneRequest, StartsHere
  <2>9. ShownIsRequested'
    BY <1>1, <2>3, <2>4 DEF ShownIsRequested, Ongoing
  <2>10. ResultBeforeRemoval'
    BY <1>1, <2>2, <2>3, <2>4 DEF ResultBeforeRemoval, VersionTypeOK
  <2>11. QED
    BY <1>1, <2>5, <2>6, <2>7, <2>8, <2>9, <2>10
<1>11. CASE RemoveRequest
  <2> DEFINE o == manager.op
  <2>1. /\ manager.step = "remove" /\ o \in Ids /\ manager' = NoRun
        /\ requests' = requests \ {o}
        /\ UNCHANGED <<current, runtime, record, interrupted, deaths>>
    BY <1>11, VersionHands DEF RemoveRequest, Removed, releaseVars
  <2>2. record[o] \in {"succeeded", "failed"} \/ o \in phantom
    BY <2>1 DEF RunKnows
  <2> HIDE DEF o
  <2>3. VersionTypeOK' /\ manager' \in RunStates
    <3>1. /\ manager' \in RunStates /\ manager'.step = "idle" /\ manager'.op \in 0..MaxOperations
          /\ requests' \subseteq Ids
      BY <2>1, VersionAssumption DEF VersionTypeOK, RunStates, NoRun
    <3>2. QED
      BY <1>1, <2>1, <3>1 DEF VersionTypeOK
  <2>4. PlansKept'
    BY <1>1, <2>1 DEF PlansKept, InPublication, Unused
  <2>5. KnownRuntime' /\ RunKnows'
    BY <1>1, <2>1 DEF KnownRuntime, RunKnows, NoRun
  <2>6. OneRequest'
    BY <1>1, <2>1 DEF OneRequest, StartsHere
  <2>7. ShownIsRequested'
    BY <1>1, <2>1, <2>2 DEF ShownIsRequested, Ongoing
  <2>8. ResultBeforeRemoval'
    <3>1. o = manager.op
      BY DEF o
    <3>2. QED
      BY <2>1, <3>1 DEF ResultBeforeRemoval
  <2>9. QED
    BY <1>1, <2>3, <2>4, <2>5, <2>6, <2>7, <2>8
<1>12. CASE ManagerDies
  <2>1. /\ manager' = NoRun /\ UNCHANGED <<current, runtime, requests, record>>
        /\ interrupted' = (interrupted \/ manager.step \in {"install", "verify", "revert"})
        /\ deaths' > 0
    BY <1>12, VersionAssumption DEF ManagerDies, Death, releaseVars, queueVars, VersionTypeOK
  <2>2. interrupted' \in BOOLEAN
    BY <2>1 DEF VersionTypeOK
  <2>3. VersionTypeOK' /\ manager' \in RunStates
    <3>1. manager' \in RunStates /\ manager'.step = "idle" /\ manager'.op \in 0..MaxOperations
      BY <2>1, VersionAssumption DEF RunStates, NoRun
    <3>2. QED
      BY <1>1, <2>1, <2>2, <3>1 DEF VersionTypeOK
  <2>4. PlansKept'
    BY <1>1, <2>1 DEF PlansKept, InPublication, Unused
  <2>5. KnownRuntime' /\ RunKnows'
    BY <1>1, <2>1 DEF KnownRuntime, RunKnows, NoRun, VersionTypeOK
  <2>6. OneRequest' /\ ShownIsRequested' /\ ResultBeforeRemoval'
    BY <1>1, <2>1 DEF OneRequest, StartsHere, ShownIsRequested, Ongoing, ResultBeforeRemoval
  <2>7. QED
    BY <1>1, <2>3, <2>4, <2>5, <2>6
<1>13. QED
  BY <1>4, <1>5, <1>6, <1>7, <1>8, <1>9, <1>10, <1>11, <1>12

LEMMA VersionStutters == VersionIInv /\ UNCHANGED versionVars => VersionIInv'
BY DEF versionVars, releaseVars, queueVars, publicationVars, runVars, VersionIInv,
   VersionTypeOK, KnownRuntime, PlansKept, InPublication, Unused, RunKnows, OneRequest,
   StartsHere, ShownIsRequested, Ongoing, ResultBeforeRemoval

\* The strengthening of VersionInv that every step preserves.
THEOREM VersionInductive == VersionSpec => []VersionIInv
<1>1. VersionIInv /\ [VersionNext]_versionVars => VersionIInv'
  BY PublicationKeeps, RunKeeps, VersionStutters DEF VersionNext
<1>2. QED
  BY <1>1, VersionStarts, PTL DEF VersionSpec

\* current.json tells the truth unless a run is at the installation or died over
\* it, and an operation shown as active has a request the worker can take.
THEOREM VersionInvariant == VersionSpec => []VersionInv
<1>1. VersionIInv => NoneStranded
  BY DEF VersionIInv, NoneStranded, OneRequest, ShownIsRequested, Ongoing
<1>2. VersionIInv => VersionInv
  BY <1>1 DEF VersionIInv, VersionInv
<1>3. QED
  BY <1>2, VersionInductive, PTL

\* A result stands, unless its run died before it removed the request or its
\* record was written late.
THEOREM ResultStands == VersionSpec => OneResult
<1>1. ASSUME VersionIInv, [VersionNext]_versionVars, NEW o \in Ids,
             record[o] \in {"succeeded", "failed"}, record'[o] # record[o]
      PROVE  o \in phantom' \/ (deaths > 0 /\ o \in requests)
  <2> USE DEF VersionIInv
  <2>1. record \in [Ids -> {"none", "queued", "running", "succeeded", "failed"}]
    BY <1>1 DEF VersionTypeOK
  <2>2. o \in requests => deaths > 0 \/ (manager.step = "remove" /\ manager.op = o)
    BY <1>1 DEF ResultBeforeRemoval
  <2>3. CASE WriteRecord
    <3>1. publisher.op = o
      BY <1>1, <2>1, <2>3 DEF WriteRecord
    <3>2. phantom' = IF o \in requests /\ manager # [step |-> "remove", op |-> o]
                     THEN phantom ELSE phantom \cup {o}
      BY <2>3, <3>1 DEF WriteRecord
    <3>3. manager.step = "remove" /\ manager.op = o => manager = [step |-> "remove", op |-> o]
      BY <1>1, VersionHands
    <3>4. QED
      BY <1>1, <2>2, <3>2, <3>3
  <2>4. CASE TakeRequest
    <3>1. o \in requests /\ manager.step = "idle"
      BY <1>1, <2>1, <2>4 DEF TakeRequest
    <3>2. QED
      BY <2>2, <3>1
  <2>5. CASE EndRecord
    <3>1. o = manager.op /\ manager.step \in {"finish", "failed"}
      BY <1>1, <2>1, <2>5 DEF EndRecord, Step
    <3>2. o \in requests
      BY <1>1, <3>1 DEF RunKnows
    <3>3. QED
      BY <2>2, <3>1, <3>2
  <2>6. CASE UNCHANGED record
    BY <1>1, <2>6
  <2>7. QED
    BY <1>1, <2>3, <2>4, <2>5, <2>6 DEF VersionNext, versionVars, queueVars, ReadCurrent,
       ReadOperations, ScheduledActivation, WriteRequest, PublisherDies, StartInstaller,
       Installed, Commit, Fails, Revert, RemoveRequest, ManagerDies
<1>2. VersionIInv /\ [VersionNext]_versionVars =>
        [\A o \in Ids :
           record[o] \in {"succeeded", "failed"} /\ record'[o] # record[o]
           => o \in phantom' \/ (deaths > 0 /\ o \in requests)]_versionVars
  BY <1>1
<1>3. QED
  BY <1>2, VersionInductive, PTL DEF VersionSpec, OneResult

-----------------------------------------------------------------------------
(***************************************************************************)
(* Test sessions, for any sessions, channels, stamps and changes.          *)
(*                                                                         *)
(* OneClaim compares the histories of two sessions, and no step looks at   *)
(* both.  What ties them is the lease: a session claims no time after it   *)
(* released the channel (ClaimsEnd), and a lease that is not late begins   *)
(* where every other session's claims have ended.                          *)
(***************************************************************************)
\* How far a session has come.
Lifetimes ==
  \A s \in Sessions :
    /\ lifecycle[s] \in {"absent", "draft", "ready"} => started[s] = 0
    /\ lifecycle[s] \notin Ended => ended[s] = 0
    /\ lifecycle[s] \in Active => \A c \in Channels : binding[s][c] # "bound"

StagesOrdered ==
  \A s \in Sessions : \A i, j \in DOMAIN stages[s] :
    i < j => stages[s][i].entered <= stages[s][j].entered

StagesLinked ==
  \A s \in Sessions : \A i \in DOMAIN stages[s] :
    stages[s][i].exited = IF i = Len(stages[s]) THEN 0 ELSE stages[s][i + 1].entered

\* A channel that a session holds no more is claimed before its release.
ClaimsEnd ==
  \A c \in Channels \ late, t \in Stamps, s \in Sessions :
    InOrder(s) /\ Claims(s, c, t) /\ c \notin Leased(s) => t < released[c]

Claimants ==
  UNION {Matching(s, event.channel, event.captured) :
         s \in {r \in Sessions : Within(r, event.captured)}}

\* What the transaction has read and what is left make up the claimants.
ReadSoFar ==
  reader.step = "reading" /\ ~outdated =>
    Claimants = reader.matches
                \cup UNION {Matching(s, event.channel, event.captured) : s \in reader.todo}

LeasesInv == SessionTypeOK /\ LeasesFrozen /\ Lifetimes
StagesInv == StagesOrdered /\ StagesLinked

-----------------------------------------------------------------------------
(* What the parts of a command do to leases and snapshots.                 *)

LEMMA LeaseEffect ==
  ASSUME SessionTypeOK, NEW s \in Sessions, NEW cs \in SUBSET Channels, NEW at \in Stamps,
         LeaseAll(s, cs, at)
  PROVE  /\ binding' \in [Sessions -> [Channels -> {"none", "bound", "leased", "released"}]]
         /\ activated' \in [Sessions -> [Channels -> 0..MaxStamp]]
         /\ released' = released /\ late \subseteq late' /\ late' \subseteq Channels
         /\ \A r \in Sessions \ {s} : binding'[r] = binding[r]
         /\ \A c \in Channels : binding'[s][c] = IF c \in cs THEN "leased" ELSE binding[s][c]
         /\ \A c \in cs \ late' : released[c] <= at
         /\ \A c \in cs, r \in Sessions \ {s} : c \notin Leased(r)
<1> USE DEF SessionTypeOK
<1>1. binding' = [binding EXCEPT ![s] = [c \in Channels |-> IF c \in cs THEN "leased"
                                                           ELSE binding[s][c]]]
  BY DEF LeaseAll
<1>2. activated' = [activated EXCEPT ![s] = [c \in Channels |-> IF c \in cs THEN at
                                                               ELSE activated[s][c]]]
  BY DEF LeaseAll
<1>3. at \in 0..MaxStamp /\ at \in Nat /\ MaxStamp \in Nat
  BY SessionAssumption DEF Stamps
<1>4. binding' \in [Sessions -> [Channels -> {"none", "bound", "leased", "released"}]]
  BY <1>1
<1>5. activated' \in [Sessions -> [Channels -> 0..MaxStamp]]
  BY <1>2, <1>3
<1>6. /\ released' = released /\ late' = late \cup {c \in cs : at < released[c]}
      /\ \A r \in Sessions \ {s} : cs \cap Leased(r) = {}
  BY DEF LeaseAll, LeaseFree
<1>7. \A c \in Channels : released[c] \in Nat
  BY <1>3
<1>8. \A c \in cs \ late' : released[c] <= at
  BY <1>3, <1>6, <1>7
<1>9. /\ \A r \in Sessions \ {s} : binding'[r] = binding[r]
      /\ \A c \in Channels : binding'[s][c] = IF c \in cs THEN "leased" ELSE binding[s][c]
  BY <1>1
<1>10. QED
  BY <1>4, <1>5, <1>6, <1>8, <1>9

LEMMA ReleaseEffect ==
  ASSUME SessionTypeOK, NEW s \in Sessions, NEW cs \in SUBSET Channels, NEW at \in Stamps,
         Release(s, cs, at)
  PROVE  /\ binding' \in [Sessions -> [Channels -> {"none", "bound", "leased", "released"}]]
         /\ released' \in [Channels -> 0..MaxStamp] /\ late' = late
         /\ \A r \in Sessions \ {s} : binding'[r] = binding[r]
         /\ \A c \in Channels : binding'[s][c] = IF c \in cs THEN "released" ELSE binding[s][c]
         /\ \A c \in Channels : released[c] <= released'[c]
         /\ \A c \in cs : at <= released'[c]
<1> USE DEF SessionTypeOK
<1>1. binding' = [binding EXCEPT ![s] = [c \in Channels |-> IF c \in cs THEN "released"
                                                           ELSE binding[s][c]]]
  BY DEF Release
<1>2. /\ released' = [c \in Channels |-> IF c \in cs /\ released[c] < at THEN at ELSE released[c]]
      /\ late' = late
  BY DEF Release
<1>3. at \in 0..MaxStamp /\ at \in Nat /\ MaxStamp \in Nat
  BY SessionAssumption DEF Stamps
<1>4. binding' \in [Sessions -> [Channels -> {"none", "bound", "leased", "released"}]]
  BY <1>1
<1>5. \A c \in Channels : released[c] \in 0..MaxStamp /\ released[c] \in Nat
  BY <1>3
<1>6. released' \in [Channels -> 0..MaxStamp]
  BY <1>2, <1>3, <1>5
<1>7. /\ \A c \in Channels : released[c] <= released'[c]
      /\ \A c \in cs : at <= released'[c]
  BY <1>2, <1>3, <1>5
<1>8. /\ \A r \in Sessions \ {s} : binding'[r] = binding[r]
      /\ \A c \in Channels : binding'[s][c] = IF c \in cs THEN "released" ELSE binding[s][c]
  BY <1>1
<1>9. QED
  BY <1>2, <1>4, <1>6, <1>7, <1>8

LEMMA FreezeEffect ==
  ASSUME SessionTypeOK, NEW s \in Sessions, NEW at \in Stamps, NEW cs \in SUBSET Channels,
         Freeze(s, at, cs)
  PROVE  /\ snapshots' \in [Sessions -> Seq([at : Stamps, bound : SUBSET Channels])]
         /\ snapshots'[s] = Append(snapshots[s], [at |-> at, bound |-> cs])
         /\ \A r \in Sessions \ {s} : snapshots'[r] = snapshots[r]
         /\ snapshots'[s] # <<>>
         /\ snapshots'[s][Len(snapshots'[s])].bound = cs
<1> DEFINE entry == [at |-> at, bound |-> cs]
<1>1. entry \in [at : Stamps, bound : SUBSET Channels]
  OBVIOUS
<1>2. snapshots[s] \in Seq([at : Stamps, bound : SUBSET Channels])
  BY DEF SessionTypeOK
<1>3. Append(snapshots[s], entry) \in Seq([at : Stamps, bound : SUBSET Channels])
  BY <1>1, <1>2
<1>4. /\ Len(Append(snapshots[s], entry)) = Len(snapshots[s]) + 1
      /\ Append(snapshots[s], entry)[Len(snapshots[s]) + 1] = entry
      /\ Append(snapshots[s], entry) # <<>>
  BY <1>1, <1>2
<1>5. snapshots' = [snapshots EXCEPT ![s] = Append(snapshots[s], entry)]
  BY DEF Freeze
<1> HIDE DEF entry
<1>6. /\ snapshots' \in [Sessions -> Seq([at : Stamps, bound : SUBSET Channels])]
      /\ snapshots'[s] = Append(snapshots[s], entry)
      /\ \A r \in Sessions \ {s} : snapshots'[r] = snapshots[r]
  BY <1>3, <1>5 DEF SessionTypeOK
<1>7. snapshots'[s] # <<>> /\ snapshots'[s][Len(snapshots'[s])] = entry
  BY <1>4, <1>6
<1>8. entry.bound = cs
  BY DEF entry
<1>9. QED
  BY <1>6, <1>7, <1>8 DEF entry

\* A command counts its change and knows whether it comes late for the event.
LEMMA CommandEffect ==
  ASSUME SessionTypeOK, NEW s \in Sessions
  PROVE  /\ Change(s) => /\ changes' \in [Sessions -> Nat]
                          /\ \A r \in Sessions : changes'[r] <= MaxChanges[r]
         /\ \A at \in Stamps : Stamped(at) => outdated' \in BOOLEAN
         /\ \A from, to : Moves(s, from, to) =>
              lifecycle' = [lifecycle EXCEPT ![s] = to] /\ lifecycle[s] = from
<1>1. ASSUME Change(s)
      PROVE  changes' \in [Sessions -> Nat]
             /\ \A r \in Sessions : changes'[r] <= MaxChanges[r]
  <2>1. /\ changes' = [changes EXCEPT ![s] = changes[s] + 1] /\ changes[s] < MaxChanges[s]
        /\ changes \in [Sessions -> Nat] /\ MaxChanges \in [Sessions -> Nat]
        /\ \A r \in Sessions : changes[r] <= MaxChanges[r]
    BY <1>1, SessionAssumption DEF Change, SessionTypeOK
  <2>2. changes[s] + 1 \in Nat /\ changes[s] + 1 <= MaxChanges[s]
    BY <2>1
  <2>3. QED
    BY <2>1, <2>2
<1>2. ASSUME NEW at \in Stamps, Stamped(at)
      PROVE  outdated' \in BOOLEAN
  BY <1>2 DEF Stamped, SessionTypeOK
<1>3. QED
  BY <1>1, <1>2 DEF Moves

-----------------------------------------------------------------------------
(* What a command means for the claims of the sessions.                    *)

LeaseChange(s, at) ==
  /\ late \subseteq late' /\ \A c \in Channels : released[c] <= released'[c]
  /\ \A r \in Sessions \ {s} : Leased(r)' = Leased(r)
  /\ \A c \in Leased(s)' \ Leased(s) :
       /\ c \in late' \/ released[c] <= at
       /\ \A r \in Sessions \ {s} : c \notin Leased(r)
  /\ \A c \in Leased(s) \ Leased(s)' : at <= released'[c]

\* A command that takes a snapshot, of an active session or of one that starts.
Reconfigured(s, at) ==
  /\ Freeze(s, at, Leased(s)') /\ UNCHANGED ended
  /\ \/ UNCHANGED started /\ lifecycle[s] \in Active
     \/ started' = [started EXCEPT ![s] = at] /\ started[s] = 0 /\ Leased(s) = {}
  /\ LeaseChange(s, at)

Stopped(s, at) ==
  /\ ended' = [ended EXCEPT ![s] = at] /\ ended[s] = 0
  /\ UNCHANGED <<started, snapshots>>
  /\ Leased(s)' = {} /\ LeaseChange(s, at)

ClaimsUntouched ==
  /\ UNCHANGED <<started, ended, snapshots, leaseVars>>
  /\ \A s \in Sessions : Leased(s)' = Leased(s)

\* The invariants of one session, when only it is changed.
SessionKept(s) ==
  /\ Leased(s) # {} => lifecycle[s] \in Active
  /\ lifecycle[s] \in Active =>
       /\ snapshots[s] # <<>>
       /\ snapshots[s][Len(snapshots[s])].bound = Leased(s)
       /\ \A c \in Channels : binding[s][c] # "bound"
  /\ lifecycle[s] \in {"absent", "draft", "ready"} => started[s] = 0
  /\ lifecycle[s] \notin Ended => ended[s] = 0

LEMMA OthersKept ==
  ASSUME LeasesFrozen, Lifetimes, NEW s \in Sessions,
         \A r \in Sessions \ {s} :
           /\ binding'[r] = binding[r] /\ lifecycle'[r] = lifecycle[r]
           /\ snapshots'[r] = snapshots[r]
           /\ started'[r] = started[r] /\ ended'[r] = ended[r],
         SessionKept(s)',
         \A c \in Leased(s)' \ Leased(s), r \in Sessions \ {s} : c \notin Leased(r)
  PROVE  LeasesFrozen' /\ Lifetimes'
<1>1. \A r \in Sessions \ {s} : Leased(r)' = Leased(r)
  BY DEF Leased
<1>2. \A r \in Sessions \ {s} : SessionKept(r)'
  BY <1>1 DEF SessionKept, LeasesFrozen, Lifetimes
<1>3. \A r \in Sessions : SessionKept(r)'
  BY <1>2
<1>4. \A r, q \in Sessions : r # q => Leased(r)' \cap Leased(q)' = {}
  <2> SUFFICES ASSUME NEW r \in Sessions, NEW q \in Sessions, r # q
               PROVE  Leased(r)' \cap Leased(q)' = {}
    OBVIOUS
  <2>1. Leased(r) \cap Leased(q) = {}
    BY DEF LeasesFrozen
  <2>2. CASE r = s
    BY <1>1, <2>1, <2>2
  <2>3. CASE q = s
    BY <1>1, <2>1, <2>3
  <2>4. CASE r # s /\ q # s
    BY <1>1, <2>1, <2>4
  <2>5. QED
    BY <2>2, <2>3, <2>4
<1>5. QED
  BY <1>3, <1>4 DEF SessionKept, LeasesFrozen, Lifetimes

LEMMA KeptOf ==
  ASSUME LeasesInv, NEW s \in Sessions
  PROVE  /\ SessionKept(s)
         /\ lifecycle[s] \notin Active => Leased(s) = {}
         /\ lifecycle[s] \in Active => Unreleased(s) = Leased(s)
BY DEF LeasesInv, LeasesFrozen, Lifetimes, SessionKept, Unreleased, Leased

\* Create, prepare, pause, resume and archive.
LEMMA MovesKeep ==
  ASSUME LeasesInv, NEW s \in Sessions, Create(s) \/ ChangeState(s)
  PROVE  LeasesInv' /\ ClaimsUntouched /\ UNCHANGED <<stages, event, reader, context, outdated>>
<1>1. /\ UNCHANGED <<started, ended, bindingVars, stages, event, reader, context,
                     leaseVars, outdated, changes>>
  BY DEF Create, ChangeState
<1>2. PICK from, to :
        /\ Moves(s, from, to)
        /\ \/ from = "absent" /\ to = "draft"
           \/ from = "draft" /\ to = "ready"
           \/ from = "running" /\ to = "paused"
           \/ from = "paused" /\ to = "running"
           \/ from = "completed" /\ to = "archived"
           \/ from = "cancelled" /\ to = "archived"
  BY DEF Create, ChangeState
<1>3. /\ lifecycle' = [lifecycle EXCEPT ![s] = to] /\ lifecycle[s] = from
      /\ lifecycle \in [Sessions -> {"absent", "draft", "ready"} \cup Active \cup Ended]
  BY <1>2 DEF Moves, LeasesInv, SessionTypeOK
<1>4. /\ lifecycle' \in [Sessions -> {"absent", "draft", "ready"} \cup Active \cup Ended]
      /\ lifecycle'[s] = to /\ \A r \in Sessions \ {s} : lifecycle'[r] = lifecycle[r]
  BY <1>2, <1>3 DEF Active, Ended
<1>5. SessionTypeOK'
  BY <1>1, <1>4 DEF LeasesInv, SessionTypeOK, bindingVars, leaseVars
<1>6. \A r \in Sessions : Leased(r)' = Leased(r)
  BY <1>1 DEF Leased, bindingVars
<1>7. SessionKept(s)'
  BY <1>1, <1>2, <1>3, <1>4, <1>6, KeptOf DEF SessionKept, bindingVars, Active, Ended
<1>8. LeasesFrozen' /\ Lifetimes'
  BY <1>1, <1>4, <1>6, <1>7, OthersKept DEF LeasesInv, bindingVars
<1>9. QED
  BY <1>1, <1>5, <1>6, <1>8 DEF LeasesInv, ClaimsUntouched, bindingVars

\* What is bound when the session starts is leased and frozen.
LEMMA StartKeeps ==
  ASSUME LeasesInv, NEW s \in Sessions, NEW at \in Stamps, Start(s, at)
  PROVE  /\ LeasesInv' /\ Reconfigured(s, at) /\ Stamped(at)
         /\ UNCHANGED <<stages, event, reader, context>>
<1> DEFINE cs == Unreleased(s)
<1>1. /\ SessionTypeOK /\ cs \in SUBSET Channels
      /\ LeaseAll(s, cs, at) /\ Freeze(s, at, cs) /\ Stamped(at)
      /\ started' = [started EXCEPT ![s] = at]
      /\ UNCHANGED <<ended, stages, event, reader, context, changes>>
      /\ lifecycle[s] = "ready" /\ lifecycle' = [lifecycle EXCEPT ![s] = "running"]
  BY DEF Start, LeasesInv, Unreleased, Moves
<1>2. Leased(s) = {} /\ started[s] = 0 /\ ended[s] = 0
  BY <1>1, KeptOf DEF SessionKept, Active, Ended
<1>3. \A c \in Channels : binding[s][c] = "bound" => c \in cs
  BY DEF Unreleased
<1> HIDE DEF cs
<1>4. /\ binding' \in [Sessions -> [Channels -> {"none", "bound", "leased", "released"}]]
      /\ activated' \in [Sessions -> [Channels -> 0..MaxStamp]]
      /\ released' = released /\ late \subseteq late' /\ late' \subseteq Channels
      /\ \A r \in Sessions \ {s} : binding'[r] = binding[r]
      /\ \A c \in Channels : binding'[s][c] = IF c \in cs THEN "leased" ELSE binding[s][c]
      /\ \A c \in cs \ late' : released[c] <= at
      /\ \A c \in cs, r \in Sessions \ {s} : c \notin Leased(r)
  BY <1>1, LeaseEffect
<1>5. /\ snapshots' \in [Sessions -> Seq([at : Stamps, bound : SUBSET Channels])]
      /\ \A r \in Sessions \ {s} : snapshots'[r] = snapshots[r]
      /\ snapshots'[s] # <<>> /\ snapshots'[s][Len(snapshots'[s])].bound = cs
  BY <1>1, FreezeEffect
<1>6. /\ lifecycle' \in [Sessions -> {"absent", "draft", "ready"} \cup Active \cup Ended]
      /\ lifecycle'[s] = "running" /\ \A r \in Sessions \ {s} : lifecycle'[r] = lifecycle[r]
  BY <1>1 DEF SessionTypeOK, Active
<1>7. /\ started' \in [Sessions -> 0..MaxStamp] /\ started'[s] = at
      /\ \A r \in Sessions \ {s} : started'[r] = started[r]
  BY <1>1, SessionAssumption DEF SessionTypeOK, Stamps
<1>8. outdated' \in BOOLEAN
  BY <1>1, CommandEffect
<1>9. SessionTypeOK'
  BY <1>1, <1>4, <1>5, <1>6, <1>7, <1>8 DEF SessionTypeOK
<1>10. /\ Leased(s)' = cs /\ \A r \in Sessions \ {s} : Leased(r)' = Leased(r)
       /\ \A c \in Channels : binding'[s][c] # "bound"
  BY <1>1, <1>2, <1>3, <1>4 DEF Leased
<1>11. SessionKept(s)'
  BY <1>1, <1>2, <1>5, <1>6, <1>10 DEF SessionKept, Active, Ended
<1>12. LeasesFrozen' /\ Lifetimes'
  BY <1>1, <1>4, <1>5, <1>6, <1>7, <1>10, <1>11, OthersKept DEF LeasesInv
<1>13. LeaseChange(s, at)
  <2>1. \A c \in Channels : released[c] <= released'[c]
    BY <1>1, <1>4, SessionAssumption DEF SessionTypeOK
  <2>2. QED
    BY <1>1, <1>2, <1>4, <1>10, <2>1 DEF LeaseChange
<1>14. QED
  BY <1>1, <1>2, <1>9, <1>10, <1>12, <1>13 DEF LeasesInv, Reconfigured

\* Complete and cancel.
LEMMA EndKeeps ==
  ASSUME LeasesInv, NEW s \in Sessions, NEW at \in Stamps, End(s, at)
  PROVE  /\ LeasesInv' /\ Stopped(s, at) /\ Stamped(at)
         /\ UNCHANGED <<stages, event, reader, context>>
<1> DEFINE cs == Leased(s)
<1>1. /\ SessionTypeOK /\ cs \in SUBSET Channels
      /\ Release(s, cs, at) /\ Stamped(at)
      /\ ended' = [ended EXCEPT ![s] = at]
      /\ UNCHANGED <<started, activated, snapshots, stages, event, reader, context, changes>>
      /\ lifecycle[s] \in {"running", "draft", "ready", "paused"}
  BY DEF End, LeasesInv, Leased, Moves
<1>2. PICK to \in {"completed", "cancelled"} : lifecycle' = [lifecycle EXCEPT ![s] = to]
  BY DEF End, Moves
<1>3. ended[s] = 0
  BY <1>1, KeptOf DEF SessionKept, Ended
<1>4. /\ binding' \in [Sessions -> [Channels -> {"none", "bound", "leased", "released"}]]
      /\ released' \in [Channels -> 0..MaxStamp] /\ late' = late
      /\ \A r \in Sessions \ {s} : binding'[r] = binding[r]
      /\ \A c \in Channels : binding'[s][c] = IF c \in cs THEN "released" ELSE binding[s][c]
      /\ \A c \in Channels : released[c] <= released'[c]
      /\ \A c \in cs : at <= released'[c]
  BY <1>1, ReleaseEffect
<1>5. /\ lifecycle' \in [Sessions -> {"absent", "draft", "ready"} \cup Active \cup Ended]
      /\ lifecycle'[s] = to /\ \A r \in Sessions \ {s} : lifecycle'[r] = lifecycle[r]
  BY <1>1, <1>2 DEF SessionTypeOK, Ended
<1>6. /\ ended' \in [Sessions -> 0..MaxStamp]
      /\ \A r \in Sessions \ {s} : ended'[r] = ended[r]
  BY <1>1, SessionAssumption DEF SessionTypeOK, Stamps
<1>7. outdated' \in BOOLEAN
  BY <1>1, CommandEffect
<1>8. SessionTypeOK'
  BY <1>1, <1>4, <1>5, <1>6, <1>7 DEF SessionTypeOK
<1>9. /\ Leased(s)' = {} /\ \A r \in Sessions \ {s} : Leased(r)' = Leased(r)
  BY <1>4 DEF Leased
<1>10. SessionKept(s)'
  BY <1>2, <1>5, <1>9 DEF SessionKept, Active, Ended
<1>11. LeasesFrozen' /\ Lifetimes'
  BY <1>1, <1>4, <1>5, <1>6, <1>9, <1>10, OthersKept DEF LeasesInv
<1>12. LeaseChange(s, at)
  BY <1>4, <1>9 DEF LeaseChange
<1>13. QED
  BY <1>1, <1>3, <1>8, <1>9, <1>11, <1>12 DEF LeasesInv, Stopped

\* Bindings added to an active session are leased and frozen at once.
LEMMA BindKeeps ==
  ASSUME LeasesInv, NEW s \in Sessions, NEW at \in Stamps,
         NEW cs \in SUBSET (Channels \ Unreleased(s)), Change(s), Bind(s, cs, at)
  PROVE  /\ LeasesInv' /\ UNCHANGED <<stages, event, reader, context>>
         /\ \/ Reconfigured(s, at) /\ Stamped(at)
            \/ ClaimsUntouched /\ UNCHANGED outdated
<1>1. /\ SessionTypeOK /\ cs \in SUBSET Channels
      /\ UNCHANGED <<lifecycle, started, ended, stages, event, reader, context>>
      /\ changes' \in [Sessions -> Nat] /\ \A r \in Sessions : changes'[r] <= MaxChanges[r]
      /\ \A c \in cs : binding[s][c] # "leased"
  BY CommandEffect DEF Bind, LeasesInv, lifecycleVars, Unreleased
<1>2. CASE lifecycle[s] \in Active
  <2>1. /\ LeaseAll(s, cs, at) /\ Freeze(s, at, Unreleased(s) \cup cs) /\ Stamped(at)
    BY <1>2 DEF Bind, Active
  <2>2. SessionKept(s) /\ Unreleased(s) = Leased(s) /\ Leased(s) \subseteq Channels
    BY <1>2, KeptOf DEF Leased
  <2> DEFINE all == Leased(s) \cup cs
  <2>3. Freeze(s, at, all) /\ all \in SUBSET Channels
    BY <1>1, <2>1, <2>2
  <2>4. \A c \in Channels : c \in all <=> c \in cs \/ binding[s][c] = "leased"
    BY DEF Leased
  <2> HIDE DEF all
  <2>5. /\ binding' \in [Sessions -> [Channels -> {"none", "bound", "leased", "released"}]]
        /\ activated' \in [Sessions -> [Channels -> 0..MaxStamp]]
        /\ released' = released /\ late \subseteq late' /\ late' \subseteq Channels
        /\ \A r \in Sessions \ {s} : binding'[r] = binding[r]
        /\ \A c \in Channels : binding'[s][c] = IF c \in cs THEN "leased" ELSE binding[s][c]
        /\ \A c \in cs \ late' : released[c] <= at
        /\ \A c \in cs, r \in Sessions \ {s} : c \notin Leased(r)
    BY <1>1, <2>1, LeaseEffect
  <2>6. /\ snapshots' \in [Sessions -> Seq([at : Stamps, bound : SUBSET Channels])]
        /\ \A r \in Sessions \ {s} : snapshots'[r] = snapshots[r]
        /\ snapshots'[s] # <<>> /\ snapshots'[s][Len(snapshots'[s])].bound = all
    BY <1>1, <2>3, FreezeEffect
  <2>7. outdated' \in BOOLEAN
    BY <1>1, <2>1, CommandEffect
  <2>8. SessionTypeOK'
    BY <1>1, <2>5, <2>6, <2>7 DEF SessionTypeOK
  <2>9. /\ Leased(s)' = all /\ \A r \in Sessions \ {s} : Leased(r)' = Leased(r)
    BY <2>3, <2>4, <2>5 DEF Leased
  <2>10. \A c \in Channels : binding'[s][c] # "bound"
    BY <1>2, <2>2, <2>5 DEF SessionKept
  <2>11. SessionKept(s)'
    BY <1>1, <1>2, <2>2, <2>6, <2>9, <2>10 DEF SessionKept
  <2>12. \A c \in Leased(s)' \ Leased(s) : c \in cs
    BY <2>4, <2>9, <2>3 DEF Leased
  <2>13. LeasesFrozen' /\ Lifetimes'
    BY <1>1, <2>5, <2>6, <2>9, <2>11, <2>12, OthersKept DEF LeasesInv
  <2>14. LeaseChange(s, at)
    <3>1. \A c \in Channels : released[c] <= released'[c]
      BY <1>1, <2>5, SessionAssumption DEF SessionTypeOK
    <3>2. Leased(s) \subseteq Leased(s)'
      BY <2>9 DEF all
    <3>3. QED
      BY <2>5, <2>9, <2>12, <3>1, <3>2 DEF LeaseChange
  <2>15. Reconfigured(s, at)
    BY <1>1, <1>2, <2>3, <2>9, <2>14 DEF Reconfigured
  <2>16. QED
    BY <1>1, <2>1, <2>8, <2>13, <2>15 DEF LeasesInv
<1>3. CASE lifecycle[s] \in {"draft", "ready"}
  <2>1. /\ binding' = [binding EXCEPT ![s] = [c \in Channels |-> IF c \in cs THEN "bound"
                                                                ELSE binding[s][c]]]
        /\ activated' = [activated EXCEPT ![s] = [c \in Channels |-> IF c \in cs THEN 0
                                                                    ELSE activated[s][c]]]
        /\ UNCHANGED <<snapshots, leaseVars, outdated>>
    BY <1>3 DEF Bind, Active
  <2>2. /\ binding' \in [Sessions -> [Channels -> {"none", "bound", "leased", "released"}]]
        /\ \A r \in Sessions \ {s} : binding'[r] = binding[r]
        /\ \A c \in Channels : binding'[s][c] = IF c \in cs THEN "bound" ELSE binding[s][c]
    BY <1>1, <2>1 DEF SessionTypeOK
  <2>3. activated' \in [Sessions -> [Channels -> 0..MaxStamp]]
    BY <1>1, <2>1, SessionAssumption DEF SessionTypeOK
  <2>4. SessionTypeOK'
    BY <1>1, <2>1, <2>2, <2>3 DEF SessionTypeOK, leaseVars
  <2>5. Leased(s)' = Leased(s) /\ \A r \in Sessions \ {s} : Leased(r)' = Leased(r)
    BY <1>1, <2>2 DEF Leased
  <2>6. SessionKept(s)'
    BY <1>1, <1>3, <2>1, <2>5, KeptOf DEF SessionKept, Active
  <2>7. LeasesFrozen' /\ Lifetimes'
    BY <1>1, <2>1, <2>2, <2>5, <2>6, OthersKept DEF LeasesInv
  <2>8. ClaimsUntouched
    BY <1>1, <2>1, <2>5 DEF ClaimsUntouched
  <2>9. QED
    BY <1>1, <2>1, <2>4, <2>7, <2>8 DEF LeasesInv
<1>4. QED
  BY <1>2, <1>3 DEF Bind

LEMMA RemoveKeeps ==
  ASSUME LeasesInv, NEW s \in Sessions, NEW at \in Stamps, NEW c \in Channels,
         RemoveBinding(s, c, at)
  PROVE  /\ LeasesInv' /\ UNCHANGED <<stages, event, reader, context>>
         /\ \/ Reconfigured(s, at) /\ Stamped(at)
            \/ ClaimsUntouched /\ UNCHANGED outdated
<1>1. /\ SessionTypeOK
      /\ UNCHANGED <<lifecycle, started, ended, stages, event, reader, context>>
      /\ changes' \in [Sessions -> Nat] /\ \A r \in Sessions : changes'[r] <= MaxChanges[r]
  BY CommandEffect DEF RemoveBinding, LeasesInv, lifecycleVars
<1>2. CASE lifecycle[s] \in Active
  <2>1. /\ Release(s, {c}, at) /\ Freeze(s, at, Unreleased(s) \ {c}) /\ Stamped(at)
        /\ UNCHANGED activated
    BY <1>2 DEF RemoveBinding, Active
  <2>2. SessionKept(s) /\ Unreleased(s) = Leased(s) /\ Leased(s) \subseteq Channels
    BY <1>2, KeptOf DEF Leased
  <2> DEFINE rest == Leased(s) \ {c}
  <2>3. Freeze(s, at, rest) /\ rest \in SUBSET Channels /\ {c} \in SUBSET Channels
    BY <2>1, <2>2
  <2>4. \A d \in Channels : d \in rest <=> d # c /\ binding[s][d] = "leased"
    BY DEF Leased
  <2> HIDE DEF rest
  <2>5. /\ binding' \in [Sessions -> [Channels -> {"none", "bound", "leased", "released"}]]
        /\ released' \in [Channels -> 0..MaxStamp] /\ late' = late
        /\ \A r \in Sessions \ {s} : binding'[r] = binding[r]
        /\ \A d \in Channels : binding'[s][d] = IF d \in {c} THEN "released" ELSE binding[s][d]
        /\ \A d \in Channels : released[d] <= released'[d]
        /\ \A d \in {c} : at <= released'[d]
    BY <1>1, <2>1, <2>3, ReleaseEffect
  <2>6. /\ snapshots' \in [Sessions -> Seq([at : Stamps, bound : SUBSET Channels])]
        /\ \A r \in Sessions \ {s} : snapshots'[r] = snapshots[r]
        /\ snapshots'[s] # <<>> /\ snapshots'[s][Len(snapshots'[s])].bound = rest
    BY <1>1, <2>3, FreezeEffect
  <2>7. outdated' \in BOOLEAN
    BY <1>1, <2>1, CommandEffect
  <2>8. SessionTypeOK'
    BY <1>1, <2>1, <2>5, <2>6, <2>7 DEF SessionTypeOK
  <2>9. /\ Leased(s)' = rest /\ \A r \in Sessions \ {s} : Leased(r)' = Leased(r)
    BY <2>3, <2>4, <2>5 DEF Leased
  <2>10. \A d \in Channels : binding'[s][d] # "bound"
    BY <1>2, <2>2, <2>5 DEF SessionKept
  <2>11. SessionKept(s)'
    BY <1>1, <1>2, <2>2, <2>6, <2>9, <2>10 DEF SessionKept
  <2>12. Leased(s)' \subseteq Leased(s) /\ Leased(s) \ Leased(s)' \subseteq {c}
    BY <2>9 DEF rest
  <2>13. LeasesFrozen' /\ Lifetimes'
    BY <1>1, <2>5, <2>6, <2>9, <2>11, <2>12, OthersKept DEF LeasesInv
  <2>14. LeaseChange(s, at)
    BY <2>5, <2>9, <2>12 DEF LeaseChange
  <2>15. Reconfigured(s, at)
    BY <1>1, <1>2, <2>3, <2>9, <2>14 DEF Reconfigured
  <2>16. QED
    BY <1>1, <2>1, <2>8, <2>13, <2>15 DEF LeasesInv
<1>3. CASE lifecycle[s] \in {"draft", "ready"}
  <2>1. /\ binding[s][c] = "bound"
        /\ binding' = [binding EXCEPT ![s][c] = "released"]
        /\ activated' = [activated EXCEPT ![s][c] = at]
        /\ UNCHANGED <<snapshots, leaseVars, outdated>>
    BY <1>3 DEF RemoveBinding, Active
  <2>2. /\ binding' \in [Sessions -> [Channels -> {"none", "bound", "leased", "released"}]]
        /\ \A r \in Sessions \ {s} : binding'[r] = binding[r]
        /\ \A d \in Channels : binding'[s][d] = IF d = c THEN "released" ELSE binding[s][d]
    BY <1>1, <2>1 DEF SessionTypeOK
  <2>3. activated' \in [Sessions -> [Channels -> 0..MaxStamp]]
    <3>1. at \in 0..MaxStamp
      BY SessionAssumption DEF Stamps
    <3>2. QED
      BY <1>1, <2>1, <3>1 DEF SessionTypeOK
  <2>4. SessionTypeOK'
    BY <1>1, <2>1, <2>2, <2>3 DEF SessionTypeOK, leaseVars
  <2>5. Leased(s)' = Leased(s) /\ \A r \in Sessions \ {s} : Leased(r)' = Leased(r)
    BY <2>1, <2>2 DEF Leased
  <2>6. SessionKept(s)'
    BY <1>1, <1>3, <2>1, <2>5, KeptOf DEF SessionKept, Active
  <2>7. LeasesFrozen' /\ Lifetimes'
    BY <1>1, <2>1, <2>2, <2>5, <2>6, OthersKept DEF LeasesInv
  <2>8. ClaimsUntouched
    BY <1>1, <2>1, <2>5 DEF ClaimsUntouched
  <2>9. QED
    BY <1>1, <2>1, <2>4, <2>7, <2>8 DEF LeasesInv
<1>4. QED
  BY <1>2, <1>3 DEF RemoveBinding

LEMMA LimitsKeep ==
  ASSUME LeasesInv, NEW s \in Sessions, NEW at \in Stamps, ReplaceLimits(s, at)
  PROVE  /\ LeasesInv' /\ Reconfigured(s, at) /\ Stamped(at)
         /\ UNCHANGED <<stages, event, reader, context>>
<1>1. /\ SessionTypeOK /\ lifecycle[s] \in Active
      /\ UNCHANGED <<lifecycle, started, ended, binding, activated, released, late,
                     stages, event, reader, context>>
      /\ changes' \in [Sessions -> Nat] /\ \A r \in Sessions : changes'[r] <= MaxChanges[r]
      /\ outdated' \in BOOLEAN /\ Stamped(at)
  BY CommandEffect DEF ReplaceLimits, LeasesInv, lifecycleVars, leaseVars
<1>2. SessionKept(s) /\ Unreleased(s) = Leased(s) /\ Leased(s) \in SUBSET Channels
  BY <1>1, KeptOf DEF Leased
<1>3. Freeze(s, at, Leased(s))
  BY <1>2 DEF ReplaceLimits
<1>4. /\ snapshots' \in [Sessions -> Seq([at : Stamps, bound : SUBSET Channels])]
      /\ \A r \in Sessions \ {s} : snapshots'[r] = snapshots[r]
      /\ snapshots'[s] # <<>> /\ snapshots'[s][Len(snapshots'[s])].bound = Leased(s)
  BY <1>1, <1>2, <1>3, FreezeEffect
<1>5. SessionTypeOK'
  BY <1>1, <1>4 DEF SessionTypeOK
<1>6. \A r \in Sessions : Leased(r)' = Leased(r)
  BY <1>1 DEF Leased
<1>7. SessionKept(s)'
  BY <1>1, <1>2, <1>4, <1>6 DEF SessionKept
<1>8. LeasesFrozen' /\ Lifetimes'
  BY <1>1, <1>4, <1>6, <1>7, OthersKept DEF LeasesInv
<1>9. LeaseChange(s, at)
  BY <1>1, <1>6, SessionAssumption DEF LeaseChange, SessionTypeOK
<1>10. QED
  BY <1>1, <1>3, <1>5, <1>6, <1>8, <1>9 DEF LeasesInv, Reconfigured

\* Entering a stage exits the one before.
LEMMA StageEffect ==
  ASSUME SessionTypeOK, NEW s \in Sessions, NEW at \in Stamps, AdvanceStage(s, at)
  PROVE  LET last == Len(stages[s]) IN
         /\ stages' \in [Sessions -> Seq([entered : Stamps, exited : 0..MaxStamp])]
         /\ \A r \in Sessions \ {s} : stages'[r] = stages[r]
         /\ last \in Nat /\ DOMAIN stages[s] = 1..last
         /\ Len(stages'[s]) = last + 1 /\ DOMAIN stages'[s] = 1..(last + 1)
         /\ stages'[s][last + 1] = [entered |-> at, exited |-> 0]
         /\ last > 0 => /\ stages[s][last].entered <= at
                        /\ stages'[s][last] = [entered |-> stages[s][last].entered, exited |-> at]
         /\ \A i \in 1..(last - 1) : stages'[s][i] = stages[s][i]
<1> DEFINE last == Len(stages[s])
           entry == [entered |-> at, exited |-> 0]
           Stage == [entered : Stamps, exited : 0..MaxStamp]
<1>1. stages \in [Sessions -> Seq(Stage)]
  BY DEF SessionTypeOK
<1>2. entry \in Stage /\ at \in 0..MaxStamp
  BY SessionAssumption DEF Stamps
<1>3. \A x \in Stage : [x EXCEPT !.exited = at] = [entered |-> x.entered, exited |-> at]
                      /\ [x EXCEPT !.exited = at] \in Stage
  BY <1>2
<1> HIDE DEF Stage
<1>4. stages[s] \in Seq(Stage) /\ last \in Nat /\ DOMAIN stages[s] = 1..last
  BY <1>1
<1>5. CASE last = 0
  <2>1. stages' = [stages EXCEPT ![s] = <<entry>>]
    BY <1>5 DEF AdvanceStage
  <2> HIDE DEF entry
  <2>2. <<entry>> \in Seq(Stage) /\ Len(<<entry>>) = 1 /\ <<entry>>[1] = entry
    BY <1>2
  <2>3. stages'[s] = <<entry>> /\ stages' \in [Sessions -> Seq(Stage)]
        /\ \A r \in Sessions \ {s} : stages'[r] = stages[r]
    BY <1>1, <2>1, <2>2
  <2>4. /\ Len(stages'[s]) = last + 1 /\ DOMAIN stages'[s] = 1..(last + 1)
        /\ stages'[s][last + 1] = entry
    BY <1>5, <2>2, <2>3
  <2>5. ~(last > 0) /\ 1..(last - 1) = {}
    BY <1>5
  <2>6. QED
    BY <1>4, <2>3, <2>4, <2>5 DEF entry, Stage
<1>6. CASE last # 0
  <2> DEFINE left == [stages[s] EXCEPT ![last].exited = at]
  <2>1. /\ stages[s][last].entered <= at
        /\ stages' = [stages EXCEPT ![s] = Append(left, entry)]
    BY <1>6 DEF AdvanceStage
  <2>2. last \in 1..last /\ last \in DOMAIN stages[s]
    BY <1>4, <1>6
  <2>3. stages[s][last] \in Stage
    BY <1>4, <2>2, ElementOfSeq
  <2> DEFINE x == stages[s][last]
  <2>4. left = [stages[s] EXCEPT ![last] = [entered |-> x.entered, exited |-> at]]
    BY <1>3, <1>4, <2>2, <2>3
  <2>5. [entered |-> x.entered, exited |-> at] \in Stage
    BY <1>3, <2>3
  <2> DEFINE y == [entered |-> x.entered, exited |-> at]
  <2> HIDE DEF left, y, entry
  <2>6. /\ left \in Seq(Stage) /\ Len(left) = last /\ DOMAIN left = 1..last
        /\ left[last] = y /\ \A i \in 1..last : i # last => left[i] = stages[s][i]
    <3>1. left = [stages[s] EXCEPT ![last] = y] /\ y \in Stage
      BY <2>4, <2>5 DEF y
    <3> HIDE DEF last
    <3>2. QED
      BY <1>4, <2>2, <3>1 DEF last
  <2>7. /\ Append(left, entry) \in Seq(Stage) /\ Len(Append(left, entry)) = last + 1
        /\ Append(left, entry)[last + 1] = entry
        /\ \A i \in 1..last : Append(left, entry)[i] = left[i]
    BY <1>2, <2>6
  <2>8. /\ stages'[s] = Append(left, entry) /\ stages' \in [Sessions -> Seq(Stage)]
        /\ \A r \in Sessions \ {s} : stages'[r] = stages[r]
    BY <1>1, <2>1, <2>7
  <2>9. DOMAIN stages'[s] = 1..(last + 1) /\ Len(stages'[s]) = last + 1
    BY <1>4, <2>7, <2>8
  <2>10. /\ stages'[s][last] = y /\ stages'[s][last + 1] = entry
         /\ \A i \in 1..(last - 1) : stages'[s][i] = stages[s][i]
    BY <1>4, <2>2, <2>6, <2>7, <2>8
  <2>11. QED
    BY <1>4, <2>1, <2>8, <2>9, <2>10 DEF entry, y, Stage
<1>7. QED
  BY <1>5, <1>6

LEMMA StageKeeps ==
  ASSUME LeasesInv, NEW s \in Sessions, NEW at \in Stamps, AdvanceStage(s, at)
  PROVE  /\ LeasesInv' /\ ClaimsUntouched /\ Stamped(at)
         /\ UNCHANGED <<event, reader, context>>
<1>1. /\ SessionTypeOK /\ Stamped(at) /\ Change(s)
      /\ UNCHANGED <<lifecycleVars, bindingVars, event, reader, context, leaseVars>>
  BY DEF AdvanceStage, LeasesInv
<1>2. stages' \in [Sessions -> Seq([entered : Stamps, exited : 0..MaxStamp])]
  BY <1>1, StageEffect
<1>3. /\ changes' \in [Sessions -> Nat] /\ \A r \in Sessions : changes'[r] <= MaxChanges[r]
      /\ outdated' \in BOOLEAN
  BY <1>1, CommandEffect
<1>4. SessionTypeOK'
  BY <1>1, <1>2, <1>3 DEF SessionTypeOK, lifecycleVars, bindingVars, leaseVars
<1>5. \A r \in Sessions : Leased(r)' = Leased(r)
  BY <1>1 DEF Leased, bindingVars
<1>6. LeasesFrozen' /\ Lifetimes'
  BY <1>1, <1>5 DEF LeasesInv, LeasesFrozen, Lifetimes, lifecycleVars, bindingVars
<1>7. QED
  BY <1>1, <1>4, <1>5, <1>6 DEF LeasesInv, ClaimsUntouched, lifecycleVars, bindingVars

LEMMA MatchingTyped ==
  ASSUME SessionTypeOK, NEW s \in Sessions, NEW c, NEW t
  PROVE  Matching(s, c, t) \subseteq [session : Sessions, snapshot : Nat]
<1>1. snapshots[s] \in Seq([at : Stamps, bound : SUBSET Channels])
  BY DEF SessionTypeOK
<1>2. DOMAIN snapshots[s] \subseteq Nat
  BY <1>1
<1>3. QED
  BY <1>2 DEF Matching, InForce

\* The transaction that persists the event only reads.
LEMMA ReaderKeeps ==
  ASSUME LeasesInv,
         ReadSessions \/ CommitContext \/ RollBack \/ \E s \in Sessions : ReadSnapshot(s)
  PROVE  LeasesInv' /\ ClaimsUntouched /\ UNCHANGED stages
<1>1. /\ SessionTypeOK
      /\ UNCHANGED <<lifecycleVars, bindingVars, stages, leaseVars, changes>>
      /\ outdated' \in BOOLEAN
  BY DEF ReadSessions, CommitContext, RollBack, ReadSnapshot, LeasesInv, SessionTypeOK
<1>2. event' \in [captured : 0..MaxStamp, channel : Channels]
  <2>1. [captured : Stamps, channel : Channels] \subseteq [captured : 0..MaxStamp, channel : Channels]
    BY SessionAssumption DEF Stamps
  <2>2. event \in [captured : 0..MaxStamp, channel : Channels]
    BY <1>1 DEF SessionTypeOK
  <2>3. QED
    BY <2>1, <2>2 DEF ReadSessions, CommitContext, RollBack, ReadSnapshot
<1>3. reader' \in [step : {"idle", "reading", "done"}, todo : SUBSET Sessions,
                   matches : SUBSET [session : Sessions, snapshot : Nat]]
  <2>1. reader \in [step : {"idle", "reading", "done"}, todo : SUBSET Sessions,
                    matches : SUBSET [session : Sessions, snapshot : Nat]]
    BY <1>1 DEF SessionTypeOK
  <2>2. CASE ReadSessions
    BY <2>2 DEF ReadSessions
  <2>3. ASSUME NEW s \in Sessions, ReadSnapshot(s)
        PROVE  reader' \in [step : {"idle", "reading", "done"}, todo : SUBSET Sessions,
                            matches : SUBSET [session : Sessions, snapshot : Nat]]
    <3>1. Matching(s, event.channel, event.captured) \subseteq [session : Sessions, snapshot : Nat]
      BY <1>1, MatchingTyped
    <3>2. QED
      BY <2>1, <2>3, <3>1 DEF ReadSnapshot
  <2>4. CASE CommitContext
    BY <2>1, <2>4 DEF CommitContext
  <2>5. CASE RollBack
    BY <2>5 DEF RollBack, NotReading
  <2>6. QED
    BY <2>2, <2>3, <2>4, <2>5
<1>4. SessionTypeOK'
  BY <1>1, <1>2, <1>3 DEF SessionTypeOK, lifecycleVars, bindingVars, leaseVars
<1>5. \A r \in Sessions : Leased(r)' = Leased(r)
  BY <1>1 DEF Leased, bindingVars
<1>6. LeasesFrozen' /\ Lifetimes'
  BY <1>1, <1>5 DEF LeasesInv, LeasesFrozen, Lifetimes, lifecycleVars, bindingVars
<1>7. QED
  BY <1>1, <1>4, <1>5, <1>6 DEF LeasesInv, ClaimsUntouched, lifecycleVars, bindingVars

\* Every step of the sessions and of the reader, by what it means for the claims.
LEMMA SessionEffects ==
  ASSUME LeasesInv, [SessionNext]_sessionVars
  PROVE  /\ LeasesInv'
         /\ \/ \E s \in Sessions, at \in Stamps :
                 /\ Reconfigured(s, at) \/ Stopped(s, at)
                 /\ Stamped(at) /\ UNCHANGED <<stages, event, reader, context>>
            \/ \E s \in Sessions, at \in Stamps :
                 /\ AdvanceStage(s, at) /\ ClaimsUntouched
                 /\ Stamped(at) /\ UNCHANGED <<event, reader, context>>
            \/ ClaimsUntouched /\ UNCHANGED <<stages, event, reader, context, outdated>>
            \/ /\ ClaimsUntouched /\ UNCHANGED stages
               /\ \/ ReadSessions \/ CommitContext \/ RollBack
                  \/ \E s \in Sessions : ReadSnapshot(s)
<1>1. CASE UNCHANGED sessionVars
  <2>1. /\ UNCHANGED <<lifecycle, started, ended, binding, activated, snapshots, stages,
                       event, reader, context, released, late, outdated, changes>>
    BY <1>1 DEF sessionVars, lifecycleVars, bindingVars, leaseVars
  <2>2. \A r \in Sessions : Leased(r)' = Leased(r)
    BY <2>1 DEF Leased
  <2>3. LeasesInv' /\ ClaimsUntouched
    BY <2>1, <2>2 DEF LeasesInv, SessionTypeOK, LeasesFrozen, Lifetimes, ClaimsUntouched,
       leaseVars
  <2>4. QED
    BY <2>1, <2>3
<1>2. ASSUME NEW s \in Sessions, Create(s) \/ ChangeState(s)
      PROVE  LeasesInv' /\ ClaimsUntouched /\ UNCHANGED <<stages, event, reader, context, outdated>>
  BY <1>2, MovesKeep
<1>3. ASSUME NEW s \in Sessions, NEW at \in Stamps, Start(s, at) \/ ReplaceLimits(s, at)
      PROVE  /\ LeasesInv' /\ Reconfigured(s, at)
             /\ Stamped(at) /\ UNCHANGED <<stages, event, reader, context>>
  BY <1>3, StartKeeps, LimitsKeep
<1>4. ASSUME NEW s \in Sessions, NEW at \in Stamps, End(s, at)
      PROVE  /\ LeasesInv' /\ Stopped(s, at)
             /\ Stamped(at) /\ UNCHANGED <<stages, event, reader, context>>
  BY <1>4, EndKeeps
<1>5. ASSUME NEW s \in Sessions, NEW at \in Stamps,
             AddProductionBindings(s, at)
             \/ \E c \in Channels : AddBinding(s, c, at) \/ RemoveBinding(s, c, at)
      PROVE  /\ LeasesInv' /\ UNCHANGED <<stages, event, reader, context>>
             /\ \/ Reconfigured(s, at) /\ Stamped(at)
                \/ ClaimsUntouched /\ UNCHANGED outdated
  <2>1. CASE AddProductionBindings(s, at)
    BY <2>1, BindKeeps DEF AddProductionBindings
  <2>2. ASSUME NEW c \in Channels, AddBinding(s, c, at)
        PROVE  /\ LeasesInv' /\ UNCHANGED <<stages, event, reader, context>>
               /\ \/ Reconfigured(s, at) /\ Stamped(at)
                  \/ ClaimsUntouched /\ UNCHANGED outdated
    <3>1. /\ {c} \in SUBSET (Channels \ Unreleased(s)) /\ Change(s) /\ Bind(s, {c}, at)
      BY <2>2 DEF AddBinding
    <3>2. QED
      BY <3>1, BindKeeps
  <2>3. QED
    BY <1>5, <2>1, <2>2, RemoveKeeps
<1>6. ASSUME NEW s \in Sessions, NEW at \in Stamps, AdvanceStage(s, at)
      PROVE  /\ LeasesInv' /\ ClaimsUntouched
             /\ Stamped(at) /\ UNCHANGED <<event, reader, context>>
  BY <1>6, StageKeeps
<1>7. ASSUME ReadSessions \/ CommitContext \/ RollBack \/ \E s \in Sessions : ReadSnapshot(s)
      PROVE  LeasesInv' /\ ClaimsUntouched /\ UNCHANGED stages
  BY <1>7, ReaderKeeps
<1>8. CASE SessionNext
  BY <1>2, <1>3, <1>4, <1>5, <1>6, <1>7, <1>8 DEF SessionNext
<1>9. QED
  BY <1>1, <1>8

LEMMA SessionsStart == SessionInit => LeasesInv /\ StagesInv /\ ClaimsEnd /\ ReadSoFar
<1> SUFFICES ASSUME SessionInit
             PROVE  LeasesInv /\ StagesInv /\ ClaimsEnd /\ ReadSoFar
  OBVIOUS
<1> USE SessionAssumption DEF SessionInit
<1>1. SessionTypeOK
  <2>1. /\ started \in [Sessions -> 0..MaxStamp] /\ ended \in [Sessions -> 0..MaxStamp]
        /\ activated \in [Sessions -> [Channels -> 0..MaxStamp]]
        /\ released \in [Channels -> 0..MaxStamp]
    OBVIOUS
  <2>2. /\ binding \in [Sessions -> [Channels -> {"none", "bound", "leased", "released"}]]
        /\ lifecycle \in [Sessions -> {"absent", "draft", "ready"} \cup Active \cup Ended]
    OBVIOUS
  <2>3. /\ snapshots \in [Sessions -> Seq([at : Stamps, bound : SUBSET Channels])]
        /\ stages \in [Sessions -> Seq([entered : Stamps, exited : 0..MaxStamp])]
    OBVIOUS
  <2>4. event \in [captured : 0..MaxStamp, channel : Channels]
    OBVIOUS
  <2>5. reader \in [step : {"idle", "reading", "done"}, todo : SUBSET Sessions,
                    matches : SUBSET [session : Sessions, snapshot : Nat]]
    BY DEF NotReading
  <2>6. changes \in [Sessions -> Nat] /\ \A s \in Sessions : changes[s] <= MaxChanges[s]
    OBVIOUS
  <2>7. QED
    BY <2>1, <2>2, <2>3, <2>4, <2>5, <2>6 DEF SessionTypeOK
<1>2. LeasesFrozen /\ Lifetimes
  BY DEF LeasesFrozen, Lifetimes, Leased, Active, Ended
<1>3. StagesInv
  BY DEF StagesInv, StagesOrdered, StagesLinked
<1>4. ClaimsEnd
  BY DEF ClaimsEnd, Claims, Within
<1>5. ReadSoFar
  BY DEF ReadSoFar, NotReading
<1>6. QED
  BY <1>1, <1>2, <1>3, <1>4, <1>5 DEF LeasesInv

-----------------------------------------------------------------------------
(* The stages.                                                             *)

LEMMA StagesStep ==
  ASSUME LeasesInv, StagesInv, [SessionNext]_sessionVars
  PROVE  StagesInv'
<1>1. CASE UNCHANGED stages
  BY <1>1 DEF StagesInv, StagesOrdered, StagesLinked
<1>2. ASSUME NEW s \in Sessions, NEW at \in Stamps, AdvanceStage(s, at)
      PROVE  StagesInv'
  <2> DEFINE last == Len(stages[s])
             Fine(r) ==
               /\ \A i, j \in DOMAIN stages'[r] :
                    i < j => stages'[r][i].entered <= stages'[r][j].entered
               /\ \A i \in DOMAIN stages'[r] :
                    stages'[r][i].exited = IF i = Len(stages'[r]) THEN 0
                                           ELSE stages'[r][i + 1].entered
  <2>1. /\ \A r \in Sessions \ {s} : stages'[r] = stages[r]
        /\ last \in Nat /\ DOMAIN stages[s] = 1..last
        /\ Len(stages'[s]) = last + 1 /\ DOMAIN stages'[s] = 1..(last + 1)
        /\ stages'[s][last + 1] = [entered |-> at, exited |-> 0]
        /\ last > 0 => /\ stages[s][last].entered <= at
                       /\ stages'[s][last] = [entered |-> stages[s][last].entered, exited |-> at]
        /\ \A i \in 1..(last - 1) : stages'[s][i] = stages[s][i]
    BY <1>2, StageEffect DEF LeasesInv
  <2>2. \A i \in 1..last : stages[s][i].entered \in Nat
    <3>1. stages[s] \in Seq([entered : Stamps, exited : 0..MaxStamp])
      BY DEF LeasesInv, SessionTypeOK
    <3>2. \A i \in 1..last : stages[s][i] \in [entered : Stamps, exited : 0..MaxStamp]
      BY <2>1, <3>1, ElementOfSeq
    <3>3. QED
      BY <3>2 DEF Stamps
  <2>3. /\ \A i, j \in 1..last : i < j => stages[s][i].entered <= stages[s][j].entered
        /\ \A i \in 1..last : stages[s][i].exited = IF i = last THEN 0 ELSE stages[s][i + 1].entered
    BY <2>1 DEF StagesInv, StagesOrdered, StagesLinked
  <2> HIDE DEF last
  <2>4. at \in Nat
    BY DEF Stamps
  <2>5. \A i \in 1..last : stages'[s][i].entered = stages[s][i].entered
    <3>1. \A i \in 1..last : i = last \/ i \in 1..(last - 1)
      BY <2>1
    <3>2. QED
      BY <2>1, <3>1
  <2>6. \A i \in 1..last : stages[s][i].entered <= at
    BY <2>1, <2>2, <2>3, <2>4
  <2>7. \A i, j \in 1..(last + 1) : i < j => stages'[s][i].entered <= stages'[s][j].entered
    <3> SUFFICES ASSUME NEW i \in 1..(last + 1), NEW j \in 1..(last + 1), i < j
                 PROVE  stages'[s][i].entered <= stages'[s][j].entered
      OBVIOUS
    <3>1. i \in 1..last
      BY <2>1
    <3>2. CASE j \in 1..last
      BY <2>3, <2>5, <3>1, <3>2
    <3>3. CASE j = last + 1
      BY <2>1, <2>5, <2>6, <3>1, <3>3
    <3>4. QED
      BY <2>1, <3>2, <3>3
  <2>8. \A i \in 1..(last + 1) :
          stages'[s][i].exited = IF i = last + 1 THEN 0 ELSE stages'[s][i + 1].entered
    <3> SUFFICES ASSUME NEW i \in 1..(last + 1)
                 PROVE  stages'[s][i].exited = IF i = last + 1 THEN 0
                                               ELSE stages'[s][i + 1].entered
      OBVIOUS
    <3>1. CASE i = last + 1
      BY <2>1, <3>1
    <3>2. CASE i = last
      <4>1. last > 0 /\ i # last + 1
        BY <2>1, <3>2
      <4>2. QED
        BY <2>1, <3>2, <4>1
    <3>3. CASE i \in 1..(last - 1)
      <4>1. i + 1 \in 1..last /\ i \in 1..last /\ i # last /\ i # last + 1
        BY <2>1, <3>3
      <4>2. QED
        BY <2>1, <2>3, <2>5, <3>3, <4>1
    <3>4. QED
      BY <2>1, <3>1, <3>2, <3>3
  <2>9. Fine(s)
    BY <2>1, <2>7, <2>8
  <2>10. \A r \in Sessions \ {s} : Fine(r)
    BY <2>1 DEF StagesInv, StagesOrdered, StagesLinked
  <2>11. QED
    BY <2>9, <2>10 DEF StagesInv, StagesOrdered, StagesLinked
<1>3. QED
  BY <1>1, <1>2, SessionEffects

LEMMA AtMostOne ==
  ASSUME NEW S, \A x, y \in S : x = y
  PROVE  Cardinality(S) <= 1
<1>1. CASE S = {}
  BY <1>1, FS_EmptySet
<1>2. CASE S # {}
  <2>1. PICK x : S = {x}
    BY <1>2
  <2>2. QED
    BY <2>1, FS_Singleton
<1>3. QED
  BY <1>1, <1>2

\* Linked stages are entered one after the other, so one at most is current.
LEMMA OneStageOf == LeasesInv /\ StagesInv => OneStage
<1> SUFFICES ASSUME LeasesInv, StagesInv, NEW s \in Sessions, NEW t \in Stamps
             PROVE  Cardinality(StagesAt(s, t)) <= 1
  BY DEF OneStage, StagesInv, StagesLinked
<1>1. stages[s] \in Seq([entered : Stamps, exited : 0..MaxStamp])
  BY DEF LeasesInv, SessionTypeOK
<1>2. /\ Len(stages[s]) \in Nat /\ DOMAIN stages[s] = 1..Len(stages[s])
      /\ \A i \in DOMAIN stages[s] : stages[s][i].entered \in Nat \ {0}
  <2>1. Len(stages[s]) \in Nat /\ DOMAIN stages[s] = 1..Len(stages[s])
    BY <1>1
  <2>2. \A i \in 1..Len(stages[s]) : stages[s][i] \in [entered : Stamps, exited : 0..MaxStamp]
    BY <1>1, ElementOfSeq
  <2>3. \A i \in 1..Len(stages[s]) : stages[s][i].entered \in Stamps
    BY <2>2
  <2>4. Stamps \subseteq Nat \ {0}
    BY SessionAssumption DEF Stamps
  <2>5. QED
    BY <2>1, <2>3, <2>4
<1>3. ASSUME NEW i \in StagesAt(s, t), NEW j \in StagesAt(s, t), i < j
      PROVE  FALSE
  <2>1. /\ i \in DOMAIN stages[s] /\ j \in DOMAIN stages[s] /\ i # Len(stages[s])
        /\ i + 1 \in DOMAIN stages[s] /\ i + 1 <= j
        /\ stages[s][j].entered <= t
        /\ (stages[s][i].exited = 0 \/ t < stages[s][i].exited)
    BY <1>2, <1>3 DEF StagesAt
  <2>2. stages[s][i].exited = stages[s][i + 1].entered
    BY <2>1 DEF StagesInv, StagesLinked
  <2>3. stages[s][i + 1].entered <= stages[s][j].entered
    BY <1>2, <2>1 DEF StagesInv, StagesOrdered
  <2>4. stages[s][j].entered <= t /\ t < stages[s][i].exited /\ t \in Nat
    BY <1>2, <1>3, <2>1, <2>2 DEF StagesAt, Stamps
  <2>5. QED
    BY <1>2, <2>1, <2>2, <2>3, <2>4
<1>4. \A i, j \in StagesAt(s, t) : i = j
  BY <1>2, <1>3 DEF StagesAt
<1>5. QED
  BY <1>4, AtMostOne

\* The strengthening of SessionInv that every step preserves: leases agree with
\* the last snapshot, times lie within the session, stages follow one another.
THEOREM SessionsInductive == SessionSpec => [](LeasesInv /\ StagesInv)
<1>1. SessionInit => LeasesInv /\ StagesInv
  BY SessionsStart
<1>2. LeasesInv /\ StagesInv /\ [SessionNext]_sessionVars => LeasesInv' /\ StagesInv'
  BY SessionEffects, StagesStep
<1>3. QED
  BY <1>1, <1>2, PTL DEF SessionSpec

\* Leases are held by active sessions only, are what the last snapshot lists and
\* are never shared, and the stages of a session follow each other without gap
\* (uq_active_session_channel_lease, _freeze_configuration, advance_stage).
THEOREM SessionInvariant == SessionSpec => []SessionInv
<1>1. LeasesInv /\ StagesInv => SessionInv
  BY OneStageOf DEF LeasesInv, SessionInv
<1>2. QED
  BY <1>1, SessionsInductive, PTL

-----------------------------------------------------------------------------
(* The claims.                                                             *)

\* A snapshot changes what is claimed from its stamp on, and if the snapshots are
\* in order it is the one in force from there on.
LEMMA FreezeClaims ==
  ASSUME SessionTypeOK, NEW s \in Sessions, NEW at \in Stamps, NEW cs \in SUBSET Channels,
         Freeze(s, at, cs)
  PROVE  /\ InOrder(s)' => InOrder(s)
         /\ \A t \in Nat, c \in Channels :
              t < at => Matching(s, c, t)' = Matching(s, c, t)
         /\ \A t \in Nat, c \in Channels :
              /\ InOrder(s)' /\ at <= t /\ Matching(s, c, t)' # {} => c \in cs
              /\ InOrder(s)' /\ at <= t /\ snapshots[s] # <<>>
                 /\ c \in snapshots[s][Len(snapshots[s])].bound => Matching(s, c, t) # {}
         /\ \A r \in Sessions \ {s} :
              /\ InOrder(r)' = InOrder(r)
              /\ \A c \in Channels, t \in Nat : Matching(r, c, t)' = Matching(r, c, t)
<1> DEFINE n == Len(snapshots[s])
           old == snapshots[s]
           new == snapshots'[s]
<1>1. /\ old \in Seq([at : Stamps, bound : SUBSET Channels])
      /\ new \in Seq([at : Stamps, bound : SUBSET Channels])
      /\ new = Append(old, [at |-> at, bound |-> cs])
      /\ \A r \in Sessions \ {s} : snapshots'[r] = snapshots[r]
  BY FreezeEffect DEF SessionTypeOK
<1>2. /\ n \in Nat /\ DOMAIN old = 1..n /\ DOMAIN new = 1..(n + 1)
      /\ \A i \in 1..n : new[i] = old[i]
      /\ new[n + 1] = [at |-> at, bound |-> cs]
      /\ old # <<>> => n # 0
  BY <1>1
<1>3. at \in Nat /\ \A i \in 1..n : old[i].at \in Nat
  <2>1. \A i \in 1..n : old[i] \in [at : Stamps, bound : SUBSET Channels]
    BY <1>1, ElementOfSeq
  <2>2. \A i \in 1..n : old[i].at \in Stamps
    BY <2>1
  <2>3. Stamps \subseteq Nat
    BY SessionAssumption DEF Stamps
  <2>4. QED
    BY <2>2, <2>3
<1>4. /\ n + 1 \in 1..(n + 1) /\ new[n + 1].at = at /\ new[n + 1].bound = cs
      /\ \A i \in 1..(n + 1) : i \in 1..n \/ i = n + 1
      /\ \A i \in 1..n : i < n + 1 /\ i \in 1..(n + 1)
  BY <1>2
<1>5. InOrder(s)' => InOrder(s) /\ \A i \in 1..n : old[i].at <= at
  BY <1>2, <1>4 DEF InOrder
<1>6. ASSUME NEW t \in Nat, t < at
      PROVE  InForce(s, t)' = InForce(s, t)
  <2>1. {i \in DOMAIN new : new[i].at <= t} = {i \in DOMAIN old : old[i].at <= t}
    BY <1>2, <1>3, <1>4, <1>6
  <2>2. \A i \in {j \in DOMAIN old : old[j].at <= t} : new[i] = old[i]
    BY <1>2
  <2>3. QED
    BY <2>1, <2>2 DEF InForce
<1>7. ASSUME NEW t \in Nat, at <= t, InOrder(s)'
      PROVE  /\ InForce(s, t)' \subseteq {n + 1}
             /\ n # 0 => n \in InForce(s, t)
  <2>1. ASSUME NEW i \in InForce(s, t)'
        PROVE  i = n + 1
    <3>1. /\ i \in 1..(n + 1) /\ new[n + 1].at <= t
          /\ i # n + 1 => \/ new[n + 1].at < new[i].at
                          \/ new[n + 1].at = new[i].at /\ n + 1 < i
      BY <1>2, <1>4, <1>7 DEF InForce
    <3>2. i # n + 1 => new[i].at = old[i].at /\ old[i].at <= at /\ old[i].at \in Nat
      BY <1>2, <1>3, <1>4, <1>5, <1>7, <3>1
    <3>3. QED
      BY <1>2, <1>3, <1>4, <3>1, <3>2
  <2>2. ASSUME n # 0
        PROVE  n \in InForce(s, t)
    <3>1. n \in 1..n /\ old[n].at <= t
      BY <1>2, <1>3, <1>5, <1>7, <2>2
    <3>2. ASSUME NEW j \in 1..n, j # n
          PROVE  old[j].at < old[n].at \/ (old[j].at = old[n].at /\ j < n)
      <4>1. j < n /\ old[j].at <= old[n].at
        BY <1>2, <1>5, <1>7, <3>1, <3>2 DEF InOrder
      <4>2. QED
        BY <1>3, <3>1, <4>1
    <3>3. QED
      BY <1>2, <3>1, <3>2 DEF InForce
  <2>3. QED
    BY <2>1, <2>2
<1>8. ASSUME NEW t \in Nat, NEW c \in Channels, t < at
      PROVE  Matching(s, c, t)' = Matching(s, c, t)
  <2>1. InForce(s, t)' = InForce(s, t)
    BY <1>6, <1>8
  <2>2. \A i \in InForce(s, t) : new[i] = old[i]
    BY <1>2 DEF InForce
  <2>3. QED
    BY <2>1, <2>2 DEF Matching
<1>9. ASSUME NEW t \in Nat, NEW c \in Channels, at <= t, InOrder(s)'
      PROVE  /\ Matching(s, c, t)' # {} => c \in cs
             /\ old # <<>> /\ c \in old[n].bound => Matching(s, c, t) # {}
  <2>1. Matching(s, c, t)' # {} => \E i \in InForce(s, t)' : c \in new[i].bound
    BY DEF Matching
  <2>2. Matching(s, c, t)' # {} => c \in cs
    BY <1>4, <1>7, <1>9, <2>1
  <2>3. old # <<>> /\ c \in old[n].bound => [session |-> s, snapshot |-> n] \in Matching(s, c, t)
    BY <1>2, <1>7, <1>9 DEF Matching
  <2>4. QED
    BY <2>2, <2>3
<1>10. ASSUME NEW r \in Sessions \ {s}
       PROVE  /\ InOrder(r)' = InOrder(r)
              /\ \A c \in Channels, t \in Nat : Matching(r, c, t)' = Matching(r, c, t)
  BY <1>1 DEF InOrder, Matching, InForce
<1>11. QED
  BY <1>5, <1>8, <1>9, <1>10

\* What a command changes in the claims of its session is from its stamp on.
LEMMA ReconfiguredClaims ==
  ASSUME LeasesInv, NEW s \in Sessions, NEW at \in Stamps, Reconfigured(s, at)
  PROVE  /\ \A r \in Sessions : InOrder(r)' => InOrder(r)
         /\ \A c \in Channels, t \in Stamps :
              InOrder(s)' /\ Claims(s, c, t)' =>
                \/ t < at /\ Claims(s, c, t)
                \/ at <= t /\ c \in Leased(s)' /\ (c \in Leased(s) => Claims(s, c, t))
         /\ \A r \in Sessions \ {s}, c \in Channels, t \in Stamps :
              Claims(r, c, t)' = Claims(r, c, t)
<1>1. /\ SessionTypeOK /\ Freeze(s, at, Leased(s)') /\ ended' = ended
      /\ Leased(s)' \in SUBSET Channels /\ Stamps \subseteq Nat /\ at \in Nat
  BY SessionAssumption DEF Reconfigured, LeasesInv, Leased, Stamps
<1> DEFINE cs == Leased(s)'
<1>2. cs \in SUBSET Channels /\ Freeze(s, at, cs)
  BY <1>1
<1> HIDE DEF cs
<1>3. /\ InOrder(s)' => InOrder(s)
      /\ \A t \in Nat, c \in Channels :
           t < at => Matching(s, c, t)' = Matching(s, c, t)
      /\ \A t \in Nat, c \in Channels :
           /\ InOrder(s)' /\ at <= t /\ Matching(s, c, t)' # {} => c \in cs
           /\ InOrder(s)' /\ at <= t /\ snapshots[s] # <<>>
              /\ c \in snapshots[s][Len(snapshots[s])].bound => Matching(s, c, t) # {}
      /\ \A r \in Sessions \ {s} :
           /\ InOrder(r)' = InOrder(r)
           /\ \A c \in Channels, t \in Nat : Matching(r, c, t)' = Matching(r, c, t)
  BY <1>1, <1>2, FreezeClaims
<1>4. ASSUME NEW c \in Channels, NEW t \in Stamps, InOrder(s)', Claims(s, c, t)'
      PROVE  \/ t < at /\ Claims(s, c, t)
             \/ at <= t /\ c \in Leased(s)' /\ (c \in Leased(s) => Claims(s, c, t))
  <2>1. t \in Nat /\ (t < at \/ at <= t)
    BY <1>1
  <2>2. CASE UNCHANGED started /\ lifecycle[s] \in Active
    <3>1. Within(s, t)
      BY <1>1, <1>4, <2>2 DEF Claims, Within
    <3>2. CASE t < at
      BY <1>3, <1>4, <2>1, <3>1, <3>2 DEF Claims
    <3>3. CASE at <= t
      <4>1. c \in Leased(s)'
        BY <1>3, <1>4, <2>1, <3>3 DEF Claims, cs
      <4>2. c \in Leased(s) => Matching(s, c, t) # {}
        BY <1>3, <1>4, <2>1, <2>2, <3>3 DEF LeasesInv, LeasesFrozen
      <4>3. QED
        BY <3>1, <3>3, <4>1, <4>2 DEF Claims
    <3>4. QED
      BY <2>1, <3>2, <3>3
  <2>3. CASE started' = [started EXCEPT ![s] = at] /\ started[s] = 0 /\ Leased(s) = {}
    <3>1. started'[s] = at
      BY <1>1, <2>3 DEF SessionTypeOK
    <3>2. at <= t
      BY <1>4, <3>1 DEF Claims, Within
    <3>3. c \in Leased(s)'
      BY <1>3, <1>4, <2>1, <3>2 DEF Claims, cs
    <3>4. QED
      BY <2>3, <3>2, <3>3
  <2>4. QED
    BY <2>2, <2>3 DEF Reconfigured
<1>5. ASSUME NEW r \in Sessions \ {s}, NEW c \in Channels, NEW t \in Stamps
      PROVE  Claims(r, c, t)' = Claims(r, c, t)
  <2>1. started'[r] = started[r] /\ ended'[r] = ended[r]
    BY <1>1 DEF Reconfigured, SessionTypeOK
  <2>2. Matching(r, c, t)' = Matching(r, c, t)
    BY <1>1, <1>3
  <2>3. Within(r, t)' = Within(r, t)
    BY <2>1 DEF Within
  <2>4. QED
    BY <2>2, <2>3 DEF Claims
<1>6. QED
  BY <1>3, <1>4, <1>5

\* A session that ends claims nothing from its end on.
LEMMA StoppedClaims ==
  ASSUME LeasesInv, NEW s \in Sessions, NEW at \in Stamps, Stopped(s, at)
  PROVE  /\ \A r \in Sessions : InOrder(r)' = InOrder(r)
         /\ \A c \in Channels, t \in Stamps : Claims(s, c, t)' => t < at /\ Claims(s, c, t)
         /\ \A r \in Sessions \ {s}, c \in Channels, t \in Stamps :
              Claims(r, c, t)' = Claims(r, c, t)
<1>1. /\ SessionTypeOK /\ UNCHANGED <<started, snapshots>> /\ ended[s] = 0
      /\ ended'[s] = at /\ \A r \in Sessions \ {s} : ended'[r] = ended[r]
  BY DEF Stopped, LeasesInv, SessionTypeOK
<1>2. at # 0
  BY SessionAssumption DEF Stamps
<1>3. \A r \in Sessions : InOrder(r)' = InOrder(r)
  BY <1>1 DEF InOrder
<1>4. \A r \in Sessions, c \in Channels, t \in Stamps : Matching(r, c, t)' = Matching(r, c, t)
  BY <1>1 DEF Matching, InForce
<1>5. /\ \A t \in Stamps : Within(s, t)' => t < at /\ Within(s, t)
      /\ \A r \in Sessions \ {s}, t \in Stamps : Within(r, t)' = Within(r, t)
  BY <1>1, <1>2 DEF Within
<1>6. QED
  BY <1>3, <1>4, <1>5 DEF Claims

\* The claims of two sessions stay apart, and so does what each released.
LEMMA ClaimsStep ==
  ASSUME LeasesInv, OneClaim, ClaimsEnd, [SessionNext]_sessionVars
  PROVE  OneClaim' /\ ClaimsEnd'
<1>1. Stamps \subseteq Nat /\ \A c \in Channels : released[c] \in Nat
  BY SessionAssumption DEF Stamps, LeasesInv, SessionTypeOK
<1>2. LeasesInv'
  BY SessionEffects
<1>3. \A c \in Channels : released'[c] \in Nat
  BY <1>2, SessionAssumption DEF LeasesInv, SessionTypeOK
<1>4. ASSUME NEW s \in Sessions, NEW at \in Stamps, Reconfigured(s, at) \/ Stopped(s, at)
      PROVE  OneClaim' /\ ClaimsEnd'
  <2>1. LeaseChange(s, at) /\ at \in Nat
    BY <1>1, <1>4 DEF Reconfigured, Stopped
  <2>2. /\ \A r \in Sessions : InOrder(r)' => InOrder(r)
        /\ \A r \in Sessions \ {s}, c \in Channels, t \in Stamps :
             Claims(r, c, t)' = Claims(r, c, t)
        /\ \A c \in Channels, t \in Stamps :
             InOrder(s)' /\ Claims(s, c, t)' =>
               \/ t < at /\ Claims(s, c, t)
               \/ at <= t /\ c \in Leased(s)' /\ (c \in Leased(s) => Claims(s, c, t))
    <3>1. CASE Reconfigured(s, at)
      BY <3>1, ReconfiguredClaims
    <3>2. CASE Stopped(s, at)
      BY <3>2, StoppedClaims
    <3>3. QED
      BY <1>4, <3>1, <3>2
  <2>3. ASSUME NEW c \in Channels, c \notin late', NEW t \in Stamps, NEW q \in Sessions \ {s},
               InOrder(s)', InOrder(q)', Claims(s, c, t)', Claims(q, c, t)'
        PROVE  FALSE
    <3>1. Claims(q, c, t) /\ InOrder(q) /\ InOrder(s) /\ c \notin late
      BY <2>1, <2>2, <2>3 DEF LeaseChange
    <3>2. ~Claims(s, c, t)
      BY <2>3, <3>1 DEF OneClaim
    <3>3. at <= t /\ c \in Leased(s)' \ Leased(s)
      BY <2>2, <2>3, <3>2
    <3>4. released[c] <= at /\ c \notin Leased(q)
      BY <2>1, <2>3, <3>3 DEF LeaseChange
    <3>5. t < released[c]
      BY <3>1, <3>4 DEF ClaimsEnd
    <3>6. QED
      BY <1>1, <2>1, <3>3, <3>4, <3>5
  <2>4. OneClaim'
    <3> SUFFICES ASSUME NEW c \in Channels, c \notin late', NEW t \in Stamps,
                        NEW r \in Sessions, NEW q \in Sessions,
                        InOrder(r)', InOrder(q)', Claims(r, c, t)', Claims(q, c, t)'
                 PROVE  r = q
      BY DEF OneClaim
    <3>1. CASE r # s /\ q # s
      BY <2>1, <2>2, <3>1 DEF OneClaim, LeaseChange
    <3>2. CASE r = s \/ q = s
      BY <2>3, <3>2
    <3>3. QED
      BY <3>1, <3>2
  <2>5. ClaimsEnd'
    <3> SUFFICES ASSUME NEW c \in Channels, c \notin late', NEW t \in Stamps, NEW r \in Sessions,
                        InOrder(r)', Claims(r, c, t)', c \notin Leased(r)'
                 PROVE  t < released'[c]
      BY DEF ClaimsEnd
    <3>1. c \notin late /\ InOrder(r) /\ released[c] <= released'[c]
      BY <2>1, <2>2 DEF LeaseChange
    <3>2. CASE r # s
      <4>1. Claims(r, c, t) /\ c \notin Leased(r)
        BY <2>1, <2>2, <3>2 DEF LeaseChange
      <4>2. t < released[c]
        BY <3>1, <4>1 DEF ClaimsEnd
      <4>3. QED
        BY <1>1, <1>3, <3>1, <4>2
    <3>3. CASE r = s
      <4>1. t < at /\ Claims(s, c, t)
        BY <2>2, <3>3
      <4>2. CASE c \in Leased(s)
        <5>1. at <= released'[c]
          BY <2>1, <3>3, <4>2 DEF LeaseChange
        <5>2. QED
          BY <1>1, <1>3, <2>1, <4>1, <5>1
      <4>3. CASE c \notin Leased(s)
        <5>1. t < released[c]
          BY <3>1, <3>3, <4>1, <4>3 DEF ClaimsEnd
        <5>2. QED
          BY <1>1, <1>3, <3>1, <5>1
      <4>4. QED
        BY <4>2, <4>3
    <3>4. QED
      BY <3>2, <3>3
  <2>6. QED
    BY <2>4, <2>5
<1>5. ASSUME ClaimsUntouched
      PROVE  OneClaim' /\ ClaimsEnd'
  <2>1. /\ late' = late /\ released' = released
        /\ \A r \in Sessions : InOrder(r)' = InOrder(r) /\ Leased(r)' = Leased(r)
        /\ \A r \in Sessions, c \in Channels, t \in Stamps : Claims(r, c, t)' = Claims(r, c, t)
    BY <1>5 DEF ClaimsUntouched, leaseVars, InOrder, Claims, Within, Matching, InForce
  <2>2. QED
    BY <2>1 DEF OneClaim, ClaimsEnd
<1>6. QED
  BY <1>4, <1>5, SessionEffects

\* With its leases in order no channel is claimed by two sessions at one time
\* (uq_active_session_channel_lease, resolve_telemetry_context).
THEOREM OneClaimAtATime == SessionSpec => []OneClaim
<1>1. SessionInit => OneClaim /\ ClaimsEnd
  <2>1. SessionInit => OneClaim
    BY DEF SessionInit, OneClaim, Claims, Within
  <2>2. QED
    BY <2>1, SessionsStart
<1>2. LeasesInv /\ OneClaim /\ ClaimsEnd /\ [SessionNext]_sessionVars => OneClaim' /\ ClaimsEnd'
  BY ClaimsStep
<1>3. QED
  BY <1>1, <1>2, SessionsInductive, PTL DEF SessionSpec

-----------------------------------------------------------------------------
(* The attribution.                                                        *)

HistoryAt(c, t) == UNION {Matching(s, c, t) : s \in {r \in Sessions : Within(r, t)}}

\* A command stamped after a time leaves what the history says of it.
LEMMA HistoryKept ==
  ASSUME LeasesInv, StagesInv, NEW s \in Sessions, NEW at \in Stamps,
         \/ (Reconfigured(s, at) \/ Stopped(s, at)) /\ UNCHANGED stages
         \/ AdvanceStage(s, at) /\ ClaimsUntouched,
         NEW t \in Nat, t < at
  PROVE  \A r \in Sessions :
           /\ Within(r, t)' = Within(r, t) /\ StagesAt(r, t)' = StagesAt(r, t)
           /\ \A c \in Channels : Matching(r, c, t)' = Matching(r, c, t)
<1>1. /\ SessionTypeOK /\ at \in Nat /\ at # 0
      /\ started \in [Sessions -> 0..MaxStamp] /\ ended \in [Sessions -> 0..MaxStamp]
  <2>1. /\ SessionTypeOK
        /\ started \in [Sessions -> 0..MaxStamp] /\ ended \in [Sessions -> 0..MaxStamp]
    BY DEF LeasesInv, SessionTypeOK
  <2>2. at \in Nat /\ at # 0
    BY SessionAssumption DEF Stamps
  <2>3. QED
    BY <2>1, <2>2
<1>2. CASE Reconfigured(s, at) /\ UNCHANGED stages
  <2> DEFINE cs == Leased(s)'
  <2>1. cs \in SUBSET Channels /\ Freeze(s, at, cs)
    BY <1>2 DEF Reconfigured, Leased
  <2> HIDE DEF cs
  <2>2. \A r \in Sessions, c \in Channels : Matching(r, c, t)' = Matching(r, c, t)
    BY <1>1, <2>1, FreezeClaims
  <2>3. \A r \in Sessions : Within(r, t)' = Within(r, t)
    BY <1>1, <1>2 DEF Reconfigured, Within
  <2>4. \A r \in Sessions : StagesAt(r, t)' = StagesAt(r, t)
    BY <1>2 DEF StagesAt
  <2>5. QED
    BY <2>2, <2>3, <2>4
<1>3. CASE Stopped(s, at) /\ UNCHANGED stages
  <2>1. \A r \in Sessions, c \in Channels : Matching(r, c, t)' = Matching(r, c, t)
    BY <1>3 DEF Stopped, Matching, InForce
  <2>2. \A r \in Sessions : Within(r, t)' = Within(r, t)
    BY <1>1, <1>3 DEF Stopped, Within
  <2>3. \A r \in Sessions : StagesAt(r, t)' = StagesAt(r, t)
    BY <1>3 DEF StagesAt
  <2>4. QED
    BY <2>1, <2>2, <2>3
<1>4. CASE AdvanceStage(s, at) /\ ClaimsUntouched
  <2>1. \A r \in Sessions :
          Within(r, t)' = Within(r, t) /\ \A c \in Channels : Matching(r, c, t)' = Matching(r, c, t)
    BY <1>4 DEF ClaimsUntouched, Matching, InForce, Within
  <2> DEFINE last == Len(stages[s])
             old == stages[s]
             new == stages'[s]
  <2>2. /\ last \in Nat /\ DOMAIN old = 1..last /\ DOMAIN new = 1..(last + 1)
        /\ new[last + 1] = [entered |-> at, exited |-> 0]
        /\ last > 0 => new[last] = [entered |-> old[last].entered, exited |-> at]
        /\ \A i \in 1..(last - 1) : new[i] = old[i]
        /\ \A r \in Sessions \ {s} : stages'[r] = stages[r]
    BY <1>1, <1>4, StageEffect
  <2>3. last > 0 => old[last].exited = 0
    BY <2>2 DEF StagesInv, StagesLinked
  <2> DEFINE Covers(stage) == stage.entered <= t /\ (stage.exited = 0 \/ t < stage.exited)
  <2>4. ~Covers(new[last + 1])
    BY <1>1, <2>2
  <2>5. last > 0 => (Covers(new[last]) <=> Covers(old[last]))
    BY <1>1, <2>2, <2>3
  <2>6. \A i \in 1..last : Covers(new[i]) <=> Covers(old[i])
    <3>1. \A i \in 1..last : last > 0 /\ (i = last \/ i \in 1..(last - 1))
      BY <2>2
    <3>2. QED
      BY <2>2, <2>5, <3>1
  <2> HIDE DEF Covers
  <2>7. {i \in DOMAIN new : Covers(new[i])} = {i \in DOMAIN old : Covers(old[i])}
    BY <2>2, <2>4, <2>6
  <2>8. StagesAt(s, t)' = StagesAt(s, t)
    BY <2>7 DEF StagesAt, Covers
  <2>9. \A r \in Sessions \ {s} : StagesAt(r, t)' = StagesAt(r, t)
    BY <2>2 DEF StagesAt
  <2>10. QED
    BY <2>1, <2>8, <2>9
<1>5. QED
  BY <1>2, <1>3, <1>4

\* Only such commands come after the reads without making them outdated.
LEMMA AttributionStep ==
  ASSUME LeasesInv, StagesInv, ReadSoFar, AttributionStands, [SessionNext]_sessionVars
  PROVE  ReadSoFar' /\ AttributionStands'
<1>1. SessionTypeOK /\ SessionTypeOK'
  BY SessionEffects DEF LeasesInv
<1>2. PICK c \in Channels, t \in 0..MaxStamp : event'.channel = c /\ event'.captured = t
  BY <1>1 DEF SessionTypeOK
<1>3. t \in Nat
  BY SessionAssumption
<1>4. ASSUME event.channel = c, event.captured = t
      PROVE  /\ ReadSoFar <=>
                  (reader.step = "reading" /\ ~outdated =>
                     HistoryAt(c, t) = reader.matches
                                       \cup UNION {Matching(s, c, t) : s \in reader.todo})
             /\ AttributionStands <=>
                  (reader.step = "done" /\ ~outdated =>
                     /\ Cardinality(HistoryAt(c, t)) <= 1
                     /\ context = {Attributed(m, t) : m \in HistoryAt(c, t)})
  BY <1>4 DEF ReadSoFar, Claimants, AttributionStands, HistoryAt
<1>5. /\ ReadSoFar' <=>
           (reader'.step = "reading" /\ ~outdated' =>
              HistoryAt(c, t)' = reader'.matches
                                 \cup UNION {Matching(s, c, t)' : s \in reader'.todo})
      /\ AttributionStands' <=>
           (reader'.step = "done" /\ ~outdated' =>
              /\ Cardinality(HistoryAt(c, t)') <= 1
              /\ context' = {Attributed(m, t)' : m \in HistoryAt(c, t)'})
  BY <1>2 DEF ReadSoFar, Claimants, AttributionStands, HistoryAt
\* What a step that leaves the reader alone has to keep.
<1>6. ASSUME UNCHANGED <<event, reader, context>>, ~outdated' => ~outdated,
             reader.step # "idle" /\ ~outdated' =>
               \A r \in Sessions :
                 /\ Within(r, t)' = Within(r, t) /\ StagesAt(r, t)' = StagesAt(r, t)
                 /\ Matching(r, c, t)' = Matching(r, c, t)
      PROVE  ReadSoFar' /\ AttributionStands'
  <2>1. event.channel = c /\ event.captured = t
    BY <1>2, <1>6
  <2>2. ASSUME reader.step # "idle", ~outdated'
        PROVE  /\ HistoryAt(c, t)' = HistoryAt(c, t)
               /\ UNION {Matching(s, c, t)' : s \in reader'.todo}
                    = UNION {Matching(s, c, t) : s \in reader.todo}
    <3>1. reader.todo \subseteq Sessions
      BY <1>1 DEF SessionTypeOK
    <3>2. QED
      BY <1>6, <2>2, <3>1 DEF HistoryAt
  <2>3. ASSUME reader.step = "done", ~outdated'
        PROVE  {Attributed(m, t)' : m \in HistoryAt(c, t)'} = {Attributed(m, t) : m \in HistoryAt(c, t)}
    <3>1. HistoryAt(c, t)' = HistoryAt(c, t)
      BY <2>2, <2>3
    <3>2. \A r \in Sessions : Matching(r, c, t) \subseteq [session : Sessions, snapshot : Nat]
      BY <1>1, MatchingTyped
    <3>3. \A m \in HistoryAt(c, t) : m.session \in Sessions
      BY <3>2 DEF HistoryAt
    <3>4. \A m \in HistoryAt(c, t) : Attributed(m, t)' = Attributed(m, t)
      BY <1>6, <2>3, <3>3 DEF Attributed
    <3>5. QED
      BY <3>1, <3>4
  <2>4. ReadSoFar'
    BY <1>4, <1>5, <1>6, <2>1, <2>2
  <2>5. AttributionStands'
    BY <1>4, <1>5, <1>6, <2>1, <2>2, <2>3
  <2>6. QED
    BY <2>4, <2>5
<1>7. ASSUME NEW s \in Sessions, NEW at \in Stamps, Stamped(at),
             UNCHANGED <<event, reader, context>>,
             \/ (Reconfigured(s, at) \/ Stopped(s, at)) /\ UNCHANGED stages
             \/ AdvanceStage(s, at) /\ ClaimsUntouched
      PROVE  ReadSoFar' /\ AttributionStands'
  <2>1. event.captured = t /\ at \in Nat
    BY <1>2, <1>7, SessionAssumption DEF Stamps
  <2>2. ~outdated' => ~outdated /\ (reader.step # "idle" => t < at)
    <3>1. outdated' = (outdated \/ (at <= t /\ reader.step # "idle")) /\ outdated \in BOOLEAN
      BY <1>1, <1>7, <2>1 DEF Stamped, SessionTypeOK
    <3>2. ~(at <= t) => t < at
      BY <1>3, <2>1
    <3>3. QED
      BY <3>1, <3>2
  <2>3. t < at =>
          \A r \in Sessions :
            /\ Within(r, t)' = Within(r, t) /\ StagesAt(r, t)' = StagesAt(r, t)
            /\ Matching(r, c, t)' = Matching(r, c, t)
    BY <1>2, <1>3, <1>7, HistoryKept
  <2>4. QED
    BY <1>6, <1>7, <2>2, <2>3
<1>8. ASSUME ClaimsUntouched, UNCHANGED stages
      PROVE  \A r \in Sessions :
               /\ Within(r, t)' = Within(r, t) /\ StagesAt(r, t)' = StagesAt(r, t)
               /\ Matching(r, c, t)' = Matching(r, c, t)
  BY <1>8 DEF ClaimsUntouched, Within, StagesAt, Matching, InForce
<1>9. CASE ClaimsUntouched /\ UNCHANGED <<stages, event, reader, context, outdated>>
  BY <1>6, <1>8, <1>9
<1>10. CASE ClaimsUntouched /\ UNCHANGED stages /\ ReadSessions
  <2>1. /\ reader'.step = "reading" /\ reader'.matches = {}
        /\ reader'.todo = {s \in Sessions : Within(s, t)}
    BY <1>2, <1>10 DEF ReadSessions
  <2>2. HistoryAt(c, t)' = UNION {Matching(s, c, t)' : s \in reader'.todo}
    BY <1>8, <1>10, <2>1 DEF HistoryAt
  <2>3. QED
    BY <1>5, <2>1, <2>2
<1>11. CASE ClaimsUntouched /\ UNCHANGED stages /\ \E s \in Sessions : ReadSnapshot(s)
  <2>1. PICK s \in Sessions : ReadSnapshot(s)
    BY <1>11
  <2>2. /\ event.channel = c /\ event.captured = t /\ outdated' = outdated
        /\ reader.step = "reading" /\ reader'.step = "reading" /\ s \in reader.todo
        /\ reader'.todo = reader.todo \ {s}
        /\ reader'.matches = reader.matches \cup Matching(s, c, t)
        /\ reader.todo \subseteq Sessions
    BY <1>1, <1>2, <2>1 DEF ReadSnapshot, SessionTypeOK
  <2>3. /\ HistoryAt(c, t)' = HistoryAt(c, t)
        /\ UNION {Matching(r, c, t)' : r \in reader'.todo}
             = UNION {Matching(r, c, t) : r \in reader'.todo}
    BY <1>8, <1>11, <2>2 DEF HistoryAt
  <2>4. UNION {Matching(r, c, t) : r \in reader.todo}
          = Matching(s, c, t) \cup UNION {Matching(r, c, t) : r \in reader'.todo}
    BY <2>2
  <2>5. QED
    BY <1>4, <1>5, <2>2, <2>3, <2>4
<1>12. CASE ClaimsUntouched /\ UNCHANGED stages /\ CommitContext
  <2>1. /\ event.channel = c /\ event.captured = t /\ outdated' = outdated
        /\ reader.step = "reading" /\ reader'.step = "done" /\ reader.todo = {}
        /\ Cardinality(reader.matches) <= 1
        /\ context' = {Attributed(m, t) : m \in reader.matches}
    BY <1>1, <1>2, <1>12 DEF CommitContext, SessionTypeOK
  <2>2. ~outdated => HistoryAt(c, t) = reader.matches
    BY <1>4, <2>1
  <2>3. HistoryAt(c, t)' = HistoryAt(c, t)
    BY <1>8, <1>12 DEF HistoryAt
  <2>4. \A m \in HistoryAt(c, t) : Attributed(m, t)' = Attributed(m, t)
    <3>1. \A r \in Sessions : Matching(r, c, t) \subseteq [session : Sessions, snapshot : Nat]
      BY <1>1, MatchingTyped
    <3>2. \A m \in HistoryAt(c, t) : m.session \in Sessions
      BY <3>1 DEF HistoryAt
    <3>3. QED
      BY <1>8, <1>12, <3>2 DEF Attributed
  <2>5. QED
    BY <1>5, <2>1, <2>2, <2>3, <2>4
<1>13. CASE RollBack
  BY <1>5, <1>13 DEF RollBack, NotReading
<1>14. QED
  BY <1>7, <1>9, <1>10, <1>11, <1>12, <1>13, SessionEffects

\* A committed context is what the history of the sessions says for the event,
\* unless a command stamped up to the capture came after the reads began
\* (resolve_telemetry_context).
THEOREM AttributionHolds == SessionSpec => []AttributionStands
<1>1. SessionInit => ReadSoFar /\ AttributionStands
  BY SessionsStart DEF SessionInit, NotReading, AttributionStands
<1>2. LeasesInv /\ StagesInv /\ ReadSoFar /\ AttributionStands /\ [SessionNext]_sessionVars
      => ReadSoFar' /\ AttributionStands'
  BY AttributionStep
<1>3. QED
  BY <1>1, <1>2, SessionsInductive, PTL DEF SessionSpec
=============================================================================
