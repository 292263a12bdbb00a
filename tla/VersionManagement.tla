-------------------------- MODULE VersionManagement --------------------------
(***************************************************************************)
(* How a release is replaced by another: operators and the nightly timer   *)
(* publish operations as files (telemetry-service/app/version_management.py, *)
(* scripts/nexolab-update-orchestrator.py), a root worker on the host      *)
(* carries them out (scripts/nexolab-version-manager.py).  Nothing but the *)
(* files connects the three, and each may die between two of its writes.   *)
(*                                                                         *)
(* A bundle is any validated package that declares itself compatible, an   *)
(* operation an update or a rollback.  Operation ids are random, so the    *)
(* next one may sort anywhere among the others.  The nightly discovery may *)
(* find a candidate at any time.                                           *)
(***************************************************************************)
EXTENDS Integers

CONSTANTS
  Bundles,        \* validated packages of the catalog
  MaxOperations,  \* bound: operations published
  MaxDeaths       \* bound: processes that die

ASSUME VersionAssumption ==
  /\ Bundles # {} /\ "mixed" \notin Bundles
  /\ MaxOperations \in Nat /\ MaxDeaths \in Nat

Ids == 1..MaxOperations

VARIABLES
  current,        \* current.json: bundle_id, runtime_state_known, last_operation_id
  runtime,        \* the bundle the host runs, "mixed" while it is replaced
  requests,       \* requests/<id>.json
  record,         \* status of operations/<id>.json, "none" without a file
  plan,           \* source_bundle_id and target_bundle_id of each operation
  publisher,      \* the holder of queue.lock
  manager,        \* the worker, holder of worker.lock
  unaware,        \* history: published beside a request or after current changed
  phantom,        \* history: record written after the worker wrote it last
  interrupted,    \* history: a run died over the installation, and none ended since
  deaths

releaseVars == <<current, runtime>>
queueVars == <<requests, record, plan>>
publicationVars == <<unaware, phantom>>
runVars == <<manager, interrupted>>
versionVars == <<releaseVars, queueVars, publisher, publicationVars, runVars, deaths>>

Ongoing == {o \in Ids : record[o] \in {"queued", "running"}}
Unused == {o \in Ids : plan[o].source = plan[o].goal}

NoPublisher == [step |-> "idle", op |-> 0]
NoRun == [step |-> "idle", op |-> 0]

\* No operation has been published; the runtime is a bootstrapped package.
VersionInit ==
  /\ \E b \in Bundles :
       /\ current = [bundle |-> b, known |-> TRUE, last |-> 0]
       /\ runtime = b
       /\ plan = [o \in Ids |-> [source |-> b, goal |-> b]]
  /\ requests = {} /\ record = [o \in Ids |-> "none"]
  /\ publisher = NoPublisher /\ manager = NoRun
  /\ unaware = {} /\ phantom = {}
  /\ interrupted = FALSE /\ deaths = 0

Death == deaths < MaxDeaths /\ deaths' = deaths + 1

-----------------------------------------------------------------------------
(* Publishing an operation, under queue.lock.                              *)

\* snapshot: the API reads current.json first...
ReadCurrent ==
  /\ publisher.step = "idle"
  /\ publisher' = [step |-> "read", seen |-> current]
  /\ UNCHANGED <<releaseVars, queueVars, publicationVars, runVars, deaths>>

\* The operation goes from the bundle the publisher has read to another one.
Draft(source) ==
  \E o \in Unused, goal \in Bundles \ {source} :
    /\ plan' = [plan EXCEPT ![o] = [source |-> source, goal |-> goal]]
    /\ publisher' = [step |-> "request", op |-> o]

\* ... and the operations after it.
ReadOperations ==
  /\ publisher.step = "read"
  /\ \/ Ongoing = {} /\ publisher.seen.known /\ Draft(publisher.seen.bundle)
     \/ publisher' = NoPublisher /\ UNCHANGED plan
  /\ UNCHANGED <<releaseVars, requests, record, publicationVars, runVars, deaths>>

\* The timer looks at the requests too, and not at runtime_state_known.
ScheduledActivation ==
  /\ publisher.step = "idle"
  /\ Ongoing = {} /\ requests = {}
  /\ Draft(current.bundle)
  /\ UNCHANGED <<releaseVars, requests, record, publicationVars, runVars, deaths>>

WriteRequest ==
  /\ publisher.step = "request"
  /\ requests' = requests \cup {publisher.op}
  /\ unaware' = IF requests = {} /\ plan[publisher.op].source = current.bundle
                THEN unaware ELSE unaware \cup {publisher.op}
  /\ publisher' = [publisher EXCEPT !.step = "record"]
  /\ UNCHANGED <<releaseVars, record, plan, phantom, runVars, deaths>>

\* The record is written blindly: the worker may have carried the request out.
WriteRecord ==
  /\ publisher.step = "record"
  /\ record' = [record EXCEPT ![publisher.op] = "queued"]
  /\ phantom' = IF publisher.op \in requests /\ manager # [step |-> "remove", op |-> publisher.op]
                THEN phantom ELSE phantom \cup {publisher.op}
  /\ publisher' = NoPublisher
  /\ UNCHANGED <<releaseVars, requests, plan, unaware, runVars, deaths>>

PublisherDies ==
  /\ Death
  /\ publisher.step # "idle"
  /\ publisher' = NoPublisher
  /\ UNCHANGED <<releaseVars, queueVars, publicationVars, runVars>>

-----------------------------------------------------------------------------
(* The version manager, under worker.lock.                                 *)

\* A request is stale when it starts from another bundle than the current one.
StartsHere(o) == plan[o].source = current.bundle

First(o) == o \in requests /\ \A q \in requests : o <= q

\* run_once takes the first request only; it refuses a stale one and leaves it.
TakeRequest ==
  /\ manager.step = "idle"
  /\ \E o \in requests :
       /\ First(o) /\ StartsHere(o)
       /\ record' = [record EXCEPT ![o] = "running"]
       /\ manager' = [step |-> "prepare", op |-> o]
  /\ UNCHANGED <<releaseVars, requests, plan, publisher, publicationVars, interrupted, deaths>>

Step(from, to) == manager.step = from /\ manager' = [manager EXCEPT !.step = to]

\* Package, capacity and hardware are in order, the backup is made: the
\* installer starts.
StartInstaller ==
  /\ Step("prepare", "install")
  /\ runtime' = "mixed"
  /\ UNCHANGED <<current, queueVars, publisher, publicationVars, interrupted, deaths>>

Installed ==
  /\ Step("install", "verify")
  /\ runtime' = plan[manager.op].goal
  /\ UNCHANGED <<current, queueVars, publisher, publicationVars, interrupted, deaths>>

\* The new runtime was verified: it becomes the current release.
Commit ==
  /\ Step("verify", "finish")
  /\ current' = [bundle |-> plan[manager.op].goal, known |-> TRUE, last |-> manager.op]
  /\ interrupted' = FALSE
  /\ UNCHANGED <<runtime, queueVars, publisher, publicationVars, deaths>>

Fails ==
  /\ \/ Step("prepare", "failed")
     \/ \E from \in {"install", "verify", "finish"} : Step(from, "revert")
  /\ UNCHANGED <<releaseVars, queueVars, publisher, publicationVars, interrupted,
                 deaths>>

\* Mutant: the failed installation leaves current.json as it is.
StillCurrent(o) == current

\* What current.json says after an installation that failed: the old bundle,
\* in an unknown state.
Unverified(o) == [bundle |-> plan[o].source, known |-> FALSE, last |-> o]

Revert ==
  /\ Step("revert", "failed")
  /\ current' = Unverified(manager.op)
  /\ interrupted' = FALSE
  /\ UNCHANGED <<runtime, queueVars, publisher, publicationVars, deaths>>

\* The record of the run's operation gets its outcome.
EndRecord ==
  /\ \/ Step("finish", "remove") /\ record' = [record EXCEPT ![manager.op] = "succeeded"]
     \/ Step("failed", "remove") /\ record' = [record EXCEPT ![manager.op] = "failed"]
  /\ UNCHANGED <<releaseVars, requests, plan, publisher, publicationVars, interrupted,
                 deaths>>

\* Mutant: a failed operation keeps its request.
RemovedIfSucceeded(o) == IF record[o] = "failed" THEN requests ELSE requests \ {o}

\* However the operation ended, its request is removed.
Removed(o) == requests \ {o}

RemoveRequest ==
  /\ manager.step = "remove"
  /\ requests' = Removed(manager.op)
  /\ manager' = NoRun
  /\ UNCHANGED <<releaseVars, record, plan, publisher, publicationVars, interrupted,
                 deaths>>

\* A power cut, a kill, or a file that cannot be written any more.
ManagerDies ==
  /\ Death
  /\ manager.step # "idle"
  /\ interrupted' = (interrupted \/ manager.step \in {"install", "verify", "revert"})
  /\ manager' = NoRun
  /\ UNCHANGED <<releaseVars, queueVars, publisher, publicationVars>>

VersionNext ==
  \/ ReadCurrent \/ ReadOperations \/ ScheduledActivation
  \/ WriteRequest \/ WriteRecord \/ PublisherDies
  \/ TakeRequest \/ StartInstaller \/ Installed \/ Commit \/ Fails \/ Revert
  \/ EndRecord \/ RemoveRequest \/ ManagerDies

VersionSpec == VersionInit /\ [][VersionNext]_versionVars

-----------------------------------------------------------------------------
(* Properties.                                                             *)

VersionTypeOK ==
  /\ current \in [bundle : Bundles, known : BOOLEAN, last : 0..MaxOperations]
  /\ runtime \in Bundles \cup {"mixed"}
  /\ requests \subseteq Ids
  /\ record \in [Ids -> {"none", "queued", "running", "succeeded", "failed"}]
  /\ plan \in [Ids -> [source : Bundles, goal : Bundles]]
  /\ publisher.step \in {"idle", "read", "request", "record"}
  /\ manager.step \in {"idle", "prepare", "install", "verify", "finish", "revert",
                       "failed", "remove"}
  /\ manager.op \in 0..MaxOperations
  /\ unaware \cup phantom \subseteq Ids
  /\ interrupted \in BOOLEAN /\ deaths \in 0..MaxDeaths

\* current.json names what the host runs whenever it claims to know, but while
\* an installation is under way and after one that was interrupted: repeated,
\* that operation may fail before it installs anything, and current.json goes
\* on claiming (execute_request).
KnownRuntime ==
  current.known /\ ~interrupted /\ manager.step \notin {"install", "verify", "revert"}
    => runtime = current.bundle

\* An operation that is shown as active, and refuses every other, has a request
\* the worker can take, or it is the one that brought the current bundle about,
\* whose worker may have died over its record.  Otherwise an operation is
\* stranded only where one was published beside a request (as the API does to a
\* request without a record) or across a commit (the API reads current.json before
\* the operations), or where its record was written when the worker was done with it.
NoneStranded ==
  \A o \in Ongoing :
    \/ o \in requests /\ (StartsHere(o) \/ current.last = o)
    \/ unaware # {} \/ o \in phantom

VersionInv == VersionTypeOK /\ KnownRuntime /\ NoneStranded

\* docs/operations/local-version-management.md, "The worker advances a record
\* through queued, running and one terminal result": a result stands, unless the
\* worker died before it removed the request, or the publisher had not written
\* its record yet.
OneResult ==
  [][\A o \in Ids :
       record[o] \in {"succeeded", "failed"} /\ record'[o] # record[o]
       => o \in phantom' \/ (deaths > 0 /\ o \in requests)]_versionVars

=============================================================================
