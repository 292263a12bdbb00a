----------------------------- MODULE ExportJobs -----------------------------
(***************************************************************************)
(* Energy history exports (telemetry-service/app/energy_export/jobs.py):   *)
(* the request handlers and the coordinator thread, which share one lock,  *)
(* and the worker process of the active job, which does not take it.  All  *)
(* of them change the job's manifest on disk, and a crash of the service   *)
(* leaves only the manifests and the files beside them.                    *)
(***************************************************************************)
EXTENDS Sequences, FiniteSets, Integers

CONSTANTS
  Jobs,           \* job ids, as many as the spool keeps records (max_records)
  Owners,
  OwnerOf,        \* the owner a job id is drawn for
  MaxPending,     \* max_pending
  MaxPerOwner,    \* max_per_owner
  MaxFaults,      \* bound: crashes, stops, killed workers and failed launches
  NoJob

ASSUME ExportAssumption ==
  /\ IsFiniteSet(Jobs) /\ NoJob \notin Jobs
  /\ OwnerOf \in [Jobs -> Owners]
  /\ MaxPending \in Nat /\ MaxPerOwner \in Nat /\ MaxFaults \in Nat

VARIABLES
  status,         \* manifest: status, "absent" without a manifest
  phase,          \* manifest: "preview" or "render"
  lapsed,         \* jobs past their expires_at
  spool,          \* files beside the manifest: how far the export got
  tickets,        \* _tickets: jobs with a download ticket
  queue,          \* _queue
  active,         \* _active_id
  activePhase,    \* _active_phase
  worker,         \* the worker process: what it does next
  verdict,        \* the status a failing worker is about to report
  cleaning,       \* the job whose files the holder of _lock is deleting
  service,        \* "up", "stopping", "down" or "starting"
  dropped,        \* history: jobs that left the queue in a launch that raised
  torn,           \* history: jobs that had files when the service crashed
  faults

manifestVars == <<status, phase, lapsed>>
coordinatorVars == <<queue, active, activePhase>>
processVars == <<worker, verdict>>
historyVars == <<dropped, torn, faults>>
exportVars == <<manifestVars, spool, tickets, coordinatorVars, processVars,
                cleaning, service, historyVars>>

Terminal == {"failed", "canceled", "expired"}
Unfinished == {"queued", "running", "preview_ready"}

Queued == {queue[i] : i \in 1..Len(queue)}
Pending == Len(queue) + (IF active = NoJob THEN 0 ELSE 1)

(* The queue without a job, which is in it once at most (ExportTypeOK).     *)
Without(j) ==
  IF j \notin Queued THEN queue
  ELSE LET at == CHOOSE i \in 1..Len(queue) : queue[i] = j
       IN  [i \in 1..(Len(queue) - 1) |-> queue[IF i < at THEN i ELSE i + 1]]

ExportInit ==
  /\ status = [j \in Jobs |-> "absent"]
  /\ phase = [j \in Jobs |-> "preview"]
  /\ lapsed = {}
  /\ spool = [j \in Jobs |-> "none"]
  /\ tickets = {}
  /\ queue = <<>> /\ active = NoJob /\ activePhase = "preview"
  /\ worker = "none" /\ verdict = "failed"
  /\ cleaning = NoJob
  /\ service = "up"
  /\ dropped = {} /\ torn = {} /\ faults = 0

-----------------------------------------------------------------------------
(* Manifest and files.                                                     *)

(* Mutant: a manifest change that does not look at the stored status.      *)
MutateAnyStatus(j, new) == status' = [status EXCEPT ![j] = new]

(* _mutate: a terminal status is replaced by terminal ones only.           *)
Mutate(j, new) ==
  status' = [status EXCEPT ![j] = IF @ \in Terminal /\ new \notin Terminal THEN @ ELSE new]

(* The lock of ExportJobs is free: nobody is between a manifest change and *)
(* the deletion of the job's files.                                        *)
Unlocked == cleaning = NoJob

(* The files of the active job are left to its worker and to the reaper.   *)
CleanUnlessActive(j) == cleaning' = IF active = j THEN NoJob ELSE j

CleanFiles ==
  /\ cleaning # NoJob
  /\ spool' = [spool EXCEPT ![cleaning] = "none"]
  /\ cleaning' = NoJob
  /\ UNCHANGED <<manifestVars, tickets, coordinatorVars, processVars, service, historyVars>>

Lapse(j) ==
  /\ status[j] # "absent" /\ j \notin lapsed
  /\ lapsed' = lapsed \cup {j}
  /\ UNCHANGED <<status, phase, spool, tickets, coordinatorVars, processVars,
                 cleaning, service, historyVars>>

-----------------------------------------------------------------------------
(* Requests.                                                               *)

UnfinishedOf(o) == {j \in Jobs : OwnerOf[j] = o /\ status[j] \in Unfinished}

(* A free record, or when there is none that of a terminal job.  An id is  *)
(* never drawn twice, so one that is still queued or ticketed is not free. *)
FreeRecord(j) ==
  /\ j \notin Queued
  /\ \/ status[j] = "absent" /\ j \notin tickets
     \/ status[j] \in Terminal /\ j # active /\ \A k \in Jobs : status[k] # "absent"

(* create expires the lapsed jobs before it does anything else.            *)
NothingToExpire ==
  \A k \in Jobs :
    k \in lapsed => status[k] = "expired" /\ (k = active \/ spool[k] = "none")

Create(j) ==
  /\ service = "up" /\ Unlocked
  /\ NothingToExpire
  /\ FreeRecord(j)
  /\ Pending < MaxPending
  /\ Cardinality(UnfinishedOf(OwnerOf[j])) < MaxPerOwner
  /\ status' = [status EXCEPT ![j] = "queued"]
  /\ phase' = [phase EXCEPT ![j] = "preview"]
  /\ lapsed' = lapsed \ {j}
  /\ spool' = [spool EXCEPT ![j] = "none"]
  /\ tickets' = tickets \ {j}
  /\ queue' = Append(queue, j)
  /\ dropped' = dropped \ {j} /\ torn' = torn \ {j}
  /\ UNCHANGED <<active, activePhase, processVars, cleaning, service, faults>>

(* Every request of the owner first expires a job past its time.           *)
Touch(j) ==
  /\ service = "up" /\ Unlocked
  /\ status[j] \notin {"absent", "expired"} /\ j \in lapsed
  /\ Mutate(j, "expired")
  /\ CleanUnlessActive(j)
  /\ UNCHANGED <<phase, lapsed, spool, tickets, coordinatorVars, processVars, service, historyVars>>

Confirm(j) ==
  /\ service = "up" /\ Unlocked
  /\ status[j] = "preview_ready" /\ j \notin lapsed
  /\ Pending < MaxPending
  /\ Mutate(j, "queued")
  /\ phase' = [phase EXCEPT ![j] = "render"]
  /\ queue' = Append(queue, j)
  /\ UNCHANGED <<lapsed, spool, tickets, active, activePhase, processVars,
                 cleaning, service, historyVars>>

Cancel(j) ==
  /\ service = "up" /\ Unlocked
  /\ status[j] # "absent"
  /\ Mutate(j, IF status[j] = "expired" \/ j \in lapsed THEN "expired" ELSE "canceled")
  /\ queue' = Without(j)
  /\ tickets' = tickets \ {j}
  /\ CleanUnlessActive(j)
  /\ UNCHANGED <<phase, lapsed, spool, active, activePhase, processVars, service, historyVars>>

IssueTicket(j) ==
  /\ service = "up" /\ Unlocked
  /\ status[j] = "ready" /\ j \notin lapsed /\ spool[j] = "artifact"
  /\ tickets' = tickets \cup {j}
  /\ UNCHANGED <<manifestVars, spool, coordinatorVars, processVars,
                 cleaning, service, historyVars>>

(* A ticket is gone once it is presented, whatever the request gets.       *)
ConsumeTicket(j) ==
  /\ service = "up" /\ Unlocked
  /\ j \in tickets
  /\ tickets' = tickets \ {j}
  /\ IF status[j] \notin {"absent", "expired"} /\ j \in lapsed
     THEN Mutate(j, "expired") /\ CleanUnlessActive(j)
     ELSE UNCHANGED <<status, cleaning>>
  /\ UNCHANGED <<phase, lapsed, spool, coordinatorVars, processVars, service, historyVars>>

-----------------------------------------------------------------------------
(* The coordinator thread.                                                 *)

Expire(j) ==
  /\ service = "up" /\ Unlocked
  /\ status[j] # "absent" /\ j \in lapsed
  /\ status[j] # "expired" \/ (spool[j] # "none" /\ active # j)
  /\ Mutate(j, "expired")
  /\ CleanUnlessActive(j)
  /\ UNCHANGED <<phase, lapsed, spool, tickets, coordinatorVars, processVars, service, historyVars>>

(* A day after it expired.                                                 *)
RemoveExpired(j) ==
  /\ service = "up" /\ Unlocked
  /\ status[j] = "expired" /\ j \in lapsed /\ active # j /\ spool[j] = "none"
  /\ status' = [status EXCEPT ![j] = "absent"]
  /\ phase' = [phase EXCEPT ![j] = "preview"]
  /\ lapsed' = lapsed \ {j}
  /\ dropped' = dropped \ {j} /\ torn' = torn \ {j}
  /\ UNCHANGED <<spool, tickets, coordinatorVars, processVars, cleaning, service, faults>>

(* Mutant: the phase and the queue are not looked at.                      *)
AnyUnfinished == status[active] \in {"running", "queued"}

(* The worker ended without a result for the phase it was started for; a   *)
(* job confirmed since then waits in the queue for its next phase.         *)
Interrupted ==
  /\ status[active] \in {"running", "queued"}
  /\ phase[active] = activePhase
  /\ active \notin Queued

Reap ==
  /\ service = "up" /\ Unlocked
  /\ worker \in {"done", "gone"}
  /\ IF Interrupted THEN Mutate(active, "failed") /\ cleaning' = active
     ELSE /\ cleaning' = IF status[active] \in Terminal THEN active ELSE NoJob
          /\ UNCHANGED status
  /\ active' = NoJob /\ worker' = "none"
  /\ UNCHANGED <<phase, lapsed, spool, tickets, queue, activePhase, verdict, service, historyVars>>

(* A job that is no longer queued is only taken off the queue.             *)
Launch ==
  /\ service = "up" /\ Unlocked
  /\ worker = "none" /\ queue # <<>>
  /\ queue' = Tail(queue)
  /\ LET j == Head(queue) IN
       IF status[j] = "queued"
       THEN /\ Mutate(j, "running")
            /\ active' = j /\ activePhase' = phase[j] /\ worker' = "started"
       ELSE UNCHANGED <<status, active, activePhase, worker>>
  /\ UNCHANGED <<phase, lapsed, spool, tickets, verdict, cleaning, service, historyVars>>

(* The process cannot be started.                                          *)
LaunchRefused ==
  /\ service = "up" /\ Unlocked
  /\ worker = "none" /\ queue # <<>> /\ status[Head(queue)] = "queued"
  /\ faults < MaxFaults
  /\ faults' = faults + 1
  /\ queue' = Tail(queue)
  /\ Mutate(Head(queue), "failed")
  /\ cleaning' = Head(queue)
  /\ UNCHANGED <<phase, lapsed, spool, tickets, active, activePhase, processVars,
                 service, dropped, torn>>

(* The manifest cannot be read or written: the loop goes on without the job.*)
LaunchRaises ==
  /\ service = "up" /\ Unlocked
  /\ worker = "none" /\ queue # <<>> /\ status[Head(queue)] = "queued"
  /\ faults < MaxFaults
  /\ faults' = faults + 1
  /\ queue' = Tail(queue)
  /\ dropped' = dropped \cup {Head(queue)}
  /\ UNCHANGED <<manifestVars, spool, tickets, active, activePhase, processVars,
                 cleaning, service, torn>>

-----------------------------------------------------------------------------
(* The worker process.                                                     *)

GuardHolds == status[active] \notin Terminal /\ active \notin lapsed

WorkerBegins ==
  /\ worker = "started" /\ GuardHolds
  /\ worker' = "working"
  /\ spool' = [spool EXCEPT ![active] = IF activePhase = "preview" THEN "freezing" ELSE "writing"]
  /\ UNCHANGED <<manifestVars, tickets, coordinatorVars, verdict, cleaning, service, historyVars>>

(* The file is complete and the guard has passed for the last time.        *)
WorkerFinishes ==
  /\ worker = "working" /\ GuardHolds
  /\ worker' = "finishing"
  /\ spool' = [spool EXCEPT ![active] = IF activePhase = "preview" THEN "source" ELSE "artifact"]
  /\ UNCHANGED <<manifestVars, tickets, coordinatorVars, verdict, cleaning, service, historyVars>>

WorkerCommits ==
  /\ worker = "finishing"
  /\ worker' = "done"
  /\ Mutate(active, IF activePhase = "preview" THEN "preview_ready" ELSE "ready")
  /\ UNCHANGED <<phase, lapsed, spool, tickets, coordinatorVars, verdict,
                 cleaning, service, historyVars>>

(* Any exception: the guard's, or one of the export itself.                *)
WorkerFails ==
  /\ worker \in {"started", "working", "finishing"}
  /\ worker' = "failing"
  /\ IF status[active] \in Terminal THEN verdict' = status[active]
     ELSE verdict' \in {"failed"} \cup (IF active \in lapsed THEN {"expired"} ELSE {})
  /\ UNCHANGED <<manifestVars, spool, tickets, coordinatorVars, cleaning, service, historyVars>>

WorkerReports ==
  /\ worker = "failing"
  /\ worker' = "cleaning"
  /\ Mutate(active, verdict)
  /\ verdict' = "failed"
  /\ UNCHANGED <<phase, lapsed, spool, tickets, coordinatorVars, cleaning, service, historyVars>>

WorkerCleans ==
  /\ worker = "cleaning"
  /\ worker' = "gone"
  /\ spool' = [spool EXCEPT ![active] = "none"]
  /\ UNCHANGED <<manifestVars, tickets, coordinatorVars, verdict, cleaning, service, historyVars>>

WorkerKilled ==
  /\ worker \in {"started", "working", "finishing", "failing", "cleaning"}
  /\ faults < MaxFaults
  /\ faults' = faults + 1
  /\ worker' = "gone" /\ verdict' = "failed"
  /\ UNCHANGED <<manifestVars, spool, tickets, coordinatorVars, cleaning, service, dropped, torn>>

-----------------------------------------------------------------------------
(* Stop, crash and start of the service.                                   *)

StopService ==
  /\ service = "up" /\ Unlocked
  /\ faults < MaxFaults
  /\ faults' = faults + 1
  /\ service' = "stopping"
  /\ worker' = "none" /\ verdict' = "failed"
  /\ UNCHANGED <<manifestVars, spool, tickets, coordinatorVars, cleaning, dropped, torn>>

(* stop() settles the jobs of the queue and the active one.                *)
SettleStopped(j) ==
  /\ service = "stopping" /\ Unlocked
  /\ j \in Queued \cup ({active} \ {NoJob})
  /\ IF status[j] \in {"queued", "running"}
     THEN Mutate(j, "failed") /\ cleaning' = j
     ELSE /\ cleaning' = IF status[j] \in Terminal THEN j ELSE NoJob
          /\ UNCHANGED status
  /\ queue' = Without(j)
  /\ active' = IF active = j THEN NoJob ELSE active
  /\ UNCHANGED <<phase, lapsed, spool, tickets, activePhase, processVars, service, historyVars>>

StopEnds ==
  /\ service = "stopping" /\ Unlocked
  /\ queue = <<>> /\ active = NoJob
  /\ service' = "down"
  /\ tickets' = {}
  /\ UNCHANGED <<manifestVars, spool, coordinatorVars, processVars, cleaning, historyVars>>

CrashService ==
  /\ service # "down"
  /\ faults < MaxFaults
  /\ faults' = faults + 1
  /\ service' = "down"
  /\ tickets' = {}
  /\ queue' = <<>> /\ active' = NoJob /\ activePhase' = "preview"
  /\ worker' = "none" /\ verdict' = "failed"
  /\ cleaning' = NoJob
  /\ torn' = torn \cup {j \in Jobs : status[j] \in Terminal /\ spool[j] # "none"}
  /\ UNCHANGED <<manifestVars, spool, dropped>>

StartService ==
  /\ service = "down"
  /\ service' = "starting"
  /\ UNCHANGED <<manifestVars, spool, tickets, coordinatorVars, processVars,
                 cleaning, historyVars>>

(* Mutant: only the jobs that ran are failed.                              *)
LeftRunning(j) == status[j] = "running"

LeftUnsettled(j) == status[j] \in {"running", "queued"}

(* start() fails every job the last process left unsettled.                *)
Recover(j) ==
  /\ service = "starting" /\ Unlocked
  /\ LeftUnsettled(j)
  /\ Mutate(j, "failed")
  /\ cleaning' = j
  /\ UNCHANGED <<phase, lapsed, spool, tickets, coordinatorVars, processVars, service, historyVars>>

StartEnds ==
  /\ service = "starting" /\ Unlocked
  /\ \A j \in Jobs : ~LeftUnsettled(j)
  /\ service' = "up"
  /\ UNCHANGED <<manifestVars, spool, tickets, coordinatorVars, processVars,
                 cleaning, historyVars>>

-----------------------------------------------------------------------------
Requests(j) ==
  Create(j) \/ Touch(j) \/ Confirm(j) \/ Cancel(j) \/ IssueTicket(j) \/ ConsumeTicket(j)

Worker ==
  \/ WorkerBegins \/ WorkerFinishes \/ WorkerCommits
  \/ WorkerFails \/ WorkerReports \/ WorkerCleans

ExportNext ==
  \/ \E j \in Jobs : \/ Lapse(j) \/ Requests(j) \/ Expire(j) \/ RemoveExpired(j)
                     \/ SettleStopped(j) \/ Recover(j)
  \/ CleanFiles \/ Reap \/ Launch \/ LaunchRefused \/ LaunchRaises
  \/ Worker \/ WorkerKilled
  \/ StopService \/ StopEnds \/ CrashService \/ StartService \/ StartEnds

ExportSpec == ExportInit /\ [][ExportNext]_exportVars

(* The coordinator loop, the worker and whoever holds the lock go on, and  *)
(* the service is started again; clients need do nothing, and no job need  *)
(* ever lapse.                                                             *)
ExportFairness ==
  /\ WF_exportVars(CleanFiles)
  /\ SF_exportVars(Reap)
  /\ SF_exportVars(Launch)
  /\ WF_exportVars(Worker)
  /\ WF_exportVars(\E j \in Jobs : Expire(j))
  /\ WF_exportVars(StartService)
  /\ WF_exportVars(StartEnds)
  /\ WF_exportVars(StopEnds)
  /\ WF_exportVars(\E j \in Jobs : SettleStopped(j) \/ Recover(j))

-----------------------------------------------------------------------------
(* Properties.                                                             *)

ExportTypeOK ==
  /\ status \in [Jobs -> {"absent", "queued", "running", "preview_ready", "ready"} \cup Terminal]
  /\ phase \in [Jobs -> {"preview", "render"}]
  /\ lapsed \subseteq Jobs
  /\ spool \in [Jobs -> {"none", "freezing", "source", "writing", "artifact"}]
  /\ tickets \subseteq Jobs
  /\ queue \in Seq(Jobs) /\ \A i, k \in 1..Len(queue) : queue[i] = queue[k] => i = k
  /\ active \in Jobs \cup {NoJob} /\ activePhase \in {"preview", "render"}
  /\ worker \in {"none", "started", "working", "finishing", "failing", "cleaning", "done", "gone"}
  /\ verdict \in Terminal
  /\ cleaning \in Jobs \cup {NoJob}
  /\ service \in {"up", "stopping", "down", "starting"}
  /\ dropped \subseteq Jobs /\ torn \subseteq Jobs /\ faults \in 0..MaxFaults

(* What a manifest promises is on the disk: the source from the preview on, *)
(* the artifact of a job that is ready.                                    *)
FilesMatch ==
  \A j \in Jobs :
    /\ status[j] = "ready" => spool[j] = "artifact"
    /\ status[j] = "preview_ready" => spool[j] = "source"
    /\ status[j] = "queued" /\ phase[j] = "render" => spool[j] = "source"
    /\ j \in tickets => status[j] \in {"ready", "expired", "absent"}

(* While the service is up, a job that waits is in the queue and a job that *)
(* runs has the worker, except one whose launch raised.                    *)
Attended ==
  service = "up" =>
    \A j \in Jobs \ dropped :
      /\ status[j] = "queued" => j \in Queued
      /\ status[j] = "running" => active = j

LimitsKept ==
  /\ Pending <= MaxPending
  /\ \A o \in Owners : Cardinality(UnfinishedOf(o)) <= MaxPerOwner

ExportInv == ExportTypeOK /\ FilesMatch /\ Attended /\ LimitsKept

(* A job is not failed behind its worker's back: while the service is up,  *)
(* the coordinator does not call it interrupted once its worker has stored *)
(* a result, even if the owner confirmed it before the worker was reaped.  *)
ResultNotInterrupted ==
  [][\A j \in Jobs :
       /\ service = "up" /\ active = j /\ worker = "done"
       /\ status[j] \notin Terminal
       => status'[j] # "failed"]_exportVars

(* Every job that waits or runs is settled in the end, unless its launch   *)
(* raised, and the files of a terminal job are deleted in the end, unless  *)
(* the service crashed over them: those wait for the job to lapse.         *)
ExportSettles ==
  \A j \in Jobs :
    /\ status[j] \in {"queued", "running"} ~>
         status[j] \notin {"queued", "running"} \/ j \in dropped
    /\ status[j] \in Terminal /\ spool[j] # "none" ~> spool[j] = "none" \/ j \in torn

=============================================================================
