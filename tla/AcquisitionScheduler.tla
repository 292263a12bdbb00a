------------------------ MODULE AcquisitionScheduler ------------------------
(***************************************************************************)
(* The adaptive acquisition scheduler of the Device Agent: one bus, its    *)
(* worker thread, and the request handlers that change the acquisition     *)
(* registry meanwhile (device-agent/adaptive_scheduler.py,                 *)
(* scheduler_metrics.py, registry_main.py, adaptive_main.py).              *)
(*                                                                         *)
(* Time advances by Tick.  Deadlines are relative to now: due[t] <= 0      *)
(* means that target t is due, cool[u] > 0 that unit u is in cooldown, and *)
(* Past stands for every moment MaxLag or more ago.                        *)
(***************************************************************************)
EXTENDS Integers

CONSTANTS
  Targets,            \* registry targets of the bus
  Units,              \* Modbus unit ids
  UnitOf,             \* the unit each target is read from
  Rank,               \* PRIORITY_RANK of each target
  Documents,          \* registry documents
  Cadence,            \* Cadence[d][t]: time between reads, 0: not eligible in d
  MaxCadence,         \* largest cadence of a document
  Handlers,           \* HTTP request threads that change the registry
  FailureThreshold, CooldownInitial, CooldownMax, HighBurst, LowBurst,
  MaxLag,             \* bound: moments further in the past are not told apart
  MaxDisturbances     \* bound: registry changes, restarts and dead workers

High == 0
Low == 2

Past == -MaxLag

ASSUME SchedulerAssumption ==
  /\ UnitOf \in [Targets -> Units]
  /\ Rank \in [Targets -> High..Low]
  /\ Documents \cap {"idle", "changed"} = {}
  /\ MaxCadence \in Nat \ {0}
  /\ Cadence \in [Documents -> [Targets -> 0..MaxCadence]]
  /\ FailureThreshold \in Nat \ {0}
  /\ CooldownInitial \in Nat \ {0}
  /\ CooldownMax \in Nat /\ CooldownInitial <= CooldownMax
  /\ HighBurst \in Nat \ {0} /\ LowBurst \in Nat \ {0}
  /\ MaxLag \in Nat /\ MaxDisturbances \in Nat

VARIABLES
  registry,       \* document the agent holds and has persisted
  handler,        \* each handler: "idle", "changed", or the document it will install
  overlapped,     \* history: the last changes were in progress at the same time
  interval,       \* _jobs: cadence of each target, 0 when it has no job
  due,            \* _jobs: next_deadline of each target
  stale,          \* history: that deadline was computed with an outdated cadence
  streak,         \* _endpoints: failure_streak of each unit
  backoff,        \* _endpoints: cooldown of its last trip, 0 when trip_count is 0
  cool,           \* _endpoints: cooldown_until of each unit
  highs, nonLow,  \* metrics: consecutive_high and consecutive_non_low
  step,           \* bus worker: "idle", "selected", "reading", "read" or "dead"
  target,         \* the target it selected last
  cadence,        \* interval_seconds of the job object it holds
  deadline,       \* next_deadline of that object when it was selected
  failed,         \* outcome of its read
  disturbances

registryVars == <<registry, handler, overlapped>>
jobVars == <<interval, due, stale>>
endpointVars == <<streak, backoff, cool>>
burstVars == <<highs, nonLow>>
workerVars == <<step, target, cadence, deadline, failed>>
acquisitionVars ==
  <<registryVars, jobVars, endpointVars, burstVars, workerVars, disturbances>>

Smaller(a, b) == IF a < b THEN a ELSE b
Larger(a, b) == IF a > b THEN a ELSE b

(* A first deadline lies within the target's own cadence: the spread of    *)
(* the start, or the rest of the cadence since the last attempt.           *)
FirstDeadline(d, t, delay) == Smaller(delay[t], Cadence[d][t])

AcquisitionInit ==
  /\ registry \in Documents
  /\ handler = [h \in Handlers |-> "idle"]
  /\ overlapped = FALSE
  /\ interval = Cadence[registry]
  /\ \E delay \in [Targets -> 1..MaxCadence] :
       due = [t \in Targets |-> FirstDeadline(registry, t, delay)]
  /\ stale = [t \in Targets |-> FALSE]
  /\ streak = [u \in Units |-> 0]
  /\ backoff = [u \in Units |-> 0]
  /\ cool = [u \in Units |-> Past]
  /\ highs = 0 /\ nonLow = 0
  /\ step = "idle"
  /\ target \in Targets
  /\ cadence = 0 /\ deadline = Past /\ failed = FALSE
  /\ disturbances = 0

-----------------------------------------------------------------------------
(* Selection.                                                              *)

(* Mutant: the cooldown of the unit is not looked at.                      *)
DeadlineOnly(t) == due[t]

Effective(t) == Larger(due[t], cool[UnitOf[t]])

DueTargets == {t \in Targets : interval[t] > 0 /\ Effective(t) <= 0}

(* The most urgent targets of S: by priority, then by deadline.  The job   *)
(* sequence that breaks a tie is left open.                                *)
Foremost(S) ==
  {t \in S : \A s \in S : \/ Rank[t] < Rank[s]
                          \/ Rank[t] = Rank[s] /\ Effective(t) <= Effective(s)}

(* Mutant: nothing makes a low target go first.                            *)
NeverForcedLow ==
  LET nonHigh == {t \in DueTargets : Rank[t] # High}
  IN  IF highs >= HighBurst /\ nonHigh # {} THEN Foremost(nonHigh) ELSE Foremost(DueTargets)

(* After LowBurst reads of higher priority a low target goes first, after  *)
(* HighBurst high ones a target that is not high.                          *)
Selectable ==
  LET low == {t \in DueTargets : Rank[t] = Low}
      nonHigh == {t \in DueTargets : Rank[t] # High}
  IN  IF nonLow >= LowBurst /\ low # {} THEN Foremost(low)
      ELSE IF highs >= HighBurst /\ nonHigh # {} THEN Foremost(nonHigh)
      ELSE Foremost(DueTargets)

SelectTarget ==
  /\ step = "idle"
  /\ \E t \in Selectable :
       /\ target' = t
       /\ cadence' = interval[t]
       /\ deadline' = due[t]
  /\ step' = "selected"
  /\ UNCHANGED <<failed, registryVars, jobVars, endpointVars, burstVars, disturbances>>

(* The worker takes the bus lock.                                          *)
StartRead ==
  /\ step = "selected"
  /\ step' = "reading"
  /\ UNCHANGED <<target, cadence, deadline, failed,
                 registryVars, jobVars, endpointVars, burstVars, disturbances>>

FinishRead ==
  /\ step = "reading"
  /\ step' = "read"
  /\ failed' \in BOOLEAN
  /\ UNCHANGED <<target, cadence, deadline,
                 registryVars, jobVars, endpointVars, burstVars, disturbances>>

-----------------------------------------------------------------------------
(* Completion.  The worker still holds the job object it selected; the     *)
(* jobs may have been replaced meanwhile.                                  *)

(* The variables of run_once end with it.                                  *)
DropJob == cadence' = 0 /\ deadline' = Past /\ failed' = FALSE

NextCooldown(u) ==
  IF backoff[u] = 0 THEN CooldownInitial ELSE Smaller(CooldownMax, 2 * backoff[u])

(* deadline + cadence, and further cadences until it lies in the future.   *)
NextDeadline ==
  IF deadline % cadence = 0 THEN cadence ELSE deadline % cadence

CountBurst ==
  /\ highs' = IF Rank[target] = High THEN Smaller(highs + 1, HighBurst) ELSE 0
  /\ nonLow' = IF Rank[target] # Low THEN Smaller(nonLow + 1, LowBurst) ELSE 0

(* The endpoint of the unit read: a failure counts, the FailureThreshold-th *)
(* one in a row starts a cooldown, a success forgets all of it.             *)
UpdateEndpoint(u) ==
  LET trip == failed /\ streak[u] + 1 >= FailureThreshold
  IN  /\ streak' = [streak EXCEPT ![u] = IF failed /\ ~trip THEN @ + 1 ELSE 0]
      /\ backoff' = [backoff EXCEPT ![u] = IF trip THEN NextCooldown(u)
                                           ELSE IF failed THEN @ ELSE 0]
      /\ cool' = [cool EXCEPT ![u] = IF trip THEN NextCooldown(u)
                                     ELSE IF failed THEN @ ELSE Past]

(* A cooldown defers every job of the unit; the target itself gets its next *)
(* deadline from the cadence of the job object.                             *)
Reschedule(u) ==
  /\ due' = [t \in Targets |->
               IF t = target THEN Larger(NextDeadline, cool'[u])
               ELSE IF interval[t] > 0 /\ UnitOf[t] = u THEN Larger(due[t], cool'[u])
               ELSE due[t]]
  /\ stale' = [stale EXCEPT ![target] = (cadence # interval[target])]

Complete ==
  /\ step = "read"
  /\ step' = "idle"
  /\ IF interval[target] = 0
     THEN UNCHANGED <<due, stale, endpointVars, burstVars>>
     ELSE /\ CountBurst
          /\ UpdateEndpoint(UnitOf[target])
          /\ Reschedule(UnitOf[target])
  /\ DropJob
  /\ UNCHANGED <<interval, target, registryVars, disturbances>>

-----------------------------------------------------------------------------
(* Supervision.  An exception that leaves run_once ends the worker thread;  *)
(* the supervisor loop starts another and drops the deadlines missed.       *)

WorkerDies ==
  /\ step = "read"
  /\ disturbances < MaxDisturbances
  /\ step' = "dead"
  /\ disturbances' = disturbances + 1
  /\ DropJob
  /\ UNCHANGED <<target, registryVars, jobVars, endpointVars, burstVars>>

(* The next multiple of the cadence after now.                             *)
Advanced(t) == IF due[t] % interval[t] = 0 THEN interval[t] ELSE due[t] % interval[t]

SuperviseWorkers ==
  /\ step = "dead"
  /\ \E t \in Targets : interval[t] > 0
  /\ step' = "idle"
  /\ due' = [t \in Targets |-> IF t \in DueTargets THEN Advanced(t) ELSE due[t]]
  /\ UNCHANGED <<interval, stale, target, cadence, deadline, failed,
                 registryVars, endpointVars, burstVars, disturbances>>

-----------------------------------------------------------------------------
(* Registry changes.  A handler changes the registry under its locks, takes *)
(* a snapshot of it after it has released them, and installs the snapshot.  *)

ChangeRegistry(h, d) ==
  /\ handler[h] = "idle"
  /\ disturbances < MaxDisturbances
  /\ registry' = d
  /\ handler' = [handler EXCEPT ![h] = "changed"]
  /\ overlapped' = (\E g \in Handlers : handler[g] # "idle")
  /\ disturbances' = disturbances + 1
  /\ UNCHANGED <<jobVars, endpointVars, burstVars, workerVars>>

(* update_registry and update_cadence hold the bus lock, so no read is in  *)
(* progress.                                                               *)
UpdateRegistry ==
  \E h \in Handlers, d \in Documents \ {registry} :
    /\ step # "reading"
    /\ ChangeRegistry(h, d)

(* Discovery has released the bus lock when it enrolls what it found.      *)
EnrollDiscovered ==
  \E h \in Handlers, d \in Documents \ {registry} :
    /\ \A t \in Targets : Cadence[registry][t] \in {0, Cadence[d][t]}
    /\ ChangeRegistry(h, d)

TakeSnapshot ==
  \E h \in Handlers :
    /\ handler[h] = "changed"
    /\ handler' = [handler EXCEPT ![h] = registry]
    /\ UNCHANGED <<registry, overlapped, jobVars, endpointVars, burstVars,
                   workerVars, disturbances>>

(* What the scheduler makes of document d.  The jobs of "kept" keep their   *)
(* deadline, units that still have a job keep their endpoint.              *)
InstallKeeping(d, delay, kept) ==
  LET units == {UnitOf[t] : t \in {s \in Targets : Cadence[d][s] > 0}}
  IN  /\ interval' = Cadence[d]
      /\ due' = [t \in Targets |-> IF t \in kept THEN due[t] ELSE FirstDeadline(d, t, delay)]
      /\ stale' = [t \in Targets |-> t \in kept /\ stale[t]]
      /\ streak' = [u \in Units |-> IF u \in units THEN streak[u] ELSE 0]
      /\ backoff' = [u \in Units |-> IF u \in units THEN backoff[u] ELSE 0]
      /\ cool' = [u \in Units |-> IF u \in units THEN cool[u] ELSE Past]

(* Mutant: a job keeps its deadline when its cadence changes.              *)
InstallAnyJob(d, delay) ==
  InstallKeeping(d, delay, {t \in Targets : interval[t] > 0 /\ Cadence[d][t] > 0})

(* A changed cadence gives a new deadline.                                 *)
Install(d, delay) ==
  InstallKeeping(d, delay, {t \in Targets : interval[t] > 0 /\ Cadence[d][t] = interval[t]})

Reconcile ==
  /\ \E h \in Handlers :
       /\ handler[h] \in Documents
       /\ \E delay \in [Targets -> 1..MaxCadence] : Install(handler[h], delay)
       /\ handler' = [handler EXCEPT ![h] = "idle"]
  /\ UNCHANGED <<registry, overlapped, burstVars, workerVars, disturbances>>

-----------------------------------------------------------------------------
(* The agent process is restarted: only the registry survives.             *)
RestartAgent ==
  /\ disturbances < MaxDisturbances
  /\ disturbances' = disturbances + 1
  /\ handler' = [h \in Handlers |-> "idle"]
  /\ overlapped' = FALSE
  /\ interval' = Cadence[registry]
  /\ \E delay \in [Targets -> 1..MaxCadence] :
       due' = [t \in Targets |-> FirstDeadline(registry, t, delay)]
  /\ stale' = [t \in Targets |-> FALSE]
  /\ streak' = [u \in Units |-> 0]
  /\ backoff' = [u \in Units |-> 0]
  /\ cool' = [u \in Units |-> Past]
  /\ highs' = 0 /\ nonLow' = 0
  /\ step' = "idle"
  /\ DropJob
  /\ UNCHANGED <<registry, target>>

Tick ==
  /\ due' = [t \in Targets |-> IF interval[t] = 0 THEN due[t] ELSE Larger(due[t] - 1, Past)]
  /\ cool' = [u \in Units |-> Larger(cool[u] - 1, Past)]
  /\ deadline' = Larger(deadline - 1, Past)
  /\ UNCHANGED <<interval, stale, streak, backoff, step, target, cadence, failed,
                 registryVars, burstVars, disturbances>>

AcquisitionNext ==
  \/ SelectTarget \/ StartRead \/ FinishRead \/ Complete
  \/ WorkerDies \/ SuperviseWorkers
  \/ UpdateRegistry \/ EnrollDiscovered \/ TakeSnapshot \/ Reconcile
  \/ RestartAgent \/ Tick

AcquisitionSpec == AcquisitionInit /\ [][AcquisitionNext]_acquisitionVars

(* The worker thread, the supervisor loop and the clock go on.             *)
AcquisitionFairness ==
  /\ WF_acquisitionVars(SelectTarget)
  /\ WF_acquisitionVars(StartRead)
  /\ WF_acquisitionVars(FinishRead)
  /\ WF_acquisitionVars(Complete)
  /\ WF_acquisitionVars(SuperviseWorkers)
  /\ WF_acquisitionVars(Tick)

-----------------------------------------------------------------------------
(* Properties.                                                             *)

AcquisitionTypeOK ==
  /\ registry \in Documents
  /\ handler \in [Handlers -> Documents \cup {"idle", "changed"}]
  /\ overlapped \in BOOLEAN
  /\ interval \in [Targets -> 0..MaxCadence]
  /\ due \in [Targets -> Past..Larger(MaxCadence, CooldownMax)]
  /\ stale \in [Targets -> BOOLEAN]
  /\ streak \in [Units -> 0..(FailureThreshold - 1)]
  /\ backoff \in [Units -> 0..CooldownMax]
  /\ cool \in [Units -> Past..CooldownMax]
  /\ highs \in 0..HighBurst /\ nonLow \in 0..LowBurst
  /\ step \in {"idle", "selected", "reading", "read", "dead"}
  /\ target \in Targets /\ cadence \in 0..MaxCadence
  /\ deadline \in Past..0 /\ failed \in BOOLEAN
  /\ disturbances \in 0..MaxDisturbances

(* Only a unit that tripped is in cooldown, and a unit in cooldown is left *)
(* alone: from the selection of a target to its completion its unit is in  *)
(* none, whatever the registry handlers install and the supervisor          *)
(* restarts meanwhile (_effective_deadline, _complete).                    *)
UnitRests ==
  /\ \A u \in Units : cool[u] > 0 => backoff[u] >= cool[u]
  /\ step \in {"selected", "reading", "read"} => cool[UnitOf[target]] <= 0 /\ cadence > 0

SchedulerInv == AcquisitionTypeOK /\ UnitRests

(* Once the handlers are done the scheduler runs every target at the       *)
(* cadence of the persisted registry, unless two of them overlapped: each  *)
(* takes its snapshot outside the locks, and the older one may be installed *)
(* last (adaptive_main.update_registry, update_cadence).  No target waits  *)
(* longer than its cadence or its unit's cooldown, unless its last deadline *)
(* was computed with the cadence of a job replaced while it was being read *)
(* (_complete).                                                            *)
CadenceKept ==
  \A t \in Targets :
    /\ (\A h \in Handlers : handler[h] = "idle") /\ ~overlapped
         => interval[t] = Cadence[registry][t]
    /\ interval[t] > 0 /\ ~stale[t] => due[t] <= Larger(interval[t], cool[UnitOf[t]])

(* A target that stays eligible is attempted again and again, whatever the *)
(* priority of the others, failing reads, cooldowns, registry changes and  *)
(* dead workers do (_select, supervise_workers).                           *)
EveryTargetAttempted ==
  \A t \in Targets :
    <>[](interval[t] > 0) => []<>(step = "reading" /\ target = t)

=============================================================================
