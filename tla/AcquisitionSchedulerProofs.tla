--------------------- MODULE AcquisitionSchedulerProofs ---------------------
(***************************************************************************)
(* Proofs about AcquisitionScheduler, for any bus, registry documents,     *)
(* handlers and policy.                                                    *)
(*                                                                         *)
(* SchedulerInv and CadenceKept are inductive together but for one fact:   *)
(* unless two changes overlapped, at most one handler has something to     *)
(* install, and its snapshot is the registry (OneChange).  They need each  *)
(* other: a successful read takes the cooldown of its unit away, and the   *)
(* targets that cooldown deferred still keep their cadence because the unit *)
(* of a target being read was not in cooldown.                             *)
(***************************************************************************)
EXTENDS AcquisitionScheduler, TLAPS

OneChange ==
  ~overlapped =>
    \/ /\ \A h \in Handlers : handler[h] = "idle"
       /\ interval = Cadence[registry]
    \/ \E h \in Handlers : /\ handler[h] \in {"changed", registry}
                           /\ \A g \in Handlers \ {h} : handler[g] = "idle"

(* The second half of CadenceKept.                                         *)
WaitsAtMost(t) == interval[t] > 0 /\ ~stale[t] => due[t] <= Larger(interval[t], cool[UnitOf[t]])

CadenceWaits == \A t \in Targets : WaitsAtMost(t)

SchedulerIInv == AcquisitionTypeOK /\ UnitRests /\ OneChange /\ CadenceWaits

-----------------------------------------------------------------------------
(* Arithmetic.                                                             *)

LEMMA PastIsPast == Past \in Int /\ Past <= 0
  BY SchedulerAssumption DEF Past

LEMMA RestOfCadence ==
  ASSUME NEW n \in Int, NEW k \in Nat \ {0}
  PROVE  n % k \in 0..(k - 1)
  OBVIOUS

LEMMA IdleJobTypes == 0 \in 0..MaxCadence /\ Past \in Past..0
<1>1. 0 \in 0..MaxCadence
  BY SchedulerAssumption
<1>2. Past \in Past..0
  BY PastIsPast
<1>3. QED
  BY <1>1, <1>2

LEMMA FirstDeadlineRange ==
  ASSUME NEW d \in Documents, NEW t \in Targets, NEW delay \in [Targets -> 1..MaxCadence]
  PROVE  FirstDeadline(d, t, delay) \in 0..Cadence[d][t] /\ Cadence[d][t] \in 0..MaxCadence
<1>1. Cadence[d][t] \in 0..MaxCadence /\ MaxCadence \in Nat /\ delay[t] \in 1..MaxCadence
  BY SchedulerAssumption
<1>2. QED
  BY <1>1 DEF FirstDeadline, Smaller

LEMMA NextCooldownRange ==
  ASSUME AcquisitionTypeOK, NEW u \in Units
  PROVE  NextCooldown(u) \in 1..CooldownMax
<1>1. backoff[u] \in 0..CooldownMax
  BY DEF AcquisitionTypeOK
<1>2. QED
  BY <1>1, SchedulerAssumption DEF NextCooldown, Smaller

LEMMA NextDeadlineRange ==
  ASSUME AcquisitionTypeOK, cadence > 0
  PROVE  NextDeadline \in 1..cadence
<1>1. cadence \in Nat \ {0} /\ deadline \in Int
  BY PastIsPast, SchedulerAssumption DEF AcquisitionTypeOK
<1>2. deadline % cadence \in 0..(cadence - 1)
  BY <1>1, RestOfCadence
<1>3. QED
  BY <1>1, <1>2 DEF NextDeadline

-----------------------------------------------------------------------------
(* The three steps that install a registry document give every job a       *)
(* deadline within its cadence, and no unit a longer cooldown.             *)

LEMMA InstallTypes ==
  ASSUME AcquisitionTypeOK, NEW d \in Documents, NEW delay \in [Targets -> 1..MaxCadence],
         Install(d, delay)
  PROVE  /\ interval' = Cadence[d]
         /\ interval' \in [Targets -> 0..MaxCadence]
         /\ due' \in [Targets -> Past..Larger(MaxCadence, CooldownMax)]
         /\ stale' \in [Targets -> BOOLEAN]
         /\ streak' \in [Units -> 0..(FailureThreshold - 1)]
         /\ backoff' \in [Units -> 0..CooldownMax]
         /\ cool' \in [Units -> Past..CooldownMax]
<1> DEFINE kept == {t \in Targets : interval[t] > 0 /\ Cadence[d][t] = interval[t]}
           units == {UnitOf[t] : t \in {s \in Targets : Cadence[d][s] > 0}}
<1>1. /\ interval' = Cadence[d]
      /\ due' = [t \in Targets |-> IF t \in kept THEN due[t] ELSE FirstDeadline(d, t, delay)]
      /\ stale' = [t \in Targets |-> t \in kept /\ stale[t]]
      /\ streak' = [u \in Units |-> IF u \in units THEN streak[u] ELSE 0]
      /\ backoff' = [u \in Units |-> IF u \in units THEN backoff[u] ELSE 0]
      /\ cool' = [u \in Units |-> IF u \in units THEN cool[u] ELSE Past]
  BY DEF Install, InstallKeeping
<1> HIDE DEF kept, units
<1>2. interval' \in [Targets -> 0..MaxCadence]
  BY <1>1, SchedulerAssumption
<1>3. ASSUME NEW t \in Targets
      PROVE  (IF t \in kept THEN due[t] ELSE FirstDeadline(d, t, delay))
               \in Past..Larger(MaxCadence, CooldownMax)
  <2>1. FirstDeadline(d, t, delay) \in 0..Cadence[d][t] /\ Cadence[d][t] \in 0..MaxCadence
    BY FirstDeadlineRange
  <2>2. due[t] \in Past..Larger(MaxCadence, CooldownMax)
    BY DEF AcquisitionTypeOK
  <2>3. QED
    BY <2>1, <2>2, PastIsPast, SchedulerAssumption DEF Larger
<1>4. due' \in [Targets -> Past..Larger(MaxCadence, CooldownMax)]
  BY <1>1, <1>3
<1>5. stale' \in [Targets -> BOOLEAN]
  BY <1>1
<1>6. streak' \in [Units -> 0..(FailureThreshold - 1)]
  BY <1>1, SchedulerAssumption DEF AcquisitionTypeOK
<1>7. backoff' \in [Units -> 0..CooldownMax]
  BY <1>1, SchedulerAssumption DEF AcquisitionTypeOK
<1>8. cool' \in [Units -> Past..CooldownMax]
  BY <1>1, PastIsPast, SchedulerAssumption DEF AcquisitionTypeOK
<1>9. QED
  BY <1>1, <1>2, <1>4, <1>5, <1>6, <1>7, <1>8

LEMMA InstallWaits ==
  ASSUME AcquisitionTypeOK, CadenceWaits, NEW d \in Documents,
         NEW delay \in [Targets -> 1..MaxCadence], Install(d, delay)
  PROVE  CadenceWaits'
<1> SUFFICES ASSUME NEW t \in Targets PROVE WaitsAtMost(t)'
  BY DEF CadenceWaits
<1> SUFFICES ASSUME interval'[t] > 0, ~stale'[t]
             PROVE  due'[t] <= Larger(interval'[t], cool'[UnitOf[t]])
  BY DEF WaitsAtMost
<1>1. UnitOf[t] \in Units
  BY SchedulerAssumption
<1>2. interval'[t] \in Nat /\ cool'[UnitOf[t]] \in Int
  BY <1>1, InstallTypes, PastIsPast, SchedulerAssumption
<1>3. interval' = Cadence[d]
  BY InstallTypes
<1>4. CASE interval[t] > 0 /\ Cadence[d][t] = interval[t]
  <2>1. due'[t] = due[t] /\ (stale'[t] <=> stale[t])
    BY <1>4 DEF Install, InstallKeeping
  <2>2. cool'[UnitOf[t]] = cool[UnitOf[t]]
    BY <1>1, <1>4 DEF Install, InstallKeeping
  <2>3. WaitsAtMost(t)
    BY DEF CadenceWaits
  <2>4. QED
    BY <1>3, <1>4, <2>1, <2>2, <2>3 DEF WaitsAtMost
<1>5. CASE ~(interval[t] > 0 /\ Cadence[d][t] = interval[t])
  <2>1. due'[t] = FirstDeadline(d, t, delay)
    BY <1>5 DEF Install, InstallKeeping
  <2>2. due'[t] \in 0..Cadence[d][t]
    BY <2>1, FirstDeadlineRange
  <2>3. QED
    BY <1>2, <1>3, <2>2 DEF Larger
<1>6. QED
  BY <1>4, <1>5

(* A new plan: the start of the agent.                                     *)
LEMMA PlanTypes ==
  ASSUME NEW d \in Documents, NEW delay \in [Targets -> 1..MaxCadence]
  PROVE  [t \in Targets |-> FirstDeadline(d, t, delay)]
           \in [Targets -> Past..Larger(MaxCadence, CooldownMax)]
<1>1. ASSUME NEW t \in Targets
      PROVE  FirstDeadline(d, t, delay) \in Past..Larger(MaxCadence, CooldownMax)
  <2>1. FirstDeadline(d, t, delay) \in 0..Cadence[d][t] /\ Cadence[d][t] \in 0..MaxCadence
    BY FirstDeadlineRange
  <2>2. QED
    BY <2>1, PastIsPast, SchedulerAssumption DEF Larger
<1>2. QED
  BY <1>1

LEMMA PlanWaits ==
  ASSUME NEW d \in Documents, NEW delay \in [Targets -> 1..MaxCadence],
         NEW t \in Targets, NEW c \in Int
  PROVE  FirstDeadline(d, t, delay) <= Larger(Cadence[d][t], c)
BY FirstDeadlineRange, SchedulerAssumption DEF Larger

-----------------------------------------------------------------------------
(* The start of the agent spreads the first reads within the cadences of   *)
(* the registry, with every unit free.                                     *)
THEOREM SchedulerInitial == AcquisitionInit => SchedulerIInv
<1> SUFFICES ASSUME AcquisitionInit PROVE SchedulerIInv
  OBVIOUS
<1>1. registry \in Documents /\ interval = Cadence[registry]
  BY DEF AcquisitionInit
<1>2. PICK delay \in [Targets -> 1..MaxCadence] :
        due = [t \in Targets |-> FirstDeadline(registry, t, delay)]
  BY DEF AcquisitionInit
<1>3. interval \in [Targets -> 0..MaxCadence]
  BY <1>1, SchedulerAssumption
<1>4. due \in [Targets -> Past..Larger(MaxCadence, CooldownMax)]
  BY <1>1, <1>2, PlanTypes
<1>5. cool \in [Units -> Past..CooldownMax] /\ \A u \in Units : cool[u] = Past
  BY PastIsPast, SchedulerAssumption DEF AcquisitionInit
<1>6. AcquisitionTypeOK
  <2>1. cadence \in 0..MaxCadence /\ deadline \in Past..0
    BY IdleJobTypes DEF AcquisitionInit
  <2>2. streak \in [Units -> 0..(FailureThreshold - 1)] /\ backoff \in [Units -> 0..CooldownMax]
    BY SchedulerAssumption DEF AcquisitionInit
  <2>3. highs \in 0..HighBurst /\ nonLow \in 0..LowBurst /\ disturbances \in 0..MaxDisturbances
    BY SchedulerAssumption DEF AcquisitionInit
  <2>4. QED
    BY <1>1, <1>3, <1>4, <1>5, <2>1, <2>2, <2>3 DEF AcquisitionInit, AcquisitionTypeOK
<1>7. UnitRests
  BY <1>5, PastIsPast DEF AcquisitionInit, UnitRests
<1>8. OneChange
  BY <1>1 DEF AcquisitionInit, OneChange
<1>9. CadenceWaits
  BY <1>1, <1>2, <1>5, PlanWaits, PastIsPast, SchedulerAssumption
     DEF CadenceWaits, WaitsAtMost
<1>10. QED
  BY <1>6, <1>7, <1>8, <1>9 DEF SchedulerIInv

-----------------------------------------------------------------------------
(* The inductive invariant is kept by every step.                          *)

LEMMA JobsUntouched ==
  ASSUME CadenceWaits, UNCHANGED <<jobVars, cool>>
  PROVE  CadenceWaits'
BY DEF CadenceWaits, WaitsAtMost, jobVars

LEMMA RegistryUntouched ==
  ASSUME OneChange, UNCHANGED <<registryVars, interval>>
  PROVE  OneChange'
BY DEF OneChange, registryVars

LEMMA SelectTargetKeeps ==
  ASSUME SchedulerIInv, SelectTarget
  PROVE  SchedulerIInv'
<1> USE DEF SchedulerIInv
<1>1. PICK t \in DueTargets : target' = t /\ cadence' = interval[t] /\ deadline' = due[t]
  BY DEF SelectTarget, Selectable, Foremost
<1>2. t \in Targets /\ interval[t] > 0 /\ UnitOf[t] \in Units
  BY SchedulerAssumption DEF DueTargets
<1>3. due[t] <= 0 /\ cool[UnitOf[t]] <= 0
  <2>1. due[t] \in Int /\ cool[UnitOf[t]] \in Int
    BY <1>2, PastIsPast, SchedulerAssumption DEF AcquisitionTypeOK, Larger
  <2>2. QED
    BY <2>1 DEF DueTargets, Effective, Larger
<1>4. deadline' \in Past..0 /\ cadence' \in 0..MaxCadence
  BY <1>1, <1>2, <1>3 DEF AcquisitionTypeOK
<1>5. AcquisitionTypeOK'
  BY <1>1, <1>2, <1>4 DEF SelectTarget, AcquisitionTypeOK, registryVars, jobVars, endpointVars, burstVars
<1>6. UnitRests'
  BY <1>1, <1>2, <1>3 DEF SelectTarget, UnitRests, endpointVars
<1>7. CadenceWaits' /\ OneChange'
  BY JobsUntouched, RegistryUntouched DEF SelectTarget, jobVars, endpointVars
<1>8. QED
  BY <1>5, <1>6, <1>7

LEMMA ReadKeeps ==
  ASSUME SchedulerIInv, StartRead \/ FinishRead
  PROVE  SchedulerIInv'
<1> USE DEF SchedulerIInv
<1>1. AcquisitionTypeOK'
  BY DEF StartRead, FinishRead, AcquisitionTypeOK, registryVars, jobVars, endpointVars, burstVars
<1>2. UnitRests'
  BY DEF StartRead, FinishRead, UnitRests, endpointVars
<1>3. CadenceWaits' /\ OneChange'
  BY JobsUntouched, RegistryUntouched DEF StartRead, FinishRead, jobVars, endpointVars
<1>4. QED
  BY <1>1, <1>2, <1>3

LEMMA WorkerDiesKeeps ==
  ASSUME SchedulerIInv, WorkerDies
  PROVE  SchedulerIInv'
<1> USE DEF SchedulerIInv
<1>1. AcquisitionTypeOK'
  <2>1. cadence' \in 0..MaxCadence /\ deadline' \in Past..0 /\ failed' \in BOOLEAN
    BY IdleJobTypes DEF WorkerDies, DropJob
  <2>2. disturbances' \in 0..MaxDisturbances
    BY SchedulerAssumption DEF WorkerDies, AcquisitionTypeOK
  <2>3. QED
    BY <2>1, <2>2 DEF WorkerDies, AcquisitionTypeOK, registryVars, jobVars, endpointVars, burstVars
<1>2. UnitRests'
  BY DEF WorkerDies, UnitRests, endpointVars
<1>3. CadenceWaits' /\ OneChange'
  BY JobsUntouched, RegistryUntouched DEF WorkerDies, jobVars, endpointVars
<1>4. QED
  BY <1>1, <1>2, <1>3

LEMMA SuperviseKeeps ==
  ASSUME SchedulerIInv, SuperviseWorkers
  PROVE  SchedulerIInv'
<1> USE DEF SchedulerIInv
<1>1. ASSUME NEW t \in DueTargets PROVE Advanced(t) \in 1..interval[t]
  <2>1. interval[t] \in Nat \ {0} /\ due[t] \in Int
    BY PastIsPast, SchedulerAssumption DEF DueTargets, AcquisitionTypeOK, Larger
  <2>2. due[t] % interval[t] \in 0..(interval[t] - 1)
    BY <2>1, RestOfCadence
  <2>3. QED
    BY <2>1, <2>2 DEF Advanced
<1>2. ASSUME NEW t \in Targets
      PROVE  /\ due'[t] \in Past..Larger(MaxCadence, CooldownMax)
             /\ WaitsAtMost(t)'
  <2>1. /\ interval[t] \in 0..MaxCadence
        /\ due[t] \in Past..Larger(MaxCadence, CooldownMax)
        /\ cool[UnitOf[t]] \in Past..CooldownMax
    BY SchedulerAssumption DEF AcquisitionTypeOK
  <2>2. interval' = interval /\ stale' = stale /\ cool' = cool
    BY DEF SuperviseWorkers, endpointVars
  <2>3. CASE t \in DueTargets
    <3>1. due'[t] \in 1..interval[t]
      BY <1>1, <2>3 DEF SuperviseWorkers
    <3>2. QED
      BY <2>1, <2>2, <3>1, PastIsPast, SchedulerAssumption DEF WaitsAtMost, Larger
  <2>4. CASE t \notin DueTargets
    <3>1. due'[t] = due[t]
      BY <2>4 DEF SuperviseWorkers
    <3>2. QED
      BY <2>1, <2>2, <3>1 DEF WaitsAtMost, CadenceWaits
  <2>5. QED
    BY <2>3, <2>4
<1>3. due' \in [Targets -> Past..Larger(MaxCadence, CooldownMax)]
  BY <1>2 DEF SuperviseWorkers
<1>4. AcquisitionTypeOK'
  BY <1>3 DEF SuperviseWorkers, AcquisitionTypeOK, registryVars, endpointVars, burstVars
<1>5. UnitRests'
  BY DEF SuperviseWorkers, UnitRests, endpointVars
<1>6. OneChange'
  BY RegistryUntouched DEF SuperviseWorkers
<1>7. CadenceWaits'
  BY <1>2 DEF CadenceWaits
<1>8. QED
  BY <1>4, <1>5, <1>6, <1>7

LEMMA ChangeKeeps ==
  ASSUME SchedulerIInv, NEW h \in Handlers, NEW d \in Documents, ChangeRegistry(h, d)
  PROVE  SchedulerIInv'
<1> USE DEF SchedulerIInv
<1>1. AcquisitionTypeOK'
  BY SchedulerAssumption
     DEF ChangeRegistry, AcquisitionTypeOK, jobVars, endpointVars, burstVars, workerVars
<1>2. UnitRests'
  BY DEF ChangeRegistry, UnitRests, endpointVars, workerVars
<1>3. CadenceWaits'
  BY JobsUntouched DEF ChangeRegistry, jobVars, endpointVars
<1>4. OneChange'
  BY DEF ChangeRegistry, OneChange, AcquisitionTypeOK
<1>5. QED
  BY <1>1, <1>2, <1>3, <1>4

LEMMA TakeSnapshotKeeps ==
  ASSUME SchedulerIInv, TakeSnapshot
  PROVE  SchedulerIInv'
<1> USE DEF SchedulerIInv
<1>1. AcquisitionTypeOK'
  BY DEF TakeSnapshot, AcquisitionTypeOK, jobVars, endpointVars, burstVars, workerVars
<1>2. UnitRests'
  BY DEF TakeSnapshot, UnitRests, endpointVars, workerVars
<1>3. CadenceWaits'
  BY JobsUntouched DEF TakeSnapshot, jobVars, endpointVars
<1>4. OneChange'
  BY DEF TakeSnapshot, OneChange, AcquisitionTypeOK, jobVars
<1>5. QED
  BY <1>1, <1>2, <1>3, <1>4

LEMMA ReconcileKeeps ==
  ASSUME SchedulerIInv, Reconcile
  PROVE  SchedulerIInv'
<1> USE DEF SchedulerIInv
<1>1. PICK h \in Handlers :
        /\ handler[h] \in Documents
        /\ \E delay \in [Targets -> 1..MaxCadence] : Install(handler[h], delay)
        /\ handler' = [handler EXCEPT ![h] = "idle"]
  BY DEF Reconcile
<1>2. PICK delay \in [Targets -> 1..MaxCadence] : Install(handler[h], delay)
  BY <1>1
<1>3. AcquisitionTypeOK'
  <2>1. /\ interval' \in [Targets -> 0..MaxCadence]
        /\ due' \in [Targets -> Past..Larger(MaxCadence, CooldownMax)]
        /\ stale' \in [Targets -> BOOLEAN]
        /\ streak' \in [Units -> 0..(FailureThreshold - 1)]
        /\ backoff' \in [Units -> 0..CooldownMax]
        /\ cool' \in [Units -> Past..CooldownMax]
    BY <1>1, <1>2, InstallTypes
  <2>2. QED
    BY <1>1, <2>1 DEF Reconcile, AcquisitionTypeOK, burstVars, workerVars
<1>4. UnitRests'
  <2>1. ASSUME NEW u \in Units
        PROVE  \/ cool'[u] = cool[u] /\ backoff'[u] = backoff[u]
               \/ cool'[u] = Past
    BY <1>2 DEF Install, InstallKeeping
  <2>2. \A u \in Units : cool[u] \in Int
    BY PastIsPast, SchedulerAssumption DEF AcquisitionTypeOK
  <2>3. ASSUME NEW u \in Units, cool'[u] > 0 PROVE backoff'[u] >= cool'[u]
    BY <2>1, <2>2, <2>3, PastIsPast DEF UnitRests
  <2>4. UnitOf[target] \in Units
    BY SchedulerAssumption DEF AcquisitionTypeOK
  <2>5. cool[UnitOf[target]] <= 0 => cool'[UnitOf[target]] <= 0
    BY <2>1, <2>4, PastIsPast
  <2>6. UNCHANGED workerVars
    BY DEF Reconcile
  <2>7. QED
    BY <2>3, <2>5, <2>6 DEF UnitRests, workerVars
<1>5. CadenceWaits'
  BY <1>1, <1>2, InstallWaits
<1>6. OneChange'
  <2> SUFFICES ASSUME ~overlapped
               PROVE  (\A g \in Handlers : handler'[g] = "idle") /\ interval' = Cadence[registry]
    BY DEF OneChange, Reconcile
  <2>1. handler[h] \notin {"idle", "changed"}
    BY <1>1, SchedulerAssumption
  <2>2. handler[h] = registry /\ \A g \in Handlers \ {h} : handler[g] = "idle"
    BY <2>1 DEF OneChange
  <2>3. \A g \in Handlers : handler'[g] = "idle"
    BY <1>1, <2>2 DEF AcquisitionTypeOK
  <2>4. interval' = Cadence[registry]
    BY <1>1, <1>2, <2>2, InstallTypes
  <2>5. QED
    BY <2>3, <2>4
<1>7. QED
  BY <1>3, <1>4, <1>5, <1>6

LEMMA RestartKeeps ==
  ASSUME SchedulerIInv, RestartAgent
  PROVE  SchedulerIInv'
<1> USE DEF SchedulerIInv
<1>1. registry' = registry /\ registry \in Documents /\ interval' = Cadence[registry]
  BY DEF RestartAgent, AcquisitionTypeOK
<1>2. PICK delay \in [Targets -> 1..MaxCadence] :
        due' = [t \in Targets |-> FirstDeadline(registry, t, delay)]
  BY DEF RestartAgent
<1>3. interval' \in [Targets -> 0..MaxCadence]
  BY <1>1, SchedulerAssumption
<1>4. due' \in [Targets -> Past..Larger(MaxCadence, CooldownMax)]
  BY <1>1, <1>2, PlanTypes
<1>5. cool' \in [Units -> Past..CooldownMax] /\ \A u \in Units : cool'[u] = Past
  BY PastIsPast, SchedulerAssumption DEF RestartAgent
<1>6. AcquisitionTypeOK'
  <2>1. cadence' \in 0..MaxCadence /\ deadline' \in Past..0 /\ failed' \in BOOLEAN
    BY IdleJobTypes DEF RestartAgent, DropJob
  <2>2. streak' \in [Units -> 0..(FailureThreshold - 1)] /\ backoff' \in [Units -> 0..CooldownMax]
    BY SchedulerAssumption DEF RestartAgent
  <2>3. highs' \in 0..HighBurst /\ nonLow' \in 0..LowBurst
    BY SchedulerAssumption DEF RestartAgent
  <2>4. disturbances' \in 0..MaxDisturbances
    BY SchedulerAssumption DEF RestartAgent, AcquisitionTypeOK
  <2>5. QED
    BY <1>1, <1>3, <1>4, <1>5, <2>1, <2>2, <2>3, <2>4 DEF RestartAgent, AcquisitionTypeOK
<1>7. UnitRests'
  BY <1>5, PastIsPast DEF RestartAgent, UnitRests
<1>8. OneChange'
  BY <1>1 DEF RestartAgent, OneChange
<1>9. CadenceWaits'
  BY <1>1, <1>2, <1>5, PlanWaits, PastIsPast, SchedulerAssumption
     DEF CadenceWaits, WaitsAtMost
<1>10. QED
  BY <1>6, <1>7, <1>8, <1>9

LEMMA TickKeeps ==
  ASSUME SchedulerIInv, Tick
  PROVE  SchedulerIInv'
<1> USE DEF SchedulerIInv
<1>1. ASSUME NEW u \in Units
      PROVE  /\ cool'[u] = Larger(cool[u] - 1, Past)
             /\ cool[u] \in Past..CooldownMax
             /\ cool'[u] \in Past..CooldownMax
             /\ cool'[u] <= cool[u]
  <2>1. cool[u] \in Past..CooldownMax /\ cool'[u] = Larger(cool[u] - 1, Past)
    BY DEF Tick, AcquisitionTypeOK
  <2>2. QED
    BY <2>1, PastIsPast, SchedulerAssumption DEF Larger
<1>2. cool' \in [Units -> Past..CooldownMax]
  BY <1>1 DEF Tick
<1>3. ASSUME NEW t \in Targets
      PROVE  due'[t] \in Past..Larger(MaxCadence, CooldownMax) /\ WaitsAtMost(t)'
  <2>1. /\ due[t] \in Past..Larger(MaxCadence, CooldownMax)
        /\ interval[t] \in Nat /\ interval' = interval /\ stale' = stale
        /\ due'[t] = IF interval[t] = 0 THEN due[t] ELSE Larger(due[t] - 1, Past)
    BY SchedulerAssumption DEF Tick, AcquisitionTypeOK
  <2>2. Larger(MaxCadence, CooldownMax) \in Nat
    BY SchedulerAssumption DEF Larger
  <2>3. due'[t] \in Past..Larger(MaxCadence, CooldownMax)
    BY <2>1, <2>2, PastIsPast DEF Larger
  <2>4. UnitOf[t] \in Units
    BY SchedulerAssumption
  <2>5. ASSUME interval[t] > 0, ~stale[t]
        PROVE  due'[t] <= Larger(interval[t], cool'[UnitOf[t]])
    <3>1. due[t] <= Larger(interval[t], cool[UnitOf[t]])
      BY <2>5 DEF CadenceWaits, WaitsAtMost
    <3>2. due'[t] = Larger(due[t] - 1, Past)
      BY <2>1, <2>5
    <3>3. cool[UnitOf[t]] \in Int /\ cool'[UnitOf[t]] = Larger(cool[UnitOf[t]] - 1, Past)
      BY <1>1, <2>4, PastIsPast, SchedulerAssumption
    <3>4. due[t] \in Int
      BY <2>1, <2>2, PastIsPast
    <3>5. QED
      BY <2>1, <2>5, <3>1, <3>2, <3>3, <3>4, PastIsPast DEF Larger
  <2>6. QED
    BY <2>1, <2>3, <2>5 DEF WaitsAtMost
<1>4. due' \in [Targets -> Past..Larger(MaxCadence, CooldownMax)]
  BY <1>3 DEF Tick
<1>5. deadline' \in Past..0
  BY PastIsPast DEF Tick, AcquisitionTypeOK, Larger
<1>6. AcquisitionTypeOK'
  BY <1>2, <1>4, <1>5 DEF Tick, AcquisitionTypeOK, registryVars, burstVars
<1>7. UnitRests'
  <2>1. ASSUME NEW u \in Units, cool'[u] > 0 PROVE backoff'[u] >= cool'[u]
    <3>1. backoff[u] \in Nat /\ backoff' = backoff
      BY SchedulerAssumption DEF Tick, AcquisitionTypeOK
    <3>2. cool[u] \in Int /\ cool'[u] \in Int /\ cool'[u] <= cool[u]
      BY <1>1, PastIsPast, SchedulerAssumption
    <3>3. cool[u] > 0 => backoff[u] >= cool[u]
      BY DEF UnitRests
    <3>4. QED
      BY <2>1, <3>1, <3>2, <3>3
  <2>2. UnitOf[target] \in Units
    BY SchedulerAssumption DEF AcquisitionTypeOK
  <2>3. cool[UnitOf[target]] <= 0 => cool'[UnitOf[target]] <= 0
    BY <1>1, <2>2, PastIsPast, SchedulerAssumption
  <2>4. QED
    BY <2>1, <2>3 DEF Tick, UnitRests
<1>8. OneChange'
  BY RegistryUntouched DEF Tick
<1>9. CadenceWaits'
  BY <1>3 DEF CadenceWaits
<1>10. QED
  BY <1>6, <1>7, <1>8, <1>9

(* The endpoint of the unit that was read.                                 *)
LEMMA EndpointTypes ==
  ASSUME AcquisitionTypeOK, NEW u \in Units, UpdateEndpoint(u)
  PROVE  /\ streak' \in [Units -> 0..(FailureThreshold - 1)]
         /\ backoff' \in [Units -> 0..CooldownMax]
         /\ cool' \in [Units -> Past..CooldownMax]
         /\ \A v \in Units \ {u} : cool'[v] = cool[v] /\ backoff'[v] = backoff[v]
         /\ \/ cool'[u] = backoff'[u]
            \/ cool'[u] = cool[u] /\ backoff'[u] = backoff[u]
            \/ cool'[u] = Past
<1> DEFINE trip == failed /\ streak[u] + 1 >= FailureThreshold
           s == IF failed /\ ~trip THEN streak[u] + 1 ELSE 0
           b == IF trip THEN NextCooldown(u) ELSE IF failed THEN backoff[u] ELSE 0
           c == IF trip THEN NextCooldown(u) ELSE IF failed THEN cool[u] ELSE Past
<1>1. /\ streak' = [streak EXCEPT ![u] = s]
      /\ backoff' = [backoff EXCEPT ![u] = b]
      /\ cool' = [cool EXCEPT ![u] = c]
  BY DEF UpdateEndpoint
<1>2. /\ streak \in [Units -> 0..(FailureThreshold - 1)]
      /\ backoff \in [Units -> 0..CooldownMax]
      /\ cool \in [Units -> Past..CooldownMax]
  BY DEF AcquisitionTypeOK
<1>3. NextCooldown(u) \in 1..CooldownMax
  BY NextCooldownRange
<1>4. s \in 0..(FailureThreshold - 1)
  <2>1. streak[u] \in 0..(FailureThreshold - 1) /\ FailureThreshold \in Nat \ {0}
    BY <1>2, SchedulerAssumption
  <2>2. CASE failed /\ ~trip
    <3>1. ~(streak[u] + 1 >= FailureThreshold) /\ s = streak[u] + 1
      BY <2>2
    <3>2. QED
      BY <2>1, <3>1
  <2>3. CASE ~(failed /\ ~trip)
    <3>1. s = 0
      BY <2>3
    <3>2. QED
      BY <2>1, <3>1
  <2>4. QED
    BY <2>2, <2>3
<1>5. b \in 0..CooldownMax
  BY <1>2, <1>3, SchedulerAssumption
<1>6. c \in Past..CooldownMax
  <2>1. cool[u] \in Past..CooldownMax /\ Past \in Past..CooldownMax
    BY <1>2, PastIsPast, SchedulerAssumption
  <2>2. NextCooldown(u) \in Past..CooldownMax
    BY <1>3, PastIsPast, SchedulerAssumption
  <2>3. QED
    BY <2>1, <2>2
<1>7. b = c \/ (c = cool[u] /\ b = backoff[u]) \/ c = Past
  OBVIOUS
<1> HIDE DEF s, b, c
<1>8. QED
  BY <1>1, <1>2, <1>4, <1>5, <1>6, <1>7

LEMMA RescheduleWaits ==
  ASSUME AcquisitionTypeOK, UnitRests, CadenceWaits, step = "read", interval[target] # 0,
         UpdateEndpoint(UnitOf[target]), Reschedule(UnitOf[target]), interval' = interval
  PROVE  /\ due' \in [Targets -> Past..Larger(MaxCadence, CooldownMax)]
         /\ stale' \in [Targets -> BOOLEAN]
         /\ CadenceWaits'
<1> DEFINE u == UnitOf[target]
<1>1. target \in Targets /\ u \in Units /\ cool[u] <= 0 /\ cadence > 0
  BY SchedulerAssumption DEF AcquisitionTypeOK, UnitRests
<1>2. NextDeadline \in 1..cadence /\ cadence \in 0..MaxCadence /\ cadence \in Nat
  BY <1>1, NextDeadlineRange, SchedulerAssumption DEF AcquisitionTypeOK
<1>3. \A v \in Units : cool'[v] \in Past..CooldownMax /\ cool[v] \in Past..CooldownMax
  BY <1>1, EndpointTypes DEF AcquisitionTypeOK
<1>4. \A v \in Units \ {u} : cool'[v] = cool[v]
  BY <1>1, EndpointTypes
<1> HIDE DEF u
<1>5. /\ stale' = [stale EXCEPT ![target] = (cadence # interval[target])]
      /\ due' = [t \in Targets |->
               IF t = target THEN Larger(NextDeadline, cool'[u])
               ELSE IF interval[t] > 0 /\ UnitOf[t] = u THEN Larger(due[t], cool'[u])
               ELSE due[t]]
  BY DEF Reschedule, u
<1>6. ASSUME NEW t \in Targets
      PROVE  due'[t] \in Past..Larger(MaxCadence, CooldownMax) /\ WaitsAtMost(t)'
  <2>1. /\ due[t] \in Past..Larger(MaxCadence, CooldownMax)
        /\ interval[t] \in Nat /\ UnitOf[t] \in Units
    BY SchedulerAssumption DEF AcquisitionTypeOK
  <2>2. Larger(MaxCadence, CooldownMax) \in Nat /\ Larger(MaxCadence, CooldownMax) >= MaxCadence
        /\ Larger(MaxCadence, CooldownMax) >= CooldownMax
    BY SchedulerAssumption DEF Larger
  <2>3. cool'[u] \in Int /\ cool'[u] >= Past /\ cool'[u] <= CooldownMax
    BY <1>1, <1>3, PastIsPast, SchedulerAssumption
  <2>4. MaxCadence \in Nat /\ CooldownMax \in Nat
    BY SchedulerAssumption
  <2>5. CASE t = target
    <3>1. due'[t] = Larger(NextDeadline, cool'[u])
      BY <1>5, <2>5
    <3>2. due'[t] \in Past..Larger(MaxCadence, CooldownMax)
      BY <1>2, <2>2, <2>3, <2>4, <3>1, PastIsPast DEF Larger
    <3>3. ~stale'[t] => cadence = interval[t]
      BY <1>5, <2>5 DEF AcquisitionTypeOK
    <3>4. UnitOf[t] = u
      BY <2>5 DEF u
    <3>5. cadence = interval[t] => due'[t] <= Larger(interval[t], cool'[UnitOf[t]])
      BY <1>2, <2>3, <3>1, <3>4 DEF Larger
    <3>6. QED
      BY <3>2, <3>3, <3>5 DEF WaitsAtMost
  <2>6. CASE t # target
    <3>1. stale'[t] = stale[t]
      BY <1>5, <2>6 DEF AcquisitionTypeOK
    <3>2. due[t] \in Int
      BY <2>1, <2>2, PastIsPast
    <3>3. WaitsAtMost(t)
      BY DEF CadenceWaits
    <3>4. CASE interval[t] > 0 /\ UnitOf[t] = u
      <4>1. due'[t] = Larger(due[t], cool'[u])
        BY <1>5, <2>6, <3>4
      <4>2. due'[t] \in Past..Larger(MaxCadence, CooldownMax)
        BY <2>1, <2>2, <2>3, <2>4, <3>2, <4>1, PastIsPast DEF Larger
      <4>3. cool[u] \in Int /\ cool[u] <= 0
        BY <1>1, <1>3, PastIsPast, SchedulerAssumption DEF u
      <4>4. ~stale[t] => due[t] <= interval[t]
        BY <2>1, <3>2, <3>3, <3>4, <4>3 DEF WaitsAtMost, Larger
      <4>5. ~stale[t] => due'[t] <= Larger(interval[t], cool'[UnitOf[t]])
        BY <2>1, <2>3, <3>2, <3>4, <4>1, <4>4 DEF Larger
      <4>6. QED
        BY <3>1, <4>2, <4>5 DEF WaitsAtMost
    <3>5. CASE ~(interval[t] > 0 /\ UnitOf[t] = u)
      <4>1. due'[t] = due[t]
        BY <1>5, <2>6, <3>5
      <4>2. interval[t] > 0 => cool'[UnitOf[t]] = cool[UnitOf[t]]
        BY <1>4, <2>1, <3>5
      <4>3. QED
        BY <2>1, <3>1, <3>3, <4>1, <4>2 DEF WaitsAtMost
    <3>6. QED
      BY <3>4, <3>5
  <2>7. QED
    BY <2>5, <2>6
<1>7. QED
  BY <1>5, <1>6 DEF CadenceWaits, AcquisitionTypeOK

LEMMA CompleteKeeps ==
  ASSUME SchedulerIInv, Complete
  PROVE  SchedulerIInv'
<1> USE DEF SchedulerIInv
<1>1. cadence' \in 0..MaxCadence /\ deadline' \in Past..0 /\ failed' \in BOOLEAN
  BY IdleJobTypes DEF Complete, DropJob
<1>2. OneChange'
  BY RegistryUntouched DEF Complete
<1>3. step' = "idle" /\ UNCHANGED <<interval, target, registryVars, disturbances>>
  BY DEF Complete
<1>4. CASE interval[target] = 0
  <2>1. UNCHANGED <<due, stale, endpointVars, burstVars>>
    BY <1>4 DEF Complete
  <2>2. AcquisitionTypeOK'
    BY <1>1, <1>3, <2>1 DEF AcquisitionTypeOK, registryVars, endpointVars, burstVars
  <2>3. UnitRests'
    BY <1>3, <2>1 DEF UnitRests, endpointVars
  <2>4. CadenceWaits'
    BY <1>3, <2>1, JobsUntouched DEF jobVars, endpointVars
  <2>5. QED
    BY <1>2, <2>2, <2>3, <2>4
<1>5. CASE interval[target] # 0
  <2>1. CountBurst /\ UpdateEndpoint(UnitOf[target]) /\ Reschedule(UnitOf[target])
    BY <1>5 DEF Complete
  <2>2. step = "read" /\ UnitOf[target] \in Units
    BY SchedulerAssumption DEF Complete, AcquisitionTypeOK
  <2>3. highs' \in 0..HighBurst /\ nonLow' \in 0..LowBurst
    BY <2>1, SchedulerAssumption DEF CountBurst, Smaller, AcquisitionTypeOK
  <2>4. /\ due' \in [Targets -> Past..Larger(MaxCadence, CooldownMax)]
        /\ stale' \in [Targets -> BOOLEAN]
        /\ CadenceWaits'
    BY <1>3, <1>5, <2>1, <2>2, RescheduleWaits
  <2>5. /\ streak' \in [Units -> 0..(FailureThreshold - 1)]
        /\ backoff' \in [Units -> 0..CooldownMax]
        /\ cool' \in [Units -> Past..CooldownMax]
    BY <2>1, <2>2, EndpointTypes
  <2>6. AcquisitionTypeOK'
    BY <1>1, <1>3, <2>3, <2>4, <2>5 DEF AcquisitionTypeOK, registryVars
  <2>7. ASSUME NEW v \in Units, cool'[v] > 0 PROVE backoff'[v] >= cool'[v]
    <3>1. \/ cool'[v] = backoff'[v]
          \/ cool'[v] = cool[v] /\ backoff'[v] = backoff[v]
          \/ cool'[v] = Past
      BY <2>1, <2>2, EndpointTypes
    <3>2. cool'[v] \in Int /\ backoff'[v] \in Int
      BY <2>5, PastIsPast, SchedulerAssumption
    <3>3. cool[v] > 0 => backoff[v] >= cool[v]
      BY DEF UnitRests
    <3>4. QED
      BY <2>7, <3>1, <3>2, <3>3, PastIsPast
  <2>8. UnitRests'
    BY <1>3, <2>7 DEF UnitRests
  <2>9. QED
    BY <1>2, <2>4, <2>6, <2>8
<1>6. QED
  BY <1>4, <1>5

-----------------------------------------------------------------------------
(* In every reachable state the deadlines, cooldowns and changes in        *)
(* progress fit together: the strengthening behind the two theorems below. *)
THEOREM SchedulerInductive == AcquisitionSpec => []SchedulerIInv
<1>1. AcquisitionInit => SchedulerIInv
  BY SchedulerInitial
<1>2. SchedulerIInv /\ [AcquisitionNext]_acquisitionVars => SchedulerIInv'
  <2> SUFFICES ASSUME SchedulerIInv, [AcquisitionNext]_acquisitionVars PROVE SchedulerIInv'
    OBVIOUS
  <2>1. CASE SelectTarget \/ StartRead \/ FinishRead \/ Complete
    BY <2>1, SelectTargetKeeps, ReadKeeps, CompleteKeeps
  <2>2. CASE WorkerDies \/ SuperviseWorkers
    BY <2>2, WorkerDiesKeeps, SuperviseKeeps
  <2>3. CASE UpdateRegistry \/ EnrollDiscovered
    BY <2>3, ChangeKeeps DEF UpdateRegistry, EnrollDiscovered
  <2>4. CASE TakeSnapshot \/ Reconcile
    BY <2>4, TakeSnapshotKeeps, ReconcileKeeps
  <2>5. CASE RestartAgent \/ Tick
    BY <2>5, RestartKeeps, TickKeeps
  <2>6. CASE UNCHANGED acquisitionVars
    BY <2>6 DEF SchedulerIInv, AcquisitionTypeOK, UnitRests, OneChange, CadenceWaits, WaitsAtMost,
       acquisitionVars, registryVars, jobVars, endpointVars, burstVars, workerVars
  <2>7. QED
    BY <2>1, <2>2, <2>3, <2>4, <2>5, <2>6 DEF AcquisitionNext
<1>3. QED
  BY <1>1, <1>2, PTL DEF AcquisitionSpec

(* A unit in cooldown is left alone, from the selection of a target to its *)
(* completion, whatever handlers and the supervisor do meanwhile.          *)
THEOREM SchedulerInvariant == AcquisitionSpec => []SchedulerInv
<1>1. SchedulerIInv => SchedulerInv
  BY DEF SchedulerIInv, SchedulerInv
<1>2. QED
  BY <1>1, SchedulerInductive, PTL

(* Handlers that do not overlap leave the scheduler with the persisted     *)
(* registry, and no deadline exceeds the cadence or the cooldown, unless   *)
(* the job was replaced while it was being read.                           *)
THEOREM CadenceInvariant == AcquisitionSpec => []CadenceKept
<1>1. SchedulerIInv => CadenceKept
  <2> SUFFICES ASSUME SchedulerIInv, NEW t \in Targets
               PROVE  /\ (\A h \in Handlers : handler[h] = "idle") /\ ~overlapped
                            => interval[t] = Cadence[registry][t]
                      /\ interval[t] > 0 /\ ~stale[t]
                            => due[t] <= Larger(interval[t], cool[UnitOf[t]])
    BY DEF CadenceKept
  <2>1. ASSUME \A h \in Handlers : handler[h] = "idle", ~overlapped
        PROVE  interval[t] = Cadence[registry][t]
    <3>1. "idle" \notin {"changed", registry}
      BY SchedulerAssumption DEF SchedulerIInv, AcquisitionTypeOK
    <3>2. QED
      BY <2>1, <3>1 DEF SchedulerIInv, OneChange
  <2>2. QED
    BY <2>1 DEF SchedulerIInv, CadenceWaits, WaitsAtMost
<1>2. QED
  BY <1>1, SchedulerInductive, PTL

=============================================================================
