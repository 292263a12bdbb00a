-------------------------- MODULE AlertEngineProofs --------------------------
(***************************************************************************)
(* Proofs about the alert engine, for every set of rules and values.       *)
(***************************************************************************)
EXTENDS AlertEngine, TLAPS

(* The evaluator                                                           *)

LEMMA AcceptedFields ==
  ASSUME eval \in Evaluation, NEW at \in Time, NEW p \in Time, NEW q \in Time, NEW m \in Nat
  PROVE  /\ Accepted(at, p, q, m) \in Evaluation
         /\ Accepted(at, p, q, m).last = at
         /\ Accepted(at, p, q, m).pending = p
         /\ Accepted(at, p, q, m).clearPending = q
         /\ Accepted(at, p, q, m).active = eval.active
         /\ Accepted(at, p, q, m).cooldown = eval.cooldown
  BY DEF Accepted, Evaluation

LEMMA DeviationType ==
  ASSUME NEW c \in Configuration, NEW v \in Value
  PROVE  Deviation(c, v) \in Nat /\ (eval \in Evaluation => Larger(eval.maximum, Deviation(c, v)) \in Nat)
<1>1. c.trigger \in Int /\ c.high \in BOOLEAN /\ v \in Int
  BY ConstantsAssumption
<1>2. (IF c.high THEN v - c.trigger ELSE c.trigger - v) \in Int
  BY <1>1
<1>3. Deviation(c, v) \in Nat
  BY <1>2 DEF Deviation, Larger
<1>4. QED
  BY <1>3 DEF Larger, Evaluation

\* What an accepted event does to the evaluation state, decision by decision.
Evaluated(c, at, v, r) ==
  /\ r.next \in Evaluation
  /\ r.next.last = at /\ r.next.active = eval.active
  /\ r.next.pending <= at /\ r.next.clearPending <= at
  /\ eval.active = 0 => r.next.clearPending = None
  /\ eval.active # 0 => r.next.pending = None
  /\ r.next.pending # None =>
       v # Invalid /\ IsTriggered(c, v) /\ r.next.pending = Since(eval.pending, at)
  /\ r.next.clearPending # None =>
       v # Invalid /\ IsClear(c, v) /\ r.next.clearPending = Since(eval.clearPending, at)
  /\ r.decision = "trigger" => /\ eval.active = 0 /\ v # Invalid
                               /\ ~InCooldown(at) /\ r.next.pending = None
                               /\ IsTriggered(c, v)
                               /\ at >= Since(eval.pending, at) + c.hold
  /\ r.decision = "resolve" => /\ eval.active # 0 /\ v # Invalid
                               /\ r.next.cooldown = at + c.cooldown
                               /\ IsClear(c, v)
                               /\ at >= Since(eval.clearPending, at) + c.clearHold
  /\ r.decision # "resolve" => r.next.cooldown = eval.cooldown

LEMMA EvaluateClosedCase ==
  ASSUME eval \in Evaluation, NEW c \in Configuration, NEW at \in Time, NEW v \in Value,
         eval.pending <= at, eval.active = 0
  PROVE  Evaluated(c, at, v, EvaluateClosed(c, at, v))
<1> DEFINE since == Since(eval.pending, at)
           peak  == Larger(eval.maximum, Deviation(c, v))
<1>1. since \in Time /\ since <= at /\ peak \in Nat /\ None \in Time /\ 0 \in Nat
  <2>1. at \in 0..MaxTime /\ eval.pending \in 0..MaxTime /\ MaxTime \in Nat
    BY ConstantsAssumption DEF Evaluation, Time
  <2>2. since \in Time /\ since <= at
    BY <2>1 DEF Since, Time
  <2>3. None \in Time
    BY <2>1 DEF None, Time
  <2>4. QED
    BY <2>2, <2>3, DeviationType
<1>2. v # Invalid
  BY ConstantsAssumption
<1>3. Accepted(at, None, None, 0) \in Evaluation
      /\ Accepted(at, None, None, peak) \in Evaluation
      /\ Accepted(at, since, None, peak) \in Evaluation
  BY <1>1, AcceptedFields
<1>4. CASE InCooldown(at) \/ ~IsTriggered(c, v)
  <2>1. /\ EvaluateClosed(c, at, v).next = Accepted(at, None, None, 0)
        /\ EvaluateClosed(c, at, v).decision \in {"ignore_cooldown", "reset_trigger_pending"}
    BY <1>4 DEF EvaluateClosed
  <2>2. QED
    BY <1>1, <2>1, AcceptedFields DEF Evaluated, None, Time
<1>5. CASE ~InCooldown(at) /\ IsTriggered(c, v) /\ at >= since + c.hold
  <2>1. /\ EvaluateClosed(c, at, v).next = Accepted(at, None, None, peak)
        /\ EvaluateClosed(c, at, v).decision = "trigger"
    BY <1>5 DEF EvaluateClosed
  <2>2. QED
    BY <1>1, <1>2, <1>5, <2>1, AcceptedFields DEF Evaluated, None, Time
<1>6. CASE ~InCooldown(at) /\ IsTriggered(c, v) /\ ~(at >= since + c.hold)
  <2>1. /\ EvaluateClosed(c, at, v).next = Accepted(at, since, None, peak)
        /\ EvaluateClosed(c, at, v).decision = "start_trigger_pending"
    BY <1>6 DEF EvaluateClosed
  <2>2. QED
    BY <1>1, <1>2, <1>6, <2>1, AcceptedFields DEF Evaluated, None, Time
<1>7. QED
  BY <1>4, <1>5, <1>6

LEMMA EvaluateOpenCase ==
  ASSUME eval \in Evaluation, NEW c \in Configuration, NEW at \in Time, NEW v \in Value,
         eval.clearPending <= at, eval.active # 0
  PROVE  Evaluated(c, at, v, EvaluateOpen(c, at, v))
<1> DEFINE since == Since(eval.clearPending, at)
           peak  == Larger(eval.maximum, Deviation(c, v))
           idle  == Accepted(at, None, None, peak)
<1>1. since \in Time /\ since <= at /\ peak \in Nat /\ None \in Time
  <2>1. at \in 0..MaxTime /\ eval.clearPending \in 0..MaxTime /\ MaxTime \in Nat
    BY ConstantsAssumption DEF Evaluation, Time
  <2>2. since \in Time /\ since <= at
    BY <2>1 DEF Since, Time
  <2>3. None \in Time
    BY <2>1 DEF None, Time
  <2>4. QED
    BY <2>2, <2>3, DeviationType
<1>2. v # Invalid /\ c.cooldown \in Nat
  BY ConstantsAssumption
<1>3. CASE ~IsClear(c, v)
  <2>1. /\ EvaluateOpen(c, at, v).next = idle
        /\ EvaluateOpen(c, at, v).decision \in {"none", "reset_clear_pending"}
    BY <1>3 DEF EvaluateOpen
  <2>2. QED
    BY <1>1, <2>1, AcceptedFields DEF Evaluated, None, Time
<1>4. CASE IsClear(c, v) /\ at >= since + c.clearHold
  <2>1. /\ EvaluateOpen(c, at, v).next = [idle EXCEPT !.cooldown = at + c.cooldown]
        /\ EvaluateOpen(c, at, v).decision = "resolve"
    BY <1>4 DEF EvaluateOpen
  <2>2. /\ idle \in Evaluation /\ idle.last = at /\ idle.pending = None
        /\ idle.clearPending = None /\ idle.active = eval.active
    BY <1>1, AcceptedFields
  <2>3. at + c.cooldown \in Nat /\ at >= 0
    BY <1>2, ConstantsAssumption DEF Time
  <2> HIDE DEF idle
  <2>4. /\ EvaluateOpen(c, at, v).next \in Evaluation
        /\ EvaluateOpen(c, at, v).next.last = at
        /\ EvaluateOpen(c, at, v).next.pending = None
        /\ EvaluateOpen(c, at, v).next.clearPending = None
        /\ EvaluateOpen(c, at, v).next.active = eval.active
        /\ EvaluateOpen(c, at, v).next.cooldown = at + c.cooldown
    BY <2>1, <2>2, <2>3 DEF Evaluation
  <2>5. QED
    BY <1>2, <1>4, <2>1, <2>3, <2>4 DEF Evaluated, None
<1>5. CASE IsClear(c, v) /\ ~(at >= since + c.clearHold)
  <2>1. /\ EvaluateOpen(c, at, v).next = Accepted(at, None, since, peak)
        /\ EvaluateOpen(c, at, v).decision = "start_clear_pending"
    BY <1>5 DEF EvaluateOpen
  <2>2. QED
    BY <1>1, <1>2, <1>5, <2>1, AcceptedFields DEF Evaluated, None, Time
<1>6. QED
  BY <1>3, <1>4, <1>5

LEMMA EvaluateCase ==
  ASSUME eval \in Evaluation, NEW c \in Configuration, NEW at \in Time,
         NEW v \in Value \cup {Invalid}, eval.pending <= at, eval.clearPending <= at
  PROVE  Evaluated(c, at, v, EvaluateThreshold(c, at, v))
<1>1. CASE v = Invalid
  <2>1. /\ EvaluateThreshold(c, at, v).next = Accepted(at, None, None, eval.maximum)
        /\ EvaluateThreshold(c, at, v).decision = "ignore_invalid_value"
    BY <1>1 DEF EvaluateThreshold
  <2>2. None \in Time /\ eval.maximum \in Nat /\ None <= at
    BY ConstantsAssumption DEF None, Time, Evaluation
  <2>3. QED
    BY <2>1, <2>2, AcceptedFields DEF Evaluated
<1>2. CASE v # Invalid /\ eval.active = 0
  BY <1>2, EvaluateClosedCase DEF EvaluateThreshold
<1>3. CASE v # Invalid /\ eval.active # 0
  BY <1>3, EvaluateOpenCase DEF EvaluateThreshold
<1>4. QED
  BY <1>1, <1>2, <1>3
-----------------------------------------------------------------------------
(* Alerts                                                                  *)

LEMMA MovedFields ==
  ASSUME NEW alert \in Alert, NEW s \in AlertState, NEW k \in Key \cup Time
  PROVE  /\ Moved(alert, s, k) \in Alert
         /\ Moved(alert, s, k).state = s
         /\ Moved(alert, s, k).version = alert.version
         /\ Moved(alert, s, k).triggered = alert.triggered
         /\ Moved(alert, s, k).resolved = alert.resolved
         /\ Moved(alert, s, k).resolvedBy = alert.resolvedBy
         /\ Moved(alert, s, k).evidence = alert.evidence
         /\ Moved(alert, s, k).since = alert.since
         /\ Moved(alert, s, k).clearSince = alert.clearSince
         /\ Moved(alert, s, k).trail =
              Append(alert.trail, [previous |-> alert.state, state |-> s, key |-> k])
<1> DEFINE step == [previous |-> alert.state, state |-> s, key |-> k]
           Steps == [previous : AlertState \cup {"none"}, state : AlertState,
                     key : Key \cup Time]
<1>1. step \in Steps /\ alert.trail \in Seq(Steps)
  BY DEF Alert
<1> HIDE DEF step, Steps
<1>2. Append(alert.trail, step) \in Seq(Steps)
  BY <1>1
<1>3. Moved(alert, s, k) = [alert EXCEPT !.state = s, !.trail = Append(alert.trail, step)]
  BY DEF Moved, step, Alert
<1>4. Append(alert.trail, step) \in Seq([previous : AlertState \cup {"none"},
                                         state : AlertState, key : Key \cup Time])
  BY <1>2 DEF Steps
<1>5. QED
  BY <1>3, <1>4 DEF Alert, step

\* What following an event does to the open alert.
FollowsTo(alert, at, version, r, after) ==
  /\ after \in Alert
  /\ after.version = alert.version /\ after.triggered = alert.triggered
  /\ after.since = alert.since
  /\ r.decision # "resolve" =>
       /\ after.state = alert.state /\ after.trail = alert.trail
       /\ after.resolved = alert.resolved
       /\ after.resolvedBy = alert.resolvedBy
       /\ after.clearSince = alert.clearSince
       /\ alert.evidence \subseteq after.evidence
  /\ r.decision = "resolve" =>
       /\ after.state = "resolved" /\ after.resolved = at
       /\ after.resolvedBy = version
       /\ after.clearSince = clearing'[versions[version]]
       /\ after.evidence = alert.evidence \cup {at}
       /\ after.trail = Append(alert.trail,
            [previous |-> alert.state, state |-> "resolved", key |-> at])

LEMMA FollowedFields ==
  ASSUME NEW alert \in Alert, NEW at \in Time \ {None}, NEW version \in DOMAIN versions,
         NEW r, NEW after, after = Followed(alert, at, version, r), r.next \in Evaluation,
         versions \in Seq(Configuration), clearing' \in [Configuration -> Time]
  PROVE  FollowsTo(alert, at, version, r, after)
<1> DEFINE c == Config(version)
           seen == IF Captures(r.decision, c, events[at]) THEN alert.evidence \cup {at}
                   ELSE alert.evidence
           updated == [alert EXCEPT !.maximum = Larger(@, r.next.maximum), !.evidence = seen]
           moved == Moved(updated, "resolved", at)
<1>1. c = versions[version] /\ c \in Configuration /\ version \in Nat \ {0}
  BY DEF Config
<1>2. Larger(alert.maximum, r.next.maximum) \in Nat
  BY DEF Larger, Alert, Evaluation
<1>3. seen \in SUBSET Time /\ alert.evidence \subseteq seen
  BY DEF Alert
<1>4. r.decision = "resolve" => seen = alert.evidence \cup {at}
  BY DEF Captures
<1>5. Followed(alert, at, version, r) =
        IF r.decision = "resolve"
        THEN [moved EXCEPT !.resolved = at, !.resolvedBy = version, !.clearSince = clearing'[c]]
        ELSE updated
  BY DEF Followed, Alert
<1>6. /\ updated \in Alert
      /\ updated.version = alert.version /\ updated.triggered = alert.triggered
      /\ updated.since = alert.since /\ updated.state = alert.state
      /\ updated.trail = alert.trail /\ updated.resolved = alert.resolved
      /\ updated.resolvedBy = alert.resolvedBy /\ updated.clearSince = alert.clearSince
      /\ updated.evidence = seen
  BY <1>2, <1>3 DEF Alert
<1> HIDE DEF updated, seen
<1>7. /\ moved \in Alert /\ moved.state = "resolved"
      /\ moved.version = updated.version /\ moved.triggered = updated.triggered
      /\ moved.since = updated.since /\ moved.evidence = updated.evidence
      /\ moved.trail = Append(updated.trail,
           [previous |-> updated.state, state |-> "resolved", key |-> at])
  BY <1>6, MovedFields DEF AlertState
<1> HIDE DEF moved
<1>8. CASE r.decision # "resolve"
  BY <1>3, <1>5, <1>6, <1>8 DEF FollowsTo
<1>9. CASE r.decision = "resolve"
  <2> DEFINE final == [moved EXCEPT !.resolved = at, !.resolvedBy = version,
                                    !.clearSince = clearing'[c]]
  <2>1. clearing'[c] \in Time /\ at \in Time /\ version \in Nat
    BY <1>1
  <2>2. final \in Alert
    BY <1>7, <2>1 DEF Alert
  <2>3. /\ final.version = moved.version /\ final.triggered = moved.triggered
        /\ final.since = moved.since /\ final.state = moved.state
        /\ final.trail = moved.trail /\ final.evidence = moved.evidence
        /\ final.resolved = at /\ final.resolvedBy = version
        /\ final.clearSince = clearing'[c]
    BY <1>7 DEF Alert
  <2>4. after = final
    BY <1>5, <1>9
  <2> HIDE DEF final
  <2>5. QED
    BY <1>1, <1>4, <1>6, <1>7, <1>9, <2>2, <2>3, <2>4 DEF FollowsTo
<1>10. QED
  BY <1>8, <1>9

RaisedAt(alert, at, version) ==
  /\ alert \in Alert
  /\ alert.state = "active" /\ alert.version = version
  /\ alert.triggered = at /\ alert.resolved = None
  /\ alert.since = excursion'[versions[version]] /\ alert.evidence = {at}
  /\ alert.trail = <<[previous |-> "none", state |-> "active", key |-> at]>>

LEMMA NewAlertFields ==
  ASSUME NEW at \in Time \ {None}, NEW version \in DOMAIN versions, NEW m \in Nat,
         versions \in Seq(Configuration), excursion' \in [Configuration -> Time]
  PROVE  RaisedAt(NewAlert(at, version, m), at, version)
<1> DEFINE Steps == [previous : AlertState \cup {"none"}, state : AlertState,
                     key : Key \cup Time]
           first == [previous |-> "none", state |-> "active", key |-> at]
<1>1. excursion'[Config(version)] \in Time /\ version \in Nat \ {0}
      /\ Config(version) = versions[version]
  BY DEF Config
<1>2. None \in Time /\ 0 \in Nat
  BY ConstantsAssumption DEF None, Time
<1>3. first \in Steps
  BY DEF AlertState
<1> HIDE DEF first
<1>4. <<first>> \in Seq(Steps)
  BY <1>3
<1>5. QED
  BY <1>1, <1>2, <1>4 DEF NewAlert, RaisedAt, Alert, AlertState, first

LEMMA ObserveType ==
  ASSUME excursion \in [Configuration -> Time], clearing \in [Configuration -> Time],
         NEW at \in Time, NEW v, Observe(at, v)
  PROVE  /\ excursion' \in [Configuration -> Time]
         /\ clearing' \in [Configuration -> Time]
<1>1. None \in Time
  BY ConstantsAssumption DEF None, Time
<1>2. \A t \in Time : Since(t, at) \in Time
  BY DEF Since
<1>3. QED
  BY <1>1, <1>2 DEF Observe
-----------------------------------------------------------------------------
(* The invariant                                                           *)

\* What the processor knows when it evaluates an event.
LEMMA AtWork ==
  ASSUME EngineInv, work.step = "evaluate"
  PROVE  /\ work.event \in DOMAIN events /\ work.event \in Time \ {None}
         /\ work.version \in DOMAIN versions /\ versions \in Seq(Configuration)
         /\ Config(work.version) \in Configuration
         /\ events[work.event] \in Value \cup {Invalid}
         /\ ~Ignored(work.event) => eval.last < work.event
<1>1. PICK t \in DOMAIN events, v \in DOMAIN versions :
        work = [step |-> "evaluate", event |-> t, version |-> v]
  BY DEF EngineInv, TypeOK, NoWork
<1>2. t \in Time \ {None} /\ events[t] \in Value \cup {Invalid}
  <2>1. t \in 1..MaxTime /\ events[t] \in Value \cup {Invalid}
    BY DEF EngineInv, TypeOK
  <2>2. QED
    BY <2>1, ConstantsAssumption DEF Time, None
<1>3. versions \in Seq(Configuration) /\ Config(v) \in Configuration
  BY DEF EngineInv, TypeOK, Config
<1>4. eval.last \in Time
  BY DEF EngineInv, TypeOK, Evaluation
<1>5. ~Ignored(t) => eval.last < t
  BY <1>2, <1>4 DEF Ignored, None, Time
<1>6. QED
  BY <1>1, <1>2, <1>3, <1>5

\* The result of the evaluation, and the two ways it leaves the alerts.
LEMMA EvaluateStep ==
  ASSUME EngineInv, EvaluateRule
  PROVE  \E r :
           /\ r = EvaluateThreshold(Config(work.version), work.event, events[work.event])
           /\ Evaluated(Config(work.version), work.event, events[work.event], r)
           /\ excursion' \in [Configuration -> Time] /\ clearing' \in [Configuration -> Time]
           /\ work' = NoWork /\ UNCHANGED <<versions, enabled, events>>
           /\ \/ /\ r.decision = "trigger"
                 /\ alerts' = Append(alerts, NewAlert(work.event, work.version, r.next.maximum))
                 /\ eval' = [r.next EXCEPT !.active = Len(alerts) + 1]
              \/ /\ r.decision # "trigger" /\ eval.active = 0
                 /\ eval' = r.next /\ UNCHANGED alerts
              \/ /\ r.decision # "trigger" /\ eval.active # 0
                 /\ alerts' = [alerts EXCEPT ![eval.active] =
                                 Followed(alerts[eval.active], work.event, work.version, r)]
                 /\ eval' = r.next
<1> DEFINE r == EvaluateThreshold(Config(work.version), work.event, events[work.event])
<1>1. work.step = "evaluate" /\ ~Ignored(work.event)
  BY DEF EvaluateRule
<1>2. /\ work.event \in Time \ {None}
      /\ Config(work.version) \in Configuration
      /\ events[work.event] \in Value \cup {Invalid}
      /\ eval.last < work.event
  BY <1>1, AtWork
<1>3. eval \in Evaluation /\ eval.pending <= eval.last /\ eval.clearPending <= eval.last
  BY DEF EngineInv, TypeOK, StateAgrees
<1>4. eval.pending <= work.event /\ eval.clearPending <= work.event
  BY <1>2, <1>3 DEF Evaluation, Time
<1>5. Evaluated(Config(work.version), work.event, events[work.event], r)
  BY <1>2, <1>3, <1>4, EvaluateCase
<1>6. excursion' \in [Configuration -> Time] /\ clearing' \in [Configuration -> Time]
  BY <1>2, ObserveType DEF EvaluateRule, EngineInv, TypeOK
<1> HIDE DEF r
<1>7. /\ work' = NoWork /\ UNCHANGED <<versions, enabled, events>>
      /\ \/ /\ r.decision = "trigger"
            /\ alerts' = Append(alerts, NewAlert(work.event, work.version, r.next.maximum))
            /\ eval' = [r.next EXCEPT !.active = Len(alerts) + 1]
         \/ /\ r.decision # "trigger" /\ eval.active = 0
            /\ eval' = r.next /\ UNCHANGED alerts
         \/ /\ r.decision # "trigger" /\ eval.active # 0
            /\ alerts' = [alerts EXCEPT ![eval.active] =
                            Followed(alerts[eval.active], work.event, work.version, r)]
            /\ eval' = r.next
  BY DEF EvaluateRule, rule, r
<1>8. QED
  BY <1>5, <1>6, <1>7 DEF r

\* An event that raises an alert: all others are closed.
LEMMA TriggerInv ==
  ASSUME EngineInv,
         NEW at \in Time \ {None}, eval.last < at, eval.active = 0,
         NEW new \in Alert,
         new.state = "active", new.version \in DOMAIN versions,
         new.triggered = at, new.resolved = None,
         alerts' = Append(alerts, new),
         eval' \in Evaluation, eval'.active = Len(alerts) + 1, eval'.last = at,
         eval'.pending = None, eval'.clearPending = None,
         eval'.cooldown = eval.cooldown,
         excursion' \in [Configuration -> Time], clearing' \in [Configuration -> Time],
         work' = NoWork, UNCHANGED <<versions, enabled, events>>
  PROVE  EngineInv'
<1> DEFINE n == Len(alerts) + 1
<1>1. /\ alerts \in Seq(Alert) /\ Len(alerts) \in Nat
      /\ DOMAIN alerts = 1..Len(alerts)
      /\ \A a \in DOMAIN alerts : alerts[a] \in Alert
  BY DEF EngineInv, TypeOK
<1>2. eval.last \in Nat /\ at \in Nat /\ None <= at
  BY ConstantsAssumption DEF EngineInv, TypeOK, Evaluation, Time, None
<1>3. /\ alerts' \in Seq(Alert) /\ DOMAIN alerts' = 1..n /\ Len(alerts') = n
      /\ alerts'[n] = new
      /\ \A a \in DOMAIN alerts : alerts'[a] = alerts[a] /\ a # n
  BY <1>1
<1>4. \A a \in DOMAIN alerts' : a \in DOMAIN alerts \/ a = n
  BY <1>1, <1>3
<1>5. \A a \in DOMAIN alerts : alerts[a].state = "closed"
  BY <1>1 DEF EngineInv, OneOpenAlert
<1>6. TypeOK'
  BY <1>3 DEF EngineInv, TypeOK
<1>7. OneOpenAlert'
  <2>1. \A a \in DOMAIN alerts' : alerts'[a].state # "closed" <=> a = n
    BY <1>3, <1>4, <1>5
  <2>2. eval'.active = n /\ n = Len(alerts')
    BY <1>3
  <2>3. QED
    BY <2>1, <2>2 DEF OneOpenAlert
<1>8. StateAgrees'
  <2>1. eval'.pending <= eval'.last /\ eval'.clearPending <= eval'.last /\ eval'.active # 0
    BY <1>1, <1>2
  <2>2. ASSUME NEW a \in DOMAIN alerts
        PROVE  /\ alerts'[a].version \in DOMAIN versions'
               /\ alerts'[a].triggered <= eval'.last /\ alerts'[a].resolved <= eval'.last
               /\ alerts'[a].state \in {"resolved", "closed"} <=> alerts'[a].resolved # None
               /\ alerts'[a].resolved # None => alerts'[a].resolvedBy \in DOMAIN versions'
    <3>1. alerts[a].triggered \in Nat /\ alerts[a].resolved \in Nat /\ alerts'[a] = alerts[a]
      <4>1. alerts[a] \in Alert /\ alerts'[a] = alerts[a]
        BY <1>1, <1>3
      <4>2. alerts[a].triggered \in Time /\ alerts[a].resolved \in Time
        BY <4>1 DEF Alert
      <4>3. QED
        BY <4>1, <4>2, ConstantsAssumption DEF Time
    <3>2. alerts[a].triggered <= at /\ alerts[a].resolved <= at
      BY <1>2, <3>1 DEF EngineInv, StateAgrees
    <3>3. QED
      BY <3>1, <3>2 DEF EngineInv, StateAgrees
  <2>3. /\ alerts'[n].version \in DOMAIN versions'
        /\ alerts'[n].triggered <= eval'.last /\ alerts'[n].resolved <= eval'.last
        /\ alerts'[n].state \notin {"resolved", "closed"} /\ alerts'[n].resolved = None
    BY <1>2, <1>3
  <2>4. \A a \in DOMAIN alerts : a # Len(alerts')
    BY <1>3
  <2>5. QED
    BY <1>4, <2>1, <2>2, <2>3, <2>4 DEF StateAgrees
<1>9. QED
  BY <1>6, <1>7, <1>8 DEF EngineInv

\* An event that finds no open alert and raises none.
LEMMA QuietInv ==
  ASSUME EngineInv, eval.active = 0, UNCHANGED alerts,
         eval' \in Evaluation, eval'.active = 0, eval.last <= eval'.last,
         eval'.pending <= eval'.last, eval'.clearPending = None,
         eval'.cooldown = eval.cooldown,
         excursion' \in [Configuration -> Time], clearing' \in [Configuration -> Time],
         work' = NoWork, UNCHANGED <<versions, enabled, events>>
  PROVE  EngineInv'
<1>1. TypeOK' /\ OneOpenAlert'
  BY DEF EngineInv, TypeOK, OneOpenAlert
<1>2. eval'.last \in Nat /\ eval.last \in Nat /\ None <= eval'.last
  BY ConstantsAssumption DEF EngineInv, TypeOK, Evaluation, Time, None
<1>3. ASSUME NEW a \in DOMAIN alerts
      PROVE  alerts[a].triggered <= eval'.last /\ alerts[a].resolved <= eval'.last
  <2>1. alerts[a] \in Alert
    BY DEF EngineInv, TypeOK
  <2>2. alerts[a].triggered \in Time /\ alerts[a].resolved \in Time
    BY <2>1 DEF Alert
  <2>3. alerts[a].triggered <= eval.last /\ alerts[a].resolved <= eval.last
    BY DEF EngineInv, StateAgrees
  <2>4. QED
    BY <1>2, <2>2, <2>3, ConstantsAssumption DEF Time
<1>4. StateAgrees'
  BY <1>2, <1>3 DEF EngineInv, StateAgrees, Config
<1>5. QED
  BY <1>1, <1>4 DEF EngineInv

\* A step that moves or follows the open alert.
LEMMA MoveInv ==
  ASSUME EngineInv,
         NEW a \in DOMAIN alerts, alerts[a].state # "closed",
         NEW after \in Alert,
         after.version = alerts[a].version, after.triggered = alerts[a].triggered,
         after.state \in {"resolved", "closed"} <=> after.resolved # None,
         after.resolved # None =>
           /\ after.resolvedBy \in DOMAIN versions /\ after.resolved <= eval'.last
           /\ eval'.cooldown = after.resolved + Config(after.resolvedBy).cooldown,
         alerts' = [alerts EXCEPT ![a] = after],
         eval' \in Evaluation, eval.last <= eval'.last,
         eval'.pending <= eval'.last, eval'.clearPending <= eval'.last,
         after.state = "closed" => eval'.active = 0 /\ eval'.clearPending = None,
         after.state # "closed" => eval'.active = a /\ eval'.pending = None,
         excursion' \in [Configuration -> Time], clearing' \in [Configuration -> Time],
         work' = work \/ work' = NoWork, UNCHANGED <<versions, enabled, events>>
  PROVE  EngineInv'
<1>1. /\ alerts \in Seq(Alert) /\ Len(alerts) \in Nat
      /\ DOMAIN alerts = 1..Len(alerts)
      /\ \A b \in DOMAIN alerts : alerts[b] \in Alert
  BY DEF EngineInv, TypeOK
<1>2. eval'.last \in Nat /\ eval.last \in Nat /\ None <= eval'.last
  BY ConstantsAssumption DEF EngineInv, TypeOK, Evaluation, Time, None
<1>3. a = eval.active /\ a = Len(alerts) /\ a # 0
  BY <1>1 DEF EngineInv, OneOpenAlert
<1>4. /\ alerts' \in Seq(Alert) /\ DOMAIN alerts' = DOMAIN alerts
      /\ Len(alerts') = Len(alerts) /\ alerts'[a] = after
      /\ \A b \in DOMAIN alerts : b # a => alerts'[b] = alerts[b]
  BY <1>1
<1>5. \A b \in DOMAIN alerts : b # a => alerts[b].state = "closed"
  BY <1>3 DEF EngineInv, OneOpenAlert
<1>6. TypeOK'
  <2>1. /\ versions' \in Seq(Configuration) /\ versions' # <<>> /\ enabled' \in BOOLEAN
        /\ DOMAIN events' \subseteq 1..MaxTime
        /\ \A t \in DOMAIN events' : events'[t] \in Value \cup {Invalid}
    BY DEF EngineInv, TypeOK
  <2>2. \/ work' = NoWork
        \/ \E t \in DOMAIN events' : work' = [step |-> "match", event |-> t]
        \/ \E t \in DOMAIN events', v \in DOMAIN versions' :
             work' = [step |-> "evaluate", event |-> t, version |-> v]
    BY DEF EngineInv, TypeOK
  <2>3. QED
    BY <1>4, <2>1, <2>2 DEF TypeOK
<1>7. OneOpenAlert'
  <2>1. CASE after.state = "closed"
    BY <1>3, <1>4, <1>5, <2>1, <1>1 DEF OneOpenAlert
  <2>2. CASE after.state # "closed"
    BY <1>3, <1>4, <1>5, <2>2, <1>1 DEF OneOpenAlert
  <2>3. QED
    BY <2>1, <2>2
<1>8. StateAgrees'
  <2>1. /\ eval'.active = 0 => eval'.clearPending = None
        /\ eval'.active # 0 => eval'.pending = None
    BY <1>3
  <2>2. ASSUME NEW b \in DOMAIN alerts
        PROVE  /\ alerts[b].triggered <= eval'.last /\ alerts[b].resolved <= eval'.last
               /\ alerts[b].version \in DOMAIN versions'
    <3>1. alerts[b].triggered \in Time /\ alerts[b].resolved \in Time
      BY <1>1 DEF Alert
    <3>2. /\ alerts[b].triggered <= eval.last /\ alerts[b].resolved <= eval.last
          /\ alerts[b].version \in DOMAIN versions
      BY DEF EngineInv, StateAgrees
    <3>3. QED
      BY <1>2, <3>1, <3>2, ConstantsAssumption DEF Time
  <2>3. after.resolved <= eval'.last
    BY <1>2
  <2>4. ASSUME NEW b \in DOMAIN alerts'
        PROVE  /\ alerts'[b].version \in DOMAIN versions'
               /\ alerts'[b].triggered <= eval'.last /\ alerts'[b].resolved <= eval'.last
               /\ alerts'[b].state \in {"resolved", "closed"} <=> alerts'[b].resolved # None
               /\ alerts'[b].resolved # None =>
                    /\ alerts'[b].resolvedBy \in DOMAIN versions'
                    /\ b = Len(alerts') =>
                         eval'.cooldown = alerts'[b].resolved
                                          + versions'[alerts'[b].resolvedBy].cooldown
    <3>1. CASE b = a
      BY <1>4, <2>2, <2>3, <3>1 DEF Config
    <3>2. CASE b # a
      BY <1>3, <1>4, <2>2, <3>2 DEF EngineInv, StateAgrees
    <3>3. QED
      BY <3>1, <3>2
  <2>5. QED
    BY <2>1, <2>4 DEF StateAgrees, Config
<1>9. QED
  BY <1>6, <1>7, <1>8 DEF EngineInv
LEMMA EvaluateInv ==
  ASSUME EngineInv, EvaluateRule
  PROVE  EngineInv'
<1>0. PICK at, version : at = work.event /\ version = work.version
  OBVIOUS
<1> DEFINE c == Config(version)
<1>1. /\ at \in Time \ {None} /\ version \in DOMAIN versions
      /\ versions \in Seq(Configuration) /\ eval.last < at
      /\ c = versions[version] /\ c \in Configuration
  BY <1>0, AtWork DEF EvaluateRule, Config
<1> HIDE DEF c
<1>2. /\ eval \in Evaluation /\ alerts \in Seq(Alert) /\ eval.active \in 0..Len(alerts)
      /\ eval.last \in Nat /\ at \in Nat /\ None <= at /\ eval.last <= at
  <2>1. eval \in Evaluation /\ alerts \in Seq(Alert) /\ eval.active \in 0..Len(alerts)
    BY DEF EngineInv, TypeOK, OneOpenAlert
  <2>2. eval.last \in Time
    BY <2>1 DEF Evaluation
  <2>3. at \in Nat /\ eval.last \in Nat
    BY <1>1, <2>2, ConstantsAssumption, SMTT(30) DEF Time
  <2>4. PICK x : x = eval.last
    OBVIOUS
  <2>5. x \in Nat /\ x < at
    BY <1>1, <2>3, <2>4
  <2>6. x <= at /\ None <= at
    BY <2>3, <2>5 DEF None
  <2>7. QED
    BY <2>1, <2>3, <2>4, <2>6
<1>3. PICK r :
        /\ Evaluated(c, at, events[at], r)
        /\ excursion' \in [Configuration -> Time] /\ clearing' \in [Configuration -> Time]
        /\ work' = NoWork /\ UNCHANGED <<versions, enabled, events>>
        /\ \/ /\ r.decision = "trigger"
              /\ alerts' = Append(alerts, NewAlert(at, version, r.next.maximum))
              /\ eval' = [r.next EXCEPT !.active = Len(alerts) + 1]
           \/ /\ r.decision # "trigger" /\ eval.active = 0
              /\ eval' = r.next /\ UNCHANGED alerts
           \/ /\ r.decision # "trigger" /\ eval.active # 0
              /\ alerts' = [alerts EXCEPT ![eval.active] =
                              Followed(alerts[eval.active], at, version, r)]
              /\ eval' = r.next
  BY <1>0, EvaluateStep DEF c
<1>4. /\ r.next \in Evaluation /\ r.next.last = at /\ r.next.active = eval.active
      /\ r.next.pending <= at /\ r.next.clearPending <= at
      /\ eval.active = 0 => r.next.clearPending = None
      /\ eval.active # 0 => r.next.pending = None
      /\ r.decision # "resolve" => r.next.cooldown = eval.cooldown
      /\ r.decision = "resolve" => eval.active # 0 /\ r.next.cooldown = at + c.cooldown
  BY <1>3 DEF Evaluated
<1>9. excursion' \in [Configuration -> Time] /\ clearing' \in [Configuration -> Time]
  BY <1>3
<1>5. CASE /\ r.decision = "trigger"
           /\ alerts' = Append(alerts, NewAlert(at, version, r.next.maximum))
           /\ eval' = [r.next EXCEPT !.active = Len(alerts) + 1]
  <2>1. eval.active = 0 /\ r.next.pending = None /\ r.decision # "resolve"
    BY <1>3, <1>5 DEF Evaluated
  <2>2. r.next.maximum \in Nat /\ Len(alerts) + 1 \in Nat
    BY <1>2, <1>4 DEF Evaluation
  <2>5. PICK m, new : /\ m = r.next.maximum /\ new = NewAlert(at, version, m)
                      /\ alerts' = Append(alerts, new)
    BY <1>5
  <2>3. /\ new \in Alert /\ new.state = "active" /\ new.version = version
        /\ new.triggered = at /\ new.resolved = None
    <3>1. RaisedAt(new, at, version)
      BY <1>1, <1>9, <2>2, <2>5, NewAlertFields
    <3>2. QED
      BY <3>1 DEF RaisedAt
  <2>4. /\ eval' \in Evaluation /\ eval'.active = Len(alerts) + 1
        /\ eval'.last = at /\ eval'.pending = None /\ eval'.clearPending = None
        /\ eval'.cooldown = eval.cooldown
    BY <1>4, <1>5, <2>1, <2>2 DEF Evaluation
  <2>6. QED
    BY <1>1, <1>3, <2>1, <2>3, <2>4, <2>5, TriggerInv
<1>6. CASE r.decision # "trigger" /\ eval.active = 0 /\ eval' = r.next /\ UNCHANGED alerts
  BY <1>2, <1>3, <1>4, <1>6, QuietInv
<1>7. CASE /\ r.decision # "trigger" /\ eval.active # 0
           /\ alerts' = [alerts EXCEPT ![eval.active] =
                           Followed(alerts[eval.active], at, version, r)]
           /\ eval' = r.next
  <2>0. PICK alert : alert = alerts[eval.active]
    OBVIOUS
  <2>1. /\ eval.active \in DOMAIN alerts /\ alert \in Alert /\ alert.state # "closed"
    BY <1>2, <1>7, <2>0 DEF EngineInv, OneOpenAlert
  <2>2. /\ alert.resolved # None <=> alert.state \in {"resolved", "closed"}
        /\ alert.resolved # None =>
             /\ alert.resolvedBy \in DOMAIN versions
             /\ eval.cooldown = alert.resolved + Config(alert.resolvedBy).cooldown
        /\ alert.resolved <= eval.last
    BY <1>2, <1>7, <2>0, <2>1 DEF EngineInv, StateAgrees, OneOpenAlert
  <2>8. PICK after : /\ after = Followed(alert, at, version, r)
                     /\ alerts' = [alerts EXCEPT ![eval.active] = after]
    BY <1>7, <2>0
  <2>3. /\ after \in Alert
        /\ after.version = alert.version /\ after.triggered = alert.triggered
        /\ r.decision # "resolve" =>
             /\ after.state = alert.state /\ after.resolved = alert.resolved
             /\ after.resolvedBy = alert.resolvedBy
        /\ r.decision = "resolve" =>
             /\ after.state = "resolved" /\ after.resolved = at
             /\ after.resolvedBy = version
    <3>1. FollowsTo(alert, at, version, r, after)
      BY <1>1, <1>4, <1>9, <2>1, <2>8, FollowedFields
    <3>2. QED
      BY <3>1 DEF FollowsTo
  <2>4. alert.resolved \in Nat
    BY <2>1, ConstantsAssumption DEF Alert, Time
  <2>5. after.resolved # None =>
          /\ after.resolvedBy \in DOMAIN versions /\ after.resolved <= eval'.last
          /\ eval'.cooldown = after.resolved + Config(after.resolvedBy).cooldown
    <3>1. CASE r.decision = "resolve"
      BY <1>1, <1>2, <1>4, <1>7, <2>3, <3>1 DEF c
    <3>2. CASE r.decision # "resolve"
      BY <1>2, <1>4, <1>7, <2>2, <2>3, <2>4, <3>2
    <3>3. QED
      BY <3>1, <3>2
  <2>6. after.state \in {"resolved", "closed"} <=> after.resolved # None
    BY <1>1, <2>2, <2>3
  <2>7. after.state # "closed"
    BY <2>0, <2>1, <2>3
  <2>9. /\ eval' \in Evaluation /\ eval.last <= eval'.last
        /\ eval'.pending <= eval'.last /\ eval'.clearPending <= eval'.last
        /\ eval'.active = eval.active /\ eval'.pending = None
    BY <1>2, <1>4, <1>7
  <2>10. after.version = alerts[eval.active].version
         /\ after.triggered = alerts[eval.active].triggered
         /\ alerts[eval.active].state # "closed"
    BY <2>0, <2>1, <2>3
  <2>11. QED
    BY <1>3, <2>1, <2>3, <2>5, <2>6, <2>7, <2>8, <2>9, <2>10, MoveInv
<1>8. QED
  BY <1>3, <1>5, <1>6, <1>7

LEMMA AcknowledgeInv ==
  ASSUME EngineInv, NEW a \in DOMAIN alerts, NEW k \in Key, Acknowledge(a, k)
  PROVE  EngineInv'
<1> DEFINE alert == alerts[a]
           after == Moved(alert, "acknowledged", k)
<1>1. alert \in Alert /\ alert.state = "active" /\ eval \in Evaluation
  BY DEF EngineInv, TypeOK, Acknowledge
<1>2. /\ after \in Alert /\ after.state = "acknowledged"
      /\ after.version = alert.version /\ after.triggered = alert.triggered
      /\ after.resolved = alert.resolved
  <2>1. "acknowledged" \in AlertState /\ "closed" \in AlertState /\ k \in Key \cup Time
    BY DEF AlertState
  <2>2. QED
    BY <1>1, <2>1, MovedFields, ZenonT(60)
<1>3. alert.resolved = None /\ a = eval.active
  BY <1>1 DEF EngineInv, StateAgrees, OneOpenAlert
<1> HIDE DEF after
<1>4. /\ alerts' = [alerts EXCEPT ![a] = after]
      /\ UNCHANGED <<versions, enabled, events, work, eval, excursion, clearing>>
  BY DEF Acknowledge, after, rule, history
<1>5. eval.last \in Nat /\ eval.last <= eval.last
  BY <1>1, ConstantsAssumption DEF Evaluation, Time
<1>6. eval.active # 0 /\ eval.pending <= eval.last /\ eval.clearPending <= eval.last
      /\ eval.pending = None
  BY <1>3 DEF EngineInv, StateAgrees, TypeOK
<1>7. excursion \in [Configuration -> Time] /\ clearing \in [Configuration -> Time]
  BY DEF EngineInv, TypeOK
<1>8. QED
  BY <1>1, <1>2, <1>3, <1>4, <1>5, <1>6, <1>7, MoveInv

LEMMA CloseInv ==
  ASSUME EngineInv, NEW a \in DOMAIN alerts, NEW k \in Key, Close(a, k)
  PROVE  EngineInv'
<1> DEFINE alert == alerts[a]
           after == Moved(alert, "closed", k)
<1>1. alert \in Alert /\ alert.state = "resolved" /\ eval \in Evaluation
  BY DEF EngineInv, TypeOK, Close
<1>2. /\ after \in Alert /\ after.state = "closed"
      /\ after.version = alert.version /\ after.triggered = alert.triggered
      /\ after.resolved = alert.resolved /\ after.resolvedBy = alert.resolvedBy
  <2>1. "acknowledged" \in AlertState /\ "closed" \in AlertState /\ k \in Key \cup Time
    BY DEF AlertState
  <2>2. QED
    BY <1>1, <2>1, MovedFields, ZenonT(60)
<1>3. /\ alert.resolved # None /\ a = eval.active /\ a = Len(alerts)
      /\ alert.resolvedBy \in DOMAIN versions /\ alert.resolved <= eval.last
      /\ eval.cooldown = alert.resolved + Config(alert.resolvedBy).cooldown
  <2>1. a = eval.active /\ alert.resolved # None
    BY <1>1 DEF EngineInv, StateAgrees, OneOpenAlert
  <2>2. DOMAIN alerts = 1..Len(alerts)
    BY DEF EngineInv, TypeOK
  <2>3. a = Len(alerts)
    BY <2>1, <2>2 DEF EngineInv, OneOpenAlert
  <2>4. QED
    BY <2>1, <2>3 DEF EngineInv, StateAgrees
<1> HIDE DEF after
<1>4. /\ alerts' = [alerts EXCEPT ![a] = after]
      /\ eval' = Released(a)
      /\ UNCHANGED <<versions, enabled, events, work, excursion, clearing>>
  BY DEF Close, after, rule, history
<1>5. None \in Time /\ 0 \in Nat /\ eval.last \in Nat /\ eval.last <= eval.last
      /\ None <= eval.last
  BY <1>1, ConstantsAssumption DEF Evaluation, Time, None
<1>6. /\ eval' \in Evaluation /\ eval'.last = eval.last /\ eval'.active = 0
      /\ eval'.pending = None /\ eval'.clearPending = None
      /\ eval'.cooldown = eval.cooldown
  BY <1>1, <1>3, <1>4, <1>5 DEF Released, Evaluation
<1>7. excursion \in [Configuration -> Time] /\ clearing \in [Configuration -> Time]
  BY DEF EngineInv, TypeOK
<1>8. QED
  BY <1>1, <1>2, <1>3, <1>4, <1>5, <1>6, <1>7, MoveInv

\* Old versions stay what they were.
LEMMA ReplaceInv ==
  ASSUME EngineInv, NEW c \in Configuration, NEW e \in BOOLEAN, ReplaceRule(c, e)
  PROVE  EngineInv'
<1>1. /\ versions \in Seq(Configuration) /\ DOMAIN versions = 1..Len(versions)
      /\ Len(versions) \in Nat
  BY DEF EngineInv, TypeOK
<1>2. /\ versions' = Append(versions, c) /\ enabled' = e
      /\ UNCHANGED <<events, work, eval, alerts, excursion, clearing>>
  BY DEF ReplaceRule, history
<1>3. /\ versions' \in Seq(Configuration) /\ DOMAIN versions \subseteq DOMAIN versions'
      /\ \A v \in DOMAIN versions : versions'[v] = versions[v]
  BY <1>1, <1>2
<1>4. TypeOK'
  BY <1>2, <1>3 DEF EngineInv, TypeOK
<1>5. OneOpenAlert' /\ StateAgrees'
  BY <1>2, <1>3 DEF EngineInv, OneOpenAlert, StateAgrees, Config
<1>6. QED
  BY <1>4, <1>5 DEF EngineInv

\* The steps of the processor before and instead of an evaluation.
LEMMA FrameInv ==
  ASSUME EngineInv, Deliver \/ MatchRules \/ IgnoreEvent \/ Abort
  PROVE  EngineInv'
<1>1. UNCHANGED <<versions, enabled, eval, alerts, excursion, clearing>>
  BY DEF Deliver, MatchRules, IgnoreEvent, Abort, rule, history
<1>2. OneOpenAlert' /\ StateAgrees'
  BY <1>1 DEF EngineInv, OneOpenAlert, StateAgrees, Config
<1>3. /\ DOMAIN events' \subseteq 1..MaxTime
      /\ \A t \in DOMAIN events' : events'[t] \in Value \cup {Invalid}
      /\ \/ work' = NoWork
         \/ \E t \in DOMAIN events' : work' = [step |-> "match", event |-> t]
         \/ \E t \in DOMAIN events', v \in DOMAIN versions :
              work' = [step |-> "evaluate", event |-> t, version |-> v]
  <2>1. CASE Deliver
    BY <2>1 DEF Deliver, EngineInv, TypeOK
  <2>2. CASE MatchRules
    <3>1. PICK t \in DOMAIN events : work = [step |-> "match", event |-> t]
      BY <2>2 DEF MatchRules, EngineInv, TypeOK, NoWork
    <3>2. UNCHANGED events
      BY <2>2 DEF MatchRules
    <3>3. CASE enabled
      <4>1. work' = [step |-> "evaluate", event |-> t, version |-> Len(versions)]
        BY <2>2, <3>1, <3>3 DEF MatchRules
      <4>2. Len(versions) \in DOMAIN versions
        BY DEF EngineInv, TypeOK
      <4>3. QED
        BY <3>2, <4>1, <4>2 DEF EngineInv, TypeOK
    <3>4. CASE ~enabled
      BY <2>2, <3>2, <3>4 DEF MatchRules, EngineInv, TypeOK
    <3>5. QED
      BY <3>3, <3>4
  <2>3. CASE IgnoreEvent
    BY <2>3 DEF IgnoreEvent, EngineInv, TypeOK
  <2>4. CASE Abort
    <3>1. work.event \in DOMAIN events
      BY <2>4, AtWork DEF Abort
    <3>2. QED
      BY <2>4, <3>1 DEF Abort, EngineInv, TypeOK
  <2>5. QED
    BY <2>1, <2>2, <2>3, <2>4
<1>4. TypeOK'
  BY <1>1, <1>3 DEF EngineInv, TypeOK
<1>5. QED
  BY <1>2, <1>4 DEF EngineInv
-----------------------------------------------------------------------------
(* Theorems                                                                *)

LEMMA InitInv == Init => EngineInv
<1> SUFFICES ASSUME Init PROVE EngineInv
  OBVIOUS
<1>1. PICK c \in Configuration : versions = <<c>>
  BY DEF Init
<1>2. None \in Time /\ None = 0
  BY ConstantsAssumption DEF None, Time
<1>3. /\ eval \in Evaluation /\ eval.active = 0 /\ eval.last = 0
      /\ eval.pending = 0 /\ eval.clearPending = 0 /\ alerts = <<>>
  BY <1>2 DEF Init, Evaluation
<1>4. excursion \in [Configuration -> Time] /\ clearing \in [Configuration -> Time]
  BY <1>2 DEF Init
<1>5. DOMAIN events = {} /\ enabled \in BOOLEAN /\ work = NoWork
  BY DEF Init
<1>6. versions \in Seq(Configuration) /\ versions # <<>>
  BY <1>1
<1>7. TypeOK
  BY <1>3, <1>4, <1>5, <1>6 DEF TypeOK
<1>8. OneOpenAlert /\ StateAgrees
  BY <1>2, <1>3 DEF OneOpenAlert, StateAgrees
<1>9. QED
  BY <1>7, <1>8 DEF EngineInv

LEMMA NextInv == EngineInv /\ [Next]_vars => EngineInv'
<1> SUFFICES ASSUME EngineInv, [Next]_vars PROVE EngineInv'
  OBVIOUS
<1>1. CASE Deliver \/ MatchRules \/ IgnoreEvent \/ Abort
  BY <1>1, FrameInv
<1>2. CASE EvaluateRule
  BY <1>2, EvaluateInv
<1>3. CASE \E a \in DOMAIN alerts, k \in Key : Acknowledge(a, k) \/ Close(a, k)
  BY <1>3, AcknowledgeInv, CloseInv
<1>4. CASE \E c \in Configuration, e \in BOOLEAN : ReplaceRule(c, e)
  BY <1>4, ReplaceInv
<1>5. CASE UNCHANGED vars
  BY <1>5 DEF vars, rule, history, EngineInv, TypeOK, OneOpenAlert, StateAgrees, Config
<1>6. QED
  BY <1>1, <1>2, <1>3, <1>4, <1>5 DEF Next

\* For every rule, value and number of versions, a rule and resource have at
\* most one open alert, the newest, and it is the one the evaluation state
\* points to; evaluation state and alerts tell the same story.
THEOREM EngineInvariant == Spec => []EngineInv
<1>1. Init => EngineInv
  BY InitInv
<1>2. EngineInv /\ [Next]_vars => EngineInv'
  BY NextInv
<1>3. QED
  BY <1>1, <1>2, PTL DEF Spec
-----------------------------------------------------------------------------
(* What the steps do to the alerts                                         *)

Raised(at, version, new, r) ==
  /\ r.decision = "trigger"
  /\ RaisedAt(new, at, version)
  /\ alerts' = Append(alerts, new)
  /\ eval'.pending = None /\ eval'.clearPending = None

Quiet(r) ==
  /\ r.decision # "trigger" /\ eval.active = 0
  /\ eval' = r.next /\ UNCHANGED alerts

Follows(at, version, after, r) ==
  /\ r.decision # "trigger" /\ eval.active # 0
  /\ FollowsTo(alerts[eval.active], at, version, r, after)
  /\ alerts' = [alerts EXCEPT ![eval.active] = after]
  /\ eval' = r.next

\* The effect of evaluating value v of the event at, with outcome r.
EvaluatesTo(at, version, v, r) ==
  /\ eval.last < at /\ eval'.last = at
  /\ Evaluated(versions[version], at, v, r) /\ Observe(at, v)
  /\ UNCHANGED versions
  /\ \/ \E new : Raised(at, version, new, r)
     \/ Quiet(r)
     \/ \E after : Follows(at, version, after, r)

LEMMA EvaluateEffect ==
  ASSUME EngineInv, EvaluateRule
  PROVE  \E at \in Time \ {None}, version \in DOMAIN versions, v \in Value \cup {Invalid} :
           \E r : EvaluatesTo(at, version, v, r)
<1>0. PICK at, version, v : at = work.event /\ version = work.version /\ v = events[at]
  OBVIOUS
<1>1. /\ at \in Time \ {None} /\ version \in DOMAIN versions
      /\ versions \in Seq(Configuration) /\ eval.last < at
      /\ Config(version) = versions[version]
      /\ v \in Value \cup {Invalid}
  BY <1>0, AtWork DEF EvaluateRule, Config
<1>2. Observe(at, v)
  BY <1>0 DEF EvaluateRule
<1>3. PICK r :
        /\ Evaluated(Config(version), at, v, r)
        /\ excursion' \in [Configuration -> Time] /\ clearing' \in [Configuration -> Time]
        /\ UNCHANGED versions
        /\ \/ /\ r.decision = "trigger"
              /\ alerts' = Append(alerts, NewAlert(at, version, r.next.maximum))
              /\ eval' = [r.next EXCEPT !.active = Len(alerts) + 1]
           \/ /\ r.decision # "trigger" /\ eval.active = 0
              /\ eval' = r.next /\ UNCHANGED alerts
           \/ /\ r.decision # "trigger" /\ eval.active # 0
              /\ alerts' = [alerts EXCEPT ![eval.active] =
                              Followed(alerts[eval.active], at, version, r)]
              /\ eval' = r.next
  BY <1>0, EvaluateStep
<1>4. r.next \in Evaluation /\ r.next.last = at
  BY <1>3 DEF Evaluated
<1>5. Evaluated(versions[version], at, v, r)
  BY <1>1, <1>3
<1>6. excursion' \in [Configuration -> Time] /\ clearing' \in [Configuration -> Time]
  BY <1>3
<1>7. CASE /\ r.decision = "trigger"
           /\ alerts' = Append(alerts, NewAlert(at, version, r.next.maximum))
           /\ eval' = [r.next EXCEPT !.active = Len(alerts) + 1]
  <2>1. PICK m, new : /\ m = r.next.maximum /\ new = NewAlert(at, version, m)
                      /\ alerts' = Append(alerts, new)
    BY <1>7
  <2>2. m \in Nat
    BY <1>4, <2>1 DEF Evaluation
  <2>3. RaisedAt(new, at, version)
    BY <1>1, <1>6, <2>1, <2>2, NewAlertFields
  <2>4. r.next.pending = None /\ r.next.clearPending = None
    BY <1>3, <1>7 DEF Evaluated
  <2>5. eval'.last = at /\ eval'.pending = None /\ eval'.clearPending = None
    BY <1>4, <1>7, <2>4 DEF Evaluation
  <2>6. Raised(at, version, new, r)
    BY <1>7, <2>1, <2>3, <2>5 DEF Raised
  <2>7. EvaluatesTo(at, version, v, r)
    BY <1>1, <1>2, <1>3, <1>5, <2>5, <2>6 DEF EvaluatesTo
  <2>8. QED
    BY <1>1, <2>7
<1>8. CASE r.decision # "trigger" /\ eval.active = 0 /\ eval' = r.next /\ UNCHANGED alerts
  <2>1. eval'.last = at /\ Quiet(r)
    BY <1>4, <1>8 DEF Quiet
  <2>2. EvaluatesTo(at, version, v, r)
    BY <1>1, <1>2, <1>3, <1>5, <2>1 DEF EvaluatesTo
  <2>3. QED
    BY <1>1, <2>2
<1>9. CASE /\ r.decision # "trigger" /\ eval.active # 0
           /\ alerts' = [alerts EXCEPT ![eval.active] =
                           Followed(alerts[eval.active], at, version, r)]
           /\ eval' = r.next
  <2>1. PICK alert, after : /\ alert = alerts[eval.active]
                            /\ after = Followed(alert, at, version, r)
                            /\ alerts' = [alerts EXCEPT ![eval.active] = after]
    BY <1>9
  <2>2. alert \in Alert
    <3>1. eval.active \in DOMAIN alerts /\ alerts \in Seq(Alert)
      BY <1>9 DEF EngineInv, TypeOK, OneOpenAlert
    <3>2. QED
      BY <2>1, <3>1
  <2>3. FollowsTo(alert, at, version, r, after)
    BY <1>1, <1>4, <1>6, <2>1, <2>2, FollowedFields
  <2>4. Follows(at, version, after, r)
    BY <1>9, <2>1, <2>3 DEF Follows
  <2>5. EvaluatesTo(at, version, v, r)
    BY <1>1, <1>2, <1>3, <1>4, <1>5, <1>9, <2>4 DEF EvaluatesTo
  <2>6. QED
    BY <1>1, <2>5
<1>10. QED
  BY <1>3, <1>7, <1>8, <1>9

\* An operator's move, and the steps that leave alerts and evaluation alone.
LEMMA OperatorEffect ==
  ASSUME EngineInv, NEW a \in DOMAIN alerts, NEW k \in Key, Acknowledge(a, k) \/ Close(a, k)
  PROVE  \E state \in AlertState, after \in Alert :
           /\ \/ alerts[a].state = "active" /\ state = "acknowledged" /\ UNCHANGED eval
              \/ alerts[a].state = "resolved" /\ state = "closed" /\ eval' = Released(a)
           /\ after = Moved(alerts[a], state, k)
           /\ alerts' = [alerts EXCEPT ![a] = after]
           /\ UNCHANGED <<versions, excursion, clearing>>
<1>1. PICK alert : alert = alerts[a] /\ alert \in Alert
  BY DEF EngineInv, TypeOK
<1>2. CASE Acknowledge(a, k)
  <2>1. PICK after : after = Moved(alert, "acknowledged", k)
    OBVIOUS
  <2>2. after \in Alert /\ "acknowledged" \in AlertState
    BY <1>1, <2>1, MovedFields DEF AlertState
  <2>3. QED
    BY <1>1, <1>2, <2>1, <2>2 DEF Acknowledge, rule, history
<1>3. CASE Close(a, k)
  <2>1. PICK after : after = Moved(alert, "closed", k)
    OBVIOUS
  <2>2. after \in Alert /\ "closed" \in AlertState
    BY <1>1, <2>1, MovedFields DEF AlertState
  <2>3. QED
    BY <1>1, <1>3, <2>1, <2>2 DEF Close, rule, history
<1>4. QED
  BY <1>2, <1>3

LEMMA FrameEffect ==
  ASSUME EngineInv,
         \/ Deliver \/ MatchRules \/ IgnoreEvent \/ Abort \/ UNCHANGED vars
         \/ \E c \in Configuration, e \in BOOLEAN : ReplaceRule(c, e)
  PROVE  /\ UNCHANGED <<eval, alerts, excursion, clearing>>
         /\ DOMAIN versions \subseteq DOMAIN versions'
         /\ \A v \in DOMAIN versions : versions'[v] = versions[v]
<1>1. CASE Deliver \/ MatchRules \/ IgnoreEvent \/ Abort \/ UNCHANGED vars
  BY <1>1 DEF Deliver, MatchRules, IgnoreEvent, Abort, rule, history, vars
<1>2. ASSUME NEW c \in Configuration, NEW e \in BOOLEAN, ReplaceRule(c, e)
      PROVE  /\ UNCHANGED <<eval, alerts, excursion, clearing>>
             /\ DOMAIN versions \subseteq DOMAIN versions'
             /\ \A v \in DOMAIN versions : versions'[v] = versions[v]
  BY <1>2 DEF ReplaceRule, history, EngineInv, TypeOK
<1>3. QED
  BY <1>1, <1>2
-----------------------------------------------------------------------------
(* The cooldown                                                            *)

LEMMA RaiseKeepsCooldown ==
  ASSUME EngineInv, CooldownKept, UNCHANGED versions,
         NEW at \in Time \ {None}, NEW version \in DOMAIN versions, NEW v, NEW new, NEW r,
         eval.last < at, Evaluated(versions[version], at, v, r),
         Raised(at, version, new, r)
  PROVE  CooldownKept'
<1>1. /\ alerts \in Seq(Alert) /\ Len(alerts) \in Nat /\ DOMAIN alerts = 1..Len(alerts)
      /\ eval \in Evaluation /\ versions \in Seq(Configuration)
  BY DEF EngineInv, TypeOK
<1>2. /\ eval.active = 0 /\ ~InCooldown(at) /\ new.triggered = at
      /\ alerts' = Append(alerts, new)
  BY DEF Evaluated, Raised, RaisedAt
<1>3. /\ DOMAIN alerts' = 1..(Len(alerts) + 1) /\ alerts'[Len(alerts) + 1] = new
      /\ \A a \in DOMAIN alerts : alerts'[a] = alerts[a]
  BY <1>1, <1>2
<1>4. ASSUME NEW a \in DOMAIN alerts', a > 1
      PROVE  /\ alerts'[a - 1].state = "closed"
             /\ alerts'[a].triggered > alerts'[a - 1].resolved
             /\ alerts'[a].triggered >= alerts'[a - 1].resolved
                  + versions[alerts'[a - 1].resolvedBy].cooldown
  <2>1. a - 1 \in DOMAIN alerts /\ alerts'[a - 1] = alerts[a - 1]
    BY <1>1, <1>3, <1>4
  <2>2. CASE a \in DOMAIN alerts
    BY <1>3, <1>4, <2>1, <2>2 DEF CooldownKept, Config
  <2>3. CASE a \notin DOMAIN alerts
    <3>1. PICK b, before : b = a - 1 /\ before = alerts[b]
      OBVIOUS
    <3>2. b = Len(alerts) /\ b \in DOMAIN alerts /\ alerts'[a] = new /\ a = Len(alerts) + 1
      BY <1>1, <1>3, <2>1, <2>3, <3>1
    <3>3. before.state = "closed" /\ before \in Alert
      BY <1>1, <1>2, <3>1, <3>2 DEF EngineInv, OneOpenAlert
    <3>4. /\ before.resolved # None /\ before.resolved <= eval.last
          /\ before.resolvedBy \in DOMAIN versions
          /\ eval.cooldown = before.resolved + versions[before.resolvedBy].cooldown
      BY <3>1, <3>2, <3>3 DEF EngineInv, StateAgrees, Config
    <3>5. /\ before.resolved \in Nat /\ eval.last \in Nat /\ at \in Nat
          /\ versions[before.resolvedBy].cooldown \in Nat
      <4>1. before.resolved \in Time /\ eval.last \in Time
        BY <1>1, <3>3 DEF Alert, Evaluation
      <4>2. versions[before.resolvedBy] \in Configuration
        BY <1>1, <3>4
      <4>3. QED
        BY <4>1, <4>2, ConstantsAssumption DEF Time
    <3>6. at >= eval.cooldown
      BY <1>2, <3>4, <3>5 DEF InCooldown, None
    <3>7. at > before.resolved /\ at >= before.resolved + versions[before.resolvedBy].cooldown
      BY <3>4, <3>5, <3>6
    <3>8. QED
      BY <1>2, <2>1, <3>1, <3>2, <3>3, <3>7
  <2>4. QED
    BY <2>2, <2>3
<1>5. QED
  BY <1>4 DEF CooldownKept, Config

\* Moving the open alert leaves what the cooldown is about.
LEMMA MoveKeepsCooldown ==
  ASSUME EngineInv, CooldownKept, UNCHANGED versions,
         NEW a \in DOMAIN alerts, NEW after, after.triggered = alerts[a].triggered,
         alerts[a].state # "closed", alerts' = [alerts EXCEPT ![a] = after]
  PROVE  CooldownKept'
<1>1. /\ alerts \in Seq(Alert) /\ Len(alerts) \in Nat /\ DOMAIN alerts = 1..Len(alerts)
      /\ a = Len(alerts)
  BY DEF EngineInv, TypeOK, OneOpenAlert
<1>2. DOMAIN alerts' = DOMAIN alerts /\ alerts'[a] = after
      /\ \A b \in DOMAIN alerts : b # a => alerts'[b] = alerts[b]
  BY <1>1
<1>3. \A b \in DOMAIN alerts : b > 1 => b - 1 \in DOMAIN alerts /\ b - 1 # a
  BY <1>1
<1>4. \A b \in DOMAIN alerts : alerts'[b].triggered = alerts[b].triggered
  BY <1>2
<1>5. QED
  BY <1>2, <1>3, <1>4 DEF CooldownKept, Config

LEMMA NextCooldown == EngineInv /\ CooldownKept /\ [Next]_vars => CooldownKept'
<1> SUFFICES ASSUME EngineInv, CooldownKept, [Next]_vars PROVE CooldownKept'
  OBVIOUS
<1>1. CASE \/ Deliver \/ MatchRules \/ IgnoreEvent \/ Abort \/ UNCHANGED vars
           \/ \E c \in Configuration, e \in BOOLEAN : ReplaceRule(c, e)
  <2>1. /\ UNCHANGED alerts
        /\ \A v \in DOMAIN versions : versions'[v] = versions[v]
    BY <1>1, FrameEffect
  <2>2. ASSUME NEW a \in DOMAIN alerts, a > 1
        PROVE  a - 1 \in DOMAIN alerts /\ alerts[a - 1].resolvedBy \in DOMAIN versions
    <3>1. a - 1 \in DOMAIN alerts
      BY <2>2 DEF EngineInv, TypeOK
    <3>2. alerts[a - 1].state = "closed"
      BY <2>2 DEF CooldownKept
    <3>3. QED
      BY <3>1, <3>2 DEF EngineInv, StateAgrees
  <2>3. QED
    BY <2>1, <2>2 DEF CooldownKept, Config
<1>2. CASE EvaluateRule
  <2>0. PICK at \in Time \ {None}, version \in DOMAIN versions, v \in Value \cup {Invalid} :
           \E r : EvaluatesTo(at, version, v, r)
    BY <1>2, EvaluateEffect
  <2>1. PICK r :
          /\ eval.last < at
          /\ Evaluated(versions[version], at, v, r)
          /\ UNCHANGED versions
          /\ \/ \E new : Raised(at, version, new, r)
             \/ Quiet(r)
             \/ \E after : Follows(at, version, after, r)
    BY <2>0 DEF EvaluatesTo
  <2>2. ASSUME NEW new, Raised(at, version, new, r) PROVE CooldownKept'
    BY <2>1, <2>2, RaiseKeepsCooldown
  <2>3. CASE Quiet(r)
    BY <2>1, <2>3 DEF Quiet, CooldownKept, Config
  <2>4. ASSUME NEW after, Follows(at, version, after, r) PROVE CooldownKept'
    <3>1. eval.active \in DOMAIN alerts /\ alerts[eval.active].state # "closed"
      BY <2>4 DEF Follows, EngineInv, TypeOK, OneOpenAlert
    <3>2. /\ after.triggered = alerts[eval.active].triggered
          /\ alerts' = [alerts EXCEPT ![eval.active] = after]
      BY <2>4 DEF Follows, FollowsTo
    <3>3. QED
      BY <2>1, <3>1, <3>2, MoveKeepsCooldown
  <2>5. QED
    BY <2>1, <2>2, <2>3, <2>4
<1>3. ASSUME NEW a \in DOMAIN alerts, NEW k \in Key, Acknowledge(a, k) \/ Close(a, k)
      PROVE  CooldownKept'
  <2>1. PICK state \in AlertState, after \in Alert :
          /\ alerts[a].state \in {"active", "resolved"}
          /\ after = Moved(alerts[a], state, k)
          /\ alerts' = [alerts EXCEPT ![a] = after] /\ UNCHANGED versions
    BY <1>3, OperatorEffect
  <2>2. PICK alert : alert = alerts[a] /\ alert \in Alert
    BY DEF EngineInv, TypeOK
  <2>3. after.triggered = alert.triggered
    <3>1. after = Moved(alert, state, k) /\ k \in Key \cup Time
      BY <2>1, <2>2
    <3>2. Moved(alert, state, k).triggered = alert.triggered
      BY <2>2, <3>1, MovedFields
    <3>3. QED
      BY <3>1, <3>2
  <2>4. QED
    BY <2>1, <2>2, <2>3, MoveKeepsCooldown
<1>4. QED
  BY <1>1, <1>2, <1>3 DEF Next

\* Whatever rules are replaced and whenever operators close: the same rule and
\* resource raise no new alert within the cooldown of the last resolution.
THEOREM Cooldown == Spec => []CooldownKept
<1>1. Init => CooldownKept
  BY DEF Init, CooldownKept
<1>2. EngineInv /\ CooldownKept /\ [Next]_vars => CooldownKept'
  BY NextCooldown
<1>3. QED
  BY <1>1, <1>2, EngineInvariant, PTL DEF Spec
-----------------------------------------------------------------------------
(* The lifecycle                                                           *)

Orderly(before, after) ==
  /\ before.state = "closed" => after = before
  /\ before.state = "acknowledged" => after.state \in {"acknowledged", "resolved"}
  /\ before.state = "resolved" => after.state \in {"resolved", "closed"}

LEMMA NextOrderly ==
  ASSUME EngineInv, [Next]_vars
  PROVE  eval'.last >= eval.last /\ \A a \in DOMAIN alerts : Orderly(alerts[a], alerts'[a])
<1>1. /\ alerts \in Seq(Alert) /\ DOMAIN alerts = 1..Len(alerts) /\ Len(alerts) \in Nat
      /\ eval \in Evaluation
  BY DEF EngineInv, TypeOK
<1>2. eval.last \in Nat /\ eval.last >= eval.last
  <2>1. eval.last \in Time
    BY <1>1 DEF Evaluation
  <2>2. QED
    BY <2>1, ConstantsAssumption DEF Time
<1>3. CASE \/ Deliver \/ MatchRules \/ IgnoreEvent \/ Abort \/ UNCHANGED vars
           \/ \E c \in Configuration, e \in BOOLEAN : ReplaceRule(c, e)
  <2>1. UNCHANGED <<eval, alerts>>
    BY <1>3, FrameEffect
  <2>2. QED
    BY <1>2, <2>1 DEF Orderly
<1>4. CASE EvaluateRule
  <2>0. PICK at \in Time \ {None}, version \in DOMAIN versions, v \in Value \cup {Invalid} :
           \E r : EvaluatesTo(at, version, v, r)
    BY <1>4, EvaluateEffect
  <2>1. PICK r :
          /\ eval.last < at /\ eval'.last = at
          /\ \/ \E new : Raised(at, version, new, r)
             \/ Quiet(r)
             \/ \E after : Follows(at, version, after, r)
    BY <2>0 DEF EvaluatesTo
  <2>2. eval'.last >= eval.last
    BY <1>2, <2>1, ConstantsAssumption DEF Time
  <2>3. ASSUME NEW new, Raised(at, version, new, r)
        PROVE  \A a \in DOMAIN alerts : alerts'[a] = alerts[a]
    <3>1. new \in Alert /\ alerts' = Append(alerts, new)
      BY <2>3 DEF Raised, RaisedAt
    <3>2. QED
      BY <1>1, <3>1
  <2>4. ASSUME NEW after, Follows(at, version, after, r)
        PROVE  \A a \in DOMAIN alerts : Orderly(alerts[a], alerts'[a])
    <3>1. /\ FollowsTo(alerts[eval.active], at, version, r, after)
          /\ alerts' = [alerts EXCEPT ![eval.active] = after]
          /\ alerts[eval.active].state # "closed" /\ eval.active \in DOMAIN alerts
      BY <1>1, <2>4 DEF Follows, EngineInv, OneOpenAlert
    <3>2. Orderly(alerts[eval.active], after)
      BY <3>1 DEF FollowsTo, Orderly
    <3>3. QED
      BY <1>1, <3>1, <3>2 DEF Orderly
  <2>5. QED
    BY <2>1, <2>2, <2>3, <2>4 DEF Quiet, Orderly
<1>5. ASSUME NEW a \in DOMAIN alerts, NEW k \in Key, Acknowledge(a, k) \/ Close(a, k)
      PROVE  eval'.last >= eval.last /\ \A b \in DOMAIN alerts : Orderly(alerts[b], alerts'[b])
  <2>1. PICK state \in AlertState, after \in Alert :
          /\ \/ alerts[a].state = "active" /\ state = "acknowledged" /\ UNCHANGED eval
             \/ alerts[a].state = "resolved" /\ state = "closed" /\ eval' = Released(a)
          /\ after = Moved(alerts[a], state, k)
          /\ alerts' = [alerts EXCEPT ![a] = after]
    BY <1>5, OperatorEffect
  <2>2. eval'.last = eval.last
    BY <1>1, <2>1 DEF Released, Evaluation
  <2>3. PICK alert : alert = alerts[a] /\ alert \in Alert
    BY <1>1
  <2>4. after = Moved(alert, state, k) /\ k \in Key \cup Time
    BY <2>1, <2>3
  <2>5. after.state = state
    BY <2>3, <2>4, MovedFields
  <2>6. Orderly(alerts[a], after)
    BY <2>1, <2>5 DEF Orderly
  <2>7. QED
    BY <1>1, <1>2, <2>1, <2>2, <2>6 DEF Orderly
<1>6. QED
  BY <1>3, <1>4, <1>5 DEF Next

\* Alerts move only forward and a closed one never again; the evaluation never
\* goes back behind an event it has accepted.
THEOREM Lifecycle == Spec => LifecycleOrder
<1>1. EngineInv /\ [Next]_vars =>
        [/\ eval'.last >= eval.last
         /\ \A a \in DOMAIN alerts :
              /\ alerts[a].state = "closed" => alerts'[a] = alerts[a]
              /\ alerts[a].state = "acknowledged" => alerts'[a].state \in {"acknowledged", "resolved"}
              /\ alerts[a].state = "resolved" => alerts'[a].state \in {"resolved", "closed"}]_vars
  BY NextOrderly DEF Orderly
<1>2. QED
  BY <1>1, EngineInvariant, PTL DEF Spec, LifecycleOrder

-----------------------------------------------------------------------------
(* Sustained conditions, for a rule that is not replaced                   *)

\* What the evaluation has pending has held since then.
PendingHolds ==
  /\ \A v \in DOMAIN versions : v = 1
  /\ excursion[versions[1]] <= eval.last /\ clearing[versions[1]] <= eval.last
  /\ eval.pending # None =>
       excursion[versions[1]] # None /\ excursion[versions[1]] <= eval.pending
  /\ eval.clearPending # None =>
       clearing[versions[1]] # None /\ clearing[versions[1]] <= eval.clearPending

SustainedInv == PendingHolds /\ SustainedTrigger /\ SustainedClear

LEMMA InitSustained == Init => SustainedInv
<1> SUFFICES ASSUME Init PROVE SustainedInv
  OBVIOUS
<1>1. PICK c \in Configuration : versions = <<c>>
  BY DEF Init
<1>2. versions[1] = c /\ \A v \in DOMAIN versions : v = 1
  BY <1>1
<1>3. /\ excursion[c] = None /\ clearing[c] = None /\ alerts = <<>>
      /\ eval.last = None /\ eval.pending = None /\ eval.clearPending = None
  BY DEF Init
<1>4. PendingHolds
  BY <1>2, <1>3 DEF PendingHolds, None
<1>5. QED
  BY <1>3, <1>4 DEF SustainedInv, SustainedTrigger, SustainedClear

\* The histories agree with the pending times of an accepted event.
LEMMA ObservedHolds ==
  ASSUME EngineInv, PendingHolds, NEW at \in Time \ {None}, NEW v, NEW r,
         eval.last < at, Evaluated(versions[1], at, v, r), Observe(at, v)
  PROVE  /\ excursion'[versions[1]] <= at /\ clearing'[versions[1]] <= at
         /\ r.next.pending # None =>
              excursion'[versions[1]] # None /\ excursion'[versions[1]] <= r.next.pending
         /\ r.next.clearPending # None =>
              clearing'[versions[1]] # None /\ clearing'[versions[1]] <= r.next.clearPending
         /\ r.decision = "trigger" =>
              /\ excursion'[versions[1]] # None
              /\ at >= excursion'[versions[1]] + versions[1].hold
         /\ r.decision = "resolve" =>
              /\ clearing'[versions[1]] # None
              /\ at >= clearing'[versions[1]] + versions[1].clearHold
<1>1. PICK c : c = versions[1] /\ c \in Configuration
  BY DEF EngineInv, TypeOK
<1>2. /\ c.hold \in Nat /\ c.clearHold \in Nat /\ at \in Nat /\ at # 0
  BY <1>1, ConstantsAssumption DEF Time, None
<1>3. PICK p, q, e, d, last : /\ p = eval.pending /\ q = eval.clearPending
                              /\ e = excursion[c] /\ d = clearing[c] /\ last = eval.last
  OBVIOUS
<1>4. p \in Nat /\ q \in Nat /\ e \in Nat /\ d \in Nat /\ last \in Nat
  <2>1. p \in Time /\ q \in Time /\ e \in Time /\ d \in Time /\ last \in Time
    BY <1>1, <1>3 DEF EngineInv, TypeOK, Evaluation
  <2>2. QED
    BY <2>1, ConstantsAssumption DEF Time
<1>5. /\ p # None => e # None /\ e <= p
      /\ q # None => d # None /\ d <= q
      /\ e <= at /\ d <= at /\ p <= at /\ q <= at
  <2>1. p <= last /\ q <= last /\ last < at /\ e <= last /\ d <= last
    BY <1>1, <1>3 DEF PendingHolds, EngineInv, StateAgrees
  <2>2. e <= at /\ d <= at /\ p <= at /\ q <= at
    BY <1>2, <1>4, <2>1
  <2>3. QED
    BY <1>1, <1>3, <2>2 DEF PendingHolds
<1>6. /\ excursion'[c] = IF v # Invalid /\ IsTriggered(c, v) THEN Since(e, at) ELSE None
      /\ clearing'[c] = IF v # Invalid /\ IsClear(c, v) THEN Since(d, at) ELSE None
  BY <1>1, <1>3 DEF Observe
<1>7. /\ Since(e, at) # None /\ Since(d, at) # None
      /\ Since(e, at) \in Nat /\ Since(d, at) \in Nat
      /\ Since(p, at) \in Nat /\ Since(q, at) \in Nat
      /\ Since(e, at) <= Since(p, at) /\ Since(d, at) <= Since(q, at)
      /\ Since(e, at) <= at /\ Since(d, at) <= at /\ None <= at
  BY <1>2, <1>4, <1>5 DEF Since, None
<1>8. /\ r.decision = "trigger" => /\ v # Invalid /\ IsTriggered(c, v)
                                  /\ at >= Since(p, at) + c.hold
      /\ r.decision = "resolve" => /\ v # Invalid /\ IsClear(c, v)
                                  /\ at >= Since(q, at) + c.clearHold
      /\ r.next.pending # None => v # Invalid /\ IsTriggered(c, v) /\ r.next.pending = Since(p, at)
      /\ r.next.clearPending # None => v # Invalid /\ IsClear(c, v) /\ r.next.clearPending = Since(q, at)
  BY <1>1, <1>3 DEF Evaluated
<1>9. PICK x, y : x = excursion'[c] /\ y = clearing'[c]
  OBVIOUS
<1>10. /\ r.decision = "trigger" => x # None /\ at >= x + c.hold
       /\ r.decision = "resolve" => y # None /\ at >= y + c.clearHold
  BY <1>2, <1>6, <1>7, <1>8, <1>9
<1>11. /\ r.next.pending # None => x # None /\ x <= r.next.pending
       /\ r.next.clearPending # None => y # None /\ y <= r.next.clearPending
  BY <1>6, <1>7, <1>8, <1>9
<1>12. x <= at /\ y <= at
  BY <1>6, <1>7, <1>9
<1>13. QED
  BY <1>1, <1>9, <1>10, <1>11, <1>12
\* One alert that was not raised or resolved too early.
Justified(alert) ==
  /\ alert.since # None
  /\ alert.triggered >= alert.since + versions[alert.version].hold
  /\ alert.resolved # None =>
       /\ alert.clearSince # None
       /\ alert.resolved >= alert.clearSince + versions[alert.resolvedBy].clearHold

LEMMA SustainedIsJustified ==
  SustainedTrigger /\ SustainedClear <=> \A a \in DOMAIN alerts : Justified(alerts[a])
  BY DEF SustainedTrigger, SustainedClear, Justified, Config

LEMMA EvaluateSustained ==
  ASSUME EngineInv, SustainedInv, EvaluateRule
  PROVE  SustainedInv'
<1>0. PICK at \in Time \ {None}, version \in DOMAIN versions, v \in Value \cup {Invalid} :
         \E r : EvaluatesTo(at, version, v, r)
  BY EvaluateEffect
<1>1. PICK r :
        /\ eval.last < at /\ eval'.last = at
        /\ Evaluated(versions[version], at, v, r) /\ Observe(at, v)
        /\ UNCHANGED versions
        /\ \/ \E new : Raised(at, version, new, r)
           \/ Quiet(r)
           \/ \E after : Follows(at, version, after, r)
  BY <1>0 DEF EvaluatesTo
<1>2. PICK c : c = versions[1]
  OBVIOUS
<1>3. version = 1 /\ versions[version] = c /\ Evaluated(versions[1], at, v, r)
  BY <1>1, <1>2 DEF SustainedInv, PendingHolds
<1>4. /\ excursion'[c] <= at /\ clearing'[c] <= at
      /\ r.next.pending # None => excursion'[c] # None /\ excursion'[c] <= r.next.pending
      /\ r.next.clearPending # None => clearing'[c] # None /\ clearing'[c] <= r.next.clearPending
      /\ r.decision = "trigger" => excursion'[c] # None /\ at >= excursion'[c] + c.hold
      /\ r.decision = "resolve" => clearing'[c] # None /\ at >= clearing'[c] + c.clearHold
  BY <1>1, <1>2, <1>3, ObservedHolds DEF SustainedInv
<1>5. \A a \in DOMAIN alerts : Justified(alerts[a])
  BY SustainedIsJustified DEF SustainedInv
<1>6. alerts \in Seq(Alert) /\ DOMAIN alerts = 1..Len(alerts) /\ Len(alerts) \in Nat
  BY DEF EngineInv, TypeOK
<1>7. /\ \/ eval'.pending = None /\ eval'.clearPending = None
         \/ eval'.pending = r.next.pending /\ eval'.clearPending = r.next.clearPending
      /\ versions' = versions
  BY <1>1 DEF Raised, Quiet, Follows
<1>8. PendingHolds'
  BY <1>1, <1>2, <1>4, <1>7 DEF SustainedInv, PendingHolds
<1>9. \A a \in DOMAIN alerts' : Justified(alerts'[a])
  <2>1. ASSUME NEW new, Raised(at, version, new, r)
        PROVE  \A a \in DOMAIN alerts' : Justified(alerts'[a])
    <3>1. new \in Alert /\ alerts' = Append(alerts, new) /\ r.decision = "trigger"
      BY <2>1 DEF Raised, RaisedAt
    <3>2. Justified(new)
      BY <1>2, <1>3, <1>4, <2>1 DEF Raised, RaisedAt, Justified
    <3>3. \A a \in DOMAIN alerts' : alerts'[a] = new \/ (a \in DOMAIN alerts /\ alerts'[a] = alerts[a])
      BY <1>6, <3>1
    <3>4. QED
      BY <1>5, <3>2, <3>3
  <2>2. CASE Quiet(r)
    BY <1>5, <2>2 DEF Quiet
  <2>3. ASSUME NEW after, Follows(at, version, after, r)
        PROVE  \A a \in DOMAIN alerts' : Justified(alerts'[a])
    <3>1. PICK alert : alert = alerts[eval.active]
      OBVIOUS
    <3>2. /\ FollowsTo(alert, at, version, r, after)
          /\ alerts' = [alerts EXCEPT ![eval.active] = after]
          /\ eval.active \in DOMAIN alerts
      BY <1>6, <2>3, <3>1 DEF Follows, EngineInv, OneOpenAlert
    <3>3. Justified(alert)
      BY <1>5, <3>1, <3>2
    <3>4. Justified(after)
      <4>1. CASE r.decision = "resolve"
        BY <1>2, <1>3, <1>4, <3>2, <3>3, <4>1 DEF FollowsTo, Justified
      <4>2. CASE r.decision # "resolve"
        BY <3>2, <3>3, <4>2 DEF FollowsTo, Justified
      <4>3. QED
        BY <4>1, <4>2
    <3>5. \A a \in DOMAIN alerts' : alerts'[a] = after \/ (a \in DOMAIN alerts /\ alerts'[a] = alerts[a])
      BY <1>6, <3>2
    <3>6. QED
      BY <1>5, <3>4, <3>5
  <2>4. QED
    BY <1>1, <2>1, <2>2, <2>3
<1>10. SustainedTrigger' /\ SustainedClear'
  BY <1>7, <1>9 DEF Justified, SustainedTrigger, SustainedClear, Config
<1>11. QED
  BY <1>8, <1>10 DEF SustainedInv

\* Only a replacement changes the versions, and it leaves more than one.
LEMMA ReplacedLength ==
  ASSUME EngineInv, NEW c \in Configuration, NEW e \in BOOLEAN, ReplaceRule(c, e)
  PROVE  Len(versions') # 1
<1>1. versions \in Seq(Configuration) /\ versions # <<>>
  BY DEF EngineInv, TypeOK
<1>2. Len(versions) \in Nat \ {0} /\ versions' = Append(versions, c)
  BY <1>1 DEF ReplaceRule
<1>3. Len(versions') = Len(versions) + 1
  BY <1>1, <1>2
<1>4. QED
  BY <1>2, <1>3

LEMMA VersionsKept ==
  ASSUME EngineInv, Len(versions') = 1, [Next]_vars
  PROVE  versions' = versions
<1>1. ASSUME NEW c \in Configuration, NEW e \in BOOLEAN, ReplaceRule(c, e) PROVE FALSE
  BY <1>1, ReplacedLength
<1>2. QED
  BY <1>1 DEF Next, vars, rule, Deliver, MatchRules, EvaluateRule, IgnoreEvent, Abort,
              Acknowledge, Close

LEMMA NextSustained ==
  ASSUME EngineInv, SustainedInv, Len(versions') = 1, [Next]_vars
  PROVE  SustainedInv'
<1>1. ASSUME NEW c \in Configuration, NEW e \in BOOLEAN, ReplaceRule(c, e) PROVE FALSE
  BY <1>1, ReplacedLength
<1>2. CASE Deliver \/ MatchRules \/ IgnoreEvent \/ Abort \/ UNCHANGED vars
  BY <1>2 DEF Deliver, MatchRules, IgnoreEvent, Abort, rule, history, vars,
              SustainedInv, PendingHolds, SustainedTrigger, SustainedClear, Config
<1>3. CASE EvaluateRule
  BY <1>3, EvaluateSustained
<1>4. ASSUME NEW a \in DOMAIN alerts, NEW k \in Key, Acknowledge(a, k) \/ Close(a, k)
      PROVE  SustainedInv'
  <2>1. PICK state \in AlertState, after \in Alert :
          /\ UNCHANGED eval \/ eval' = Released(a)
          /\ after = Moved(alerts[a], state, k)
          /\ alerts' = [alerts EXCEPT ![a] = after]
          /\ UNCHANGED <<versions, excursion, clearing>>
    BY <1>4, OperatorEffect
  <2>2. PICK alert : alert = alerts[a] /\ alert \in Alert
    BY DEF EngineInv, TypeOK
  <2>3. after = Moved(alert, state, k) /\ k \in Key \cup Time
    BY <2>1, <2>2
  <2>4. /\ after.version = alert.version /\ after.triggered = alert.triggered
        /\ after.resolved = alert.resolved /\ after.resolvedBy = alert.resolvedBy
        /\ after.since = alert.since /\ after.clearSince = alert.clearSince
    BY <2>2, <2>3, MovedFields, ZenonT(60)
  <2>5. \A b \in DOMAIN alerts : Justified(alerts[b])
    BY SustainedIsJustified DEF SustainedInv
  <2>6. Justified(after)
    BY <2>2, <2>4, <2>5 DEF Justified
  <2>7. DOMAIN alerts' = DOMAIN alerts
        /\ \A b \in DOMAIN alerts : alerts'[b] = after \/ alerts'[b] = alerts[b]
    BY <2>1 DEF EngineInv, TypeOK
  <2>8. \A b \in DOMAIN alerts' : Justified(alerts'[b])
    BY <2>5, <2>6, <2>7
  <2>9. SustainedTrigger' /\ SustainedClear'
    BY <2>1, <2>8 DEF Justified, SustainedTrigger, SustainedClear, Config
  <2>10. /\ eval'.last = eval.last
         /\ eval'.pending = eval.pending \/ eval'.pending = None
         /\ eval'.clearPending = eval.clearPending \/ eval'.clearPending = None
    BY <2>1 DEF Released, EngineInv, TypeOK, Evaluation
  <2>11. PendingHolds'
    BY <2>1, <2>10 DEF SustainedInv, PendingHolds
  <2>12. QED
    BY <2>9, <2>11 DEF SustainedInv
<1>5. QED
  BY <1>1, <1>2, <1>3, <1>4 DEF Next

\* A rule that is never replaced keeps its word: it raises an alert only when
\* the accepted values have met its trigger condition for the whole holding
\* time, and resolves it only when they have met the clear condition as long.
THEOREM Sustained == Spec => []SustainedUntilReplaced
<1> DEFINE Inv == Len(versions) = 1 => SustainedInv
<1>1. Init => Inv
  BY InitSustained
<1>2. EngineInv /\ Inv /\ [Next]_vars => Inv'
  <2> SUFFICES ASSUME EngineInv, Inv, [Next]_vars, Len(versions') = 1
               PROVE  SustainedInv'
    OBVIOUS
  <2>1. SustainedInv
    BY VersionsKept
  <2>2. QED
    BY <2>1, NextSustained
<1>3. Inv => SustainedUntilReplaced
  BY DEF SustainedInv, SustainedUntilReplaced
<1>4. QED
  BY <1>1, <1>2, <1>3, EngineInvariant, PTL DEF Spec

-----------------------------------------------------------------------------
(* The transitions of an alert                                             *)

\* The trail of one alert, none of whose events lies after the watermark.
GoodTrail(alert, last) ==
  LET trail == alert.trail
  IN  /\ trail # <<>> /\ Last(trail).state = alert.state
      /\ trail[1].previous = "none"
      /\ \A i \in 2..Len(trail) : trail[i].previous = trail[i - 1].state
      /\ \A i \in EventSteps(alert) : trail[i].key \in alert.evidence
      /\ \A i, j \in EventSteps(alert) : i < j => trail[i].key < trail[j].key
      /\ \A i \in EventSteps(alert) : trail[i].key <= last

TrailInv == \A a \in DOMAIN alerts : GoodTrail(alerts[a], eval.last)

LEMMA TrailInvTells == TrailInv => TrailTellsState
  BY DEF TrailInv, TrailTellsState, GoodTrail

TransitionStep == [previous : AlertState \cup {"none"}, state : AlertState,
                   key : Key \cup Time]

LEMMA EventKeys ==
  ASSUME NEW alert \in Alert, NEW i \in EventSteps(alert)
  PROVE  i \in DOMAIN alert.trail /\ alert.trail[i].key \in Nat
<1>1. alert.trail \in Seq(TransitionStep)
  BY DEF Alert, TransitionStep
<1>2. i \in DOMAIN alert.trail /\ alert.trail[i].key \notin Key
  BY DEF EventSteps
<1>3. alert.trail[i] \in TransitionStep
  BY <1>1, <1>2
<1>4. alert.trail[i].key \in Time
  BY <1>2, <1>3 DEF TransitionStep
<1>5. QED
  BY <1>2, <1>4, ConstantsAssumption DEF Time

\* The same trail, seen from a later watermark and with more evidence.
LEMMA SameTrail ==
  ASSUME NEW alert \in Alert, NEW after, NEW last \in Nat, NEW last2 \in Nat,
         last <= last2, GoodTrail(alert, last),
         after.trail = alert.trail, after.state = alert.state,
         alert.evidence \subseteq after.evidence
  PROVE  GoodTrail(after, last2)
<1>1. EventSteps(after) = EventSteps(alert)
  BY DEF EventSteps
<1>2. \A i \in EventSteps(alert) : alert.trail[i].key <= last2
  BY EventKeys DEF GoodTrail
<1>3. QED
  BY <1>1, <1>2 DEF GoodTrail

\* The trail of a moved alert: an operator's step, or one of an event that
\* lies after all others and leaves evidence.
LEMMA LongerTrail ==
  ASSUME NEW alert \in Alert, NEW after, NEW last \in Nat, NEW last2 \in Nat, NEW k,
         last <= last2, GoodTrail(alert, last),
         after.trail = Append(alert.trail,
           [previous |-> alert.state, state |-> after.state, key |-> k]),
         alert.evidence \subseteq after.evidence,
         k \in Key \/ (k \in Nat /\ last < k /\ k <= last2 /\ k \in after.evidence)
  PROVE  GoodTrail(after, last2)
<1> DEFINE step == [previous |-> alert.state, state |-> after.state, key |-> k]
           n == Len(alert.trail)
<1>1. alert.trail \in Seq(TransitionStep) /\ n \in Nat /\ DOMAIN alert.trail = 1..n
  BY DEF Alert, TransitionStep
<1>2. n # 0 /\ alert.trail[n].state = alert.state /\ alert.trail[1].previous = "none"
  BY <1>1 DEF GoodTrail, Last
<1>3. step.previous = alert.state /\ step.state = after.state /\ step.key = k
  OBVIOUS
<1> HIDE DEF step
<1>4. after.trail = Append(alert.trail, step)
  BY DEF step
<1>5. /\ Len(after.trail) = n + 1 /\ DOMAIN after.trail = 1..(n + 1)
      /\ after.trail[n + 1] = step /\ after.trail # <<>>
      /\ \A i \in 1..n : after.trail[i] = alert.trail[i]
  BY <1>1, <1>4
<1>6. Last(after.trail).state = after.state /\ after.trail[1].previous = "none"
  BY <1>1, <1>2, <1>3, <1>5 DEF Last
<1>7. ASSUME NEW i \in 2..Len(after.trail)
      PROVE  after.trail[i].previous = after.trail[i - 1].state
  <2>1. CASE i = n + 1
    BY <1>1, <1>2, <1>3, <1>5, <2>1
  <2>2. CASE i # n + 1
    <3>1. i \in 2..n /\ i \in 1..n /\ i - 1 \in 1..n
      BY <1>1, <1>5, <2>2
    <3>2. QED
      BY <1>5, <3>1 DEF GoodTrail
  <2>3. QED
    BY <2>1, <2>2
<1>8. ASSUME NEW i \in EventSteps(after)
      PROVE  /\ \/ i \in EventSteps(alert) /\ after.trail[i] = alert.trail[i] /\ i \in 1..n
                \/ i = n + 1 /\ after.trail[i].key = k /\ k \notin Key
  <2>1. i \in 1..(n + 1) /\ after.trail[i].key \notin Key
    BY <1>5 DEF EventSteps
  <2>2. CASE i = n + 1
    BY <1>3, <1>5, <2>1, <2>2
  <2>3. CASE i # n + 1
    BY <1>1, <1>5, <2>1, <2>3 DEF EventSteps
  <2>4. QED
    BY <2>2, <2>3
<1>9. ASSUME NEW i \in EventSteps(after)
      PROVE  after.trail[i].key \in after.evidence /\ after.trail[i].key <= last2
  <2>1. CASE i \in EventSteps(alert) /\ after.trail[i] = alert.trail[i]
    BY <2>1, EventKeys DEF GoodTrail
  <2>2. CASE i = n + 1 /\ after.trail[i].key = k /\ k \notin Key
    BY <2>2
  <2>3. QED
    BY <1>8, <2>1, <2>2
<1>10. ASSUME NEW i \in EventSteps(after), NEW j \in EventSteps(after), i < j
       PROVE  after.trail[i].key < after.trail[j].key
  <2>1. CASE j \in EventSteps(alert) /\ after.trail[j] = alert.trail[j] /\ j \in 1..n
    <3>1. i # n + 1
      <4>1. i \in 1..(n + 1)
        BY <1>5 DEF EventSteps
      <4>2. QED
        BY <1>1, <1>10, <2>1, <4>1
    <3>2. i \in EventSteps(alert) /\ after.trail[i] = alert.trail[i]
      BY <1>8, <3>1
    <3>3. QED
      BY <1>10, <2>1, <3>2 DEF GoodTrail
  <2>2. CASE j = n + 1 /\ after.trail[j].key = k /\ k \notin Key
    <3>1. i # n + 1
      <4>1. i \in 1..(n + 1)
        BY <1>5 DEF EventSteps
      <4>2. QED
        BY <1>1, <1>10, <2>2, <4>1
    <3>2. i \in EventSteps(alert) /\ after.trail[i] = alert.trail[i]
      BY <1>8, <3>1
    <3>3. alert.trail[i].key \in Nat /\ alert.trail[i].key <= last
      BY <3>2, EventKeys DEF GoodTrail
    <3>4. k \in Nat /\ last < k
      BY <2>2
    <3>5. alert.trail[i].key < k
      BY <3>3, <3>4
    <3>6. QED
      BY <2>2, <3>2, <3>5
  <2>3. QED
    BY <1>8, <2>1, <2>2
<1>11. QED
  BY <1>5, <1>6, <1>7, <1>9, <1>10 DEF GoodTrail
LEMMA NextTrail ==
  ASSUME EngineInv, TrailInv, [Next]_vars
  PROVE  TrailInv'
<1>1. /\ alerts \in Seq(Alert) /\ DOMAIN alerts = 1..Len(alerts) /\ Len(alerts) \in Nat
      /\ \A a \in DOMAIN alerts : alerts[a] \in Alert
  BY DEF EngineInv, TypeOK
<1>2. PICK last, last2 : last = eval.last /\ last2 = eval'.last
  OBVIOUS
<1>3. last \in Nat /\ (last2 = last => last2 \in Nat /\ last <= last2)
  <2>1. last \in Time
    BY <1>2 DEF EngineInv, TypeOK, Evaluation
  <2>2. QED
    BY <2>1, ConstantsAssumption DEF Time
<1>4. \A a \in DOMAIN alerts : GoodTrail(alerts[a], last)
  BY <1>2 DEF TrailInv
<1>5. CASE \/ Deliver \/ MatchRules \/ IgnoreEvent \/ Abort \/ UNCHANGED vars
           \/ \E c \in Configuration, e \in BOOLEAN : ReplaceRule(c, e)
  <2>1. UNCHANGED <<eval, alerts>>
    BY <1>5, FrameEffect
  <2>2. QED
    BY <2>1 DEF TrailInv, GoodTrail, EventSteps
<1>6. CASE EvaluateRule
  <2>0. PICK at \in Time \ {None}, version \in DOMAIN versions, v \in Value \cup {Invalid} :
           \E r : EvaluatesTo(at, version, v, r)
    BY <1>6, EvaluateEffect
  <2>1. PICK r :
          /\ eval.last < at /\ eval'.last = at
          /\ \/ \E new : Raised(at, version, new, r)
             \/ Quiet(r)
             \/ \E after : Follows(at, version, after, r)
    BY <2>0 DEF EvaluatesTo
  <2>2. last2 = at /\ at \in Nat /\ last < at /\ last <= last2 /\ last2 \in Nat
    <3>1. at \in Nat
      BY ConstantsAssumption DEF Time
    <3>2. last2 = at /\ last < at
      BY <1>2, <2>1
    <3>3. QED
      BY <1>3, <3>1, <3>2
  <2>3. \A a \in DOMAIN alerts : GoodTrail(alerts[a], last2)
    <3>1. TAKE a \in DOMAIN alerts
    <3>2. PICK alert : alert = alerts[a] /\ alert \in Alert /\ GoodTrail(alert, last)
      BY <1>1, <1>4
    <3>3. GoodTrail(alert, last2)
      BY <1>3, <2>2, <3>2, SameTrail
    <3>4. QED
      BY <3>2, <3>3
  <2>4. ASSUME NEW new, Raised(at, version, new, r)
        PROVE  \A a \in DOMAIN alerts' : GoodTrail(alerts'[a], last2)
    <3>1. new \in Alert /\ alerts' = Append(alerts, new) /\ new.state = "active"
          /\ new.trail = <<[previous |-> "none", state |-> "active", key |-> at]>>
          /\ new.evidence = {at}
      BY <2>4 DEF Raised, RaisedAt
    <3>2. /\ new.trail # <<>> /\ Last(new.trail) = new.trail[1] /\ Len(new.trail) = 1
          /\ new.trail[1].state = "active" /\ new.trail[1].previous = "none"
          /\ new.trail[1].key = at /\ DOMAIN new.trail = {1}
      BY <3>1 DEF Last
    <3>3. EventSteps(new) \subseteq {1} /\ at <= last2
      BY <2>2, <3>2 DEF EventSteps
    <3>4. GoodTrail(new, last2)
      BY <3>1, <3>2, <3>3 DEF GoodTrail
    <3>5. \A a \in DOMAIN alerts' : alerts'[a] = new \/ (a \in DOMAIN alerts /\ alerts'[a] = alerts[a])
      BY <1>1, <3>1
    <3>6. QED
      BY <2>3, <3>4, <3>5
  <2>5. CASE Quiet(r)
    BY <1>2, <2>3, <2>5 DEF Quiet, TrailInv, GoodTrail, EventSteps
  <2>6. ASSUME NEW after, Follows(at, version, after, r)
        PROVE  \A a \in DOMAIN alerts' : GoodTrail(alerts'[a], last2)
    <3>1. eval.active \in DOMAIN alerts
      BY <1>1, <2>6 DEF Follows, EngineInv, OneOpenAlert
    <3>2. PICK alert : alert = alerts[eval.active] /\ alert \in Alert /\ GoodTrail(alert, last)
      BY <1>1, <1>4, <3>1
    <3>3. /\ FollowsTo(alert, at, version, r, after)
          /\ alerts' = [alerts EXCEPT ![eval.active] = after]
      BY <2>6, <3>2 DEF Follows
    <3>4. GoodTrail(after, last2)
      <4>1. CASE r.decision # "resolve"
        <5>1. /\ after.trail = alert.trail /\ after.state = alert.state
              /\ alert.evidence \subseteq after.evidence
          BY <3>3, <4>1 DEF FollowsTo
        <5>2. QED
          BY <1>3, <2>2, <3>2, <5>1, SameTrail
      <4>2. CASE r.decision = "resolve"
        <5>1. /\ after.trail = Append(alert.trail,
                   [previous |-> alert.state, state |-> after.state, key |-> at])
              /\ alert.evidence \subseteq after.evidence /\ at \in after.evidence
          BY <3>3, <4>2 DEF FollowsTo
        <5>2. at \in Nat /\ last < at /\ at <= last2 /\ last <= last2 /\ last2 \in Nat
          BY <1>3, <2>2
        <5>3. QED
          BY <1>3, <3>2, <5>1, <5>2, LongerTrail
      <4>3. QED
        BY <4>1, <4>2
    <3>5. \A a \in DOMAIN alerts' : alerts'[a] = after \/ (a \in DOMAIN alerts /\ alerts'[a] = alerts[a])
      BY <1>1, <3>1, <3>3
    <3>6. QED
      BY <2>3, <3>4, <3>5
  <2>7. QED
    BY <1>2, <2>1, <2>4, <2>5, <2>6 DEF TrailInv, GoodTrail, EventSteps
<1>7. ASSUME NEW a \in DOMAIN alerts, NEW k \in Key, Acknowledge(a, k) \/ Close(a, k)
      PROVE  TrailInv'
  <2>1. PICK state \in AlertState, after \in Alert :
          /\ UNCHANGED eval \/ eval' = Released(a)
          /\ after = Moved(alerts[a], state, k)
          /\ alerts' = [alerts EXCEPT ![a] = after]
    BY <1>7, OperatorEffect
  <2>2. last2 = last
    BY <1>2, <2>1 DEF Released, EngineInv, TypeOK, Evaluation
  <2>3. PICK alert : alert = alerts[a] /\ alert \in Alert /\ GoodTrail(alert, last)
    BY <1>1, <1>4
  <2>4. after = Moved(alert, state, k) /\ k \in Key \cup Time
    BY <2>1, <2>3
  <2>5. /\ after.state = state /\ after.evidence = alert.evidence
        /\ after.trail = Append(alert.trail,
             [previous |-> alert.state, state |-> state, key |-> k])
    BY <2>3, <2>4, MovedFields
  <2>6. GoodTrail(after, last2)
    BY <1>3, <2>2, <2>3, <2>5, LongerTrail
  <2>7. \A b \in DOMAIN alerts' : alerts'[b] = after \/ (b \in DOMAIN alerts /\ alerts'[b] = alerts[b])
    BY <1>1, <2>1
  <2>8. \A b \in DOMAIN alerts' : GoodTrail(alerts'[b], last2)
    BY <1>4, <2>2, <2>6, <2>7
  <2>9. QED
    BY <1>2, <2>8 DEF TrailInv, GoodTrail, EventSteps
<1>8. QED
  BY <1>5, <1>6, <1>7 DEF Next

\* The transitions of every alert are one chain from nothing to its state, and
\* no redelivered or late event is part of it twice.
THEOREM TrailTold == Spec => []TrailTellsState
<1>1. Init => TrailInv
  BY DEF Init, TrailInv
<1>2. EngineInv /\ TrailInv /\ [Next]_vars => TrailInv'
  BY NextTrail
<1>3. QED
  BY <1>1, <1>2, EngineInvariant, TrailInvTells, PTL DEF Spec
=============================================================================
