----------------------------- MODULE AlertEngine -----------------------------
(***************************************************************************)
(* The alert rule engine of the telemetry service (app/alerts): one rule   *)
(* with its versions, one resource (organization, session, node, equipment,*)
(* channel, metric) and the alerts raised for it.                          *)
(*                                                                         *)
(* The ingestion worker hands every committed event to process_payload,    *)
(* again after a failure, and a redelivered event as well.  The processor  *)
(* reads the rule, then evaluates the event under the lock of the          *)
(* evaluation state and of the open alert; operators acknowledge and close *)
(* alerts; administrators replace the rule.                                *)
(*                                                                         *)
(* Abstractions: an event is named by its captured_at, which is unique on  *)
(* one channel; thresholds and values are small integers.  A transaction   *)
(* locks every row it decides on, so each is one action; the rule alone is *)
(* read without a lock, which is an action of its own.                     *)
(***************************************************************************)
EXTENDS Integers, Sequences, FiniteSets, SequencesExt

CONSTANTS
  Value,          \* measured values
  Invalid,        \* an event without a value
  Configuration,  \* [high, trigger, clear, hold, clearHold, cooldown]
  Key,            \* idempotency keys of operator requests
  MaxTime,        \* bound: captured_at ranges over 1..MaxTime
  MaxVersions     \* bound: versions of the rule

None == 0  \* no time

ASSUME ConstantsAssumption ==
  /\ Value \subseteq Int /\ Invalid \notin Value
  /\ Configuration \subseteq
       [high : BOOLEAN, trigger : Int, clear : Int,
        hold : Nat, clearHold : Nat, cooldown : Nat]
  /\ \A c \in Configuration :
       IF c.high THEN c.clear <= c.trigger ELSE c.clear >= c.trigger
  /\ MaxTime \in Nat /\ MaxVersions \in Nat
  /\ Key \cap Nat = {}

VARIABLES
  versions,  \* alert_rule_versions, the current one last
  enabled,
  events,    \* value of each captured event
  work,      \* what process_payload is doing
  eval,      \* alert_evaluation_states
  alerts,    \* alert_instances, each with its transitions and evidence
  excursion, clearing  \* since when a configuration's condition has held

rule    == <<versions, enabled>>
history == <<excursion, clearing>>
vars    == <<rule, events, work, eval, alerts, history>>

NoWork == [step |-> "idle"]

Init ==
  /\ \E c \in Configuration : versions = <<c>>
  /\ enabled = TRUE
  /\ events = [t \in {} |-> Invalid]
  /\ work = NoWork
  /\ eval = [last |-> None, pending |-> None, clearPending |-> None,
             active |-> 0, cooldown |-> None, maximum |-> 0]
  /\ alerts = <<>>
  /\ excursion = [c \in Configuration |-> None]
  /\ clearing = [c \in Configuration |-> None]

-----------------------------------------------------------------------------
(* The evaluator                                                           *)

IsTriggered(c, v) == IF c.high THEN v >= c.trigger ELSE v <= c.trigger
IsClear(c, v)     == IF c.high THEN v <= c.clear ELSE v >= c.clear

Larger(a, b) == IF a >= b THEN a ELSE b

Deviation(c, v) ==
  Larger(0, IF c.high THEN v - c.trigger ELSE c.trigger - v)

Since(start, at) == IF start = None THEN at ELSE start

\* accepted_snapshot: the watermark moves, the rest as given.
Accepted(at, pending, clearPending, maximum) ==
  [eval EXCEPT !.last = at, !.pending = pending,
               !.clearPending = clearPending, !.maximum = maximum]

InCooldown(at) == eval.cooldown # None /\ at < eval.cooldown

\* Mutant: a value that is not triggered leaves the pending excursion alone.
EvaluateClosedKeepingPending(c, at, v) ==
  LET since == Since(eval.pending, at)
      peak  == Larger(eval.maximum, Deviation(c, v))
  IN  CASE InCooldown(at) ->
             [decision |-> "ignore_cooldown", next |-> Accepted(at, None, None, 0)]
        [] ~InCooldown(at) /\ ~IsTriggered(c, v) ->
             [decision |-> "none", next |-> Accepted(at, eval.pending, None, 0)]
        [] ~InCooldown(at) /\ IsTriggered(c, v) /\ at >= since + c.hold ->
             [decision |-> "trigger", next |-> Accepted(at, None, None, peak)]
        [] OTHER ->
             [decision |-> "start_trigger_pending", next |-> Accepted(at, since, None, peak)]

\* No open alert: cooldown, reset, pending or trigger.
EvaluateClosed(c, at, v) ==
  LET since == Since(eval.pending, at)
      idle  == Accepted(at, None, None, 0)
      peak  == Larger(eval.maximum, Deviation(c, v))
  IN  CASE InCooldown(at) ->
             [decision |-> "ignore_cooldown", next |-> idle]
        [] ~InCooldown(at) /\ ~IsTriggered(c, v) ->
             [decision |-> "reset_trigger_pending", next |-> idle]
        [] ~InCooldown(at) /\ IsTriggered(c, v) /\ at >= since + c.hold ->
             [decision |-> "trigger", next |-> Accepted(at, None, None, peak)]
        [] OTHER ->
             [decision |-> "start_trigger_pending", next |-> Accepted(at, since, None, peak)]

\* An open alert, resolved ones included: reset, pending or resolve.
EvaluateOpen(c, at, v) ==
  LET since == Since(eval.clearPending, at)
      peak  == Larger(eval.maximum, Deviation(c, v))
  IN  CASE ~IsClear(c, v) ->
             [decision |-> IF eval.clearPending = None THEN "none" ELSE "reset_clear_pending",
              next |-> Accepted(at, None, None, peak)]
        [] IsClear(c, v) /\ at >= since + c.clearHold ->
             [decision |-> "resolve",
              next |-> [Accepted(at, None, None, peak) EXCEPT !.cooldown = at + c.cooldown]]
        [] OTHER ->
             [decision |-> "start_clear_pending", next |-> Accepted(at, None, since, peak)]

\* Mutant: a missing value leaves the clearing pending.
EvaluateThresholdBridgingGaps(c, at, v) ==
  CASE v = Invalid -> [decision |-> "ignore_invalid_value",
                       next |-> Accepted(at, eval.pending, eval.clearPending, eval.maximum)]
    [] v # Invalid /\ eval.active = 0 -> EvaluateClosed(c, at, v)
    [] v # Invalid /\ eval.active # 0 -> EvaluateOpen(c, at, v)

EvaluateThreshold(c, at, v) ==
  CASE v = Invalid -> [decision |-> "ignore_invalid_value",
                       next |-> Accepted(at, None, None, eval.maximum)]
    [] v # Invalid /\ eval.active = 0 -> EvaluateClosed(c, at, v)
    [] v # Invalid /\ eval.active # 0 -> EvaluateOpen(c, at, v)

-----------------------------------------------------------------------------
(* The processor                                                           *)

\* A new event of the channel, or one the broker delivers again.
Deliver ==
  /\ work = NoWork
  /\ \/ \E at \in 1..MaxTime \ DOMAIN events, v \in Value \cup {Invalid} :
          /\ events' = [t \in DOMAIN events \cup {at} |-> IF t = at THEN v ELSE events[t]]
          /\ work' = [step |-> "match", event |-> at]
     \/ \E at \in DOMAIN events :
          /\ work' = [step |-> "match", event |-> at]
          /\ UNCHANGED events
  /\ UNCHANGED <<rule, eval, alerts, history>>

\* _matching_rules reads the current version of an enabled rule, unlocked.
MatchRules ==
  /\ work.step = "match"
  /\ work' = IF enabled THEN [step |-> "evaluate", event |-> work.event,
                              version |-> Len(versions)]
             ELSE NoWork
  /\ UNCHANGED <<rule, events, eval, alerts, history>>

Config(version) == versions[version]

NewAlert(at, version, maximum) ==
  [state |-> "active", version |-> version, triggered |-> at, maximum |-> maximum,
   resolved |-> None, resolvedBy |-> 0, evidence |-> {at},
   trail |-> <<[previous |-> "none", state |-> "active", key |-> at]>>,
   since |-> excursion'[Config(version)], clearSince |-> None]

Moved(alert, state, key) ==
  [alert EXCEPT !.state = state,
                !.trail = Append(@, [previous |-> alert.state, state |-> state, key |-> key])]

\* Mutant: only a larger deviation is evidence.
CapturesDeviation(decision, c, v) == v # Invalid /\ Deviation(c, v) > eval.maximum

\* _should_capture_evidence
Captures(decision, c, v) ==
  \/ decision \in {"start_clear_pending", "reset_clear_pending", "resolve"}
  \/ v # Invalid /\ Deviation(c, v) > eval.maximum

\* The open alert follows the event.
Followed(alert, at, version, result) ==
  LET c == Config(version)
      updated == [alert EXCEPT
        !.maximum = Larger(@, result.next.maximum),
        !.evidence = IF Captures(result.decision, c, events[at]) THEN @ \cup {at} ELSE @]
  IN  IF result.decision = "resolve"
      THEN [Moved(updated, "resolved", at) EXCEPT
             !.resolved = at, !.resolvedBy = version, !.clearSince = clearing'[c]]
      ELSE updated

\* Mutant: only the last event is recognised.
IgnoredDuplicate(at) == eval.last = at

\* The event is a duplicate or older than the watermark.
Ignored(at) == eval.last = at \/ (eval.last # None /\ at < eval.last)

\* For the properties: since when the accepted values meet a condition.
Observe(at, v) ==
  /\ excursion' = [c \in Configuration |->
       IF v # Invalid /\ IsTriggered(c, v) THEN Since(excursion[c], at) ELSE None]
  /\ clearing' = [c \in Configuration |->
       IF v # Invalid /\ IsClear(c, v) THEN Since(clearing[c], at) ELSE None]

EvaluateRule ==
  /\ work.step = "evaluate"
  /\ ~Ignored(work.event)
  /\ Observe(work.event, events[work.event])
  /\ LET at      == work.event
         version == work.version
         result  == EvaluateThreshold(Config(version), at, events[at])
     IN  \/ /\ result.decision = "trigger"
            /\ alerts' = Append(alerts, NewAlert(at, version, result.next.maximum))
            /\ eval' = [result.next EXCEPT !.active = Len(alerts) + 1]
         \/ /\ result.decision # "trigger" /\ eval.active = 0
            /\ eval' = result.next
            /\ UNCHANGED alerts
         \/ /\ result.decision # "trigger" /\ eval.active # 0
            /\ alerts' = [alerts EXCEPT
                 ![eval.active] = Followed(@, at, version, result)]
            /\ eval' = result.next
  /\ work' = NoWork
  /\ UNCHANGED <<rule, events>>

IgnoreEvent ==
  /\ work.step = "evaluate"
  /\ Ignored(work.event)
  /\ work' = NoWork
  /\ UNCHANGED <<rule, events, eval, alerts, history>>

\* The transaction is rolled back (a lost connection, the victim of a deadlock
\* with a close, which locks alert and evaluation state in the other order):
\* the ingestion worker tries the event again.
Abort ==
  /\ work.step = "evaluate"
  /\ work' = [step |-> "match", event |-> work.event]
  /\ UNCHANGED <<rule, events, eval, alerts, history>>

-----------------------------------------------------------------------------
(* Operators and administrators                                            *)

IsReplay(a, k) == \E i \in DOMAIN alerts[a].trail : alerts[a].trail[i].key = k

Acknowledge(a, k) ==
  /\ ~IsReplay(a, k)
  /\ alerts[a].state = "active"
  /\ alerts' = [alerts EXCEPT ![a] = Moved(@, "acknowledged", k)]
  /\ UNCHANGED <<rule, events, work, eval, history>>

\* Mutants: closing forgets the cooldown, or the evaluation state altogether.
ReleasedCooldown(a) ==
  [eval EXCEPT !.active = 0, !.pending = None, !.clearPending = None,
               !.maximum = 0, !.cooldown = None]
ReleasedNothing(a) == eval

\* _release_closed_alert_state: closing gives the evaluation state free, but
\* for its watermark and its cooldown.
Released(a) ==
  IF eval.active = a
  THEN [eval EXCEPT !.active = 0, !.pending = None, !.clearPending = None,
                    !.maximum = 0]
  ELSE eval

Close(a, k) ==
  /\ ~IsReplay(a, k)
  /\ alerts[a].state = "resolved"
  /\ alerts' = [alerts EXCEPT ![a] = Moved(@, "closed", k)]
  /\ eval' = Released(a)
  /\ UNCHANGED <<rule, events, work, history>>

\* The evaluation states of the rule stay as they are.
ReplaceRule(c, isEnabled) ==
  /\ Len(versions) < MaxVersions
  /\ versions' = Append(versions, c)
  /\ enabled' = isEnabled
  /\ UNCHANGED <<events, work, eval, alerts, history>>

Next ==
  \/ Deliver \/ MatchRules \/ EvaluateRule \/ IgnoreEvent \/ Abort
  \/ \E a \in DOMAIN alerts, k \in Key : Acknowledge(a, k) \/ Close(a, k)
  \/ \E c \in Configuration, e \in BOOLEAN : ReplaceRule(c, e)

Spec == Init /\ [][Next]_vars

-----------------------------------------------------------------------------
(* Properties                                                              *)

AlertState == {"active", "acknowledged", "resolved", "closed"}
Time       == 0..MaxTime

Alert ==
  [state : AlertState, version : Nat \ {0}, triggered : Time \ {None}, maximum : Nat,
   resolved : Time, resolvedBy : Nat, evidence : SUBSET Time,
   trail : Seq([previous : AlertState \cup {"none"}, state : AlertState,
                key : Key \cup Time]),
   since : Time, clearSince : Time]

Evaluation ==
  [last : Time, pending : Time, clearPending : Time,
   active : Nat, cooldown : Nat, maximum : Nat]

TypeOK ==
  /\ versions \in Seq(Configuration) /\ versions # <<>> /\ enabled \in BOOLEAN
  /\ DOMAIN events \subseteq 1..MaxTime
  /\ \A t \in DOMAIN events : events[t] \in Value \cup {Invalid}
  /\ \/ work = NoWork
     \/ \E t \in DOMAIN events : work = [step |-> "match", event |-> t]
     \/ \E t \in DOMAIN events, v \in DOMAIN versions :
          work = [step |-> "evaluate", event |-> t, version |-> v]
  /\ eval \in Evaluation
  /\ alerts \in Seq(Alert)
  /\ excursion \in [Configuration -> Time] /\ clearing \in [Configuration -> Time]

\* docs/production-alerts-rule-engine.md, "a single rule/resource identity has
\* at most one non-closed alert instance": it is the newest, and the one the
\* evaluation state points to, whatever operators and retries do.
OneOpenAlert ==
  /\ \A a \in DOMAIN alerts : alerts[a].state # "closed" <=> a = eval.active
  /\ eval.active \in {0, Len(alerts)}

\* Evaluation state and alerts tell the same story: what is recorded lies
\* behind the watermark, the cooldown is that of the newest resolution and
\* only an open alert has a clearing pending.
StateAgrees ==
  /\ eval.pending <= eval.last /\ eval.clearPending <= eval.last
  /\ eval.active = 0 => eval.clearPending = None
  /\ eval.active # 0 => eval.pending = None
  /\ \A a \in DOMAIN alerts :
       LET alert == alerts[a]
       IN  /\ alert.version \in DOMAIN versions
           /\ alert.triggered <= eval.last /\ alert.resolved <= eval.last
           /\ alert.state \in {"resolved", "closed"} <=> alert.resolved # None
           /\ alert.resolved # None =>
                /\ alert.resolvedBy \in DOMAIN versions
                /\ a = Len(alerts) =>
                     eval.cooldown = alert.resolved + Config(alert.resolvedBy).cooldown

EngineInv == TypeOK /\ OneOpenAlert /\ StateAgrees

\* "Short-spike rejection": an alert is raised only after accepted values have
\* met the trigger condition of its version for the whole holding time, without
\* a gap, a missing value or another value in between.
SustainedTrigger ==
  \A a \in DOMAIN alerts :
    /\ alerts[a].since # None
    /\ alerts[a].triggered >= alerts[a].since + Config(alerts[a].version).hold

\* "Resolution requires the clear condition to remain satisfied for the
\* configured duration".
SustainedClear ==
  \A a \in DOMAIN alerts : alerts[a].resolved # None =>
    /\ alerts[a].clearSince # None
    /\ alerts[a].resolved >= alerts[a].clearSince + Config(alerts[a].resolvedBy).clearHold

\* Alerts of a rule that was never replaced are raised and resolved only on
\* sustained conditions, whatever gaps, missing values, late events and
\* operators come between.
SustainedUntilReplaced == Len(versions) = 1 => SustainedTrigger /\ SustainedClear

\* The same rule and resource raise a new alert only after the cooldown of the
\* version that resolved the previous one, although closing releases its state.
CooldownKept ==
  \A a \in DOMAIN alerts : a > 1 =>
    LET before == alerts[a - 1]
    IN  /\ before.state = "closed"
        /\ alerts[a].triggered > before.resolved
        /\ alerts[a].triggered >= before.resolved + Config(before.resolvedBy).cooldown

\* The transitions of an alert are a chain from nothing to its state: events
\* move it in the order of their times and each leaves evidence, so that no
\* redelivered or late event moves an alert again.
EventSteps(alert) == {i \in DOMAIN alert.trail : alert.trail[i].key \notin Key}

TrailTellsState ==
  \A a \in DOMAIN alerts :
    LET trail == alerts[a].trail
    IN  /\ trail # <<>> /\ Last(trail).state = alerts[a].state
        /\ trail[1].previous = "none"
        /\ \A i \in 2..Len(trail) : trail[i].previous = trail[i - 1].state
        /\ \A i \in EventSteps(alerts[a]) : trail[i].key \in alerts[a].evidence
        /\ \A i, j \in EventSteps(alerts[a]) : i < j => trail[i].key < trail[j].key

\* Alerts go from active to acknowledged, from both to resolved and from there
\* to closed; a closed alert never changes again, and no step moves the
\* evaluation back in time.
LifecycleOrder ==
  [][/\ eval'.last >= eval.last
     /\ \A a \in DOMAIN alerts :
          /\ alerts[a].state = "closed" => alerts'[a] = alerts[a]
          /\ alerts[a].state = "acknowledged" => alerts'[a].state \in {"acknowledged", "resolved"}
          /\ alerts[a].state = "resolved" => alerts'[a].state \in {"resolved", "closed"}]_vars
=============================================================================
