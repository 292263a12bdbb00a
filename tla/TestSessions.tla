---------------------------- MODULE TestSessions ----------------------------
(***************************************************************************)
(* Laboratory test sessions (telemetry-service/app/sessions): lifecycle,   *)
(* channel bindings with their leases, configuration snapshots, stages, and *)
(* the attribution of one telemetry event to a session.                    *)
(*                                                                         *)
(* A command carries the time its client says it occurred; nothing orders  *)
(* the stamps of two clients, nor those of a command delayed on its way.   *)
(* Every command is one transaction under the lock of its session's row;   *)
(* one repeated under its idempotency key changes nothing.  The event      *)
(* stands for any event: attribution changes no session.                   *)
(***************************************************************************)
EXTENDS Sequences, FiniteSets, Integers

CONSTANTS
  Sessions, Channels,
  MaxStamp,         \* bound: stamps and capture times are 1..MaxStamp
  MaxChanges        \* bound: changes of bindings, limits and stages of each session

ASSUME SessionAssumption == MaxStamp \in Nat \ {0} /\ MaxChanges \in [Sessions -> Nat]

VARIABLES
  lifecycle,        \* test_sessions.state, "absent" before create
  started, ended,   \* started_at; completed_at or cancelled_at; 0 is null
  binding,          \* "none", "bound" (not activated), "leased" or "released"
  activated,        \* activated_at of the binding, 0 is null
  snapshots,        \* session_config_snapshots in the order of their version
  stages,           \* entered_at and exited_at by sequence_index, 0 is null
  event,            \* captured_at and channel of the event, captured 0 before it arrives
  reader,           \* the transaction that persists it
  context,          \* its row of telemetry_session_context, if it has one
  released,         \* history: the latest stamp at which each lease was released
  late,             \* history: channels leased at a stamp before a release
  outdated,        \* history: a command stamped up to captured came after the reads began
  changes

lifecycleVars == <<lifecycle, started, ended>>
bindingVars == <<binding, activated, snapshots>>
leaseVars == <<released, late>>
sessionVars == <<lifecycleVars, bindingVars, stages, event, reader, context,
                 leaseVars, outdated, changes>>

Stamps == 1..MaxStamp
Active == {"running", "paused"}                          \* ACTIVE_STATES
Ended == {"completed", "cancelled", "archived"}          \* TERMINAL_STATES

NotReading == [step |-> "idle", todo |-> {}, matches |-> {}]

SessionInit ==
  /\ lifecycle = [s \in Sessions |-> "absent"]
  /\ started = [s \in Sessions |-> 0] /\ ended = [s \in Sessions |-> 0]
  /\ binding = [s \in Sessions |-> [c \in Channels |-> "none"]]
  /\ activated = [s \in Sessions |-> [c \in Channels |-> 0]]
  /\ snapshots = [s \in Sessions |-> <<>>]
  /\ stages = [s \in Sessions |-> <<>>]
  /\ event \in [captured : {0}, channel : Channels]
  /\ reader = NotReading /\ context = {}
  /\ released = [c \in Channels |-> 0] /\ late = {}
  /\ outdated = FALSE
  /\ changes = [s \in Sessions |-> 0]

-----------------------------------------------------------------------------
(* What every command does.                                                *)

(* The stamp concerns the event if it is not after its capture.            *)
Stamped(at) ==
  outdated' = (outdated \/ (at <= event.captured /\ reader.step # "idle"))

Change(s) == changes[s] < MaxChanges[s] /\ changes' = [changes EXCEPT ![s] = @ + 1]

Moves(s, from, to) == lifecycle[s] = from /\ lifecycle' = [lifecycle EXCEPT ![s] = to]

Unreleased(s) == {c \in Channels : binding[s][c] \in {"bound", "leased"}}
Leased(s) == {c \in Channels : binding[s][c] = "leased"}

(* Mutant: the lease index is dropped.                                     *)
NeverRefused(s, cs) == TRUE

(* uq_active_session_channel_lease: over all sessions.                     *)
LeaseFree(s, cs) == \A r \in Sessions \ {s} : cs \cap Leased(r) = {}

(* _freeze_configuration, with the bindings left by the command.           *)
Freeze(s, at, cs) ==
  snapshots' = [snapshots EXCEPT ![s] = Append(@, [at |-> at, bound |-> cs])]

LeaseAll(s, cs, at) ==
  /\ LeaseFree(s, cs)
  /\ binding' = [binding EXCEPT ![s] = [c \in Channels |-> IF c \in cs THEN "leased" ELSE @[c]]]
  /\ activated' = [activated EXCEPT ![s] = [c \in Channels |-> IF c \in cs THEN at ELSE @[c]]]
  /\ late' = late \cup {c \in cs : at < released[c]}
  /\ UNCHANGED released

(* ck_session_channel_binding_release_order                                *)
Release(s, cs, at) ==
  /\ \A c \in cs : activated[s][c] <= at
  /\ binding' = [binding EXCEPT ![s] = [c \in Channels |-> IF c \in cs THEN "released" ELSE @[c]]]
  /\ released' = [c \in Channels |-> IF c \in cs /\ released[c] < at THEN at ELSE released[c]]
  /\ UNCHANGED late

-----------------------------------------------------------------------------
(* The lifecycle.                                                          *)

Create(s) ==
  /\ Moves(s, "absent", "draft")
  /\ UNCHANGED <<started, ended, bindingVars, stages, event, reader, context,
                 leaseVars, outdated, changes>>

(* Prepare, pause, resume and archive: their stamps are only recorded.     *)
ChangeState(s) ==
  /\ \/ Moves(s, "draft", "ready")
     \/ Moves(s, "running", "paused")
     \/ Moves(s, "paused", "running")
     \/ Moves(s, "completed", "archived")
     \/ Moves(s, "cancelled", "archived")
  /\ UNCHANGED <<started, ended, bindingVars, stages, event, reader, context,
                 leaseVars, outdated, changes>>

Start(s, at) ==
  /\ Moves(s, "ready", "running")
  /\ LeaseAll(s, Unreleased(s), at)
  /\ Freeze(s, at, Unreleased(s))
  /\ started' = [started EXCEPT ![s] = at]
  /\ Stamped(at)
  /\ UNCHANGED <<ended, stages, event, reader, context, changes>>

(* No snapshot is taken: the session no longer claims anything.            *)
End(s, at) ==
  /\ \/ Moves(s, "running", "completed")
     \/ Moves(s, "draft", "cancelled")
     \/ Moves(s, "ready", "cancelled")
     \/ Moves(s, "paused", "cancelled")
  /\ Release(s, Leased(s), at)
  /\ ended' = [ended EXCEPT ![s] = at]
  /\ Stamped(at)
  /\ UNCHANGED <<started, activated, snapshots, stages, event, reader, context, changes>>

-----------------------------------------------------------------------------
(* Configuration and stages.                                               *)

(* Bindings that were released have their rows used again.                *)
Bind(s, cs, at) ==
  /\ \/ /\ lifecycle[s] \in Active
        /\ LeaseAll(s, cs, at)
        /\ Freeze(s, at, Unreleased(s) \cup cs)
        /\ Stamped(at)
     \/ /\ lifecycle[s] \in {"draft", "ready"}
        /\ binding' = [binding EXCEPT ![s] = [c \in Channels |-> IF c \in cs THEN "bound" ELSE @[c]]]
        /\ activated' = [activated EXCEPT ![s] = [c \in Channels |-> IF c \in cs THEN 0 ELSE @[c]]]
        /\ UNCHANGED <<snapshots, leaseVars, outdated>>
  /\ UNCHANGED <<lifecycleVars, stages, event, reader, context>>

AddBinding(s, c, at) == Change(s) /\ c \notin Unreleased(s) /\ Bind(s, {c}, at)

(* The channels of the production contract, those missing.                 *)
AddProductionBindings(s, at) == Change(s) /\ Bind(s, Channels \ Unreleased(s), at)

(* Before the start activation and release fall together.                  *)
RemoveBinding(s, c, at) ==
  /\ Change(s)
  /\ \/ /\ lifecycle[s] \in Active
        /\ binding[s][c] = "leased"
        /\ Release(s, {c}, at)
        /\ Freeze(s, at, Unreleased(s) \ {c})
        /\ Stamped(at)
        /\ UNCHANGED activated
     \/ /\ lifecycle[s] \in {"draft", "ready"}
        /\ binding[s][c] = "bound"
        /\ binding' = [binding EXCEPT ![s][c] = "released"]
        /\ activated' = [activated EXCEPT ![s][c] = at]
        /\ UNCHANGED <<snapshots, leaseVars, outdated>>
  /\ UNCHANGED <<lifecycleVars, stages, event, reader, context>>

(* A limit set of an active session freezes the bindings as they are.      *)
ReplaceLimits(s, at) ==
  /\ Change(s)
  /\ lifecycle[s] \in Active
  /\ Freeze(s, at, Unreleased(s))
  /\ Stamped(at)
  /\ UNCHANGED <<lifecycleVars, binding, activated, stages, event, reader, context, leaseVars>>

(* The stage left is exited when the next is entered, and not before it was *)
(* entered itself: ck_session_stage_exit_order.                            *)
AdvanceStage(s, at) ==
  LET current == Len(stages[s])
      entered == [entered |-> at, exited |-> 0]
  IN  /\ Change(s)
      /\ lifecycle[s] = "running"
      /\ IF current = 0 THEN stages' = [stages EXCEPT ![s] = <<entered>>]
         ELSE /\ stages[s][current].entered <= at
              /\ stages' = [stages EXCEPT ![s] =
                              Append([@ EXCEPT ![current].exited = at], entered)]
      /\ Stamped(at)
      /\ UNCHANGED <<lifecycleVars, bindingVars, event, reader, context, leaseVars>>

-----------------------------------------------------------------------------
(* Attribution of an event at time t on channel c.                         *)

(* Mutant: the session still claims what was captured when it ended.       *)
WithinInclusive(s, t) ==
  started[s] # 0 /\ started[s] <= t /\ (ended[s] = 0 \/ t <= ended[s])

Within(s, t) == started[s] # 0 /\ started[s] <= t /\ (ended[s] = 0 \/ t < ended[s])

(* Mutant: the newest version, whatever time it is of.                     *)
NewestVersion(s, t) == {i \in DOMAIN snapshots[s] : i = Len(snapshots[s])}

(* The snapshot in force, if any: the last by capture time, then version.  *)
InForce(s, t) ==
  LET taken == {i \in DOMAIN snapshots[s] : snapshots[s][i].at <= t}
  IN  {i \in taken : \A j \in taken \ {i} :
         \/ snapshots[s][j].at < snapshots[s][i].at
         \/ snapshots[s][j].at = snapshots[s][i].at /\ j < i}

Matching(s, c, t) == {[session |-> s, snapshot |-> i] :
                        i \in {j \in InForce(s, t) : c \in snapshots[s][j].bound}}

StagesAt(s, t) ==
  {i \in DOMAIN stages[s] :
     stages[s][i].entered <= t /\ (stages[s][i].exited = 0 \/ t < stages[s][i].exited)}

Attributed(match, t) ==
  [session |-> match.session, snapshot |-> match.snapshot, stages |-> StagesAt(match.session, t)]

(* The statements of resolve_telemetry_context each see what is committed. *)
(* The next event arrives when the last one is done; one rolled back is    *)
(* tried again.                                                            *)
ReadSessions ==
  /\ reader.step \in {"idle", "done"}
  /\ event' \in IF reader.step = "idle" /\ event.captured # 0 THEN {event}
                ELSE [captured : Stamps, channel : Channels]
  /\ reader' = [step |-> "reading", matches |-> {},
                todo |-> {s \in Sessions : Within(s, event'.captured)}]
  /\ context' = {} /\ outdated' = FALSE
  /\ UNCHANGED <<lifecycleVars, bindingVars, stages, leaseVars, changes>>

ReadSnapshot(s) ==
  /\ reader.step = "reading" /\ s \in reader.todo
  /\ reader' = [reader EXCEPT !.todo = @ \ {s},
                              !.matches = @ \cup Matching(s, event.channel, event.captured)]
  /\ UNCHANGED <<lifecycleVars, bindingVars, stages, event, context, leaseVars,
                 outdated, changes>>

(* The stage is read and the sample committed with its context.            *)
CommitContext ==
  /\ reader.step = "reading" /\ reader.todo = {}
  /\ Cardinality(reader.matches) <= 1
  /\ \A m \in reader.matches : Cardinality(StagesAt(m.session, event.captured)) <= 1
  /\ context' = {Attributed(m, event.captured) : m \in reader.matches}
  /\ reader' = [reader EXCEPT !.step = "done"]
  /\ UNCHANGED <<lifecycleVars, bindingVars, stages, event, leaseVars, outdated, changes>>

(* TelemetryAttributionError, a crash or a lost database: the transaction   *)
(* is rolled back and the ingestion worker tries again.                    *)
RollBack ==
  /\ reader.step = "reading"
  /\ reader' = NotReading
  /\ UNCHANGED <<lifecycleVars, bindingVars, stages, event, context, leaseVars,
                 outdated, changes>>

-----------------------------------------------------------------------------
SessionNext ==
  \/ \E s \in Sessions :
       \/ Create(s) \/ ChangeState(s)
       \/ \E at \in Stamps :
            \/ Start(s, at) \/ End(s, at) \/ AddProductionBindings(s, at) \/ ReplaceLimits(s, at) \/ AdvanceStage(s, at)
            \/ \E c \in Channels : AddBinding(s, c, at) \/ RemoveBinding(s, c, at)
       \/ ReadSnapshot(s)
  \/ ReadSessions \/ CommitContext \/ RollBack

SessionSpec == SessionInit /\ [][SessionNext]_sessionVars

-----------------------------------------------------------------------------
(* Properties.                                                             *)

SessionTypeOK ==
  /\ lifecycle \in [Sessions -> {"absent", "draft", "ready"} \cup Active \cup Ended]
  /\ started \in [Sessions -> 0..MaxStamp] /\ ended \in [Sessions -> 0..MaxStamp]
  /\ binding \in [Sessions -> [Channels -> {"none", "bound", "leased", "released"}]]
  /\ activated \in [Sessions -> [Channels -> 0..MaxStamp]]
  /\ snapshots \in [Sessions -> Seq([at : Stamps, bound : SUBSET Channels])]
  /\ stages \in [Sessions -> Seq([entered : Stamps, exited : 0..MaxStamp])]
  /\ event \in [captured : 0..MaxStamp, channel : Channels]
  /\ reader \in [step : {"idle", "reading", "done"}, todo : SUBSET Sessions,
                 matches : SUBSET [session : Sessions, snapshot : Nat]]
  /\ released \in [Channels -> 0..MaxStamp] /\ late \subseteq Channels
  /\ outdated \in BOOLEAN
  /\ changes \in [Sessions -> Nat] /\ \A s \in Sessions : changes[s] <= MaxChanges[s]

(* Only an active session holds leases, its last snapshot lists exactly the *)
(* channels it leases, and no channel is leased twice (the lease index,    *)
(* _freeze_configuration).                                                 *)
LeasesFrozen ==
  \A s \in Sessions :
    /\ Leased(s) # {} => lifecycle[s] \in Active
    /\ lifecycle[s] \in Active =>
         /\ snapshots[s] # <<>>
         /\ snapshots[s][Len(snapshots[s])].bound = Leased(s)
    /\ \A r \in Sessions \ {s} : Leased(r) \cap Leased(s) = {}

(* Stages follow each other without gap or overlap, whatever the stamps    *)
(* (advance_stage, ck_session_stage_exit_order).                           *)
OneStage ==
  \A s \in Sessions :
    /\ \A t \in Stamps : Cardinality(StagesAt(s, t)) <= 1
    /\ \A i \in DOMAIN stages[s] :
         stages[s][i].exited = IF i = Len(stages[s]) THEN 0 ELSE stages[s][i + 1].entered

SessionInv == SessionTypeOK /\ LeasesFrozen /\ OneStage

InOrder(s) ==
  \A i, j \in DOMAIN snapshots[s] : i < j => snapshots[s][i].at <= snapshots[s][j].at

Claims(s, c, t) == Within(s, t) /\ Matching(s, c, t) # {}

(* A time on a channel belongs to one session, so its events can be        *)
(* attributed and the ingestion worker does not stop at them: provided     *)
(* that the channel was never leased at a stamp before an earlier release, *)
(* and that the changes of each session were stamped in the order they     *)
(* were applied.  Without either two sessions may claim an event           *)
(* (resolve_telemetry_context).                                            *)
OneClaim ==
  \A c \in Channels \ late, t \in Stamps, r, s \in Sessions :
    InOrder(r) /\ InOrder(s) /\ Claims(r, c, t) /\ Claims(s, c, t) => r = s

(* A recorded context is what the sessions' history says, now and later:   *)
(* only a command stamped up to the capture and applied after the reads of  *)
(* the transaction began can change what the history says, and no other    *)
(* interleaving of its statements matters (resolve_telemetry_context).     *)
AttributionStands ==
  reader.step = "done" /\ ~outdated =>
    LET claimants == UNION {Matching(s, event.channel, event.captured) :
                           s \in {r \in Sessions : Within(r, event.captured)}}
    IN  Cardinality(claimants) <= 1 /\ context = {Attributed(m, event.captured) : m \in claimants}

=============================================================================
