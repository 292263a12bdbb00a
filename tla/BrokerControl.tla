---------------------------- MODULE BrokerControl ----------------------------
(***************************************************************************)
(* How the node registry keeps the broker's accounts in step with the      *)
(* lifecycle of a node (telemetry-service, app/nodes).                     *)
(*                                                                         *)
(* A lifecycle request commits the new state of the node, its credential   *)
(* and a broker command in one transaction.  One background worker claims  *)
(* commands in the order of available_at, applies each to Mosquitto's      *)
(* dynamic security plugin and marks it applied, retrying (with a delay)   *)
(* or failed.  A command left in processing is given back when its lease   *)
(* has expired.  The API calls a node synchronized when its newest command *)
(* is applied and fits the node's state.                                   *)
(*                                                                         *)
(* Abstractions: one node; a credential is its generation; available_at is *)
(* not a number but a place in an order (a request is dated at its        *)
(* commit, which locks the node): the commands of `ready` are              *)
(* visible to the current run of the worker, those of `arriving` became    *)
(* available after it started, those of `delayed` wait for their backoff.  *)
(***************************************************************************)
EXTENDS Naturals, Sequences, SequencesExt

CONSTANTS
  MaxAttempts,  \* broker_control_max_attempts
  MaxPerRun,    \* broker_control_max_commands_per_run
  MaxCommands   \* bound: commands a node is given

ASSUME ConstantsAssumption ==
  /\ MaxAttempts \in Nat \ {0}
  /\ MaxPerRun \in Nat \ {0}
  /\ MaxCommands \in Nat

VARIABLES
  node,        \* lifecycle state, "none" before provisioning
  generation,  \* of the node's latest credential
  commands,    \* central_node_broker_commands, oldest first
  ready, arriving, delayed,  \* the open commands by available_at
  phase,       \* where run_once stands
  claims,      \* iterations of this run
  job,         \* the command being applied, 0 for none
  result,      \* the state it will be marked with
  client,      \* the node's account at the broker
  done,        \* commands whose effect the broker has seen
  overtaken    \* a command took effect after a newer one

registry == <<node, generation, commands>>
order    == <<ready, arriving, delayed>>
worker   == <<phase, claims, job, result>>
broker   == <<client, done, overtaken>>
vars     == <<registry, order, worker, broker>>

Operation == {"provision", "rotate", "enable", "disable", "delete"}
Closed    == {"applied", "failed"}
Open      == {"pending", "retrying"}

NoClient == [enabled |-> FALSE, generation |-> 0, role |-> FALSE]
Exists   == client.generation > 0

Init ==
  /\ node = "none" /\ generation = 0 /\ commands = <<>>
  /\ ready = <<>> /\ arriving = <<>> /\ delayed = {}
  /\ phase = "idle" /\ claims = 0 /\ job = 0 /\ result = "none"
  /\ client = NoClient /\ done = {} /\ overtaken = FALSE

-----------------------------------------------------------------------------
(* Lifecycle requests: node, credential and command commit together        *)

EnqueueCommand(op) ==
  /\ Len(commands) < MaxCommands
  /\ commands' = Append(commands, [operation |-> op, generation |-> generation',
                                   state |-> "pending", attempts |-> 0])
  /\ arriving' = Append(arriving, Len(commands) + 1)
  /\ UNCHANGED <<ready, delayed, worker, broker>>

Provision ==
  /\ node = "none"
  /\ node' = "pending" /\ generation' = 1
  /\ EnqueueCommand("provision")

RotateCredential ==
  /\ node \in {"pending", "active", "suspended"}
  /\ generation' = generation + 1
  /\ EnqueueCommand("rotate")
  /\ UNCHANGED node

\* The provisioning command creates an enabled account: a first activation
\* needs no command.
Activate ==
  /\ node = "pending"
  /\ node' = "active"
  /\ UNCHANGED <<generation, commands, order, worker, broker>>

\* Mutant: the base repository, which has no command for a reactivation.
ReactivateSilently ==
  /\ node = "suspended"
  /\ node' = "active"
  /\ UNCHANGED <<generation, commands, order, worker, broker>>

Reactivate ==
  /\ node = "suspended"
  /\ node' = "active"
  /\ UNCHANGED generation
  /\ EnqueueCommand("enable")

Suspend ==
  /\ node = "active"
  /\ node' = "suspended"
  /\ UNCHANGED generation
  /\ EnqueueCommand("disable")

Revoke ==
  /\ node \in {"pending", "active", "suspended"}
  /\ node' = "revoked"
  /\ UNCHANGED generation
  /\ EnqueueCommand("delete")

-----------------------------------------------------------------------------
(* The worker                                                              *)

\* Mutants: the lease check forgets the state; leases never expire.
RecoverableAnyState == {c \in DOMAIN commands : commands[c].state \notin Open}
RecoverableNever == {}

\* The worker is alone and idle: whatever is in processing has been left there.
Recoverable == {c \in DOMAIN commands : commands[c].state = "processing"}

\* run_once begins by giving back the commands whose lease has expired.
RecoverStale(c) ==
  /\ phase = "idle"
  /\ c \in Recoverable
  /\ commands' = [commands EXCEPT ![c].state = "retrying"]
  /\ arriving' = Append(arriving, c)
  /\ UNCHANGED <<node, generation, ready, delayed, worker, broker>>

\* Then it claims what is available by now.
StartRun ==
  /\ phase = "idle"
  /\ ready' = ready \o arriving
  /\ arriving' = <<>>
  /\ phase' = "run"
  /\ UNCHANGED <<registry, delayed, claims, job, result, broker>>

Attempt(c) ==
  [c EXCEPT !.attempts = IF @ < MaxAttempts THEN @ + 1 ELSE @]

\* claim_next: the command is committed as processing before it is applied.
Claim ==
  /\ phase = "run" /\ claims < MaxPerRun /\ ready # <<>>
  /\ claims' = claims + 1
  /\ ready' = Tail(ready)
  /\ LET c == Head(ready) IN
       \/ /\ job' = c
          /\ phase' = "apply"
          /\ commands' = [commands EXCEPT
               ![c] = [Attempt(@) EXCEPT !.state = "processing"]]
       \/ \* the envelope of its secret does not decrypt
          /\ commands[c].operation \in {"provision", "rotate"}
          /\ commands' = [commands EXCEPT
               ![c] = [Attempt(@) EXCEPT !.state = "failed"]]
          /\ UNCHANGED <<job, phase>>
  /\ UNCHANGED <<node, generation, arriving, delayed, result, broker>>

EndRun ==
  /\ phase = "run"
  /\ claims = MaxPerRun \/ ready = <<>>
  /\ phase' = "idle" /\ claims' = 0
  /\ UNCHANGED <<registry, order, job, result, broker>>

\* What a command does to the account.  Creating an account that exists only
\* makes sure of its role; everything but provision and delete needs one.
CanApply(c) == c.operation \in {"provision", "delete"} \/ Exists

Effect(c) ==
  CASE c.operation = "provision" ->
         IF Exists THEN [client EXCEPT !.role = TRUE]
         ELSE [enabled |-> TRUE, generation |-> c.generation, role |-> TRUE]
    [] c.operation = "rotate"    -> [client EXCEPT !.generation = c.generation]
    [] c.operation = "enable"    -> [client EXCEPT !.enabled = TRUE]
    [] c.operation = "disable"   -> [client EXCEPT !.enabled = FALSE]
    [] c.operation = "delete"    -> NoClient

TakeEffect ==
  /\ CanApply(commands[job])
  /\ client' = Effect(commands[job])
  /\ done' = done \cup {job}
  /\ overtaken' = (overtaken \/ \E d \in done : d > job)

\* create-node stops between createClient and addClientRole.
CreateWithoutRole ==
  /\ commands[job].operation = "provision" /\ ~Exists
  /\ client' = [enabled |-> TRUE, generation |-> commands[job].generation,
                role |-> FALSE]
  /\ overtaken' = (overtaken \/ \E d \in done : d > job)
  /\ UNCHANGED done

\* Mutant: a failed command is taken for applied.
ApplyIgnoresErrors ==
  /\ phase = "apply"
  /\ TakeEffect \/ CreateWithoutRole \/ UNCHANGED broker
  /\ result' = "applied" /\ phase' = "mark"
  /\ UNCHANGED <<registry, order, claims, job>>

\* The mutation succeeds and the state read back confirms it.
Apply ==
  /\ phase = "apply"
  /\ TakeEffect
  /\ result' = "applied" /\ phase' = "mark"
  /\ UNCHANGED <<registry, order, claims, job>>

\* A timeout, a transport error, a rejection: the broker may or may not have
\* taken the command.  Only a retryable error below the limit is retried.
ApplyFails ==
  /\ phase = "apply"
  /\ TakeEffect \/ CreateWithoutRole \/ UNCHANGED broker
  /\ \/ result' = "failed"
     \/ result' = "retrying" /\ commands[job].attempts < MaxAttempts
  /\ phase' = "mark"
  /\ UNCHANGED <<registry, order, claims, job>>

\* mark_applied, mark_failed, mark_retry.  The delay of a retry counts from
\* the start of the run: it may be over already.
Mark ==
  /\ phase = "mark"
  /\ commands' = [commands EXCEPT ![job].state = result]
  /\ \/ /\ result \in Closed
        /\ UNCHANGED <<arriving, delayed>>
     \/ /\ result = "retrying"
        /\ delayed' = delayed \cup {job}
        /\ UNCHANGED arriving
     \/ /\ result = "retrying"
        /\ \E i \in 1..(Len(arriving) + 1) : arriving' = InsertAt(arriving, i, job)
        /\ UNCHANGED delayed
  /\ phase' = "run" /\ job' = 0 /\ result' = "none"
  /\ UNCHANGED <<node, generation, ready, claims, broker>>

\* The backoff of a command is over.
Due(c) ==
  /\ c \in delayed
  /\ delayed' = delayed \ {c}
  /\ arriving' = Append(arriving, c)
  /\ UNCHANGED <<registry, ready, worker, broker>>

\* The process stops, or the database fails a mark: run_once is left, the
\* command stays in processing.
Interrupt ==
  /\ phase # "idle"
  /\ phase' = "idle" /\ claims' = 0 /\ job' = 0 /\ result' = "none"
  /\ UNCHANGED <<registry, order, broker>>

Lifecycle ==
  \/ Provision \/ RotateCredential \/ Activate \/ Reactivate \/ Suspend
  \/ Revoke

Next ==
  \/ Lifecycle
  \/ \E c \in Recoverable : RecoverStale(c)
  \/ StartRun \/ Claim \/ EndRun \/ Apply \/ ApplyFails \/ Mark
  \/ \E c \in delayed : Due(c)
  \/ Interrupt

Spec == Init /\ [][Next]_vars

\* The worker thread runs, backoffs and leases end, and not every attempt at
\* marking a result is interrupted.
Fairness ==
  /\ SF_vars(StartRun) /\ SF_vars(Claim) /\ WF_vars(EndRun)
  /\ SF_vars(Apply \/ ApplyFails)
  /\ SF_vars(Mark)
  /\ \A c \in 1..MaxCommands : WF_vars(Due(c)) /\ SF_vars(RecoverStale(c))

FairSpec == Spec /\ Fairness

-----------------------------------------------------------------------------
(* What the API reports                                                    *)

Compatible ==
  CASE node = "pending"   -> {"provision"}
    [] node = "active"    -> {"provision", "rotate", "enable"}
    [] node = "suspended" -> {"disable"}
    [] node = "revoked"   -> {"delete"}

Synchronization ==
  IF commands = <<>> THEN "unknown"
  ELSE LET latest == Last(commands)
       IN  IF latest.operation \notin Compatible THEN "out_of_sync"
           ELSE latest.state

\* The account the lifecycle state of the node calls for.
Reconciled ==
  CASE node = "none"      -> ~Exists
    [] node = "pending"   -> Exists /\ client.role /\ client.generation = generation
    [] node = "active"    -> /\ Exists /\ client.role /\ client.enabled
                             /\ client.generation = generation
    [] node = "suspended" -> Exists /\ ~client.enabled
    [] node = "revoked"   -> ~Exists

-----------------------------------------------------------------------------
(* Properties                                                              *)

Command == [operation : Operation, generation : Nat \ {0},
            state : Closed \cup Open \cup {"processing"},
            attempts : 0..MaxAttempts]

TypeOK ==
  /\ node \in {"none", "pending", "active", "suspended", "revoked"}
  /\ generation \in Nat
  /\ commands \in Seq(Command)
  /\ ready \in Seq(DOMAIN commands) /\ arriving \in Seq(DOMAIN commands)
  /\ delayed \subseteq DOMAIN commands
  /\ phase \in {"idle", "run", "apply", "mark"}
  /\ claims \in 0..MaxPerRun
  /\ job \in {0} \cup DOMAIN commands
  /\ result \in {"none", "applied", "retrying", "failed"}
  /\ client \in [enabled : BOOLEAN, generation : Nat, role : BOOLEAN]
  /\ done \subseteq DOMAIN commands /\ overtaken \in BOOLEAN

Waiting == ToSet(ready) \cup ToSet(arriving) \cup delayed

\* Exactly the pending and retrying commands wait to be claimed, each in one
\* place: no command is stranded or waits twice.
QueueAgrees ==
  /\ Waiting = {c \in DOMAIN commands : commands[c].state \in Open}
  /\ IsInjective(ready) /\ IsInjective(arriving)
  /\ ToSet(ready) \cap ToSet(arriving) = {}
  /\ delayed \cap (ToSet(ready) \cup ToSet(arriving)) = {}

\* The job is in processing and its result is known once it was applied.
JobAgrees ==
  /\ phase \in {"apply", "mark"} <=> job # 0
  /\ job # 0 => commands[job].state = "processing"
  /\ phase = "mark" <=> result # "none"
  /\ result = "applied" => job \in done

\* The commands tell how the node got where it is.
Credential == {c \in DOMAIN commands : commands[c].operation \in {"provision", "rotate"}}
Toggle     == {c \in DOMAIN commands : commands[c].operation \in {"enable", "disable"}}

IsLatest(c, S) == c \in S /\ \A d \in S : d <= c

CommandsTellState ==
  /\ node = "none" <=> commands = <<>>
  /\ \A c \in DOMAIN commands :
       /\ commands[c].operation = "provision" <=> c = 1
       /\ commands[c].operation = "delete" => c = Len(commands)
  /\ node = "revoked" <=>
       \E c \in DOMAIN commands : commands[c].operation = "delete"
  /\ commands # <<>> =>
       \E c \in Credential : IsLatest(c, Credential) /\ commands[c].generation = generation
  /\ \/ Toggle = {} /\ node # "suspended"
     \/ \E c \in Toggle :
          /\ IsLatest(c, Toggle)
          /\ commands[c].operation = "disable" /\ node # "revoked" => node = "suspended"
          /\ node = "suspended" => commands[c].operation = "disable"

\* As long as no command was overtaken, the account is the work of the last
\* commands that took effect.
AccountTellsDone ==
  /\ done = {} => \/ ~Exists
                  \/ /\ client.enabled /\ commands # <<>>
                     /\ client.generation = commands[1].generation
  /\ ~overtaken /\ (\E c \in done : commands[c].operation = "delete") => ~Exists
  /\ ~overtaken /\ 1 \in done /\ (\A c \in done : commands[c].operation # "delete") =>
       /\ Exists /\ client.role
       /\ \A c \in done :
            /\ IsLatest(c, Credential \cap done) =>
                 client.generation = commands[c].generation
            /\ IsLatest(c, Toggle \cap done) =>
                 (client.enabled <=> commands[c].operation = "enable")
       /\ Toggle \cap done = {} => client.enabled

\* A command is reported applied only if the broker has taken it, across
\* interruptions, timeouts and retries.
AppliedMeansDone ==
  \A c \in DOMAIN commands : commands[c].state = "applied" => c \in done

\* When every command of a node is applied and none took effect after a newer
\* one, the account is the one the lifecycle calls for.
InOrderReconciles ==
  (~overtaken /\ \A c \in DOMAIN commands : commands[c].state = "applied")
    => Reconciled

\* The inductive invariant behind the properties above.
BrokerInv ==
  /\ TypeOK /\ JobAgrees /\ AppliedMeansDone
  /\ CommandsTellState /\ AccountTellsDone

\* A command that is applied or failed stays so and is never claimed again.
ClosedForGood ==
  [][\A c \in DOMAIN commands :
       commands[c].state \in Closed => commands'[c] = commands[c]]_vars

\* Every command is applied or given up, through interruptions and expired
\* leases.
EventuallyClosed ==
  \A c \in 1..MaxCommands :
    c \in DOMAIN commands ~> (c \in DOMAIN commands /\ commands[c].state \in Closed)

\* docs/operations/mqtt-broker-control.md, "applied: strict broker
\* reconciliation passed, no action": with no command left to run, a node
\* reported applied has the account its state calls for.  The code keeps no
\* order between the commands of a node: a retried one runs after newer ones.
AppliedIsReconciled ==
  (Synchronization = "applied" /\ Waiting = {} /\ job = 0 /\ Recoverable = {})
    => Reconciled
=============================================================================
