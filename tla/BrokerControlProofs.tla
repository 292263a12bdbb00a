------------------------- MODULE BrokerControlProofs -------------------------
(***************************************************************************)
(* Proofs about BrokerControl, for any number of commands, attempts and    *)
(* commands per run.                                                       *)
(*                                                                         *)
(* The registry only appends commands and the worker only changes their    *)
(* state and attempts, so the operations of the commands tell the state of *)
(* the node (CommandsTellState).  Every effect on the account is the       *)
(* effect of the newest command so far, or marks the history overtaken, so *)
(* the account tells the last effects (AccountTellsDone).  Together they   *)
(* give InOrderReconciles.                                                 *)
(***************************************************************************)
EXTENDS BrokerControl, SequenceTheorems, TLAPS

LEMMA InitInv == Init => BrokerInv
<1> SUFFICES ASSUME Init PROVE BrokerInv
  OBVIOUS
<1>1. DOMAIN commands = {} /\ commands \in Seq(Command)
  BY DEF Init
<1>2. /\ client \in [enabled : BOOLEAN, generation : Nat, role : BOOLEAN]
      /\ ready \in Seq(DOMAIN commands) /\ arriving \in Seq(DOMAIN commands)
  BY DEF Init, NoClient
<1>3. TypeOK
  <2>1. claims \in 0..MaxPerRun
    BY ConstantsAssumption DEF Init
  <2>2. overtaken \in BOOLEAN /\ generation \in Nat
    BY DEF Init
  <2>3. QED
    BY <1>1, <1>2, <2>1, <2>2 DEF Init, TypeOK
<1>4. /\ JobAgrees
      /\ AppliedMeansDone
      /\ AccountTellsDone
  <2>1. JobAgrees
    BY DEF Init, JobAgrees
  <2>2. AppliedMeansDone
    BY <1>1 DEF AppliedMeansDone
  <2>3. AccountTellsDone
    BY DEF Init, AccountTellsDone, Exists, NoClient
  <2>4. QED
    BY <2>1, <2>2, <2>3
<1>5. CommandsTellState
  BY <1>1 DEF Init, CommandsTellState, Toggle
<1>6. QED
  BY <1>3, <1>4, <1>5 DEF BrokerInv

-----------------------------------------------------------------------------
(* Requests                                                                *)

\* What EnqueueCommand does to the commands, entry by entry.
LEMMA Appended ==
  ASSUME TypeOK, NEW op \in Operation, generation' \in Nat \ {0}, EnqueueCommand(op)
  PROVE  /\ commands' \in Seq(Command)
         /\ Len(commands') = Len(commands) + 1
         /\ DOMAIN commands = 1..Len(commands)
         /\ DOMAIN commands' = 1..(Len(commands) + 1)
         /\ \A c \in DOMAIN commands : commands'[c] = commands[c]
         /\ commands'[Len(commands) + 1].operation = op
         /\ commands'[Len(commands) + 1].generation = generation'
         /\ commands'[Len(commands) + 1].state = "pending"
<1> DEFINE rec == [operation |-> op, generation |-> generation',
                   state |-> "pending", attempts |-> 0]
<1>1. /\ rec.operation = op /\ rec.generation = generation' /\ rec.state = "pending"
  OBVIOUS
<1>2. rec \in Command
  BY ConstantsAssumption DEF Command, Open, Closed
<1>3. commands' = Append(commands, rec) /\ commands \in Seq(Command)
  BY DEF EnqueueCommand, TypeOK
<1> HIDE DEF rec
<1>4. QED
  BY <1>1, <1>2, <1>3

LEMMA EnqueueType ==
  ASSUME TypeOK, NEW op \in Operation, generation' \in Nat \ {0}, EnqueueCommand(op),
         node' \in {"none", "pending", "active", "suspended", "revoked"}
  PROVE  TypeOK'
<1>1. /\ commands' \in Seq(Command)
      /\ DOMAIN commands = 1..Len(commands)
      /\ DOMAIN commands' = 1..(Len(commands) + 1)
      /\ DOMAIN commands \subseteq DOMAIN commands'
      /\ Len(commands) + 1 \in DOMAIN commands'
  BY Appended DEF TypeOK
<1>2. ready' \in Seq(DOMAIN commands')
  BY <1>1 DEF EnqueueCommand, TypeOK
<1>3. arriving' \in Seq(DOMAIN commands')
  BY <1>1 DEF EnqueueCommand, TypeOK
<1>4. QED
  BY <1>1, <1>2, <1>3 DEF EnqueueCommand, TypeOK, worker, broker

\* Nothing about job, effects and account depends on the new command.
LEMMA EnqueueAccount ==
  ASSUME TypeOK, JobAgrees, AppliedMeansDone, AccountTellsDone,
         NEW op \in Operation, generation' \in Nat \ {0}, EnqueueCommand(op)
  PROVE  JobAgrees' /\ AppliedMeansDone' /\ AccountTellsDone'
<1>1. /\ DOMAIN commands = 1..Len(commands)
      /\ DOMAIN commands' = 1..(Len(commands) + 1)
      /\ \A c \in DOMAIN commands : commands'[c] = commands[c]
      /\ commands'[Len(commands) + 1].state = "pending"
  BY Appended
<1>2. UNCHANGED <<phase, claims, job, result, client, done, overtaken>>
  BY DEF EnqueueCommand, worker, broker
<1>3. JobAgrees'
  BY <1>1, <1>2 DEF JobAgrees, TypeOK
<1>4. AppliedMeansDone'
  BY <1>1, <1>2 DEF AppliedMeansDone, TypeOK
<1>5. /\ (Credential \cap done)' = Credential \cap done
      /\ (Toggle \cap done)' = Toggle \cap done
      /\ \A c \in done : commands'[c] = commands[c]
  BY <1>1, <1>2 DEF Credential, Toggle, TypeOK
<1>6. commands # <<>> => commands' # <<>> /\ commands'[1] = commands[1]
  BY <1>1 DEF TypeOK
<1>8. AccountTellsDone'
  BY <1>2, <1>5, <1>6 DEF AccountTellsDone, IsLatest, Exists
<1>7. QED
  BY <1>3, <1>4, <1>8

LEMMA GenerationPositive ==
  ASSUME TypeOK, CommandsTellState, node # "none"
  PROVE  generation \in Nat \ {0} /\ commands # <<>> /\ DOMAIN commands = 1..Len(commands)
<1>1. PICK c \in Credential : commands[c].generation = generation
  BY DEF CommandsTellState
<1>2. commands[c] \in Command
  BY <1>1 DEF Credential, TypeOK
<1>3. QED
  BY <1>1, <1>2 DEF Command, TypeOK, CommandsTellState

\* A request keeps the story of the commands: one case per request.
LEMMA RequestStory ==
  ASSUME TypeOK, CommandsTellState, NEW op \in Operation, generation' \in Nat \ {0},
         EnqueueCommand(op),
         \/ op = "provision" /\ node = "none" /\ node' = "pending"
         \/ op = "rotate" /\ node \in {"pending", "active", "suspended"} /\ node' = node
         \/ op = "enable" /\ node = "suspended" /\ node' = "active"
         \/ op = "disable" /\ node = "active" /\ node' = "suspended"
         \/ op = "delete" /\ node \in {"pending", "active", "suspended"} /\ node' = "revoked",
         op \notin {"provision", "rotate"} => generation' = generation
  PROVE  CommandsTellState'
<1> DEFINE n == Len(commands) + 1
<1>1. /\ commands' # <<>>
      /\ DOMAIN commands = 1..Len(commands)
      /\ DOMAIN commands' = 1..n
      /\ \A c \in DOMAIN commands : commands'[c] = commands[c]
      /\ commands'[n].operation = op
      /\ commands'[n].generation = generation'
      /\ Len(commands) \in Nat /\ n \in Nat
      /\ Len(commands') = n
  BY Appended DEF TypeOK
<1> HIDE DEF n
<1>2. /\ n \notin DOMAIN commands
      /\ DOMAIN commands' = DOMAIN commands \cup {n}
      /\ \A c \in DOMAIN commands : c <= n /\ c \in Nat
      /\ commands = <<>> <=> n = 1
  BY <1>1 DEF n, TypeOK
<1>3. \A c \in DOMAIN commands' :
        /\ commands'[c].operation = "provision" <=> c = 1
        /\ commands'[c].operation = "delete" => c = Len(commands')
  <2>1. op = "provision" <=> n = 1
    BY <1>2 DEF CommandsTellState
  <2>2. \A c \in DOMAIN commands : commands[c].operation # "delete"
    BY DEF CommandsTellState
  <2>3. QED
    BY <1>1, <1>2, <2>1, <2>2 DEF CommandsTellState
<1>4. node' = "revoked" <=> \E c \in DOMAIN commands' : commands'[c].operation = "delete"
  BY <1>1, <1>2 DEF CommandsTellState
<1>5. \E c \in Credential' : IsLatest(c, Credential') /\ commands'[c].generation = generation'
  <2>1. CASE op \in {"provision", "rotate"}
    <3>1. n \in Credential'
      BY <1>1, <1>2, <2>1 DEF Credential
    <3>2. \A d \in Credential' : d <= n
      BY <1>1, <1>2 DEF Credential
    <3>3. QED
      BY <1>1, <3>1, <3>2 DEF IsLatest
  <2>2. CASE op \notin {"provision", "rotate"}
    <3>1. Credential' = Credential
      BY <1>1, <1>2, <2>2 DEF Credential
    <3>2. commands # <<>>
      BY <2>2 DEF CommandsTellState
    <3>3. PICK c \in Credential : IsLatest(c, Credential) /\ commands[c].generation = generation
      BY <3>2 DEF CommandsTellState
    <3>4. commands'[c] = commands[c]
      BY <1>1, <3>3 DEF Credential
    <3>5. QED
      BY <2>2, <3>1, <3>3, <3>4 DEF IsLatest
  <2>3. QED
    BY <2>1, <2>2
<1>6. \/ Toggle' = {} /\ node' # "suspended"
      \/ \E c \in Toggle' :
           /\ IsLatest(c, Toggle')
           /\ commands'[c].operation = "disable" /\ node' # "revoked" => node' = "suspended"
           /\ node' = "suspended" => commands'[c].operation = "disable"
  <2>1. CASE op \in {"enable", "disable"}
    <3>1. n \in Toggle'
      BY <1>1, <1>2, <2>1 DEF Toggle
    <3>2. \A d \in Toggle' : d <= n
      BY <1>1, <1>2 DEF Toggle
    <3>3. QED
      BY <1>1, <2>1, <3>1, <3>2 DEF IsLatest
  <2>2. CASE op \notin {"enable", "disable"}
    <3>1. Toggle' = Toggle
      BY <1>1, <1>2, <2>2 DEF Toggle
    <3>2. \A c \in Toggle : commands'[c] = commands[c]
      BY <1>1 DEF Toggle
    <3>3. /\ node' = "suspended" <=> node = "suspended" /\ node' # "revoked"
          /\ node # "revoked"
      BY <2>2
    <3>4. QED
      BY <3>1, <3>2, <3>3 DEF CommandsTellState, IsLatest
  <2>3. QED
    BY <2>1, <2>2
<1>7. node' = "none" <=> commands' = <<>>
  BY <1>1
<1>8. QED
  BY <1>3, <1>4, <1>5, <1>6, <1>7 DEF CommandsTellState

LEMMA RequestInv ==
  ASSUME BrokerInv, Lifecycle
  PROVE  BrokerInv'
<1> DEFINE Requested(op) ==
      /\ op \in Operation /\ generation' \in Nat \ {0} /\ EnqueueCommand(op)
      /\ \/ op = "provision" /\ node = "none" /\ node' = "pending"
         \/ op = "rotate" /\ node \in {"pending", "active", "suspended"} /\ node' = node
         \/ op = "enable" /\ node = "suspended" /\ node' = "active"
         \/ op = "disable" /\ node = "active" /\ node' = "suspended"
         \/ op = "delete" /\ node \in {"pending", "active", "suspended"} /\ node' = "revoked"
      /\ op \notin {"provision", "rotate"} => generation' = generation
<1>1. ASSUME NEW op, Requested(op) PROVE BrokerInv'
  <2>1. TypeOK'
    BY <1>1, EnqueueType DEF BrokerInv
  <2>2. JobAgrees' /\ AppliedMeansDone' /\ AccountTellsDone'
    BY <1>1, EnqueueAccount DEF BrokerInv
  <2>3. CommandsTellState'
    BY <1>1, RequestStory DEF BrokerInv
  <2>4. QED
    BY <2>1, <2>2, <2>3 DEF BrokerInv
<1>2. TypeOK /\ CommandsTellState
  BY DEF BrokerInv
<1>3. CASE Provision
  <2>1. Requested("provision")
    BY <1>3 DEF Provision, Operation
  <2>2. QED
    BY <1>1, <2>1
<1>4. CASE RotateCredential
  <2>1. Requested("rotate")
    BY <1>2, <1>4, GenerationPositive DEF RotateCredential, Operation
  <2>2. QED
    BY <1>1, <2>1
<1>5. CASE Reactivate
  <2>1. Requested("enable")
    BY <1>2, <1>5, GenerationPositive DEF Reactivate, Operation
  <2>2. QED
    BY <1>1, <2>1
<1>6. CASE Suspend
  <2>1. Requested("disable")
    BY <1>2, <1>6, GenerationPositive DEF Suspend, Operation
  <2>2. QED
    BY <1>1, <2>1
<1>7. CASE Revoke
  <2>1. Requested("delete")
    BY <1>2, <1>7, GenerationPositive DEF Revoke, Operation
  <2>2. QED
    BY <1>1, <2>1
<1>8. CASE Activate
  <2>1. /\ node = "pending" /\ node' = "active"
        /\ UNCHANGED <<generation, commands, ready, arriving, delayed, phase, claims,
                       job, result, client, done, overtaken>>
    BY <1>8 DEF Activate, order, worker, broker
  <2>2. TypeOK' /\ JobAgrees' /\ AppliedMeansDone'
    BY <2>1 DEF BrokerInv, TypeOK, JobAgrees, AppliedMeansDone
  <2>3. Credential' = Credential /\ Toggle' = Toggle
    BY <2>1 DEF Credential, Toggle
  <2>4. AccountTellsDone'
    BY <2>1, <2>3 DEF BrokerInv, AccountTellsDone, Exists, IsLatest
  <2>5. CommandsTellState'
    BY <2>1, <2>3 DEF BrokerInv, CommandsTellState, IsLatest
  <2>6. QED
    BY <2>2, <2>4, <2>5 DEF BrokerInv
<1>9. QED
  BY <1>3, <1>4, <1>5, <1>6, <1>7, <1>8 DEF Lifecycle

-----------------------------------------------------------------------------
(* The worker                                                              *)

\* The worker leaves operations and generations alone.
SameStory ==
  /\ DOMAIN commands' = DOMAIN commands
  /\ Len(commands') = Len(commands)
  /\ \A c \in DOMAIN commands :
       /\ commands'[c].operation = commands[c].operation
       /\ commands'[c].generation = commands[c].generation

LEMMA StoryKept ==
  ASSUME TypeOK, CommandsTellState, SameStory, UNCHANGED <<node, generation>>
  PROVE  CommandsTellState'
<1>1. Credential' = Credential /\ Toggle' = Toggle
  BY DEF Credential, Toggle, SameStory
<1>2. commands' = <<>> <=> commands = <<>>
  <2>1. commands \in Seq(Command)
    BY DEF TypeOK
  <2>2. commands' = <<>> <=> DOMAIN commands' = {}
    BY DEF SameStory
  <2>3. QED
    BY <2>1, <2>2 DEF SameStory
<1>3. \A c \in Credential \cup Toggle : c \in DOMAIN commands
  BY DEF Credential, Toggle
<1>4. QED
  BY <1>1, <1>2, <1>3 DEF CommandsTellState, IsLatest, SameStory

LEMMA AccountKept ==
  ASSUME TypeOK, AccountTellsDone, SameStory, UNCHANGED <<client, done, overtaken>>
  PROVE  AccountTellsDone'
<1>1. /\ (Credential \cap done)' = Credential \cap done
      /\ (Toggle \cap done)' = Toggle \cap done
      /\ done \subseteq DOMAIN commands
  BY DEF Credential, Toggle, SameStory, TypeOK
<1>2. commands # <<>> =>
        commands' # <<>> /\ commands'[1].generation = commands[1].generation
  BY DEF SameStory, TypeOK
<1>3. QED
  BY <1>1, <1>2 DEF AccountTellsDone, IsLatest, Exists, SameStory

\* One entry gets another state, and perhaps another count of attempts.
LEMMA Restated ==
  ASSUME TypeOK, NEW c \in DOMAIN commands, NEW rec \in Command,
         rec.operation = commands[c].operation,
         rec.generation = commands[c].generation,
         commands' = [commands EXCEPT ![c] = rec]
  PROVE  /\ commands' \in Seq(Command) /\ SameStory
         /\ commands'[c] = rec
         /\ \A d \in DOMAIN commands \ {c} : commands'[d] = commands[d]
  BY DEF SameStory, TypeOK

LEMMA AttemptType ==
  ASSUME NEW c \in Command
  PROVE  /\ Attempt(c) \in Command
         /\ Attempt(c).operation = c.operation
         /\ Attempt(c).generation = c.generation
  BY ConstantsAssumption DEF Attempt, Command

LEMMA StateType ==
  ASSUME NEW c \in Command,
         NEW st \in Closed \cup Open \cup {"processing"}
  PROVE  /\ [c EXCEPT !.state = st] \in Command
         /\ [c EXCEPT !.state = st].operation = c.operation
         /\ [c EXCEPT !.state = st].generation = c.generation
         /\ [c EXCEPT !.state = st].state = st
  BY DEF Command

LEMMA RecoverInv ==
  ASSUME BrokerInv, NEW c \in Recoverable, RecoverStale(c)
  PROVE  BrokerInv'
<1> DEFINE rec == [commands[c] EXCEPT !.state = "retrying"]
<1>1. /\ c \in DOMAIN commands /\ commands[c] \in Command
      /\ commands[c].state = "processing" /\ job = 0 /\ TypeOK
  BY DEF Recoverable, RecoverStale, BrokerInv, TypeOK, JobAgrees
<1>2. /\ rec \in Command /\ rec.operation = commands[c].operation
      /\ rec.generation = commands[c].generation /\ rec.state = "retrying"
  BY <1>1, StateType DEF Open
<1>3. commands' = [commands EXCEPT ![c] = rec]
  BY <1>1 DEF RecoverStale
<1> HIDE DEF rec
<1>4. /\ commands' \in Seq(Command) /\ SameStory /\ commands'[c] = rec
      /\ \A d \in DOMAIN commands \ {c} : commands'[d] = commands[d]
  BY <1>1, <1>2, <1>3, Restated
<1>5. UNCHANGED <<node, generation, ready, delayed, phase, claims, job, result,
                 client, done, overtaken>>
  BY DEF RecoverStale, worker, broker
<1>6. TypeOK'
  <2>1. arriving' \in Seq(DOMAIN commands)
    BY <1>1 DEF RecoverStale, TypeOK
  <2>2. QED
    BY <1>1, <1>4, <1>5, <2>1 DEF TypeOK, SameStory
<1>7. JobAgrees'
  BY <1>1, <1>5 DEF BrokerInv, JobAgrees
<1>8. AppliedMeansDone'
  BY <1>2, <1>4, <1>5 DEF BrokerInv, AppliedMeansDone, SameStory
<1>9. CommandsTellState' /\ AccountTellsDone'
  BY <1>1, <1>4, <1>5, StoryKept, AccountKept DEF BrokerInv
<1>10. QED
  BY <1>6, <1>7, <1>8, <1>9 DEF BrokerInv

LEMMA ClaimInv ==
  ASSUME BrokerInv, Claim
  PROVE  BrokerInv'
<1> DEFINE c == Head(ready)
           st == commands'[c].state
<1>1. TypeOK /\ ready # <<>> /\ ready \in Seq(DOMAIN commands) /\ job = 0
  BY DEF BrokerInv, TypeOK, Claim, JobAgrees
<1>2. c \in DOMAIN commands /\ Tail(ready) \in Seq(DOMAIN commands)
  BY <1>1
<1>3. commands[c] \in Command /\ c \in Nat \ {0} /\ DOMAIN commands = 1..Len(commands)
  BY <1>1, <1>2 DEF TypeOK
<1>4. \/ /\ job' = c /\ phase' = "apply"
         /\ commands' = [commands EXCEPT ![c] = [Attempt(commands[c]) EXCEPT !.state = "processing"]]
      \/ /\ job' = job /\ phase' = phase
         /\ commands' = [commands EXCEPT ![c] = [Attempt(commands[c]) EXCEPT !.state = "failed"]]
  BY <1>2 DEF Claim
<1>5. UNCHANGED <<node, generation, arriving, delayed, result, client, done, overtaken>>
  BY DEF Claim, broker
<1>6. claims' \in 0..MaxPerRun /\ ready' = Tail(ready)
  BY <1>1, ConstantsAssumption DEF Claim, TypeOK
<1> HIDE DEF c
<1>7. ASSUME NEW s \in {"processing", "failed"},
             commands' = [commands EXCEPT ![c] = [Attempt(commands[c]) EXCEPT !.state = s]]
      PROVE  /\ commands' \in Seq(Command) /\ SameStory /\ commands'[c].state = s
             /\ \A d \in DOMAIN commands \ {c} : commands'[d] = commands[d]
  <2> DEFINE rec == [Attempt(commands[c]) EXCEPT !.state = s]
  <2>1. /\ Attempt(commands[c]) \in Command
        /\ Attempt(commands[c]).operation = commands[c].operation
        /\ Attempt(commands[c]).generation = commands[c].generation
    BY <1>3, AttemptType
  <2>2. s \in Closed \cup Open \cup {"processing"}
    BY DEF Closed
  <2>3. /\ rec \in Command /\ rec.operation = commands[c].operation
        /\ rec.generation = commands[c].generation /\ rec.state = s
    BY <2>1, <2>2, StateType
  <2>4. commands' = [commands EXCEPT ![c] = rec]
    BY <1>7
  <2> HIDE DEF rec
  <2>5. QED
    BY <1>1, <1>2, <2>3, <2>4, Restated
<1>8. /\ commands' \in Seq(Command) /\ SameStory
      /\ commands'[c].state \in {"processing", "failed"}
      /\ \A d \in DOMAIN commands \ {c} : commands'[d] = commands[d]
      /\ \/ job' = c /\ phase' = "apply" /\ commands'[c].state = "processing"
         \/ job' = job /\ phase' = phase
  BY <1>4, <1>7
<1>9. TypeOK'
  BY <1>1, <1>2, <1>5, <1>6, <1>8 DEF TypeOK, SameStory
<1>10. JobAgrees'
  <2>1. phase = "run" /\ result = "none"
    BY DEF Claim, BrokerInv, JobAgrees
  <2>2. QED
    BY <1>1, <1>3, <1>5, <1>8, <2>1 DEF BrokerInv, JobAgrees
<1>11. AppliedMeansDone'
  BY <1>5, <1>8 DEF BrokerInv, AppliedMeansDone, SameStory
<1>12. CommandsTellState' /\ AccountTellsDone'
  BY <1>1, <1>5, <1>8, StoryKept, AccountKept DEF BrokerInv
<1>13. QED
  BY <1>9, <1>10, <1>11, <1>12 DEF BrokerInv

LEMMA MarkInv ==
  ASSUME BrokerInv, Mark
  PROVE  BrokerInv'
<1> DEFINE rec == [commands[job] EXCEPT !.state = result]
<1>1. /\ TypeOK /\ job \in DOMAIN commands /\ commands[job] \in Command
      /\ result \in {"applied", "retrying", "failed"}
  BY DEF Mark, BrokerInv, TypeOK, JobAgrees
<1>2. /\ rec \in Command /\ rec.operation = commands[job].operation
      /\ rec.generation = commands[job].generation /\ rec.state = result
  BY <1>1, StateType DEF Open, Closed
<1>3. commands' = [commands EXCEPT ![job] = rec]
  BY <1>1 DEF Mark
<1> HIDE DEF rec
<1>4. /\ commands' \in Seq(Command) /\ SameStory /\ commands'[job] = rec
      /\ \A d \in DOMAIN commands \ {job} : commands'[d] = commands[d]
  BY <1>1, <1>2, <1>3, Restated
<1>5. /\ UNCHANGED <<node, generation, ready, claims, client, done, overtaken>>
      /\ phase' = "run" /\ job' = 0 /\ result' = "none"
  BY DEF Mark, broker
<1>6. arriving' \in Seq(DOMAIN commands) /\ delayed' \subseteq DOMAIN commands
  <2>1. arriving \in Seq(DOMAIN commands) /\ delayed \subseteq DOMAIN commands
    BY DEF BrokerInv, TypeOK
  <2>2. ASSUME NEW i \in 1..(Len(arriving) + 1), arriving' = InsertAt(arriving, i, job)
        PROVE  arriving' \in Seq(DOMAIN commands)
    <3>1. /\ SubSeq(arriving, 1, i - 1) \in Seq(DOMAIN commands)
          /\ SubSeq(arriving, i, Len(arriving)) \in Seq(DOMAIN commands)
          /\ <<job>> \in Seq(DOMAIN commands)
      BY <1>1, <2>1, <2>2
    <3>2. QED
      BY <2>2, <3>1 DEF InsertAt
  <2>3. QED
    BY <1>1, <2>1, <2>2 DEF Mark
<1>7. TypeOK'
  BY <1>1, <1>4, <1>5, <1>6 DEF TypeOK, SameStory
<1>8. JobAgrees'
  BY <1>5 DEF JobAgrees
<1>9. AppliedMeansDone'
  BY <1>1, <1>2, <1>4, <1>5 DEF BrokerInv, AppliedMeansDone, SameStory, JobAgrees
<1>10. CommandsTellState' /\ AccountTellsDone'
  BY <1>1, <1>4, <1>5, StoryKept, AccountKept DEF BrokerInv
<1>11. QED
  BY <1>7, <1>8, <1>9, <1>10 DEF BrokerInv

-----------------------------------------------------------------------------
(* Effects on the account                                                  *)

\* An effect that does not mark the history overtaken is that of the newest
\* command among those done.
LEMMA EffectAccount ==
  ASSUME TypeOK, CommandsTellState, AccountTellsDone, job \in DOMAIN commands,
         TakeEffect, UNCHANGED commands
  PROVE  AccountTellsDone'
<1> DEFINE c == commands[job]
<1>1. /\ c \in Command /\ DOMAIN commands = 1..Len(commands)
      /\ Len(commands) \in Nat /\ done \subseteq DOMAIN commands /\ commands # <<>>
      /\ client \in [enabled : BOOLEAN, generation : Nat, role : BOOLEAN]
  BY DEF TypeOK
<1>2. /\ client' = Effect(c) /\ CanApply(c)
      /\ done' = done \cup {job}
      /\ ~overtaken' => ~overtaken /\ \A d \in done : d <= job
  <2>1. ~overtaken' => ~overtaken /\ \A d \in done : ~(d > job)
    BY DEF TakeEffect
  <2>2. QED
    BY <1>1, <2>1 DEF TakeEffect
<1>3. \A d \in DOMAIN commands :
        /\ commands[d].operation = "provision" <=> d = 1
        /\ commands[d].operation = "delete" => d = Len(commands)
  BY DEF CommandsTellState
<1>4. 1 \in DOMAIN commands
  BY <1>1
<1>5. /\ job \in Credential <=> c.operation \in {"provision", "rotate"}
      /\ job \in Toggle <=> c.operation \in {"enable", "disable"}
      /\ Credential' = Credential /\ Toggle' = Toggle
      /\ Credential \subseteq DOMAIN commands /\ Toggle \subseteq DOMAIN commands
      /\ 1 \notin Toggle
  BY <1>3 DEF Credential, Toggle
<1>6. ASSUME ~overtaken', NEW d \in done', commands[d].operation = "delete"
      PROVE  ~Exists'
  <2>1. d = Len(commands) /\ d <= job
    BY <1>1, <1>2, <1>3, <1>6
  <2>2. d = job
    BY <1>1, <2>1
  <2>3. client' = NoClient
    BY <1>2, <1>6, <2>2 DEF Effect
  <2>4. QED
    BY <2>3 DEF Exists, NoClient
<1>7. ASSUME ~overtaken', 1 \in done', \A d \in done' : commands[d].operation # "delete"
      PROVE  /\ Exists' /\ client'.role
             /\ \A d \in done' :
                  /\ IsLatest(d, Credential \cap done') =>
                       client'.generation = commands[d].generation
                  /\ IsLatest(d, Toggle \cap done') =>
                       (client'.enabled <=> commands[d].operation = "enable")
             /\ Toggle \cap done' = {} => client'.enabled
  <2>1. CASE job = 1
    <3>1. c.operation = "provision" /\ done' = {1}
      <4>1. \A d \in done : d <= 1 /\ d \in 1..Len(commands)
        BY <1>1, <1>2, <1>7, <2>1
      <4>2. \A d \in done : d = 1
        BY <1>1, <4>1
      <4>3. QED
        BY <1>2, <1>3, <1>4, <2>1, <4>2
    <3>2. client' = IF Exists THEN [client EXCEPT !.role = TRUE]
                    ELSE [enabled |-> TRUE, generation |-> c.generation, role |-> TRUE]
      BY <1>2, <3>1 DEF Effect
    <3>3. Exists => client.enabled /\ client.generation = c.generation
      <4>1. CASE done = {}
        BY <2>1, <4>1 DEF AccountTellsDone
      <4>2. CASE done # {}
        <5>1. done = {1} /\ ~overtaken
          BY <1>2, <1>7, <3>1, <4>2
        <5>2. IsLatest(1, Credential \cap done) /\ Toggle \cap done = {}
          BY <1>5, <2>1, <3>1, <5>1 DEF IsLatest
        <5>3. client.enabled /\ client.generation = commands[1].generation
          BY <1>7, <3>1, <5>1, <5>2 DEF AccountTellsDone
        <5>4. QED
          BY <2>1, <5>3
      <4>3. QED
        BY <4>1, <4>2
    <3>4. client'.generation = c.generation
      BY <1>1, <3>2, <3>3
    <3>5. client'.role /\ client'.enabled
      BY <1>1, <3>2, <3>3
    <3>6. Exists'
      BY <1>1, <3>4 DEF Exists, Command
    <3>7. Toggle \cap done' = {}
      BY <1>5, <3>1
    <3>8. QED
      BY <2>1, <3>1, <3>4, <3>5, <3>6, <3>7 DEF IsLatest
  <2>2. CASE job # 1
    <3>1. /\ 1 \in done /\ ~overtaken
          /\ \A d \in done : d <= job
          /\ \A d \in done : commands[d].operation # "delete"
      BY <1>2, <1>7, <2>2
    <3>2. /\ Exists /\ client.role
          /\ \A d \in done :
               /\ IsLatest(d, Credential \cap done) =>
                    client.generation = commands[d].generation
               /\ IsLatest(d, Toggle \cap done) =>
                    (client.enabled <=> commands[d].operation = "enable")
          /\ Toggle \cap done = {} => client.enabled
      BY <3>1 DEF AccountTellsDone
    <3>3. c.operation \in {"rotate", "enable", "disable"}
      BY <1>1, <1>2, <1>3, <1>7, <2>2 DEF Command, Operation
    <3>4. CASE c.operation = "rotate"
      <4>1. client' = [client EXCEPT !.generation = c.generation]
        BY <1>2, <3>4 DEF Effect
      <4>2. client'.generation = c.generation /\ client'.role = client.role
            /\ client'.enabled = client.enabled
        BY <1>1, <4>1
      <4>3. Exists'
        BY <1>1, <4>2 DEF Exists, Command
      <4>4. Toggle \cap done' = Toggle \cap done
        BY <1>2, <1>5, <3>4
      <4>5. \A d \in done' : IsLatest(d, Credential \cap done') => d = job
        BY <1>1, <1>2, <1>5, <3>1, <3>4 DEF IsLatest
      <4>6. \A d \in done' : IsLatest(d, Toggle \cap done') => d \in done
        BY <4>4 DEF IsLatest
      <4>7. QED
        BY <3>2, <4>2, <4>3, <4>4, <4>5, <4>6
    <3>5. CASE c.operation \in {"enable", "disable"}
      <4>1. client' = [client EXCEPT !.enabled = (c.operation = "enable")]
        BY <1>2, <3>5 DEF Effect
      <4>2. /\ client'.generation = client.generation /\ client'.role = client.role
            /\ client'.enabled <=> c.operation = "enable"
        BY <1>1, <4>1
      <4>3. Exists'
        BY <3>2, <4>2 DEF Exists
      <4>4. Credential \cap done' = Credential \cap done
        BY <1>2, <1>5, <3>5
      <4>5. \A d \in done' : IsLatest(d, Toggle \cap done') => d = job
        BY <1>1, <1>2, <1>5, <3>1, <3>5 DEF IsLatest
      <4>6. \A d \in done' : IsLatest(d, Credential \cap done') => d \in done
        BY <4>4 DEF IsLatest
      <4>7. Toggle \cap done' # {}
        BY <1>2, <1>5, <3>5
      <4>8. QED
        BY <3>2, <4>2, <4>3, <4>4, <4>5, <4>6, <4>7
    <3>6. QED
      BY <3>3, <3>4, <3>5
  <2>3. QED
    BY <2>1, <2>2
<1>8. done' # {}
  BY <1>2
<1>9. QED
  BY <1>5, <1>6, <1>7, <1>8 DEF AccountTellsDone

\* Creating the account without its role is harmless before anything else has
\* happened and marks the history overtaken after.
LEMMA PartialAccount ==
  ASSUME TypeOK, CommandsTellState, AccountTellsDone, job \in DOMAIN commands,
         CreateWithoutRole, UNCHANGED commands
  PROVE  AccountTellsDone'
<1>1. /\ job = 1 /\ ~Exists /\ done' = done /\ done \subseteq DOMAIN commands
      /\ commands # <<>> /\ DOMAIN commands = 1..Len(commands)
      /\ client' = [enabled |-> TRUE, generation |-> commands[1].generation, role |-> FALSE]
      /\ ~overtaken' => ~overtaken /\ \A d \in done : ~(d > 1)
  <2>1. DOMAIN commands = 1..Len(commands) /\ commands # <<>> /\ done \subseteq DOMAIN commands
    BY DEF TypeOK
  <2>2. commands[job].operation = "provision" /\ ~Exists /\ UNCHANGED done
    BY DEF CreateWithoutRole
  <2>3. job = 1
    BY <2>2 DEF CommandsTellState
  <2>4. ~overtaken' => ~overtaken /\ \A d \in done : ~(d > job)
    BY DEF CreateWithoutRole
  <2>5. QED
    BY <2>1, <2>2, <2>3, <2>4 DEF CreateWithoutRole
<1>2. done = {} => client'.enabled /\ client'.generation = commands[1].generation
  BY <1>1
<1>3. ASSUME ~overtaken'
      PROVE  done = {}
  <2>1. done \subseteq {1} /\ ~overtaken
    BY <1>1, <1>3
  <2>2. commands[1].operation = "provision"
    BY <1>1 DEF CommandsTellState
  <2>3. 1 \notin done
    BY <1>1, <2>1, <2>2 DEF AccountTellsDone
  <2>4. QED
    BY <2>1, <2>3
<1>4. QED
  BY <1>1, <1>2, <1>3 DEF AccountTellsDone

LEMMA EffectType ==
  ASSUME TypeOK, NEW c \in Command
  PROVE  /\ Effect(c) \in [enabled : BOOLEAN, generation : Nat, role : BOOLEAN]
         /\ [enabled |-> TRUE, generation |-> c.generation, role |-> FALSE]
              \in [enabled : BOOLEAN, generation : Nat, role : BOOLEAN]
<1>1. /\ client \in [enabled : BOOLEAN, generation : Nat, role : BOOLEAN]
      /\ c.generation \in Nat
      /\ c.operation \in {"provision", "rotate", "enable", "disable", "delete"}
  BY DEF TypeOK, Command, Operation
<1>2. CASE c.operation = "provision"
  BY <1>1, <1>2 DEF Effect
<1>3. CASE c.operation = "rotate"
  BY <1>1, <1>3 DEF Effect
<1>4. CASE c.operation = "enable"
  BY <1>1, <1>4 DEF Effect
<1>5. CASE c.operation = "disable"
  BY <1>1, <1>5 DEF Effect
<1>6. CASE c.operation = "delete"
  BY <1>1, <1>6 DEF Effect, NoClient
<1>7. QED
  BY <1>1, <1>2, <1>3, <1>4, <1>5, <1>6

LEMMA ApplyInv ==
  ASSUME BrokerInv, Apply \/ ApplyFails
  PROVE  BrokerInv'
<1>1. /\ TypeOK /\ CommandsTellState /\ AccountTellsDone
      /\ job \in DOMAIN commands /\ commands[job] \in Command
      /\ commands[job].state = "processing"
  <2>1. phase = "apply" /\ TypeOK /\ JobAgrees
    BY DEF Apply, ApplyFails, BrokerInv
  <2>2. job \in DOMAIN commands
    BY <2>1 DEF JobAgrees, TypeOK
  <2>3. QED
    BY <2>1, <2>2 DEF BrokerInv, JobAgrees, TypeOK
<1>2. /\ UNCHANGED <<node, generation, commands, ready, arriving, delayed, claims, job>>
      /\ phase' = "mark" /\ result' \in {"applied", "failed", "retrying"}
  BY DEF Apply, ApplyFails, registry, order
<1>3. TakeEffect \/ CreateWithoutRole \/ UNCHANGED <<client, done, overtaken>>
  BY DEF Apply, ApplyFails, broker
<1>4. result' = "applied" => job \in done'
  BY DEF Apply, ApplyFails, TakeEffect
<1>5. done \subseteq done' /\ done' \subseteq DOMAIN commands
  BY <1>1, <1>3 DEF TakeEffect, CreateWithoutRole, TypeOK
<1>6. client' \in [enabled : BOOLEAN, generation : Nat, role : BOOLEAN]
  BY <1>1, <1>3, EffectType DEF TakeEffect, CreateWithoutRole, TypeOK
<1>7. overtaken' \in BOOLEAN
  BY <1>1, <1>3 DEF TakeEffect, CreateWithoutRole, TypeOK
<1>8. TypeOK'
  BY <1>1, <1>2, <1>5, <1>6, <1>7 DEF TypeOK
<1>9. JobAgrees'
  BY <1>1, <1>2, <1>4 DEF BrokerInv, JobAgrees, Apply, ApplyFails
<1>10. AppliedMeansDone'
  BY <1>2, <1>5 DEF BrokerInv, AppliedMeansDone
<1>11. SameStory /\ UNCHANGED <<node, generation>>
  BY <1>2 DEF SameStory
<1>12. CommandsTellState'
  BY <1>1, <1>11, StoryKept
<1>13. AccountTellsDone'
  BY <1>1, <1>2, <1>3, <1>11, EffectAccount, PartialAccount, AccountKept
<1>14. QED
  BY <1>8, <1>9, <1>10, <1>12, <1>13 DEF BrokerInv

\* Steps that touch neither commands nor account.
LEMMA QuietInv ==
  ASSUME BrokerInv, UNCHANGED <<node, generation, commands, client, done, overtaken>>,
         TypeOK', JobAgrees'
  PROVE  BrokerInv'
<1>1. SameStory
  BY DEF SameStory
<1>2. CommandsTellState' /\ AccountTellsDone'
  BY <1>1, StoryKept, AccountKept DEF BrokerInv
<1>3. AppliedMeansDone'
  BY DEF BrokerInv, AppliedMeansDone
<1>4. QED
  BY <1>2, <1>3 DEF BrokerInv

LEMMA StepInv == BrokerInv /\ [Next]_vars => BrokerInv'
<1> SUFFICES ASSUME BrokerInv, [Next]_vars PROVE BrokerInv'
  OBVIOUS
<1>1. TypeOK /\ JobAgrees
  BY DEF BrokerInv
<1>2. CASE Lifecycle
  BY <1>2, RequestInv
<1>3. ASSUME NEW c \in Recoverable, RecoverStale(c) PROVE BrokerInv'
  BY <1>3, RecoverInv
<1>4. CASE StartRun
  <2>1. /\ UNCHANGED <<node, generation, commands, delayed, claims, job, result,
                       client, done, overtaken>>
        /\ phase = "idle" /\ phase' = "run"
    BY <1>4 DEF StartRun, registry, broker
  <2>2. ready' \in Seq(DOMAIN commands) /\ arriving' \in Seq(DOMAIN commands)
    BY <1>1, <1>4 DEF StartRun, TypeOK
  <2>3. TypeOK'
    BY <1>1, <2>1, <2>2 DEF TypeOK
  <2>4. JobAgrees'
    BY <1>1, <2>1 DEF JobAgrees
  <2>5. QED
    BY <2>1, <2>3, <2>4, QuietInv
<1>5. CASE Claim
  BY <1>5, ClaimInv
<1>6. CASE EndRun \/ Interrupt
  <2>1. /\ UNCHANGED <<node, generation, commands, ready, arriving, delayed,
                       client, done, overtaken>>
        /\ phase' = "idle" /\ claims' = 0
        /\ job' = 0 /\ result' = "none"
    BY <1>1, <1>6 DEF EndRun, Interrupt, registry, order, broker, JobAgrees
  <2>2. claims' \in 0..MaxPerRun
    BY <2>1, ConstantsAssumption
  <2>3. TypeOK'
    BY <1>1, <2>1, <2>2 DEF TypeOK
  <2>4. JobAgrees'
    BY <2>1 DEF JobAgrees
  <2>5. QED
    BY <2>1, <2>3, <2>4, QuietInv
<1>7. CASE Apply \/ ApplyFails
  BY <1>7, ApplyInv
<1>8. CASE Mark
  BY <1>8, MarkInv
<1>9. ASSUME NEW c \in delayed, Due(c) PROVE BrokerInv'
  <2>1. UNCHANGED <<node, generation, commands, ready, phase, claims, job, result,
                    client, done, overtaken>>
    BY <1>9 DEF Due, registry, worker, broker
  <2>2. arriving' \in Seq(DOMAIN commands) /\ delayed' \subseteq DOMAIN commands
    BY <1>1, <1>9 DEF Due, TypeOK
  <2>3. TypeOK'
    BY <1>1, <2>1, <2>2 DEF TypeOK
  <2>4. JobAgrees'
    BY <1>1, <2>1 DEF JobAgrees
  <2>5. QED
    BY <2>1, <2>3, <2>4, QuietInv
<1>10. CASE UNCHANGED vars
  <2>1. UNCHANGED <<node, generation, commands, ready, arriving, delayed, phase,
                    claims, job, result, client, done, overtaken>>
    BY <1>10 DEF vars, registry, order, worker, broker
  <2>2. TypeOK' /\ JobAgrees'
    BY <1>1, <2>1 DEF TypeOK, JobAgrees
  <2>3. QED
    BY <2>1, <2>2, QuietInv
<1>11. QED
  BY <1>2, <1>3, <1>4, <1>5, <1>6, <1>7, <1>8, <1>9, <1>10 DEF Next

-----------------------------------------------------------------------------
(* Theorems                                                                *)

\* Commands, worker and account agree after every step, however often the
\* worker is interrupted and whatever the broker answers.
THEOREM BrokerInvariant == Spec => []BrokerInv
<1>1. QED
  BY InitInv, StepInv, PTL DEF Spec

\* An applied command has had its effect at the broker.
THEOREM AppliedIsDone == Spec => []AppliedMeansDone
<1>1. BrokerInv => AppliedMeansDone
  BY DEF BrokerInv
<1>2. QED
  BY <1>1, BrokerInvariant, PTL

\* Commands that are all applied, none after a newer one, leave the account
\* the lifecycle of the node calls for.
THEOREM InOrder == Spec => []InOrderReconciles
<1>1. ASSUME BrokerInv, ~overtaken, \A c \in DOMAIN commands : commands[c].state = "applied"
      PROVE  Reconciled
  <2>1. /\ TypeOK /\ CommandsTellState /\ AccountTellsDone
        /\ done = DOMAIN commands /\ DOMAIN commands = 1..Len(commands)
    <3>1. TypeOK /\ CommandsTellState /\ AccountTellsDone
      BY <1>1 DEF BrokerInv
    <3>2. DOMAIN commands = 1..Len(commands) /\ done \subseteq DOMAIN commands
      BY <3>1 DEF TypeOK
    <3>3. DOMAIN commands \subseteq done
      BY <1>1 DEF BrokerInv, AppliedMeansDone
    <3>4. QED
      BY <3>1, <3>2, <3>3
  <2>2. CASE commands = <<>>
    <3>1. done = {} /\ node = "none"
      BY <2>1, <2>2 DEF CommandsTellState
    <3>2. ~Exists
      BY <2>2, <3>1, <2>1 DEF AccountTellsDone
    <3>3. QED
      BY <3>1, <3>2 DEF Reconciled
  <2>3. CASE commands # <<>> /\ node = "revoked"
    <3>1. ~Exists
      BY <1>1, <2>1, <2>3 DEF CommandsTellState, AccountTellsDone
    <3>2. QED
      BY <2>3, <3>1 DEF Reconciled
  <2>4. CASE commands # <<>> /\ node # "revoked"
    <3>1. 1 \in done /\ \A c \in done : commands[c].operation # "delete"
      BY <2>1, <2>4 DEF CommandsTellState, TypeOK
    <3>2. Credential \cap done = Credential /\ Toggle \cap done = Toggle
      BY <2>1 DEF Credential, Toggle
    <3>3. /\ Exists /\ client.role
          /\ \A c \in done :
               /\ IsLatest(c, Credential) => client.generation = commands[c].generation
               /\ IsLatest(c, Toggle) =>
                    (client.enabled <=> commands[c].operation = "enable")
          /\ Toggle = {} => client.enabled
      BY <1>1, <2>1, <3>1, <3>2 DEF AccountTellsDone
    <3>4. client.generation = generation
      <4>1. PICK c \in Credential : IsLatest(c, Credential) /\ commands[c].generation = generation
        BY <2>1, <2>4 DEF CommandsTellState
      <4>2. QED
        BY <2>1, <3>3, <4>1 DEF Credential
    <3>5. client.enabled <=> node # "suspended"
      <4>1. CASE Toggle = {}
        BY <2>1, <3>3, <4>1 DEF CommandsTellState
      <4>2. CASE Toggle # {}
        <5>1. PICK c \in Toggle :
                /\ IsLatest(c, Toggle)
                /\ commands[c].operation = "disable" /\ node # "revoked" => node = "suspended"
                /\ node = "suspended" => commands[c].operation = "disable"
          BY <2>1, <4>2 DEF CommandsTellState
        <5>2. /\ c \in done
              /\ commands[c].operation \in {"enable", "disable"}
          BY <2>1, <5>1 DEF Toggle
        <5>3. client.enabled <=> commands[c].operation = "enable"
          BY <3>3, <5>1, <5>2
        <5>4. QED
          BY <2>4, <5>1, <5>2, <5>3
      <4>3. QED
        BY <4>1, <4>2
    <3>6. node \in {"pending", "active", "suspended"}
      BY <2>1, <2>4 DEF CommandsTellState, TypeOK
    <3>7. QED
      BY <3>3, <3>4, <3>5, <3>6 DEF Reconciled
  <2>5. QED
    BY <2>2, <2>3, <2>4
<1>2. BrokerInv => InOrderReconciles
  BY <1>1 DEF InOrderReconciles
<1>3. QED
  BY <1>2, BrokerInvariant, PTL

-----------------------------------------------------------------------------
(* The order of the commands                                               *)

LEMMA AppendSet ==
  ASSUME NEW S, NEW s \in Seq(S), NEW e \in S
  PROVE  /\ ToSet(Append(s, e)) = ToSet(s) \cup {e}
         /\ IsInjective(s) /\ e \notin ToSet(s) => IsInjective(Append(s, e))
<1>1. /\ DOMAIN s = 1..Len(s) /\ DOMAIN Append(s, e) = 1..(Len(s) + 1)
      /\ Len(s) \in Nat
      /\ \A i \in 1..Len(s) : Append(s, e)[i] = s[i]
      /\ Append(s, e)[Len(s) + 1] = e
  OBVIOUS
<1>2. QED
  BY <1>1 DEF ToSet, IsInjective

LEMMA ConcatSet ==
  ASSUME NEW S, NEW s \in Seq(S), NEW t \in Seq(S)
  PROVE  /\ ToSet(s \o t) = ToSet(s) \cup ToSet(t)
         /\ IsInjective(s) /\ IsInjective(t) /\ ToSet(s) \cap ToSet(t) = {}
              => IsInjective(s \o t)
<1>1. /\ DOMAIN s = 1..Len(s) /\ DOMAIN t = 1..Len(t)
      /\ DOMAIN (s \o t) = 1..(Len(s) + Len(t))
      /\ Len(s) \in Nat /\ Len(t) \in Nat
      /\ \A i \in 1..Len(s) : (s \o t)[i] = s[i]
      /\ \A i \in 1..Len(t) : (s \o t)[Len(s) + i] = t[i]
      /\ \A i \in (Len(s) + 1)..(Len(s) + Len(t)) :
           i - Len(s) \in 1..Len(t) /\ (s \o t)[i] = t[i - Len(s)]
  OBVIOUS
<1>2. \A i \in DOMAIN (s \o t) : i \in 1..Len(s) \/ i \in (Len(s) + 1)..(Len(s) + Len(t))
  BY <1>1
<1>3. ToSet(s \o t) \subseteq ToSet(s) \cup ToSet(t)
  BY <1>1, <1>2 DEF ToSet
<1>4. ToSet(s) \subseteq ToSet(s \o t)
  BY <1>1 DEF ToSet
<1>5. ToSet(t) \subseteq ToSet(s \o t)
  <2>1. SUFFICES ASSUME NEW i \in 1..Len(t) PROVE t[i] \in ToSet(s \o t)
    BY <1>1 DEF ToSet
  <2>2. Len(s) + i \in DOMAIN (s \o t) /\ (s \o t)[Len(s) + i] = t[i]
    BY <1>1
  <2>3. QED
    BY <2>2 DEF ToSet
<1>6. ASSUME IsInjective(s), IsInjective(t), ToSet(s) \cap ToSet(t) = {}
      PROVE  IsInjective(s \o t)
  <2>1. SUFFICES ASSUME NEW i \in DOMAIN (s \o t), NEW j \in DOMAIN (s \o t),
                        (s \o t)[i] = (s \o t)[j]
                 PROVE  i = j
    BY DEF IsInjective
  <2>2. CASE i \in 1..Len(s) /\ j \in 1..Len(s)
    BY <1>1, <1>6, <2>1, <2>2 DEF IsInjective
  <2>3. CASE i \in (Len(s) + 1)..(Len(s) + Len(t)) /\ j \in (Len(s) + 1)..(Len(s) + Len(t))
    <3>1. i - Len(s) = j - Len(s)
      BY <1>1, <1>6, <2>1, <2>3 DEF IsInjective
    <3>2. QED
      BY <1>1, <2>3, <3>1
  <2>4. ASSUME NEW a \in 1..Len(s), NEW b \in (Len(s) + 1)..(Len(s) + Len(t))
        PROVE  (s \o t)[a] # (s \o t)[b]
    <3>1. (s \o t)[a] \in ToSet(s) /\ (s \o t)[b] \in ToSet(t)
      BY <1>1 DEF ToSet
    <3>2. QED
      BY <1>6, <3>1
  <2>5. QED
    BY <1>2, <2>1, <2>2, <2>3, <2>4
<1>7. QED
  BY <1>3, <1>4, <1>5, <1>6

LEMMA TailSet ==
  ASSUME NEW S, NEW s \in Seq(S), s # <<>>, IsInjective(s)
  PROVE  /\ ToSet(Tail(s)) = ToSet(s) \ {Head(s)} /\ Head(s) \in ToSet(s)
         /\ IsInjective(Tail(s))
<1>1. /\ DOMAIN s = 1..Len(s) /\ Len(s) \in Nat \ {0}
      /\ DOMAIN Tail(s) = 1..(Len(s) - 1)
      /\ Head(s) = s[1]
      /\ \A i \in 1..(Len(s) - 1) : Tail(s)[i] = s[i + 1]
  OBVIOUS
<1>2. \A i \in 1..(Len(s) - 1) : i + 1 \in 1..Len(s) /\ i + 1 # 1
  BY <1>1
<1>3. \A j \in 1..Len(s) : j # 1 => j - 1 \in 1..(Len(s) - 1) /\ (j - 1) + 1 = j
  BY <1>1
<1>4. ToSet(Tail(s)) \subseteq ToSet(s) \ {Head(s)}
  BY <1>1, <1>2 DEF ToSet, IsInjective
<1>5. ToSet(s) \ {Head(s)} \subseteq ToSet(Tail(s))
  <2>1. SUFFICES ASSUME NEW j \in 1..Len(s), j # 1 PROVE s[j] \in ToSet(Tail(s))
    BY <1>1 DEF ToSet
  <2>2. PICK i \in 1..(Len(s) - 1) : i + 1 = j
    BY <1>3, <2>1
  <2>3. Tail(s)[i] = s[j] /\ i \in DOMAIN Tail(s)
    BY <1>1, <2>2
  <2>4. QED
    BY <2>3 DEF ToSet
<1>6. IsInjective(Tail(s))
  <2>1. SUFFICES ASSUME NEW i \in DOMAIN Tail(s), NEW j \in DOMAIN Tail(s),
                        Tail(s)[i] = Tail(s)[j]
                 PROVE  i = j
    BY DEF IsInjective
  <2>2. i + 1 = j + 1
    BY <1>1, <1>2, <2>1 DEF IsInjective
  <2>3. QED
    BY <1>1, <2>2
<1>7. QED
  BY <1>1, <1>4, <1>5, <1>6 DEF ToSet

LEMMA InsertSet ==
  ASSUME NEW S, NEW s \in Seq(S), NEW e \in S, NEW i \in 1..(Len(s) + 1)
  PROVE  /\ ToSet(InsertAt(s, i, e)) = ToSet(s) \cup {e}
         /\ IsInjective(s) /\ e \notin ToSet(s) => IsInjective(InsertAt(s, i, e))
<1> DEFINE t == InsertAt(s, i, e)
           a == SubSeq(s, 1, i - 1)
           b == SubSeq(s, i, Len(s))
<1>1. /\ DOMAIN s = 1..Len(s) /\ Len(s) \in Nat
      /\ a \in Seq(S) /\ b \in Seq(S) /\ <<e>> \in Seq(S)
      /\ Len(a) = i - 1 /\ Len(b) = Len(s) - i + 1
      /\ \A j \in 1..(i - 1) : a[j] = s[j]
      /\ \A j \in 1..(Len(s) - i + 1) : b[j] = s[i + j - 1]
  <2>1. DOMAIN s = 1..Len(s) /\ Len(s) \in Nat /\ <<e>> \in Seq(S)
    OBVIOUS
  <2>2. \A j \in 1..Len(s) : s[j] \in S
    OBVIOUS
  <2>3. /\ a \in Seq(S) /\ Len(a) = i - 1
        /\ \A j \in 1..(i - 1) : a[j] = s[j]
    <3>1. \A j \in 1..(i - 1) : s[j] \in S
      BY <2>1, <2>2
    <3>2. QED
      BY <2>1, <3>1, SubSeqProperties
  <2>4. /\ b \in Seq(S) /\ Len(b) = Len(s) - i + 1
        /\ \A j \in 1..(Len(s) - i + 1) : b[j] = s[i + j - 1]
    <3>1. \A j \in i..Len(s) : s[j] \in S
      BY <2>1, <2>2
    <3>2. QED
      BY <2>1, <3>1, SubSeqProperties
  <2>5. QED
    BY <2>1, <2>3, <2>4
<1>2. t = (a \o <<e>>) \o b
  BY DEF InsertAt
<1> HIDE DEF a, b, t
<1>3. /\ t \in Seq(S) /\ Len(t) = Len(s) + 1
      /\ DOMAIN t = 1..(Len(s) + 1)
  <2>1. a \o <<e>> \in Seq(S) /\ Len(a \o <<e>>) = i
    BY <1>1
  <2>2. t \in Seq(S) /\ Len(t) = Len(a \o <<e>>) + Len(b)
    BY <1>1, <1>2, <2>1, ConcatProperties
  <2>3. i + (Len(s) - i + 1) = Len(s) + 1
    BY <1>1
  <2>4. Len(t) = Len(s) + 1
    BY <1>1, <2>1, <2>2, <2>3
  <2>5. DOMAIN t = 1..Len(t)
    BY <2>2
  <2>6. QED
    BY <2>2, <2>4, <2>5
<1>4. \A j \in 1..(i - 1) : t[j] = s[j]
  BY <1>1, <1>2
<1>5. t[i] = e
  BY <1>1, <1>2
<1>6. ASSUME NEW j \in (i + 1)..(Len(s) + 1) PROVE t[j] = s[j - 1]
  <2>1. /\ j - i \in 1..Len(b) /\ i + (j - i) - 1 = j - 1
        /\ Len(a \o <<e>>) = i /\ i + (j - i) = j
    BY <1>1
  <2>2. t[j] = b[j - i]
    BY <1>1, <1>2, <2>1
  <2>3. QED
    BY <1>1, <2>1, <2>2
<1>7. ToSet(t) \subseteq ToSet(s) \cup {e}
  <2>1. SUFFICES ASSUME NEW j \in DOMAIN t PROVE t[j] \in ToSet(s) \cup {e}
    BY DEF ToSet
  <2>2. CASE j \in 1..(i - 1)
    BY <1>1, <1>4, <2>2 DEF ToSet
  <2>3. CASE j = i
    BY <1>5, <2>3
  <2>4. CASE j \in (i + 1)..(Len(s) + 1)
    <3>1. j - 1 \in DOMAIN s
      BY <1>1, <2>4
    <3>2. QED
      BY <1>6, <2>4, <3>1 DEF ToSet
  <2>5. QED
    BY <1>1, <1>3, <2>1, <2>2, <2>3, <2>4
<1>8. ToSet(s) \subseteq ToSet(t)
  <2>1. SUFFICES ASSUME NEW j \in 1..Len(s) PROVE s[j] \in ToSet(t)
    BY <1>1 DEF ToSet
  <2>2. CASE j \in 1..(i - 1)
    <3>1. j \in DOMAIN t
      BY <1>1, <1>3
    <3>2. QED
      BY <1>4, <2>2, <3>1 DEF ToSet
  <2>3. CASE j \in i..Len(s)
    <3>1. j + 1 \in (i + 1)..(Len(s) + 1) /\ j + 1 \in DOMAIN t /\ (j + 1) - 1 = j
      BY <1>1, <1>3, <2>3
    <3>2. t[j + 1] = s[j]
      BY <1>6, <3>1
    <3>3. QED
      BY <3>1, <3>2 DEF ToSet
  <2>4. QED
    BY <1>1, <2>2, <2>3
<1>9. e \in ToSet(t)
  BY <1>1, <1>3, <1>5 DEF ToSet
<1>10. ASSUME IsInjective(s), e \notin ToSet(s)
       PROVE  IsInjective(t)
  <2>1. ASSUME NEW j \in DOMAIN t, NEW k \in DOMAIN t, t[j] = t[k], j < k
        PROVE  FALSE
    <3>1. \A l \in 1..Len(s) : s[l] # e
      BY <1>1, <1>10 DEF ToSet
    <3>2. CASE k < i
      BY <1>1, <1>3, <1>4, <1>10, <2>1, <3>2 DEF IsInjective
    <3>3. CASE k = i
      BY <1>1, <1>3, <1>4, <1>5, <2>1, <3>1, <3>3
    <3>4. CASE k > i
      <4>1. k \in (i + 1)..(Len(s) + 1) /\ k - 1 \in 1..Len(s)
        BY <1>1, <1>3, <3>4
      <4>2. t[k] = s[k - 1]
        BY <1>6, <4>1
      <4>3. CASE j < i
        <5>1. j \in 1..(i - 1) /\ j \in 1..Len(s)
          BY <1>1, <1>3, <4>3
        <5>2. s[j] = s[k - 1]
          BY <1>4, <2>1, <4>2, <5>1
        <5>3. j = k - 1
          BY <1>1, <1>10, <4>1, <5>1, <5>2 DEF IsInjective
        <5>4. QED
          BY <3>4, <4>3, <5>3, <1>1, <1>3
      <4>4. CASE j = i
        BY <1>5, <2>1, <3>1, <4>1, <4>2, <4>4
      <4>5. CASE j > i
        <5>1. j \in (i + 1)..(Len(s) + 1) /\ j - 1 \in 1..Len(s)
          BY <1>1, <1>3, <4>5
        <5>2. s[j - 1] = s[k - 1]
          BY <1>6, <2>1, <4>2, <5>1
        <5>3. j - 1 = k - 1
          BY <1>1, <1>10, <4>1, <5>1, <5>2 DEF IsInjective
        <5>4. QED
          BY <1>1, <1>3, <2>1, <5>3
      <4>6. QED
        BY <1>1, <1>3, <4>3, <4>4, <4>5
    <3>5. QED
      BY <1>1, <1>3, <3>2, <3>3, <3>4
  <2>2. SUFFICES ASSUME NEW j \in DOMAIN t, NEW k \in DOMAIN t, t[j] = t[k]
                 PROVE  j = k
    BY DEF IsInjective
  <2>3. ~(j < k) /\ ~(k < j)
    BY <2>1, <2>2
  <2>4. QED
    BY <1>3, <2>3
<1>11. QED
  BY <1>7, <1>8, <1>9, <1>10 DEF t

\* The open commands, those that Waiting must consist of.
OpenCommands == {c \in DOMAIN commands : commands[c].state \in Open}

\* A command that did not wait joins those that arrive.
LEMMA Arrives ==
  ASSUME NEW S, ready \in Seq(S), arriving \in Seq(S), QueueAgrees,
         NEW c \in S, c \notin Waiting, UNCHANGED <<ready, delayed>>,
         arriving' = Append(arriving, c), OpenCommands' = OpenCommands \cup {c}
  PROVE  QueueAgrees'
<1>1. /\ ToSet(arriving') = ToSet(arriving) \cup {c}
      /\ c \notin ToSet(arriving) => IsInjective(arriving')
  BY AppendSet DEF QueueAgrees
<1>2. c \notin ToSet(arriving) /\ c \notin ToSet(ready) /\ c \notin delayed
  BY DEF Waiting
<1>3. Waiting' = Waiting \cup {c}
  BY <1>1 DEF Waiting
<1>4. QED
  BY <1>1, <1>2, <1>3 DEF QueueAgrees, OpenCommands

LEMMA QueueEnqueue ==
  ASSUME BrokerInv, QueueAgrees, NEW op \in Operation, EnqueueCommand(op)
  PROVE  QueueAgrees'
<1> DEFINE n == Len(commands) + 1
<1>1. /\ commands \in Seq(Command) /\ Len(commands) \in Nat
      /\ DOMAIN commands = 1..Len(commands)
      /\ ready \in Seq(DOMAIN commands) /\ arriving \in Seq(DOMAIN commands)
  BY DEF BrokerInv, TypeOK
<1>2. /\ DOMAIN commands' = DOMAIN commands \cup {n} /\ n \notin DOMAIN commands
      /\ \A c \in DOMAIN commands : commands'[c] = commands[c]
      /\ commands'[n].state = "pending" /\ n \in Nat
  BY <1>1 DEF EnqueueCommand
<1>3. UNCHANGED <<ready, delayed>> /\ arriving' = Append(arriving, n)
  BY DEF EnqueueCommand
<1>4. ready \in Seq(Nat) /\ arriving \in Seq(Nat)
  BY <1>1
<1> HIDE DEF n
<1>5. OpenCommands' = OpenCommands \cup {n}
  BY <1>2 DEF OpenCommands, Open
<1>6. n \notin Waiting
  BY <1>2 DEF QueueAgrees
<1>7. QED
  BY <1>2, <1>3, <1>4, <1>5, <1>6, Arrives

LEMMA QueueRecover ==
  ASSUME BrokerInv, QueueAgrees, NEW c \in Recoverable, RecoverStale(c)
  PROVE  QueueAgrees'
<1>1. /\ c \in DOMAIN commands /\ commands[c].state = "processing"
      /\ commands \in Seq(Command)
      /\ ready \in Seq(DOMAIN commands) /\ arriving \in Seq(DOMAIN commands)
  BY DEF Recoverable, BrokerInv, TypeOK
<1>2. commands[c] \in Command
  BY <1>1
<1>3. /\ DOMAIN commands' = DOMAIN commands
      /\ commands'[c].state = "retrying"
      /\ \A d \in DOMAIN commands \ {c} : commands'[d] = commands[d]
  BY <1>1, <1>2 DEF RecoverStale, Command
<1>4. UNCHANGED <<ready, delayed>> /\ arriving' = Append(arriving, c)
  BY DEF RecoverStale
<1>5. OpenCommands' = OpenCommands \cup {c}
  BY <1>1, <1>3 DEF OpenCommands, Open
<1>6. c \notin Waiting
  BY <1>1 DEF QueueAgrees, Open
<1>7. QED
  BY <1>1, <1>4, <1>5, <1>6, Arrives

LEMMA QueueStart ==
  ASSUME BrokerInv, QueueAgrees, StartRun
  PROVE  QueueAgrees'
<1>1. /\ ready \in Seq(DOMAIN commands) /\ arriving \in Seq(DOMAIN commands)
      /\ ready' = ready \o arriving /\ arriving' = <<>>
      /\ UNCHANGED <<commands, delayed>>
  BY DEF BrokerInv, TypeOK, StartRun, registry
<1>2. ToSet(ready') = ToSet(ready) \cup ToSet(arriving) /\ IsInjective(ready')
  BY <1>1, ConcatSet DEF QueueAgrees
<1>3. ToSet(arriving') = {} /\ IsInjective(arriving')
  BY <1>1 DEF ToSet, IsInjective
<1>4. Waiting' = Waiting
  BY <1>1, <1>2, <1>3 DEF Waiting
<1>5. QED
  BY <1>1, <1>2, <1>3, <1>4 DEF QueueAgrees

\* The command that is claimed is open, and no other one changes.
LEMMA Claimed ==
  ASSUME BrokerInv, QueueAgrees, Claim
  PROVE  /\ Head(ready) \in DOMAIN commands
         /\ commands[Head(ready)].state \in Open
         /\ DOMAIN commands' = DOMAIN commands
         /\ commands'[Head(ready)].state \in {"processing", "failed"}
         /\ \A d \in DOMAIN commands \ {Head(ready)} : commands'[d] = commands[d]
<1> DEFINE c == Head(ready)
<1>1. /\ ready \in Seq(DOMAIN commands) /\ ready # <<>>
      /\ commands \in Seq(Command)
  BY DEF BrokerInv, TypeOK, Claim
<1>2. c \in ToSet(ready)
  BY <1>1, TailSet DEF QueueAgrees
<1>3. c \in DOMAIN commands /\ commands[c].state \in Open
  BY <1>2 DEF QueueAgrees, Waiting
<1>4. Attempt(commands[c]) \in Command
  BY <1>1, <1>3, AttemptType
<1>5. PICK st \in {"processing", "failed"} :
        commands' = [commands EXCEPT ![c] = [Attempt(commands[c]) EXCEPT !.state = st]]
  BY <1>3 DEF Claim
<1>6. [Attempt(commands[c]) EXCEPT !.state = st].state = st
  BY <1>4 DEF Command
<1> HIDE DEF c
<1>7. /\ DOMAIN commands' = DOMAIN commands
      /\ commands'[c].state \in {"processing", "failed"}
      /\ \A d \in DOMAIN commands \ {c} : commands'[d] = commands[d]
  BY <1>1, <1>3, <1>5, <1>6
<1>8. QED
  BY <1>3, <1>7 DEF c

LEMMA QueueClaim ==
  ASSUME BrokerInv, QueueAgrees, Claim
  PROVE  QueueAgrees'
<1> DEFINE c == Head(ready)
<1>1. /\ ready \in Seq(DOMAIN commands) /\ ready # <<>>
      /\ ready' = Tail(ready) /\ UNCHANGED <<arriving, delayed>>
  BY DEF BrokerInv, TypeOK, Claim
<1>2. /\ ToSet(ready') = ToSet(ready) \ {c} /\ c \in ToSet(ready)
      /\ IsInjective(ready')
  BY <1>1, TailSet DEF QueueAgrees
<1>3. /\ c \in DOMAIN commands
      /\ DOMAIN commands' = DOMAIN commands
      /\ commands'[c].state \in {"processing", "failed"}
      /\ \A d \in DOMAIN commands \ {c} : commands'[d] = commands[d]
  BY Claimed
<1> HIDE DEF c
<1>4. OpenCommands' = OpenCommands \ {c}
  BY <1>3 DEF OpenCommands, Open
<1>5. Waiting' = Waiting \ {c}
  BY <1>1, <1>2 DEF Waiting, QueueAgrees
<1>6. QED
  BY <1>1, <1>2, <1>4, <1>5 DEF QueueAgrees, OpenCommands

LEMMA QueueMark ==
  ASSUME BrokerInv, QueueAgrees, Mark
  PROVE  QueueAgrees'
<1>1. /\ job \in DOMAIN commands /\ commands[job].state = "processing"
      /\ commands \in Seq(Command) /\ arriving \in Seq(DOMAIN commands)
      /\ result \in {"applied", "retrying", "failed"}
  BY DEF Mark, BrokerInv, TypeOK, JobAgrees
<1>2. commands[job] \in Command
  BY <1>1
<1>3. /\ DOMAIN commands' = DOMAIN commands
      /\ commands'[job].state = result
      /\ \A d \in DOMAIN commands \ {job} : commands'[d] = commands[d]
  BY <1>1, <1>2 DEF Mark, Command
<1>4. job \notin Waiting /\ ready' = ready
  BY <1>1 DEF QueueAgrees, Open, Mark
<1>5. CASE result \in Closed /\ UNCHANGED <<arriving, delayed>>
  <2>1. OpenCommands' = OpenCommands
    BY <1>1, <1>3, <1>5 DEF OpenCommands, Open, Closed
  <2>2. Waiting' = Waiting
    BY <1>4, <1>5 DEF Waiting
  <2>3. QED
    BY <1>4, <1>5, <2>1, <2>2 DEF QueueAgrees, OpenCommands
<1>6. result = "retrying" => OpenCommands' = OpenCommands \cup {job}
  BY <1>1, <1>3 DEF OpenCommands, Open
<1>7. CASE result = "retrying" /\ delayed' = delayed \cup {job} /\ UNCHANGED arriving
  <2>1. Waiting' = Waiting \cup {job}
    BY <1>4, <1>7 DEF Waiting
  <2>2. QED
    BY <1>4, <1>6, <1>7, <2>1 DEF QueueAgrees, OpenCommands, Waiting
<1>8. ASSUME result = "retrying", UNCHANGED delayed, NEW i \in 1..(Len(arriving) + 1),
             arriving' = InsertAt(arriving, i, job)
      PROVE  QueueAgrees'
  <2>1. job \notin ToSet(arriving) /\ job \notin ToSet(ready) /\ job \notin delayed
    BY <1>4 DEF Waiting
  <2>2. ToSet(arriving') = ToSet(arriving) \cup {job} /\ IsInjective(arriving')
    BY <1>1, <1>8, <2>1, InsertSet DEF QueueAgrees
  <2>3. Waiting' = Waiting \cup {job}
    BY <1>4, <1>8, <2>2 DEF Waiting
  <2>4. QED
    BY <1>4, <1>6, <1>8, <2>1, <2>2, <2>3 DEF QueueAgrees, OpenCommands
<1>9. QED
  BY <1>5, <1>7, <1>8 DEF Mark

LEMMA QueueDue ==
  ASSUME BrokerInv, QueueAgrees, NEW c \in delayed, Due(c)
  PROVE  QueueAgrees'
<1>1. /\ c \in DOMAIN commands /\ arriving \in Seq(DOMAIN commands)
      /\ UNCHANGED <<commands, ready>> /\ delayed' = delayed \ {c}
      /\ arriving' = Append(arriving, c)
  BY DEF BrokerInv, TypeOK, Due, registry
<1>2. c \notin ToSet(arriving) /\ c \notin ToSet(ready)
  BY DEF QueueAgrees
<1>3. ToSet(arriving') = ToSet(arriving) \cup {c} /\ IsInjective(arriving')
  BY <1>1, <1>2, AppendSet DEF QueueAgrees
<1>4. Waiting' = Waiting
  BY <1>1, <1>3 DEF Waiting
<1>5. QED
  BY <1>1, <1>2, <1>3, <1>4 DEF QueueAgrees

LEMMA QueueNext ==
  BrokerInv /\ QueueAgrees /\ [Next]_vars => QueueAgrees'
<1> SUFFICES ASSUME BrokerInv, QueueAgrees, [Next]_vars PROVE QueueAgrees'
  OBVIOUS
<1>1. CASE Lifecycle
  <2>1. \/ \E op \in Operation : EnqueueCommand(op)
        \/ UNCHANGED <<commands, order>>
    BY <1>1 DEF Lifecycle, Provision, RotateCredential, Activate, Reactivate,
                Suspend, Revoke, Operation
  <2>2. QED
    BY <2>1, QueueEnqueue DEF order, QueueAgrees, Waiting
<1>2. ASSUME NEW c \in Recoverable, RecoverStale(c) PROVE QueueAgrees'
  BY <1>2, QueueRecover
<1>3. ASSUME NEW c \in delayed, Due(c) PROVE QueueAgrees'
  BY <1>3, QueueDue
<1>4. CASE EndRun \/ Apply \/ ApplyFails \/ Interrupt \/ UNCHANGED vars
  <2>1. UNCHANGED <<commands, ready, arriving, delayed>>
    BY <1>4 DEF EndRun, Apply, ApplyFails, Interrupt, vars, registry, order
  <2>2. QED
    BY <2>1 DEF QueueAgrees, Waiting
<1>5. QED
  BY <1>1, <1>2, <1>3, <1>4, QueueStart, QueueClaim, QueueMark DEF Next

\* Exactly the pending and retrying commands wait for the worker, each in one
\* place: neither a retry, an expired lease nor an interruption strands a
\* command or queues it twice.
THEOREM QueueHolds == Spec => []QueueAgrees
<1>1. Init => QueueAgrees
  <2>1. SUFFICES ASSUME Init PROVE QueueAgrees
    OBVIOUS
  <2>2. commands = <<>> /\ ready = <<>> /\ arriving = <<>> /\ delayed = {}
    BY <2>1 DEF Init
  <2>3. DOMAIN commands = {} /\ DOMAIN ready = {} /\ DOMAIN arriving = {}
    BY <2>2
  <2>4. ToSet(ready) = {} /\ ToSet(arriving) = {}
    BY <2>3 DEF ToSet
  <2>5. QED
    BY <2>2, <2>3, <2>4 DEF QueueAgrees, Waiting, IsInjective
<1>2. QED
  BY <1>1, QueueNext, BrokerInvariant, PTL DEF Spec

\* A command that is applied or failed is never claimed, marked or retried
\* again.
THEOREM ClosedStays == Spec => ClosedForGood
<1> DEFINE Kept == \A c \in DOMAIN commands :
                     commands[c].state \in Closed => commands'[c] = commands[c]
<1>1. BrokerInv /\ QueueAgrees /\ [Next]_vars => Kept
  <2>1. SUFFICES ASSUME BrokerInv, QueueAgrees, [Next]_vars, NEW c \in DOMAIN commands,
                        commands[c].state \in Closed
                 PROVE  commands'[c] = commands[c]
    OBVIOUS
  <2>2. commands \in Seq(Command)
    BY <2>1 DEF BrokerInv, TypeOK
  <2>3. CASE Lifecycle
    <3>1. \/ \E op \in Operation : EnqueueCommand(op)
          \/ UNCHANGED commands
      BY <2>3 DEF Lifecycle, Provision, RotateCredential, Activate, Reactivate,
                  Suspend, Revoke, Operation
    <3>2. CASE UNCHANGED commands
      BY <3>2
    <3>3. ASSUME NEW op \in Operation, EnqueueCommand(op)
          PROVE  commands'[c] = commands[c]
      <4>1. PICK new : commands' = Append(commands, new)
        BY <3>3 DEF EnqueueCommand
      <4>2. c \in 1..Len(commands)
        BY <2>1, <2>2
      <4>3. QED
        BY <2>2, <4>1, <4>2
    <3>4. QED
      BY <3>1, <3>2, <3>3
  <2>4. ASSUME NEW d \in Recoverable, RecoverStale(d) PROVE commands'[c] = commands[c]
    <3>1. commands[c].state # "processing" /\ commands[d].state = "processing"
      BY <2>1, <2>4 DEF Recoverable, Closed
    <3>2. d # c
      BY <3>1
    <3>3. commands' = [commands EXCEPT ![d].state = "retrying"]
      BY <2>4 DEF RecoverStale
    <3>4. QED
      BY <2>1, <2>2, <3>2, <3>3
  <2>5. CASE Claim
    <3>1. Head(ready) # c
      BY <2>1, <2>5, Claimed DEF Open, Closed
    <3>2. QED
      BY <2>1, <2>5, <3>1, Claimed
  <2>6. CASE Mark
    <3>1. job # c
      BY <2>1, <2>6 DEF Mark, BrokerInv, JobAgrees, Closed
    <3>2. QED
      BY <2>1, <2>2, <2>6, <3>1 DEF Mark
  <2>7. CASE \/ StartRun \/ EndRun \/ Apply \/ ApplyFails \/ Interrupt
             \/ (\E d \in delayed : Due(d)) \/ UNCHANGED vars
    BY <2>7 DEF StartRun, EndRun, Apply, ApplyFails, Interrupt, Due, vars, registry
  <2>8. QED
    BY <2>1, <2>3, <2>4, <2>5, <2>6, <2>7 DEF Next
<1>2. BrokerInv /\ QueueAgrees /\ [Next]_vars => [Kept]_vars
  BY <1>1
<1>3. QED
  BY <1>2, BrokerInvariant, QueueHolds, PTL DEF Spec, ClosedForGood
=============================================================================
