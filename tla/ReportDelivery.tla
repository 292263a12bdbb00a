--------------------------- MODULE ReportDelivery ---------------------------
(***************************************************************************)
(* The way of a daily refrigeration report to the Telegram group: the      *)
(* scheduler and the operators generate its snapshot                       *)
(* (telemetry-service/app/daily_reports), and the gateway, or an operator's *)
(* controlled send, posts it from a durable outbox (telegram-gateway/app). *)
(* Telegram takes no idempotency key, and its answer may be lost.          *)
(***************************************************************************)
EXTENDS Integers

CONSTANTS
  Reports,        \* report dates of a profile
  Generators,     \* callers of generate: the scheduler and API requests
  NoReport,
  MaxAttempts,    \* telegram_max_attempts
  MaxMishaps      \* bound: crashes, dead threads and changes of the configuration

ASSUME DeliveryAssumption ==
  /\ NoReport \notin Reports
  /\ MaxAttempts \in Nat \ {0} /\ MaxMishaps \in Nat

VARIABLES
  building,       \* the report each generator computes, holding the profile's row lock
  snapshots,      \* reports with a snapshot
  delivery,       \* outbox row: state, "absent" without a row
  attempts,       \* outbox row: attempts
  risk,           \* outbox rows with duplicate_risk
  stalled,        \* sending rows locked longer than telegram_stale_sending_seconds
  thread,         \* delivery thread: what it does next; "none", or "dead"
  sending,        \* the report it has claimed
  answer,         \* the answer it got
  cli,            \* controlled send: "off", "claimed" or "answered"
  cliSending, cliAnswer,
  enabled,        \* telegram_enabled
  posted,         \* messages of the report in the group
  unknown,        \* history: reports with an answer that left the outcome open
  mishaps

snapshotVars == <<building, snapshots>>
rowVars == <<delivery, attempts, risk, stalled>>
threadVars == <<thread, sending, answer>>
cliVars == <<cli, cliSending, cliAnswer>>
groupVars == <<posted, unknown>>
deliveryVars == <<snapshotVars, rowVars, threadVars, cliVars, groupVars, enabled, mishaps>>

Answers == {"ok", "rejected", "retryable"}

DeliveryInit ==
  /\ building = [g \in Generators |-> NoReport]
  /\ snapshots = {}
  /\ delivery = [r \in Reports |-> "absent"]
  /\ attempts = [r \in Reports |-> 0]
  /\ risk = {} /\ stalled = {}
  /\ thread = "none" /\ sending = NoReport /\ answer = "ok"
  /\ cli = "off" /\ cliSending = NoReport /\ cliAnswer = "ok"
  /\ enabled \in BOOLEAN
  /\ posted = [r \in Reports |-> 0]
  /\ unknown = {}
  /\ mishaps = 0

Mishap == mishaps < MaxMishaps /\ mishaps' = mishaps + 1

-----------------------------------------------------------------------------
(* Snapshots.                                                              *)

ProfileUnlocked == \A g \in Generators : building[g] = NoReport

(* generate locks the profile's row and looks for a snapshot of the date.  *)
BeginSnapshot(g, r) ==
  /\ building[g] = NoReport
  /\ ProfileUnlocked
  /\ r \notin snapshots
  /\ building' = [building EXCEPT ![g] = r]
  /\ UNCHANGED <<snapshots, rowVars, threadVars, cliVars, groupVars, enabled, mishaps>>

(* The profile and the date of a snapshot are unique.                      *)
CommitSnapshot(g) ==
  /\ building[g] # NoReport
  /\ snapshots' = snapshots \cup {building[g]}
  /\ building' = [building EXCEPT ![g] = NoReport]
  /\ UNCHANGED <<rowVars, threadVars, cliVars, groupVars, enabled, mishaps>>

RollBackSnapshot(g) ==
  /\ building[g] # NoReport
  /\ building' = [building EXCEPT ![g] = NoReport]
  /\ UNCHANGED <<snapshots, rowVars, threadVars, cliVars, groupVars, enabled, mishaps>>

-----------------------------------------------------------------------------
(* Outbox rows.                                                            *)

Claim(r) ==
  /\ delivery' = [delivery EXCEPT ![r] = "sending"]
  /\ attempts' = [attempts EXCEPT ![r] = @ + 1]
  /\ stalled' = stalled \ {r}
  /\ UNCHANGED risk

(* Mutant: the row is changed whatever its state is.                       *)
AlwaysOpen(r) == TRUE

(* _transition_from_sending refuses a row that is not being sent.          *)
StillSending(r) == delivery[r] = "sending"

Transition(r, state, atRisk) ==
  /\ delivery' = [delivery EXCEPT ![r] = state]
  /\ risk' = IF atRisk THEN risk \cup {r} ELSE risk
  /\ stalled' = stalled \ {r}
  /\ UNCHANGED attempts

Stall(r) ==
  /\ delivery[r] = "sending" /\ r \notin stalled
  /\ stalled' = stalled \cup {r}
  /\ UNCHANGED <<delivery, attempts, risk, snapshotVars, threadVars, cliVars,
                 groupVars, enabled, mishaps>>

(* What becomes of a request.  A message is in the group after "ok", is    *)
(* not after "rejected", and may be after anything else: a network error,  *)
(* 429, 5xx, an answer that cannot be read.                                *)
PostMessage(r, got) ==
  /\ got \in Answers
  /\ \/ got # "rejected" /\ posted' = [posted EXCEPT ![r] = @ + 1]
     \/ got # "ok" /\ UNCHANGED posted
  /\ unknown' = IF got = "retryable" THEN unknown \cup {r} ELSE unknown

-----------------------------------------------------------------------------
(* The delivery thread: run_once recovers, discovers and drains.           *)

StartThread ==
  /\ enabled /\ thread = "none"
  /\ thread' = "recovering"
  /\ UNCHANGED <<sending, answer, snapshotVars, rowVars, cliVars, groupVars, enabled, mishaps>>

(* Mutant: a row that has used up its attempts is left locked.             *)
StaleWithAttemptsLeft == {r \in stalled : attempts[r] < MaxAttempts}

(* recover_stale_sending takes every stale row, whatever its attempts.     *)
Stale == stalled

(* Mutant: a stale row is sent again without a mark.                       *)
UnmarkedRisk == risk

RiskAfterRecovery == risk \cup Stale

RecoverStale ==
  /\ thread = "recovering"
  /\ thread' = "discovering"
  /\ delivery' = [r \in Reports |-> IF r \in Stale THEN "retry_wait" ELSE delivery[r]]
  /\ risk' = RiskAfterRecovery
  /\ stalled' = stalled \ Stale
  /\ UNCHANGED <<attempts, sending, answer, snapshotVars, cliVars, groupVars, enabled, mishaps>>

Discover(r) ==
  /\ thread = "discovering"
  /\ r \in snapshots /\ delivery[r] = "absent"
  /\ delivery' = [delivery EXCEPT ![r] = "pending"]
  /\ UNCHANGED <<attempts, risk, stalled, threadVars, snapshotVars, cliVars,
                 groupVars, enabled, mishaps>>

(* Every snapshot that is recent enough is enqueued, or the backend failed *)
(* before.                                                                 *)
EndDiscovery ==
  /\ thread = "discovering"
  /\ thread' = "draining"
  /\ UNCHANGED <<sending, answer, snapshotVars, rowVars, cliVars, groupVars, enabled, mishaps>>

(* The delay of a retry is left open.                                      *)
Claimable == {r \in Reports : delivery[r] \in {"pending", "retry_wait"}}

ClaimNext ==
  /\ thread = "draining"
  /\ \E r \in Claimable : sending' = r /\ Claim(r)
  /\ thread' = "claimed"
  /\ UNCHANGED <<answer, snapshotVars, cliVars, groupVars, enabled, mishaps>>

EndRun ==
  /\ thread = "draining" /\ Claimable = {}
  /\ thread' = "recovering"
  /\ UNCHANGED <<sending, answer, snapshotVars, rowVars, cliVars, groupVars, enabled, mishaps>>

SendMessage ==
  /\ thread = "claimed"
  /\ PostMessage(sending, answer')
  /\ thread' = "answered"
  /\ UNCHANGED <<sending, snapshotVars, rowVars, cliVars, enabled, mishaps>>

RetryAgain == answer = "retryable" /\ attempts[sending] < MaxAttempts

(* The thread goes on with the next delivery, or the run has made its      *)
(* telegram_max_deliveries_per_run.  A row that is no longer its own ends  *)
(* the thread: DeliveryOutboxError is not caught.                          *)
MarkOutcome ==
  /\ thread = "answered"
  /\ sending' = NoReport /\ answer' = "ok"
  /\ IF StillSending(sending)
     THEN /\ thread' \in {"draining", "recovering"}
          /\ Transition(sending, IF answer = "ok" THEN "sent"
                                 ELSE IF RetryAgain THEN "retry_wait" ELSE "failed", FALSE)
     ELSE thread' = "dead" /\ UNCHANGED rowVars
  /\ UNCHANGED <<snapshotVars, cliVars, groupVars, enabled, mishaps>>

(* An error of the outbox database leaves run_once and ends the thread;    *)
(* only a restart of the gateway starts another.                           *)
ThreadDies ==
  /\ thread \notin {"none", "dead"} /\ Mishap
  /\ thread' = "dead"
  /\ sending' = NoReport /\ answer' = "ok"
  /\ UNCHANGED <<snapshotVars, rowVars, cliVars, groupVars, enabled>>

(* A crash or a restart, with the same configuration or another.           *)
RestartGateway ==
  /\ Mishap
  /\ thread' = "none"
  /\ sending' = NoReport /\ answer' = "ok"
  /\ enabled' \in BOOLEAN
  /\ UNCHANGED <<snapshotVars, rowVars, cliVars, groupVars>>

-----------------------------------------------------------------------------
(* The controlled send: an operator's process, refused while the           *)
(* configuration enables delivery.                                         *)

ControlledClaim(r) ==
  /\ cli = "off" /\ ~enabled
  /\ r \in snapshots
  /\ delivery[r] \in {"absent", "pending"} /\ r \notin risk
  /\ Claim(r)
  /\ cli' = "claimed" /\ cliSending' = r
  /\ UNCHANGED <<cliAnswer, snapshotVars, threadVars, groupVars, enabled, mishaps>>

ControlledSend ==
  /\ cli = "claimed"
  /\ PostMessage(cliSending, cliAnswer')
  /\ cli' = "answered"
  /\ UNCHANGED <<cliSending, snapshotVars, rowVars, threadVars, enabled, mishaps>>

ControlledMark ==
  /\ cli = "answered"
  /\ cli' = "off" /\ cliSending' = NoReport /\ cliAnswer' = "ok"
  /\ IF StillSending(cliSending)
     THEN Transition(cliSending, IF cliAnswer = "ok" THEN "sent" ELSE "failed",
                     cliAnswer = "retryable")
     ELSE UNCHANGED rowVars
  /\ UNCHANGED <<snapshotVars, threadVars, groupVars, enabled, mishaps>>

ControlledDies ==
  /\ cli # "off" /\ Mishap
  /\ cli' = "off" /\ cliSending' = NoReport /\ cliAnswer' = "ok"
  /\ UNCHANGED <<snapshotVars, rowVars, threadVars, groupVars, enabled>>

-----------------------------------------------------------------------------
DeliveryRun ==
  \/ RecoverStale \/ (\E r \in Reports : Discover(r)) \/ EndDiscovery
  \/ ClaimNext \/ EndRun \/ SendMessage \/ MarkOutcome

DeliveryNext ==
  \/ \E g \in Generators : \/ CommitSnapshot(g) \/ RollBackSnapshot(g)
                           \/ \E r \in Reports : BeginSnapshot(g, r)
  \/ \E r \in Reports : Stall(r) \/ ControlledClaim(r)
  \/ StartThread \/ DeliveryRun \/ ThreadDies \/ RestartGateway
  \/ ControlledSend \/ ControlledMark \/ ControlledDies

DeliverySpec == DeliveryInit /\ [][DeliveryNext]_deliveryVars

(* The thread goes on while it lives, and a row that stays locked becomes  *)
(* stale.                                                                  *)
DeliveryFairness ==
  /\ WF_deliveryVars(DeliveryRun)
  /\ WF_deliveryVars(\E r \in Reports : Stall(r))

-----------------------------------------------------------------------------
(* Properties.                                                             *)

DeliveryTypeOK ==
  /\ building \in [Generators -> Reports \cup {NoReport}]
  /\ snapshots \subseteq Reports
  /\ delivery \in [Reports -> {"absent", "pending", "sending", "retry_wait", "sent", "failed"}]
  /\ attempts \in [Reports -> Nat]
  /\ risk \subseteq Reports /\ stalled \subseteq Reports
  /\ thread \in {"none", "recovering", "discovering", "draining", "claimed", "answered", "dead"}
  /\ sending \in Reports \cup {NoReport} /\ answer \in Answers
  /\ cli \in {"off", "claimed", "answered"}
  /\ cliSending \in Reports \cup {NoReport} /\ cliAnswer \in Answers
  /\ enabled \in BOOLEAN
  /\ posted \in [Reports -> Nat] /\ unknown \subseteq Reports
  /\ mishaps \in 0..MaxMishaps

(* A second copy in the group is never a mistake of the outbox: the row    *)
(* carries duplicate_risk, or an answer had left open whether the first    *)
(* was posted.  A row that is sent was posted; one that failed with neither *)
(* mark was not, so it may be sent again by hand.                          *)
CopiesExplained ==
  \A r \in Reports :
    /\ posted[r] > 1 => r \in risk \cup unknown
    /\ delivery[r] = "sent" => posted[r] > 0
    /\ delivery[r] = "failed" /\ r \notin risk \cup unknown => posted[r] = 0
    /\ delivery[r] \in {"absent", "pending"} => posted[r] = 0

DeliveryInv == DeliveryTypeOK /\ CopiesExplained

(* A delivery that was decided stays as it is: a sender whose row was      *)
(* recovered and taken over meanwhile cannot overwrite the outcome.        *)
OutcomeIsFinal ==
  [][\A r \in Reports :
       delivery[r] \in {"sent", "failed"} => delivery'[r] = delivery[r]]_deliveryVars

(* While the thread lives every row is decided, after restarts, lost       *)
(* answers and controlled sends that left it locked.                       *)
DeliverySettles ==
  \A r \in Reports :
    <>[](thread \notin {"none", "dead"})
      => (delivery[r] \in {"pending", "sending", "retry_wait"}
            ~> delivery[r] \in {"sent", "failed"})

=============================================================================
