----------------------- MODULE PlatformServicesProofs -----------------------
(***************************************************************************)
(* Theorems about the services that share no state with the ingestion path: *)
(* the report delivery (DeliverySpec), the live telemetry (LiveSpec) and the *)
(* energy exports (ExportSpec).                                            *)
(***************************************************************************)
EXTENDS ReportDelivery, LiveTelemetry, ExportJobs, FiniteSetTheorems, SequenceTheorems,
        WellFoundedInduction, TLAPS

-----------------------------------------------------------------------------
(***************************************************************************)
(* Report delivery: theorems for any reports, callers, attempts and        *)
(* mishaps.                                                                *)
(*                                                                         *)
(* CopiesExplained is not inductive: nothing in it says why a message that *)
(* is sent a first time was not sent before.  A row is clean while it has  *)
(* neither mark.  RowAgrees adds that a clean row has at most one sender,   *)
(* which finds the row "sending" and the group without a copy, because     *)
(* every way back to a state in which a row can be claimed marks it.       *)
(***************************************************************************)
Clean(r) == r \notin risk \cup unknown

ByThread(r) == thread \in {"claimed", "answered"} /\ sending = r
ByCli(r) == cli \in {"claimed", "answered"} /\ cliSending = r

(* What the outcome of a request told its sender.                          *)
AnswersTrue(r) ==
  /\ ByThread(r) /\ thread = "answered" =>
       /\ answer = "ok" => posted[r] > 0
       /\ answer = "retryable" => r \in unknown
  /\ ByCli(r) /\ cli = "answered" =>
       /\ cliAnswer = "ok" => posted[r] > 0
       /\ cliAnswer = "retryable" => r \in unknown

(* The row and the group.                                                  *)
RowTold(r) ==
  /\ delivery[r] \in {"absent", "pending"} =>
       Clean(r) /\ posted[r] = 0 /\ ~ByThread(r) /\ ~ByCli(r)
  /\ delivery[r] = "retry_wait" => ~Clean(r)
  /\ delivery[r] = "sent" => posted[r] > 0
  /\ delivery[r] = "failed" /\ Clean(r) => posted[r] = 0
  /\ Clean(r) => posted[r] <= 1
  /\ r \in stalled => delivery[r] = "sending"

(* The only sender of a clean row.                                         *)
OneSender(r) ==
  Clean(r) =>
    /\ ByThread(r) => /\ delivery[r] = "sending" /\ ~ByCli(r)
                      /\ thread = "claimed" \/ answer = "rejected" => posted[r] = 0
    /\ ByCli(r) => /\ delivery[r] = "sending"
                   /\ cli = "claimed" \/ cliAnswer = "rejected" => posted[r] = 0

RowAgrees(r) == AnswersTrue(r) /\ RowTold(r) /\ OneSender(r)

SendersNamed ==
  /\ thread \in {"claimed", "answered"} => sending \in Reports
  /\ cli # "off" => cliSending \in Reports

DeliveryIInv == DeliveryTypeOK /\ SendersNamed /\ \A r \in Reports : RowAgrees(r)

(* At the start no row exists and nobody sends, so every row agrees.       *)
THEOREM DeliveryInitial == DeliveryInit => DeliveryIInv
<1> SUFFICES ASSUME DeliveryInit PROVE DeliveryIInv
  OBVIOUS
<1>1. DeliveryTypeOK
  BY DeliveryAssumption DEF DeliveryInit, DeliveryTypeOK, Answers
<1>2. SendersNamed
  BY DEF DeliveryInit, SendersNamed
<1>3. ASSUME NEW r \in Reports PROVE RowAgrees(r)
  BY DEF DeliveryInit, RowAgrees, AnswersTrue, RowTold, OneSender, Clean, ByThread, ByCli
<1>4. QED
  BY <1>1, <1>2, <1>3 DEF DeliveryIInv

-----------------------------------------------------------------------------
(* Types.                                                                  *)

LEMMA DeliveryStepTypes ==
  ASSUME DeliveryTypeOK, SendersNamed, DeliveryNext
  PROVE  DeliveryTypeOK' /\ SendersNamed'
<1> USE DEF DeliveryTypeOK, SendersNamed, snapshotVars, rowVars, threadVars, cliVars, groupVars
<1>1. ASSUME NEW g \in Generators, CommitSnapshot(g) PROVE DeliveryTypeOK' /\ SendersNamed'
  BY <1>1, DeliveryAssumption DEF CommitSnapshot
<1>2. ASSUME NEW g \in Generators, RollBackSnapshot(g) PROVE DeliveryTypeOK' /\ SendersNamed'
  BY <1>2, DeliveryAssumption DEF RollBackSnapshot
<1>3. ASSUME NEW g \in Generators, NEW r \in Reports, BeginSnapshot(g, r) PROVE DeliveryTypeOK' /\ SendersNamed'
  BY <1>3, DeliveryAssumption DEF BeginSnapshot
<1>4. ASSUME NEW r \in Reports, Stall(r) PROVE DeliveryTypeOK' /\ SendersNamed'
  BY <1>4, DeliveryAssumption DEF Stall
<1>5. ASSUME NEW r \in Reports, ControlledClaim(r) PROVE DeliveryTypeOK' /\ SendersNamed'
  BY <1>5, DeliveryAssumption DEF ControlledClaim, Claim
<1>6. ASSUME StartThread PROVE DeliveryTypeOK' /\ SendersNamed'
  BY <1>6, DeliveryAssumption DEF StartThread
<1>7. ASSUME RecoverStale PROVE DeliveryTypeOK' /\ SendersNamed'
  BY <1>7, DeliveryAssumption DEF RecoverStale, Stale, RiskAfterRecovery
<1>8. ASSUME NEW r \in Reports, Discover(r) PROVE DeliveryTypeOK' /\ SendersNamed'
  BY <1>8, DeliveryAssumption DEF Discover
<1>9. ASSUME EndDiscovery PROVE DeliveryTypeOK' /\ SendersNamed'
  BY <1>9, DeliveryAssumption DEF EndDiscovery
<1>10. ASSUME ClaimNext PROVE DeliveryTypeOK' /\ SendersNamed'
  BY <1>10, DeliveryAssumption DEF ClaimNext, Claim, Claimable
<1>11. ASSUME EndRun PROVE DeliveryTypeOK' /\ SendersNamed'
  BY <1>11, DeliveryAssumption DEF EndRun
<1>12. ASSUME SendMessage PROVE DeliveryTypeOK' /\ SendersNamed'
  BY <1>12, DeliveryAssumption DEF SendMessage, PostMessage, Answers
<1>13. ASSUME MarkOutcome PROVE DeliveryTypeOK' /\ SendersNamed'
  BY <1>13, DeliveryAssumption DEF MarkOutcome, Transition, Answers
<1>14. ASSUME ThreadDies PROVE DeliveryTypeOK' /\ SendersNamed'
  BY <1>14, DeliveryAssumption DEF ThreadDies, Mishap, Answers
<1>15. ASSUME RestartGateway PROVE DeliveryTypeOK' /\ SendersNamed'
  BY <1>15, DeliveryAssumption DEF RestartGateway, Mishap, Answers
<1>16. ASSUME ControlledSend PROVE DeliveryTypeOK' /\ SendersNamed'
  BY <1>16, DeliveryAssumption DEF ControlledSend, PostMessage, Answers
<1>17. ASSUME ControlledMark PROVE DeliveryTypeOK' /\ SendersNamed'
  BY <1>17, DeliveryAssumption DEF ControlledMark, Transition, Answers
<1>18. ASSUME ControlledDies PROVE DeliveryTypeOK' /\ SendersNamed'
  BY <1>18, DeliveryAssumption DEF ControlledDies, Mishap, Answers
<1>19. QED
  BY <1>1, <1>2, <1>3, <1>4, <1>5, <1>6, <1>7, <1>8, <1>9, <1>10, <1>11, <1>12, <1>13, <1>14, <1>15, <1>16, <1>17, <1>18 DEF DeliveryNext, DeliveryRun

-----------------------------------------------------------------------------
(* A row goes on agreeing with the group.                                  *)

(* The steps that leave the rows, the senders and the group alone.         *)
LEMMA QuietStepAgrees ==
  ASSUME NEW r \in Reports, RowAgrees(r), UNCHANGED <<rowVars, threadVars, cliVars, groupVars>>
  PROVE  RowAgrees(r)'
BY DEF RowAgrees, AnswersTrue, RowTold, OneSender, Clean, ByThread, ByCli,
       rowVars, threadVars, cliVars, groupVars

(* The steps after which a thread that held no delivery holds none.        *)
LEMMA IdleThreadAgrees ==
  ASSUME NEW r \in Reports, RowAgrees(r), UNCHANGED <<rowVars, cliVars, groupVars>>,
         thread' \notin {"claimed", "answered"}
  PROVE  RowAgrees(r)'
BY DEF RowAgrees, AnswersTrue, RowTold, OneSender, Clean, ByThread, ByCli,
       rowVars, cliVars, groupVars

LEMMA ControlledDiesAgrees ==
  ASSUME NEW r \in Reports, RowAgrees(r), ControlledDies
  PROVE  RowAgrees(r)'
BY DEF ControlledDies, RowAgrees, AnswersTrue, RowTold, OneSender, Clean, ByThread, ByCli,
       snapshotVars, rowVars, threadVars, groupVars

LEMMA StallAgrees ==
  ASSUME DeliveryTypeOK, NEW r \in Reports, RowAgrees(r), NEW q \in Reports, Stall(q)
  PROVE  RowAgrees(r)'
BY DEF Stall, RowAgrees, AnswersTrue, RowTold, OneSender, Clean, ByThread, ByCli,
       threadVars, cliVars, groupVars

LEMMA RecoverStaleAgrees ==
  ASSUME DeliveryTypeOK, NEW r \in Reports, RowAgrees(r), RecoverStale
  PROVE  RowAgrees(r)'
BY DEF RecoverStale, Stale, RiskAfterRecovery, DeliveryTypeOK, RowAgrees, AnswersTrue, RowTold,
       OneSender, Clean, ByThread, ByCli, cliVars, groupVars

LEMMA DiscoverAgrees ==
  ASSUME DeliveryTypeOK, NEW r \in Reports, RowAgrees(r), NEW q \in Reports, Discover(q)
  PROVE  RowAgrees(r)'
BY DEF Discover, DeliveryTypeOK, RowAgrees, AnswersTrue, RowTold, OneSender, Clean,
       ByThread, ByCli, threadVars, cliVars, groupVars

LEMMA ClaimNextAgrees ==
  ASSUME DeliveryTypeOK, NEW r \in Reports, RowAgrees(r), ClaimNext
  PROVE  RowAgrees(r)'
BY DEF ClaimNext, Claimable, Claim, DeliveryTypeOK, RowAgrees, AnswersTrue, RowTold,
       OneSender, Clean, ByThread, ByCli, cliVars, groupVars

LEMMA ControlledClaimAgrees ==
  ASSUME DeliveryTypeOK, NEW r \in Reports, RowAgrees(r), NEW q \in Reports, ControlledClaim(q)
  PROVE  RowAgrees(r)'
BY DEF ControlledClaim, Claim, DeliveryTypeOK, RowAgrees, AnswersTrue, RowTold,
       OneSender, Clean, ByThread, ByCli, threadVars, groupVars

LEMMA SendMessageAgrees ==
  ASSUME DeliveryTypeOK, SendersNamed, NEW r \in Reports, RowAgrees(r), SendMessage
  PROVE  RowAgrees(r)'
BY DEF SendMessage, PostMessage, Answers, DeliveryTypeOK, SendersNamed, RowAgrees, AnswersTrue,
       RowTold, OneSender, Clean, ByThread, ByCli, rowVars, cliVars

LEMMA ControlledSendAgrees ==
  ASSUME DeliveryTypeOK, SendersNamed, NEW r \in Reports, RowAgrees(r), ControlledSend
  PROVE  RowAgrees(r)'
BY DEF ControlledSend, PostMessage, Answers, DeliveryTypeOK, SendersNamed, RowAgrees, AnswersTrue,
       RowTold, OneSender, Clean, ByThread, ByCli, rowVars, threadVars

LEMMA MarkOutcomeAgrees ==
  ASSUME DeliveryTypeOK, SendersNamed, NEW r \in Reports, RowAgrees(r), MarkOutcome
  PROVE  RowAgrees(r)'
BY DEF MarkOutcome, StillSending, RetryAgain, Transition, Answers, DeliveryTypeOK, SendersNamed,
       RowAgrees, AnswersTrue, RowTold, OneSender, Clean, ByThread, ByCli, rowVars, cliVars, groupVars

LEMMA ControlledMarkAgrees ==
  ASSUME DeliveryTypeOK, SendersNamed, NEW r \in Reports, RowAgrees(r), ControlledMark
  PROVE  RowAgrees(r)'
BY DEF ControlledMark, StillSending, Transition, Answers, DeliveryTypeOK, SendersNamed,
       RowAgrees, AnswersTrue, RowTold, OneSender, Clean, ByThread, ByCli, rowVars, threadVars, groupVars

LEMMA DeliveryStepAgrees ==
  ASSUME DeliveryTypeOK, SendersNamed, NEW r \in Reports, RowAgrees(r), DeliveryNext
  PROVE  RowAgrees(r)'
<1>1. ASSUME NEW g \in Generators,
             CommitSnapshot(g) \/ RollBackSnapshot(g) \/ \E q \in Reports : BeginSnapshot(g, q)
      PROVE  RowAgrees(r)'
  BY <1>1, QuietStepAgrees DEF CommitSnapshot, RollBackSnapshot, BeginSnapshot
<1>2. ASSUME NEW q \in Reports, Stall(q) \/ ControlledClaim(q) PROVE RowAgrees(r)'
  BY <1>2, StallAgrees, ControlledClaimAgrees
<1>3. CASE StartThread \/ EndDiscovery \/ EndRun \/ ThreadDies \/ RestartGateway
  BY <1>3, IdleThreadAgrees DEF StartThread, EndDiscovery, EndRun, ThreadDies, RestartGateway
<1>4. CASE DeliveryRun
  <2>1. CASE RecoverStale
    BY <2>1, RecoverStaleAgrees
  <2>2. ASSUME NEW q \in Reports, Discover(q) PROVE RowAgrees(r)'
    BY <2>2, DiscoverAgrees
  <2>3. CASE ClaimNext
    BY <2>3, ClaimNextAgrees
  <2>4. CASE SendMessage
    BY <2>4, SendMessageAgrees
  <2>5. CASE MarkOutcome
    BY <2>5, MarkOutcomeAgrees
  <2>6. QED
    BY <1>3, <1>4, <2>1, <2>2, <2>3, <2>4, <2>5 DEF DeliveryRun
<1>5. CASE ControlledSend \/ ControlledMark \/ ControlledDies
  BY <1>5, ControlledSendAgrees, ControlledMarkAgrees, ControlledDiesAgrees
<1>6. QED
  BY <1>1, <1>2, <1>3, <1>4, <1>5 DEF DeliveryNext

-----------------------------------------------------------------------------
(* In every reachable state the outbox rows, their senders and the group   *)
(* agree about every report: the strengthening that makes the copies of a  *)
(* message explainable.                                                    *)
THEOREM DeliveryInductive == DeliverySpec => []DeliveryIInv
<1>1. DeliveryInit => DeliveryIInv
  BY DeliveryInitial
<1>2. DeliveryIInv /\ [DeliveryNext]_deliveryVars => DeliveryIInv'
  <2> SUFFICES ASSUME DeliveryIInv, [DeliveryNext]_deliveryVars PROVE DeliveryIInv'
    OBVIOUS
  <2>1. CASE DeliveryNext
    <3>1. DeliveryTypeOK' /\ SendersNamed'
      BY <2>1, DeliveryStepTypes DEF DeliveryIInv
    <3>2. ASSUME NEW r \in Reports PROVE RowAgrees(r)'
      BY <2>1, <3>2, DeliveryStepAgrees DEF DeliveryIInv
    <3>3. QED
      BY <3>1, <3>2 DEF DeliveryIInv
  <2>2. CASE UNCHANGED deliveryVars
    <3>1. DeliveryTypeOK' /\ SendersNamed'
      BY <2>2 DEF DeliveryIInv, DeliveryTypeOK, SendersNamed, deliveryVars,
                  snapshotVars, rowVars, threadVars, cliVars, groupVars
    <3>2. ASSUME NEW r \in Reports PROVE RowAgrees(r)'
      BY <2>2, <3>2, QuietStepAgrees DEF DeliveryIInv, deliveryVars
    <3>3. QED
      BY <3>1, <3>2 DEF DeliveryIInv
  <2>3. QED
    BY <2>1, <2>2
<1>3. QED
  BY <1>1, <1>2, PTL DEF DeliverySpec

(* A copy in the group that nobody can explain never appears: between the  *)
(* lost answers, stale locks, restarts and controlled sends of any number  *)
(* of reports, a second copy has a mark and an outcome tells the truth.    *)
THEOREM DeliveryInvariant == DeliverySpec => []DeliveryInv
<1>1. DeliveryIInv => DeliveryInv
  BY DEF DeliveryIInv, DeliveryInv, CopiesExplained, RowAgrees, RowTold, Clean, DeliveryTypeOK
<1>2. QED
  BY <1>1, DeliveryInductive, PTL

(* No step of any actor changes a delivery that was decided.               *)
THEOREM DecidedIsFinal == DeliverySpec => OutcomeIsFinal
<1>1. DeliveryIInv /\ [DeliveryNext]_deliveryVars
        => [\A r \in Reports :
              delivery[r] \in {"sent", "failed"} => delivery'[r] = delivery[r]]_deliveryVars
  <2> SUFFICES ASSUME DeliveryIInv, DeliveryNext, NEW r \in Reports,
                      delivery[r] \in {"sent", "failed"}
               PROVE  delivery'[r] = delivery[r]
    OBVIOUS
  <2> USE DEF snapshotVars, rowVars, threadVars, cliVars, groupVars
  <2>1. delivery \in [Reports -> {"absent", "pending", "sending", "retry_wait", "sent", "failed"}]
    BY DEF DeliveryIInv, DeliveryTypeOK
  <2>2. r \notin stalled
    BY DEF DeliveryIInv, RowAgrees, RowTold
  <2>3. ASSUME NEW g \in Generators,
               CommitSnapshot(g) \/ RollBackSnapshot(g) \/ \E q \in Reports : BeginSnapshot(g, q)
        PROVE  delivery'[r] = delivery[r]
    BY <2>3 DEF CommitSnapshot, RollBackSnapshot, BeginSnapshot
  <2>4. ASSUME NEW q \in Reports, Stall(q) \/ ControlledClaim(q) \/ Discover(q)
        PROVE  delivery'[r] = delivery[r]
    BY <2>1, <2>4 DEF Stall, ControlledClaim, Claim, Discover
  <2>5. CASE StartThread \/ EndDiscovery \/ EndRun \/ SendMessage \/ ThreadDies
             \/ RestartGateway \/ ControlledSend \/ ControlledDies
    BY <2>5 DEF StartThread, EndDiscovery, EndRun, SendMessage, ThreadDies,
                RestartGateway, ControlledSend, ControlledDies
  <2>6. CASE RecoverStale
    BY <2>1, <2>2, <2>6 DEF RecoverStale, Stale
  <2>7. CASE ClaimNext
    BY <2>1, <2>7 DEF ClaimNext, Claimable, Claim
  <2>8. CASE MarkOutcome \/ ControlledMark
    BY <2>1, <2>8 DEF MarkOutcome, ControlledMark, StillSending, Transition
  <2>9. QED
    BY <2>3, <2>4, <2>5, <2>6, <2>7, <2>8 DEF DeliveryNext, DeliveryRun
<1>2. QED
  BY <1>1, DeliveryInductive, PTL DEF DeliverySpec, OutcomeIsFinal

-----------------------------------------------------------------------------
(***************************************************************************)
(* Live telemetry: theorems for any events, series, queue and limits.      *)
(*                                                                         *)
(* LatestIsNewest says nothing of a service that is down or has no         *)
(* projection yet.  The strengthening does: a row that no latest row       *)
(* precedes lies above every latest row (Projected), so that the rows the  *)
(* reconciliation reads are all it has to.  That the newest of them exists *)
(* is the existence of a largest number, which rests on the order of the   *)
(* natural numbers being well-founded.                                     *)
(***************************************************************************)
(* Row i is not newer than row j.                                          *)
NotNewer(i, j) == Captured(i) < Captured(j) \/ (Captured(i) = Captured(j) /\ i <= j)

Covered(i) == latest[SeriesOfRow(i)] > 0 /\ NotNewer(i, latest[SeriesOfRow(i)])

LatestNamed == \A s \in Series : latest[s] > 0 => SeriesOfRow(latest[s]) = s

Projected ==
  /\ \A i \in history : Covered(i) \/ i \in Unprojected
  /\ serving /\ release = "current" => \A i \in history : Covered(i)

FeedComplete == replayed \subseteq seen /\ ResumeHasNoGap

LiveIInv == LiveTypeOK /\ LatestNamed /\ Projected /\ FeedComplete

-----------------------------------------------------------------------------
(* Numbers.                                                                *)

LessThan == {pair \in Nat \X Nat : pair[1] < pair[2]}

LEMMA LessThanWellFounded == IsWellFoundedOn(LessThan, Nat)
<1>1. LessThan = OpToRel(<, Nat)
  BY DEF OpToRel, LessThan
<1>2. QED
  BY <1>1, NatLessThanWellFounded

LEMMA LessThanPairs == \A x, y \in Nat : <<y, x>> \notin LessThan => x <= y
  BY DEF LessThan

LEMMA Largest ==
  ASSUME NEW n \in Nat, NEW T, T \subseteq 0..n, T # {}
  PROVE  \E x \in T : \A y \in T : y <= x
<1>1. {n - x : x \in T} \subseteq Nat /\ {n - x : x \in T} # {}
  <2>1. ASSUME NEW x \in T PROVE n - x \in Nat
    <3>1. x \in 0..n
      OBVIOUS
    <3>2. QED
      BY <3>1
  <2>2. PICK x \in T : TRUE
    OBVIOUS
  <2>3. n - x \in {n - y : y \in T}
    OBVIOUS
  <2>4. QED
    BY <2>1, <2>3
<1>2. PICK m \in {n - x : x \in T} : \A k \in {n - x : x \in T} : <<k, m>> \notin LessThan
  BY <1>1, LessThanWellFounded, WFMin
<1>3. PICK x \in T : m = n - x
  BY <1>2
<1>4. ASSUME NEW y \in T PROVE y <= x
  <2>1. m <= n - y
    BY <1>1, <1>2, LessThanPairs
  <2>2. QED
    BY <1>3, <2>1
<1>5. QED
  BY <1>4

-----------------------------------------------------------------------------
(* Sequences.                                                              *)

LEMMA ElementsOfEmpty == Elements(<<>>) = {}
  BY DEF Elements

LEMMA ElementsOfAppend ==
  ASSUME NEW S, NEW s \in Seq(S), NEW x \in S
  PROVE  Append(s, x) \in Seq(S) /\ Elements(Append(s, x)) = Elements(s) \cup {x}
<1>1. /\ Append(s, x) \in Seq(S) /\ Len(Append(s, x)) = Len(s) + 1 /\ Len(s) \in Nat
      /\ \A i \in 1..Len(s) : Append(s, x)[i] = s[i]
      /\ Append(s, x)[Len(s) + 1] = x
  OBVIOUS
<1>2. Elements(Append(s, x)) \subseteq Elements(s) \cup {x}
  <2> SUFFICES ASSUME NEW i \in 1..(Len(s) + 1) PROVE Append(s, x)[i] \in Elements(s) \cup {x}
    BY <1>1 DEF Elements
  <2>1. CASE i = Len(s) + 1
    BY <1>1, <2>1
  <2>2. CASE i # Len(s) + 1
    <3>1. i \in 1..Len(s)
      BY <1>1, <2>2
    <3>2. QED
      BY <1>1, <3>1 DEF Elements
  <2>3. QED
    BY <2>1, <2>2
<1>3. Elements(s) \subseteq Elements(Append(s, x))
  <2> SUFFICES ASSUME NEW i \in 1..Len(s) PROVE s[i] \in Elements(Append(s, x))
    BY DEF Elements
  <2>1. i \in 1..Len(Append(s, x)) /\ Append(s, x)[i] = s[i]
    BY <1>1
  <2>2. QED
    BY <2>1 DEF Elements
<1>4. x \in Elements(Append(s, x))
  <2>1. Len(s) + 1 \in 1..Len(Append(s, x))
    BY <1>1
  <2>2. QED
    BY <1>1, <2>1 DEF Elements
<1>5. QED
  BY <1>1, <1>2, <1>3, <1>4

LEMMA ElementsOfTail ==
  ASSUME NEW S, NEW s \in Seq(S), s # <<>>
  PROVE  /\ Head(s) \in S /\ Tail(s) \in Seq(S)
         /\ Elements(s) \subseteq {Head(s)} \cup Elements(Tail(s))
<1>1. /\ Head(s) \in S /\ Tail(s) \in Seq(S) /\ Head(s) = s[1]
      /\ Len(s) \in Nat \ {0} /\ Len(Tail(s)) = Len(s) - 1
      /\ \A i \in 1..(Len(s) - 1) : Tail(s)[i] = s[i + 1]
  OBVIOUS
<1>2. ASSUME NEW i \in 1..Len(s) PROVE s[i] \in {Head(s)} \cup Elements(Tail(s))
  <2>1. CASE i = 1
    BY <1>1, <2>1
  <2>2. CASE i # 1
    <3>1. i - 1 \in 1..Len(Tail(s)) /\ i - 1 \in 1..(Len(s) - 1) /\ (i - 1) + 1 = i
      BY <1>1, <2>2
    <3>2. Tail(s)[i - 1] = s[i]
      BY <1>1, <3>1
    <3>3. s[i] \in Elements(Tail(s))
      BY <3>1, <3>2 DEF Elements
    <3>4. QED
      BY <3>3
  <2>3. QED
    BY <2>1, <2>2
<1>3. QED
  BY <1>1, <1>2 DEF Elements

LEMMA WiderSeq ==
  ASSUME NEW S, NEW T, S \subseteq T, NEW s \in Seq(S)
  PROVE  s \in Seq(T)
OBVIOUS

-----------------------------------------------------------------------------
(* Rows.                                                                   *)

LEMMA RowTypes ==
  ASSUME LiveTypeOK, NEW i \in Ids
  PROVE  Captured(i) \in 1..MaxCaptured /\ SeriesOfRow(i) \in Series /\ i \in Nat \ {0}
<1>1. rows[i] \in Events /\ Len(rows) \in Nat
  BY DEF LiveTypeOK, Ids
<1>2. i \in Nat \ {0}
  BY <1>1 DEF Ids
<1>3. QED
  BY <1>1, <1>2, LiveAssumption DEF Captured, SeriesOfRow

LEMMA HistoryTypes ==
  ASSUME LiveTypeOK, NEW i \in history
  PROVE  /\ i \in Ids /\ i \in Nat \ {0} /\ i <= Len(rows) /\ Len(rows) \in Nat
         /\ Captured(i) \in Int /\ SeriesOfRow(i) \in Series
         /\ latest[SeriesOfRow(i)] \in 0..Len(rows)
<1>1. i \in Ids /\ Len(rows) \in Nat
  BY DEF LiveTypeOK
<1>2. Captured(i) \in 1..MaxCaptured /\ SeriesOfRow(i) \in Series /\ i \in Nat \ {0}
  BY <1>1, RowTypes
<1>3. latest[SeriesOfRow(i)] \in 0..Len(rows)
  BY <1>2 DEF LiveTypeOK
<1>4. QED
  BY <1>1, <1>2, <1>3, LiveAssumption DEF Ids

(* The start, before the upgrade.                                          *)
LEMMA FirstRow ==
  ASSUME LiveInit
  PROVE  /\ rows \in Seq(Events) /\ Len(rows) \in {0, 1}
         /\ \A i \in Ids : i = 1 /\ Len(rows) = 1
<1>1. PICK e \in Events : rows \in {<<>>, <<e>>}
  BY DEF LiveInit
<1>2. CASE rows = <<>>
  <2>1. Len(rows) = 0 /\ rows \in Seq(Events)
    BY <1>2
  <2>2. Ids = {}
    BY <2>1 DEF Ids
  <2>3. QED
    BY <2>1, <2>2
<1>3. CASE rows = <<e>>
  <2>1. Len(rows) = 1 /\ rows \in Seq(Events)
    BY <1>3
  <2>2. \A i \in Ids : i = 1
    BY <2>1 DEF Ids
  <2>3. QED
    BY <2>1, <2>2
<1>4. QED
  BY <1>1, <1>2, <1>3

LEMMA LiveInitTypes ==
  ASSUME LiveInit
  PROVE  LiveTypeOK
<1>1. rows \in Seq(Events) /\ Len(rows) \in {0, 1}
  BY FirstRow
<1>2. \A i \in Ids : i = 1 /\ Len(rows) = 1
  BY FirstRow
<1>3. latest \in [Series -> 0..Len(rows)]
  <2>1. ASSUME NEW s \in Series
        PROVE  (IF \E i \in Ids : SeriesOfRow(i) = s THEN 1 ELSE 0) \in 0..Len(rows)
    <3>1. CASE \E i \in Ids : SeriesOfRow(i) = s
      BY <1>1, <1>2, <3>1
    <3>2. CASE ~\E i \in Ids : SeriesOfRow(i) = s
      BY <1>1, <3>2
    <3>3. QED
      BY <3>1, <3>2
  <2>2. QED
    BY <2>1 DEF LiveInit
<1>4. pipe \in Seq(Ids) /\ backlog \in Seq(Ids)
  BY DEF LiveInit
<1>5. cursor \in 0..MaxCaptured /\ drops \in 0..MaxDrops
  BY LiveAssumption DEF LiveInit
<1>6. QED
  BY <1>1, <1>3, <1>4, <1>5 DEF LiveInit, LiveTypeOK

(* A service that starts for the first time has one row at most, and the   *)
(* migration has put it into the projection.                               *)
THEOREM LiveInitial == LiveInit => LiveIInv
<1> SUFFICES ASSUME LiveInit PROVE LiveIInv
  OBVIOUS
<1>1. LiveTypeOK
  BY LiveInitTypes
<1>2. \A i \in Ids : i = 1
  BY FirstRow
<1>3. \A s \in Series : latest[s] = IF \E i \in Ids : SeriesOfRow(i) = s THEN 1 ELSE 0
  BY DEF LiveInit
<1>4. LatestNamed
  BY <1>2, <1>3 DEF LatestNamed
<1>5. ASSUME NEW i \in history PROVE Covered(i)
  <2>1. i \in Ids /\ SeriesOfRow(i) \in Series
    BY <1>1, <1>5, HistoryTypes
  <2>2. i = 1
    BY <1>2, <2>1
  <2>3. latest[SeriesOfRow(i)] = 1
    BY <1>3, <2>1
  <2>4. QED
    BY <2>2, <2>3 DEF Covered, NotNewer
<1>6. Projected
  BY <1>5 DEF Projected
<1>7. FeedComplete
  BY DEF LiveInit, FeedComplete, ResumeHasNoGap, Registered
<1>8. QED
  BY <1>1, <1>4, <1>6, <1>7 DEF LiveIInv

-----------------------------------------------------------------------------
(* A row is committed.                                                     *)

LEMMA CommitTypes ==
  ASSUME LiveIInv, NEW e \in Events, CommitEvent(e)
  PROVE  /\ LiveTypeOK'
         /\ Len(rows) \in Nat /\ Ids' = Ids \cup {Len(rows) + 1} /\ Len(rows) + 1 \notin Ids
         /\ \A i \in Ids : Captured(i)' = Captured(i) /\ SeriesOfRow(i)' = SeriesOfRow(i)
         /\ \A id : id = Len(rows) + 1 =>
              Captured(id)' = CapturedAt[e] /\ SeriesOfRow(id)' = SeriesOf[e]
<1>1. /\ rows \in Seq(Events) /\ Len(rows) \in Nat
      /\ rows' = Append(rows, e) /\ Len(rows') = Len(rows) + 1
      /\ rows' \in Seq(Events) /\ rows'[Len(rows) + 1] = e
      /\ \A i \in 1..Len(rows) : rows'[i] = rows[i]
  BY DEF LiveIInv, LiveTypeOK, CommitEvent
<1>2. Ids' = Ids \cup {Len(rows) + 1} /\ Len(rows) + 1 \notin Ids
  BY <1>1 DEF Ids
<1>3. latest \in [Series -> 0..Len(rows)] /\ SeriesOf[e] \in Series
  BY LiveAssumption DEF LiveIInv, LiveTypeOK
<1>4. latest' \in [Series -> 0..Len(rows')]
  <2>1. latest \in [Series -> 0..Len(rows')]
    <3>1. 0..Len(rows) \subseteq 0..Len(rows')
      BY <1>1
    <3>2. QED
      BY <1>3, <3>1
  <2>2. Len(rows) + 1 \in 0..Len(rows')
    BY <1>1
  <2>3. latest' = [latest EXCEPT ![SeriesOf[e]] = Len(rows) + 1] \/ latest' = latest
    BY DEF CommitEvent
  <2>4. QED
    BY <2>1, <2>2, <2>3
<1>5. pipe' \in Seq(Ids') /\ backlog' \in Seq(Ids')
  <2>1. pipe \in Seq(Ids) /\ backlog \in Seq(Ids) /\ pipe' = Append(pipe, Len(rows) + 1)
        /\ backlog' = backlog
    BY DEF LiveIInv, LiveTypeOK, CommitEvent, connectionVars
  <2>2. pipe \in Seq(Ids') /\ backlog' \in Seq(Ids') /\ Len(rows) + 1 \in Ids'
    BY <1>2, <2>1, WiderSeq
  <2>3. QED
    BY <2>1, <2>2, ElementsOfAppend
<1>6. history' \subseteq Ids'
  BY <1>2 DEF LiveIInv, LiveTypeOK, CommitEvent
<1>7. replay' \subseteq Ids' /\ replayed' \subseteq Ids' /\ seen' \subseteq Ids'
      /\ before' \subseteq Ids' /\ missed' \subseteq Ids'
  BY <1>2 DEF LiveIInv, LiveTypeOK, CommitEvent, connectionVars, browserVars
<1>8. LiveTypeOK'
  BY <1>1, <1>4, <1>5, <1>6, <1>7 DEF LiveIInv, LiveTypeOK, CommitEvent, connectionVars, browserVars
<1>9. \A i \in Ids : rows'[i] = rows[i]
  BY <1>1 DEF Ids
<1>10. QED
  BY <1>1, <1>2, <1>8, <1>9 DEF Captured, SeriesOfRow

LEMMA CommitProjects ==
  ASSUME LiveIInv, NEW e \in Events, CommitEvent(e)
  PROVE  LatestNamed' /\ Projected'
<1>0. PICK id : id = Len(rows) + 1
  OBVIOUS
<1> DEFINE s == SeriesOf[e]
           captured == [i \in 1..id |-> IF i = id THEN CapturedAt[e] ELSE Captured(i)]
<1>1. /\ Len(rows) \in Nat /\ id \in Nat \ {0} /\ Ids' = Ids \cup {id} /\ id \notin Ids
      /\ \A i \in Ids : Captured(i)' = Captured(i) /\ SeriesOfRow(i)' = SeriesOfRow(i)
      /\ Captured(id)' = CapturedAt[e] /\ SeriesOfRow(id)' = s
      /\ s \in Series /\ CapturedAt[e] \in Int
  BY <1>0, CommitTypes, LiveAssumption
<1>2. /\ serving /\ serving' = serving /\ release' = release
      /\ history' = history \cup {id} /\ history \subseteq Ids
      /\ latest' = IF release = "current" /\ Advances(id, latest[s], captured)
                   THEN [latest EXCEPT ![s] = id] ELSE latest
  BY <1>0 DEF CommitEvent, LiveIInv, LiveTypeOK
<1>3. /\ latest \in [Series -> 0..Len(rows)]
      /\ \A i \in Ids : i \in Nat \ {0} /\ i < id /\ Captured(i) \in Int /\ SeriesOfRow(i) \in Series
      /\ \A i \in 1..Len(rows) : i \in Ids
  <2>1. LiveTypeOK
    BY DEF LiveIInv
  <2>2. \A i \in Ids : i <= Len(rows)
    BY <1>0, <1>1 DEF Ids
  <2>3. ASSUME NEW i \in Ids
        PROVE  i \in Nat \ {0} /\ i < id /\ Captured(i) \in Int /\ SeriesOfRow(i) \in Series
    BY <1>0, <1>1, <2>1, <2>2, RowTypes, LiveAssumption
  <2>4. QED
    BY <2>1, <2>3 DEF LiveTypeOK, Ids
<1>4. /\ captured[id] = CapturedAt[e]
      /\ \A i \in Ids : captured[i] = Captured(i)
  BY <1>0, <1>1, <1>3 DEF Ids
<1> HIDE DEF s, captured
<1>5. LatestNamed'
  <2> SUFFICES ASSUME NEW q \in Series, latest'[q] > 0
               PROVE  SeriesOf[rows'[latest'[q]]] = q
    BY DEF LatestNamed, SeriesOfRow
  <2>1. CASE latest' = [latest EXCEPT ![s] = id] /\ q = s
    BY <1>1, <1>3, <2>1 DEF SeriesOfRow
  <2>2. CASE ~(latest' = [latest EXCEPT ![s] = id] /\ q = s)
    <3>1. latest'[q] = latest[q]
      BY <1>2, <1>3, <2>2
    <3>2. latest[q] \in 1..Len(rows)
      BY <1>1, <1>3, <3>1
    <3>3. latest[q] \in Ids /\ SeriesOfRow(latest[q]) = q
      BY <1>1, <1>3, <3>1, <3>2 DEF LatestNamed, LiveIInv
    <3>4. QED
      BY <1>1, <3>1, <3>3 DEF SeriesOfRow
  <2>3. QED
    BY <2>1, <2>2
<1>6. CASE release = "current"
  <2>1. \A i \in history : Covered(i)
    BY <1>2, <1>6 DEF LiveIInv, Projected
  <2>2. latest[s] \in 0..Len(rows) /\ (latest[s] > 0 => latest[s] \in Ids /\ latest[s] \in 1..Len(rows))
    BY <1>1, <1>3
  <2>3. CASE Advances(id, latest[s], captured)
    <3>1. latest' = [latest EXCEPT ![s] = id]
      BY <1>2, <1>6, <2>3
    <3>2. latest'[s] = id /\ \A q \in Series \ {s} : latest'[q] = latest[q]
      BY <1>1, <1>3, <3>1
    <3>3. ASSUME NEW i \in history PROVE Covered(i)'
      <4>1. i \in Ids /\ Covered(i) /\ SeriesOfRow(i) \in Series
        BY <1>2, <1>3, <2>1
      <4>2. CASE SeriesOfRow(i) = s
        <5>1. latest[s] \in Ids /\ latest[s] > 0 /\ NotNewer(i, latest[s])
          BY <2>2, <4>1, <4>2 DEF Covered
        <5>2. Captured(i) <= Captured(latest[s]) /\ Captured(i) \in Int /\ Captured(latest[s]) \in Int
          BY <1>3, <4>1, <5>1 DEF NotNewer
        <5>3. CapturedAt[e] >= Captured(latest[s])
          BY <1>1, <1>4, <2>3, <5>1, <5>2 DEF Advances
        <5>4. i < id /\ i \in Nat
          BY <1>3, <4>1
        <5>5. NotNewer(i, id)'
          BY <1>1, <4>1, <5>2, <5>3, <5>4 DEF NotNewer
        <5>6. QED
          BY <1>1, <3>2, <4>1, <4>2, <5>5 DEF Covered
      <4>3. CASE SeriesOfRow(i) # s
        <5>1. latest'[SeriesOfRow(i)] = latest[SeriesOfRow(i)]
          BY <3>2, <4>1, <4>3
        <5>2. latest[SeriesOfRow(i)] \in Ids
          BY <1>1, <1>3, <4>1 DEF Covered
        <5>3. QED
          BY <1>1, <4>1, <5>1, <5>2 DEF Covered, NotNewer
      <4>4. QED
        BY <4>2, <4>3
    <3>4. Covered(id)'
      BY <1>1, <3>2 DEF Covered, NotNewer
    <3>5. QED
      BY <1>2, <1>5, <3>3, <3>4 DEF Projected
  <2>4. CASE ~Advances(id, latest[s], captured)
    <3>1. latest' = latest
      BY <1>2, <2>4
    <3>2. ASSUME NEW i \in history PROVE Covered(i)'
      <4>1. i \in Ids /\ Covered(i) /\ SeriesOfRow(i) \in Series
        BY <1>2, <1>3, <2>1
      <4>2. latest[SeriesOfRow(i)] \in Ids
        BY <1>1, <1>3, <4>1 DEF Covered
      <4>3. QED
        BY <1>1, <3>1, <4>1, <4>2 DEF Covered, NotNewer
    <3>3. Covered(id)'
      <4>1. latest[s] > 0 /\ latest[s] \in Ids
        BY <1>1, <2>2, <2>4 DEF Advances
      <4>2. CapturedAt[e] < Captured(latest[s])
        BY <1>1, <1>3, <1>4, <2>4, <4>1 DEF Advances
      <4>3. QED
        BY <1>1, <3>1, <4>1, <4>2 DEF Covered, NotNewer
    <3>4. QED
      BY <1>2, <1>5, <3>2, <3>3 DEF Projected
  <2>5. QED
    BY <2>3, <2>4
<1>7. CASE release # "current"
  <2>1. latest' = latest
    BY <1>2, <1>7
  <2>2. ASSUME NEW i \in history PROVE Covered(i)' \/ i \in Unprojected'
    <3>1. i \in Ids /\ SeriesOfRow(i) \in Series
      BY <1>2, <1>3
    <3>2. CASE Covered(i)
      <4>1. latest[SeriesOfRow(i)] \in Ids
        BY <1>1, <1>3, <3>1, <3>2 DEF Covered
      <4>2. QED
        BY <1>1, <2>1, <3>1, <3>2, <4>1 DEF Covered, NotNewer
    <3>3. CASE i \in Unprojected
      BY <1>2, <2>1, <3>3 DEF Unprojected
    <3>4. QED
      BY <3>2, <3>3 DEF LiveIInv, Projected
  <2>3. id \in Unprojected'
    BY <1>1, <1>2, <1>3, <2>1 DEF Unprojected
  <2>4. QED
    BY <1>2, <1>5, <1>7, <2>2, <2>3 DEF Projected
<1>8. QED
  BY <1>6, <1>7

LEMMA CommitFeeds ==
  ASSUME LiveIInv, NEW e \in Events, CommitEvent(e)
  PROVE  FeedComplete'
<1>0. PICK id : id = Len(rows) + 1
  OBVIOUS
<1>1. pipe \in Seq(Ids) /\ pipe' = Append(pipe, id) /\ history' = history \cup {id}
  BY <1>0 DEF CommitEvent, LiveIInv, LiveTypeOK
<1>2. pipe \in Seq(Ids') /\ id \in Ids'
  BY <1>0, <1>1, CommitTypes, WiderSeq
<1>3. Elements(pipe') = Elements(pipe) \cup {id}
  BY <1>1, <1>2, ElementsOfAppend
<1>4. UNCHANGED <<feed, replay, replayed, backlog, overflowed, seen, before, missed>>
  BY DEF CommitEvent, connectionVars, browserVars
<1>5. Elements(backlog)' = Elements(backlog) /\ Elements(pipe)' = Elements(pipe')
  BY <1>4 DEF Elements
<1>6. QED
  BY <1>1, <1>3, <1>4, <1>5 DEF LiveIInv, FeedComplete, ResumeHasNoGap, Registered

-----------------------------------------------------------------------------
(* The start of the current release.                                       *)

(* Of the rows without a projection one is the newest of its series.       *)
LEMMA NewestExists ==
  ASSUME LiveTypeOK, NEW T, T \subseteq Ids, T # {}
  PROVE  \E m \in T : \A i \in T : NotNewer(i, m)
<1>1. Len(rows) \in Nat /\ MaxCaptured \in Nat
  BY LiveAssumption DEF LiveTypeOK
<1>2. \A i \in T : Captured(i) \in 0..MaxCaptured /\ i \in 0..Len(rows)
  <2> SUFFICES ASSUME NEW i \in T PROVE Captured(i) \in 0..MaxCaptured /\ i \in 0..Len(rows)
    OBVIOUS
  <2>1. Captured(i) \in 1..MaxCaptured /\ i \in Nat /\ i \in 1..Len(rows)
    BY RowTypes DEF Ids
  <2>2. QED
    BY <1>1, <2>1
<1>3. {Captured(i) : i \in T} \subseteq 0..MaxCaptured /\ {Captured(i) : i \in T} # {}
  BY <1>2
<1>4. PICK c \in {Captured(i) : i \in T} : \A d \in {Captured(i) : i \in T} : d <= c
  BY <1>1, <1>3, Largest
<1>5. {i \in T : Captured(i) = c} \subseteq 0..Len(rows) /\ {i \in T : Captured(i) = c} # {}
  BY <1>2, <1>4
<1>6. PICK m \in {i \in T : Captured(i) = c} : \A i \in {j \in T : Captured(j) = c} : i <= m
  BY <1>1, <1>5, Largest
<1>7. ASSUME NEW i \in T PROVE NotNewer(i, m)
  <2>1. Captured(i) \in Int /\ c \in Int /\ Captured(i) <= c /\ Captured(m) = c
    BY <1>2, <1>4, <1>6
  <2>2. CASE Captured(i) = c
    BY <1>6, <2>1, <2>2 DEF NotNewer
  <2>3. CASE Captured(i) # c
    BY <2>1, <2>3 DEF NotNewer
  <2>4. QED
    BY <2>2, <2>3
<1>8. QED
  BY <1>6, <1>7

LEMMA AdvancesOrNot ==
  ASSUME LiveTypeOK, NEW i \in Ids, NEW j \in Ids
  PROVE  Advances(i, j, [n \in Ids |-> Captured(n)]) <=> ~NotNewer(i, j)
<1>1. Captured(i) \in Int /\ Captured(j) \in Int /\ i \in Nat \ {0} /\ j \in Nat \ {0}
  <2>1. /\ Captured(i) \in 1..MaxCaptured /\ i \in Nat \ {0}
        /\ Captured(j) \in 1..MaxCaptured /\ j \in Nat \ {0}
    BY RowTypes
  <2>2. QED
    BY <2>1, LiveAssumption
<1>2. QED
  BY <1>1 DEF Advances, NotNewer

LEMMA NotNewerTransitive ==
  ASSUME LiveTypeOK, NEW i \in Ids, NEW j \in Ids, NEW k \in Ids, NotNewer(i, j), NotNewer(j, k)
  PROVE  NotNewer(i, k)
<1>1. /\ Captured(i) \in Int /\ Captured(j) \in Int /\ Captured(k) \in Int
      /\ i \in Nat /\ j \in Nat /\ k \in Nat
  <2>1. /\ Captured(i) \in 1..MaxCaptured /\ i \in Nat \ {0}
        /\ Captured(j) \in 1..MaxCaptured /\ j \in Nat \ {0}
        /\ Captured(k) \in 1..MaxCaptured /\ k \in Nat \ {0}
    BY RowTypes
  <2>2. QED
    BY <2>1, LiveAssumption
<1>2. QED
  BY <1>1 DEF NotNewer

LEMMA NotNewerAntisymmetric ==
  ASSUME LiveTypeOK, NEW i \in Ids, NEW j \in Ids, NotNewer(i, j), NotNewer(j, i)
  PROVE  i = j
<1>1. Captured(i) \in Int /\ Captured(j) \in Int /\ i \in Nat /\ j \in Nat
  <2>1. /\ Captured(i) \in 1..MaxCaptured /\ i \in Nat \ {0}
        /\ Captured(j) \in 1..MaxCaptured /\ j \in Nat \ {0}
    BY RowTypes
  <2>2. QED
    BY <2>1, LiveAssumption
<1>2. QED
  BY <1>1 DEF NotNewer

(* What the reconciliation leaves as the latest row of a series.           *)
LEMMA ReconciledNewest ==
  ASSUME LiveTypeOK, LatestNamed, NEW s \in Series
  PROVE  /\ Reconciled(s) \in 0..Len(rows)
         /\ Reconciled(s) > 0 => SeriesOfRow(Reconciled(s)) = s
         /\ \A i \in history :
              SeriesOfRow(i) = s /\ (i \in Unprojected \/ Covered(i))
                => Reconciled(s) > 0 /\ NotNewer(i, Reconciled(s))
<1> DEFINE candidates == {i \in Unprojected : SeriesOfRow(i) = s}
           captured == [i \in Ids |-> Captured(i)]
           newest == {i \in candidates : \A j \in candidates \ {i} : ~Advances(j, i, captured)}
           ahead == {i \in newest : Advances(i, latest[s], captured)}
<1>1. Reconciled(s) = IF ahead # {} THEN CHOOSE i \in newest : TRUE ELSE latest[s]
  BY DEF Reconciled
<1>2. /\ candidates \subseteq history /\ candidates \subseteq Ids /\ newest \subseteq candidates
      /\ ahead \subseteq newest /\ Len(rows) \in Nat /\ Ids = 1..Len(rows)
      /\ latest[s] \in 0..Len(rows)
      /\ \A i \in history : i \in Ids
      /\ \A i \in history : SeriesOfRow(i) = s /\ i \in Unprojected => i \in candidates
      /\ \A i \in candidates : SeriesOfRow(i) = s
  <2>1. /\ history \subseteq Ids /\ Len(rows) \in Nat /\ Ids = 1..Len(rows)
        /\ latest[s] \in 0..Len(rows)
    BY DEF LiveTypeOK, Ids
  <2>2. /\ candidates \subseteq history
        /\ \A i \in history : SeriesOfRow(i) = s /\ i \in Unprojected => i \in candidates
        /\ \A i \in candidates : SeriesOfRow(i) = s
    BY DEF Unprojected
  <2>3. newest \subseteq candidates /\ ahead \subseteq newest
    OBVIOUS
  <2> HIDE DEF candidates, captured, newest, ahead
  <2>4. QED
    BY <2>1, <2>2, <2>3
<1>3. ASSUME NEW i \in newest, NEW j \in candidates PROVE NotNewer(j, i)
  <2>1. CASE j = i
    <3>1. i \in Ids /\ j \in Ids
      BY <1>2
    <3>2. QED
      BY <2>1, <3>1, RowTypes DEF NotNewer
  <2>2. CASE j # i
    BY <1>2, <2>2, AdvancesOrNot
  <2>3. QED
    BY <2>1, <2>2
<1>4. candidates # {} => newest # {}
  <2> SUFFICES ASSUME candidates # {} PROVE newest # {}
    OBVIOUS
  <2>1. PICK m \in candidates : \A i \in candidates : NotNewer(i, m)
    BY <1>2, NewestExists
  <2>2. m \in newest
    BY <1>2, <2>1, AdvancesOrNot
  <2>3. QED
    BY <2>2
<1>5. ASSUME NEW i \in newest, NEW j \in newest PROVE i = j
  BY <1>2, <1>3, NotNewerAntisymmetric
<1>6. ASSUME NEW i \in ahead, latest[s] > 0 PROVE NotNewer(latest[s], i)
  <2>1. i \in Ids /\ latest[s] \in Ids /\ Advances(i, latest[s], captured)
    BY <1>2, <1>6
  <2>2. ~NotNewer(i, latest[s])
    BY <2>1, AdvancesOrNot
  <2>3. /\ Captured(i) \in 1..MaxCaptured /\ i \in Nat \ {0}
        /\ Captured(latest[s]) \in 1..MaxCaptured /\ latest[s] \in Nat \ {0}
    BY <2>1, RowTypes
  <2>4. QED
    BY <2>2, <2>3, LiveAssumption DEF NotNewer
<1>7. ASSUME NEW i \in newest, i \notin ahead PROVE latest[s] > 0 /\ NotNewer(i, latest[s])
  <2>1. ~Advances(i, latest[s], captured)
    BY <1>7
  <2>2. latest[s] # 0
    BY <2>1 DEF Advances
  <2>3. latest[s] \in Ids /\ i \in Ids /\ latest[s] > 0
    BY <1>2, <2>2
  <2>4. QED
    BY <2>1, <2>3, AdvancesOrNot
<1> HIDE DEF candidates, captured, newest, ahead
<1>8. CASE ahead # {}
  <2>1. PICK m \in ahead : Reconciled(s) = m
    BY <1>1, <1>2, <1>5, <1>8
  <2>2. m \in newest /\ m \in candidates /\ m \in Ids /\ m > 0 /\ m \in 0..Len(rows)
    BY <1>2
  <2>3. ASSUME NEW i \in history, SeriesOfRow(i) = s, i \in Unprojected \/ Covered(i)
        PROVE  NotNewer(i, m)
    <3>1. CASE i \in Unprojected
      BY <1>2, <1>3, <2>2, <2>3, <3>1
    <3>2. CASE Covered(i)
      <4>1. latest[s] > 0 /\ NotNewer(i, latest[s])
        BY <2>3, <3>2 DEF Covered
      <4>2. latest[s] \in Ids /\ i \in Ids
        BY <1>2, <4>1
      <4>3. QED
        BY <1>6, <2>2, <4>1, <4>2, NotNewerTransitive
    <3>3. QED
      BY <2>3, <3>1, <3>2
  <2>4. QED
    BY <1>2, <2>1, <2>2, <2>3
<1>9. CASE ahead = {}
  <2>1. Reconciled(s) = latest[s]
    BY <1>1, <1>9
  <2>2. ASSUME NEW i \in history, SeriesOfRow(i) = s, i \in Unprojected \/ Covered(i)
        PROVE  latest[s] > 0 /\ NotNewer(i, latest[s])
    <3>1. CASE i \in Unprojected
      <4>1. i \in candidates /\ i \in Ids
        BY <1>2, <2>2, <3>1
      <4>2. PICK m \in newest : TRUE
        BY <1>4, <4>1
      <4>3. latest[s] > 0 /\ NotNewer(m, latest[s]) /\ NotNewer(i, m) /\ m \in Ids
        BY <1>2, <1>3, <1>7, <1>9, <4>1
      <4>4. latest[s] \in Ids
        BY <1>2, <4>3
      <4>5. QED
        BY <4>1, <4>3, <4>4, NotNewerTransitive
    <3>2. CASE Covered(i)
      BY <2>2, <3>2 DEF Covered
    <3>3. QED
      BY <2>2, <3>1, <3>2
  <2>3. QED
    BY <1>2, <2>1, <2>2 DEF LatestNamed
<1>10. QED
  BY <1>8, <1>9

LEMMA StartCurrentKeeps ==
  ASSUME LiveIInv, StartCurrent
  PROVE  LiveIInv'
<1> USE DEF LiveIInv
<1>1. /\ latest' = [s \in Series |-> Reconciled(s)] /\ serving' = TRUE
      /\ UNCHANGED <<rows, history, release, pipe, connectionVars, browserVars, drops>>
  BY DEF StartCurrent
<1>2. \A s \in Series : Reconciled(s) \in 0..Len(rows)
  BY ReconciledNewest
<1>3. latest' \in [Series -> 0..Len(rows)]
  BY <1>1, <1>2
<1>4. LiveTypeOK'
  BY <1>1, <1>3 DEF LiveTypeOK, Ids, connectionVars, browserVars
<1>5. LatestNamed'
  <2> SUFFICES ASSUME NEW s \in Series, latest'[s] > 0 PROVE SeriesOf[rows'[latest'[s]]] = s
    BY DEF LatestNamed, SeriesOfRow
  <2>1. latest'[s] = Reconciled(s)
    BY <1>1
  <2>2. QED
    BY <1>1, <2>1, ReconciledNewest DEF SeriesOfRow
<1>6. ASSUME NEW i \in history PROVE Covered(i)'
  <2>1. PICK s \in Series : SeriesOfRow(i) = s
    BY <1>6, HistoryTypes
  <2>2. i \in Unprojected \/ Covered(i)
    BY DEF Projected
  <2>3. PICK j : j = Reconciled(s)
    OBVIOUS
  <2>4. j > 0 /\ NotNewer(i, j)
    BY <2>1, <2>2, <2>3, ReconciledNewest
  <2>5. latest'[s] = j /\ SeriesOfRow(i)' = s /\ NotNewer(i, j)'
    BY <1>1, <2>1, <2>3, <2>4 DEF SeriesOfRow, NotNewer, Captured
  <2>6. QED
    BY <2>4, <2>5 DEF Covered, NotNewer, Captured
<1>7. Projected'
  BY <1>1, <1>6 DEF Projected
<1>8. FeedComplete'
  BY <1>1 DEF FeedComplete, ResumeHasNoGap, Registered, Elements, connectionVars, browserVars
<1>9. QED
  BY <1>4, <1>5, <1>7, <1>8

-----------------------------------------------------------------------------
(* The other steps.                                                        *)

LEMMA StoreKept ==
  ASSUME LatestNamed, Projected, UNCHANGED <<rows, latest>>, history' \subseteq history,
         serving' /\ release' = "current" => serving /\ release = "current"
  PROVE  LatestNamed' /\ Projected'
<1>1. LatestNamed'
  BY DEF LatestNamed, SeriesOfRow
<1>2. \A i : Covered(i)' <=> Covered(i)
  BY DEF Covered, NotNewer, Captured, SeriesOfRow
<1>3. \A i \in history' : i \in Unprojected => i \in Unprojected'
  BY DEF Unprojected
<1>4. QED
  BY <1>1, <1>2, <1>3 DEF Projected

LEMMA DeleteExpiredKeeps ==
  ASSUME LiveIInv, NEW cutoff \in 1..MaxCaptured, DeleteExpired(cutoff)
  PROVE  LiveIInv'
<1> USE DEF LiveIInv
<1>1. /\ history' \subseteq history
      /\ UNCHANGED <<rows, latest, serverVars, connectionVars, browserVars, drops>>
  BY DEF DeleteExpired
<1>2. LiveTypeOK'
  BY <1>1 DEF LiveTypeOK, Ids, serverVars, connectionVars, browserVars
<1>3. LatestNamed' /\ Projected'
  BY <1>1, StoreKept DEF serverVars
<1>4. FeedComplete'
  BY <1>1 DEF FeedComplete, ResumeHasNoGap, Registered, Elements, serverVars, connectionVars, browserVars
<1>5. QED
  BY <1>2, <1>3, <1>4

LEMMA ClosingKeeps ==
  ASSUME LiveIInv, StopServing \/ CloseSlowConsumer \/ LoseConnection
  PROVE  LiveIInv'
<1> USE DEF LiveIInv
<1>1. /\ CloseFeed
      /\ UNCHANGED <<storeVars, release, browserVars>>
      /\ pipe' \in {<<>>, pipe} /\ serving' \in BOOLEAN /\ (serving' => serving)
  <2>1. serving \in BOOLEAN
    BY DEF LiveTypeOK
  <2>2. CASE StopServing
    BY <2>2 DEF StopServing
  <2>3. CASE CloseSlowConsumer \/ LoseConnection
    BY <2>1, <2>3 DEF CloseSlowConsumer, LoseConnection, serverVars
  <2>4. QED
    BY <2>2, <2>3
<1>a. drops' \in 0..MaxDrops
  <2>1. drops' = drops \/ (drops < MaxDrops /\ drops' = drops + 1)
    BY DEF StopServing, CloseSlowConsumer, LoseConnection, Drop
  <2>2. QED
    BY <2>1, LiveAssumption DEF LiveTypeOK
<1>2. LiveTypeOK'
  <2>1. <<>> \in Seq(Ids)
    OBVIOUS
  <2>2. backlog' \in Seq(Ids) /\ pipe' \in Seq(Ids)
    BY <1>1, <2>1 DEF CloseFeed, LiveTypeOK
  <2>3. QED
    BY <1>1, <1>a, <2>2 DEF CloseFeed, LiveTypeOK, Ids, storeVars, browserVars
<1>3. LatestNamed' /\ Projected'
  BY <1>1, StoreKept DEF storeVars
<1>4. feed' \in {"new", "lost", "ended"} /\ replayed' = {}
  BY <1>1 DEF CloseFeed, LiveTypeOK
<1>5. FeedComplete'
  BY <1>4 DEF FeedComplete, ResumeHasNoGap, Registered
<1>6. QED
  BY <1>2, <1>3, <1>5

LEMMA ReleaseKeeps ==
  ASSUME LiveIInv, Upgrade \/ StartPrevious
  PROVE  LiveIInv'
<1> USE DEF LiveIInv
<1>1. LiveTypeOK'
  BY DEF Upgrade, StartPrevious, LiveTypeOK, Ids, storeVars, connectionVars, browserVars
<1>2. LatestNamed' /\ Projected'
  BY StoreKept DEF Upgrade, StartPrevious, storeVars
<1>3. FeedComplete'
  BY DEF Upgrade, StartPrevious, FeedComplete, ResumeHasNoGap, Registered, Elements,
         storeVars, connectionVars, browserVars
<1>4. QED
  BY <1>1, <1>2, <1>3

LEMMA FanOutKeeps ==
  ASSUME LiveIInv, FanOut
  PROVE  LiveIInv'
<1> USE DEF LiveIInv
<1>1. pipe \in Seq(Ids) /\ pipe # <<>> /\ backlog \in Seq(Ids) /\ pipe' = Tail(pipe)
  BY DEF FanOut, LiveTypeOK
<1>2. /\ Head(pipe) \in Ids /\ Tail(pipe) \in Seq(Ids)
      /\ Elements(pipe) \subseteq {Head(pipe)} \cup Elements(Tail(pipe))
  BY <1>1, ElementsOfTail
<1>3. /\ Append(backlog, Head(pipe)) \in Seq(Ids)
      /\ Elements(Append(backlog, Head(pipe))) = Elements(backlog) \cup {Head(pipe)}
  BY <1>1, <1>2, ElementsOfAppend
<1>4. UNCHANGED <<storeVars, release, serving, feed, replay, replayed, browserVars, drops>>
  BY DEF FanOut
<1>5. \/ backlog' = <<>> /\ overflowed' = TRUE
      \/ ~Registered /\ backlog' = backlog /\ overflowed' = overflowed
      \/ backlog' = Append(backlog, Head(pipe)) /\ overflowed' = overflowed
  BY DEF FanOut
<1>6. LiveTypeOK'
  <2>1. <<>> \in Seq(Ids)
    OBVIOUS
  <2>2. backlog' \in Seq(Ids) /\ pipe' \in Seq(Ids) /\ overflowed' \in BOOLEAN
    BY <1>1, <1>2, <1>3, <1>5, <2>1 DEF LiveTypeOK
  <2>3. QED
    BY <1>4, <2>2 DEF LiveTypeOK, Ids, storeVars, browserVars
<1>7. LatestNamed' /\ Projected'
  BY <1>4, StoreKept DEF storeVars
<1>8. FeedComplete'
  <2>1. replayed' \subseteq seen'
    BY <1>4 DEF FeedComplete, browserVars
  <2>2. CASE backlog' = <<>> /\ overflowed' = TRUE
    BY <2>1, <2>2 DEF FeedComplete, ResumeHasNoGap, Registered
  <2>3. CASE ~Registered /\ backlog' = backlog /\ overflowed' = overflowed
    BY <1>4, <2>1, <2>3 DEF FeedComplete, ResumeHasNoGap, Registered
  <2>4. CASE backlog' = Append(backlog, Head(pipe)) /\ overflowed' = overflowed
    <3>1. /\ Elements(backlog)' = Elements(backlog) \cup {Head(pipe)}
          /\ Elements(pipe)' = Elements(Tail(pipe))
      BY <1>1, <1>3, <2>4 DEF Elements
    <3>2. QED
      BY <1>2, <1>4, <2>1, <2>4, <3>1
         DEF FeedComplete, ResumeHasNoGap, Registered, storeVars, browserVars
  <2>5. QED
    BY <1>5, <2>2, <2>3, <2>4
<1>9. QED
  BY <1>6, <1>7, <1>8

LEMMA SubscribingKeeps ==
  ASSUME LiveIInv, OpenFeed \/ Resume \/ EndFeed \/ EndReplay
  PROVE  LiveIInv'
<1> USE DEF LiveIInv
<1>1. UNCHANGED <<storeVars, serverVars, replayed, backlog, overflowed, seen, cursor, drops>>
  BY DEF OpenFeed, Resume, EndFeed, EndReplay, browserVars
<1>2. AskedFor \subseteq history /\ BeyondResume \subseteq history /\ history \subseteq Ids
  BY DEF AskedFor, BeyondResume, LiveTypeOK
<1>3. /\ feed' \in {"replaying", "live", "ended"}
      /\ replay' \in {replay, AskedFor}
      /\ before' \in {before, Ids} /\ missed' \in {missed, missed \cup BeyondResume}
  BY DEF OpenFeed, Resume, EndFeed, EndReplay, browserVars
<1>4. LiveTypeOK'
  BY <1>1, <1>2, <1>3 DEF LiveTypeOK, Ids, storeVars, serverVars
<1>5. LatestNamed' /\ Projected'
  BY <1>1, StoreKept DEF storeVars, serverVars
<1>6. Elements(backlog)' = Elements(backlog) /\ Elements(pipe)' = Elements(pipe)
  BY <1>1 DEF Elements, serverVars
<1>7. FeedComplete'
  <2>1. CASE OpenFeed
    BY <1>1, <1>2, <2>1 DEF OpenFeed, FeedComplete, ResumeHasNoGap, storeVars
  <2>2. CASE Resume
    <3>1. \A i \in history : Captured(i) \in Int
      BY HistoryTypes
    <3>2. cursor \in Int
      BY LiveAssumption DEF LiveTypeOK
    <3>3. cursor # 0 => replay' = AskedFor
      BY <2>2 DEF Resume
    <3>4. missed' = missed \cup BeyondResume /\ before' = before
      BY <2>2 DEF Resume
    <3>5. ASSUME NEW i \in history
          PROVE  i \in missed' \cup seen \cup replay' \cup Elements(pipe)
      BY <3>1, <3>2, <3>3, <3>4 DEF AskedFor, BeyondResume
    <3>6. QED
      BY <1>1, <1>6, <3>5 DEF FeedComplete, ResumeHasNoGap, storeVars
  <2>3. CASE EndFeed
    BY <1>1, <2>3 DEF EndFeed, FeedComplete, ResumeHasNoGap, Registered
  <2>4. CASE EndReplay
    BY <1>1, <1>6, <2>4
       DEF EndReplay, FeedComplete, ResumeHasNoGap, Registered, storeVars, browserVars
  <2>5. QED
    BY <2>1, <2>2, <2>3, <2>4
<1>8. QED
  BY <1>4, <1>5, <1>7

LEMMA SendingKeeps ==
  ASSUME LiveIInv, SendReplay \/ SendLive
  PROVE  LiveIInv'
<1> USE DEF LiveIInv
<1>1. UNCHANGED <<storeVars, serverVars, feed, overflowed, before, missed, drops>>
  BY DEF SendReplay, SendLive, Receive, browserVars
<1>2. LatestNamed' /\ Projected'
  BY <1>1, StoreKept DEF storeVars, serverVars
<1>3. Elements(pipe)' = Elements(pipe) /\ Ids' = Ids
  BY <1>1 DEF Elements, serverVars, storeVars, Ids
<1>4. ASSUME NEW i \in Ids, Receive(i)
      PROVE  seen' \subseteq Ids /\ cursor' \in 0..MaxCaptured
  <2>1. Captured(i) \in 1..MaxCaptured
    BY RowTypes
  <2>2. QED
    BY <1>4, <2>1, LiveAssumption DEF Receive, LiveTypeOK
<1>5. CASE SendReplay
  <2>1. PICK i \in replay : /\ Receive(i)
                            /\ replay' = replay \ {i}
                            /\ replayed' = replayed \cup {i}
    BY <1>5 DEF SendReplay
  <2>2. i \in Ids /\ backlog' = backlog
    BY <1>5 DEF SendReplay, LiveTypeOK
  <2>3. LiveTypeOK'
    BY <1>1, <1>3, <1>4, <2>1, <2>2 DEF LiveTypeOK, storeVars, serverVars
  <2>4. FeedComplete'
    <3>1. seen' = seen \cup {i} /\ Elements(backlog)' = Elements(backlog)
      BY <2>1, <2>2 DEF Receive, Elements
    <3>2. QED
      BY <1>1, <1>3, <2>1, <3>1 DEF FeedComplete, ResumeHasNoGap, Registered, storeVars
  <2>5. QED
    BY <1>2, <2>3, <2>4
<1>6. CASE SendLive
  <2>1. backlog \in Seq(Ids) /\ backlog # <<>> /\ backlog' = Tail(backlog)
        /\ UNCHANGED <<replay, replayed>>
    BY <1>6 DEF SendLive, LiveTypeOK
  <2>2. /\ Head(backlog) \in Ids /\ Tail(backlog) \in Seq(Ids)
        /\ Elements(backlog) \subseteq {Head(backlog)} \cup Elements(Tail(backlog))
    BY <2>1, ElementsOfTail
  <2>3. IF Head(backlog) \in replayed THEN UNCHANGED browserVars ELSE Receive(Head(backlog))
    BY <1>6 DEF SendLive
  <2>4. seen' \subseteq Ids /\ cursor' \in 0..MaxCaptured
    BY <1>4, <2>2, <2>3 DEF browserVars, LiveTypeOK
  <2>5. LiveTypeOK'
    BY <1>1, <1>3, <2>1, <2>2, <2>4 DEF LiveTypeOK, storeVars, serverVars
  <2>6. seen \subseteq seen' /\ Head(backlog) \in seen'
    BY <2>3 DEF browserVars, Receive, FeedComplete
  <2>7. Elements(backlog)' = Elements(Tail(backlog))
    BY <2>1 DEF Elements
  <2>8. FeedComplete'
    BY <1>1, <1>3, <2>1, <2>2, <2>6, <2>7
       DEF FeedComplete, ResumeHasNoGap, Registered, storeVars
  <2>9. QED
    BY <1>2, <2>5, <2>8
<1>7. QED
  BY <1>5, <1>6

-----------------------------------------------------------------------------
(* In every reachable state the projection covers what it has to, and the  *)
(* feed of the browser is complete.                                        *)
THEOREM LiveInductive == LiveSpec => []LiveIInv
<1>1. LiveInit => LiveIInv
  BY LiveInitial
<1>2. LiveIInv /\ [LiveNext]_liveVars => LiveIInv'
  <2> SUFFICES ASSUME LiveIInv, [LiveNext]_liveVars PROVE LiveIInv'
    OBVIOUS
  <2>1. ASSUME NEW e \in Events, CommitEvent(e) PROVE LiveIInv'
    BY <2>1, CommitTypes, CommitProjects, CommitFeeds DEF LiveIInv
  <2>2. ASSUME NEW cutoff \in 1..MaxCaptured, DeleteExpired(cutoff) PROVE LiveIInv'
    BY <2>2, DeleteExpiredKeeps
  <2>3. CASE StopServing \/ CloseSlowConsumer \/ LoseConnection
    BY <2>3, ClosingKeeps
  <2>4. CASE Upgrade \/ StartPrevious
    BY <2>4, ReleaseKeeps
  <2>5. CASE StartCurrent \/ FanOut
    BY <2>5, StartCurrentKeeps, FanOutKeeps
  <2>6. CASE OpenFeed \/ Resume \/ EndFeed \/ EndReplay
    BY <2>6, SubscribingKeeps
  <2>7. CASE SendReplay \/ SendLive
    BY <2>7, SendingKeeps
  <2>8. CASE UNCHANGED liveVars
    <3>1. UNCHANGED <<rows, history, latest, serving, release>>
      BY <2>8 DEF liveVars, storeVars, serverVars
    <3>2. LatestNamed' /\ Projected'
      BY <3>1, StoreKept DEF LiveIInv
    <3>3. LiveTypeOK'
      BY <2>8 DEF LiveIInv, LiveTypeOK, Ids,
                  liveVars, storeVars, serverVars, connectionVars, browserVars
    <3>4. FeedComplete'
      BY <2>8 DEF LiveIInv, FeedComplete, ResumeHasNoGap, Registered, Elements,
                  liveVars, storeVars, serverVars, connectionVars, browserVars
    <3>5. QED
      BY <3>2, <3>3, <3>4 DEF LiveIInv
  <2>9. QED
    BY <2>1, <2>2, <2>3, <2>4, <2>5, <2>6, <2>7, <2>8 DEF LiveNext
<1>3. QED
  BY <1>1, <1>2, PTL DEF LiveSpec

(* While the current release is up, no row of the history is newer than    *)
(* the latest row of its series.                                           *)
THEOREM ProjectionInvariant == LiveSpec => []ProjectionInv
<1>1. LiveIInv => ProjectionInv
  <2> SUFFICES ASSUME LiveIInv PROVE LatestIsNewest
    BY DEF LiveIInv, ProjectionInv
  <2>1. \A s \in Series : latest[s] > 0 => SeriesOfRow(latest[s]) = s
    BY DEF LiveIInv, LatestNamed
  <2>2. QED
    BY <2>1 DEF LiveIInv, Projected, Covered, NotNewer, LatestIsNewest
<1>2. QED
  BY <1>1, LiveInductive, PTL

(* An open feed has no gap that its resume could have asked for.           *)
THEOREM ResumeInvariant == LiveSpec => []ResumeHasNoGap
<1>1. LiveIInv => ResumeHasNoGap
  BY DEF LiveIInv, FeedComplete
<1>2. QED
  BY <1>1, LiveInductive, PTL


-----------------------------------------------------------------------------
(***************************************************************************)
(* Energy exports: theorems for any jobs, owners, limits and faults.       *)
(*                                                                         *)
(* ExportInv compares the manifests with the queue, the files and the      *)
(* active job, which the worker process changes without the lock.  What    *)
(* keeps them together is how much of its job's fate a worker can still    *)
(* decide (WorkerTold): until it is done the status is running unless a    *)
(* request made it terminal, the job waits in no queue and has no ticket,  *)
(* and the manifest has the phase the worker was started for.              *)
(***************************************************************************)
AtWork == {"started", "working", "finishing", "failing"}

JobOfWorker ==
  /\ worker # "none" => active \in Jobs /\ service = "up"
  /\ service = "up" /\ active # NoJob => worker # "none"
  /\ service \in {"down", "starting"} => queue = <<>> /\ active = NoJob /\ tickets = {}

WorkerTold ==
  /\ worker \in AtWork \cup {"gone"} => status[active] \in {"running"} \cup Terminal
  /\ worker = "cleaning" => status[active] \in Terminal
  /\ worker = "done" =>
       /\ status[active] \in {"preview_ready", "ready", "queued"} \cup Terminal
       /\ status[active] = "queued" => active \in Queued
  /\ worker \in AtWork \cup {"cleaning"} => active \notin tickets
  /\ worker = "finishing" /\ status[active] = "running" =>
       spool[active] = IF activePhase = "preview" THEN "source" ELSE "artifact"
  /\ worker # "none" /\ status[active] = "running" => phase[active] = activePhase

QueueWaits ==
  /\ \A j \in Queued : status[j] \in {"queued", "absent"} \cup Terminal
  /\ active \in Queued /\ service = "up" => worker = "done"

CleansTerminal == cleaning # NoJob => status[cleaning] \in Terminal

ExportIInv == ExportInv /\ JobOfWorker /\ WorkerTold /\ QueueWaits /\ CleansTerminal

-----------------------------------------------------------------------------
(* The queue and the manifests.                                            *)

\* A queue of n jobs, those of S, each once.
Lists(q, S, n) ==
  /\ q \in Seq(Jobs) /\ Len(q) = n /\ {q[i] : i \in 1..Len(q)} = S
  /\ \A i, k \in 1..Len(q) : q[i] = q[k] => i = k

LEMMA QueueTyped ==
  ASSUME ExportTypeOK
  PROVE  /\ Len(queue) \in Nat /\ \A i \in 1..Len(queue) : queue[i] \in Jobs
         /\ Queued \subseteq Jobs /\ Lists(queue, Queued, Len(queue))
<1>1. queue \in Seq(Jobs) /\ \A i, k \in 1..Len(queue) : queue[i] = queue[k] => i = k
  BY DEF ExportTypeOK
<1>2. Len(queue) \in Nat /\ \A i \in 1..Len(queue) : queue[i] \in Jobs
  BY <1>1, ElementOfSeq, LenProperties
<1>3. QED
  BY <1>1, <1>2 DEF Queued, Lists

LEMMA WithoutEffect ==
  ASSUME ExportTypeOK, NEW j \in Jobs
  PROVE  \E n \in Nat : n <= Len(queue) /\ Lists(Without(j), Queued \ {j}, n)
<1>1. /\ Len(queue) \in Nat /\ \A i \in 1..Len(queue) : queue[i] \in Jobs
      /\ Lists(queue, Queued, Len(queue))
  BY QueueTyped
<1>2. CASE j \notin Queued
  <2>1. Without(j) = queue /\ Queued \ {j} = Queued
    BY <1>2 DEF Without
  <2>2. QED
    BY <1>1, <2>1
<1>3. CASE j \in Queued
  <2> DEFINE at == CHOOSE i \in 1..Len(queue) : queue[i] = j
             n == Len(queue) - 1
             left == [i \in 1..n |-> queue[IF i < at THEN i ELSE i + 1]]
  <2>1. \E i \in 1..Len(queue) : queue[i] = j
    BY <1>3 DEF Queued
  <2>2. at \in 1..Len(queue) /\ queue[at] = j
    BY <2>1
  <2>3. Without(j) = left
    BY <1>3 DEF Without
  <2> HIDE DEF at
  <2>4. n \in Nat /\ n <= Len(queue)
    BY <1>1, <2>2
  <2>5. \A i \in 1..n : (IF i < at THEN i ELSE i + 1) \in 1..Len(queue) \ {at}
    BY <1>1, <2>2
  <2>6. left \in Seq(Jobs) /\ Len(left) = n
    <3>1. left \in [1..n -> Jobs]
      BY <1>1, <2>5
    <3>2. QED
      BY <2>4, <3>1
  <2>7. \A i, k \in 1..Len(queue) : queue[i] = queue[k] => i = k
    BY <1>1 DEF Lists
  <2>8. \A i, k \in 1..n : left[i] = left[k] => i = k
    <3> SUFFICES ASSUME NEW i \in 1..n, NEW k \in 1..n, left[i] = left[k]
                 PROVE  i = k
      OBVIOUS
    <3>1. (IF i < at THEN i ELSE i + 1) = (IF k < at THEN k ELSE k + 1)
      BY <2>5, <2>7
    <3>2. QED
      BY <1>1, <2>2, <2>4, <3>1
  <2>9. \A i \in 1..n : left[i] \in Queued \ {j}
    BY <2>2, <2>5, <2>7 DEF Queued
  <2>10. ASSUME NEW k \in Queued \ {j}
         PROVE  \E i \in 1..n : left[i] = k
    <3>1. PICK i \in 1..Len(queue) : queue[i] = k /\ i # at
      BY <2>2 DEF Queued
    <3>2. CASE i < at
      <4>1. i \in 1..n /\ left[i] = k
        BY <1>1, <2>2, <3>1, <3>2
      <4>2. QED
        BY <4>1
    <3>3. CASE ~(i < at)
      <4>1. i - 1 \in 1..n /\ ~(i - 1 < at) /\ (i - 1) + 1 = i
        BY <1>1, <2>2, <3>1, <3>3
      <4>2. left[i - 1] = k
        BY <3>1, <4>1
      <4>3. QED
        BY <4>1, <4>2
    <3>4. QED
      BY <3>2, <3>3
  <2> HIDE DEF left, n
  <2>11. {left[i] : i \in 1..n} = Queued \ {j}
    BY <2>9, <2>10
  <2>12. QED
    BY <2>3, <2>4, <2>6, <2>8, <2>11 DEF Lists
<1>4. QED
  BY <1>2, <1>3

LEMMA TailEffect ==
  ASSUME ExportTypeOK, queue # <<>>
  PROVE  /\ Head(queue) \in Jobs /\ Head(queue) \in Queued
         /\ Len(queue) >= 1 /\ Lists(Tail(queue), Queued \ {Head(queue)}, Len(queue) - 1)
<1>1. /\ Len(queue) \in Nat /\ Queued \subseteq Jobs /\ queue \in Seq(Jobs)
      /\ \A i, k \in 1..Len(queue) : queue[i] = queue[k] => i = k
  BY QueueTyped DEF Lists
<1>2. /\ Tail(queue) \in Seq(Jobs) /\ Len(Tail(queue)) = Len(queue) - 1
      /\ \A i \in 1..(Len(queue) - 1) : Tail(queue)[i] = queue[i + 1]
      /\ Len(queue) >= 1 /\ Head(queue) = queue[1]
  BY <1>1, HeadTailProperties, EmptySeq
<1>3. Head(queue) \in Queued
  BY <1>1, <1>2 DEF Queued
<1>4. \A i, k \in 1..(Len(queue) - 1) : Tail(queue)[i] = Tail(queue)[k] => i = k
  <2>1. \A i \in 1..(Len(queue) - 1) : i + 1 \in 1..Len(queue)
    BY <1>1
  <2>2. QED
    BY <1>1, <1>2, <2>1
<1>5. {Tail(queue)[i] : i \in 1..(Len(queue) - 1)} = Queued \ {Head(queue)}
  <2>1. \A i \in 1..(Len(queue) - 1) : i + 1 \in 1..Len(queue) /\ i + 1 # 1 /\ 1 \in 1..Len(queue)
    BY <1>1
  <2>2. \A i \in 1..(Len(queue) - 1) : Tail(queue)[i] \in Queued \ {Head(queue)}
    BY <1>1, <1>2, <2>1 DEF Queued
  <2>3. ASSUME NEW k \in Queued \ {Head(queue)}
        PROVE  \E i \in 1..(Len(queue) - 1) : Tail(queue)[i] = k
    <3>1. PICK i \in 1..Len(queue) : queue[i] = k /\ i # 1
      BY <1>2 DEF Queued
    <3>2. i - 1 \in 1..(Len(queue) - 1) /\ (i - 1) + 1 = i
      BY <1>1, <3>1
    <3>3. QED
      BY <1>2, <3>1, <3>2
  <2>4. QED
    BY <2>2, <2>3
<1>6. QED
  BY <1>1, <1>2, <1>3, <1>4, <1>5 DEF Lists

LEMMA AppendEffect ==
  ASSUME ExportTypeOK, NEW j \in Jobs \ Queued
  PROVE  Lists(Append(queue, j), Queued \cup {j}, Len(queue) + 1)
<1> DEFINE new == Append(queue, j)
           n == Len(queue) + 1
<1>1. /\ Len(queue) \in Nat /\ Queued \subseteq Jobs /\ queue \in Seq(Jobs)
      /\ \A i, k \in 1..Len(queue) : queue[i] = queue[k] => i = k
      /\ \A i \in 1..Len(queue) : queue[i] \in Queued
  BY QueueTyped DEF Lists, Queued
<1>2. /\ new \in Seq(Jobs) /\ Len(new) = n /\ new[n] = j
      /\ \A i \in 1..Len(queue) : new[i] = queue[i]
  BY <1>1, AppendProperties
<1>3. \A i \in 1..n : i = n \/ i \in 1..Len(queue)
  BY <1>1
<1>4. n \in 1..n /\ \A i \in 1..Len(queue) : i \in 1..n
  BY <1>1
<1> HIDE DEF new, n
<1>5. \A i, k \in 1..n : new[i] = new[k] => i = k
  BY <1>1, <1>2, <1>3
<1>6. {new[i] : i \in 1..n} = Queued \cup {j}
  <2>1. \A i \in 1..n : new[i] \in Queued \cup {j}
    BY <1>1, <1>2, <1>3
  <2>2. \A k \in Queued : \E i \in 1..n : new[i] = k
    BY <1>2, <1>4 DEF Queued
  <2>3. QED
    BY <1>2, <1>4, <2>1, <2>2
<1>7. QED
  BY <1>2, <1>5, <1>6 DEF Lists, new, n

Statuses == {"absent", "queued", "running", "preview_ready", "ready"} \cup Terminal

LEMMA MutateEffect ==
  ASSUME ExportTypeOK, NEW j \in Jobs, NEW new \in Statuses, Mutate(j, new)
  PROVE  /\ status' \in [Jobs -> Statuses]
         /\ \A k \in Jobs \ {j} : status'[k] = status[k]
         /\ status'[j] = IF status[j] \in Terminal /\ new \notin Terminal THEN status[j] ELSE new
         /\ new \in Terminal => status'[j] = new
<1>1. /\ status \in [Jobs -> Statuses]
      /\ status' = [status EXCEPT ![j] =
                      IF status[j] \in Terminal /\ new \notin Terminal THEN status[j] ELSE new]
  BY DEF ExportTypeOK, Mutate, Statuses
<1>2. status[j] \in Statuses
  BY <1>1
<1>3. QED
  BY <1>1, <1>2

\* The queue after a step, when it is one of those the lemmas above describe.
LEMMA QueueAfter ==
  ASSUME NEW S, NEW n \in Nat, Lists(queue', S, n)
  PROVE  /\ Queued' = S /\ Len(queue') = n /\ queue' \in Seq(Jobs)
         /\ \A i, k \in 1..Len(queue') : queue'[i] = queue'[k] => i = k
BY DEF Lists, Queued

\* No step but Create makes a job unfinished that was not.
LEMMA LimitsStep ==
  ASSUME LimitsKept, status' \in [Jobs -> Statuses],
         \A j \in Jobs : status'[j] \in Unfinished => status[j] \in Unfinished,
         Pending' <= MaxPending
  PROVE  LimitsKept'
<1> SUFFICES ASSUME NEW o \in Owners
             PROVE  Cardinality(UnfinishedOf(o)') <= MaxPerOwner
  BY DEF LimitsKept
<1>1. UnfinishedOf(o)' \subseteq UnfinishedOf(o) /\ IsFiniteSet(UnfinishedOf(o))
  <2>1. UnfinishedOf(o) \subseteq Jobs
    BY DEF UnfinishedOf
  <2>2. IsFiniteSet(UnfinishedOf(o))
    BY <2>1, ExportAssumption, FS_Subset
  <2>3. QED
    BY <2>2 DEF UnfinishedOf
<1>2. /\ IsFiniteSet(UnfinishedOf(o)')
      /\ Cardinality(UnfinishedOf(o)') <= Cardinality(UnfinishedOf(o))
  BY <1>1, FS_Subset
<1>3. Cardinality(UnfinishedOf(o)) \in Nat /\ Cardinality(UnfinishedOf(o)') \in Nat
  BY <1>1, <1>2, FS_CardinalityType
<1>4. QED
  BY <1>2, <1>3, ExportAssumption DEF LimitsKept

\* The slots taken, which no step but a request of a client raises.
LEMMA PendingStep ==
  ASSUME ExportTypeOK, LimitsKept, NEW n \in Nat, Len(queue') = n,
         \/ n <= Len(queue) /\ (active' = active \/ active' = NoJob)
         \/ n + 1 <= Len(queue)
  PROVE  Pending' <= MaxPending
<1>1. Len(queue) \in Nat /\ MaxPending \in Nat
  BY QueueTyped, ExportAssumption
<1>2. QED
  BY <1>1 DEF LimitsKept, Pending

\* A job that is settled: its status is terminal from here on, its files are left
\* to whoever cleans, and it may leave the queue.
LEMMA SettledKeeps ==
  ASSUME ExportIInv, NEW j \in Jobs,
         status' \in [Jobs -> Statuses], \A k \in Jobs \ {j} : status'[k] = status[k],
         status'[j] \in Terminal, cleaning' \in {NoJob, j},
         tickets' \subseteq tickets, j \in tickets' => status'[j] = "expired",
         NEW n \in Nat, n <= Len(queue),
         Lists(queue', Queued, n) \/ Lists(queue', Queued \ {j}, n),
         UNCHANGED <<phase, lapsed, spool, active, activePhase, worker, verdict, service>>,
         UNCHANGED <<dropped, torn>>, faults' \in 0..MaxFaults
  PROVE  ExportIInv'
<1>1. /\ Len(queue') = n /\ queue' \in Seq(Jobs) /\ Queued \subseteq Jobs
      /\ \A i, k \in 1..Len(queue') : queue'[i] = queue'[k] => i = k
      /\ Queued' \subseteq Queued /\ Queued \subseteq Queued' \cup {j}
  <2>1. Queued' = Queued \/ Queued' = Queued \ {j}
    BY QueueAfter
  <2>2. QED
    BY <2>1, QueueAfter, QueueTyped DEF ExportIInv, ExportInv
<1>2. ExportTypeOK'
  BY <1>1 DEF ExportIInv, ExportInv, ExportTypeOK, Statuses
<1>3. LimitsKept'
  <2>1. \A k \in Jobs : status'[k] \in Unfinished => status[k] \in Unfinished
    BY DEF Unfinished, Terminal
  <2>2. QED
    BY <1>1, <2>1, LimitsStep, PendingStep DEF ExportIInv, ExportInv
<1>4. FilesMatch' /\ Attended'
  BY <1>1 DEF ExportIInv, ExportInv, FilesMatch, Attended, Terminal
<1>5. JobOfWorker'
  <2>1. queue = <<>> => queue' = <<>>
    BY <1>1, EmptySeq
  <2>2. QED
    BY <2>1 DEF ExportIInv, JobOfWorker
<1>6. WorkerTold'
  BY <1>1 DEF ExportIInv, WorkerTold, JobOfWorker, AtWork, Terminal
<1>7. QueueWaits' /\ CleansTerminal'
  BY <1>1 DEF ExportIInv, QueueWaits, CleansTerminal
<1>8. QED
  BY <1>2, <1>3, <1>4, <1>5, <1>6, <1>7 DEF ExportIInv, ExportInv

\* A request, or the thread, expires or cancels a job.
LEMMA WithdrawalKeeps ==
  ASSUME ExportIInv, NEW j \in Jobs,
         Touch(j) \/ Cancel(j) \/ ConsumeTicket(j) \/ Expire(j)
  PROVE  ExportIInv'
<1>1. /\ ExportTypeOK /\ faults \in 0..MaxFaults /\ Len(queue) \in Nat
      /\ Lists(queue, Queued, Len(queue)) /\ j # NoJob
  BY QueueTyped, ExportAssumption DEF ExportIInv, ExportInv, ExportTypeOK
<1>2. CASE /\ Mutate(j, "expired") /\ CleanUnlessActive(j) /\ tickets' \subseteq tickets
           /\ UNCHANGED <<phase, lapsed, spool, coordinatorVars, processVars, service, historyVars>>
  <2>1. /\ status' \in [Jobs -> Statuses] /\ \A k \in Jobs \ {j} : status'[k] = status[k]
        /\ status'[j] = "expired"
    BY <1>1, <1>2, MutateEffect DEF Statuses, Terminal
  <2>2. cleaning' \in {NoJob, j}
    BY <1>2 DEF CleanUnlessActive
  <2>3. /\ UNCHANGED <<phase, lapsed, spool, active, activePhase, worker, verdict, service>>
        /\ UNCHANGED <<dropped, torn, faults, queue>>
    BY <1>2 DEF coordinatorVars, processVars, historyVars
  <2>4. QED
    <3>1. Lists(queue', Queued, Len(queue)) /\ Len(queue) <= Len(queue) /\ faults' \in 0..MaxFaults
      BY <1>1, <2>3
    <3>2. /\ status'[j] \in Terminal /\ tickets' \subseteq tickets
          /\ UNCHANGED <<dropped, torn>>
      BY <1>2, <2>1, <2>3 DEF Terminal
    <3>3. QED
      BY <1>1, <2>1, <2>2, <2>3, <3>1, <3>2, SettledKeeps
<1>3. CASE Cancel(j)
  <2>1. /\ status' \in [Jobs -> Statuses] /\ \A k \in Jobs \ {j} : status'[k] = status[k]
        /\ status'[j] \in Terminal
    BY <1>1, <1>3, MutateEffect DEF Statuses, Terminal, Cancel
  <2>2. cleaning' \in {NoJob, j} /\ tickets' \subseteq tickets /\ j \notin tickets'
    BY <1>3 DEF Cancel, CleanUnlessActive
  <2>3. /\ UNCHANGED <<phase, lapsed, spool, active, activePhase, worker, verdict, service>>
        /\ UNCHANGED <<dropped, torn, faults>>
    BY <1>3 DEF Cancel, processVars, historyVars
  <2>4. PICK n \in Nat : n <= Len(queue) /\ Lists(queue', Queued \ {j}, n)
    BY <1>1, <1>3, WithoutEffect DEF Cancel
  <2>5. QED
    BY <1>1, <2>1, <2>2, <2>3, <2>4, SettledKeeps
<1>4. CASE ConsumeTicket(j) /\ UNCHANGED <<status, cleaning>>
  <2>1. /\ tickets' \subseteq tickets
        /\ UNCHANGED <<status, cleaning, phase, lapsed, spool, active, activePhase, worker, verdict,
                       service, dropped, torn, faults, queue>>
    BY <1>4 DEF ConsumeTicket, coordinatorVars, processVars, historyVars
  <2>2. Queued' = Queued /\ LimitsKept'
    BY <2>1 DEF Queued, LimitsKept, Pending, UnfinishedOf, ExportIInv, ExportInv
  <2>3. ExportTypeOK' /\ FilesMatch' /\ Attended'
    BY <2>1, <2>2 DEF ExportIInv, ExportInv, ExportTypeOK, FilesMatch, Attended
  <2>4. JobOfWorker' /\ WorkerTold' /\ QueueWaits' /\ CleansTerminal'
    BY <2>1, <2>2 DEF ExportIInv, JobOfWorker, WorkerTold, QueueWaits, CleansTerminal
  <2>5. QED
    BY <2>2, <2>3, <2>4 DEF ExportIInv, ExportInv
<1>5. QED
  BY <1>2, <1>3, <1>4 DEF Touch, ConsumeTicket, Expire, manifestVars

\* What is known of the active job while the lock is free for a request.
LEMMA ActiveKnown ==
  ASSUME ExportIInv, service = "up"
  PROVE  /\ active # NoJob => worker # "none" /\ status[active] # "absent"
         /\ active # NoJob /\ status[active] = "preview_ready" => worker = "done"
         /\ active # NoJob /\ status[active] = "ready" => worker = "done"
         /\ worker = "none" => active = NoJob
         /\ active \in Jobs \cup {NoJob}
BY DEF ExportIInv, ExportInv, ExportTypeOK, JobOfWorker, WorkerTold, AtWork, Terminal

LEMMA CreateKeeps ==
  ASSUME ExportIInv, NEW j \in Jobs, Create(j)
  PROVE  ExportIInv'
<1>1. /\ ExportTypeOK /\ j # NoJob /\ service = "up" /\ cleaning = NoJob
      /\ j \notin Queued /\ status[j] \in {"absent"} \cup Terminal /\ j # active
      /\ Pending < MaxPending /\ Cardinality(UnfinishedOf(OwnerOf[j])) < MaxPerOwner
  BY ExportAssumption, ActiveKnown DEF Create, FreeRecord, Unlocked, ExportIInv, ExportInv
<1>2. /\ status' \in [Jobs -> Statuses] /\ \A k \in Jobs \ {j} : status'[k] = status[k]
      /\ phase' \in [Jobs -> {"preview", "render"}] /\ \A k \in Jobs \ {j} : phase'[k] = phase[k]
      /\ spool' \in [Jobs -> {"none", "freezing", "source", "writing", "artifact"}]
      /\ \A k \in Jobs \ {j} : spool'[k] = spool[k]
      /\ status'[j] = "queued" /\ phase'[j] = "preview" /\ spool'[j] = "none"
  BY <1>1 DEF Create, ExportTypeOK, Statuses
<1>3. /\ lapsed' = lapsed \ {j} /\ tickets' = tickets \ {j} /\ queue' = Append(queue, j)
      /\ dropped' = dropped \ {j} /\ torn' = torn \ {j}
      /\ UNCHANGED <<active, activePhase, worker, verdict, cleaning, service, faults>>
  BY DEF Create, processVars
<1>4. /\ Queued' = Queued \cup {j} /\ Len(queue') = Len(queue) + 1 /\ queue' \in Seq(Jobs)
      /\ \A i, k \in 1..Len(queue') : queue'[i] = queue'[k] => i = k
      /\ Len(queue) \in Nat
  <2>1. Len(queue) + 1 \in Nat
    BY <1>1, QueueTyped
  <2>2. Lists(queue', Queued \cup {j}, Len(queue) + 1)
    BY <1>1, <1>3, AppendEffect
  <2>3. QED
    BY <1>1, <2>1, <2>2, QueueAfter, QueueTyped
<1>5. ExportTypeOK'
  BY <1>1, <1>2, <1>3, <1>4 DEF ExportTypeOK, Statuses
<1>6. FilesMatch' /\ Attended'
  BY <1>1, <1>2, <1>3, <1>4 DEF ExportIInv, ExportInv, FilesMatch, Attended
<1>7. LimitsKept'
  <2>1. Pending' <= MaxPending
    BY <1>1, <1>3, <1>4, ExportAssumption DEF Pending
  <2>2. ASSUME NEW o \in Owners
        PROVE  Cardinality(UnfinishedOf(o)') <= MaxPerOwner
    <3>1. UnfinishedOf(o) \subseteq Jobs /\ IsFiniteSet(UnfinishedOf(o))
      <4>1. UnfinishedOf(o) \subseteq Jobs
        BY DEF UnfinishedOf
      <4>2. QED
        BY <4>1, ExportAssumption, FS_Subset
    <3>2. /\ Cardinality(UnfinishedOf(o)) \in Nat /\ MaxPerOwner \in Nat
          /\ Cardinality(UnfinishedOf(o)) <= MaxPerOwner
      BY <3>1, FS_CardinalityType, ExportAssumption DEF ExportIInv, ExportInv, LimitsKept
    <3>3. CASE o # OwnerOf[j]
      <4>1. UnfinishedOf(o)' = UnfinishedOf(o)
        BY <1>2, <3>3 DEF UnfinishedOf
      <4>2. QED
        BY <3>2, <4>1
    <3>4. CASE o = OwnerOf[j]
      <4>1. /\ UnfinishedOf(o)' = UnfinishedOf(o) \cup {j} /\ j \notin UnfinishedOf(o)
        BY <1>1, <1>2, <3>4 DEF UnfinishedOf, Unfinished, Terminal
      <4>2. Cardinality(UnfinishedOf(o)') = Cardinality(UnfinishedOf(o)) + 1
        BY <3>1, <4>1, FS_AddElement
      <4>3. QED
        BY <1>1, <3>2, <3>4, <4>2
    <3>5. QED
      BY <3>3, <3>4
  <2>3. QED
    BY <2>1, <2>2 DEF LimitsKept
<1>8. JobOfWorker' /\ CleansTerminal'
  BY <1>1, <1>3 DEF ExportIInv, JobOfWorker, CleansTerminal
<1>9. WorkerTold'
  BY <1>1, <1>2, <1>3, <1>4 DEF ExportIInv, WorkerTold, JobOfWorker, AtWork
<1>10. QueueWaits'
  BY <1>1, <1>2, <1>3, <1>4, QueueTyped DEF ExportIInv, QueueWaits
<1>11. QED
  BY <1>5, <1>6, <1>7, <1>8, <1>9, <1>10 DEF ExportIInv, ExportInv

LEMMA ConfirmKeeps ==
  ASSUME ExportIInv, NEW j \in Jobs, Confirm(j)
  PROVE  ExportIInv'
<1>1. /\ ExportTypeOK /\ j # NoJob /\ service = "up" /\ cleaning = NoJob
      /\ status[j] = "preview_ready" /\ j \notin Queued
      /\ Pending < MaxPending /\ (j = active => worker = "done") /\ spool[j] = "source"
  BY ExportAssumption, ActiveKnown
     DEF Confirm, Unlocked, ExportIInv, ExportInv, QueueWaits, Terminal, FilesMatch
<1>2. /\ status' \in [Jobs -> Statuses] /\ \A k \in Jobs \ {j} : status'[k] = status[k]
      /\ status'[j] = "queued"
  BY <1>1, MutateEffect DEF Confirm, Statuses, Terminal
<1>3. /\ phase' \in [Jobs -> {"preview", "render"}] /\ \A k \in Jobs \ {j} : phase'[k] = phase[k]
      /\ phase'[j] = "render"
  BY <1>1 DEF Confirm, ExportTypeOK
<1>4. /\ queue' = Append(queue, j)
      /\ UNCHANGED <<lapsed, spool, tickets, active, activePhase, worker, verdict,
                     cleaning, service, dropped, torn, faults>>
  BY DEF Confirm, processVars, historyVars
<1>5. /\ Queued' = Queued \cup {j} /\ Len(queue') = Len(queue) + 1 /\ queue' \in Seq(Jobs)
      /\ \A i, k \in 1..Len(queue') : queue'[i] = queue'[k] => i = k
      /\ Len(queue) \in Nat
  <2>1. Len(queue) + 1 \in Nat
    BY <1>1, QueueTyped
  <2>2. Lists(queue', Queued \cup {j}, Len(queue) + 1)
    BY <1>1, <1>4, AppendEffect
  <2>3. QED
    BY <1>1, <2>1, <2>2, QueueAfter, QueueTyped
<1>6. ExportTypeOK'
  BY <1>1, <1>2, <1>3, <1>4, <1>5 DEF ExportTypeOK, Statuses
<1>7. FilesMatch' /\ Attended'
  BY <1>1, <1>2, <1>3, <1>4, <1>5 DEF ExportIInv, ExportInv, FilesMatch, Attended
<1>8. LimitsKept'
  <2>1. Pending' <= MaxPending
    BY <1>1, <1>4, <1>5, ExportAssumption DEF Pending
  <2>2. QED
    BY <1>1, <1>2, <2>1, LimitsStep DEF ExportIInv, ExportInv, Unfinished
<1>9. JobOfWorker' /\ CleansTerminal'
  BY <1>1, <1>4 DEF ExportIInv, JobOfWorker, CleansTerminal
<1>10. WorkerTold'
  BY <1>1, <1>2, <1>3, <1>4, <1>5 DEF ExportIInv, WorkerTold, JobOfWorker, AtWork
<1>11. QueueWaits'
  BY <1>1, <1>2, <1>4, <1>5, QueueTyped DEF ExportIInv, QueueWaits
<1>12. QED
  BY <1>6, <1>7, <1>8, <1>9, <1>10, <1>11 DEF ExportIInv, ExportInv

\* Steps that touch neither the queue nor the worker's job.
LEMMA BesidesKeep ==
  ASSUME ExportIInv, NEW j \in Jobs, Lapse(j) \/ IssueTicket(j) \/ RemoveExpired(j)
  PROVE  ExportIInv'
<1>1. /\ ExportTypeOK /\ (status[j] = "ready" /\ j = active /\ service = "up" => worker = "done")
      /\ j # NoJob
  BY ActiveKnown, ExportAssumption DEF ExportIInv, ExportInv
<1>2. /\ UNCHANGED <<spool, queue, active, activePhase, worker, verdict, cleaning, service, faults>>
      /\ Queued' = Queued /\ Pending' = Pending
  BY DEF Lapse, IssueTicket, RemoveExpired, coordinatorVars, processVars, historyVars,
     Queued, Pending
<1>3. CASE Lapse(j) \/ IssueTicket(j)
  <2>1. /\ UNCHANGED <<status, phase, dropped, torn>> /\ lapsed' \subseteq Jobs
        /\ \/ tickets' = tickets
           \/ tickets' = tickets \cup {j} /\ status[j] = "ready" /\ service = "up"
    BY <1>1, <1>3 DEF Lapse, IssueTicket, manifestVars, historyVars, ExportTypeOK
  <2>2. LimitsKept'
    BY <1>2, <2>1 DEF ExportIInv, ExportInv, LimitsKept, UnfinishedOf
  <2>3. ExportTypeOK' /\ FilesMatch' /\ Attended'
    BY <1>2, <2>1 DEF ExportIInv, ExportInv, ExportTypeOK, FilesMatch, Attended
  <2>4. JobOfWorker' /\ QueueWaits' /\ CleansTerminal'
    BY <1>2, <2>1 DEF ExportIInv, JobOfWorker, QueueWaits, CleansTerminal
  <2>5. WorkerTold'
    BY <1>1, <1>2, <2>1 DEF ExportIInv, WorkerTold, AtWork, Terminal
  <2>6. QED
    BY <2>2, <2>3, <2>4, <2>5 DEF ExportIInv, ExportInv
<1>4. CASE RemoveExpired(j)
  <2>1. /\ status[j] = "expired" /\ j # active /\ cleaning = NoJob
        /\ lapsed' = lapsed \ {j} /\ dropped' = dropped \ {j} /\ torn' = torn \ {j}
        /\ tickets' = tickets
    BY <1>4 DEF RemoveExpired, Unlocked
  <2>2. /\ status' \in [Jobs -> Statuses] /\ \A k \in Jobs \ {j} : status'[k] = status[k]
        /\ status'[j] = "absent"
        /\ phase' \in [Jobs -> {"preview", "render"}] /\ \A k \in Jobs \ {j} : phase'[k] = phase[k]
    BY <1>1, <1>4 DEF RemoveExpired, ExportTypeOK, Statuses
  <2>3. LimitsKept'
    <3>1. \A k \in Jobs : status'[k] \in Unfinished => status[k] \in Unfinished
      BY <2>2 DEF Unfinished
    <3>2. QED
      BY <1>2, <2>2, <3>1, LimitsStep DEF ExportIInv, ExportInv, LimitsKept
  <2>4. ExportTypeOK'
    BY <1>1, <1>2, <2>1, <2>2 DEF ExportTypeOK, Statuses
  <2>5. FilesMatch' /\ Attended'
    BY <1>2, <2>1, <2>2 DEF ExportIInv, ExportInv, FilesMatch, Attended
  <2>6. JobOfWorker' /\ QueueWaits' /\ CleansTerminal'
    BY <1>1, <1>2, <2>1, <2>2, QueueTyped DEF ExportIInv, JobOfWorker, QueueWaits, CleansTerminal
  <2>7. WorkerTold'
    BY <1>2, <2>1, <2>2 DEF ExportIInv, WorkerTold, JobOfWorker, AtWork
  <2>8. QED
    BY <2>3, <2>4, <2>5, <2>6, <2>7 DEF ExportIInv, ExportInv
<1>5. QED
  BY <1>3, <1>4

-----------------------------------------------------------------------------
(* The coordinator thread.                                                 *)

\* What is launched leaves the queue, whatever comes of it.
LEMMA HeadKnown ==
  ASSUME ExportIInv, service = "up", worker = "none", queue # <<>>, queue' = Tail(queue)
  PROVE  /\ active = NoJob /\ Head(queue) \in Jobs /\ Head(queue) \in Queued
         /\ Len(queue) - 1 \in Nat /\ Len(queue) - 1 <= Len(queue)
         /\ Lists(queue', Queued \ {Head(queue)}, Len(queue) - 1)
         /\ Queued' = Queued \ {Head(queue)} /\ Len(queue') = Len(queue) - 1
         /\ queue' \in Seq(Jobs)
         /\ \A i, k \in 1..Len(queue') : queue'[i] = queue'[k] => i = k
         /\ status[Head(queue)] \in {"queued", "absent"} \cup Terminal
<1>1. ExportTypeOK /\ active = NoJob
  BY ActiveKnown DEF ExportIInv, ExportInv
<1>2. /\ Head(queue) \in Jobs /\ Head(queue) \in Queued
      /\ Len(queue) \in Nat /\ Len(queue) >= 1
      /\ Lists(queue', Queued \ {Head(queue)}, Len(queue) - 1)
  BY <1>1, TailEffect, QueueTyped
<1>3. Len(queue) - 1 \in Nat /\ Len(queue) - 1 <= Len(queue)
  BY <1>2
<1>4. QED
  BY <1>1, <1>2, <1>3, QueueAfter DEF ExportIInv, QueueWaits

LEMMA LaunchKeeps ==
  ASSUME ExportIInv, Launch
  PROVE  ExportIInv'
<1> DEFINE j == Head(queue)
<1>1. /\ ExportTypeOK /\ service = "up" /\ cleaning = NoJob /\ worker = "none"
      /\ queue # <<>> /\ queue' = Tail(queue)
      /\ UNCHANGED <<phase, lapsed, spool, tickets, verdict, cleaning, service, dropped, torn, faults>>
  BY DEF Launch, Unlocked, ExportIInv, ExportInv, historyVars
<1>2. /\ active = NoJob /\ j \in Jobs /\ j \in Queued
      /\ Queued' = Queued \ {j} /\ Len(queue') = Len(queue) - 1 /\ Len(queue) - 1 \in Nat
      /\ queue' \in Seq(Jobs)
      /\ \A i, k \in 1..Len(queue') : queue'[i] = queue'[k] => i = k
  BY <1>1, HeadKnown
<1>3. Len(queue) \in Nat /\ j # NoJob /\ Queued \subseteq Jobs /\ MaxPending \in Nat
  BY <1>1, <1>2, QueueTyped, ExportAssumption
<1>4. CASE status[j] = "queued"
  <2>1. Mutate(j, "running") /\ active' = j /\ activePhase' = phase[j] /\ worker' = "started"
    BY <1>4 DEF Launch
  <2> HIDE DEF j
  <2>2. /\ status' \in [Jobs -> Statuses] /\ \A k \in Jobs \ {j} : status'[k] = status[k]
        /\ status'[j] = "running"
    BY <1>1, <1>2, <1>4, <2>1, MutateEffect DEF Statuses, Terminal
  <2>3. ExportTypeOK'
    BY <1>1, <1>2, <2>1, <2>2 DEF ExportTypeOK, Statuses
  <2>4. LimitsKept'
    <3>1. Pending' <= MaxPending
      BY <1>2, <1>3, <2>1 DEF Pending, ExportIInv, ExportInv, LimitsKept
    <3>2. \A k \in Jobs : status'[k] \in Unfinished => status[k] \in Unfinished
      BY <1>4, <2>2 DEF Unfinished
    <3>3. QED
      BY <2>2, <3>1, <3>2, LimitsStep DEF ExportIInv, ExportInv
  <2>5. FilesMatch' /\ Attended'
    BY <1>1, <1>2, <1>4, <2>1, <2>2, ExportAssumption
       DEF ExportIInv, ExportInv, FilesMatch, Attended, Terminal
  <2>6. JobOfWorker' /\ CleansTerminal'
    BY <1>1, <1>2, <2>1 DEF JobOfWorker, CleansTerminal
  <2>7. WorkerTold'
    <3>1. j \notin tickets
      BY <1>2, <1>4 DEF ExportIInv, ExportInv, FilesMatch
    <3>2. QED
      BY <1>1, <2>1, <2>2, <3>1 DEF WorkerTold, AtWork
  <2>8. QueueWaits'
    BY <1>2, <1>3, <2>1, <2>2 DEF ExportIInv, QueueWaits
  <2>9. QED
    BY <2>3, <2>4, <2>5, <2>6, <2>7, <2>8 DEF ExportIInv, ExportInv
<1>5. CASE status[j] # "queued"
  <2>1. UNCHANGED <<status, active, activePhase, worker>>
    BY <1>5 DEF Launch
  <2> HIDE DEF j
  <2>2. ExportTypeOK'
    BY <1>1, <1>2, <2>1 DEF ExportTypeOK, Statuses
  <2>3. LimitsKept'
    <3>1. Pending' <= MaxPending
      BY <1>2, <1>3, <2>1 DEF Pending, ExportIInv, ExportInv, LimitsKept
    <3>2. QED
      BY <2>1, <3>1 DEF ExportIInv, ExportInv, LimitsKept, UnfinishedOf
  <2>4. FilesMatch' /\ Attended'
    BY <1>1, <1>2, <1>5, <2>1 DEF ExportIInv, ExportInv, FilesMatch, Attended
  <2>5. JobOfWorker' /\ CleansTerminal' /\ WorkerTold' /\ QueueWaits'
    BY <1>1, <1>2, <1>3, <2>1 DEF ExportIInv, JobOfWorker, CleansTerminal, WorkerTold, QueueWaits, AtWork
  <2>6. QED
    BY <2>2, <2>3, <2>4, <2>5 DEF ExportIInv, ExportInv
<1>6. QED
  BY <1>4, <1>5

LEMMA LaunchFailureKeeps ==
  ASSUME ExportIInv, LaunchRefused \/ LaunchRaises
  PROVE  ExportIInv'
<1> DEFINE j == Head(queue)
<1>1. /\ ExportTypeOK /\ service = "up" /\ cleaning = NoJob /\ worker = "none"
      /\ queue # <<>> /\ queue' = Tail(queue) /\ status[j] = "queued"
      /\ faults < MaxFaults /\ faults' = faults + 1
      /\ UNCHANGED <<phase, lapsed, spool, tickets, active, activePhase, worker, verdict, service, torn>>
  BY DEF LaunchRefused, LaunchRaises, Unlocked, ExportIInv, ExportInv, processVars, manifestVars
<1>2. /\ active = NoJob /\ j \in Jobs /\ j \in Queued
      /\ Len(queue) - 1 \in Nat /\ Len(queue) - 1 <= Len(queue)
      /\ Lists(queue', Queued \ {j}, Len(queue) - 1)
      /\ Queued' = Queued \ {j} /\ Len(queue') = Len(queue) - 1 /\ queue' \in Seq(Jobs)
      /\ \A i, k \in 1..Len(queue') : queue'[i] = queue'[k] => i = k
  BY <1>1, HeadKnown
<1>3. faults' \in 0..MaxFaults /\ j \notin tickets
  BY <1>1, <1>2, ExportAssumption DEF ExportTypeOK, ExportIInv, ExportInv, FilesMatch
<1>4. CASE LaunchRefused
  <2>1. Mutate(j, "failed") /\ cleaning' = j /\ dropped' = dropped
    BY <1>4 DEF LaunchRefused
  <2> HIDE DEF j
  <2>2. /\ status' \in [Jobs -> Statuses] /\ \A k \in Jobs \ {j} : status'[k] = status[k]
        /\ status'[j] \in Terminal
    BY <1>1, <1>2, <2>1, MutateEffect DEF Statuses, Terminal
  <2>3. QED
    BY <1>1, <1>2, <1>3, <2>1, <2>2, SettledKeeps
<1>5. CASE LaunchRaises
  <2>1. UNCHANGED <<status, cleaning>> /\ dropped' = dropped \cup {j}
    BY <1>5 DEF LaunchRaises, manifestVars
  <2> HIDE DEF j
  <2>2. ExportTypeOK'
    BY <1>1, <1>2, <1>3, <2>1 DEF ExportTypeOK
  <2>3. LimitsKept'
    <3>1. Pending' <= MaxPending
      BY <1>1, <1>2, PendingStep DEF ExportIInv, ExportInv
    <3>2. QED
      BY <2>1, <3>1 DEF ExportIInv, ExportInv, LimitsKept, UnfinishedOf
  <2>4. FilesMatch' /\ Attended'
    BY <1>1, <1>2, <2>1 DEF ExportIInv, ExportInv, FilesMatch, Attended
  <2>5. JobOfWorker' /\ CleansTerminal' /\ WorkerTold' /\ QueueWaits'
    BY <1>1, <1>2, <2>1 DEF ExportIInv, JobOfWorker, CleansTerminal, WorkerTold, QueueWaits, AtWork
  <2>6. QED
    BY <2>2, <2>3, <2>4, <2>5 DEF ExportIInv, ExportInv
<1>6. QED
  BY <1>4, <1>5

\* A worker that is reaped without a result leaves no job running.
LEMMA ReapKeeps ==
  ASSUME ExportIInv, Reap
  PROVE  ExportIInv'
<1> DEFINE j == active
<1>1. /\ ExportTypeOK /\ service = "up" /\ cleaning = NoJob /\ worker \in {"done", "gone"}
      /\ active' = NoJob /\ worker' = "none"
      /\ UNCHANGED <<phase, lapsed, spool, tickets, queue, activePhase, verdict, service,
                     dropped, torn, faults>>
      /\ active \in Jobs
  BY DEF Reap, Unlocked, ExportIInv, ExportInv, historyVars, JobOfWorker
<1>2. /\ status' \in [Jobs -> Statuses] /\ \A k \in Jobs \ {active} : status'[k] = status[k]
      /\ status'[active] # "running"
      /\ status'[active] = status[active]
         \/ /\ status'[active] = "failed" /\ status[active] \in {"running", "queued"}
      /\ status'[active] = status[active] \/ active \notin Queued
      /\ cleaning' = NoJob \/ (cleaning' = active /\ status'[active] \in Terminal)
  <2>1. CASE Interrupted
    <3>1. Mutate(active, "failed") /\ cleaning' = active
      BY <2>1 DEF Reap
    <3>2. /\ status' \in [Jobs -> Statuses] /\ \A k \in Jobs \ {active} : status'[k] = status[k]
          /\ status'[active] = "failed"
      BY <1>1, <3>1, MutateEffect DEF Statuses, Terminal
    <3>3. QED
      BY <2>1, <3>1, <3>2 DEF Interrupted, Terminal
  <2>2. CASE ~Interrupted
    <3>1. /\ status' = status
          /\ cleaning' = NoJob \/ (cleaning' = active /\ status[active] \in Terminal)
      BY <2>2 DEF Reap
    <3>2. status \in [Jobs -> Statuses]
      BY <1>1 DEF ExportTypeOK, Statuses
    <3>3. status[active] # "running"
      BY <1>1, <2>2 DEF Interrupted, ExportIInv, WorkerTold, QueueWaits, Terminal
    <3>4. QED
      BY <3>1, <3>2, <3>3
  <2>3. QED
    BY <2>1, <2>2
<1>3. Queued' = Queued /\ Queued \subseteq Jobs /\ Len(queue) \in Nat
  BY <1>1, QueueTyped DEF Queued
<1>4. ExportTypeOK'
  BY <1>1, <1>2 DEF ExportTypeOK, Statuses
<1>5. LimitsKept'
  <2>1. Pending' <= MaxPending
    BY <1>1, <1>3, PendingStep DEF ExportIInv, ExportInv
  <2>2. \A k \in Jobs : status'[k] \in Unfinished => status[k] \in Unfinished
    BY <1>2 DEF Unfinished
  <2>3. QED
    BY <1>2, <2>1, <2>2, LimitsStep DEF ExportIInv, ExportInv
<1>6. FilesMatch' /\ Attended'
  BY <1>1, <1>2, <1>3 DEF ExportIInv, ExportInv, FilesMatch, Attended
<1>7. JobOfWorker' /\ WorkerTold' /\ CleansTerminal'
  BY <1>1, <1>2 DEF ExportIInv, JobOfWorker, WorkerTold, CleansTerminal, AtWork
<1>8. QueueWaits'
  BY <1>1, <1>2, <1>3, ExportAssumption DEF ExportIInv, QueueWaits, Terminal
<1>9. QED
  BY <1>4, <1>5, <1>6, <1>7, <1>8 DEF ExportIInv, ExportInv

\* The files deleted are those of a terminal job.
LEMMA CleanKeeps ==
  ASSUME ExportIInv, CleanFiles
  PROVE  ExportIInv'
<1>1. /\ ExportTypeOK /\ cleaning \in Jobs /\ status[cleaning] \in Terminal /\ cleaning' = NoJob
      /\ UNCHANGED <<status, phase, lapsed, tickets, queue, active, activePhase, worker, verdict,
                     service, dropped, torn, faults>>
  BY DEF CleanFiles, ExportIInv, ExportInv, ExportTypeOK, CleansTerminal, manifestVars,
     coordinatorVars, processVars, historyVars
<1>2. /\ spool' \in [Jobs -> {"none", "freezing", "source", "writing", "artifact"}]
      /\ \A k \in Jobs : status[k] \notin Terminal => spool'[k] = spool[k]
  BY <1>1 DEF CleanFiles, ExportTypeOK
<1>3. Queued' = Queued /\ Pending' = Pending /\ \A o : UnfinishedOf(o)' = UnfinishedOf(o)
  BY <1>1 DEF Queued, Pending, UnfinishedOf
<1>4. ExportTypeOK' /\ LimitsKept'
  BY <1>1, <1>2, <1>3 DEF ExportIInv, ExportInv, ExportTypeOK, LimitsKept
<1>5. FilesMatch' /\ Attended'
  BY <1>1, <1>2, <1>3 DEF ExportIInv, ExportInv, FilesMatch, Attended, Terminal
<1>6. JobOfWorker' /\ QueueWaits' /\ CleansTerminal'
  BY <1>1, <1>3 DEF ExportIInv, JobOfWorker, QueueWaits, CleansTerminal
<1>7. WorkerTold'
  BY <1>1, <1>2, <1>3 DEF ExportIInv, WorkerTold, JobOfWorker, Terminal
<1>8. QED
  BY <1>4, <1>5, <1>6, <1>7 DEF ExportIInv, ExportInv

-----------------------------------------------------------------------------
(* The worker process, and the service.                                    *)

\* What a worker writes: its own state, and the status and files of its job.
LEMMA WorkerStepKeeps ==
  ASSUME ExportIInv, worker # "none", worker' # "none",
         UNCHANGED <<phase, lapsed, tickets, queue, active, activePhase, cleaning, service,
                     dropped, torn>>,
         worker' \in AtWork \cup {"cleaning", "done", "gone"}, verdict' \in Terminal,
         faults' \in 0..MaxFaults,
         \A j \in Jobs \ {active} : status'[j] = status[j] /\ spool'[j] = spool[j],
         status' \in [Jobs -> Statuses],
         spool' \in [Jobs -> {"none", "freezing", "source", "writing", "artifact"}],
         \* the status of the active job
         worker \in AtWork \cup {"cleaning"},
         status[active] \in Terminal => status'[active] \in Terminal,
         worker' \in AtWork \cup {"gone"} => status'[active] = status[active],
         worker' = "cleaning" => status'[active] \in Terminal,
         worker' = "done" => status'[active] \in {"preview_ready", "ready"} \cup Terminal,
         worker = "cleaning" => worker' = "gone",
         \* its files
         status'[active] = "ready" => spool'[active] = "artifact",
         status'[active] = "preview_ready" => spool'[active] = "source",
         worker' = "finishing" /\ status'[active] = "running" =>
           spool'[active] = IF activePhase = "preview" THEN "source" ELSE "artifact"
  PROVE  ExportIInv'
<1>1. /\ ExportTypeOK /\ active \in Jobs /\ service = "up" /\ active \notin Queued
      /\ status[active] \in {"running"} \cup Terminal /\ active \notin tickets
      /\ Queued \subseteq Jobs /\ Len(queue) \in Nat
  BY QueueTyped DEF ExportIInv, ExportInv, JobOfWorker, WorkerTold, QueueWaits, AtWork
<1>2. Queued' = Queued
  BY DEF Queued
<1>3. ExportTypeOK'
  BY <1>1 DEF ExportTypeOK, Statuses, AtWork
<1>4. status'[active] \notin {"absent", "queued"} /\ (status'[active] = "running" => status[active] = "running")
  BY <1>1 DEF AtWork, Terminal
<1>5. LimitsKept'
  <2>1. Pending' <= MaxPending
    BY <1>1, PendingStep DEF ExportIInv, ExportInv
  <2>2. \A j \in Jobs : status'[j] \in Unfinished => status[j] \in Unfinished
    <3>1. status'[active] \in Unfinished => status[active] \in Unfinished
      BY <1>1 DEF Unfinished, Terminal
    <3>2. QED
      BY <3>1
  <2>3. QED
    BY <2>1, <2>2, LimitsStep DEF ExportIInv, ExportInv
<1>6. FilesMatch' /\ Attended'
  <2>1. FilesMatch'
    BY <1>1, <1>4 DEF ExportIInv, ExportInv, FilesMatch
  <2>2. Attended'
    BY <1>1, <1>2, <1>4 DEF ExportIInv, ExportInv, Attended
  <2>3. QED
    BY <2>1, <2>2
<1>7. JobOfWorker'
  BY DEF ExportIInv, JobOfWorker
<1>8. WorkerTold'
  BY <1>1, <1>2, <1>4 DEF ExportIInv, WorkerTold, AtWork, Terminal
<1>9. QueueWaits' /\ CleansTerminal'
  BY <1>1, <1>2 DEF ExportIInv, QueueWaits, CleansTerminal, ExportInv, ExportTypeOK
<1>10. QED
  BY <1>3, <1>5, <1>6, <1>7, <1>8, <1>9 DEF ExportIInv, ExportInv

LEMMA WorkerKeeps ==
  ASSUME ExportIInv, Worker \/ WorkerKilled
  PROVE  ExportIInv'
<1>1. /\ ExportTypeOK /\ worker # "none" /\ active \in Jobs
      /\ worker \in AtWork \cup {"cleaning"} /\ status \in [Jobs -> Statuses]
      /\ spool \in [Jobs -> {"none", "freezing", "source", "writing", "artifact"}]
      /\ verdict \in Terminal /\ faults \in 0..MaxFaults /\ MaxFaults \in Nat
  BY ExportAssumption
     DEF Worker, WorkerKilled, WorkerBegins, WorkerFinishes, WorkerCommits, WorkerFails, WorkerReports,
         WorkerCleans, ExportIInv, ExportInv, ExportTypeOK, JobOfWorker, AtWork, Statuses
<1>2. /\ UNCHANGED <<phase, lapsed, tickets, queue, active, activePhase, cleaning, service,
                     dropped, torn>>
      /\ worker' \in AtWork \cup {"cleaning", "done", "gone"} /\ worker' # "none"
      /\ worker = "cleaning" => worker' = "gone"
      /\ faults' \in 0..MaxFaults
  <2>1. CASE WorkerKilled
    BY <1>1, <2>1 DEF WorkerKilled, manifestVars, coordinatorVars, AtWork
  <2>2. CASE Worker
    BY <1>1, <2>2 DEF Worker, WorkerBegins, WorkerFinishes, WorkerCommits, WorkerFails,
       WorkerReports, WorkerCleans, manifestVars, coordinatorVars, historyVars, AtWork
  <2>3. QED
    BY <2>1, <2>2
<1>3. /\ status[active] \in {"running"} \cup Terminal
      /\ worker = "cleaning" => status[active] \in Terminal
      /\ worker = "finishing" /\ status[active] = "running" =>
           spool[active] = IF activePhase = "preview" THEN "source" ELSE "artifact"
  BY <1>1 DEF ExportIInv, WorkerTold, AtWork
<1> DEFINE Goal ==
      /\ verdict' \in Terminal
      /\ \A j \in Jobs \ {active} : status'[j] = status[j] /\ spool'[j] = spool[j]
      /\ status' \in [Jobs -> Statuses]
      /\ spool' \in [Jobs -> {"none", "freezing", "source", "writing", "artifact"}]
      /\ status[active] \in Terminal => status'[active] \in Terminal
      /\ worker' \in AtWork \cup {"gone"} => status'[active] = status[active]
      /\ worker' = "cleaning" => status'[active] \in Terminal
      /\ worker' = "done" => status'[active] \in {"preview_ready", "ready"} \cup Terminal
      /\ status'[active] = "ready" => spool'[active] = "artifact"
      /\ status'[active] = "preview_ready" => spool'[active] = "source"
      /\ worker' = "finishing" /\ status'[active] = "running" =>
           spool'[active] = IF activePhase = "preview" THEN "source" ELSE "artifact"
<1>4. CASE WorkerBegins \/ WorkerFinishes \/ WorkerCleans
  <2>1. /\ UNCHANGED <<status, verdict>>
        /\ \/ worker' = "working"
           \/ worker' = "gone"
           \/ /\ worker' = "finishing"
              /\ spool'[active] = IF activePhase = "preview" THEN "source" ELSE "artifact"
        /\ \A j \in Jobs \ {active} : spool'[j] = spool[j]
        /\ spool' \in [Jobs -> {"none", "freezing", "source", "writing", "artifact"}]
    BY <1>1, <1>4 DEF WorkerBegins, WorkerFinishes, WorkerCleans, manifestVars
  <2>2. Goal
    BY <1>1, <1>3, <2>1 DEF Terminal
  <2>3. QED
    BY <1>1, <1>2, <2>2, WorkerStepKeeps
<1>5. CASE WorkerFails \/ WorkerKilled
  <2>1. UNCHANGED <<status, spool>> /\ worker' \in {"failing", "gone"}
    BY <1>5 DEF WorkerFails, WorkerKilled, manifestVars
  <2>2. verdict' \in Terminal
    BY <1>1, <1>5 DEF WorkerFails, WorkerKilled, Terminal
  <2>3. Goal
    BY <1>1, <1>3, <2>1, <2>2 DEF Terminal
  <2>4. QED
    BY <1>1, <1>2, <2>3, WorkerStepKeeps
<1>6. CASE WorkerCommits
  <2> DEFINE result == IF activePhase = "preview" THEN "preview_ready" ELSE "ready"
  <2>1. /\ UNCHANGED <<spool, verdict>> /\ worker = "finishing" /\ worker' = "done"
        /\ Mutate(active, result) /\ result \in Statuses
    BY <1>6 DEF WorkerCommits, Statuses
  <2> HIDE DEF result
  <2>2. /\ status' \in [Jobs -> Statuses] /\ \A k \in Jobs \ {active} : status'[k] = status[k]
        /\ status'[active] = IF status[active] \in Terminal /\ result \notin Terminal
                             THEN status[active] ELSE result
    BY <1>1, <2>1, MutateEffect
  <2>3. /\ status[active] \in Terminal => status'[active] = status[active]
        /\ status[active] = "running" => status'[active] = result
    BY <2>2 DEF result, Terminal
  <2>4. Goal
    BY <1>1, <1>3, <2>1, <2>2, <2>3 DEF Terminal, AtWork, result
  <2>5. QED
    BY <1>1, <1>2, <2>4, WorkerStepKeeps
<1>7. CASE WorkerReports
  <2>1. /\ UNCHANGED spool /\ worker' = "cleaning" /\ verdict' = "failed"
        /\ Mutate(active, verdict) /\ verdict \in Statuses
    BY <1>1, <1>7 DEF WorkerReports, Statuses
  <2>2. /\ status' \in [Jobs -> Statuses] /\ \A k \in Jobs \ {active} : status'[k] = status[k]
        /\ status'[active] = verdict
    BY <1>1, <2>1, MutateEffect
  <2>3. Goal
    BY <1>1, <2>1, <2>2 DEF Terminal, AtWork
  <2>4. QED
    BY <1>1, <1>2, <2>3, WorkerStepKeeps
<1>8. QED
  BY <1>4, <1>5, <1>6, <1>7 DEF Worker

LEMMA ServiceKeeps ==
  ASSUME ExportIInv, StopService \/ StopEnds \/ CrashService \/ StartService \/ StartEnds
  PROVE  ExportIInv'
<1>1. /\ ExportTypeOK /\ UNCHANGED <<status, phase, lapsed, spool, dropped>>
      /\ tickets' = tickets \/ tickets' = {}
      /\ queue' = queue \/ (queue' = <<>> /\ active' = NoJob)
      /\ active' = active \/ active' = NoJob
      /\ worker' = worker \/ worker' = "none"
      /\ cleaning' = cleaning \/ cleaning' = NoJob
      /\ faults' = faults \/ (faults < MaxFaults /\ faults' = faults + 1)
  BY DEF StopService, StopEnds, CrashService, StartService, StartEnds, ExportIInv, ExportInv,
     manifestVars, coordinatorVars, processVars, historyVars
<1>2. /\ service' = "stopping" \/ service' = "down" \/ service' = "starting" \/ service' = "up"
      /\ service' = "up" => service = "starting" /\ \A j \in Jobs : ~LeftUnsettled(j)
      /\ service' = "stopping" => UNCHANGED <<queue, active, tickets>> /\ worker' = "none"
      /\ service' \in {"down", "starting", "up"} =>
           queue' = <<>> /\ active' = NoJob /\ tickets' = {} /\ worker' = "none"
  BY DEF StopService, StopEnds, CrashService, StartService, StartEnds, ExportIInv, JobOfWorker,
     coordinatorVars, processVars
<1>3. verdict' \in Terminal /\ activePhase' \in {"preview", "render"} /\ torn' \subseteq Jobs
  BY <1>1 DEF StopService, StopEnds, CrashService, StartService, StartEnds, ExportTypeOK, Terminal,
     coordinatorVars, processVars, historyVars
<1>4. /\ queue' \in Seq(Jobs) /\ Len(queue') <= Len(queue) /\ Len(queue') \in Nat
      /\ \A i, k \in 1..Len(queue') : queue'[i] = queue'[k] => i = k
      /\ Queued' \subseteq Queued
  <2>1. CASE queue' = queue
    BY <1>1, <2>1, QueueTyped DEF ExportTypeOK, Queued
  <2>2. CASE queue' = <<>>
    BY <1>1, <2>2, QueueTyped, EmptySeq DEF Queued
  <2>3. QED
    BY <1>1, <2>1, <2>2
<1>5. ExportTypeOK'
  <2>1. faults' \in 0..MaxFaults
    BY <1>1, ExportAssumption DEF ExportTypeOK
  <2>2. QED
    BY <1>1, <1>2, <1>3, <1>4, <2>1 DEF ExportTypeOK
<1>6. LimitsKept'
  <2>1. Pending' <= MaxPending
    BY <1>1, <1>4, PendingStep DEF ExportIInv, ExportInv
  <2>2. QED
    BY <1>1, <2>1 DEF ExportIInv, ExportInv, LimitsKept, UnfinishedOf
<1>7. FilesMatch' /\ Attended'
  BY <1>1, <1>2 DEF ExportIInv, ExportInv, FilesMatch, Attended, LeftUnsettled
<1>8. JobOfWorker' /\ WorkerTold' /\ CleansTerminal'
  BY <1>1, <1>2 DEF ExportIInv, JobOfWorker, WorkerTold, CleansTerminal, AtWork
<1>9. QueueWaits'
  <2>1. service' = "up" => active' \notin Queued'
    BY <1>2, <1>4, QueueTyped, <1>1, ExportAssumption
  <2>2. QED
    BY <1>1, <1>4, <2>1 DEF ExportIInv, QueueWaits
<1>10. QED
  BY <1>5, <1>6, <1>7, <1>8, <1>9 DEF ExportIInv, ExportInv

\* What stop and start settle.
LEMMA RecoverKeeps ==
  ASSUME ExportIInv, NEW j \in Jobs, Recover(j)
  PROVE  ExportIInv'
<1>1. /\ ExportTypeOK /\ Mutate(j, "failed") /\ cleaning' = j /\ tickets = {}
      /\ UNCHANGED <<phase, lapsed, spool, tickets, queue, active, activePhase, worker, verdict,
                     service, dropped, torn, faults>>
  BY DEF Recover, ExportIInv, ExportInv, JobOfWorker, coordinatorVars, processVars, historyVars
<1>2. /\ status' \in [Jobs -> Statuses] /\ \A k \in Jobs \ {j} : status'[k] = status[k]
      /\ status'[j] \in Terminal
  BY <1>1, MutateEffect DEF Statuses, Terminal
<1>3. /\ Lists(queue', Queued, Len(queue)) /\ Len(queue) \in Nat /\ Len(queue) <= Len(queue)
      /\ faults' \in 0..MaxFaults
  BY <1>1, QueueTyped DEF ExportTypeOK
<1>4. QED
  BY <1>1, <1>2, <1>3, SettledKeeps

LEMMA SettleStoppedKeeps ==
  ASSUME ExportIInv, NEW j \in Jobs, SettleStopped(j)
  PROVE  ExportIInv'
<1>1. /\ ExportTypeOK /\ service = "stopping" /\ worker = "none" /\ queue' = Without(j)
      /\ active' = active \/ active' = NoJob
      /\ UNCHANGED <<phase, lapsed, spool, tickets, activePhase, worker, verdict, service,
                     dropped, torn, faults>>
  BY DEF SettleStopped, ExportIInv, ExportInv, JobOfWorker, processVars, historyVars
<1>2. /\ status' \in [Jobs -> Statuses] /\ \A k \in Jobs \ {j} : status'[k] = status[k]
      /\ \/ status'[j] = status[j]
         \/ status'[j] = "failed" /\ status[j] \in {"queued", "running"}
      /\ cleaning' \in {NoJob, j} /\ (cleaning' = j => status'[j] \in Terminal)
  <2>1. CASE Mutate(j, "failed") /\ cleaning' = j /\ status[j] \in {"queued", "running"}
    BY <1>1, <2>1, MutateEffect DEF Statuses, Terminal
  <2>2. CASE /\ cleaning' = (IF status[j] \in Terminal THEN j ELSE NoJob)
             /\ UNCHANGED status
    BY <1>1, <2>2, ExportAssumption DEF ExportTypeOK, Statuses
  <2>3. QED
    BY <2>1, <2>2 DEF SettleStopped
<1>3. PICK n \in Nat : n <= Len(queue) /\ Lists(queue', Queued \ {j}, n)
  BY <1>1, WithoutEffect
<1>4. /\ Queued' = Queued \ {j} /\ Len(queue') = n /\ queue' \in Seq(Jobs)
      /\ \A i, k \in 1..Len(queue') : queue'[i] = queue'[k] => i = k
  BY <1>3, QueueAfter
<1>5. ExportTypeOK'
  BY <1>1, <1>2, <1>4 DEF ExportTypeOK, Statuses
<1>6. LimitsKept'
  <2>1. Pending' <= MaxPending
    BY <1>1, <1>3, <1>4, PendingStep DEF ExportIInv, ExportInv
  <2>2. \A k \in Jobs : status'[k] \in Unfinished => status[k] \in Unfinished
    BY <1>2 DEF Unfinished
  <2>3. QED
    BY <1>2, <2>1, <2>2, LimitsStep DEF ExportIInv, ExportInv
<1>7. FilesMatch' /\ Attended'
  BY <1>1, <1>2 DEF ExportIInv, ExportInv, FilesMatch, Attended
<1>8. JobOfWorker' /\ WorkerTold' /\ CleansTerminal'
  BY <1>1, <1>2 DEF ExportIInv, JobOfWorker, WorkerTold, CleansTerminal, AtWork
<1>9. QueueWaits'
  BY <1>1, <1>2, <1>4, QueueTyped DEF ExportIInv, QueueWaits
<1>10. QED
  BY <1>5, <1>6, <1>7, <1>8, <1>9 DEF ExportIInv, ExportInv

-----------------------------------------------------------------------------
LEMMA ExportStarts == ExportInit => ExportIInv
<1> SUFFICES ASSUME ExportInit
             PROVE  ExportIInv
  OBVIOUS
<1> USE ExportAssumption DEF ExportInit
<1>1. Len(queue) = 0 /\ queue \in Seq(Jobs) /\ Queued = {}
  BY EmptySeq DEF Queued
<1>2. ExportTypeOK
  BY <1>1 DEF ExportTypeOK, Terminal
<1>3. LimitsKept
  <2>1. \A o : UnfinishedOf(o) = {}
    BY DEF UnfinishedOf, Unfinished
  <2>2. QED
    <3>1. Cardinality({}) = 0
      BY FS_EmptySet
    <3>2. Pending = 0 /\ 0 <= MaxPending /\ 0 <= MaxPerOwner
      BY <1>1 DEF Pending
    <3>3. QED
      BY <2>1, <3>1, <3>2 DEF LimitsKept
<1>4. FilesMatch /\ Attended
  BY DEF FilesMatch, Attended
<1>5. JobOfWorker /\ WorkerTold /\ QueueWaits /\ CleansTerminal
  BY <1>1 DEF JobOfWorker, WorkerTold, QueueWaits, CleansTerminal, AtWork
<1>6. QED
  BY <1>2, <1>3, <1>4, <1>5 DEF ExportIInv, ExportInv

LEMMA ExportStep == ExportIInv /\ [ExportNext]_exportVars => ExportIInv'
<1> SUFFICES ASSUME ExportIInv, [ExportNext]_exportVars
             PROVE  ExportIInv'
  OBVIOUS
<1>1. CASE UNCHANGED exportVars
  <2>1. UNCHANGED <<status, phase, lapsed, spool, tickets, queue, active, activePhase, worker,
                    verdict, cleaning, service, dropped, torn, faults>>
    BY <1>1 DEF exportVars, manifestVars, coordinatorVars, processVars, historyVars
  <2>2. Queued' = Queued /\ Pending' = Pending /\ \A o : UnfinishedOf(o)' = UnfinishedOf(o)
    BY <2>1 DEF Queued, Pending, UnfinishedOf
  <2>3. ExportInv'
    BY <2>1, <2>2 DEF ExportIInv, ExportInv, ExportTypeOK, FilesMatch, Attended, LimitsKept
  <2>4. QED
    BY <2>1, <2>2, <2>3 DEF ExportIInv, JobOfWorker, WorkerTold, QueueWaits, CleansTerminal
<1>2. ASSUME NEW j \in Jobs,
             \/ Lapse(j) \/ Requests(j) \/ Expire(j) \/ RemoveExpired(j)
             \/ SettleStopped(j) \/ Recover(j)
      PROVE  ExportIInv'
  BY <1>2, CreateKeeps, ConfirmKeeps, WithdrawalKeeps, BesidesKeep, SettleStoppedKeeps, RecoverKeeps
     DEF Requests
<1>3. ASSUME CleanFiles \/ Reap \/ Launch \/ LaunchRefused \/ LaunchRaises
      PROVE  ExportIInv'
  BY <1>3, CleanKeeps, ReapKeeps, LaunchKeeps, LaunchFailureKeeps
<1>4. ASSUME \/ Worker \/ WorkerKilled
             \/ StopService \/ StopEnds \/ CrashService \/ StartService \/ StartEnds
      PROVE  ExportIInv'
  BY <1>4, WorkerKeeps, ServiceKeeps
<1>5. QED
  BY <1>1, <1>2, <1>3, <1>4 DEF ExportNext

\* A manifest, the queue, the files and the worker agree, whatever the requests,
\* the thread, the worker process and the faults do between each other's steps
\* (ExportJobs).
THEOREM ExportInductive == ExportSpec => []ExportIInv
  BY ExportStarts, ExportStep, PTL DEF ExportSpec

\* What a manifest promises is on the disk, no job waits or runs unattended, and
\* the limits of the queue and of the owners hold (ExportJobs.create, _loop, _worker).
THEOREM ExportInvariant == ExportSpec => []ExportInv
<1>1. ExportIInv => ExportInv
  BY DEF ExportIInv
<1>2. QED
  BY <1>1, ExportInductive, PTL

\* A result that the worker stored is never called an interrupted job
\* (ExportJobs._loop).
THEOREM ResultIsKept == ExportSpec => ResultNotInterrupted
<1>1. ASSUME ExportIInv, [ExportNext]_exportVars, NEW j \in Jobs,
             service = "up", active = j, worker = "done", status[j] \notin Terminal
      PROVE  status'[j] # "failed"
  <2>1. /\ ExportTypeOK /\ status[j] \in {"preview_ready", "ready", "queued"}
        /\ status[j] = "queued" => active \in Queued
    BY <1>1 DEF ExportIInv, ExportInv, WorkerTold
  <2>2. CASE UNCHANGED status
    BY <2>1, <2>2
  <2>3. ASSUME NEW k \in Jobs, NEW new \in {"expired", "canceled", "queued"}, Mutate(k, new)
        PROVE  status'[j] # "failed"
    <3>1. /\ status'[j] = status[j] \/ j = k
          /\ j = k => status'[j] = new
      BY <1>1, <2>1, <2>3, MutateEffect DEF Statuses, Terminal
    <3>2. QED
      BY <2>1, <2>3, <3>1
  <2>4. ASSUME NEW k \in Jobs,
               \/ Lapse(k) \/ Requests(k) \/ Expire(k) \/ RemoveExpired(k)
        PROVE  status'[j] # "failed"
    <3>1. CASE Create(k) \/ RemoveExpired(k)
      BY <1>1, <2>1, <2>4, <3>1 DEF Create, RemoveExpired, ExportTypeOK
    <3>2. CASE Lapse(k) \/ IssueTicket(k)
      BY <2>2, <3>2 DEF Lapse, IssueTicket, manifestVars
    <3>3. CASE Touch(k) \/ Confirm(k) \/ Expire(k)
      BY <2>3, <3>3 DEF Touch, Confirm, Expire
    <3>4. CASE Cancel(k) \/ ConsumeTicket(k)
      BY <2>2, <2>3, <3>4 DEF Cancel, ConsumeTicket
    <3>5. QED
      BY <2>4, <3>1, <3>2, <3>3, <3>4 DEF Requests
  <2>5. CASE Reap
    <3>1. ~Interrupted
      BY <1>1, <2>1 DEF Interrupted
    <3>2. QED
      BY <2>2, <2>5, <3>1 DEF Reap
  <2>6. CASE \/ CleanFiles \/ StopService \/ StopEnds \/ CrashService \/ StartService \/ StartEnds
             \/ UNCHANGED exportVars
    <3>1. UNCHANGED status
      BY <2>6 DEF CleanFiles, StopService, StopEnds, CrashService, StartService, StartEnds,
         exportVars, manifestVars
    <3>2. QED
      BY <2>2, <3>1
  <2>7. /\ ~Launch /\ ~LaunchRefused /\ ~LaunchRaises /\ ~Worker /\ ~WorkerKilled
        /\ \A k \in Jobs : ~SettleStopped(k) /\ ~Recover(k)
    BY <1>1 DEF Launch, LaunchRefused, LaunchRaises, Worker, WorkerKilled, WorkerBegins,
       WorkerFinishes, WorkerCommits, WorkerFails, WorkerReports, WorkerCleans, SettleStopped, Recover
  <2>8. QED
    BY <1>1, <2>4, <2>5, <2>6, <2>7 DEF ExportNext
<1>2. ExportIInv /\ [ExportNext]_exportVars =>
        [\A j \in Jobs :
           /\ service = "up" /\ active = j /\ worker = "done"
           /\ status[j] \notin Terminal
           => status'[j] # "failed"]_exportVars
  BY <1>1
<1>3. QED
  BY <1>2, ExportInductive, PTL DEF ExportSpec, ResultNotInterrupted
=============================================================================
