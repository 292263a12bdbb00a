---------------------------- MODULE LiveTelemetry ----------------------------
(***************************************************************************)
(* Telemetry after it was stored (telemetry-service/app): the projection of *)
(* the latest sample of every series, kept by persist and repaired at the  *)
(* start of the service (db.py, latest_projection_reconcile.py), retention, *)
(* and the live feed of one browser, which resumes from the capture time of *)
(* the last sample it received (live.py, live_api.py,                      *)
(* websocket-client.ts).                                                   *)
(*                                                                         *)
(* rows is the history table since the migration that introduced the       *)
(* projection: the id of a row is its place in rows.  The ingress journal   *)
(* has an event processed once (DurableIngestion), so it has one row.       *)
(***************************************************************************)
EXTENDS Sequences, FiniteSets, Integers

CONSTANTS
  Events,
  CapturedAt,     \* captured_at of each event
  MaxCaptured,
  Series,
  SeriesOf,       \* node, equipment, channel and metric of each event
  QueueSize,      \* live_client_queue_size
  ResumeLimit,    \* live_resume_limit
  MaxReconcile,   \* MAX_STARTUP_RECONCILE_ROWS
  MaxDrops        \* bound: connections lost, crashes and restarts

ASSUME LiveAssumption ==
  /\ MaxCaptured \in Nat \ {0}
  /\ CapturedAt \in [Events -> 1..MaxCaptured]
  /\ SeriesOf \in [Events -> Series]
  /\ QueueSize \in Nat \ {0} /\ ResumeLimit \in Nat \ {0}
  /\ MaxReconcile \in Nat \ {0} /\ MaxDrops \in Nat

VARIABLES
  rows,           \* events in the order they were inserted
  history,        \* ids of the rows retention has left
  latest,         \* telemetry_latest: sample_id of each series, 0 without a row
  release,        \* the binary in place: "previous", without a projection, or "current"
  serving,        \* the service is up
  pipe,           \* rows committed and not yet fanned out by the event loop
  feed,           \* "new", "replaying", "live", "lost" or "ended"
  replay,         \* rows of the resume query still to be sent
  replayed,       \* replayed_event_ids
  backlog,        \* LiveClient.queue
  overflowed,     \* OVERFLOW is in the queue, and the client is off the hub
  seen,           \* rows the browser has received
  cursor,         \* lastCommittedCapturedAt, 0 before the first sample
  before,         \* history: rows older than the subscription
  missed,         \* history: rows a resume could not ask for
  drops

storeVars == <<rows, history, latest>>
serverVars == <<release, serving, pipe>>
connectionVars == <<feed, replay, replayed, backlog, overflowed>>
browserVars == <<seen, cursor, before, missed>>
liveVars == <<storeVars, serverVars, connectionVars, browserVars, drops>>

Ids == 1..Len(rows)
Elements(s) == {s[i] : i \in 1..Len(s)}
Captured(i) == CapturedAt[rows[i]]
SeriesOfRow(i) == SeriesOf[rows[i]]

Drop == drops < MaxDrops /\ drops' = drops + 1

-----------------------------------------------------------------------------
(* The latest projection.                                                  *)

(* Mutant: the row written last is the latest.                             *)
LastWritten(i, j, captured) == TRUE

(* The condition of the upsert, for row i and the latest row j of a series. *)
Advances(i, j, captured) ==
  \/ j = 0
  \/ captured[i] > captured[j]
  \/ captured[i] = captured[j] /\ i > j

(* The migration has backfilled what the history held when it ran.         *)
LiveInit ==
  /\ \E e \in Events : rows \in {<<>>, <<e>>}
  /\ history = Ids
  /\ latest = [s \in Series |-> IF \E i \in Ids : SeriesOfRow(i) = s THEN 1 ELSE 0]
  /\ release = "previous" /\ serving = TRUE
  /\ pipe = <<>>
  /\ feed = "new" /\ replay = {} /\ replayed = {} /\ backlog = <<>> /\ overflowed = FALSE
  /\ seen = {} /\ cursor = 0 /\ before = {} /\ missed = {}
  /\ drops = 0

(* persist, and the call_soon_threadsafe of publish_from_thread after it.  *)
CommitEvent(e) ==
  LET id == Len(rows) + 1
      s == SeriesOf[e]
      captured == [i \in 1..id |-> IF i = id THEN CapturedAt[e] ELSE Captured(i)]
  IN  /\ serving
      /\ e \notin Elements(rows)
      /\ rows' = Append(rows, e)
      /\ history' = history \cup {id}
      /\ latest' = IF release = "current" /\ Advances(id, latest[s], captured)
                   THEN [latest EXCEPT ![s] = id] ELSE latest
      /\ pipe' = Append(pipe, id)
      /\ UNCHANGED <<release, serving, connectionVars, browserVars, drops>>

(* cleanup_retention goes by capture time, in the order of the ids.        *)
DeleteExpired(cutoff) ==
  LET expired == {i \in history : Captured(i) < cutoff}
  IN  /\ \E i \in expired :
           /\ \A j \in expired : i <= j
           /\ history' = history \ {i}
      /\ UNCHANGED <<rows, latest, serverVars, connectionVars, browserVars, drops>>

(* The feed of a service that is gone; the browser keeps what it has.      *)
CloseFeed ==
  /\ feed' = IF feed \in {"replaying", "live"} THEN "lost" ELSE feed
  /\ replay' = {} /\ replayed' = {} /\ backlog' = <<>> /\ overflowed' = FALSE

(* A crash, or the end of the process for a restart or an upgrade.         *)
StopServing ==
  /\ serving /\ Drop
  /\ serving' = FALSE
  /\ pipe' = <<>>
  /\ CloseFeed
  /\ UNCHANGED <<storeVars, release, browserVars>>

Upgrade ==
  /\ ~serving /\ release = "previous"
  /\ release' = "current"
  /\ UNCHANGED <<storeVars, serving, pipe, connectionVars, browserVars, drops>>

StartPrevious ==
  /\ ~serving /\ release = "previous"
  /\ serving' = TRUE
  /\ UNCHANGED <<storeVars, release, pipe, connectionVars, browserVars, drops>>

(* Rows above the largest sample_id of the projection.                     *)
Unprojected == {i \in history : \A s \in Series : i > latest[s]}

(* reconcile_latest_projection refuses to start over a history without any *)
(* projection, and over more rows than MaxReconcile.                       *)
Reconcilable ==
  \/ history = {}
  \/ /\ \E s \in Series : latest[s] > 0
     /\ Cardinality(Unprojected) <= MaxReconcile

(* Row by row in the order of the ids: the newest of a series is left.     *)
Reconciled(s) ==
  LET candidates == {i \in Unprojected : SeriesOfRow(i) = s}
      captured == [i \in Ids |-> Captured(i)]
      newest == {i \in candidates : \A j \in candidates \ {i} : ~Advances(j, i, captured)}
  IN  IF \E i \in newest : Advances(i, latest[s], captured)
      THEN CHOOSE i \in newest : TRUE ELSE latest[s]

StartCurrent ==
  /\ ~serving /\ release = "current"
  /\ Reconcilable
  /\ latest' = [s \in Series |-> Reconciled(s)]
  /\ serving' = TRUE
  /\ UNCHANGED <<rows, history, release, pipe, connectionVars, browserVars, drops>>

-----------------------------------------------------------------------------
(* The hub and the WebSocket handler.                                      *)

Registered == feed \in {"replaying", "live"} /\ ~overflowed

(* publish_committed: a full queue closes the client instead of waiting.   *)
FanOut ==
  /\ pipe # <<>>
  /\ pipe' = Tail(pipe)
  /\ IF Registered /\ Len(backlog) >= QueueSize
     THEN backlog' = <<>> /\ overflowed' = TRUE
     ELSE /\ backlog' = IF Registered THEN Append(backlog, Head(pipe)) ELSE backlog
          /\ UNCHANGED overflowed
  /\ UNCHANGED <<storeVars, release, serving, feed, replay, replayed, browserVars, drops>>

(* Mutant: the sample the browser received last is not asked for again, nor *)
(* any other captured at the same time.                                    *)
AskedForAfter == {i \in history : Captured(i) > cursor}

(* The rows from the capture time of the last sample on.                   *)
AskedFor == {i \in history : Captured(i) >= cursor}

(* The rows that neither the resume query nor the hub will bring.          *)
BeyondResume == {i \in history \ (seen \cup Elements(pipe)) : Captured(i) < cursor \/ cursor = 0}

(* The client is registered before the query, and the event loop does not  *)
(* fan out in between.                                                     *)
OpenFeed ==
  /\ serving /\ feed = "new"
  /\ feed' = "live"
  /\ before' = Ids
  /\ UNCHANGED <<storeVars, serverVars, replay, replayed, backlog, overflowed,
                 seen, cursor, missed, drops>>

Resume ==
  /\ serving /\ feed = "lost"
  /\ IF cursor = 0 THEN feed' = "live" /\ UNCHANGED replay
     ELSE /\ Cardinality(AskedFor) <= ResumeLimit
          /\ feed' = "replaying"
          /\ replay' = AskedFor
  /\ missed' = missed \cup BeyondResume
  /\ UNCHANGED <<storeVars, serverVars, replayed, backlog, overflowed, seen, cursor, before, drops>>

(* The close code 1008 of a resume over ResumeLimit is final for the       *)
(* browser, and so is the last of its reconnect attempts.                  *)
EndFeed ==
  /\ feed = "lost"
  /\ feed' = "ended"
  /\ UNCHANGED <<storeVars, serverVars, replay, replayed, backlog, overflowed, browserVars, drops>>

(* A sample the browser has seen changes nothing there.                    *)
Receive(i) ==
  /\ seen' = seen \cup {i}
  /\ cursor' = IF i \in seen THEN cursor ELSE Captured(i)
  /\ UNCHANGED <<before, missed>>

SendReplay ==
  /\ feed = "replaying"
  /\ \E i \in replay :
       /\ \A j \in replay : Captured(i) <= Captured(j)
       /\ Receive(i)
       /\ replay' = replay \ {i}
       /\ replayed' = replayed \cup {i}
  /\ UNCHANGED <<storeVars, serverVars, feed, backlog, overflowed, drops>>

EndReplay ==
  /\ feed = "replaying" /\ replay = {}
  /\ feed' = "live"
  /\ UNCHANGED <<storeVars, serverVars, replay, replayed, backlog, overflowed, browserVars, drops>>

SendLive ==
  /\ feed = "live" /\ backlog # <<>>
  /\ backlog' = Tail(backlog)
  /\ IF Head(backlog) \in replayed THEN UNCHANGED browserVars ELSE Receive(Head(backlog))
  /\ UNCHANGED <<storeVars, serverVars, feed, replay, replayed, overflowed, drops>>

(* The sentinel is read: the handler closes with code 1013.                *)
CloseSlowConsumer ==
  /\ feed = "live" /\ overflowed
  /\ CloseFeed
  /\ UNCHANGED <<storeVars, serverVars, browserVars, drops>>

(* The network, a send or a heartbeat timeout.                             *)
LoseConnection ==
  /\ feed \in {"replaying", "live"} /\ Drop
  /\ CloseFeed
  /\ UNCHANGED <<storeVars, serverVars, browserVars>>

-----------------------------------------------------------------------------
LiveNext ==
  \/ \E e \in Events : CommitEvent(e)
  \/ \E cutoff \in 1..MaxCaptured : DeleteExpired(cutoff)
  \/ StopServing \/ Upgrade \/ StartPrevious \/ StartCurrent
  \/ FanOut \/ OpenFeed \/ Resume \/ EndFeed
  \/ SendReplay \/ EndReplay \/ SendLive \/ CloseSlowConsumer \/ LoseConnection

LiveSpec == LiveInit /\ [][LiveNext]_liveVars

-----------------------------------------------------------------------------
(* Properties.                                                             *)

LiveTypeOK ==
  /\ rows \in Seq(Events)
  /\ history \subseteq Ids
  /\ latest \in [Series -> 0..Len(rows)]
  /\ release \in {"previous", "current"} /\ serving \in BOOLEAN
  /\ pipe \in Seq(Ids)
  /\ feed \in {"new", "replaying", "live", "lost", "ended"}
  /\ replay \subseteq Ids /\ replayed \subseteq Ids
  /\ backlog \in Seq(Ids) /\ overflowed \in BOOLEAN
  /\ seen \subseteq Ids /\ cursor \in 0..MaxCaptured
  /\ before \subseteq Ids /\ missed \subseteq Ids
  /\ drops \in 0..MaxDrops

(* While the current release is up no row of the history is newer than the *)
(* latest row of its series: late events, rows the previous release wrote   *)
(* without a projection, and retention notwithstanding (_upsert_latest,     *)
(* reconcile_latest_projection).                                           *)
LatestIsNewest ==
  /\ \A s \in Series : latest[s] > 0 => SeriesOfRow(latest[s]) = s
  /\ serving /\ release = "current" =>
       \A i \in history :
         LET j == latest[SeriesOfRow(i)]
         IN  j > 0 /\ (Captured(i) < Captured(j) \/ (Captured(i) = Captured(j) /\ i <= j))

ProjectionInv == LiveTypeOK /\ LatestIsNewest

(* An open feed has no gap: every row committed since the browser first    *)
(* subscribed was received, is being replayed, waits in its queue, or is   *)
(* about to be fanned out.  The rows a resume by capture time cannot ask   *)
(* for are left out: those captured before the last sample received, and   *)
(* all of them when the first connection brought no sample (live, register, *)
(* publish_committed).                                                     *)
ResumeHasNoGap ==
  Registered =>
    history \ (before \cup missed)
      \subseteq seen \cup replay \cup Elements(backlog) \cup Elements(pipe)

=============================================================================
