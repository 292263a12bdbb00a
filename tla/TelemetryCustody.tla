-------------------------- MODULE TelemetryCustody --------------------------
(***************************************************************************)
(* What the central ingestion path promises the publishers of telemetry,   *)
(* said without spool, worker or database.  A payload is published, stays  *)
(* in the custody of the path (broker session or ingestion spool) and may  *)
(* leave it only once it is settled: stored as a sample, recorded as a     *)
(* dead letter, or quarantined.  A settled payload never becomes unsettled.*)
(***************************************************************************)
CONSTANT Payload

VARIABLES published,  \* payloads the broker accepted for the central client
          custody,    \* payloads some part of the path still has to deal with
          settled     \* payloads with a durable outcome

vars == <<published, custody, settled>>

Init == published = {} /\ custody = {} /\ settled = {}

\* The broker accepts a first copy or another copy of p.
Accept(p) ==
  /\ published' = published \cup {p}
  /\ custody' = custody \cup {p}
  /\ UNCHANGED settled

\* Outcomes S become durable and payloads R leave the path; nothing leaves
\* without an outcome.
Progress(S, R) ==
  /\ settled' = settled \cup S
  /\ R \subseteq settled'
  /\ custody' = custody \ R
  /\ UNCHANGED published

Next ==
  \/ \E p \in Payload : Accept(p)
  \/ \E S, R \in SUBSET Payload : Progress(S, R)

Spec == Init /\ [][Next]_vars

-----------------------------------------------------------------------------
TypeOK ==
  /\ published \subseteq Payload
  /\ custody \subseteq Payload
  /\ settled \subseteq Payload

\* Nothing the broker accepted is ever lost by the path.
NothingLost == published \subseteq custody \cup settled
=============================================================================
