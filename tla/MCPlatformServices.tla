------------------------- MODULE MCPlatformServices -------------------------
(***************************************************************************)
(* Four services that share no state, so that an interleaving of their     *)
(* steps shows nothing the services alone do not: the acquisition scheduler *)
(* of a node, and the energy export, the report delivery and the live      *)
(* telemetry of the center.  A behaviour runs one of them, "running"; the  *)
(* others stay in an initial state in which they have nothing to do.       *)
(***************************************************************************)
EXTENDS AcquisitionScheduler, ExportJobs, ReportDelivery, LiveTelemetry

VARIABLE running

CONSTANTS tHigh, tMedium, tLow, empty, narrow, wide, a, b, r1, r2, a1, a2, b2

\* The bus of unit 1 has a high and a low target, that of unit 2 a medium one,
\* which discovery enrolls.
MCUnitOf == [t \in Targets |-> IF t = tMedium THEN 2 ELSE 1]
MCRank == [t \in Targets |-> CASE t = tHigh -> High [] t = tLow -> Low [] OTHER -> 1]
MCCadence ==
  [d \in Documents |-> [t \in Targets |->
     CASE d = empty \/ (d = narrow /\ t = tMedium) -> 0
       [] d = wide /\ t = tHigh -> 2
       [] OTHER -> 1]]

\* Both jobs are of one owner.
MCOwnerOf == [j \in Jobs |-> a]

\* Two rows of one series and one of another that has the capture time of the
\* second.
MCCapturedAt == [e \in Events |-> IF e = a1 THEN 1 ELSE 2]
MCSeriesOf == [e \in Events |-> IF e = b2 THEN b ELSE a]

services == {"acquisition", "export", "delivery", "live"}

allVars == <<acquisitionVars, exportVars, deliveryVars, liveVars, running>>

\* The agent starts with the narrow registry.  Nothing to do: no target is
\* eligible, no job or report exists, nothing is committed.
Init ==
  /\ running \in services
  /\ AcquisitionInit /\ ExportInit /\ DeliveryInit /\ LiveInit
  /\ IF running = "acquisition" THEN registry = narrow ELSE registry = empty /\ target = tLow
  /\ running # "delivery" => enabled
  /\ running # "live" => rows = <<>>

Next ==
  /\ UNCHANGED running
  /\ \/ /\ running = "acquisition" /\ AcquisitionNext
        /\ UNCHANGED <<exportVars, deliveryVars, liveVars>>
     \/ /\ running = "export" /\ ExportNext
        /\ UNCHANGED <<acquisitionVars, deliveryVars, liveVars>>
     \/ /\ running = "delivery" /\ DeliveryNext
        /\ UNCHANGED <<acquisitionVars, exportVars, liveVars>>
     \/ /\ running = "live" /\ LiveNext
        /\ UNCHANGED <<acquisitionVars, exportVars, deliveryVars>>

Spec ==
  /\ Init /\ [][Next]_allVars
  /\ AcquisitionFairness /\ ExportFairness /\ DeliveryFairness

=============================================================================
