---------------------------- MODULE MCOperations ----------------------------
(***************************************************************************)
(* What operators change while a worker goes by it: an alert rule and its  *)
(* alerts, the test sessions an event is attributed to, and the release the *)
(* host runs.  The three share no state: a behaviour runs one of them,     *)
(* `part`, the others stay in an initial state.                            *)
(***************************************************************************)
EXTENDS MCAlertEngine, TestSessions, VersionManagement

VARIABLE part

CONSTANTS s1, s2, c1, p1, p2

\* The second session is changed once, the first twice.
MCMaxChanges == [s \in Sessions |-> IF s = s1 THEN 2 ELSE 1]

operationVars == <<vars, sessionVars, versionVars, part>>

OperationsInit ==
  /\ part \in {"rule", "sessions", "release"}
  /\ Init /\ SessionInit /\ VersionInit
  /\ part # "rule" => versions = <<Immediate>>
  /\ part # "sessions" => event.channel = c1
  /\ current.bundle = p1

OperationsNext ==
  \/ part = "rule" /\ Next /\ UNCHANGED <<sessionVars, versionVars, part>>
  \/ part = "sessions" /\ SessionNext /\ UNCHANGED <<vars, versionVars, part>>
  \/ part = "release" /\ VersionNext /\ UNCHANGED <<vars, sessionVars, part>>

OperationsSpec == OperationsInit /\ [][OperationsNext]_operationVars

=============================================================================
