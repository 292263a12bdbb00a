------------------------ MODULE MCDurableIngestion ------------------------
EXTENDS DurableIngestion

CONSTANTS p1, p2, p2x, bad, e1, e2, n1

\* p1 and p2 are consecutive events of one node, p2x carries the event id of
\* p2 with other content, bad does not decode.
MCEventOf == [p \in Payload |-> CASE p = p1 -> e1
                                  [] p = p2 \/ p = p2x -> e2
                                  [] OTHER -> NoEvent]
MCNodeOf  == [p \in Payload |-> n1]
MCSequenceOf   == [p \in Payload |-> CASE p = p1 -> 1
                                  [] p = p2 \/ p = p2x -> 2
                                  [] OTHER -> 0]
=============================================================================
