---------------------------- MODULE MCAlertEngine ----------------------------
(* Rules for TLC: a high threshold with hysteresis and durations, a higher *)
(* one without, and a low threshold.                                       *)
EXTENDS AlertEngine

Sustained == [high |-> TRUE, trigger |-> 2, clear |-> 0, hold |-> 1, clearHold |-> 1, cooldown |-> 1]
Immediate == [high |-> TRUE, trigger |-> 1, clear |-> 1, hold |-> 0, clearHold |-> 0, cooldown |-> 2]
Freezing  == [high |-> FALSE, trigger |-> 0, clear |-> 1, hold |-> 0, clearHold |-> 1, cooldown |-> 0]

ThreeRules == {Sustained, Immediate, Freezing}

Lower == [high |-> TRUE, trigger |-> 1, clear |-> 0, hold |-> 2, clearHold |-> 0, cooldown |-> 0]
Upper == [high |-> TRUE, trigger |-> 2, clear |-> 0, hold |-> 2, clearHold |-> 0, cooldown |-> 0]

RaisedRule == {Lower, Upper}
=============================================================================
