--------------------------- MODULE MCQuotaLedger ---------------------------
(* Two executions of one tenant: both on one cluster, or one fanned out.      *)
EXTENDS QuotaLedger

CONSTANTS e1, e2, c1, c2

SoloTargets == [e \in Executions |-> {c1}]
FanOutTargets == [e \in Executions |-> IF e = e2 THEN {c1, c2} ELSE {c1}]
HomeCluster == [e \in Executions |-> c1]
EngineUnits == [e \in Executions |-> 1]
Durations == [e \in Executions |-> 1]
=============================================================================
