---------------------------- MODULE MCSchedule ----------------------------
(* One recurring schedule of one execution.                                *)
EXTENDS Schedule, TLC

CONSTANTS e1

Cron == [s \in Schedules |-> {1, 3}]
OneExecution == [s \in Schedules |-> e1]

Replicas == Permutations(Extenders)
=============================================================================
