---------------------------- MODULE MCRegistries ----------------------------
(***************************************************************************)
(* Registries that several processes work on: the clusters, as concurrent  *)
(* requests change them ("requests") and as the goroutines of one process  *)
(* resolve clients while one request at a time does ("clients"), and the   *)
(* digest schedules that scheduler replicas claim ("digests").             *)
(***************************************************************************)
EXTENDS Clusters, TLC

CONSTANTS a1, q1, q2, t1

VARIABLES mode,
    now, schedule, digests, run, confirmed, dw, edits, digestFaults

digestVars == <<now, schedule, digests, run, confirmed, dw, edits, digestFaults>>

\* An execution of c1, one that fans out to it, and one of another cluster.
Fleet == [own |-> [own |-> "c1", fanOut |-> {}],
          fan |-> [own |-> "c2", fanOut |-> {"c1", "c2"}],
          other |-> [own |-> "c2", fanOut |-> {}]]
WholeConfig == [context |-> TRUE, plugin |-> None, file |-> FALSE, server |-> TRUE,
          ca |-> TRUE, token |-> FALSE, cert |-> TRUE, key |-> TRUE]
Uploads == {WholeConfig, [WholeConfig EXCEPT !.key = FALSE], [WholeConfig EXCEPT !.plugin = "exec"]}

\* The properties are stated for the union of the two.
R == INSTANCE Clusters WITH Workers <- {}, Namespaces <- {1}
C == INSTANCE Clusters WITH Requests <- {a1},
       Executions <- [other |-> Fleet.other], Namespaces <- {1, 2}, MaxTokens <- 1,
       MaxFaults <- 0, MaxHangups <- 0
D == INSTANCE Digests WITH Projects <- {1}, Replicas <- {q1, q2},
       Duration <- [daily |-> 2, weekly |-> 3], Targets <- {t1}, LastInstant <- 3,
       MaxDigests <- 2, MaxEdits <- 2, MaxFaults <- 1, w <- dw, faults <- digestFaults

MCInit ==
    /\ mode \in {"requests", "clients", "digests"}
    /\ IF mode = "clients" THEN C!Init ELSE R!Init
    /\ D!Init /\ (mode # "digests" => run[1].started = 0)
MCNext ==
    \/ mode = "requests" /\ R!Next /\ UNCHANGED <<mode, digestVars>>
    \/ mode = "clients" /\ C!Next /\ UNCHANGED <<mode, digestVars>>
    \/ mode = "digests" /\ D!Next /\ UNCHANGED <<mode, vars>>
MCSpec == MCInit /\ [][MCNext]_<<mode, vars, digestVars>>

----------------------------------------------------------------------------
(* The property of Digests, by name.                                       *)
DigestsKept == D!DigestsKept
=============================================================================
