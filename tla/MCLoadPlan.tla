----------------------------- MODULE MCLoadPlan -----------------------------
(***************************************************************************)
(* LoadPlan twice over the same variables: "plan" is one execution with    *)
(* many entries, for the arithmetic; "share" is two executions with few,   *)
(* for the interleavings.                                                  *)
(***************************************************************************)
EXTENDS Integers, Sequences

VARIABLES mode, profile, deploy, deploys, staged, pods, run, doubt

lpVars == <<profile, deploy, deploys, staged, pods, run, doubt>>

E(shape, engines, users, rate, ramp, hold, steps) ==
    [mode |-> shape, engines |-> engines, concurrency |-> users, throughput |-> rate,
     rampup |-> ramp, duration |-> hold, steps |-> steps]

Plans ==
    {E("none", n, c, t, 30, 90, 0) : n \in 1 .. 3, c \in {1, 2, 5, 7}, t \in {0, 1, 2, 5}}
    \cup {E("staircase", n, c, t, 30, 60, s) :
             n \in 1 .. 3, c \in {3, 8}, t \in {1, 4, 7}, s \in {0, 1, 2, 3, 11}}
    \cup {E("staircase", 2, 4, 5, 0, d, 3) : d \in {59, 60}}
    \cup {E(m, 2, 3, 4, 0, d, 0) : m \in {"burst", "soak", "ramp"}, d \in {0, 60, 400, 9000}}
First == E("staircase", 2, 3, 5, 0, 60, 2)
Edited == E("none", 1, 2, 3, 10, 90, 0)
Second == E("none", 2, 5, 3, 10, 90, 0)

P == INSTANCE LoadPlan WITH Shards <- 1 .. 3, Executions <- {"e1"}, Stated <- [e \in {"e1"} |-> Plans],
        Edits <- [e \in {"e1"} |-> {E("none", 2, 3, 0, 0, 60, 0)}],
        CPU <- [e \in {"e1"} |-> 1200], Memory <- [e \in {"e1"} |-> 1700],
        Targets <- [e \in {"e1"} |-> {"c1"}], MaxDeploys <- [e \in {"e1"} |-> 1]
S == INSTANCE LoadPlan WITH Shards <- 1 .. 2, Executions <- {"e1", "e2"}, 
        Stated <- [e \in {"e1", "e2"} |-> {IF e = "e1" THEN First ELSE Second}],
        Edits <- [e \in {"e1", "e2"} |-> IF e = "e1" THEN {Edited} ELSE {}],
        CPU <- [e \in {"e1", "e2"} |-> 0], Memory <- [e \in {"e1", "e2"} |-> 0],
        Targets <- [e \in {"e1", "e2"} |-> IF e = "e1" THEN {"c1", "c2"} ELSE {"c1"}],
        MaxDeploys <- [e \in {"e1", "e2"} |-> IF e = "e1" THEN 2 ELSE 1]

Init == \/ mode = "plan" /\ P!Init
        \/ mode = "share" /\ S!Init
Next == /\ UNCHANGED mode
        /\ \/ mode = "plan" /\ P!Next
           \/ mode = "share" /\ S!Next
Spec == Init /\ [][Next]_<<mode, lpVars>>

----------------------------------------------------------------------------
\* Compiling shards: the pods of a deploy together produce the profile that was asked
\* for, plateau by plateau; what a trigger reserves covers them, every target cluster
\* runs them alike, and the config a run is shown to have used is theirs.
LoadAddsUp ==
    IF mode = "plan"
    THEN /\ P!LoadAddsUp /\ P!PlateausHold /\ P!ReservationCovers /\ P!FanOutAlike
         /\ P!SnapshotIsWhatRan
    ELSE /\ S!LoadAddsUp /\ S!PlateausHold /\ S!ReservationCovers /\ S!FanOutAlike
         /\ S!SnapshotIsWhatRan
=============================================================================
