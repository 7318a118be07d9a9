----------------------------- MODULE RunRegistry -----------------------------
(***************************************************************************)
(* What an execution's run history promises its readers, whatever replicas, *)
(* sidecars and sweeps do to it: runs open one at a time under fresh ids    *)
(* and never reopen; completions are only ever added; a verdict is given    *)
(* once, to a run that was started; and a run passes only on a successful   *)
(* completion of every engine.                                              *)
(***************************************************************************)
EXTENDS Naturals

CONSTANTS Engines, Codes, Outcomes, NoVerdict, MaxRuns

VARIABLES
    open,       \* the open run, 0 when there is none
    last,       \* the last run started
    delivered,  \* completions delivered, per run
    verdict     \* verdicts given, per run

vars == <<open, last, delivered, verdict>>

Init ==
    /\ open = 0
    /\ last = 0
    /\ delivered = [r \in 1 .. MaxRuns |-> {}]
    /\ verdict = [r \in 1 .. MaxRuns |-> NoVerdict]

Open ==
    /\ open = 0
    /\ last' = last + 1
    /\ open' = last'
    /\ UNCHANGED <<delivered, verdict>>

Close ==
    /\ open' = 0
    /\ UNCHANGED <<last, delivered, verdict>>

Deliver(r, e, c) ==
    /\ delivered' = [delivered EXCEPT ![r] = @ \cup {<<e, c>>}]
    /\ UNCHANGED <<open, last, verdict>>

Decide(r, o) ==
    /\ verdict[r] = NoVerdict
    /\ o = "passed" => \A e \in Engines : <<e, "passed">> \in delivered[r]
    /\ verdict' = [verdict EXCEPT ![r] = o]
    /\ UNCHANGED <<open, last, delivered>>

Next ==
    \/ Open
    \/ Close
    \/ \E r \in 1 .. last :
        \/ \E e \in Engines, c \in Codes : Deliver(r, e, c)
        \/ \E o \in Outcomes : Decide(r, o)

Spec == Init /\ [][Next]_vars
=============================================================================
