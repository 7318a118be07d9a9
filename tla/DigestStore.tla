----------------------------- MODULE DigestStore ----------------------------
(***************************************************************************)
(* What the digest ports promise, as the in-memory stores of ports/fake    *)
(* state it: every call holds the mutex, so a claim looks, decides and     *)
(* stamps in one step.  Digests refines it with MySQL's statements.        *)
(***************************************************************************)
EXTENDS Integers, Sequences, FiniteSets

CONSTANTS Projects, Duration, None

VARIABLES now, schedules, rows

storeVars == <<schedules, rows>>

Init == schedules = [p \in Projects |-> None] /\ rows = <<>>

\* due: never fired, or the period of the row has elapsed.
due(row, t) == row.lastFired = None \/ t >= row.lastFired + Duration[row.period]

\* dueOrder: the never-fired first, then the oldest bookmark; ids break a tie of
\* never-fired rows only.
dueOrder(a, b) ==
    LET f == schedules[a].lastFired
        g == schedules[b].lastFired
    IN  IF f # None /\ g # None THEN f <= g ELSE f = None /\ (g # None \/ a <= b)

UpsertDigestSchedule(p, period) ==
    /\ schedules' = [schedules EXCEPT ![p] =
          [period |-> period, lastFired |-> IF @ = None THEN None ELSE @.lastFired]]
    /\ UNCHANGED rows

DeleteDigestSchedule(p) ==
    /\ schedules[p] # None
    /\ schedules' = [schedules EXCEPT ![p] = None]
    /\ UNCHANGED rows

\* The time is the caller's.
ClaimDueDigestSchedule(p, t) ==
    LET candidates == {q \in Projects : schedules[q] # None /\ due(schedules[q], t)}
    IN  /\ p \in candidates
        /\ \A q \in candidates : dueOrder(p, q)
        /\ schedules' = [schedules EXCEPT ![p].lastFired = t]
        /\ UNCHANGED rows

\* Every row is born pending.
SaveDigest ==
    /\ Len(rows') = Len(rows) + 1 /\ SubSeq(rows', 1, Len(rows)) = rows
    /\ rows'[Len(rows')].status = "pending"
    /\ UNCHANGED schedules

\* The status moves off pending, once; only it changes.
MarkDigestDelivery(id) ==
    /\ rows[id].status = "pending"
    /\ \E status \in {"pending", "delivered", "failed"} :
          rows' = [rows EXCEPT ![id].status = status]
    /\ UNCHANGED schedules

Next ==
    \/ \E p \in Projects :
          \/ \E period \in DOMAIN Duration : UpsertDigestSchedule(p, period)
          \/ DeleteDigestSchedule(p)
          \/ \E t \in 0 .. now : ClaimDueDigestSchedule(p, t)
    \/ SaveDigest
    \/ \E id \in DOMAIN rows : MarkDigestDelivery(id)
=============================================================================
