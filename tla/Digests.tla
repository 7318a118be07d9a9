------------------------------ MODULE Digests -------------------------------
(***************************************************************************)
(* Report digests: a project's schedule, the replicas of cmd/scheduler     *)
(* that claim a due one with a conditional UPDATE and fire it, and the row *)
(* each fire stores, delivers and marks (app/digestapp,                    *)
(* repo/mysql/digest_schedule_repository.go, digest_repository.go,         *)
(* webhookapp.DeliverDigest).  A payload is the set of runs it aggregates. *)
(* A replica's claim and each statement of its fire are steps of their     *)
(* own.                                                                    *)
(***************************************************************************)
EXTENDS Integers, Sequences, FiniteSets, SequencesExt

CONSTANTS
    Projects,      \* project ids, numbers
    Replicas,
    Duration,      \* [{"daily", "weekly"} -> Nat]: Period.Duration
    Targets,       \* the receivers: webhooks, deploy-wide sink, Slack, mail relay
    LastInstant,   \* the clock stops there
    MaxDigests,    \* rows stored
    MaxEdits,      \* times a schedule is set or deleted
    MaxFaults,     \* failed statements and crashes
    None

Periods == DOMAIN Duration
Instants == 0 .. LastInstant

VARIABLES
    now,
    schedule,   \* digest_schedule: [period, lastFired], or None
    digests,    \* report_digest, in the order of ids
    run,        \* each project's run: when it started, whether its report is saved
    confirmed,  \* <<digest, target>>: the receiver answered
    w,          \* the replicas
    edits, faults

vars == <<now, schedule, digests, run, confirmed, w, edits, faults>>

Idle == [pc |-> "idle", list |-> <<>>, at |-> 0, project |-> 0, period |-> None,
         start |-> 0, end |-> 0, runs |-> {}, id |-> 0]

Init ==
    /\ now = 0
    /\ schedule = [p \in Projects |-> None]
    /\ digests = <<>>
    /\ run \in [Projects -> [started : {0, 1}, saved : {FALSE}]]
    /\ confirmed = {}
    /\ w = [q \in Replicas |-> Idle]
    /\ edits = 0 /\ faults = 0

At(q, label) == w[q].pc = label
Become(q, l) == w' = [w EXCEPT ![q] = l]

----------------------------------------------------------------------------
(* digest_schedule.                                                        *)

\* ON DUPLICATE KEY UPDATE keeps last_fired.
UpsertDigestSchedule(p, period) ==
    schedule' = [schedule EXCEPT ![p] =
        [period |-> period, lastFired |-> IF @ = None THEN None ELSE @.lastFired]]

\* setDigestConfig and SetSchedule.
SetSchedule(p, period) ==
    /\ schedule[p] # None => schedule[p].period # period
    /\ edits < MaxEdits /\ edits' = edits + 1
    /\ UpsertDigestSchedule(p, period)
    /\ UNCHANGED <<now, digests, run, confirmed, w, faults>>

\* deleteDigestConfig: the row goes, stored digests stay.
DeleteDigestSchedule(p) ==
    /\ schedule[p] # None
    /\ edits < MaxEdits /\ edits' = edits + 1
    /\ schedule' = [schedule EXCEPT ![p] = None]
    /\ UNCHANGED <<now, digests, run, confirmed, w, faults>>

Due(row, t) == row.lastFired = None \/ t >= row.lastFired + Duration[row.period]

\* Never-fired rows first, then the oldest bookmark, then the project id.
MoreOverdue(a, b) ==
    LET key(p) == IF schedule[p].lastFired = None THEN -1 ELSE schedule[p].lastFired
    IN  key(a) < key(b) \/ (key(a) = key(b) /\ a < b)

\* The candidates as they are read.
ListSchedules ==
    LET order == SetToSortSeq({p \in Projects : schedule[p] # None}, MoreOverdue)
    IN  [i \in DOMAIN order |-> [project |-> order[i], row |-> schedule[order[i]]]]

\* ClaimDueDigestSchedule up to its loop.
ClaimReads(q) ==
    /\ At(q, "idle")
    /\ ListSchedules # <<>>
    /\ Len(digests) < MaxDigests
    /\ Become(q, [Idle EXCEPT !.pc = "claim", !.list = ListSchedules, !.at = now])
    /\ UNCHANGED <<now, schedule, digests, run, confirmed, edits, faults>>

\* Mutant: the UPDATE re-checks nothing.
ClaimsUnguarded(c, t) == schedule[c.project] # None

\* The UPDATE's WHERE: a never-fired candidate has a NULL cutoff, which no real
\* last_fired is below.
ClaimMatches(c, t) ==
    LET row == schedule[c.project]
    IN  /\ row # None
        /\ \/ row.lastFired = None
           \/ c.row.lastFired # None /\ row.lastFired <= t - Duration[c.row.period]

\* The next candidate: not due, lost to another replica, or claimed.
ClaimUpdates(q) ==
    LET l == w[q]
        c == Head(l.list)
    IN  /\ At(q, "claim")
        /\ IF l.list = <<>>
           THEN Become(q, Idle) /\ UNCHANGED schedule
           ELSE IF Due(c.row, l.at) /\ ClaimMatches(c, l.at)
           THEN /\ schedule' = [schedule EXCEPT ![c.project].lastFired = l.at]
                /\ Become(q, [Idle EXCEPT !.pc = "fire", !.project = c.project,
                                          !.period = c.row.period, !.at = l.at])
           ELSE Become(q, [l EXCEPT !.list = Tail(@)]) /\ UNCHANGED schedule
        /\ UNCHANGED <<now, digests, run, confirmed, edits, faults>>

----------------------------------------------------------------------------
(* Fire.                                                                   *)

\* LastDigestWindowEnd: the newest row of the project and the period, by id.
LastDigestWindowEnd(p, period) ==
    LET mine == {i \in DOMAIN digests :
                   digests[i].project = p /\ digests[i].period = period}
    IN  IF mine = {} THEN None ELSE digests[CHOOSE i \in mine : \A j \in mine : j <= i].end

\* The project's reports that started in [start, end).
InWindow(p, start, end) ==
    {p2 \in {p} : run[p2].saved /\ start <= run[p2].started /\ run[p2].started < end}

\* Fire's window and BuildDigest's reads.
BuildDigest(q) ==
    LET last == LastDigestWindowEnd(w[q].project, w[q].period)
        start == IF last = None THEN now - Duration[w[q].period] ELSE last
    IN  /\ At(q, "fire")
        /\ Become(q, [w[q] EXCEPT !.pc = "save", !.start = start, !.end = now,
                                  !.runs = InWindow(w[q].project, start, now)])
        /\ UNCHANGED <<now, schedule, digests, run, confirmed, edits, faults>>

SaveDigest(q) ==
    /\ At(q, "save")
    /\ Len(digests) < MaxDigests
    /\ digests' = Append(digests,
          [project |-> w[q].project, period |-> w[q].period, start |-> w[q].start,
           end |-> w[q].end, runs |-> w[q].runs, status |-> "pending"])
    /\ Become(q, [Idle EXCEPT !.pc = "deliver", !.at = w[q].at,
                              !.id = Len(digests) + 1])
    /\ UNCHANGED <<now, schedule, run, confirmed, edits, faults>>

\* DeliverDigest: every target in turn, with its retries; some confirm.
DeliverDigest(q) ==
    \E answered \in SUBSET Targets :
        /\ At(q, "deliver")
        /\ confirmed' = confirmed \cup ({w[q].id} \X answered)
        /\ Become(q, [w[q] EXCEPT !.pc = "mark"])
        /\ UNCHANGED <<now, schedule, digests, run, edits, faults>>

\* The tri-state: nothing to notify leaves the row pending.
DeliveryStatus(id) ==
    IF Targets = {} THEN "pending"
    ELSE IF \E t \in Targets : <<id, t>> \in confirmed THEN "delivered" ELSE "failed"

MarkDigestDelivery(q) ==
    /\ At(q, "mark")
    /\ digests' = [digests EXCEPT ![w[q].id].status = DeliveryStatus(w[q].id)]
    /\ Become(q, Idle)
    /\ UNCHANGED <<now, schedule, run, confirmed, edits, faults>>

\* A statement fails or the replica dies: the fire is skipped, never retried.
FireFails(q) ==
    /\ ~At(q, "idle")
    /\ faults < MaxFaults /\ faults' = faults + 1
    /\ Become(q, Idle)
    /\ UNCHANGED <<now, schedule, digests, run, confirmed, edits>>

----------------------------------------------------------------------------
(* What a digest is about, and time.                                       *)

\* The report of a run is saved, at whatever time after it started.
ReportSaved(p) ==
    /\ run[p].started <= now /\ ~run[p].saved
    /\ run' = [run EXCEPT ![p].saved = TRUE]
    /\ UNCHANGED <<now, schedule, digests, confirmed, w, edits, faults>>

\* A claim and its fire take less than the shortest period.
Tick ==
    /\ now < LastInstant
    /\ \A q \in Replicas : At(q, "idle") \/ w[q].at = now
    /\ now' = now + 1
    /\ UNCHANGED <<schedule, digests, run, confirmed, w, edits, faults>>

Claims(q) == ClaimReads(q) \/ ClaimUpdates(q)
Fires(q) ==
    BuildDigest(q) \/ SaveDigest(q) \/ DeliverDigest(q) \/ MarkDigestDelivery(q)

Next ==
    \/ \E p \in Projects :
          \/ \E period \in Periods : SetSchedule(p, period)
          \/ DeleteDigestSchedule(p) \/ ReportSaved(p)
    \/ \E q \in Replicas : Claims(q) \/ Fires(q) \/ FireFails(q)
    \/ Tick

Spec == Init /\ [][Next]_vars

\* The replicas' tickers go on and their statements end.
FairSpec == Spec /\ \A q \in Replicas : WF_vars(Claims(q) \/ Fires(q))
----------------------------------------------------------------------------
(* Properties.                                                             *)

\* "at most one fire per due window even with many replicas polling": between
\* two claims of a schedule lies the period under which the second was read, so
\* never less than the shortest one, and the bookmark never goes back.
SpacedClaim ==
    \A p \in Projects :
        schedule[p] # None /\ schedule'[p] # None /\ schedule[p].lastFired # None
        /\ schedule'[p].lastFired # schedule[p].lastFired
        => /\ schedule'[p].lastFired # None
           /\ \E period \in Periods :
                 schedule'[p].lastFired >= schedule[p].lastFired + Duration[period]
ClaimsSpaced == [][SpacedClaim]_vars

\* The statements of the replicas amount to the calls of ports/fake, whose claim
\* looks and stamps under one mutex: nobody could tell MySQL's conditional UPDATE
\* from it, except where the period is switched between a replica's read and its
\* UPDATE (the claim then goes by the period it read).
Store == INSTANCE DigestStore WITH schedules <- schedule, rows <- digests

Switched ==
    \E q \in Replicas :
        /\ ClaimUpdates(q)
        /\ w[q].list # <<>> /\ schedule[Head(w[q].list).project] # None
        /\ Head(w[q].list).row.period # schedule[Head(w[q].list).project].period

StoreImplemented == Store!Init /\ [][Store!Next \/ Switched]_Store!storeVars

\* The stored status is what the receivers said: delivered only when one of
\* them confirmed this very digest, failed only when none did.
StatusHonest ==
    \A i \in DOMAIN digests :
        LET heard == \E t \in Targets : <<i, t>> \in confirmed
        IN  /\ digests[i].status = "delivered" => heard
            /\ digests[i].status = "failed" => ~heard

\* A due schedule is claimed, set anew or removed, however busy the others are.
DueIsClaimed ==
    \A p \in Projects :
        schedule[p] # None /\ Due(schedule[p], now)
            ~> \/ schedule[p] = None
               \/ schedule[p] # None /\ ~Due(schedule[p], now)
               \/ Len(digests) = MaxDigests

\* The digest rows are what the stores promise: written and claimed as by ports/fake,
\* no schedule claimed twice within a period, no status the receivers did not give.
DigestsKept == StoreImplemented /\ ClaimsSpaced /\ []StatusHonest
=============================================================================
