------------------------------ MODULE Schedule ------------------------------
(***************************************************************************)
(* Scheduled runs: creating and deleting schedules (app/scheduleapp, from    *)
(* cmd/api), rolling a recurring schedule's booked horizon forward and       *)
(* claiming due occurrences (cmd/scheduler's horizon and fire loops, on       *)
(* every replica), over the rows of adapters/repo/mysql/schedule_repository. *)
(*                                                                         *)
(* Each database call is one step.  A Reserve is admitted or refused by       *)
(* QuotaLedger's rules, here by choice; the Deploy and Trigger of a claimed   *)
(* occurrence are RunLifecycle's.  A cron expression is the set of its fire    *)
(* times; one unit of time is the nanosecond extendOne adds to the last one.  *)
(***************************************************************************)
EXTENDS Integers

CONSTANTS
    Schedules,      \* ids CreateSchedule may assign
    Recurring,      \* those of KindRecurring
    FireTimes,      \* the instants each one fires at
    Exe,            \* its ExecutionID
    Handlers,       \* concurrent cmd/api requests
    Extenders,      \* horizon loops, one per cmd/scheduler replica
    Firers,         \* fire loops, one per cmd/scheduler replica
    Horizon,        \* horizonDays
    Instants,       \* the clock's readings, a bound on time
    MaxFailures,    \* bound on crashes and failed calls
    None

Procs == Handlers \cup Extenders \cup Firers

ASSUME ScheduleAssumption ==
    /\ Recurring \subseteq Schedules
    /\ FireTimes \in [Schedules -> SUBSET Nat]
    /\ Horizon \in Nat \ {0}
    /\ Instants \subseteq Nat /\ 0 \in Instants
    /\ MaxFailures \in Nat
    /\ None \notin Procs \cup Schedules \cup Nat
    /\ Handlers \cap Extenders = {} /\ Firers \cap (Handlers \cup Extenders) = {}

VARIABLES
    now,            \* the clock all services share
    created,        \* the schedules ever created
    schedules,      \* schedule
    occs,           \* schedule_occurrence
    reservations,   \* reservation: the bookings' rows
    serial,         \* Reserve calls so far for each fire time: what tells rows apart
    lock,           \* the named lock of each schedule: its holder or None
    failures,       \* crashes and failed calls so far
    w               \* each process's program counter and locals

vars == <<now, created, schedules, occs, reservations, serial, lock, failures, w>>

Occurrence ==
    [sch : Schedules, at : Nat, n : Nat, status : {"reserved", "rejected", "fired"},
     by : {"create", "extend"}]

Reservation == [sch : Schedules, at : Nat, n : Nat]

\* The reservation an occurrence names.
ReservationID(o) == [sch |-> o.sch, at |-> o.at, n |-> o.n]

\* Every instant of [from, to) at which s fires.
Occurrences(s, from, to) == {t \in FireTimes[s] : from <= t /\ t < to}

\* The fire times, each of which has its own rows.
Slots == UNION {{s} \X FireTimes[s] : s \in Schedules}

First(S) == {t \in S : \A u \in S : t <= u}

OccurrencesForSchedule(s) == {o \in occs : o.sch = s}

At(p, label) == w[p].pc = label
Become(p, l) == w' = [w EXCEPT ![p] = l]

Work(label, s, list, clock, todo) ==
    [pc |-> label, sch |-> s, list |-> list, clock |-> clock, todo |-> todo, held |-> {},
     n |-> 0, status |-> "reserved"]

Holding(label, s, held) ==
    [pc |-> label, sch |-> s, list |-> {}, clock |-> 0, todo |-> {}, held |-> held,
     n |-> 0, status |-> "reserved"]

Idle == Work("rest", None, {}, 0, {})

\* ExtendHorizons' loop over the schedules it listed, in any order.
NextSchedule(p, list, clock) ==
    \/ \E s \in list : Become(p, Work("schedule_lock", s, list \ {s}, clock, {}))
    \/ list = {} /\ Become(p, Idle)

----------------------------------------------------------------------------
(* reserveOccurrences, shared by Create and extendOne *)

By(p) == IF p \in Extenders THEN "extend" ELSE "create"

\* Back in Create, or in extendOne, which gives the lock back.
Return(p) ==
    IF p \in Extenders
    THEN /\ lock' = [lock EXCEPT ![w[p].sch] = None]
         /\ NextSchedule(p, w[p].list, w[p].clock)
    ELSE Become(p, Idle) /\ UNCHANGED lock

\* quota.Reserve for the next fire time: admitted with a row, or refused.
Reserve(p) ==
    /\ At(p, "reserve")
    /\ \E t \in First(w[p].todo), status \in {"reserved", "rejected"} :
          LET n == serial[<<w[p].sch, t>>]
          IN  /\ serial' = [serial EXCEPT ![<<w[p].sch, t>>] = n + 1]
              /\ reservations' = IF status = "rejected" THEN reservations
                                 ELSE reservations \cup {[sch |-> w[p].sch, at |-> t, n |-> n]}
              /\ Become(p, [w[p] EXCEPT !.pc = "create_occurrence", !.n = n, !.status = status])
    /\ UNCHANGED <<now, created, schedules, occs, lock, failures>>

\* Mutant: a refused occurrence leaves no row.
RejectedUnrecorded(p) ==
    /\ At(p, "create_occurrence")
    /\ \E t \in First(w[p].todo) :
          LET left == w[p].todo \ {t}
              row == [sch |-> w[p].sch, at |-> t, n |-> w[p].n, status |-> w[p].status,
                      by |-> By(p)]
          IN  /\ occs' = occs \cup {o \in {row} : o.status = "reserved"}
              /\ IF left = {} THEN Return(p)
                 ELSE /\ Become(p, Work("reserve", w[p].sch, w[p].list, w[p].clock, left))
                      /\ UNCHANGED lock
    /\ UNCHANGED <<now, created, schedules, reservations, serial, failures>>

\* A refused occurrence is recorded too.
CreateOccurrence(p) ==
    /\ At(p, "create_occurrence")
    /\ \E t \in First(w[p].todo) :
          LET left == w[p].todo \ {t}
          IN  /\ occs' = occs \cup {[sch |-> w[p].sch, at |-> t, n |-> w[p].n,
                                     status |-> w[p].status, by |-> By(p)]}
              /\ IF left = {} THEN Return(p)
                 ELSE /\ Become(p, Work("reserve", w[p].sch, w[p].list, w[p].clock, left))
                      /\ UNCHANGED lock
    /\ UNCHANGED <<now, created, schedules, reservations, serial, failures>>

----------------------------------------------------------------------------
(* Create and Delete *)

\* Create's checks, the fire times from now on, and the insert of the schedule.
Create(p, s) ==
    /\ p \in Handlers /\ At(p, "rest")
    /\ s \notin created
    /\ created' = created \cup {s}
    /\ schedules' = schedules \cup {s}
    /\ LET todo == Occurrences(s, now, now + Horizon)
       IN  Become(p, IF todo = {} THEN Idle ELSE Work("reserve", s, {}, 0, todo))
    /\ UNCHANGED <<now, occs, reservations, serial, lock, failures>>

\* Delete reads the occurrences and keeps the reservations of the reserved ones.
Delete(p, s) ==
    /\ p \in Handlers /\ At(p, "rest")
    /\ s \in schedules
    /\ LET held == {o \in OccurrencesForSchedule(s) : o.status = "reserved"}
       IN  Become(p, Holding("delete_release", s, {ReservationID(o) : o \in held}))
    /\ UNCHANGED <<now, created, schedules, occs, reservations, serial, lock, failures>>

\* DeleteReservation for each of them; one that is gone already is no error.
DeleteRelease(p) ==
    /\ At(p, "delete_release")
    /\ \E id \in w[p].held :
          /\ reservations' = reservations \ {id}
          /\ Become(p, [w[p] EXCEPT !.held = @ \ {id}])
    /\ UNCHANGED <<now, created, schedules, occs, serial, lock, failures>>

\* The schedule and its occurrences go in one transaction, rolled back when the
\* schedule is gone.
DeleteSchedule(p) ==
    /\ At(p, "delete_release")
    /\ w[p].held = {}
    /\ schedules' = schedules \ {w[p].sch}
    /\ occs' = IF w[p].sch \in schedules
               THEN {o \in occs : o.sch # w[p].sch} ELSE occs
    /\ Become(p, Idle)
    /\ UNCHANGED <<now, created, reservations, serial, lock, failures>>

----------------------------------------------------------------------------
(* The horizon loop *)

\* ListActiveRecurringSchedules, and the clock the whole pass uses.
ExtendHorizons(p) ==
    /\ p \in Extenders /\ At(p, "rest")
    /\ NextSchedule(p, schedules \cap Recurring, now)
    /\ UNCHANGED <<now, created, schedules, occs, reservations, serial, lock, failures>>

\* Mutant: extendOne does not take the lock.
NoScheduleLock(p) ==
    /\ At(p, "schedule_lock")
    /\ Become(p, [w[p] EXCEPT !.pc = "existing"])
    /\ UNCHANGED <<now, created, schedules, occs, reservations, serial, lock, failures>>

\* GET_LOCK: granted when free; otherwise the wait times out, this schedule fails
\* and the pass goes on.
WithScheduleLock(p) ==
    /\ At(p, "schedule_lock")
    /\ \/ /\ lock[w[p].sch] = None
          /\ lock' = [lock EXCEPT ![w[p].sch] = p]
          /\ Become(p, [w[p] EXCEPT !.pc = "existing"])
       \/ /\ lock[w[p].sch] # None
          /\ NextSchedule(p, w[p].list, w[p].clock)
          /\ UNCHANGED lock
    /\ UNCHANGED <<now, created, schedules, occs, reservations, serial, failures>>

\* Mutant: a schedule without occurrences has nothing to go on from.
MissingAfterLast(s, clock) ==
    LET known == {o.at : o \in OccurrencesForSchedule(s)}
    IN  {t \in Occurrences(s, clock, clock + Horizon) :
            (\E k \in known : k < t) /\ \A k \in known : k < t}

\* The fire times after the last known occurrence if that one is to come, or from
\* now on.
Missing(s, clock) ==
    LET known == {o.at : o \in OccurrencesForSchedule(s)}
    IN  {t \in Occurrences(s, clock, clock + Horizon) :
            (\E k \in known : clock < k) => \A k \in known : k < t}

ExtendOne(p) ==
    /\ At(p, "existing")
    /\ LET todo == Missing(w[p].sch, w[p].clock)
       IN  IF todo = {} THEN Return(p)
           ELSE /\ Become(p, [w[p] EXCEPT !.pc = "reserve", !.todo = todo])
                /\ UNCHANGED lock
    /\ UNCHANGED <<now, created, schedules, occs, reservations, serial, failures>>

----------------------------------------------------------------------------
(* The fire loop *)

\* ClaimDueOccurrence: the earliest reserved occurrence that is due, marked fired
\* in one transaction.
ClaimDueOccurrence(p) ==
    LET due == {o \in occs : o.status = "reserved" /\ o.at <= now}
    IN  /\ p \in Firers /\ At(p, "rest")
        /\ \E o \in due :
              /\ \A q \in due : o.at <= q.at
              /\ occs' = (occs \ {o}) \cup {[o EXCEPT !.status = "fired"]}
              /\ Become(p, Holding("claim_release", o.sch, {ReservationID(o)}))
        /\ UNCHANGED <<now, created, schedules, reservations, serial, lock, failures>>

\* The booking gives way to the reservation Trigger makes.
ClaimRelease(p) ==
    /\ At(p, "claim_release")
    /\ reservations' = reservations \ w[p].held
    /\ Become(p, Idle)
    /\ UNCHANGED <<now, created, schedules, occs, serial, lock, failures>>

----------------------------------------------------------------------------
(* What happens beside them *)

\* quota.Release, from the teardown of a Stop or a Purge or a refused Trigger:
\* the execution's reservations wholesale.
Teardown(e) ==
    /\ \E r \in reservations : Exe[r.sch] = e
    /\ reservations' = {r \in reservations : Exe[r.sch] # e}
    /\ UNCHANGED <<now, created, schedules, occs, serial, lock, failures, w>>

\* A replica dies or a database call fails: the request ends where it is, and the
\* lock goes with its connection.
Fail(p) ==
    /\ ~At(p, "rest")
    /\ failures < MaxFailures
    /\ failures' = failures + 1
    /\ lock' = [s \in Schedules |-> IF lock[s] = p THEN None ELSE lock[s]]
    /\ Become(p, Idle)
    /\ UNCHANGED <<now, created, schedules, occs, reservations, serial>>

Tick ==
    /\ \E t \in Instants : now < t /\ now' = t
    /\ UNCHANGED <<created, schedules, occs, reservations, serial, lock, failures, w>>

----------------------------------------------------------------------------
Init ==
    /\ now = 0
    /\ created = {} /\ schedules = {}
    /\ occs = {} /\ reservations = {}
    /\ serial = [slot \in Slots |-> 0]
    /\ lock = [s \in Schedules |-> None]
    /\ failures = 0
    /\ w = [p \in Procs |-> Idle]

\* What a request or a loop does by itself once begun.
Step(p) ==
    \/ Reserve(p) \/ CreateOccurrence(p) \/ DeleteRelease(p) \/ DeleteSchedule(p)
    \/ WithScheduleLock(p) \/ ExtendOne(p) \/ ClaimRelease(p)

Next ==
    \/ \E p \in Procs : Step(p) \/ Fail(p)
    \/ \E p \in Handlers, s \in Schedules : Create(p, s) \/ Delete(p, s)
    \/ \E p \in Extenders : ExtendHorizons(p)
    \/ \E p \in Firers : ClaimDueOccurrence(p)
    \/ \E e \in {Exe[s] : s \in Schedules} : Teardown(e)
    \/ Tick

Spec == Init /\ [][Next]_vars

\* Requests go on, and the two loops of every replica keep ticking.
FairSpec ==
    /\ Spec
    /\ \A p \in Procs : WF_vars(Step(p))
    /\ \A p \in Extenders : WF_vars(ExtendHorizons(p))
    /\ \A p \in Firers : WF_vars(ClaimDueOccurrence(p))

----------------------------------------------------------------------------
(* Properties *)

Labels ==
    {"rest", "reserve", "create_occurrence", "delete_release", "schedule_lock", "existing",
     "claim_release"}

Locals ==
    [pc : Labels, sch : Schedules \cup {None}, list : SUBSET Schedules, clock : Instants,
     todo : SUBSET Nat, held : SUBSET Reservation, n : Nat, status : {"reserved", "rejected"}]

StoreOK ==
    /\ now \in Instants /\ failures \in Nat /\ serial \in [Slots -> Nat]
    /\ schedules \subseteq created /\ created \subseteq Schedules
    /\ occs \subseteq Occurrence
    /\ reservations \subseteq Reservation
    /\ \A r \in occs \cup reservations : <<r.sch, r.at>> \in Slots /\ r.n < serial[<<r.sch, r.at>>]
    /\ lock \in [Schedules -> Procs \cup {None}]

\* Rows, locks and every request's locals have their types, and every row is of a
\* fire time of its schedule that Reserve was asked for.
TypeOK == StoreOK /\ w \in [Procs -> Locals]

\* Two replicas' horizon loops never book the same fire time of a schedule twice,
\* whatever they interleave with.
NoDuplicateExtension ==
    \A o, q \in occs : o.by = "extend" /\ q.by = "extend" /\ o.sch = q.sch /\ o.at = q.at => o = q

\* A horizon has no holes: every coming fire time before a known occurrence is
\* known, so that extendOne may go on from the last one.
HorizonContiguous ==
    \A o \in occs : \A t \in FireTimes[o.sch] :
        o.sch \in schedules /\ now <= t /\ t < o.at => \E q \in occs : q.sch = o.sch /\ q.at = t

Covered(s) ==
    \A t \in Occurrences(s, now, now + Horizon) : \E o \in occs : o.sch = s /\ o.at = t

\* The horizon of a recurring schedule is booked in the end, also after a Create
\* that failed half way or a pass that was refused the lock.
HorizonCovered == \A s \in Recurring : s \in schedules ~> (s \notin schedules \/ Covered(s))

\* A due occurrence does not stay reserved: some replica claims it.
DueFires ==
    \A s \in Schedules : \A t \in FireTimes[s] :
        [](now >= t /\ (\E o \in occs : o.sch = s /\ o.at = t /\ o.status = "reserved")
             => <>(\A o \in occs : o.sch = s /\ o.at = t => o.status # "reserved"))

=============================================================================
