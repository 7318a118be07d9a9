---------------------------- MODULE QuotaLedger ----------------------------
(***************************************************************************)
(* One tenant's engine quota: the reservation ledger                        *)
(* (adapters/repo/mysql/reservation_repository.go), the admission decision  *)
(* every caller shares (app/quotaapp/service.go) and the callers that use   *)
(* it: a manual or scheduled Trigger, the advance booking of a schedule's   *)
(* occurrence, Stop and Purge (app/lifecycleapp, app/scheduleapp).          *)
(*                                                                         *)
(* A process is one request of a cmd/api, cmd/scheduler or cmd/calibrator   *)
(* replica; each database call is one step.  Reserve runs under a MySQL     *)
(* named lock per cluster, everything else does not.  Time is a small       *)
(* integer and an execution's size and duration are constants: what the     *)
(* ledger does with them is compare and add.  Readiness, freeze and run     *)
(* rows are RunLifecycle's; here a run is its marker.                       *)
(***************************************************************************)
EXTENDS Integers, FiniteSets

CONSTANTS
    Procs,          \* concurrent requests
    Executions,
    Clusters,
    Targets,        \* Execution.Clusters(): where a run is reserved
    Home,           \* Execution.Cluster: where a booking is reserved
    Units,          \* engineEquivalents of an execution's profile
    Window,         \* LongestDurationSeconds
    DefaultCeiling, \* reservation.DefaultCeiling
    Ceilings,       \* what an administrator may set
    MaxTime,        \* bound on the clock
    MaxRows,        \* bound on reservations ever created
    None

ASSUME LedgerAssumption ==
    /\ Executions # {} /\ IsFiniteSet(Clusters) /\ IsFiniteSet(Procs)
    /\ Targets \in [Executions -> SUBSET Clusters]
    /\ Home \in [Executions -> Clusters]
    /\ Units \in [Executions -> Nat \ {0}]
    /\ Window \in [Executions -> Nat \ {0}]
    /\ DefaultCeiling \in Nat
    /\ Ceilings \subseteq Nat
    /\ MaxTime \in Nat
    /\ MaxRows \in Nat
    /\ None \notin Procs \cup Clusters \cup Executions \cup Nat

VARIABLES
    now,        \* the clock all services share
    quota,      \* tenant_quota: the ceiling of each cluster, or None
    rows,       \* reservation
    lastId,     \* its AUTO_INCREMENT
    lock,       \* the named lock of each cluster: its holder or None
    running,    \* executions with a run marker
    ran,        \* executions with a run in their history
    w           \* each process's program counter and locals

ledger == <<rows, lastId>>
runs == <<running, ran>>
vars == <<now, quota, ledger, lock, runs, w>>

Times == 0 .. MaxTime

Reservation ==
    [id : Nat, exe : Executions, cluster : Clusters, units : Nat \ {0},
     start : Nat, end : Nat, booked : BOOLEAN]

\* The engine units a set of reservations adds up to.
EngineCount(S) == Cardinality(UNION {{r} \X (1 .. r.units) : r \in S})

Overlaps(r, start, end) == r.start < end /\ start < r.end

At(p, label) == w[p].pc = label
Become(p, l) == w' = [w EXCEPT ![p] = l]
Goto(p, label) == Become(p, [w[p] EXCEPT !.pc = label])

Labels ==
    {"rest", "get_lock", "get_quota", "in_window", "overrun", "reclaim", "reclaim_release",
     "reclaim_stop", "create", "release", "start_run", "stop_release", "stop_run"}

Request(op, label, e, clusters, start) ==
    [pc |-> label, op |-> op, exe |-> e, todo |-> clusters, cluster |-> Home[e],
     start |-> start, ceiling |-> 0, used |-> 0, late |-> {}, tried |-> {}, victim |-> e]

Idle == Request("stop", "rest", CHOOSE e \in Executions : TRUE, {}, 0)

End(l) == l.start + Window[l.exe]
Needs(l) == l.used + Units[l.exe] - l.ceiling

----------------------------------------------------------------------------
(* Reserve *)

\* Mutant: Reserve does not take the lock.
NoTenantLock(p) ==
    /\ At(p, "get_lock")
    /\ Goto(p, "get_quota")
    /\ UNCHANGED <<now, quota, ledger, lock, runs>>

\* GET_LOCK: granted when free; a caller that waits tenantLockTimeout gives up.
WithTenantLock(p) ==
    /\ At(p, "get_lock")
    /\ lock[w[p].cluster] = None
    /\ lock' = [lock EXCEPT ![w[p].cluster] = p]
    /\ Goto(p, "get_quota")
    /\ UNCHANGED <<now, quota, ledger, runs>>

\* Reserve failed: a Trigger releases what it already reserved, a booking is
\* recorded as rejected by its caller.
Rejected(l) ==
    IF l.op = "trigger" THEN Request(l.op, "release", l.exe, {}, l.start) ELSE Idle

LockTimeout(p) ==
    /\ At(p, "get_lock")
    /\ lock[w[p].cluster] # None
    /\ Become(p, Rejected(w[p]))
    /\ UNCHANGED <<now, quota, ledger, lock, runs>>

\* An error inside the function WithTenantLock runs: the lock is released.
Reject(p) ==
    /\ lock' = [lock EXCEPT ![w[p].cluster] = None]
    /\ Become(p, Rejected(w[p]))
    /\ UNCHANGED <<now, quota, ledger, runs>>

\* No quota row means the platform's default ceiling, not 0.
GetQuota(p) ==
    /\ At(p, "get_quota")
    /\ LET c == quota[w[p].cluster]
       IN  Become(p, [w[p] EXCEPT !.pc = "in_window",
                                  !.ceiling = IF c = None THEN DefaultCeiling ELSE c])
    /\ UNCHANGED <<now, quota, ledger, lock, runs>>

InWindow(l) ==
    {r \in rows : r.cluster = l.cluster /\ Overlaps(r, l.start, End(l))}

ReservationsInWindow(p) ==
    /\ At(p, "in_window")
    /\ Become(p, [w[p] EXCEPT !.pc = "overrun", !.used = EngineCount(InWindow(w[p]))])
    /\ UNCHANGED <<now, quota, ledger, lock, runs>>

\* ReservationsForTenant and CurrentRun: past their end, execution still running.
\* Only an admission that starts now may reclaim their capacity.
OverrunReservations(p) ==
    LET late == {r \in rows : r.cluster = w[p].cluster /\ r.end < now /\ r.exe \in running}
        l == [w[p] EXCEPT !.used = @ + EngineCount(late)]
    IN  /\ At(p, "overrun")
        /\ Become(p, IF Needs(l) > 0 /\ l.start <= now
                     THEN [l EXCEPT !.pc = "reclaim", !.late = late]
                     ELSE [l EXCEPT !.pc = "create"])
        /\ UNCHANGED <<now, quota, ledger, lock, runs>>

\* Mutant: an overrun whose stop freed nothing is tried again.
ReclaimRetries(p) ==
    LET left == w[p].late \ w[p].tried
        first == {r \in left : \A q \in left : r.end <= q.end}
    IN  /\ At(p, "reclaim")
        /\ \/ /\ EngineCount(w[p].tried) >= Needs(w[p]) \/ left = {}
              /\ Goto(p, "create")
           \/ /\ EngineCount(w[p].tried) < Needs(w[p])
              /\ \E r \in first : Become(p, [w[p] EXCEPT !.pc = "reclaim_release",
                                                       !.victim = r.exe])
        /\ UNCHANGED <<now, quota, ledger, lock, runs>>

\* reclaimOverrun: stop the overruns, earliest end first, until enough is freed.
\* Stop refuses an execution that is not running, and Reserve fails with it.
ReclaimOverrun(p) ==
    LET left == w[p].late \ w[p].tried
        first == {r \in left : \A q \in left : r.end <= q.end}
    IN  /\ At(p, "reclaim")
        /\ \/ /\ EngineCount(w[p].tried) >= Needs(w[p]) \/ left = {}
              /\ Goto(p, "create")
              /\ UNCHANGED <<now, quota, ledger, lock, runs>>
           \/ /\ EngineCount(w[p].tried) < Needs(w[p])
              /\ \E r \in first :
                    /\ r.exe \in running
                    /\ Become(p, [w[p] EXCEPT !.pc = "reclaim_release",
                                              !.tried = @ \cup {r}, !.victim = r.exe])
                    /\ UNCHANGED <<now, quota, ledger, lock, runs>>
           \/ /\ EngineCount(w[p].tried) < Needs(w[p])
              /\ \E r \in first : r.exe \notin running
              /\ Reject(p)

\* The Stop of a reclaim: teardown releases the execution's reservations ...
ReclaimRelease(p) ==
    /\ At(p, "reclaim_release")
    /\ rows' = {r \in rows : r.exe # w[p].victim}
    /\ Goto(p, "reclaim_stop")
    /\ UNCHANGED <<now, quota, lastId, lock, runs>>

\* ... and StopRun deletes its run marker, if it still has one.
ReclaimStop(p) ==
    /\ At(p, "reclaim_stop")
    /\ running' = running \ {w[p].victim}
    /\ Goto(p, "reclaim")
    /\ UNCHANGED <<now, quota, ledger, lock, ran>>

\* The callers' loop over the clusters to reserve on, in any order.
NextCluster(p, op, e, todo, start) ==
    \/ \E c \in todo :
          Become(p, [Request(op, "get_lock", e, todo \ {c}, start) EXCEPT !.cluster = c])
    \/ /\ todo = {}
       /\ Become(p, IF op = "trigger" THEN Request(op, "start_run", e, {}, start) ELSE Idle)

\* The decision, on what was read less what was reclaimed; CreateReservation, and
\* the lock released as Reserve returns.
CreateReservation(p) ==
    /\ At(p, "create")
    /\ \/ /\ Needs(w[p]) > EngineCount(w[p].tried)
          /\ Reject(p)
       \/ /\ Needs(w[p]) <= EngineCount(w[p].tried)
          /\ lastId' = lastId + 1
          /\ rows' = rows \cup {[id |-> lastId + 1, exe |-> w[p].exe,
                                 cluster |-> w[p].cluster, units |-> Units[w[p].exe],
                                 start |-> w[p].start, end |-> End(w[p]),
                                 booked |-> w[p].op = "book"]}
          /\ lock' = [lock EXCEPT ![w[p].cluster] = None]
          /\ NextCluster(p, w[p].op, w[p].exe, w[p].todo, w[p].start)
          /\ UNCHANGED <<now, quota, runs>>

----------------------------------------------------------------------------
(* The callers of Reserve and Release *)

\* The bound on rows ever created leaves room for every request under way.
Room ==
    LET busy == {q \in Procs : ~At(q, "rest")}
    IN  lastId + Cardinality(Clusters) * (Cardinality(busy) + 1) <= MaxRows

\* Trigger's admission: no run is in progress, its window starts now.
Trigger(p, e) ==
    /\ At(p, "rest")
    /\ Room
    /\ e \notin running
    /\ NextCluster(p, "trigger", e, Targets[e], now)
    /\ UNCHANGED <<now, quota, ledger, lock, runs>>

\* reserveOccurrences: one occurrence of a schedule, at its fire time.
ReserveOccurrence(p, e, fireTime) ==
    /\ At(p, "rest")
    /\ Room
    /\ now <= fireTime
    /\ NextCluster(p, "book", e, {Home[e]}, fireTime)
    /\ UNCHANGED <<now, quota, ledger, lock, runs>>

\* A refused Trigger drops the execution's reservations wholesale.
Release(p) ==
    /\ At(p, "release")
    /\ rows' = {r \in rows : r.exe # w[p].exe}
    /\ Become(p, Idle)
    /\ UNCHANGED <<now, quota, lastId, lock, runs>>

\* StartRun's insert; refused when the execution has a marker, and then (as when
\* the correlation id cannot be read) the reservations stay.
StartRun(p) ==
    /\ At(p, "start_run")
    /\ \/ /\ w[p].exe \notin running
          /\ running' = running \cup {w[p].exe}
          /\ ran' = ran \cup {w[p].exe}
       \/ UNCHANGED runs
    /\ Become(p, Idle)
    /\ UNCHANGED <<now, quota, ledger, lock>>

\* teardown: of the run in progress (Stop), or of one that has ended (Purge).
Stop(p, e) ==
    /\ At(p, "rest")
    /\ e \in ran
    /\ Become(p, Request("stop", "stop_release", e, {}, now))
    /\ UNCHANGED <<now, quota, ledger, lock, runs>>

TeardownRelease(p) ==
    /\ At(p, "stop_release")
    /\ rows' = {r \in rows : r.exe # w[p].exe}
    /\ Goto(p, "stop_run")
    /\ UNCHANGED <<now, quota, lastId, lock, runs>>

StopRun(p) ==
    /\ At(p, "stop_run")
    /\ running' = running \ {w[p].exe}
    /\ Become(p, Idle)
    /\ UNCHANGED <<now, quota, ledger, lock, ran>>

\* ClaimDue and Delete of a schedule release one booking, by its id.
DeleteReservation(r) ==
    /\ r \in rows /\ r.booked
    /\ rows' = rows \ {r}
    /\ UNCHANGED <<now, quota, lastId, lock, runs, w>>

\* closeRun, when every engine has finished: the reservation stays.
RunCompletes(e) ==
    /\ e \in running
    /\ running' = running \ {e}
    /\ UNCHANGED <<now, quota, ledger, lock, ran, w>>

\* An administrator's PUT, not under the tenant lock.
SetCeiling(c, n) ==
    /\ quota[c] # n
    /\ quota' = [quota EXCEPT ![c] = n]
    /\ UNCHANGED <<now, ledger, lock, runs, w>>

\* A replica dies, or a database call fails: the lock goes with its connection.
Crash(p) ==
    /\ ~At(p, "rest")
    /\ lock' = [c \in Clusters |-> IF lock[c] = p THEN None ELSE lock[c]]
    /\ Become(p, Idle)
    /\ UNCHANGED <<now, quota, ledger, runs>>

Tick ==
    /\ now < MaxTime
    /\ now' = now + 1
    /\ UNCHANGED <<quota, ledger, lock, runs, w>>

----------------------------------------------------------------------------
Init ==
    /\ now = 0
    /\ quota = [c \in Clusters |-> None]
    /\ rows = {}
    /\ lastId = 0
    /\ lock = [c \in Clusters |-> None]
    /\ running = {}
    /\ ran = {}
    /\ w = [p \in Procs |-> Idle]

\* The steps a request takes by itself once begun.
Step(p) ==
    \/ WithTenantLock(p) \/ LockTimeout(p) \/ GetQuota(p) \/ ReservationsInWindow(p)
    \/ OverrunReservations(p) \/ ReclaimOverrun(p) \/ ReclaimRelease(p)
    \/ ReclaimStop(p) \/ CreateReservation(p) \/ Release(p)
    \/ StartRun(p) \/ TeardownRelease(p) \/ StopRun(p)

Begin(p) ==
    \E e \in Executions :
        \/ Trigger(p, e)
        \/ Stop(p, e)
        \/ \E t \in Times : ReserveOccurrence(p, e, t)

Next ==
    \/ \E p \in Procs : Begin(p) \/ Step(p) \/ Crash(p)
    \/ \E r \in rows : DeleteReservation(r)
    \/ \E e \in Executions : RunCompletes(e)
    \/ \E c \in Clusters, n \in Ceilings : SetCeiling(c, n)
    \/ Tick

Spec == Init /\ [][Next]_vars

FairSpec == Spec /\ \A p \in Procs : WF_vars(Step(p))

----------------------------------------------------------------------------
(* Properties *)

Locals ==
    [pc : Labels, op : {"trigger", "book", "stop"}, exe : Executions, todo : SUBSET Clusters,
     cluster : Clusters, start : Nat, ceiling : Nat, used : Nat,
     late : SUBSET Reservation, tried : SUBSET Reservation, victim : Executions]

StoreOK ==
    /\ now \in Nat
    /\ quota \in [Clusters -> Ceilings \cup {None}]
    /\ rows \subseteq Reservation
    /\ lastId \in Nat
    /\ \A r \in rows : r.id <= lastId
    /\ lock \in [Clusters -> Procs \cup {None}]
    /\ running \subseteq Executions
    /\ ran \subseteq Executions

\* The ledger, the locks, the run markers and every request's locals have their
\* types; in particular a cluster without a quota row never yields a ceiling of None,
\* and every id is one AUTO_INCREMENT has given out.
TypeOK == StoreOK /\ w \in [Procs -> Locals]

Spanning(S, c, t) == {r \in S : r.cluster = c /\ r.start <= t /\ t < r.end}

\* Reserve's promise, whatever triggers, bookings, stops, reclaims and quota edits
\* run beside it: at every instant of a newly admitted window, the engines reserved
\* on its cluster stay within the ceiling the admission read.
AdmissionFits ==
    [][\A r \in rows' \ rows : \E p \in Procs :
          /\ At(p, "create") /\ w[p].exe = r.exe
          /\ \A t \in r.start .. (r.end - 1) :
                EngineCount(Spanning(rows', r.cluster, t)) <= w[p].ceiling]_vars

\* Every request is answered: the wait for the lock is bounded, reclaimOverrun's
\* loop ends, and nobody keeps the lock.
RequestsAnswered == \A p \in Procs : ~At(p, "rest") ~> At(p, "rest")

=============================================================================
