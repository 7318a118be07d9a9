------------------------- MODULE QuotaLedgerProofs -------------------------
(***************************************************************************)
(* That Reserve admits no window beyond the ceiling it read, for any number *)
(* of replicas, executions, clusters and reservations.                      *)
(*                                                                         *)
(* The argument: while a request is inside WithTenantLock nobody else       *)
(* inserts a reservation on its cluster, so the rows that overlap its       *)
(* window only shrink after it counted them; and what it subtracts as       *)
(* reclaimed was counted on top of the overlapping rows.                    *)
(***************************************************************************)
EXTENDS QuotaLedger, FiniteSetTheorems, TLAPS

\* A leaf is tried with SMT, with Zenon and with SMT again, unless it names its prover.
USE SMTT(30), ZenonT(30), SMTT(90)

Locked ==
    {"get_quota", "in_window", "overrun", "reclaim", "reclaim_release", "reclaim_stop",
     "create"}

Counted == {"overrun", "reclaim", "reclaim_release", "reclaim_stop", "create"}

\* What a request relies on: its lock, its count of the window, and that what it
\* subtracts was counted.
LocalOK(p, l) ==
    /\ l.pc \in Locked => lock[l.cluster] = p
    /\ l.pc \in Counted => EngineCount(InWindow(l)) + EngineCount(l.late) <= l.used
    /\ l.tried \subseteq l.late
    /\ IsFiniteSet(l.late)
    /\ l.pc \in {"get_lock", "get_quota", "in_window", "overrun"} => l.late = {}

IInv == TypeOK /\ IsFiniteSet(rows) /\ \A p \in Procs : LocalOK(p, w[p])

-----------------------------------------------------------------------------
(* Adding up reservations *)

Cells(S) == UNION {{r} \X (1 .. r.units) : r \in S}

\* A reservation's own engine units.
LEMMA OneRow ==
  ASSUME NEW r \in Reservation
  PROVE  IsFiniteSet({r} \X (1 .. r.units)) /\ Cardinality({r} \X (1 .. r.units)) = r.units
<1>1. PICK n : n = r.units
  OBVIOUS
<1>2. n \in Nat /\ n \in Int /\ 1 \in Int /\ n >= 1
  BY <1>1 DEF Reservation
<1>3. IsFiniteSet(1 .. n) /\ Cardinality(1 .. n) = n
  <2>1. IsFiniteSet(1 .. n) /\ Cardinality(1 .. n) = IF 1 > n THEN 0 ELSE n - 1 + 1
    BY <1>2, FS_Interval
  <2> QED
    BY <1>2, <2>1
<1>4. IsFiniteSet({r}) /\ Cardinality({r}) = 1
  BY FS_Singleton
<1>5. IsFiniteSet({r} \X (1 .. n))
      /\ Cardinality({r} \X (1 .. n)) = Cardinality({r}) * Cardinality(1 .. n)
  BY ZenonT(60), <1>3, <1>4, FS_Product
<1>6. 1 * n = n
  BY <1>2
<1> QED
  BY <1>1, <1>3, <1>4, <1>5, <1>6

\* Finitely many reservations have finitely many engine units.
LEMMA CellsFinite ==
  ASSUME NEW S, IsFiniteSet(S), S \subseteq Reservation
  PROVE  IsFiniteSet(Cells(S)) /\ EngineCount(S) = Cardinality(Cells(S))
                               /\ EngineCount(S) \in Nat
<1> DEFINE f == [r \in S |-> {r} \X (1 .. r.units)]
           F == {{r} \X (1 .. r.units) : r \in S}
<1>1. f \in Surjection(S, F)
  BY ZenonT(60) DEF Surjection
<1>2. IsFiniteSet(F)
  BY <1>1, FS_Surjection
<1>3. ASSUME NEW T \in F PROVE IsFiniteSet(T)
  <2>1. PICK r \in S : T = {r} \X (1 .. r.units)
    OBVIOUS
  <2> QED
    BY <2>1, OneRow
<1>4. IsFiniteSet(UNION F)
  BY ZenonT(60), <1>2, <1>3, FS_UNION
<1> QED
  BY <1>4, FS_CardinalityType DEF Cells, EngineCount

\* Fewer reservations hold no more engines.
LEMMA EngineCountMonotone ==
  ASSUME NEW S, IsFiniteSet(S), S \subseteq Reservation, NEW T, T \subseteq S
  PROVE  EngineCount(T) <= EngineCount(S) /\ EngineCount(T) \in Nat /\ EngineCount(S) \in Nat
<1>1. IsFiniteSet(T)
  BY FS_Subset
<1>2. Cells(T) \subseteq Cells(S)
  BY DEF Cells
<1>3. Cardinality(Cells(T)) <= Cardinality(Cells(S))
  BY <1>2, CellsFinite, FS_Subset
<1> QED
  BY <1>1, <1>3, CellsFinite

\* One more reservation adds at most its own engines.
LEMMA EngineCountAdd ==
  ASSUME NEW S, IsFiniteSet(S), S \subseteq Reservation, NEW r \in Reservation
  PROVE  EngineCount(S \cup {r}) <= EngineCount(S) + r.units
<1>1. IsFiniteSet(S \cup {r}) /\ IsFiniteSet({r})
  BY ZenonT(60), FS_AddElement, FS_Singleton
<1>2. Cells(S \cup {r}) = Cells(S) \cup ({r} \X (1 .. r.units))
  BY DEF Cells
<1>3. r.units \in Nat /\ r.units >= 1
  BY DEF Reservation
<1>4. IsFiniteSet({r} \X (1 .. r.units)) /\ Cardinality({r} \X (1 .. r.units)) = r.units
  BY OneRow
<1>5. IsFiniteSet(Cells(S)) /\ Cardinality(Cells(S)) = EngineCount(S)
  BY CellsFinite
<1>6. Cardinality(Cells(S) \cup ({r} \X (1 .. r.units))) <= EngineCount(S) + r.units
  <2> DEFINE A == Cells(S)
             B == {r} \X (1 .. r.units)
  <2>1. Cardinality(A \cup B) = Cardinality(A) + Cardinality(B) - Cardinality(A \cap B)
    BY <1>4, <1>5, FS_Union
  <2>2. Cardinality(A \cap B) \in Nat /\ Cardinality(A) \in Nat
    BY ZenonT(60), <1>5, FS_Intersection, FS_CardinalityType
  <2> QED
    BY <1>3, <1>4, <1>5, <2>1, <2>2
<1> QED
  BY ZenonT(60), <1>1, <1>2, <1>6, CellsFinite

-----------------------------------------------------------------------------
(* Steps *)

\* A request outside WithTenantLock relies on nothing.
LEMMA FreeLocal ==
  ASSUME NEW p, NEW l \in Locals, l.pc \notin Locked, l.late = {}, l.tried = {}
  PROVE  LocalOK(p, l) /\ LocalOK(p, l)'
BY FS_EmptySet DEF LocalOK, Locked, Counted

\* The locals of a new request.
LEMMA RequestType ==
  ASSUME NEW op \in {"trigger", "book", "stop"}, NEW label \in Labels \ Locked,
         NEW e \in Executions, NEW S \in SUBSET Clusters, NEW start \in Nat
  PROVE  /\ Request(op, label, e, S, start) \in Locals
         /\ Request(op, label, e, S, start).pc \notin Locked
         /\ Request(op, label, e, S, start).late = {}
         /\ Request(op, label, e, S, start).tried = {}
BY LedgerAssumption DEF Request, Locals

\* A process with no request in hand holds no lock and has counted nothing.
LEMMA IdleType == Idle \in Locals /\ Idle.pc \notin Locked /\ Idle.late = {} /\ Idle.tried = {}
<1>1. (CHOOSE e \in Executions : TRUE) \in Executions
  BY LedgerAssumption
<1>2. "rest" \in Labels \ Locked
  BY DEF Labels, Locked
<1> QED
  BY ZenonT(60), <1>1, <1>2, RequestType DEF Idle

\* What a request relies on stands while it keeps its lock and no row is added to a
\* window it has counted.
LEMMA LocalKeeps ==
  ASSUME IInv, NEW q, NEW m \in Locals, LocalOK(q, m),
         m.pc \in Locked => lock'[m.cluster] = q,
         \A r \in rows' \ rows : m.pc \in Counted => r.cluster # m.cluster
  PROVE  LocalOK(q, m)'
<1>1. ASSUME m.pc \in Counted
      PROVE  (EngineCount(InWindow(m)))' + EngineCount(m.late) <= m.used
  <2>1. InWindow(m)' \subseteq InWindow(m)
    BY <1>1 DEF InWindow
  <2>2. IsFiniteSet(InWindow(m)) /\ InWindow(m) \subseteq Reservation
    BY FS_Subset DEF IInv, TypeOK, StoreOK, InWindow
  <2>3. EngineCount(InWindow(m)') <= EngineCount(InWindow(m))
        /\ EngineCount(InWindow(m)') \in Nat /\ EngineCount(InWindow(m)) \in Nat
    BY <2>1, <2>2, EngineCountMonotone
  <2>4. EngineCount(m.late) \in Nat /\ m.used \in Nat
    BY CellsFinite DEF LocalOK, Locals
  <2>5. EngineCount(InWindow(m)) + EngineCount(m.late) <= m.used
    BY <1>1 DEF LocalOK
  <2>6. (EngineCount(InWindow(m)))' = EngineCount(InWindow(m)')
    BY DEF EngineCount
  <2> QED
    BY <2>3, <2>4, <2>5, <2>6
<1> QED
  BY <1>1 DEF LocalOK

\* A step of p that keeps the others' locks and adds no row to a window another
\* request has counted.
LEMMA StepKeeps ==
  ASSUME IInv, NEW p \in Procs, NEW l \in Locals, Become(p, l), StoreOK', IsFiniteSet(rows)',
         \A q \in Procs \ {p}, c \in Clusters : lock[c] = q => lock'[c] = q,
         \A q \in Procs \ {p} : \A r \in rows' \ rows :
            w[q].pc \in Counted => r.cluster # w[q].cluster,
         LocalOK(p, l)'
  PROVE  IInv'
<1>1. w' \in [Procs -> Locals] /\ w'[p] = l /\ \A q \in Procs \ {p} : w'[q] = w[q]
  BY DEF Become, IInv, TypeOK
<1>2. ASSUME NEW q \in Procs \ {p} PROVE LocalOK(q, w[q])'
  <2>1. PICK m : m = w[q]
    OBVIOUS
  <2>2. m \in Locals /\ w'[q] = m /\ LocalOK(q, m)
    BY <1>1, <2>1 DEF IInv, TypeOK
  <2>3. m.pc \in Locked => lock'[m.cluster] = q
    BY <2>2 DEF LocalOK, Locals
  <2>4. LocalOK(q, m)'
    BY <2>1, <2>2, <2>3, LocalKeeps
  <2> QED
    BY <2>2, <2>4
<1> QED
  BY <1>1, <1>2 DEF IInv, TypeOK

\* A step of the environment, which only removes rows.
LEMMA EnvironmentStep ==
  ASSUME IInv, UNCHANGED <<w, lock>>, StoreOK', rows' \subseteq rows
  PROVE  IInv'
<1>1. IsFiniteSet(rows)'
  BY FS_Subset DEF IInv
<1>2. ASSUME NEW q \in Procs PROVE LocalOK(q, w[q])'
  <2>1. PICK m : m = w[q]
    OBVIOUS
  <2>2. m \in Locals /\ w'[q] = m /\ LocalOK(q, m)
    BY <2>1 DEF IInv, TypeOK
  <2>3. LocalOK(q, m)'
    BY <2>2, LocalKeeps DEF LocalOK
  <2> QED
    BY <2>2, <2>3
<1> QED
  BY <1>1, <1>2 DEF IInv, TypeOK

\* A step of p that leaves the ledger and the locks alone.
LEMMA QuietStep ==
  ASSUME IInv, NEW p \in Procs, NEW l \in Locals, Become(p, l), LocalOK(p, l),
         UNCHANGED <<now, quota, ledger, lock>>,
         running' \subseteq Executions, ran' \subseteq Executions
  PROVE  IInv'
<1>1. rows' = rows /\ lastId' = lastId /\ lock' = lock
  BY DEF ledger
<1>2. StoreOK' /\ IsFiniteSet(rows)'
  BY <1>1 DEF IInv, TypeOK, StoreOK
<1>3. LocalOK(p, l)'
  BY <1>1 DEF LocalOK, InWindow
<1>4. \A q \in Procs \ {p} : \A r \in rows' \ rows :
         w[q].pc \in Counted => r.cluster # w[q].cluster
  BY <1>1
<1> QED
  BY <1>1, <1>2, <1>3, <1>4, StepKeeps

\* A step of p, outside WithTenantLock after it, that only removes rows.
LEMMA RemoveStep ==
  ASSUME IInv, NEW p \in Procs, NEW l \in Locals, Become(p, l),
         l.pc \notin Locked, l.late = {}, l.tried = {},
         rows' \subseteq rows, UNCHANGED <<now, quota, lastId, lock, runs>>
  PROVE  IInv'
<1>1. StoreOK'
  BY DEF IInv, TypeOK, StoreOK, runs
<1>2. IsFiniteSet(rows)'
  BY FS_Subset DEF IInv
<1>3. LocalOK(p, l)'
  BY FreeLocal
<1> QED
  BY <1>1, <1>2, <1>3, StepKeeps

\* p's locals, as the invariant has them.
LEMMA MyLocals ==
  ASSUME IInv, NEW p \in Procs
  PROVE  w[p] \in Locals /\ LocalOK(p, w[p]) /\ w[p].cluster \in Clusters
         /\ w[p].exe \in Executions /\ w[p].todo \subseteq Clusters /\ w[p].start \in Nat
         /\ w[p].op \in {"trigger", "book", "stop"} /\ w[p].used \in Nat
         /\ w[p].ceiling \in Nat
BY DEF IInv, TypeOK, Locals

\* Going on to the next cluster of an execution leaves the previous lock behind.
LEMMA NextClusterType ==
  ASSUME NEW p, NEW op \in {"trigger", "book", "stop"}, NEW e \in Executions,
         NEW todo \in SUBSET Clusters, NEW start \in Nat, NextCluster(p, op, e, todo, start)
  PROVE  \E l \in Locals : Become(p, l) /\ l.pc \notin Locked /\ l.late = {} /\ l.tried = {}
<1>1. {"get_lock", "start_run"} \subseteq Labels \ Locked
  BY DEF Labels, Locked
<1>2. ASSUME NEW c \in todo,
             Become(p, [Request(op, "get_lock", e, todo \ {c}, start) EXCEPT !.cluster = c])
      PROVE  \E l \in Locals : Become(p, l) /\ l.pc \notin Locked /\ l.late = {} /\ l.tried = {}
  <2> DEFINE l == [Request(op, "get_lock", e, todo \ {c}, start) EXCEPT !.cluster = c]
  <2>1. Request(op, "get_lock", e, todo \ {c}, start) \in Locals
        /\ Request(op, "get_lock", e, todo \ {c}, start).pc \notin Locked
        /\ Request(op, "get_lock", e, todo \ {c}, start).late = {}
        /\ Request(op, "get_lock", e, todo \ {c}, start).tried = {}
    BY ZenonT(60), <1>1, RequestType
  <2>2. l \in Locals /\ l.pc \notin Locked /\ l.late = {} /\ l.tried = {}
    BY ZenonT(60), <2>1 DEF Locals
  <2> QED
    BY ZenonT(60), <1>2, <2>2
<1>3. Request(op, "start_run", e, {}, start) \in Locals
      /\ Request(op, "start_run", e, {}, start).pc \notin Locked
      /\ Request(op, "start_run", e, {}, start).late = {}
      /\ Request(op, "start_run", e, {}, start).tried = {}
  BY ZenonT(60), <1>1, RequestType
<1> QED
  BY ZenonT(60), <1>2, <1>3, IdleType DEF NextCluster

\* A rejected reservation goes on to Release (a trigger) or ends, without the lock.
LEMMA RejectedType ==
  ASSUME NEW l \in Locals
  PROVE  Rejected(l) \in Locals /\ Rejected(l).pc \notin Locked
         /\ Rejected(l).late = {} /\ Rejected(l).tried = {}
<1>1. "release" \in Labels \ Locked /\ l.exe \in Executions /\ l.start \in Nat
      /\ {} \in SUBSET Clusters
  BY DEF Labels, Locked, Locals
<1>2. l.op = "trigger" => /\ Rejected(l) \in Locals /\ Rejected(l).pc \notin Locked
                          /\ Rejected(l).late = {} /\ Rejected(l).tried = {}
  BY ZenonT(60), <1>1, RequestType DEF Rejected
<1> QED
  BY <1>2, IdleType DEF Rejected

\* Reserve returns an error: p's lock goes, the others keep theirs.
LEMMA RejectStep ==
  ASSUME IInv, NEW p \in Procs, w[p].pc \in Locked, Reject(p)
  PROVE  IInv'
<1>1. w[p] \in Locals /\ w[p].cluster \in Clusters /\ lock[w[p].cluster] = p
  BY MyLocals DEF LocalOK
<1>2. PICK l : l = Rejected(w[p])
  OBVIOUS
<1>3. l \in Locals /\ l.pc \notin Locked /\ l.late = {} /\ l.tried = {} /\ Become(p, l)
  BY <1>1, <1>2, RejectedType DEF Reject
<1>4. StoreOK' /\ IsFiniteSet(rows)' /\ rows' = rows
  BY <1>1 DEF IInv, TypeOK, StoreOK, Reject, ledger, runs
<1>5. \A q \in Procs \ {p}, c \in Clusters : lock[c] = q => lock'[c] = q
  BY <1>1 DEF Reject, IInv, TypeOK, StoreOK
<1>6. LocalOK(p, l)'
  BY <1>3, FreeLocal
<1> QED
  BY <1>3, <1>4, <1>5, <1>6, StepKeeps

\* GET_LOCK.
LEMMA LockSteps ==
  ASSUME IInv, NEW p \in Procs, WithTenantLock(p) \/ LockTimeout(p)
  PROVE  IInv'
<1> USE LedgerAssumption
<1>0. w[p] \in Locals /\ LocalOK(p, w[p]) /\ w[p].cluster \in Clusters
  BY MyLocals
<1>1. CASE WithTenantLock(p)
  <2>1. PICK l : l = [w[p] EXCEPT !.pc = "get_quota"]
    BY ZenonT(60)
  <2>2. l \in Locals /\ l.pc = "get_quota" /\ l.cluster = w[p].cluster
        /\ l.late = w[p].late /\ l.tried = w[p].tried
    BY <1>0, <2>1 DEF Locals, Labels
  <2>3. Become(p, l) /\ rows' = rows /\ lock' = [lock EXCEPT ![w[p].cluster] = p]
    BY <1>1, <2>1 DEF WithTenantLock, Goto, ledger
  <2>4. StoreOK' /\ IsFiniteSet(rows)'
    BY <1>0, <1>1 DEF WithTenantLock, IInv, TypeOK, StoreOK, ledger, runs
  <2>5. \A q \in Procs \ {p}, c \in Clusters : lock[c] = q => lock'[c] = q
    BY <1>0, <1>1 DEF WithTenantLock, IInv, TypeOK, StoreOK
  <2>6. lock'[l.cluster] = p
    BY <1>0, <2>2, <2>3 DEF IInv, TypeOK, StoreOK
  <2>7. LocalOK(p, l)'
    BY <1>0, <1>1, <2>2, <2>6 DEF LocalOK, Counted, WithTenantLock, At
  <2> QED
    BY <2>2, <2>3, <2>4, <2>5, <2>7, StepKeeps
<1>2. CASE LockTimeout(p)
  <2>1. PICK l : l = Rejected(w[p])
    OBVIOUS
  <2>2. l \in Locals /\ l.pc \notin Locked /\ l.late = {} /\ l.tried = {} /\ Become(p, l)
    BY <1>0, <1>2, <2>1, RejectedType DEF LockTimeout
  <2>3. LocalOK(p, l)
    BY <2>2, FreeLocal
  <2>4. UNCHANGED <<now, quota, ledger, lock>> /\ running' \subseteq Executions
        /\ ran' \subseteq Executions
    BY <1>2 DEF LockTimeout, runs, IInv, TypeOK, StoreOK
  <2> QED
    BY <2>2, <2>3, <2>4, QuietStep
<1> QED
  BY <1>1, <1>2

\* No reservations count for no engines.
LEMMA EmptyCount == EngineCount({}) = 0
<1>1. UNION {{r} \X (1 .. r.units) : r \in {}} = {}
  OBVIOUS
<1> QED
  BY <1>1, FS_EmptySet DEF EngineCount

\* The reads of an admission: the ceiling, then the window.
LEMMA ReadSteps ==
  ASSUME IInv, NEW p \in Procs, GetQuota(p) \/ ReservationsInWindow(p)
  PROVE  IInv'
<1> USE LedgerAssumption
<1>0. w[p] \in Locals /\ LocalOK(p, w[p]) /\ w[p].cluster \in Clusters
  BY MyLocals
<1>1. CASE GetQuota(p)
  <2>1. PICK c : c = IF quota[w[p].cluster] = None THEN DefaultCeiling ELSE quota[w[p].cluster]
    OBVIOUS
  <2>2. c \in Nat
    BY <1>0, <2>1 DEF IInv, TypeOK, StoreOK
  <2>3. PICK l : l = [w[p] EXCEPT !.pc = "in_window", !.ceiling = c]
    OBVIOUS
  <2>4. l \in Locals /\ l.pc = "in_window" /\ l.cluster = w[p].cluster
        /\ l.late = w[p].late /\ l.tried = w[p].tried
    BY ZenonT(60), <1>0, <2>2, <2>3 DEF Locals, Labels
  <2>5. Become(p, l) /\ UNCHANGED <<now, quota, ledger, lock, runs>> /\ w[p].pc = "get_quota"
    BY <1>1, <2>1, <2>3 DEF GetQuota, At
  <2>6. LocalOK(p, l)
    BY <1>0, <2>4, <2>5 DEF LocalOK, Locked, Counted
  <2>7. running' \subseteq Executions /\ ran' \subseteq Executions
    BY <2>5 DEF runs, IInv, TypeOK, StoreOK
  <2> QED
    BY <2>4, <2>5, <2>6, <2>7, QuietStep
<1>2. CASE ReservationsInWindow(p)
  <2>1. PICK n : n = EngineCount(InWindow(w[p]))
    OBVIOUS
  <2>2. n \in Nat
    <3>1. IsFiniteSet(InWindow(w[p])) /\ InWindow(w[p]) \subseteq Reservation
      BY FS_Subset DEF IInv, TypeOK, StoreOK, InWindow
    <3> QED
      BY <2>1, <3>1, CellsFinite
  <2>3. PICK l : l = [w[p] EXCEPT !.pc = "overrun", !.used = n]
    OBVIOUS
  <2>4. l \in Locals /\ l.pc = "overrun" /\ l.cluster = w[p].cluster /\ l.start = w[p].start
        /\ l.exe = w[p].exe /\ l.used = n /\ l.late = w[p].late /\ l.tried = w[p].tried
    BY ZenonT(60), <1>0, <2>2, <2>3 DEF Locals, Labels
  <2>5. Become(p, l) /\ UNCHANGED <<now, quota, ledger, lock, runs>> /\ w[p].pc = "in_window"
    BY <1>2, <2>1, <2>3 DEF ReservationsInWindow, At
  <2>6. InWindow(l) = InWindow(w[p])
    BY <2>4 DEF InWindow, End
  <2>7. w[p].late = {} /\ lock[w[p].cluster] = p /\ w[p].tried \subseteq {}
    BY <1>0, <2>5 DEF LocalOK, Locked
  <2>8. EngineCount(InWindow(l)) + EngineCount(l.late) <= l.used
    BY <2>1, <2>2, <2>4, <2>6, <2>7, EmptyCount
  <2>9. LocalOK(p, l)
    BY <2>4, <2>7, <2>8, FS_EmptySet DEF LocalOK
  <2>10. running' \subseteq Executions /\ ran' \subseteq Executions
    BY <2>5 DEF runs, IInv, TypeOK, StoreOK
  <2> QED
    BY <2>4, <2>5, <2>9, <2>10, QuietStep
<1> QED
  BY <1>1, <1>2

\* The overruns are counted on top of the window.
LEMMA OverrunStep ==
  ASSUME IInv, NEW p \in Procs, OverrunReservations(p)
  PROVE  IInv'
<1>0. w[p] \in Locals /\ LocalOK(p, w[p]) /\ w[p].pc = "overrun" /\ w[p].used \in Nat
  BY MyLocals DEF OverrunReservations, At
<1>1. PICK late : late = {r \in rows : r.cluster = w[p].cluster /\ r.end < now
                                       /\ r.exe \in running}
  BY ZenonT(60)
<1>2. IsFiniteSet(late) /\ late \subseteq Reservation /\ EngineCount(late) \in Nat
  <2>1. IsFiniteSet(late) /\ late \subseteq Reservation
    BY <1>1, FS_Subset DEF IInv, TypeOK, StoreOK
  <2> QED
    BY <2>1, CellsFinite
<1>3. PICK n \in Nat : n = w[p].used + EngineCount(late)
  BY <1>0, <1>2
<1>4. PICK k : k = [w[p] EXCEPT !.used = n]
  BY ZenonT(60)
<1>5. PICK a : a = [k EXCEPT !.pc = "reclaim", !.late = late]
  OBVIOUS
<1>6. PICK b : b = [k EXCEPT !.pc = "create"]
  BY ZenonT(60)
<1>7. k = [w[p] EXCEPT !.used = @ + EngineCount(late)]
  BY <1>0, <1>3, <1>4 DEF Locals
<1>8. PICK l \in {a, b} : Become(p, l)
  BY <1>1, <1>5, <1>6, <1>7 DEF OverrunReservations
<1>9. k \in Locals
  BY <1>0, <1>4 DEF Locals
<1>10. /\ a \in Locals /\ a.pc = "reclaim" /\ a.late = late /\ a.tried = w[p].tried /\ a.used = n
       /\ a.cluster = w[p].cluster /\ a.start = w[p].start /\ a.exe = w[p].exe
  BY ZenonT(60), <1>0, <1>2, <1>4, <1>5, <1>9 DEF Locals, Labels
<1>11. /\ b \in Locals /\ b.pc = "create" /\ b.late = w[p].late /\ b.tried = w[p].tried
       /\ b.used = n
       /\ b.cluster = w[p].cluster /\ b.start = w[p].start /\ b.exe = w[p].exe
  BY ZenonT(60), <1>0, <1>4, <1>6, <1>9 DEF Locals, Labels
<1>12. /\ w[p].late = {} /\ lock[w[p].cluster] = p /\ w[p].tried \subseteq {}
       /\ EngineCount(InWindow(w[p])) + EngineCount({}) <= w[p].used
  BY <1>0 DEF LocalOK, Locked, Counted
<1>13. EngineCount(InWindow(w[p])) \in Nat
  <2>1. IsFiniteSet(InWindow(w[p])) /\ InWindow(w[p]) \subseteq Reservation
    BY FS_Subset DEF IInv, TypeOK, StoreOK, InWindow
  <2> QED
    BY <2>1, CellsFinite
<1>14. InWindow(a) = InWindow(w[p]) /\ InWindow(b) = InWindow(w[p])
  BY <1>10, <1>11 DEF InWindow, End
<1>15. LocalOK(p, a)
  <2>1. EngineCount(InWindow(a)) + EngineCount(a.late) <= a.used
    BY <1>0, <1>2, <1>3, <1>10, <1>12, <1>13, <1>14, EmptyCount
  <2> QED
    BY <1>2, <1>10, <1>12, <2>1 DEF LocalOK
<1>16. LocalOK(p, b)
  <2>1. EngineCount(InWindow(b)) + EngineCount(b.late) <= b.used
    BY <1>0, <1>2, <1>3, <1>11, <1>12, <1>13, <1>14, EmptyCount
  <2> QED
    BY <1>11, <1>12, <2>1, FS_EmptySet DEF LocalOK
<1>17. UNCHANGED <<now, quota, ledger, lock>> /\ running' \subseteq Executions
       /\ ran' \subseteq Executions
  BY DEF OverrunReservations, runs, IInv, TypeOK, StoreOK
<1>18. l \in Locals /\ LocalOK(p, l)
  BY <1>8, <1>10, <1>11, <1>15, <1>16
<1> QED
  BY <1>8, <1>17, <1>18, QuietStep

\* reclaimOverrun's loop only subtracts reservations it counted as overrun.
LEMMA ReclaimSteps ==
  ASSUME IInv, NEW p \in Procs, ReclaimOverrun(p) \/ ReclaimRelease(p) \/ ReclaimStop(p)
  PROVE  IInv'
<1>0. w[p] \in Locals /\ LocalOK(p, w[p]) /\ w[p].cluster \in Clusters
  BY MyLocals
<1>1. ASSUME NEW label \in {"create", "reclaim_stop", "reclaim"}, w[p].pc \in Counted \ {"overrun"},
             NEW l, l = [w[p] EXCEPT !.pc = label]
      PROVE  l \in Locals /\ LocalOK(p, l) /\ l.pc \in Locked /\ l.pc \in Counted
             /\ l.cluster = w[p].cluster
  <2>1. l \in Locals /\ l.pc = label /\ l.cluster = w[p].cluster /\ l.start = w[p].start
        /\ l.exe = w[p].exe /\ l.used = w[p].used /\ l.late = w[p].late /\ l.tried = w[p].tried
    BY <1>0, <1>1 DEF Locals, Labels
  <2>2. InWindow(l) = InWindow(w[p])
    BY <2>1 DEF InWindow, End
  <2> QED
    BY <1>0, <1>1, <2>1, <2>2 DEF LocalOK, Locked, Counted
<1>2. CASE ReclaimOverrun(p)
  <2>0. w[p].pc = "reclaim" /\ w[p].pc \in Counted \ {"overrun"} /\ w[p].pc \in Locked
    BY ZenonT(60), <1>2 DEF ReclaimOverrun, At, Counted, Locked
  <2>1. ASSUME Goto(p, "create"), UNCHANGED <<now, quota, ledger, lock, runs>> PROVE IInv'
    <3>1. PICK l : l = [w[p] EXCEPT !.pc = "create"]
      BY ZenonT(60)
    <3>2. l \in Locals /\ LocalOK(p, l) /\ Become(p, l)
      BY <1>1, <2>0, <2>1, <3>1 DEF Goto
    <3>3. running' \subseteq Executions /\ ran' \subseteq Executions
      BY <2>1 DEF runs, IInv, TypeOK, StoreOK
    <3> QED
      BY <2>1, <3>2, <3>3, QuietStep
  <2>2. ASSUME NEW r \in w[p].late,
               Become(p, [w[p] EXCEPT !.pc = "reclaim_release", !.tried = @ \cup {r},
                                      !.victim = r.exe]),
               UNCHANGED <<now, quota, ledger, lock, runs>>
        PROVE  IInv'
    <3>1. PICK l : l = [w[p] EXCEPT !.pc = "reclaim_release", !.tried = @ \cup {r},
                                    !.victim = r.exe]
      OBVIOUS
    <3>2. r \in Reservation /\ r.exe \in Executions
      BY <1>0 DEF Locals, Reservation
    <3>3. l \in Locals /\ l.pc = "reclaim_release" /\ l.cluster = w[p].cluster
          /\ l.start = w[p].start /\ l.exe = w[p].exe /\ l.used = w[p].used
          /\ l.late = w[p].late /\ l.tried = w[p].tried \cup {r}
      BY ZenonT(60), <1>0, <3>1, <3>2 DEF Locals, Labels
    <3>4. InWindow(l) = InWindow(w[p])
      BY <3>3 DEF InWindow, End
    <3>5. LocalOK(p, l)
      BY <1>0, <2>0, <3>3, <3>4 DEF LocalOK, Locked, Counted
    <3>6. running' \subseteq Executions /\ ran' \subseteq Executions
      BY <2>2 DEF runs, IInv, TypeOK, StoreOK
    <3> QED
      BY <2>2, <3>1, <3>3, <3>5, <3>6, QuietStep
  <2>3. Reject(p) => IInv'
    BY <2>0, RejectStep
  <2> QED
    BY ZenonT(60), <1>2, <2>1, <2>2, <2>3 DEF ReclaimOverrun
<1>3. CASE ReclaimRelease(p)
  <2>1. PICK l : l = [w[p] EXCEPT !.pc = "reclaim_stop"]
    BY ZenonT(60)
  <2>2. w[p].pc \in Counted \ {"overrun"}
    BY <1>3 DEF ReclaimRelease, At, Counted
  <2>3. l \in Locals /\ LocalOK(p, l) /\ Become(p, l)
    BY <1>1, <1>3, <2>1, <2>2 DEF ReclaimRelease, Goto
  <2>4. rows' \subseteq rows /\ lock' = lock
    BY <1>3 DEF ReclaimRelease
  <2>5. LocalOK(p, l)'
    BY <2>3, <2>4, LocalKeeps DEF LocalOK
  <2>6. StoreOK'
    BY <1>3, <2>4 DEF ReclaimRelease, IInv, TypeOK, StoreOK, runs
  <2>7. IsFiniteSet(rows)'
    BY <2>4, FS_Subset DEF IInv
  <2> QED
    BY <2>3, <2>4, <2>5, <2>6, <2>7, StepKeeps
<1>4. CASE ReclaimStop(p)
  <2>1. PICK l : l = [w[p] EXCEPT !.pc = "reclaim"]
    BY ZenonT(60)
  <2>2. w[p].pc \in Counted \ {"overrun"}
    BY <1>4 DEF ReclaimStop, At, Counted
  <2>3. l \in Locals /\ LocalOK(p, l) /\ Become(p, l)
    BY <1>1, <1>4, <2>1, <2>2 DEF ReclaimStop, Goto
  <2>4. UNCHANGED <<now, quota, ledger, lock>> /\ running' \subseteq Executions
        /\ ran' \subseteq Executions
    BY <1>4 DEF ReclaimStop, IInv, TypeOK, StoreOK
  <2> QED
    BY <2>3, <2>4, QuietStep
<1> QED
  BY <1>2, <1>3, <1>4

\* A row is added: its cluster is locked by its creator, so no other request has a
\* count of that cluster under way.
LEMMA CreateStep ==
  ASSUME IInv, NEW p \in Procs, CreateReservation(p)
  PROVE  IInv'
<1> USE LedgerAssumption
<1>0. /\ w[p] \in Locals /\ LocalOK(p, w[p]) /\ w[p].cluster \in Clusters
      /\ w[p].exe \in Executions /\ w[p].todo \in SUBSET Clusters /\ w[p].start \in Nat
      /\ w[p].op \in {"trigger", "book", "stop"} /\ w[p].pc = "create"
  BY MyLocals DEF CreateReservation, At
<1>1. w[p].pc \in Locked /\ lock[w[p].cluster] = p
  BY <1>0 DEF LocalOK, Locked
<1>2. Reject(p) => IInv'
  BY <1>1, RejectStep
<1>3. ASSUME ~Reject(p) PROVE IInv'
  <2> DEFINE new == [id |-> lastId + 1, exe |-> w[p].exe, cluster |-> w[p].cluster,
                     units |-> Units[w[p].exe], start |-> w[p].start, end |-> End(w[p]),
                     booked |-> w[p].op = "book"]
  <2>1. /\ lastId' = lastId + 1 /\ rows' = rows \cup {new}
        /\ lock' = [lock EXCEPT ![w[p].cluster] = None]
        /\ NextCluster(p, w[p].op, w[p].exe, w[p].todo, w[p].start)
        /\ UNCHANGED <<now, quota, runs>>
    BY <1>3 DEF CreateReservation
  <2>2. End(w[p]) \in Nat
    BY <1>0 DEF End
  <2>3. new \in Reservation /\ new.cluster = w[p].cluster /\ new.id = lastId + 1
    <3>1. lastId + 1 \in Nat /\ Units[w[p].exe] \in Nat \ {0}
      BY <1>0 DEF IInv, TypeOK, StoreOK
    <3>2. (w[p].op = "book") \in BOOLEAN
      OBVIOUS
    <3> QED
      BY <1>0, <2>2, <3>1, <3>2 DEF Reservation
  <2> HIDE DEF new
  <2>4. PICK l \in Locals : Become(p, l) /\ l.pc \notin Locked /\ l.late = {} /\ l.tried = {}
    BY ZenonT(60), <1>0, <2>1, NextClusterType
  <2>5. StoreOK'
    <3>1. lastId \in Nat /\ \A r \in rows : r \in Reservation /\ r.id \in Nat /\ r.id <= lastId
      BY DEF IInv, TypeOK, StoreOK, Reservation
    <3>2. \A r \in rows' : r \in Reservation /\ r.id <= lastId'
      BY <2>1, <2>3, <3>1
    <3>3. lock' \in [Clusters -> Procs \cup {None}]
      BY <1>0, <2>1 DEF IInv, TypeOK, StoreOK
    <3> QED
      BY <2>1, <3>1, <3>2, <3>3 DEF IInv, TypeOK, StoreOK, runs
  <2>6. IsFiniteSet(rows)'
    BY <2>1, FS_AddElement DEF IInv
  <2>7. \A q \in Procs \ {p}, c \in Clusters : lock[c] = q => lock'[c] = q
    BY <1>0, <1>1, <2>1 DEF IInv, TypeOK, StoreOK
  <2>8. \A q \in Procs \ {p} : w[q].pc \in Counted => w[q].cluster # w[p].cluster
    BY <1>1 DEF IInv, LocalOK, Locked, Counted
  <2>9. LocalOK(p, l)'
    BY <2>4, FreeLocal
  <2>10. \A q \in Procs \ {p} : \A r \in rows' \ rows :
            w[q].pc \in Counted => r.cluster # w[q].cluster
    <3>1. \A r \in rows' \ rows : r.cluster = w[p].cluster
      BY <2>1, <2>3
    <3> QED
      BY <2>8, <3>1
  <2> QED
    BY <2>4, <2>5, <2>6, <2>7, <2>9, <2>10, StepKeeps
<1> QED
  BY <1>2, <1>3

\* The requests as they begin and end, outside WithTenantLock.
LEMMA CallerSteps ==
  ASSUME IInv, NEW p \in Procs,
         Begin(p) \/ Release(p) \/ StartRun(p) \/ TeardownRelease(p) \/ StopRun(p)
  PROVE  IInv'
<1> USE LedgerAssumption
<1>0. /\ w[p] \in Locals /\ LocalOK(p, w[p]) /\ w[p].exe \in Executions /\ now \in Nat
      /\ running \subseteq Executions /\ ran \subseteq Executions
  BY MyLocals DEF IInv, TypeOK, StoreOK
<1>1. ASSUME NEW l \in Locals, l.pc \notin Locked, l.late = {}, l.tried = {}, Become(p, l),
             UNCHANGED <<now, quota, ledger, lock>>,
             running' \subseteq Executions, ran' \subseteq Executions
      PROVE  IInv'
  <2>1. LocalOK(p, l)
    BY <1>1, FreeLocal
  <2> QED
    BY <1>1, <2>1, QuietStep
<1>2. ASSUME NEW e \in Executions, Trigger(p, e) PROVE IInv'
  <2>1. PICK l \in Locals : Become(p, l) /\ l.pc \notin Locked /\ l.late = {} /\ l.tried = {}
    BY ZenonT(60), <1>0, <1>2, NextClusterType DEF Trigger
  <2> QED
    BY <1>0, <1>1, <1>2, <2>1 DEF Trigger, runs
<1>3. ASSUME NEW e \in Executions, NEW t \in Times, ReserveOccurrence(p, e, t) PROVE IInv'
  <2>1. t \in Nat /\ {Home[e]} \in SUBSET Clusters
    BY DEF Times
  <2>2. PICK l \in Locals : Become(p, l) /\ l.pc \notin Locked /\ l.late = {} /\ l.tried = {}
    BY ZenonT(60), <1>0, <1>3, <2>1, NextClusterType DEF ReserveOccurrence
  <2> QED
    BY <1>0, <1>1, <1>3, <2>2 DEF ReserveOccurrence, runs
<1>4. ASSUME NEW e \in Executions, Stop(p, e) PROVE IInv'
  <2>1. PICK l : l = Request("stop", "stop_release", e, {}, now)
    OBVIOUS
  <2>2. "stop_release" \in Labels \ Locked /\ {} \in SUBSET Clusters
    BY DEF Labels, Locked
  <2>3. l \in Locals /\ l.pc \notin Locked /\ l.late = {} /\ l.tried = {} /\ Become(p, l)
    BY ZenonT(60), <1>0, <1>4, <2>1, <2>2, RequestType DEF Stop
  <2> QED
    BY <1>0, <1>1, <1>4, <2>3 DEF Stop, runs
<1>5. PICK idle : idle = Idle
  OBVIOUS
<1>6. idle \in Locals /\ idle.pc \notin Locked /\ idle.late = {} /\ idle.tried = {}
  BY <1>5, IdleType
<1>7. CASE Release(p)
  <2>1. Become(p, idle) /\ rows' \subseteq rows /\ UNCHANGED <<now, quota, lastId, lock, runs>>
    BY <1>5, <1>7 DEF Release
  <2> QED
    BY <1>6, <2>1, RemoveStep
<1>8. CASE StartRun(p)
  BY <1>0, <1>1, <1>5, <1>6, <1>8 DEF StartRun, runs
<1>9. CASE TeardownRelease(p)
  <2>1. PICK l : l = [w[p] EXCEPT !.pc = "stop_run"]
    BY ZenonT(60)
  <2>2. l \in Locals /\ l.pc = "stop_run" /\ l.pc \notin Locked /\ l.late = w[p].late
        /\ l.tried = w[p].tried
    BY <1>0, <2>1 DEF Locals, Labels, Locked
  <2>3. LocalOK(p, l)
    BY <1>0, <2>2 DEF LocalOK, Locked, Counted
  <2>4. Become(p, l) /\ rows' \subseteq rows /\ UNCHANGED <<now, quota, lastId, lock, runs>>
    BY <1>9, <2>1 DEF TeardownRelease, Goto
  <2>5. LocalOK(p, l)'
    BY <2>2, <2>3, <2>4, LocalKeeps
  <2>6. StoreOK' /\ IsFiniteSet(rows)'
    BY <2>4, FS_Subset DEF IInv, TypeOK, StoreOK, runs
  <2> QED
    BY <2>2, <2>4, <2>5, <2>6, StepKeeps
<1>10. CASE StopRun(p)
  BY <1>0, <1>1, <1>5, <1>6, <1>10 DEF StopRun
<1> QED
  BY <1>2, <1>3, <1>4, <1>7, <1>8, <1>9, <1>10 DEF Begin

\* A crash, and what happens beside the requests.
LEMMA OtherSteps ==
  ASSUME IInv,
         \/ \E p \in Procs : Crash(p)
         \/ \E r \in rows : DeleteReservation(r)
         \/ \E e \in Executions : RunCompletes(e)
         \/ \E c \in Clusters, n \in Ceilings : SetCeiling(c, n)
         \/ Tick
  PROVE  IInv'
<1>1. ASSUME NEW p \in Procs, Crash(p) PROVE IInv'
  <2>1. PICK idle : idle = Idle
    OBVIOUS
  <2>2. idle \in Locals /\ idle.pc \notin Locked /\ idle.late = {} /\ idle.tried = {}
        /\ Become(p, idle)
    BY <1>1, <2>1, IdleType DEF Crash
  <2>3. \A q \in Procs \ {p}, c \in Clusters : lock[c] = q => lock'[c] = q
    BY <1>1 DEF Crash
  <2>4. StoreOK' /\ IsFiniteSet(rows)' /\ rows' = rows
    BY <1>1 DEF Crash, IInv, TypeOK, StoreOK, ledger, runs
  <2>5. LocalOK(p, idle)'
    BY <2>2, FreeLocal
  <2> QED
    BY <2>2, <2>3, <2>4, <2>5, StepKeeps
<1>2. ASSUME NEW r \in rows, DeleteReservation(r) PROVE IInv'
  BY <1>2, EnvironmentStep DEF DeleteReservation, IInv, TypeOK, StoreOK, runs
<1>3. ASSUME NEW e \in Executions, RunCompletes(e) PROVE IInv'
  BY <1>3, EnvironmentStep DEF RunCompletes, IInv, TypeOK, StoreOK, ledger
<1>4. ASSUME NEW c \in Clusters, NEW n \in Ceilings, SetCeiling(c, n) PROVE IInv'
  BY <1>4, EnvironmentStep DEF SetCeiling, IInv, TypeOK, StoreOK, ledger, runs
<1>5. ASSUME Tick PROVE IInv'
  BY <1>5, EnvironmentStep DEF Tick, IInv, TypeOK, StoreOK, ledger, runs
<1> QED
  BY <1>1, <1>2, <1>3, <1>4, <1>5

\* The empty ledger satisfies the invariant.
LEMMA InitInvariant == Init => IInv
<1> SUFFICES ASSUME Init PROVE IInv
  OBVIOUS
<1> USE LedgerAssumption
<1>1. StoreOK /\ IsFiniteSet(rows)
  BY FS_EmptySet DEF Init, StoreOK
<1>2. \A p \in Procs : w[p] = Idle
  BY DEF Init
<1>3. Idle \in Locals
  BY IdleType
<1>4. ASSUME NEW p \in Procs PROVE LocalOK(p, w[p])
  BY <1>2, IdleType, FreeLocal
<1> QED
  BY <1>1, <1>2, <1>3, <1>4 DEF Init, IInv, TypeOK

\* Every step of a request and of its environment keeps the invariant.
LEMMA NextInvariant == IInv /\ [Next]_vars => IInv'
<1> SUFFICES ASSUME IInv, [Next]_vars PROVE IInv'
  OBVIOUS
<1>1. ASSUME NEW p \in Procs, Step(p) PROVE IInv'
  BY <1>1, LockSteps, ReadSteps, OverrunStep, ReclaimSteps, CreateStep, CallerSteps DEF Step
<1>2. ASSUME NEW p \in Procs, Begin(p) PROVE IInv'
  BY <1>2, CallerSteps
<1>3. CASE UNCHANGED vars
  BY <1>3, EnvironmentStep DEF vars, ledger, runs, IInv, TypeOK, StoreOK
<1> QED
  BY <1>1, <1>2, <1>3, OtherSteps DEF Next

(* Reserve's promise *)

\* Whatever is reserved for an instant of the new window was in the window the
\* admission counted, or is the new reservation.
LEMMA SpanningCounted ==
  ASSUME IInv, NEW p \in Procs, w[p] \in Locals, NEW new \in Reservation,
         rows' = rows \cup {new}, new.start = w[p].start, new.end = End(w[p]),
         new.cluster = w[p].cluster, NEW t \in new.start .. (new.end - 1)
  PROVE  Spanning(rows', new.cluster, t) \subseteq InWindow(w[p]) \cup {new}
<1>1. rows \subseteq Reservation /\ new.start \in Nat /\ new.end \in Nat /\ t \in Int
  BY DEF IInv, TypeOK, StoreOK, Reservation
<1>2. ASSUME NEW r \in rows, r.cluster = new.cluster, r.start <= t, t < r.end
      PROVE  r \in InWindow(w[p])
  <2>1. r.start \in Nat /\ r.end \in Nat
    BY <1>1 DEF Reservation
  <2>2. r.start < End(w[p]) /\ w[p].start < r.end
    BY <1>1, <1>2, <2>1
  <2> QED
    BY <1>2, <2>2 DEF InWindow, Overlaps
<1> QED
  BY <1>2 DEF Spanning

\* The admission decision is the promise: what was counted bounds the window even if
\* reservations were removed meanwhile, and none was added under the lock.
LEMMA CreateFits ==
  ASSUME IInv, NEW p \in Procs, CreateReservation(p), NEW r \in rows' \ rows
  PROVE  /\ At(p, "create") /\ w[p].exe = r.exe
         /\ \A t \in r.start .. (r.end - 1) :
               EngineCount(Spanning(rows', r.cluster, t)) <= w[p].ceiling
<1> USE LedgerAssumption
<1>0. /\ w[p] \in Locals /\ LocalOK(p, w[p]) /\ w[p].cluster \in Clusters /\ At(p, "create")
      /\ w[p].exe \in Executions /\ w[p].start \in Nat /\ w[p].pc = "create"
      /\ w[p].ceiling \in Nat /\ w[p].used \in Nat /\ w[p].late \subseteq Reservation
  BY ZenonT(60), MyLocals DEF CreateReservation, At, Locals
<1>1. ~Reject(p)
  BY DEF Reject, ledger
<1> DEFINE new == [id |-> lastId + 1, exe |-> w[p].exe, cluster |-> w[p].cluster,
                   units |-> Units[w[p].exe], start |-> w[p].start, end |-> End(w[p]),
                   booked |-> w[p].op = "book"]
<1>2. Needs(w[p]) <= EngineCount(w[p].tried) /\ rows' = rows \cup {new}
  BY ZenonT(60), <1>1 DEF CreateReservation
<1>3. End(w[p]) \in Nat /\ lastId + 1 \in Nat /\ Units[w[p].exe] \in Nat \ {0}
  BY <1>0 DEF End, IInv, TypeOK, StoreOK
<1>4. new \in Reservation /\ new.cluster = w[p].cluster /\ new.exe = w[p].exe
      /\ new.start = w[p].start /\ new.end = End(w[p]) /\ new.units = Units[w[p].exe]
  BY ZenonT(60), <1>0, <1>3 DEF Reservation
<1> HIDE DEF new
<1>5. r = new
  BY <1>2
<1>6. /\ EngineCount(InWindow(w[p])) + EngineCount(w[p].late) <= w[p].used
      /\ w[p].tried \subseteq w[p].late /\ IsFiniteSet(w[p].late)
  BY <1>0 DEF LocalOK, Counted
<1>7. /\ InWindow(w[p]) \subseteq rows /\ rows \subseteq Reservation /\ IsFiniteSet(rows)
      /\ IsFiniteSet(InWindow(w[p]))
  <2>1. InWindow(w[p]) \subseteq rows
    BY DEF InWindow
  <2> QED
    BY <2>1, FS_Subset DEF IInv, TypeOK, StoreOK
<1>8. /\ EngineCount(InWindow(w[p])) \in Nat /\ EngineCount(w[p].late) \in Nat
      /\ EngineCount(w[p].tried) \in Nat
      /\ EngineCount(w[p].tried) <= EngineCount(w[p].late)
  BY <1>0, <1>6, <1>7, EngineCountMonotone
<1>9. EngineCount(InWindow(w[p])) + new.units <= w[p].ceiling
  <2>1. new.units = Units[w[p].exe] /\ Units[w[p].exe] \in Nat
    BY <1>3, <1>4
  <2>2. w[p].used + Units[w[p].exe] - w[p].ceiling <= EngineCount(w[p].tried)
    BY <1>2 DEF Needs
  <2>3. w[p].ceiling \in Nat /\ w[p].used \in Nat
    BY <1>0
  <2> HIDE LedgerAssumption
  <2> QED
    BY <1>6, <1>8, <2>1, <2>2, <2>3
<1>10. ASSUME NEW t \in new.start .. (new.end - 1)
       PROVE  EngineCount(Spanning(rows', new.cluster, t)) <= w[p].ceiling
  <2>1. Spanning(rows', new.cluster, t) \subseteq InWindow(w[p]) \cup {new}
    BY ZenonT(60), <1>0, <1>2, <1>4, SpanningCounted
  <2>2. IsFiniteSet(InWindow(w[p]) \cup {new}) /\ InWindow(w[p]) \cup {new} \subseteq Reservation
    BY <1>4, <1>7, FS_AddElement
  <2>3. /\ EngineCount(Spanning(rows', new.cluster, t)) \in Nat
        /\ EngineCount(InWindow(w[p]) \cup {new}) \in Nat
        /\ EngineCount(Spanning(rows', new.cluster, t)) <= EngineCount(InWindow(w[p]) \cup {new})
    BY <2>1, <2>2, EngineCountMonotone
  <2>4. EngineCount(InWindow(w[p]) \cup {new}) <= EngineCount(InWindow(w[p])) + new.units
    BY ZenonT(60), <1>4, <1>7, EngineCountAdd
  <2>5. new.units \in Nat /\ w[p].ceiling \in Nat /\ EngineCount(InWindow(w[p])) \in Nat
    BY <1>0, <1>3, <1>4, <1>8
  <2> HIDE LedgerAssumption
  <2> QED
    BY <1>9, <2>3, <2>4, <2>5
<1> QED
  BY <1>0, <1>4, <1>5, <1>10

\* Only CreateReservation adds a row.
LEMMA OthersAddNothing ==
  ASSUME IInv, [Next]_vars, \A p \in Procs : ~CreateReservation(p)
  PROVE  rows' \subseteq rows
<1>1. ASSUME NEW p \in Procs, Step(p) PROVE rows' \subseteq rows
  BY ZenonT(60), <1>1 DEF Step, WithTenantLock, LockTimeout, GetQuota, ReservationsInWindow,
     OverrunReservations, ReclaimOverrun, Reject, ReclaimRelease, ReclaimStop, Release,
     StartRun, TeardownRelease, StopRun, ledger
<1>2. ASSUME NEW p \in Procs, Begin(p) \/ Crash(p) PROVE rows' \subseteq rows
  BY ZenonT(60), <1>2 DEF Begin, Trigger, Stop, ReserveOccurrence, Crash, ledger
<1> QED
  BY <1>1, <1>2 DEF Next, DeleteReservation, RunCompletes, SetCeiling, Tick, vars, ledger

\* For every number of requests, executions, clusters and ceilings, the ledger's
\* invariant holds: whoever is past GET_LOCK holds the cluster's lock, and what it
\* counted still bounds the reservations of its window.
THEOREM LedgerInvariant == Spec => []IInv
<1> QED
  BY InitInvariant, NextInvariant, PTL DEF Spec

\* The type invariant of the ledger.
THEOREM LedgerTypeCorrect == Spec => []TypeOK
<1>1. IInv => TypeOK
  BY DEF IInv
<1> QED
  BY <1>1, LedgerInvariant, PTL

\* Reserve never admits past the ceiling it read: for every instant of an admitted
\* window, every interleaving of requests and any crash.
THEOREM AdmissionsFit == Spec => AdmissionFits
<1>1. IInv /\ [Next]_vars =>
        [\A r \in rows' \ rows : \E p \in Procs :
          /\ At(p, "create") /\ w[p].exe = r.exe
          /\ \A t \in r.start .. (r.end - 1) :
                EngineCount(Spanning(rows', r.cluster, t)) <= w[p].ceiling]_vars
  BY CreateFits, OthersAddNothing
<1> QED
  BY <1>1, LedgerInvariant, PTL DEF Spec, AdmissionFits
=============================================================================
