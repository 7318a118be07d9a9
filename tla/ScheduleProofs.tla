--------------------------- MODULE ScheduleProofs ---------------------------
(***************************************************************************)
(* Theorems about Schedule, for any number of schedules, replicas, requests  *)
(* and fire times, any horizon and any number of failures.                   *)
(***************************************************************************)
EXTENDS Schedule, TLAPS

\* A leaf is tried with SMT, with Zenon and with SMT again, unless it names its prover.
USE SMTT(30), ZenonT(30), SMTT(90)

\* No pass reads the clock at the very instant of a fire time.
ClockMissesFireTimes == \A s \in Schedules : \A t \in FireTimes[s] : t \notin Instants

Booking == {"reserve", "create_occurrence"}
Locked == {"existing", "reserve", "create_occurrence"}

Known(s, t) == \E o \in occs : o.sch = s /\ o.at = t
Extended(s, t) == \E o \in occs : o.by = "extend" /\ o.sch = s /\ o.at = t

\* What a process relies on: an extender holds the lock of its schedule and none of
\* what it has still to book is booked by a loop; below each fire time it has still
\* to book, every coming one is known or still to be booked as well.
LocalOK(p, l) ==
    /\ l.pc # "rest" => l.sch \in created
    /\ l.list \subseteq created
    /\ l.clock <= now
    /\ p \in Extenders /\ l.pc \in Locked => lock[l.sch] = p
    /\ l.pc \in Booking => l.todo \subseteq FireTimes[l.sch]
    /\ l.pc = "create_occurrence" => \A t \in First(l.todo) : l.n < serial[<<l.sch, t>>]
    /\ p \in Extenders /\ l.pc \in Booking /\ ClockMissesFireTimes
          => \A t \in l.todo : ~Extended(l.sch, t)
    /\ l.pc \in Booking /\ l.sch \in schedules
          => \A u \in l.todo : \A t \in FireTimes[l.sch] :
                now <= t /\ t < u => t \in l.todo \/ Known(l.sch, t)

RowsOK ==
    /\ \A o \in occs : o.sch \in created
    /\ ClockMissesFireTimes => NoDuplicateExtension
    /\ HorizonContiguous

IInv == TypeOK /\ RowsOK /\ \A p \in Procs : LocalOK(p, w[p])

-----------------------------------------------------------------------------
(* What a step does to the rows, as the other processes see it *)

Evolves ==
    /\ created \subseteq created'
    /\ now <= now'
    /\ schedules' \cap created \subseteq schedules
    /\ \A slot \in Slots : serial[slot] <= serial'[slot]
    /\ \A s, t : s \in schedules' /\ Known(s, t) => Known(s, t)'

Undisturbed(p, l) ==
    /\ p \in Extenders /\ l.pc \in Locked => lock'[l.sch] = p
    /\ p \in Extenders /\ l.pc \in Booking
          => \A o \in occs' : o.by = "extend" /\ o.sch = l.sch => Extended(l.sch, o.at)

\* A fire time of a schedule is one of the slots Reserve may be asked for.
LEMMA SlotFacts ==
  ASSUME NEW s \in Schedules, NEW t \in FireTimes[s]
  PROVE  <<s, t>> \in Slots /\ t \in Nat
BY ScheduleAssumption DEF Slots

\* Conversely, a slot names a schedule and one of its fire times.
LEMMA SlotOf ==
  ASSUME NEW s, NEW t, <<s, t>> \in Slots
  PROVE  s \in Schedules /\ t \in FireTimes[s]
<1>1. PICK r \in Schedules : <<s, t>> \in {r} \X FireTimes[r]
  BY DEF Slots
<1> QED
  BY <1>1

\* A step that evolves the rows and does not disturb a process keeps what the
\* process relies on.
LEMMA LocalKeeps ==
  ASSUME NEW p, NEW l \in Locals, LocalOK(p, l), Evolves, Undisturbed(p, l), StoreOK, StoreOK'
  PROVE  LocalOK(p, l)'
<1> USE ScheduleAssumption
<1>0. now \in Nat /\ now' \in Nat /\ l.clock \in Nat /\ l.n \in Nat
      /\ created \subseteq Schedules /\ created \subseteq created' /\ now <= now'
  BY ZenonT(60) DEF Locals, StoreOK, Evolves
<1>1. (l.pc # "rest" => l.sch \in created') /\ l.list \subseteq created' /\ l.clock <= now'
  BY <1>0 DEF LocalOK
<1>2. p \in Extenders /\ l.pc \in Locked => lock'[l.sch] = p
  BY DEF Undisturbed
<1>3. l.pc \in Booking => l.todo \subseteq FireTimes[l.sch] /\ l.sch \in created
  BY DEF LocalOK, Booking
<1>4. ASSUME l.pc = "create_occurrence", NEW t \in First(l.todo)
      PROVE  l.n < serial'[<<l.sch, t>>]
  <2>1. t \in FireTimes[l.sch] /\ l.sch \in Schedules
    BY <1>0, <1>3, <1>4 DEF First, Booking
  <2>2. <<l.sch, t>> \in Slots
    BY <2>1, SlotFacts
  <2>3. l.n < serial[<<l.sch, t>>] /\ serial[<<l.sch, t>>] <= serial'[<<l.sch, t>>]
    BY <1>4, <2>2 DEF LocalOK, Evolves
  <2>4. serial[<<l.sch, t>>] \in Nat /\ serial'[<<l.sch, t>>] \in Nat
    BY <2>2 DEF StoreOK
  <2> QED
    BY <1>0, <2>3, <2>4
<1>5. ASSUME p \in Extenders, l.pc \in Booking, ClockMissesFireTimes, NEW t \in l.todo
      PROVE  ~Extended(l.sch, t)'
  BY <1>5 DEF LocalOK, Undisturbed, Extended
<1>6. ASSUME l.pc \in Booking, l.sch \in schedules', NEW u \in l.todo, NEW t \in FireTimes[l.sch],
             now' <= t, t < u
      PROVE  t \in l.todo \/ Known(l.sch, t)'
  <2>1. l.sch \in schedules /\ l.sch \in Schedules
    BY <1>0, <1>3, <1>6 DEF Evolves
  <2>2. t \in Nat /\ now <= t
    BY <1>0, <1>6, <2>1, SlotFacts
  <2>3. t \in l.todo \/ Known(l.sch, t)
    BY <1>6, <2>1, <2>2 DEF LocalOK
  <2> QED
    BY <1>6, <2>3 DEF Evolves
<1> QED
  BY <1>1, <1>2, <1>3, <1>4, <1>5, <1>6 DEF LocalOK, ClockMissesFireTimes

\* A step of p: the rows are in order, p's new locals are, and the others are not
\* disturbed.
LEMMA StepKeeps ==
  ASSUME IInv, NEW p \in Procs, NEW l \in Locals, Become(p, l), StoreOK', RowsOK', Evolves,
         \A q \in Procs \ {p} : Undisturbed(q, w[q]), LocalOK(p, l)'
  PROVE  IInv'
<1>1. w' \in [Procs -> Locals] /\ w'[p] = l /\ \A q \in Procs \ {p} : w'[q] = w[q]
  BY DEF Become, IInv, TypeOK
<1>2. ASSUME NEW q \in Procs \ {p} PROVE LocalOK(q, w[q])'
  <2>1. PICK m : m = w[q]
    OBVIOUS
  <2>2. m \in Locals /\ w'[q] = m /\ LocalOK(q, m) /\ Undisturbed(q, m) /\ StoreOK
    BY <1>1, <2>1 DEF IInv, TypeOK
  <2>3. LocalOK(q, m)'
    BY <2>2, LocalKeeps
  <2> QED
    BY <2>2, <2>3
<1> QED
  BY <1>1, <1>2 DEF IInv, TypeOK

\* Steps that add no occurrence and only change the status of some.
LEMMA RowsKept ==
  ASSUME IInv, StoreOK', Evolves, \A s, t : Known(s, t)' => Known(s, t),
         ClockMissesFireTimes => NoDuplicateExtension'
  PROVE  RowsOK'
<1> USE ScheduleAssumption
<1>1. \A o \in occs' : o.sch \in created /\ o.sch \in created'
  BY DEF IInv, RowsOK, Known, Evolves
<1>2. ASSUME NEW o \in occs', NEW t \in FireTimes[o.sch], o.sch \in schedules', now' <= t, t < o.at
      PROVE  Known(o.sch, t)'
  <2>1. PICK q \in occs : q.sch = o.sch /\ q.at = o.at
    BY DEF Known
  <2>2. o.sch \in schedules /\ o.sch \in Schedules
    BY <1>1, <1>2 DEF Evolves, StoreOK
  <2>3. t \in Nat /\ now <= t
    BY <1>2, <2>2, SlotFacts DEF Evolves, StoreOK, IInv, TypeOK
  <2>4. Known(o.sch, t)
    BY <1>2, <2>1, <2>2, <2>3 DEF IInv, RowsOK, HorizonContiguous, Known
  <2> QED
    BY <1>2, <2>4 DEF Evolves
<1>3. HorizonContiguous'
  BY <1>2 DEF HorizonContiguous, Known
<1> QED
  BY <1>1, <1>3 DEF RowsOK, ClockMissesFireTimes

\* Steps that leave schedules, occurrences and the lock of the others alone.
LEMMA QuietStep ==
  ASSUME IInv, NEW p \in Procs, NEW l \in Locals, Become(p, l), StoreOK',
         UNCHANGED <<now, created, schedules, occs>>,
         \A slot \in Slots : serial[slot] <= serial'[slot],
         \A q \in Procs \ {p}, s \in Schedules : lock[s] = q => lock'[s] = q,
         LocalOK(p, l)'
  PROVE  IInv'
<1>1. now \in Nat /\ \A s, t : Known(s, t)' <=> Known(s, t)
  BY ScheduleAssumption DEF Known, IInv, TypeOK, StoreOK
<1>2. Evolves
  BY <1>1 DEF Evolves
<1>3. NoDuplicateExtension' <=> NoDuplicateExtension
  BY DEF NoDuplicateExtension
<1>4. RowsOK'
  BY <1>1, <1>2, <1>3, RowsKept DEF IInv, RowsOK
<1>5. ASSUME NEW q \in Procs \ {p} PROVE Undisturbed(q, w[q])
  <2>1. w[q].pc \in Locked => w[q].sch \in Schedules
    BY DEF IInv, TypeOK, StoreOK, LocalOK, Locked
  <2>2. q \in Extenders /\ w[q].pc \in Locked => lock[w[q].sch] = q
    BY DEF IInv, LocalOK
  <2> QED
    BY <2>1, <2>2 DEF Undisturbed, Extended
<1> QED
  BY <1>2, <1>4, <1>5, StepKeeps

\* The locals of a process that books nothing and holds no lock.
LEMMA FreeLocal ==
  ASSUME NEW p, NEW l \in Locals, l.pc \notin Locked, l.pc # "rest" => l.sch \in created',
         l.list \subseteq created', l.clock <= now'
  PROVE  LocalOK(p, l)'
BY DEF LocalOK, Locked, Booking

\* A process with no request in hand has read nothing.
LEMMA IdleType == Idle \in Locals /\ Idle.pc = "rest" /\ Idle.list = {} /\ Idle.clock = 0
BY ScheduleAssumption DEF Idle, Work, Locals, Labels

\* ExtendHorizons' loop.
LEMMA NextScheduleType ==
  ASSUME NEW p, NEW list \in SUBSET Schedules, NEW clock \in Instants,
         \/ \E s \in list : w' = [w EXCEPT ![p] = Work("schedule_lock", s, list \ {s}, clock, {})]
         \/ w' = [w EXCEPT ![p] = Idle]
  PROVE  \E l \in Locals : /\ Become(p, l) /\ l.pc \notin Locked
                           /\ (l.pc # "rest" => l.sch \in list)
                           /\ l.list \subseteq list /\ (l.clock = clock \/ l.clock = 0)
<1>1. ASSUME NEW s \in list,
             w' = [w EXCEPT ![p] = Work("schedule_lock", s, list \ {s}, clock, {})]
      PROVE  \E l \in Locals : /\ Become(p, l) /\ l.pc \notin Locked /\ l.sch \in list
                               /\ l.list \subseteq list /\ l.clock = clock
  <2>1. PICK l : l = Work("schedule_lock", s, list \ {s}, clock, {})
    OBVIOUS
  <2>2. l \in Locals /\ l.pc \notin Locked /\ l.sch \in list /\ l.list \subseteq list
        /\ l.clock = clock
    BY <2>1 DEF Work, Locals, Labels, Locked
  <2>3. Become(p, l)
    BY <1>1, <2>1 DEF Become
  <2> QED
    BY <2>2, <2>3
<1>2. ASSUME w' = [w EXCEPT ![p] = Idle]
      PROVE  \E l \in Locals : /\ Become(p, l) /\ l.pc = "rest" /\ l.list = {} /\ l.clock = 0
  <2>1. PICK l : l = Idle
    OBVIOUS
  <2>2. Become(p, l)
    BY <1>2, <2>1 DEF Become
  <2> QED
    BY <2>1, <2>2, IdleType
<1> QED
  BY ZenonT(60), <1>1, <1>2 DEF Locked

\* reserveOccurrences returns: the lock is given back, the pass goes on.
LEMMA ReturnType ==
  ASSUME IInv, NEW p \in Procs, w[p].sch \in Schedules, Return(p), UNCHANGED <<now, created>>,
         p \in Extenders => lock[w[p].sch] = p
  PROVE  /\ \E l \in Locals : Become(p, l) /\ LocalOK(p, l)'
         /\ lock' \in [Schedules -> Procs \cup {None}]
         /\ \A q \in Procs \ {p}, s \in Schedules : lock[s] = q => lock'[s] = q
<1> USE ScheduleAssumption
<1>1. /\ w[p] \in Locals /\ w[p].list \in SUBSET Schedules /\ w[p].clock \in Instants
      /\ w[p].list \subseteq created /\ w[p].clock <= now /\ now \in Nat
      /\ lock \in [Schedules -> Procs \cup {None}]
  BY DEF IInv, TypeOK, StoreOK, Locals, LocalOK
<1>2. CASE p \in Extenders
  <2>1. lock' = [lock EXCEPT ![w[p].sch] = None] /\ NextSchedule(p, w[p].list, w[p].clock)
    BY <1>2 DEF Return
  <2>2. PICK l \in Locals : /\ Become(p, l) /\ l.pc \notin Locked
                            /\ (l.pc # "rest" => l.sch \in w[p].list)
                            /\ l.list \subseteq w[p].list
                            /\ (l.clock = w[p].clock \/ l.clock = 0)
    <3>1. PICK list, clock : list = w[p].list /\ clock = w[p].clock
      OBVIOUS
    <3>2. \/ \E s \in list : w' = [w EXCEPT ![p] = Work("schedule_lock", s, list \ {s}, clock, {})]
          \/ w' = [w EXCEPT ![p] = Idle]
      BY <2>1, <3>1 DEF NextSchedule, Become
    <3>3. list \in SUBSET Schedules /\ clock \in Instants
      BY <1>1, <3>1
    <3>4. \E l \in Locals : /\ Become(p, l) /\ l.pc \notin Locked
                            /\ (l.pc # "rest" => l.sch \in list)
                            /\ l.list \subseteq list /\ (l.clock = clock \/ l.clock = 0)
      BY ZenonT(60), <3>2, <3>3, NextScheduleType
    <3> QED
      BY <3>1, <3>4
  <2>3. LocalOK(p, l)'
    BY <1>1, <2>2, FreeLocal
  <2>4. /\ lock' \in [Schedules -> Procs \cup {None}]
        /\ \A q \in Procs \ {p}, s \in Schedules : lock[s] = q => lock'[s] = q
    BY <1>1, <1>2, <2>1
  <2> QED
    BY <2>2, <2>3, <2>4
<1>3. CASE p \notin Extenders
  <2>1. Become(p, Idle) /\ lock' = lock
    BY <1>3 DEF Return
  <2>2. PICK l : l = Idle
    OBVIOUS
  <2>3. l \in Locals /\ l.pc = "rest" /\ l.list = {} /\ l.clock = 0 /\ Become(p, l)
    BY <2>1, <2>2, IdleType
  <2>4. LocalOK(p, l)'
    BY <1>1, <2>3, FreeLocal DEF Locked
  <2> QED
    BY <1>1, <2>1, <2>3, <2>4
<1> QED
  BY <1>2, <1>3

-----------------------------------------------------------------------------
(* One lemma per action *)

\* What the invariant says of the process that takes the step.
LEMMA MyLocals ==
  ASSUME IInv, NEW p \in Procs
  PROVE  /\ w[p] \in Locals /\ LocalOK(p, w[p]) /\ StoreOK /\ now \in Nat
         /\ w[p].list \in SUBSET Schedules /\ w[p].clock \in Instants /\ w[p].clock \in Nat
         /\ w[p].list \subseteq created /\ w[p].clock <= now
         /\ (w[p].pc # "rest" => w[p].sch \in created /\ w[p].sch \in Schedules)
BY ZenonT(60), ScheduleAssumption DEF IInv, TypeOK, StoreOK, Locals, LocalOK

\* The rows that only other components' reservations concern.
LEMMA ReservationsOnly ==
  ASSUME IInv, NEW S \in SUBSET reservations, reservations' = S,
         UNCHANGED <<now, created, schedules, occs, serial, failures>>,
         lock' \in [Schedules -> Procs \cup {None}]
  PROVE  StoreOK' /\ \A slot \in Slots : serial[slot] <= serial'[slot]
<1>1. \A slot \in Slots : serial[slot] \in Nat
  BY DEF IInv, TypeOK, StoreOK
<1> QED
  BY <1>1 DEF IInv, TypeOK, StoreOK

\* A process that begins or ends, or releases, and holds no lock afterwards.
LEMMA FreeStep ==
  ASSUME IInv, NEW p \in Procs, NEW l \in Locals, Become(p, l), l.pc \notin Locked,
         l.pc # "rest" => l.sch \in created, l.list \subseteq created, l.clock <= now,
         UNCHANGED <<now, created, schedules, occs, serial, failures>>, reservations' \subseteq reservations,
         lock' \in [Schedules -> Procs \cup {None}],
         \A q \in Procs \ {p}, s \in Schedules : lock[s] = q => lock'[s] = q
  PROVE  IInv'
<1>1. StoreOK' /\ \A slot \in Slots : serial[slot] <= serial'[slot]
  BY ReservationsOnly
<1>2. LocalOK(p, l)'
  BY FreeLocal
<1> QED
  BY <1>1, <1>2, QuietStep

\* Delete and ClaimDue release a reservation: no other process relies on one.
LEMMA ReleaseSteps ==
  ASSUME IInv, NEW p \in Procs, DeleteRelease(p) \/ ClaimRelease(p)
  PROVE  IInv'
<1>0. /\ w[p] \in Locals /\ w[p].list \subseteq created /\ w[p].clock <= now
      /\ (w[p].pc # "rest" => w[p].sch \in created) /\ now \in Nat
      /\ lock \in [Schedules -> Procs \cup {None}]
  BY MyLocals DEF StoreOK
<1>1. CASE DeleteRelease(p)
  <2>1. PICK id \in w[p].held : /\ reservations' = reservations \ {id}
                                /\ Become(p, [w[p] EXCEPT !.held = @ \ {id}])
    BY ZenonT(60), <1>1 DEF DeleteRelease
  <2>2. PICK l : l = [w[p] EXCEPT !.held = @ \ {id}]
    BY ZenonT(60)
  <2>3. w[p].pc = "delete_release"
    BY <1>1 DEF DeleteRelease, At
  <2>4. l \in Locals /\ l.pc = "delete_release" /\ l.sch = w[p].sch /\ l.list = w[p].list
        /\ l.clock = w[p].clock
    BY <1>0, <2>2, <2>3 DEF Locals
  <2>5. Become(p, l)
    BY <2>1, <2>2 DEF Become
  <2>6. UNCHANGED <<now, created, schedules, occs, serial, failures, lock>>
    BY <1>1 DEF DeleteRelease
  <2> QED
    BY <1>0, <2>1, <2>3, <2>4, <2>5, <2>6, FreeStep DEF Locked
<1>2. CASE ClaimRelease(p)
  <2>1. PICK l : l = Idle
    OBVIOUS
  <2>2. l \in Locals /\ l.pc = "rest" /\ l.list = {} /\ l.clock = 0
    BY <2>1, IdleType
  <2>3. Become(p, l) /\ reservations' \subseteq reservations
    BY <1>2, <2>1 DEF ClaimRelease, Become
  <2>4. UNCHANGED <<now, created, schedules, occs, serial, failures, lock>>
    BY <1>2 DEF ClaimRelease
  <2> QED
    BY <1>0, <2>2, <2>3, <2>4, FreeStep DEF Locked
<1> QED
  BY <1>1, <1>2

\* A Delete or a horizon pass begins, or a process dies: the occurrences stay.
LEMMA BeginSteps ==
  ASSUME IInv, NEW p \in Procs,
         (\E s \in Schedules : Delete(p, s)) \/ ExtendHorizons(p) \/ Fail(p)
  PROVE  IInv'
<1> USE ScheduleAssumption
<1>0. /\ now \in Nat /\ now \in Instants /\ schedules \subseteq created /\ created \subseteq Schedules
      /\ lock \in [Schedules -> Procs \cup {None}] /\ occs \subseteq Occurrence
  BY DEF IInv, TypeOK, StoreOK
<1>1. ASSUME NEW s \in Schedules, Delete(p, s) PROVE IInv'
  <2> DEFINE held == {ReservationID(o) : o \in {q \in OccurrencesForSchedule(s) : q.status = "reserved"}}
  <2>1. PICK l : l = Holding("delete_release", s, held)
    BY ZenonT(60)
  <2>2. held \subseteq Reservation
    BY <1>0 DEF ReservationID, OccurrencesForSchedule, Occurrence, Reservation
  <2>3. l \in Locals /\ l.pc = "delete_release" /\ l.sch = s /\ l.list = {} /\ l.clock = 0
    BY <2>1, <2>2 DEF Holding, Locals, Labels
  <2>4. Become(p, l)
    BY <1>1, <2>1 DEF Delete, Become
  <2>5. s \in created /\ UNCHANGED <<now, created, schedules, occs, reservations, serial, lock, failures>>
    BY <1>0, <1>1 DEF Delete
  <2> QED
    BY <1>0, <2>3, <2>4, <2>5, FreeStep DEF Locked
<1>2. CASE ExtendHorizons(p)
  <2>1. PICK list : list = schedules \cap Recurring
    BY ZenonT(60)
  <2>2. PICK clock : clock = now
    OBVIOUS
  <2>3. \/ \E s \in list : w' = [w EXCEPT ![p] = Work("schedule_lock", s, list \ {s}, clock, {})]
        \/ w' = [w EXCEPT ![p] = Idle]
    BY <1>2, <2>1, <2>2 DEF ExtendHorizons, NextSchedule, Become
  <2>4. list \in SUBSET Schedules /\ clock \in Instants /\ list \subseteq created
    BY <1>0, <2>1, <2>2
  <2>5. PICK l \in Locals : /\ Become(p, l) /\ l.pc \notin Locked
                            /\ (l.pc # "rest" => l.sch \in list)
                            /\ l.list \subseteq list /\ (l.clock = clock \/ l.clock = 0)
    BY ZenonT(60), <2>3, <2>4, NextScheduleType
  <2>6. UNCHANGED <<now, created, schedules, occs, reservations, serial, lock, failures>>
    BY <1>2 DEF ExtendHorizons
  <2>7. l.list \subseteq created /\ l.clock <= now /\ (l.pc # "rest" => l.sch \in created)
    BY <1>0, <2>2, <2>4, <2>5
  <2> QED
    BY <1>0, <2>5, <2>6, <2>7, FreeStep
<1>3. CASE Fail(p)
  <2>1. PICK l : l = Idle
    OBVIOUS
  <2>2. l \in Locals /\ l.pc = "rest" /\ l.list = {} /\ l.clock = 0
    BY <2>1, IdleType
  <2>3. Become(p, l)
    BY <1>3, <2>1 DEF Fail, Become
  <2>4. /\ UNCHANGED <<now, created, schedules, occs, reservations, serial>>
        /\ failures' = failures + 1
        /\ lock' = [s \in Schedules |-> IF lock[s] = p THEN None ELSE lock[s]]
    BY <1>3 DEF Fail
  <2>5. /\ lock' \in [Schedules -> Procs \cup {None}]
        /\ \A q \in Procs \ {p}, s \in Schedules : lock[s] = q => lock'[s] = q
    BY <1>0, <2>4
  <2>6. StoreOK' /\ \A slot \in Slots : serial[slot] <= serial'[slot]
    BY <2>4, <2>5 DEF IInv, TypeOK, StoreOK
  <2>7. LocalOK(p, l)'
    BY <1>0, <2>2, <2>4, FreeLocal DEF Locked
  <2> QED
    BY <2>2, <2>3, <2>4, <2>5, <2>6, <2>7, QuietStep
<1> QED
  BY <1>1, <1>2, <1>3

\* WithScheduleLock: GET_LOCK gives one extender the schedule's lock, or times out.
LEMMA LockStep ==
  ASSUME IInv, NEW p \in Procs, WithScheduleLock(p)
  PROVE  IInv'
<1> USE ScheduleAssumption
<1>0. /\ w[p] \in Locals /\ w[p].list \in SUBSET Schedules /\ w[p].clock \in Instants
      /\ w[p].list \subseteq created /\ w[p].clock <= now /\ now \in Nat /\ w[p].clock \in Nat
      /\ w[p].pc = "schedule_lock" /\ w[p].sch \in created /\ w[p].sch \in Schedules
      /\ lock \in [Schedules -> Procs \cup {None}]
  BY MyLocals DEF WithScheduleLock, At, StoreOK
<1>1. UNCHANGED <<now, created, schedules, occs, reservations, serial, failures>>
  BY DEF WithScheduleLock
<1>2. CASE /\ lock[w[p].sch] = None /\ lock' = [lock EXCEPT ![w[p].sch] = p]
           /\ Become(p, [w[p] EXCEPT !.pc = "existing"])
  <2>1. PICK l : l = [w[p] EXCEPT !.pc = "existing"]
    BY ZenonT(60)
  <2>2. l \in Locals /\ l.pc = "existing" /\ l.sch = w[p].sch /\ l.list = w[p].list
        /\ l.clock = w[p].clock
    BY <1>0, <2>1 DEF Locals, Labels
  <2>3. Become(p, l)
    BY <1>2, <2>1 DEF Become
  <2>4. /\ lock' \in [Schedules -> Procs \cup {None}] /\ lock'[l.sch] = p
        /\ \A q \in Procs \ {p}, s \in Schedules : lock[s] = q => lock'[s] = q
    BY <1>0, <1>2, <2>2
  <2>5. LocalOK(p, l)'
    BY <1>0, <1>1, <2>2, <2>4 DEF LocalOK, Booking
  <2>6. StoreOK' /\ \A slot \in Slots : serial[slot] <= serial'[slot]
    BY <1>1, <2>4, ReservationsOnly
  <2> QED
    BY <1>1, <2>2, <2>3, <2>4, <2>5, <2>6, QuietStep
<1>3. CASE NextSchedule(p, w[p].list, w[p].clock) /\ UNCHANGED lock
  <2>1. PICK list, clock : list = w[p].list /\ clock = w[p].clock
    OBVIOUS
  <2>2. \/ \E s \in list : w' = [w EXCEPT ![p] = Work("schedule_lock", s, list \ {s}, clock, {})]
        \/ w' = [w EXCEPT ![p] = Idle]
    BY ZenonT(60), <1>3, <2>1 DEF NextSchedule, Become
  <2>3. list \in SUBSET Schedules /\ clock \in Instants /\ list \subseteq created /\ clock <= now
    BY <1>0, <2>1
  <2>4. PICK l \in Locals : /\ Become(p, l) /\ l.pc \notin Locked
                            /\ (l.pc # "rest" => l.sch \in list)
                            /\ l.list \subseteq list /\ (l.clock = clock \/ l.clock = 0)
    BY ZenonT(60), <2>2, <2>3, NextScheduleType
  <2>5. l.list \subseteq created /\ l.clock <= now /\ (l.pc # "rest" => l.sch \in created)
    BY <1>0, <2>3, <2>4
  <2> QED
    BY <1>0, <1>1, <1>3, <2>4, <2>5, FreeStep
<1> QED
  BY <1>2, <1>3 DEF WithScheduleLock

\* What extendOne finds missing: no loop has booked it, and below it every coming
\* fire time is missing too or known.
LEMMA MissingFacts ==
  ASSUME IInv, NEW s \in Schedules, NEW clock \in Instants, clock <= now,
         NEW t \in Missing(s, clock)
  PROVE  /\ t \in FireTimes[s]
         /\ ClockMissesFireTimes => ~Extended(s, t)
         /\ s \in schedules => \A u \in FireTimes[s] :
               now <= u /\ u < t => u \in Missing(s, clock) \/ Known(s, u)
<1> USE ScheduleAssumption
<1>0. /\ t \in FireTimes[s] /\ t \in Nat /\ clock \in Nat /\ now \in Nat /\ Horizon \in Nat
      /\ clock <= t /\ t < clock + Horizon
      /\ ((\E o \in occs : o.sch = s /\ clock < o.at) => \A o \in occs : o.sch = s => o.at < t)
  <2>1. t \in FireTimes[s] /\ clock <= t /\ t < clock + Horizon
    BY DEF Missing, Occurrences
  <2>2. (\E o \in occs : o.sch = s /\ clock < o.at) => \A o \in occs : o.sch = s => o.at < t
    BY DEF Missing, OccurrencesForSchedule
  <2>3. t \in Nat
    BY ZenonT(60), <2>1, SlotFacts
  <2>4. now \in Nat /\ clock \in Nat /\ Horizon \in Nat
    BY DEF IInv, TypeOK, StoreOK
  <2> QED
    BY ZenonT(60), <2>1, <2>2, <2>3, <2>4
<1>1. \A o \in occs : o.at \in Nat /\ o.sch \in Schedules /\ o.at \in FireTimes[o.sch]
  <2>1. \A o \in occs : o.at \in Nat /\ o.sch \in Schedules /\ <<o.sch, o.at>> \in Slots
    BY ZenonT(60) DEF IInv, TypeOK, StoreOK, Occurrence
  <2> QED
    BY ZenonT(60), <2>1, SlotOf
<1>2. ASSUME ClockMissesFireTimes, NEW o \in occs, o.sch = s, o.at = t PROVE FALSE
  <2>1. t \notin Instants
    BY <1>0, <1>2 DEF ClockMissesFireTimes
  <2>2. clock < o.at
    BY <1>0, <1>2, <2>1
  <2> QED
    BY <1>0, <1>1, <1>2, <2>2
<1>3. ASSUME s \in schedules, NEW u \in FireTimes[s], now <= u, u < t
      PROVE  u \in Missing(s, clock) \/ Known(s, u)
  <2>1. u \in Nat /\ clock <= u /\ u < clock + Horizon
    BY <1>0, <1>3, SlotFacts
  <2>2. u \in Occurrences(s, clock, clock + Horizon)
    BY <2>1 DEF Occurrences
  <2>3. CASE \E o \in occs : o.sch = s /\ clock < o.at /\ u <= o.at
    <3>1. PICK o \in occs : o.sch = s /\ u <= o.at
      BY <2>3
    <3>2. u = o.at \/ u < o.at
      BY <1>1, <2>1, <3>1
    <3> QED
      BY <1>3, <3>1, <3>2 DEF IInv, RowsOK, HorizonContiguous, Known
  <2>4. CASE ~\E o \in occs : o.sch = s /\ clock < o.at /\ u <= o.at
    <3>1. (\E o \in occs : o.sch = s /\ clock < o.at) => \A o \in occs : o.sch = s => o.at < u
      BY <1>0, <1>1, <2>1, <2>4
    <3> QED
      BY <2>2, <3>1 DEF Missing, OccurrencesForSchedule
  <2> QED
    BY <2>3, <2>4
<1> QED
  BY <1>0, <1>2, <1>3 DEF Extended

\* extendOne reads the occurrences and plans what is missing, under the lock.
LEMMA ExtendStep ==
  ASSUME IInv, NEW p \in Procs, ExtendOne(p)
  PROVE  IInv'
<1> USE ScheduleAssumption
<1>0. /\ w[p] \in Locals /\ w[p].list \in SUBSET Schedules /\ w[p].clock \in Instants
      /\ w[p].list \subseteq created /\ w[p].clock <= now /\ now \in Nat /\ w[p].clock \in Nat
      /\ w[p].pc = "existing" /\ w[p].sch \in created /\ w[p].sch \in Schedules
      /\ lock \in [Schedules -> Procs \cup {None}]
      /\ (p \in Extenders => lock[w[p].sch] = p)
  BY MyLocals DEF ExtendOne, At, StoreOK, LocalOK, Locked
<1>1. UNCHANGED <<now, created, schedules, occs, reservations, serial, failures>>
  BY DEF ExtendOne
<1>2. CASE Return(p)
  <2>1. /\ \E l \in Locals : Become(p, l) /\ LocalOK(p, l)'
        /\ lock' \in [Schedules -> Procs \cup {None}]
        /\ \A q \in Procs \ {p}, s \in Schedules : lock[s] = q => lock'[s] = q
    BY <1>0, <1>1, <1>2, ReturnType
  <2>2. PICK l \in Locals : Become(p, l) /\ LocalOK(p, l)'
    BY <2>1
  <2>3. StoreOK' /\ \A slot \in Slots : serial[slot] <= serial'[slot]
    BY <1>1, <2>1, ReservationsOnly
  <2> QED
    BY <1>1, <2>1, <2>2, <2>3, QuietStep
<1>3. CASE /\ Become(p, [w[p] EXCEPT !.pc = "reserve", !.todo = Missing(w[p].sch, w[p].clock)])
           /\ UNCHANGED lock
  <2>1. PICK l : l = [w[p] EXCEPT !.pc = "reserve", !.todo = Missing(w[p].sch, w[p].clock)]
    OBVIOUS
  <2>2. Missing(w[p].sch, w[p].clock) \subseteq Nat
    BY <1>0, MissingFacts, SlotFacts
  <2>3. l \in Locals /\ l.pc = "reserve" /\ l.sch = w[p].sch /\ l.list = w[p].list
        /\ l.clock = w[p].clock /\ l.todo = Missing(w[p].sch, w[p].clock)
    BY ZenonT(60), <1>0, <2>1, <2>2 DEF Locals, Labels
  <2>4. Become(p, l)
    BY <1>3, <2>1 DEF Become
  <2>5. /\ \A t \in l.todo : t \in FireTimes[l.sch]
        /\ ClockMissesFireTimes => \A t \in l.todo : ~Extended(l.sch, t)
        /\ l.sch \in schedules => \A u \in l.todo : \A t \in FireTimes[l.sch] :
               now <= t /\ t < u => t \in l.todo \/ Known(l.sch, t)
    BY <1>0, <2>3, MissingFacts
  <2>6. LocalOK(p, l)
    BY <1>0, <2>3, <2>5 DEF LocalOK
  <2>7. LocalOK(p, l)'
    BY <1>1, <1>3, <2>6 DEF LocalOK, Known, Extended, ClockMissesFireTimes
  <2>8. StoreOK' /\ \A slot \in Slots : serial[slot] <= serial'[slot]
    BY <1>0, <1>1, <1>3, ReservationsOnly
  <2> QED
    BY <1>1, <1>3, <2>3, <2>4, <2>7, <2>8, QuietStep
<1> QED
  BY <1>2, <1>3 DEF ExtendOne

\* The earliest fire time still to book is unique.
LEMMA FirstUnique ==
  ASSUME NEW S \in SUBSET Nat, NEW t \in First(S), NEW u \in First(S)
  PROVE  t = u
BY DEF First

\* Reserve takes a fresh reservation for the fire time it books.
LEMMA ReserveStep ==
  ASSUME IInv, NEW p \in Procs, Reserve(p)
  PROVE  IInv'
<1> USE ScheduleAssumption
<1>0. /\ w[p] \in Locals /\ w[p].list \subseteq created /\ w[p].clock <= now /\ now \in Nat
      /\ w[p].pc = "reserve" /\ w[p].sch \in created /\ w[p].sch \in Schedules
      /\ w[p].todo \subseteq FireTimes[w[p].sch] /\ w[p].todo \in SUBSET Nat /\ LocalOK(p, w[p])
      /\ serial \in [Slots -> Nat]
  BY MyLocals DEF Reserve, At, StoreOK, LocalOK, Booking, Locals
<1>1. PICK t \in First(w[p].todo), status \in {"reserved", "rejected"} :
        LET n == serial[<<w[p].sch, t>>]
        IN  /\ serial' = [serial EXCEPT ![<<w[p].sch, t>>] = n + 1]
            /\ reservations' = IF status = "rejected" THEN reservations
                               ELSE reservations \cup {[sch |-> w[p].sch, at |-> t, n |-> n]}
            /\ Become(p, [w[p] EXCEPT !.pc = "create_occurrence", !.n = n, !.status = status])
  BY ZenonT(60) DEF Reserve
<1>2. PICK n : n = serial[<<w[p].sch, t>>]
  OBVIOUS
<1>3. t \in w[p].todo /\ <<w[p].sch, t>> \in Slots /\ t \in Nat /\ n \in Nat
  BY <1>0, <1>1, <1>2, SlotFacts DEF First
<1>4. UNCHANGED <<now, created, schedules, occs, lock, failures>>
  BY DEF Reserve
<1>5. PICK slot : slot = <<w[p].sch, t>>
  BY ZenonT(60)
<1>6. slot \in Slots /\ serial' = [serial EXCEPT ![slot] = n + 1] /\ serial[slot] = n
  BY <1>1, <1>2, <1>3, <1>5
<1>7. serial' \in [Slots -> Nat] /\ serial'[slot] = n + 1 /\ \A x \in Slots : serial[x] <= serial'[x]
  BY <1>0, <1>3, <1>6
<1>8. StoreOK'
  <2>1. PICK new : new = [sch |-> w[p].sch, at |-> t, n |-> n]
    BY ZenonT(60)
  <2>2. new \in Reservation /\ <<new.sch, new.at>> = slot /\ new.n = n
    BY <1>0, <1>3, <1>5, <2>1 DEF Reservation
  <2>3. reservations' \subseteq reservations \cup {new}
    BY <1>1, <1>2, <2>1
  <2>4. ASSUME NEW r \in occs \cup reservations
        PROVE  <<r.sch, r.at>> \in Slots /\ r.n < serial'[<<r.sch, r.at>>]
    <3>1. <<r.sch, r.at>> \in Slots /\ r.n < serial[<<r.sch, r.at>>] /\ r.n \in Nat
      BY <2>4 DEF IInv, TypeOK, StoreOK, Occurrence, Reservation
    <3>2. PICK x : x = <<r.sch, r.at>>
      BY ZenonT(60)
    <3>3. serial[x] \in Nat /\ serial'[x] \in Nat /\ serial[x] <= serial'[x]
      BY <1>0, <1>7, <3>1, <3>2
    <3> QED
      BY <3>1, <3>2, <3>3
  <2>5. new.n < serial'[<<new.sch, new.at>>] /\ <<new.sch, new.at>> \in Slots
    BY <1>3, <1>6, <1>7, <2>2
  <2>6. \A r \in occs' \cup reservations' : <<r.sch, r.at>> \in Slots /\ r.n < serial'[<<r.sch, r.at>>]
    BY ZenonT(60), <1>4, <2>3, <2>4, <2>5
  <2>7. reservations' \subseteq Reservation
    BY <2>2, <2>3 DEF IInv, TypeOK, StoreOK
  <2> QED
    BY <1>4, <1>7, <2>6, <2>7 DEF IInv, TypeOK, StoreOK
<1>9. PICK l : l = [w[p] EXCEPT !.pc = "create_occurrence", !.n = n, !.status = status]
  OBVIOUS
<1>10. l \in Locals /\ l.pc = "create_occurrence" /\ l.sch = w[p].sch /\ l.list = w[p].list
       /\ l.clock = w[p].clock /\ l.todo = w[p].todo /\ l.n = n
  BY ZenonT(60), <1>0, <1>3, <1>9 DEF Locals, Labels
<1>11. Become(p, l)
  BY <1>1, <1>2, <1>9 DEF Become
<1>12. \A u \in First(l.todo) : l.n < serial'[<<l.sch, u>>]
  <2>1. \A u \in First(l.todo) : u = t
    BY <1>0, <1>1, <1>10, FirstUnique
  <2> QED
    BY <1>3, <1>5, <1>7, <1>10, <2>1
<1>13. LocalOK(p, l)'
  BY <1>0, <1>4, <1>10, <1>12 DEF LocalOK, Known, Extended, ClockMissesFireTimes, Booking, Locked
<1> QED
  BY <1>4, <1>7, <1>8, <1>10, <1>11, <1>13, QuietStep

\* Steps that leave the locks alone and book nothing, but may create or delete a
\* schedule or fire an occurrence.
LEMMA StillStep ==
  ASSUME IInv, NEW p \in Procs, NEW l \in Locals, Become(p, l), StoreOK', Evolves, lock' = lock,
         \A s, t : Known(s, t)' => Known(s, t),
         \A o \in occs' : o.by = "extend" => Extended(o.sch, o.at),
         ClockMissesFireTimes => NoDuplicateExtension',
         LocalOK(p, l)'
  PROVE  IInv'
<1>1. RowsOK'
  BY RowsKept
<1>2. ASSUME NEW q \in Procs \ {p} PROVE Undisturbed(q, w[q])
  <2>1. q \in Extenders /\ w[q].pc \in Locked => lock[w[q].sch] = q
    BY DEF IInv, LocalOK
  <2> QED
    BY <2>1 DEF Undisturbed
<1> QED
  BY <1>1, <1>2, StepKeeps

\* Serials that stay do not go back.
LEMMA SerialsNat ==
  ASSUME IInv, serial' = serial
  PROVE  \A slot \in Slots : serial[slot] <= serial'[slot]
<1>1. \A slot \in Slots : serial[slot] \in Nat
  BY DEF IInv, TypeOK, StoreOK
<1> QED
  BY <1>1

\* Create inserts a schedule row that has no occurrence yet.
LEMMA CreateStep ==
  ASSUME IInv, NEW p \in Procs, NEW s \in Schedules, Create(p, s)
  PROVE  IInv'
<1> USE ScheduleAssumption
<1>0. /\ p \notin Extenders /\ s \notin created /\ created' = created \cup {s}
      /\ schedules' = schedules \cup {s} /\ now \in Nat /\ 0 \in Instants
      /\ UNCHANGED <<now, occs, reservations, serial, lock, failures>>
  BY MyLocals DEF Create
<1>1. StoreOK'
  BY <1>0 DEF IInv, TypeOK, StoreOK
<1>2. Evolves /\ (\A x, t : Known(x, t)' => Known(x, t))
      /\ (\A o \in occs' : o.by = "extend" => Extended(o.sch, o.at))
  BY <1>0, SerialsNat DEF Evolves, Known, Extended
<1>3. ClockMissesFireTimes => NoDuplicateExtension'
  BY <1>0 DEF IInv, RowsOK, NoDuplicateExtension
<1>4. PICK todo : todo = Occurrences(s, now, now + Horizon)
  OBVIOUS
<1>5. /\ todo \in SUBSET Nat /\ todo \subseteq FireTimes[s]
      /\ \A u \in todo : \A t \in FireTimes[s] : now <= t /\ t < u => t \in todo
  <2>1. \A t \in FireTimes[s] : t \in Nat
    BY SlotFacts
  <2>2. now + Horizon \in Nat
    BY <1>0
  <2> QED
    BY <1>0, <1>4, <2>1, <2>2 DEF Occurrences
<1>6. CASE Become(p, Idle)
  <2>1. PICK l : l = Idle
    OBVIOUS
  <2>2. l \in Locals /\ l.pc = "rest" /\ l.list = {} /\ l.clock = 0 /\ Become(p, l)
    BY <1>6, <2>1, IdleType DEF Become
  <2>3. LocalOK(p, l)'
    BY <1>0, <2>2, FreeLocal DEF Locked
  <2> QED
    BY <1>0, <1>1, <1>2, <1>3, <2>2, <2>3, StillStep
<1>7. CASE Become(p, Work("reserve", s, {}, 0, todo))
  <2>1. PICK l : l = Work("reserve", s, {}, 0, todo)
    OBVIOUS
  <2>2. l \in Locals /\ l.pc = "reserve" /\ l.sch = s /\ l.list = {} /\ l.clock = 0 /\ l.todo = todo
    BY <1>5, <2>1 DEF Work, Locals, Labels
  <2>3. Become(p, l)
    BY <1>7, <2>1 DEF Become
  <2>4. now' = now
    BY <1>0
  <2>5. \A u \in l.todo : \A t \in FireTimes[l.sch] : now' <= t /\ t < u => t \in l.todo
    BY ZenonT(60), <1>5, <2>2, <2>4
  <2>6. l.todo \subseteq FireTimes[l.sch]
    BY <1>5, <2>2
  <2>7. l.sch \in created' /\ l.list \subseteq created'
    BY <1>0, <2>2
  <2>8. l.clock <= now'
    BY <1>0, <2>2, <2>4
  <2>9. LocalOK(p, l)'
    BY <1>0, <2>2, <2>5, <2>6, <2>7, <2>8 DEF LocalOK
  <2> QED
    BY <1>0, <1>1, <1>2, <1>3, <2>2, <2>3, <2>9, StillStep
<1> QED
  BY ZenonT(60), <1>4, <1>6, <1>7 DEF Create, Become

\* Delete's cascade removes the rows of one schedule, and with it what is said of it.
LEMMA DeleteStep ==
  ASSUME IInv, NEW p \in Procs, DeleteSchedule(p)
  PROVE  IInv'
<1> USE ScheduleAssumption
<1>0. /\ schedules' = schedules \ {w[p].sch} /\ occs' \subseteq occs /\ now \in Nat
      /\ \A o \in occs : o.sch # w[p].sch \/ w[p].sch \notin schedules => o \in occs'
      /\ Become(p, Idle) /\ UNCHANGED <<now, created, reservations, serial, lock, failures>>
  BY MyLocals DEF DeleteSchedule
<1>1. StoreOK'
  BY <1>0 DEF IInv, TypeOK, StoreOK
<1>2. ASSUME NEW s, NEW t, s \in schedules', Known(s, t) PROVE Known(s, t)'
  BY <1>0, <1>2 DEF Known
<1>3. Evolves
  BY <1>0, <1>2, SerialsNat DEF Evolves
<1>4. /\ \A x, t : Known(x, t)' => Known(x, t)
      /\ \A o \in occs' : o.by = "extend" => Extended(o.sch, o.at)
  BY <1>0 DEF Known, Extended
<1>5. ClockMissesFireTimes => NoDuplicateExtension'
  BY <1>0 DEF IInv, RowsOK, NoDuplicateExtension
<1>6. PICK l : l = Idle
  OBVIOUS
<1>7. l \in Locals /\ l.pc = "rest" /\ l.list = {} /\ l.clock = 0 /\ Become(p, l)
  BY <1>0, <1>6, IdleType DEF Become
<1>8. LocalOK(p, l)'
  BY <1>0, <1>7, FreeLocal DEF Locked
<1> QED
  BY <1>0, <1>1, <1>3, <1>4, <1>5, <1>7, <1>8, StillStep

\* ClaimDueOccurrence changes a status and no fire time.
LEMMA ClaimStep ==
  ASSUME IInv, NEW p \in Procs, ClaimDueOccurrence(p)
  PROVE  IInv'
<1> USE ScheduleAssumption
<1>0. PICK o \in occs : /\ occs' = (occs \ {o}) \cup {[o EXCEPT !.status = "fired"]}
                        /\ Become(p, Holding("claim_release", o.sch, {ReservationID(o)}))
  BY DEF ClaimDueOccurrence
<1>1. UNCHANGED <<now, created, schedules, reservations, serial, lock, failures>> /\ now \in Nat
  BY MyLocals DEF ClaimDueOccurrence
<1>2. /\ o \in Occurrence /\ <<o.sch, o.at>> \in Slots /\ o.n < serial[<<o.sch, o.at>>]
      /\ o.sch \in created /\ o.sch \in Schedules
  BY DEF IInv, TypeOK, StoreOK, RowsOK
<1>3. PICK f : f = [o EXCEPT !.status = "fired"]
  BY ZenonT(60)
<1>4. f \in Occurrence /\ f.sch = o.sch /\ f.at = o.at /\ f.n = o.n /\ f.by = o.by
  BY <1>2, <1>3 DEF Occurrence
<1>5. occs' = (occs \ {o}) \cup {f}
  BY <1>0, <1>3
<1>6. StoreOK'
  <2>1. occs' \subseteq Occurrence
    BY <1>4, <1>5 DEF IInv, TypeOK, StoreOK
  <2>2. <<f.sch, f.at>> \in Slots /\ f.n < serial[<<f.sch, f.at>>]
    BY <1>2, <1>4
  <2>3. \A r \in occs' \cup reservations' :
           <<r.sch, r.at>> \in Slots /\ r.n < serial'[<<r.sch, r.at>>]
    BY ZenonT(60), <1>1, <1>5, <2>2 DEF IInv, TypeOK, StoreOK
  <2> QED
    BY <1>1, <2>1, <2>3 DEF IInv, TypeOK, StoreOK
<1>7. \A s, t : Known(s, t)' <=> Known(s, t)
  BY <1>4, <1>5 DEF Known
<1>8. \A x \in occs' : x.by = "extend" => Extended(x.sch, x.at)
  BY <1>4, <1>5 DEF Extended
<1>9. Evolves
  BY <1>1, <1>7, SerialsNat DEF Evolves
<1>10. ClockMissesFireTimes => NoDuplicateExtension'
  <2>1. SUFFICES ASSUME NoDuplicateExtension, NEW x \in occs', NEW y \in occs',
                        x.by = "extend", y.by = "extend", x.sch = y.sch, x.at = y.at
                 PROVE  x = y
    BY DEF IInv, RowsOK, NoDuplicateExtension
  <2> QED
    BY <1>4, <1>5, <2>1 DEF NoDuplicateExtension
<1>11. PICK l : l = Holding("claim_release", o.sch, {ReservationID(o)})
  OBVIOUS
<1>12. ReservationID(o) \in Reservation
  BY <1>2 DEF ReservationID, Reservation, Occurrence
<1>13. l \in Locals /\ l.pc = "claim_release" /\ l.sch = o.sch /\ l.list = {} /\ l.clock = 0
  BY <1>2, <1>11, <1>12 DEF Holding, Locals, Labels
<1>14. Become(p, l)
  BY <1>0, <1>11 DEF Become
<1>15. LocalOK(p, l)'
  BY <1>1, <1>2, <1>13, FreeLocal DEF Locked
<1> QED
  BY <1>1, <1>6, <1>7, <1>8, <1>9, <1>10, <1>13, <1>14, <1>15, StillStep

\* A teardown elsewhere, and time.
LEMMA OutsideSteps ==
  ASSUME IInv, (\E e : Teardown(e)) \/ Tick
  PROVE  IInv'
<1> USE ScheduleAssumption
<1>1. /\ UNCHANGED <<created, schedules, occs, serial, lock, failures, w>>
      /\ reservations' \subseteq reservations /\ now' \in Instants /\ now <= now' /\ now \in Nat
  BY DEF Teardown, Tick, IInv, TypeOK, StoreOK
<1>2. StoreOK'
  BY <1>1 DEF IInv, TypeOK, StoreOK
<1>3. \A s, t : Known(s, t)' <=> Known(s, t)
  BY <1>1 DEF Known
<1>4. Evolves
  BY <1>1, <1>3, SerialsNat DEF Evolves
<1>5. ClockMissesFireTimes => NoDuplicateExtension'
  BY <1>1 DEF IInv, RowsOK, NoDuplicateExtension
<1>6. RowsOK'
  BY <1>2, <1>3, <1>4, <1>5, RowsKept
<1>7. ASSUME NEW q \in Procs PROVE LocalOK(q, w[q])'
  <2>1. PICK m : m = w[q]
    OBVIOUS
  <2>2. m \in Locals /\ w'[q] = m /\ LocalOK(q, m) /\ StoreOK
    BY <1>1, <2>1 DEF IInv, TypeOK
  <2>3. Undisturbed(q, m)
    BY <1>1, <2>2 DEF Undisturbed, LocalOK, Extended
  <2>4. LocalOK(q, m)'
    BY <1>2, <1>4, <2>2, <2>3, LocalKeeps
  <2> QED
    BY <2>2, <2>4
<1> QED
  BY <1>1, <1>2, <1>6, <1>7 DEF IInv, TypeOK

\* CreateOccurrence inserts the earliest fire time still to book.
LEMMA BookStep ==
  ASSUME IInv, NEW p \in Procs, CreateOccurrence(p)
  PROVE  IInv'
<1> USE ScheduleAssumption
<1>0. /\ w[p] \in Locals /\ w[p].list \in SUBSET Schedules /\ w[p].clock \in Instants
      /\ w[p].list \subseteq created /\ w[p].clock <= now /\ now \in Nat
      /\ w[p].pc = "create_occurrence" /\ w[p].sch \in created /\ w[p].sch \in Schedules
      /\ w[p].todo \subseteq FireTimes[w[p].sch] /\ w[p].todo \in SUBSET Nat
      /\ LocalOK(p, w[p]) /\ lock \in [Schedules -> Procs \cup {None}]
      /\ (p \in Extenders => lock[w[p].sch] = p)
  BY ZenonT(60), MyLocals DEF CreateOccurrence, At, StoreOK, LocalOK, Booking, Locked, Locals
<1>1. PICK t \in First(w[p].todo) :
        /\ occs' = occs \cup {[sch |-> w[p].sch, at |-> t, n |-> w[p].n,
                               status |-> w[p].status, by |-> By(p)]}
        /\ IF w[p].todo \ {t} = {} THEN Return(p)
           ELSE /\ Become(p, Work("reserve", w[p].sch, w[p].list, w[p].clock, w[p].todo \ {t}))
                /\ UNCHANGED lock
  BY ZenonT(60) DEF CreateOccurrence
<1>2. UNCHANGED <<now, created, schedules, reservations, serial, failures>>
  BY DEF CreateOccurrence
<1>3. /\ t \in w[p].todo /\ t \in Nat /\ t \in FireTimes[w[p].sch] /\ <<w[p].sch, t>> \in Slots
      /\ (\A u \in w[p].todo : t <= u) /\ w[p].n < serial[<<w[p].sch, t>>]
  BY ZenonT(60), <1>0, <1>1, SlotFacts DEF First, LocalOK
<1>4. PICK row : row = [sch |-> w[p].sch, at |-> t, n |-> w[p].n, status |-> w[p].status, by |-> By(p)]
  BY ZenonT(60)
<1>5. /\ row \in Occurrence /\ row.sch = w[p].sch /\ row.at = t /\ row.n = w[p].n
      /\ (row.by = "extend" => p \in Extenders) /\ occs' = occs \cup {row}
  BY ZenonT(60), <1>0, <1>1, <1>3, <1>4 DEF Occurrence, Locals, By
<1>6. \A s, u : Known(s, u) => Known(s, u)'
  BY <1>5 DEF Known
<1>7. Known(row.sch, t)'
  BY <1>5 DEF Known
<1>8. Evolves
  BY <1>0, <1>2, <1>6, SerialsNat DEF Evolves
<1>9. RowsOK'
  <2>1. \A o \in occs' : o.sch \in created'
    BY <1>0, <1>2, <1>5 DEF IInv, RowsOK
  <2>2. ASSUME ClockMissesFireTimes PROVE NoDuplicateExtension'
    <3>1. p \in Extenders => ~Extended(w[p].sch, t)
      BY <1>0, <1>3, <2>2 DEF LocalOK, Booking
    <3>2. NoDuplicateExtension
      BY <2>2 DEF IInv, RowsOK
    <3>3. ASSUME NEW o \in occs', NEW q \in occs', o.by = "extend", q.by = "extend",
                 o.sch = q.sch, o.at = q.at
          PROVE  o = q
      BY <1>5, <3>1, <3>2, <3>3 DEF Extended, NoDuplicateExtension
    <3> QED
      BY <3>3 DEF NoDuplicateExtension
  <2>3. ASSUME NEW o \in occs, NEW u \in FireTimes[o.sch], o.sch \in schedules, now <= u, u < o.at
        PROVE  Known(o.sch, u)'
    <3>1. Known(o.sch, u)
      BY <2>3 DEF IInv, RowsOK, HorizonContiguous, Known
    <3> QED
      BY <1>6, <3>1
  <2>4. ASSUME NEW u \in FireTimes[row.sch], row.sch \in schedules, now <= u, u < row.at
        PROVE  Known(row.sch, u)'
    <3>1. u \in Nat /\ u \notin w[p].todo
      BY <1>0, <1>3, <1>5, <2>4, SlotFacts
    <3>2. row.sch = w[p].sch /\ row.at = t
      BY <1>5
    <3>3. \A v \in w[p].todo : \A x \in FireTimes[w[p].sch] :
             now <= x /\ x < v => x \in w[p].todo \/ Known(w[p].sch, x)
      BY ZenonT(60), <1>0, <2>4, <3>2 DEF LocalOK, Booking
    <3>4. t \in w[p].todo
      BY <1>3
    <3> HIDE ScheduleAssumption
    <3>5. Known(row.sch, u)
      BY <2>4, <3>1, <3>2, <3>3, <3>4
    <3> QED
      BY <1>6, <3>5
  <2>5. ASSUME NEW o \in occs', NEW u \in FireTimes[o.sch], o.sch \in schedules', now' <= u, u < o.at
        PROVE  Known(o.sch, u)'
    BY <1>2, <1>5, <2>3, <2>4, <2>5
  <2>6. HorizonContiguous'
    BY <2>5 DEF HorizonContiguous, Known
  <2> QED
    BY <2>1, <2>2, <2>6 DEF RowsOK, ClockMissesFireTimes
<1>10. ASSUME lock' \in [Schedules -> Procs \cup {None}] PROVE StoreOK'
  <2>1. row.n < serial[<<row.sch, row.at>>] /\ <<row.sch, row.at>> \in Slots
    BY <1>3, <1>5
  <2>2. \A r \in occs' \cup reservations' :
           <<r.sch, r.at>> \in Slots /\ r.n < serial'[<<r.sch, r.at>>]
    BY ZenonT(60), <1>2, <1>5, <2>1 DEF IInv, TypeOK, StoreOK
  <2> QED
    BY <1>2, <1>5, <1>10, <2>2 DEF IInv, TypeOK, StoreOK
<1>11. ASSUME \A q \in Procs \ {p}, s \in Schedules : lock[s] = q => lock'[s] = q,
              NEW q \in Procs \ {p}
       PROVE  Undisturbed(q, w[q])
  <2>1. w[q].pc \in Locked => w[q].sch \in Schedules
    BY ZenonT(60) DEF IInv, TypeOK, StoreOK, LocalOK, Locked
  <2>2. q \in Extenders /\ w[q].pc \in Locked => lock[w[q].sch] = q
    BY ZenonT(60) DEF IInv, LocalOK
  <2>3. q \in Extenders /\ w[q].pc \in Locked => lock'[w[q].sch] = q
    BY <1>11, <2>1, <2>2
  <2>4. ASSUME q \in Extenders, w[q].pc \in Booking, NEW o \in occs', o.by = "extend",
               o.sch = w[q].sch
        PROVE  Extended(w[q].sch, o.at)
    <3>1. o # row
      BY <1>0, <1>5, <2>2, <2>4 DEF Booking, Locked
    <3> QED
      BY <1>5, <2>4, <3>1 DEF Extended
  <2> QED
    BY <2>3, <2>4 DEF Undisturbed
<1>12. CASE Return(p)
  <2>1. /\ \E l \in Locals : Become(p, l) /\ LocalOK(p, l)'
        /\ lock' \in [Schedules -> Procs \cup {None}]
        /\ \A q \in Procs \ {p}, s \in Schedules : lock[s] = q => lock'[s] = q
    BY ZenonT(60), <1>0, <1>2, <1>12, ReturnType
  <2>2. PICK l \in Locals : Become(p, l) /\ LocalOK(p, l)'
    BY <2>1
  <2>3. \A q \in Procs \ {p} : Undisturbed(q, w[q])
    BY <1>11, <2>1
  <2> QED
    BY <1>8, <1>9, <1>10, <2>1, <2>2, <2>3, StepKeeps
<1>13. CASE /\ Become(p, Work("reserve", w[p].sch, w[p].list, w[p].clock, w[p].todo \ {t}))
            /\ UNCHANGED lock
  <2>1. PICK l : l = Work("reserve", w[p].sch, w[p].list, w[p].clock, w[p].todo \ {t})
    OBVIOUS
  <2>2. l \in Locals /\ l.pc = "reserve" /\ l.sch = w[p].sch /\ l.list = w[p].list
        /\ l.clock = w[p].clock /\ l.todo = w[p].todo \ {t}
    BY <1>0, <2>1 DEF Work, Locals, Labels
  <2>3. Become(p, l)
    BY <1>13, <2>1 DEF Become
  <2>4. ASSUME p \in Extenders, ClockMissesFireTimes, NEW u \in l.todo PROVE ~Extended(l.sch, u)'
    <3>1. ~Extended(w[p].sch, u) /\ u # t
      BY ZenonT(60), <1>0, <2>2, <2>4 DEF LocalOK, Booking
    <3> QED
      BY <1>5, <2>2, <3>1 DEF Extended
  <2>5. ASSUME l.sch \in schedules', NEW u \in l.todo, NEW x \in FireTimes[l.sch], now' <= x, x < u
        PROVE  x \in l.todo \/ Known(l.sch, x)'
    <3>1. x \in w[p].todo \/ Known(w[p].sch, x)
      BY ZenonT(60), <1>0, <1>2, <2>2, <2>5 DEF LocalOK, Booking
    <3> QED
      BY <1>5, <1>6, <1>7, <2>2, <3>1
  <2>6. LocalOK(p, l)'
    BY ZenonT(60), <1>0, <1>2, <1>13, <2>2, <2>4, <2>5 DEF LocalOK, Booking, Locked, ClockMissesFireTimes
  <2>7. \A q \in Procs \ {p} : Undisturbed(q, w[q])
    BY <1>11, <1>13
  <2>8. StoreOK'
    BY <1>0, <1>10, <1>13
  <2> QED
    BY <1>8, <1>9, <2>2, <2>3, <2>6, <2>7, <2>8, StepKeeps
<1> QED
  BY <1>1, <1>12, <1>13

-----------------------------------------------------------------------------
(* The theorems *)

\* With no schedules the invariant holds.
LEMMA InitInvariant == Init => IInv
<1> SUFFICES ASSUME Init PROVE IInv
  OBVIOUS
<1> USE ScheduleAssumption
<1>1. w \in [Procs -> Locals] /\ \A p \in Procs : w[p] = Idle
  BY IdleType DEF Init
<1>2. StoreOK
  BY DEF Init, StoreOK
<1>3. RowsOK
  BY DEF Init, RowsOK, NoDuplicateExtension, HorizonContiguous
<1>4. \A p \in Procs : LocalOK(p, w[p])
  <2> TAKE p \in Procs
  <2>1. PICK l : l = w[p]
    OBVIOUS
  <2>2. l.pc = "rest" /\ l.list = {} /\ l.clock = 0 /\ now = 0
    BY <1>1, <2>1, IdleType DEF Init
  <2> QED
    BY <2>1, <2>2 DEF LocalOK, Locked, Booking
<1> QED
  BY <1>1, <1>2, <1>3, <1>4 DEF IInv, TypeOK

\* A stuttering step keeps the invariant.
LEMMA StutterStep ==
  ASSUME IInv, UNCHANGED vars
  PROVE  IInv'
<1>0. UNCHANGED <<now, created, schedules, occs, reservations, serial, lock, failures, w>>
  BY DEF vars
<1>1. TypeOK'
  BY <1>0 DEF IInv, TypeOK, StoreOK
<1>2. \A s, t : (Known(s, t)' <=> Known(s, t)) /\ (Extended(s, t)' <=> Extended(s, t))
  BY <1>0 DEF Known, Extended
<1>3. RowsOK'
  <2>1. NoDuplicateExtension' <=> NoDuplicateExtension
    BY <1>0 DEF NoDuplicateExtension
  <2>2. HorizonContiguous' <=> HorizonContiguous
    BY <1>0 DEF HorizonContiguous
  <2> QED
    BY <1>0, <2>1, <2>2 DEF IInv, RowsOK, ClockMissesFireTimes
<1>4. ASSUME NEW p \in Procs PROVE LocalOK(p, w[p])'
  <2>1. PICK l : l = w[p]
    OBVIOUS
  <2>2. LocalOK(p, l)
    BY <2>1 DEF IInv
  <2>3. LocalOK(p, l)'
    BY <1>0, <1>2, <2>2 DEF LocalOK, ClockMissesFireTimes
  <2> QED
    BY <1>0, <2>1, <2>3
<1> QED
  BY <1>1, <1>3, <1>4 DEF IInv

\* Every step of a replica, a request or the clock keeps the invariant.
LEMMA NextInvariant == IInv /\ [Next]_vars => IInv'
<1> SUFFICES ASSUME IInv, [Next]_vars PROVE IInv'
  OBVIOUS
<1>1. ASSUME NEW p \in Procs, Step(p) PROVE IInv'
  BY <1>1, ReserveStep, BookStep, ReleaseSteps, DeleteStep, LockStep, ExtendStep DEF Step
<1>2. ASSUME NEW p \in Procs, Fail(p) PROVE IInv'
  BY <1>2, BeginSteps
<1>3. ASSUME NEW p \in Handlers, NEW s \in Schedules, Create(p, s) \/ Delete(p, s) PROVE IInv'
  BY <1>3, CreateStep, BeginSteps DEF Procs
<1>4. ASSUME NEW p \in Extenders, ExtendHorizons(p) PROVE IInv'
  BY <1>4, BeginSteps DEF Procs
<1>5. ASSUME NEW p \in Firers, ClaimDueOccurrence(p) PROVE IInv'
  BY <1>5, ClaimStep DEF Procs
<1>6. CASE (\E e \in {Exe[s] : s \in Schedules} : Teardown(e)) \/ Tick
  BY <1>6, OutsideSteps
<1>7. CASE UNCHANGED vars
  BY <1>7, StutterStep
<1> QED
  BY <1>1, <1>2, <1>3, <1>4, <1>5, <1>6, <1>7 DEF Next

\* The inductive invariant: an extender at work holds its schedule's lock, no loop has
\* booked what it has still to book, and below each fire time still to be booked every
\* coming one is known or still to be booked as well.
THEOREM ScheduleInvariant == Spec => []IInv
BY InitInvariant, NextInvariant, PTL DEF Spec

\* Rows, locks and locals keep their types whatever the API requests, the horizon
\* loops and the fire loops interleave, and every row is of a fire time Reserve was
\* asked for.
THEOREM ScheduleTypeCorrect == Spec => []TypeOK
<1>1. IInv => TypeOK
  BY DEF IInv
<1> QED
  BY <1>1, ScheduleInvariant, PTL

\* extendOne may go on from the last known occurrence: below it every coming fire
\* time of a schedule that exists is known, although a Create or a pass may fail
\* half way and Create does not take the lock.
THEOREM HorizonHasNoHoles == Spec => []HorizonContiguous
<1>1. IInv => HorizonContiguous
  BY DEF IInv, RowsOK
<1> QED
  BY <1>1, ScheduleInvariant, PTL

\* With any number of replicas the named lock keeps two passes from booking one
\* fire time twice, unless a pass reads the clock at the very instant of one.
THEOREM ExtensionsUnique ==
  ASSUME ClockMissesFireTimes
  PROVE  Spec => []NoDuplicateExtension
<1>1. IInv => NoDuplicateExtension
  BY DEF IInv, RowsOK
<1> QED
  BY <1>1, ScheduleInvariant, PTL
=============================================================================
