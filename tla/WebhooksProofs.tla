--------------------------- MODULE WebhooksProofs ---------------------------
(***************************************************************************)
(* Theorems about Webhooks, for any registry, number of runs, workers and  *)
(* attempts, any capacity of the queue and any number of restarts.         *)
(***************************************************************************)
EXTENDS Webhooks, WellFoundedInduction, TLAPS

\* A leaf is tried with Zenon, with SMT and with both again for longer, unless it
\* names its prover.
USE ZenonT(3), SMTT(20), ZenonT(30), SMTT(90)

InTodo(n) == n[1] \in todo[n[2]]
InQueue(n) == \E i \in DOMAIN queue : queue[i] = n
Holds(k, n) == worker[k] # None /\ worker[k].notice = n
InWorker(n) == \E k \in Workers : Holds(k, n)

Typed ==
    /\ hooks \in [Hooks -> Webhook \cup {None}]
    /\ completed \subseteq Runs
    /\ todo \in [Runs -> SUBSET Hooks]
    /\ queue \in Seq(Notices) /\ Len(queue) <= QueueCap
    /\ started \in BOOLEAN
    /\ worker \in [Workers -> Delivery \cup {None}]
    /\ tries \in [Notices -> Nat]
    /\ listed \subseteq Notices /\ settled \subseteq Notices
    /\ logged \subseteq Notices /\ wiped \subseteq Notices
    /\ faults \in 0 .. MaxFaults

\* A notice is in one place at a time, and only where its run has completed; it
\* has been posted as often as the worker that holds it has tried before.
PlaceOK(n) ==
    /\ tries[n] <= DeliverAttempts
    /\ n[2] \notin completed => tries[n] = 0 /\ n \notin listed
    /\ InTodo(n) => tries[n] = 0 /\ ~InQueue(n) /\ ~InWorker(n)
    /\ InQueue(n) => tries[n] = 0 /\ ~InWorker(n)
    /\ \A i, j \in DOMAIN queue : queue[i] = n /\ queue[j] = n => i = j
    /\ \A k \in Workers : Holds(k, n) =>
          /\ tries[n] = worker[k].attempt - 1
          /\ \A j \in Workers : Holds(j, n) => j = k
    /\ n \in listed <=>
          InTodo(n) \/ InQueue(n) \/ InWorker(n) \/ n \in settled \cup logged \cup wiped
    /\ tries[n] > 0 => n \in listed
    /\ n \in listed => hooks[n[1]] # None /\ hooks[n[1]].project = ProjectOf[n[2]]

IInv == Typed /\ \A n \in Notices : PlaceOK(n)

----------------------------------------------------------------------------
(* What the steps are made of.                                             *)

\* RunCompleted's loop has a next webhook as long as one is left.
LEMMA NextHookExists ==
    ASSUME NEW r \in Runs, todo[r] \subseteq Hooks, todo[r] # {}
    PROVE  NextHook(r) \in todo[r]
  <1> DEFINE R == OpToRel(<, Nat)
  <1>1. \A x, y \in Nat : x < y => <<x, y>> \in R
    BY DEF OpToRel
  <1>2. IsWellFoundedOn(R, Nat)
    BY NatLessThanWellFounded
  <1>3. todo[r] \subseteq Nat
    BY WebhooksAssumption
  <1> HIDE DEF R
  <1>4. PICK x \in todo[r] : \A y \in todo[r] : ~(<<y, x>> \in R)
    BY <1>2, <1>3, WFMin
  <1>5. ASSUME NEW g \in todo[r] PROVE x <= g
    <2>1. x \in Nat /\ g \in Nat
      BY <1>3
    <2>2. ~(g < x)
      BY <1>1, <1>4, <2>1
    <2> QED BY <2>1, <2>2
  <1> QED BY <1>5 DEF NextHook

\* The channel holds what it held and what is sent to it.
LEMMA QueueAppend ==
    ASSUME NEW q \in Seq(Notices), NEW m \in Notices
    PROVE  /\ Append(q, m) \in Seq(Notices) /\ Len(Append(q, m)) = Len(q) + 1
           /\ DOMAIN Append(q, m) = DOMAIN q \cup {Len(q) + 1}
           /\ Len(q) + 1 \notin DOMAIN q
           /\ \A i \in DOMAIN q : Append(q, m)[i] = q[i]
           /\ Append(q, m)[Len(q) + 1] = m
  OBVIOUS

\* What a worker receives from it is gone, and nothing else.
LEMMA QueueTail ==
    ASSUME NEW q \in Seq(Notices), q # <<>>
    PROVE  /\ Tail(q) \in Seq(Notices) /\ Len(Tail(q)) <= Len(q) /\ Head(q) \in Notices
           /\ Len(q) \in Nat /\ 1 \in DOMAIN q /\ Head(q) = q[1]
           /\ DOMAIN q = 1 .. Len(q)
           /\ DOMAIN Tail(q) = 1 .. (Len(q) - 1)
           /\ \A i \in DOMAIN Tail(q) : i + 1 \in DOMAIN q /\ Tail(q)[i] = q[i + 1]
  OBVIOUS

\* What the queue, the loops and the workers hold, notice by notice.
LEMMA PlacesNamed ==
    ASSUME Typed
    PROVE  /\ InHand \subseteq Notices /\ Waiting \subseteq Notices
           /\ \A n \in Notices : /\ n \in InHand <=> InWorker(n)
                                 /\ n \in Waiting <=> InQueue(n) \/ InTodo(n)
  <1>1. InHand \subseteq Notices
    BY DEF Typed, InHand, Delivery
  <1>2. \A n \in Notices : n \in InHand <=> InWorker(n)
    BY DEF InHand, InWorker, Holds
  <1>3. ToSet(queue) \subseteq Notices /\ \A n \in Notices : n \in ToSet(queue) <=> InQueue(n)
    BY DEF Typed, ToSet, InQueue
  <1> DEFINE T == UNION {todo[r] \X {r} : r \in Runs}
  <1>4. T \subseteq Notices
    BY DEF Typed, Notices
  <1>5. ASSUME NEW n \in Notices PROVE n \in T <=> InTodo(n)
    <2>1. n[1] \in Hooks /\ n[2] \in Runs /\ n = <<n[1], n[2]>>
      BY DEF Notices
    <2>2. n \in T <=> \E r \in Runs : n \in todo[r] \X {r}
      OBVIOUS
    <2>3. \A r \in Runs : n \in todo[r] \X {r} <=> n[1] \in todo[r] /\ n[2] = r
      BY <2>1
    <2> QED BY <2>1, <2>2, <2>3 DEF InTodo
  <1>6. Waiting = ToSet(queue) \cup T
    BY DEF Waiting
  <1> HIDE DEF T
  <1> QED BY <1>1, <1>2, <1>3, <1>4, <1>5, <1>6

----------------------------------------------------------------------------
(* One lemma per group of steps.                                           *)

LEMMA InitOK ==
    ASSUME Init
    PROVE  IInv
  <1>1. Typed
    <2>1. queue \in Seq(Notices) /\ Len(queue) <= QueueCap /\ faults \in 0 .. MaxFaults
      BY WebhooksAssumption DEF Init
    <2>2. tries \in [Notices -> Nat] /\ todo \in [Runs -> SUBSET Hooks]
      BY DEF Init
    <2> QED BY <2>1, <2>2 DEF Init, Typed
  <1>2. ASSUME NEW n \in Notices PROVE PlaceOK(n)
    <2>1. n[1] \in Hooks /\ n[2] \in Runs
      BY DEF Notices
    <2>2. ~InTodo(n) /\ ~InQueue(n) /\ ~InWorker(n)
      BY <2>1 DEF Init, InTodo, InQueue, InWorker, Holds
    <2>3. tries[n] = 0 /\ queue = <<>> /\ n \notin listed \cup settled \cup logged \cup wiped
      BY DEF Init
    <2> QED BY <2>2, <2>3, WebhooksAssumption DEF PlaceOK, InWorker
  <1> QED BY <1>1, <1>2 DEF IInv

\* The registry's handlers leave deliveries alone, and no row loses its project.
LEMMA RegistryOK ==
    ASSUME IInv,
           NEW a \in Accounts, NEW p \in Projects, NEW h \in Hooks,
           \/ HandleCreate(a, p, h) \/ HandleDelete(a, p, h)
           \/ \E enabled \in BOOLEAN : HandleSetEnabled(a, p, h, enabled)
    PROVE  IInv'
  <1>1. UNCHANGED <<completed, todo, queue, started, worker, tries, listed, settled,
                    logged, wiped, faults>>
    BY DEF HandleCreate, HandleDelete, HandleSetEnabled, delivery
  <1>2. /\ hooks' \in [Hooks -> Webhook \cup {None}]
        /\ \A g \in Hooks : hooks[g] # None =>
              hooks'[g] # None /\ hooks'[g].project = hooks[g].project
    <2>1. CASE HandleCreate(a, p, h)
      BY <2>1, WebhooksAssumption DEF HandleCreate, CreateWebhook, IInv, Typed, Webhook
    <2>2. CASE HandleDelete(a, p, h)
      <3>1. hooks[h] # None /\ hooks[h] \in Webhook
            /\ hooks' = [hooks EXCEPT ![h].state = "deleted"]
        BY <2>2 DEF HandleDelete, DeleteWebhook, ListWebhooksByProject, Stored, IInv, Typed
      <3> QED BY <3>1, WebhooksAssumption DEF IInv, Typed, Webhook
    <2>3. ASSUME NEW e \in BOOLEAN, HandleSetEnabled(a, p, h, e)
          PROVE  /\ hooks' \in [Hooks -> Webhook \cup {None}]
                 /\ \A g \in Hooks : hooks[g] # None =>
                       hooks'[g] # None /\ hooks'[g].project = hooks[g].project
      <3> DEFINE st == IF e THEN "enabled" ELSE "paused"
      <3>1. hooks[h] # None /\ hooks[h] \in Webhook
            /\ hooks' = [hooks EXCEPT ![h].state = st]
        BY <2>3 DEF HandleSetEnabled, SetWebhookEnabled, ListWebhooksByProject, Stored, IInv, Typed
      <3>2. st \in {"enabled", "paused", "deleted"}
        OBVIOUS
      <3> HIDE DEF st
      <3> QED BY <3>1, <3>2, WebhooksAssumption DEF IInv, Typed, Webhook
    <2> QED BY <2>1, <2>2, <2>3
  <1>3. Typed'
    BY <1>1, <1>2 DEF IInv, Typed
  <1>4. ASSUME NEW n \in Notices PROVE PlaceOK(n)'
    <2>1. n[1] \in Hooks
      BY DEF Notices
    <2> QED BY <1>1, <1>2, <2>1 DEF IInv, PlaceOK, InTodo, InQueue, InWorker, Holds
  <1> QED BY <1>3, <1>4 DEF IInv

LEMMA RunCompletedOK ==
    ASSUME IInv, NEW r \in Runs, RunCompleted(r)
    PROVE  IInv'
  <1> DEFINE mine == Enabled(ProjectOf[r])
  <1>1. /\ r \notin completed /\ completed' = completed \cup {r}
        /\ UNCHANGED <<hooks, queue, worker, tries, settled, logged, wiped>>
    BY DEF RunCompleted
  <1>2. /\ mine \subseteq Hooks
        /\ \A h \in mine : hooks[h] # None /\ hooks[h].project = ProjectOf[r]
    BY DEF Enabled, ListWebhooksByProject, Stored
  <1>3. \/ /\ todo' = [todo EXCEPT ![r] = mine] /\ listed' = listed \cup (mine \X {r})
           /\ started' \in BOOLEAN /\ faults' = faults
        \/ /\ UNCHANGED <<todo, listed, started>> /\ faults < MaxFaults /\ faults' = faults + 1
    BY DEF RunCompleted
  <1> HIDE DEF mine
  <1>4. Typed'
    <2>1. todo' \in [Runs -> SUBSET Hooks] /\ started' \in BOOLEAN
      BY <1>2, <1>3 DEF IInv, Typed
    <2>2. listed' \subseteq Notices
      BY <1>2, <1>3 DEF IInv, Typed, Notices
    <2>3. faults' \in 0 .. MaxFaults
      BY <1>3, WebhooksAssumption DEF IInv, Typed
    <2> QED BY <1>1, <2>1, <2>2, <2>3 DEF IInv, Typed
  <1>5. ASSUME NEW n \in Notices PROVE PlaceOK(n)'
    <2>1. n[1] \in Hooks /\ n[2] \in Runs /\ n = <<n[1], n[2]>> /\ PlaceOK(n)
      BY DEF Notices, IInv
    <2>2. (InQueue(n)' <=> InQueue(n)) /\ (InWorker(n)' <=> InWorker(n))
          /\ \A k \in Workers : Holds(k, n)' <=> Holds(k, n)
      BY <1>1 DEF InQueue, InWorker, Holds
    <2>3. CASE n[2] # r
      <3>1. (InTodo(n)' <=> InTodo(n)) /\ (n \in listed' <=> n \in listed)
        BY <1>3, <2>1, <2>3 DEF IInv, Typed, InTodo
      <3> QED BY <1>1, <2>1, <2>2, <2>3, <3>1 DEF PlaceOK
    <2>4. CASE n[2] = r
      <3>1. tries[n] = 0 /\ n \notin listed /\ ~InTodo(n) /\ ~InQueue(n) /\ ~InWorker(n)
            /\ n \notin settled \cup logged \cup wiped
        BY <1>1, <2>1, <2>4 DEF PlaceOK
      <3>2. (InTodo(n)' <=> n \in listed') /\ (n \in listed' => n[1] \in mine)
        BY <1>3, <2>1, <2>4, <3>1 DEF IInv, Typed, InTodo
      <3> QED BY <1>1, <1>2, <2>1, <2>2, <2>4, <3>1, <3>2 DEF PlaceOK, InWorker
    <2> QED BY <2>3, <2>4
  <1> QED BY <1>4, <1>5 DEF IInv

\* The send: the webhook leaves the loop for the queue, or for the log.
LEMMA EnqueueOK ==
    ASSUME IInv, NEW r \in Runs, Enqueue(r)
    PROVE  IInv'
  <1> DEFINE h == NextHook(r)
             m == <<h, r>>
  <1>1. h \in todo[r] /\ h \in Hooks /\ m \in Notices
    BY NextHookExists DEF Enqueue, IInv, Typed, Notices
  <1>2. /\ todo' = [todo EXCEPT ![r] = @ \ {h}]
        /\ UNCHANGED <<hooks, completed, started, worker, tries, listed, settled, wiped, faults>>
        /\ \/ /\ Len(queue) < QueueCap /\ queue' = Append(queue, m) /\ logged' = logged
           \/ /\ queue' = queue /\ logged' = logged \cup {m}
    BY DEF Enqueue
  <1> HIDE DEF h
  <1>6. \/ /\ Len(queue) < QueueCap /\ queue' = Append(queue, m) /\ logged' = logged
           /\ queue' \in Seq(Notices) /\ Len(queue') = Len(queue) + 1
           /\ DOMAIN queue' = DOMAIN queue \cup {Len(queue) + 1}
           /\ Len(queue) + 1 \notin DOMAIN queue
           /\ \A i \in DOMAIN queue : queue'[i] = queue[i]
           /\ queue'[Len(queue) + 1] = m
        \/ queue' = queue /\ logged' = logged \cup {m}
    <2>1. queue \in Seq(Notices)
      BY DEF IInv, Typed
    <2> HIDE DEF m
    <2>2. /\ Append(queue, m) \in Seq(Notices) /\ Len(Append(queue, m)) = Len(queue) + 1
          /\ DOMAIN Append(queue, m) = DOMAIN queue \cup {Len(queue) + 1}
          /\ Len(queue) + 1 \notin DOMAIN queue
          /\ \A i \in DOMAIN queue : Append(queue, m)[i] = queue[i]
          /\ Append(queue, m)[Len(queue) + 1] = m
      BY <1>1, <2>1, QueueAppend
    <2>3. CASE queue' = queue /\ logged' = logged \cup {m}
      BY <2>3
    <2>4. CASE Len(queue) < QueueCap /\ queue' = Append(queue, m) /\ logged' = logged
      BY ONLY <2>2, <2>4, Zenon
    <2> QED BY <1>2, <2>3, <2>4
  <1>3. Typed'
    <2>1. queue' \in Seq(Notices) /\ Len(queue') <= QueueCap
      <3>1. queue \in Seq(Notices) /\ Len(queue) \in Nat /\ Len(queue) <= QueueCap /\ QueueCap \in Nat
        BY WebhooksAssumption DEF IInv, Typed
      <3> QED BY <1>6, <3>1
    <2>2. todo' \in [Runs -> SUBSET Hooks] /\ logged' \subseteq Notices
      BY <1>1, <1>2 DEF IInv, Typed
    <2> QED BY <1>2, <2>1, <2>2 DEF IInv, Typed
  <1>4. ASSUME NEW n \in Notices PROVE PlaceOK(n)'
    <2>1. n[1] \in Hooks /\ n[2] \in Runs /\ n = <<n[1], n[2]>> /\ PlaceOK(n) /\ Typed
      BY DEF Notices, IInv
    <2>2. (InWorker(n)' <=> InWorker(n)) /\ \A k \in Workers : Holds(k, n)' <=> Holds(k, n)
      BY <1>2 DEF InWorker, Holds
    <2>3. CASE n # m
      <3>1. InTodo(n)' <=> InTodo(n)
        BY <1>2, <2>1, <2>3 DEF Typed, InTodo
      <3>2. /\ InQueue(n)' <=> InQueue(n)
            /\ \A i, j \in DOMAIN queue' : queue'[i] = n /\ queue'[j] = n => i = j
            /\ n \in logged' <=> n \in logged
        BY <1>6, <2>1, <2>3 DEF InQueue, PlaceOK
      <3> QED BY <1>2, <2>1, <2>2, <3>1, <3>2 DEF PlaceOK
    <2>4. CASE n = m
      <3>1. InTodo(n) /\ tries[n] = 0 /\ ~InQueue(n) /\ ~InWorker(n) /\ n \in listed
        BY <1>1, <2>1, <2>4 DEF InTodo, PlaceOK
      <3>2. ~InTodo(n)'
        BY <1>1, <1>2, <2>1, <2>4 DEF Typed, InTodo
      <3>3. /\ InQueue(n)' \/ n \in logged'
            /\ \A i, j \in DOMAIN queue' : queue'[i] = n /\ queue'[j] = n => i = j
        BY <1>6, <2>4, <3>1 DEF InQueue
      <3> QED BY <1>2, <2>1, <2>2, <3>1, <3>2, <3>3 DEF PlaceOK, InWorker
    <2> QED BY <2>3, <2>4
  <1> QED BY <1>3, <1>4 DEF IInv

\* A worker receives the oldest notice of the queue.
LEMMA TakeOK ==
    ASSUME IInv, NEW k \in Workers, Take(k)
    PROVE  IInv'
  <1> DEFINE m == Head(queue)
  <1>1. /\ queue \in Seq(Notices) /\ queue # <<>> /\ worker[k] = None
        /\ worker' = [worker EXCEPT ![k] = [notice |-> m, attempt |-> 1]]
        /\ queue' = Tail(queue)
        /\ UNCHANGED <<hooks, completed, todo, started, tries, listed, settled, logged, wiped,
                       faults>>
    BY DEF Take, IInv, Typed
  <1>2. /\ Tail(queue) \in Seq(Notices) /\ Len(Tail(queue)) <= Len(queue) /\ m \in Notices
        /\ Len(queue) \in Nat /\ 1 \in DOMAIN queue /\ m = queue[1]
        /\ DOMAIN queue = 1 .. Len(queue) /\ DOMAIN queue' = 1 .. (Len(queue) - 1)
        /\ \A i \in DOMAIN queue' : i + 1 \in DOMAIN queue /\ queue'[i] = queue[i + 1]
    BY <1>1, QueueTail
  <1> HIDE DEF m
  <1>3. [notice |-> m, attempt |-> 1] \in Delivery
    BY <1>2, WebhooksAssumption DEF Delivery
  <1>4. Typed'
    <2>1. Len(queue') <= QueueCap
      BY <1>1, <1>2, WebhooksAssumption DEF IInv, Typed
    <2> QED BY <1>1, <1>2, <1>3, <2>1 DEF IInv, Typed
  <1>5. InQueue(m) /\ \A i \in DOMAIN queue' : queue'[i] # m
    <2>1. InQueue(m) /\ PlaceOK(m)
      BY <1>2 DEF InQueue, IInv
    <2> QED BY <1>2, <2>1 DEF PlaceOK
  <1>6. worker'[k] # None /\ worker'[k].notice = m /\ worker'[k].attempt = 1
        /\ \A j \in Workers : j # k => worker'[j] = worker[j]
    BY <1>1, <1>3, WebhooksAssumption DEF IInv, Typed
  <1>7. ASSUME NEW n \in Notices PROVE PlaceOK(n)'
    <2>1. PlaceOK(n)
      BY DEF IInv
    <2>2. InTodo(n)' <=> InTodo(n)
      BY <1>1 DEF InTodo
    <2>3. \A i, j \in DOMAIN queue' : queue'[i] = n /\ queue'[j] = n => i = j
      <3> SUFFICES ASSUME NEW i \in DOMAIN queue', NEW j \in DOMAIN queue',
                          queue'[i] = n, queue'[j] = n
                   PROVE  i = j
        OBVIOUS
      <3>1. i + 1 = j + 1
        BY <1>2, <2>1 DEF PlaceOK
      <3> QED BY <1>2, <3>1
    <2>4. CASE n # m
      <3>1. \A j \in Workers : Holds(j, n)' <=> Holds(j, n)
        BY <1>1, <1>6, <2>4 DEF Holds
      <3>2. InWorker(n)' <=> InWorker(n)
        BY <3>1 DEF InWorker
      <3>3. InQueue(n)' <=> InQueue(n)
        <4>1. ASSUME NEW i \in DOMAIN queue, queue[i] = n PROVE InQueue(n)'
          <5>1. i # 1
            BY <1>2, <2>4, <4>1
          <5>2. i - 1 \in DOMAIN queue' /\ queue'[i - 1] = queue[i]
            BY <1>2, <5>1
          <5> QED BY <4>1, <5>2 DEF InQueue
        <4> QED BY <1>2, <4>1 DEF InQueue
      <3>4. \A j \in Workers : Holds(j, n) => worker'[j].attempt = worker[j].attempt
        BY <1>1, <1>6 DEF Holds
      <3> QED BY <1>1, <2>1, <2>2, <2>3, <3>1, <3>2, <3>3, <3>4 DEF PlaceOK
    <2>5. CASE n = m
      <3>1. InQueue(n) /\ tries[n] = 0 /\ ~InWorker(n) /\ ~InTodo(n) /\ n \in listed
        BY <1>5, <2>1, <2>5 DEF PlaceOK
      <3>2. ~InQueue(n)' /\ InWorker(n)'
        BY <1>5, <1>6, <2>5 DEF InQueue, InWorker, Holds
      <3>3. \A j \in Workers : Holds(j, n)' => j = k
        BY <1>6, <3>1 DEF InWorker, Holds
      <3>4. \A j \in Workers : Holds(j, n)' =>
               tries'[n] = worker'[j].attempt - 1 /\ \A i \in Workers : Holds(i, n)' => i = j
        BY <1>1, <1>6, <3>1, <3>3
      <3> QED BY <1>1, <2>1, <2>2, <2>3, <3>1, <3>2, <3>4 DEF PlaceOK
    <2> QED BY <2>4, <2>5
  <1> QED BY <1>4, <1>7 DEF IInv

\* A post is counted; the notice is settled, tried again or abandoned.
LEMMA PostOK ==
    ASSUME IInv, NEW k \in Workers, Post(k)
    PROVE  IInv'
  <1> DEFINE m == worker[k].notice
             t == worker[k].attempt
             retried == [notice |-> m, attempt |-> t + 1]
  <1>1. /\ worker[k] # None /\ worker[k] \in Delivery /\ m \in Notices
        /\ t \in 1 .. DeliverAttempts /\ DeliverAttempts \in Nat
    BY WebhooksAssumption DEF Post, IInv, Typed, Delivery
  <1>2. /\ tries' = [tries EXCEPT ![m] = @ + 1]
        /\ UNCHANGED <<hooks, completed, todo, queue, started, listed, wiped, faults>>
    BY DEF Post, Attempt
  <1>3. \/ /\ settled' = settled \cup {m} /\ logged' = logged
           /\ worker' = [worker EXCEPT ![k] = None]
        \/ /\ t < DeliverAttempts /\ settled' = settled /\ logged' = logged
           /\ worker' = [worker EXCEPT ![k].attempt = @ + 1]
        \/ /\ settled' = settled /\ logged' = logged \cup {m}
           /\ worker' = [worker EXCEPT ![k] = None]
    BY DEF Post, DeliverOne
  <1>4. [worker EXCEPT ![k].attempt = @ + 1] = [worker EXCEPT ![k] = retried]
    <2>1. [worker[k] EXCEPT !.attempt = @ + 1] = retried
      BY <1>1 DEF Delivery
    <2> QED BY <2>1
  <1>5. \/ /\ m \in settled' \cup logged' /\ worker' = [worker EXCEPT ![k] = None]
        \/ /\ t < DeliverAttempts /\ settled' = settled /\ logged' = logged
           /\ worker' = [worker EXCEPT ![k] = retried]
    BY <1>3, <1>4
  <1>6. settled \subseteq settled' /\ settled' \subseteq settled \cup {m}
        /\ logged \subseteq logged' /\ logged' \subseteq logged \cup {m}
    BY <1>3
  <1>7. t < DeliverAttempts => retried \in Delivery
    BY <1>1 DEF Delivery
  <1>8. tries[m] = t - 1 /\ m \in listed /\ ~InTodo(m) /\ ~InQueue(m)
        /\ \A j \in Workers : Holds(j, m) => j = k
    <2>1. Holds(k, m) /\ PlaceOK(m)
      BY <1>1 DEF Holds, IInv
    <2> QED BY <2>1 DEF PlaceOK, InWorker
  <1> HIDE DEF m, t
  <1>9. Typed'
    <2>1. worker' \in [Workers -> Delivery \cup {None}]
      BY <1>5, <1>7 DEF IInv, Typed
    <2>2. tries' \in [Notices -> Nat]
      BY <1>1, <1>2 DEF IInv, Typed
    <2> QED BY <1>1, <1>2, <1>6, <2>1, <2>2 DEF IInv, Typed
  <1>10. ASSUME NEW n \in Notices PROVE PlaceOK(n)'
    <2>1. PlaceOK(n) /\ Typed
      BY DEF IInv
    <2>2. (InTodo(n)' <=> InTodo(n)) /\ (InQueue(n)' <=> InQueue(n))
      BY <1>2 DEF InTodo, InQueue
    <2>3. \A j \in Workers : j # k => worker'[j] = worker[j]
      BY <1>5, <2>1 DEF Typed
    <2>4. CASE n # m
      <3>1. ~Holds(k, n) /\ ~Holds(k, n)'
        BY <1>5, <2>1, <2>4 DEF Typed, Holds, m
      <3>2. \A j \in Workers : (Holds(j, n)' <=> Holds(j, n)) /\
                               (Holds(j, n) => worker'[j].attempt = worker[j].attempt)
        BY <2>3, <3>1 DEF Holds
      <3>3. InWorker(n)' <=> InWorker(n)
        BY <3>2 DEF InWorker
      <3>4. tries'[n] = tries[n] /\ (n \in settled' \cup logged' <=> n \in settled \cup logged)
        BY <1>2, <1>6, <2>1, <2>4 DEF Typed
      <3> QED BY <1>2, <2>1, <2>2, <3>2, <3>3, <3>4 DEF PlaceOK
    <2>5. CASE n = m
      <3>1. tries'[n] = t /\ n \in listed /\ n[2] \in completed
        BY <1>1, <1>2, <1>8, <2>1, <2>5 DEF Typed, PlaceOK
      <3>2. \A j \in Workers : Holds(j, n)' => j = k
        BY <1>8, <2>3, <2>5 DEF Holds
      <3>3. Holds(k, n)' => worker'[k].attempt = t + 1
        BY <1>5, <2>1 DEF Typed, Holds
      <3>4. InWorker(n)' \/ n \in settled' \cup logged'
        <4>1. ASSUME t < DeliverAttempts, worker' = [worker EXCEPT ![k] = retried]
              PROVE  Holds(k, n)'
          BY <1>7, <2>1, <2>5, <4>1, WebhooksAssumption DEF Typed, Holds
        <4> QED BY <1>5, <2>5, <4>1 DEF InWorker
      <3>5. \A j \in Workers : Holds(j, n)' =>
               /\ tries'[n] = worker'[j].attempt - 1
               /\ \A i \in Workers : Holds(i, n)' => i = j
        BY <1>1, <3>1, <3>2, <3>3
      <3>6. tries'[n] <= DeliverAttempts
        BY <1>1, <3>1
      <3> QED BY <1>2, <1>8, <2>1, <2>2, <2>5, <3>1, <3>4, <3>5, <3>6 DEF PlaceOK
    <2> QED BY <2>4, <2>5
  <1> QED BY <1>9, <1>10 DEF IInv

\* A restart: all that was in memory is gone for good.
LEMMA RestartOK ==
    ASSUME IInv, Restart
    PROVE  IInv'
  <1>1. /\ queue' = <<>> /\ started' = FALSE /\ todo' = [r \in Runs |-> {}]
        /\ worker' = [k \in Workers |-> None]
        /\ faults < MaxFaults /\ faults' = faults + 1
        /\ wiped' = wiped \cup InHand \cup Waiting
        /\ UNCHANGED <<hooks, completed, tries, listed, settled, logged>>
    BY DEF Restart
  <1>2. ASSUME NEW n \in Notices
        PROVE  /\ n \in InHand <=> InWorker(n)
               /\ n \in Waiting <=> InQueue(n) \/ InTodo(n)
    BY PlacesNamed DEF IInv
  <1>3. InHand \subseteq Notices /\ Waiting \subseteq Notices
    BY PlacesNamed DEF IInv
  <1>4. Typed'
    <2>1. faults' \in 0 .. MaxFaults
      BY <1>1, WebhooksAssumption DEF IInv, Typed
    <2>2. queue' \in Seq(Notices) /\ Len(queue') <= QueueCap
      BY <1>1, WebhooksAssumption
    <2>3. wiped' \subseteq Notices
      BY <1>1, <1>3 DEF IInv, Typed
    <2> QED BY <1>1, <2>1, <2>2, <2>3 DEF IInv, Typed
  <1>5. ASSUME NEW n \in Notices PROVE PlaceOK(n)'
    <2>1. PlaceOK(n) /\ n[2] \in Runs
      BY DEF IInv, Notices
    <2>2. ~InTodo(n)' /\ ~InQueue(n)' /\ ~InWorker(n)'
      BY <1>1, <2>1 DEF InTodo, InQueue, InWorker, Holds
    <2>3. n \in wiped' <=> n \in wiped \/ InWorker(n) \/ InQueue(n) \/ InTodo(n)
      BY <1>1, <1>2
    <2>4. DOMAIN queue' = {}
      BY <1>1
    <2> QED BY <1>1, <2>1, <2>2, <2>3, <2>4 DEF PlaceOK, InWorker
  <1> QED BY <1>4, <1>5 DEF IInv

----------------------------------------------------------------------------
\* The registry, the queue, the workers and the counts of posts keep their
\* shapes, and every notice is in one place.
THEOREM WebhooksInvariant == Spec => []IInv
  <1>1. Init => IInv
    BY InitOK
  <1>2. IInv /\ [Next]_vars => IInv'
    <2> SUFFICES ASSUME IInv, [Next]_vars PROVE IInv'
      OBVIOUS
    <2>1. CASE UNCHANGED vars
      BY <2>1 DEF vars, IInv, Typed, PlaceOK, InTodo, InQueue, InWorker, Holds
    <2> QED BY <2>1, RegistryOK, RunCompletedOK, EnqueueOK, TakeOK, PostOK, RestartOK DEF Next
  <1> QED BY <1>1, <1>2, PTL DEF Spec

THEOREM WebhooksTypeCorrect == Spec => []TypeOK
  <1>1. IInv => TypeOK
    <2> SUFFICES ASSUME IInv PROVE TypeOK
      OBVIOUS
    <2>1. ToSet(queue) \subseteq Notices
      BY DEF IInv, Typed, ToSet
    <2> QED BY <2>1 DEF IInv, Typed, TypeOK, Webhook, Delivery
  <1> QED BY <1>1, WebhooksInvariant, PTL

\* Every notice RunCompleted listed is waiting, in a worker's hand, confirmed,
\* logged as lost, or went with the process.
THEOREM NoticesAccountedFor == Spec => []NothingForgotten
  <1>1. IInv => NothingForgotten
    <2> SUFFICES ASSUME IInv PROVE NothingForgotten
      OBVIOUS
    <2>1. InHand \subseteq Notices /\ Waiting \subseteq Notices
          /\ \A n \in Notices : /\ n \in InHand <=> InWorker(n)
                                /\ n \in Waiting <=> InQueue(n) \/ InTodo(n)
      BY PlacesNamed DEF IInv
    <2>2. /\ listed \subseteq Notices /\ settled \subseteq Notices
          /\ logged \subseteq Notices /\ wiped \subseteq Notices
      BY DEF IInv, Typed
    <2>3. \A n \in Notices : n \in listed <=>
             InTodo(n) \/ InQueue(n) \/ InWorker(n) \/ n \in settled \cup logged \cup wiped
      BY DEF IInv, PlaceOK
    <2> QED BY <2>1, <2>2, <2>3 DEF NothingForgotten
  <1> QED BY <1>1, WebhooksInvariant, PTL

\* RunCompleted queues a run's notice for the webhooks of the run's own project only,
\* no row moves to another project before or after it is posted, and deliverOne's
\* attempts bound the posts of a notice over its whole life.
THEOREM PostsBounded == Spec => []PostsAllowed
  <1>1. IInv => PostsAllowed
    <2>1. IInv => OwnRunsOnly
      BY DEF IInv, PlaceOK, OwnRunsOnly
    <2>2. IInv => AttemptsBounded
      BY DEF IInv, PlaceOK, AttemptsBounded
    <2> QED BY <2>1, <2>2 DEF PostsAllowed
  <1> QED BY <1>1, WebhooksInvariant, PTL

\* The WHERE clauses name the project of the path, for which the handler holds
\* the grant: no webhook changes on the grant for another project.
THEOREM HooksChangeByTheirOwn == Spec => OwnHooksOnly
  <1>1. [Next]_vars => [GrantedChange]_vars
    BY DEF GrantedChange, HandleDelete, HandleSetEnabled, DeleteWebhook, SetWebhookEnabled,
           ListWebhooksByProject, AuthorizeProject
  <1> QED BY <1>1, PTL DEF Spec, OwnHooksOnly
=============================================================================
