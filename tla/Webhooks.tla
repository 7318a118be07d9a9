------------------------------ MODULE Webhooks ------------------------------
(***************************************************************************)
(* Run-completion webhooks: the registry behind its handlers               *)
(* (httpapi/webhook_handlers.go, repo/mysql/webhook_repository.go) and the *)
(* fan-out of app/webhookapp: RunCompleted queues a delivery for each      *)
(* enabled webhook of the project, a pool of workers posts them with       *)
(* bounded retries.  A payload is the run it reports.                      *)
(***************************************************************************)
EXTENDS Integers, Sequences, FiniteSets, SequencesExt

CONSTANTS
    Hooks,            \* webhook ids, numbers from 1
    Projects,
    ProjectOf,        \* [runs -> Projects]
    MayAdminister,    \* <<account, project>> pairs that hold the project grants
    Workers,          \* workerCount goroutines
    QueueCap,         \* capacity of the queue channel
    DeliverAttempts,  \* deliverAttempts
    MaxFaults,        \* failed registry reads and process restarts
    None

Runs == DOMAIN ProjectOf
Notices == Hooks \X Runs

VARIABLES
    hooks,      \* the webhook table; a deleted row keeps its project here
    completed,  \* runs whose report is saved
    todo,       \* what each RunCompleted call has listed and not yet queued
    queue,      \* Service.queue
    started,    \* startOnce has run
    worker,     \* each worker's delivery and attempt, or None
    tries,      \* posts of each notice
    listed,     \* history: notices some RunCompleted call listed
    settled,    \* notices a receiver confirmed
    logged,     \* notices lost with a log line
    wiped,      \* notices a restart of the process lost
    faults

vars == <<hooks, completed, todo, queue, started, worker, tries, listed,
          settled, logged, wiped, faults>>

\* A row of the table and a delivery under way; None is neither.
Webhook == [project : Projects, state : {"enabled", "paused", "deleted"}]
Delivery == [notice : Notices, attempt : 1 .. DeliverAttempts]

ASSUME WebhooksAssumption ==
    /\ Hooks \subseteq Nat /\ ProjectOf \in [Runs -> Projects]
    /\ QueueCap \in Nat /\ DeliverAttempts \in Nat \ {0} /\ MaxFaults \in Nat
    /\ None \notin Webhook /\ None \notin Delivery

delivery == <<todo, queue, started, worker, tries, listed, settled, logged, wiped>>

Init ==
    /\ hooks = [h \in Hooks |-> None]
    /\ completed = {}
    /\ todo = [r \in Runs |-> {}]
    /\ queue = <<>> /\ started = FALSE
    /\ worker = [k \in Workers |-> None]
    /\ tries = [n \in Notices |-> 0]
    /\ listed = {} /\ settled = {} /\ logged = {} /\ wiped = {}
    /\ faults = 0

----------------------------------------------------------------------------
(* The registry: webhook_repository.go.                                    *)

Stored(h) == hooks[h] # None /\ hooks[h].state # "deleted"

CreateWebhook(h, p) ==
    /\ hooks[h] = None
    /\ \A g \in Hooks : g < h => hooks[g] # None
    /\ hooks' = [hooks EXCEPT ![h] = [project |-> p, state |-> "enabled"]]

ListWebhooksByProject(p) == {h \in Hooks : Stored(h) /\ hooks[h].project = p}

\* DELETE ... WHERE id=? AND project_id=?; no row is ErrNotFound.
DeleteWebhook(p, h) ==
    /\ h \in ListWebhooksByProject(p)
    /\ hooks' = [hooks EXCEPT ![h].state = "deleted"]

SetWebhookEnabled(p, h, enabled) ==
    /\ h \in ListWebhooksByProject(p)
    /\ hooks' = [hooks EXCEPT ![h].state = IF enabled THEN "enabled" ELSE "paused"]

----------------------------------------------------------------------------
(* The handlers: the grant is for the project in the path.                 *)

AuthorizeProject(a, p) == <<a, p>> \in MayAdminister

HandleCreate(a, p, h) ==
    /\ AuthorizeProject(a, p)
    /\ CreateWebhook(h, p)
    /\ UNCHANGED <<completed, delivery, faults>>

HandleDelete(a, p, h) ==
    /\ AuthorizeProject(a, p)
    /\ DeleteWebhook(p, h)
    /\ UNCHANGED <<completed, delivery, faults>>

HandleSetEnabled(a, p, h, enabled) ==
    /\ AuthorizeProject(a, p)
    /\ SetWebhookEnabled(p, h, enabled)
    /\ UNCHANGED <<completed, delivery, faults>>

----------------------------------------------------------------------------
(* RunCompleted.                                                           *)

Enabled(p) == {h \in ListWebhooksByProject(p) : hooks[h].state = "enabled"}

\* The registry read; a failed one is logged, and that is the end of it.
RunCompleted(r) ==
    /\ r \notin completed
    /\ completed' = completed \cup {r}
    /\ \/ LET mine == Enabled(ProjectOf[r])
          IN  /\ todo' = [todo EXCEPT ![r] = mine]
              /\ listed' = listed \cup (mine \X {r})
              /\ started' = (started \/ mine # {})
              /\ UNCHANGED faults
       \/ /\ faults < MaxFaults /\ faults' = faults + 1
          /\ UNCHANGED <<todo, listed, started>>
    /\ UNCHANGED <<hooks, queue, worker, tries, settled, logged, wiped>>

\* The next webhook of the loop, in registration order.
NextHook(r) == CHOOSE h \in todo[r] : \A g \in todo[r] : h <= g

\* Mutant: the send blocks until a worker takes one.
EnqueueBlocks(r) ==
    /\ todo[r] # {} /\ Len(queue) < QueueCap
    /\ queue' = Append(queue, <<NextHook(r), r>>)
    /\ todo' = [todo EXCEPT ![r] = @ \ {NextHook(r)}]
    /\ UNCHANGED <<hooks, completed, started, worker, tries, listed, settled,
                   logged, wiped, faults>>

\* Mutant: a full queue ends the loop.
EnqueueReturns(r) ==
    /\ todo[r] # {}
    /\ IF Len(queue) < QueueCap
       THEN /\ queue' = Append(queue, <<NextHook(r), r>>)
            /\ todo' = [todo EXCEPT ![r] = @ \ {NextHook(r)}]
            /\ UNCHANGED logged
       ELSE /\ logged' = logged \cup {<<NextHook(r), r>>}
            /\ todo' = [todo EXCEPT ![r] = {}]
            /\ UNCHANGED queue
    /\ UNCHANGED <<hooks, completed, started, worker, tries, listed, settled,
                   wiped, faults>>

\* The select with a default: a full queue drops this one with a log line.
Enqueue(r) ==
    /\ todo[r] # {}
    /\ IF Len(queue) < QueueCap
       THEN queue' = Append(queue, <<NextHook(r), r>>) /\ UNCHANGED logged
       ELSE logged' = logged \cup {<<NextHook(r), r>>} /\ UNCHANGED queue
    /\ todo' = [todo EXCEPT ![r] = @ \ {NextHook(r)}]
    /\ UNCHANGED <<hooks, completed, started, worker, tries, listed, settled,
                   wiped, faults>>

----------------------------------------------------------------------------
(* The workers.                                                            *)

\* startWorkers: for d := range s.queue.
Take(k) ==
    /\ started /\ worker[k] = None /\ queue # <<>>
    /\ worker' = [worker EXCEPT ![k] = [notice |-> Head(queue), attempt |-> 1]]
    /\ queue' = Tail(queue)
    /\ UNCHANGED <<hooks, completed, todo, started, tries, listed, settled,
                   logged, wiped, faults>>

\* One POST: the receiver confirms it, or nothing confirms it.
Attempt(k) ==
    LET n == worker[k].notice
    IN  tries' = [tries EXCEPT ![n] = @ + 1]

\* Mutant: one attempt more than there are.
DeliverOneMore(k, answer) ==
    LET n == worker[k].notice
    IN  IF answer = "confirmed"
        THEN /\ settled' = settled \cup {n}
             /\ worker' = [worker EXCEPT ![k] = None]
             /\ UNCHANGED logged
        ELSE IF worker[k].attempt <= DeliverAttempts
        THEN worker' = [worker EXCEPT ![k].attempt = @ + 1] /\ UNCHANGED <<settled, logged>>
        ELSE /\ logged' = logged \cup {n}
             /\ worker' = [worker EXCEPT ![k] = None]
             /\ UNCHANGED settled

\* deliverOne: retried until the attempts are exhausted, then abandoned.
DeliverOne(k, answer) ==
    LET n == worker[k].notice
    IN  IF answer = "confirmed"
        THEN /\ settled' = settled \cup {n}
             /\ worker' = [worker EXCEPT ![k] = None]
             /\ UNCHANGED logged
        ELSE IF worker[k].attempt < DeliverAttempts
        THEN worker' = [worker EXCEPT ![k].attempt = @ + 1] /\ UNCHANGED <<settled, logged>>
        ELSE /\ logged' = logged \cup {n}
             /\ worker' = [worker EXCEPT ![k] = None]
             /\ UNCHANGED settled

Post(k) ==
    \E answer \in {"confirmed", "unconfirmed"} :
        /\ worker[k] # None
        /\ Attempt(k)
        /\ DeliverOne(k, answer)
        /\ UNCHANGED <<hooks, completed, todo, queue, started, listed, wiped, faults>>

InHand == {worker[k].notice : k \in {j \in Workers : worker[j] # None}}
Waiting == ToSet(queue) \cup UNION {todo[r] \X {r} : r \in Runs}

\* The process restarts: the queue lives in memory.
Restart ==
    /\ faults < MaxFaults /\ faults' = faults + 1
    /\ started
    /\ wiped' = wiped \cup InHand \cup Waiting
    /\ queue' = <<>> /\ started' = FALSE
    /\ todo' = [r \in Runs |-> {}]
    /\ worker' = [k \in Workers |-> None]
    /\ UNCHANGED <<hooks, completed, tries, listed, settled, logged>>

----------------------------------------------------------------------------
Accounts == {m[1] : m \in MayAdminister}

Next ==
    \/ \E a \in Accounts, p \in Projects, h \in Hooks :
          \/ HandleCreate(a, p, h) \/ HandleDelete(a, p, h)
          \/ \E enabled \in BOOLEAN : HandleSetEnabled(a, p, h, enabled)
    \/ \E r \in Runs : RunCompleted(r) \/ Enqueue(r)
    \/ \E k \in Workers : Take(k) \/ Post(k)
    \/ Restart

Spec == Init /\ [][Next]_vars

\* The caller's loop runs on, and the receivers may hang for ever.
FairSpec == Spec /\ \A r \in Runs : WF_vars(Enqueue(r))

\* The timeout of every attempt keeps the workers going.
WorkersRun == \A k \in Workers : WF_vars(Take(k)) /\ WF_vars(Post(k))
----------------------------------------------------------------------------
(* Properties.                                                             *)

\* The registry, the queue and the workers have their types.
TypeOK ==
    /\ \A h \in Hooks : hooks[h] # None =>
          hooks[h].project \in Projects /\ hooks[h].state \in {"enabled", "paused", "deleted"}
    /\ Len(queue) <= QueueCap /\ ToSet(queue) \subseteq Notices
    /\ \A k \in Workers : worker[k] # None =>
          worker[k].notice \in Notices /\ worker[k].attempt \in 1 .. DeliverAttempts
    /\ listed \subseteq Notices /\ faults \in 0 .. MaxFaults

\* A receiver never hears of another project's run.
OwnRunsOnly == \A n \in Notices : tries[n] > 0 => hooks[n[1]].project = ProjectOf[n[2]]

\* "The service scopes the delete by project, so a webhook id under a foreign
\* project's path is a plain 404": only an account with a grant on a webhook's
\* own project ever changes it.
GrantedChange ==
    \A a \in Accounts, p \in Projects, h \in Hooks :
        /\ hooks[h] # None
        /\ HandleDelete(a, p, h) \/ \E e \in BOOLEAN : HandleSetEnabled(a, p, h, e)
        => AuthorizeProject(a, hooks[h].project)
OwnHooksOnly == [][GrantedChange]_vars

\* "the log line is the operator's only trace that a delivery was lost": a
\* notice that was listed is waiting, in a worker's hand, confirmed, logged as
\* lost, or went with the process; it never just disappears.
NothingForgotten == listed = Waiting \cup InHand \cup settled \cup logged \cup wiped

\* Retries are bounded for good: no notice is posted more than deliverAttempts
\* times, in whatever order calls, workers and restarts come.
AttemptsBounded == \A n \in Notices : tries[n] <= DeliverAttempts

\* What is posted may be posted: to a webhook of the run's own project, and at most
\* deliverAttempts times.
PostsAllowed == OwnRunsOnly /\ AttemptsBounded

\* "nothing here can fail the run", and a full queue never blocks: RunCompleted
\* returns though no worker ever finishes a post.
RunNeverWaits == \A r \in Runs : todo[r] # {} ~> todo[r] = {}

\* Every queued delivery ends, as attempts are bounded by their timeout:
\* confirmed, abandoned with a log line, or lost with the process.
DeliverySettles ==
    WorkersRun =>
        \A n \in Notices : n \in ToSet(queue) ~> n \in settled \cup logged \cup wiped
=============================================================================
