------------------------------ MODULE LoadPlan ------------------------------
(***************************************************************************)
(* From a stored load profile to the pods that produce it: the entry is    *)
(* validated and stored, Deploy splits it over the engine pods, compiles a *)
(* configuration per pod, stages it in the object store and hands it to    *)
(* the scheduler of every cluster, and Trigger reserves capacity, opens a  *)
(* run and copies the staged configurations under the run's own keys.      *)
(*                                                                         *)
(* Every execution here runs the same scenario, so their staged copies     *)
(* have the same keys.  A compiled configuration is the execution whose    *)
(* headers it carries and its blocks of load; trace ids are left out.      *)
(***************************************************************************)
EXTENDS Integers, Sequences, FiniteSetsExt, SequencesExt, Functions

CONSTANTS
    Executions,   \* executions of one scenario
    Stated,       \* Stated[e]: the entries a user uploads for e
    Edits,        \* Edits[e]: those uploaded for e again later on
    CPU,          \* CPU[e]: the pinned milli-CPU of e's pods, 0 for no pin
    Memory,       \* Memory[e]: the pinned MiB, 0 for no pin
    Targets,      \* Targets[e]: the clusters e loads from
    Shards,       \* shard numbers, 1 .. the most engines an entry states
    MaxDeploys    \* MaxDeploys[e]: a bound on the deploys of e

VARIABLES
    profile,      \* profile[e]: the stored entry
    deploy,       \* deploy[e]: a Deploy under way
    staged,       \* staged[i]: the object store's copy of shard i's config
    pods,         \* pods[e][c]: the configs of e's pods on cluster c
    deploys,      \* deploys[e]: how often e was deployed
    run,          \* run[e]: the open run, with what it snapshots
    doubt         \* doubt[e]: what happened since e's pods were deployed

vars == <<profile, deploy, deploys, staged, pods, run, doubt>>

Absent == "none"
StaircaseStepsDefault == 5
StaircaseStepsMin == 2
StaircaseStepsMax == 10
StaircaseMinDurationSeconds == 60
CeilDiv(a, b) == (a + b - 1) \div b

-----------------------------------------------------------------------------
\* loadmode.RampupSeconds: a fifth of a ramp's window within [60, 600], a
\* fixed warm-up for a soak, and none for a burst or a staircase.
RampupSeconds(mode, duration) ==
    CASE mode = "soak" -> 60
      [] mode = "ramp" -> Min({Max({duration \div 5, 60}), 600})
      [] OTHER -> 0

\* resolveModes, for the fields a mode prescribes whatever the calibration
\* says: the ramp-up, and a staircase's steps when none were stated.
Resolve(ep) ==
    IF ep.mode = Absent THEN ep
    ELSE [ep EXCEPT !.rampup = RampupSeconds(ep.mode, ep.duration),
                    !.steps = IF ep.mode = "staircase" /\ @ = 0 THEN StaircaseStepsDefault ELSE @]

\* Entry.Validate.
Valid(ep) ==
    /\ ep.engines > 0 /\ ep.concurrency > 0 /\ ep.duration > 0 /\ ep.throughput >= 0
    /\ ep.mode = Absent \/ ep.throughput > 0
    /\ IF ep.mode = "staircase"
       THEN /\ ep.steps \in StaircaseStepsMin .. StaircaseStepsMax
            /\ ep.duration >= StaircaseMinDurationSeconds
       ELSE ep.steps = 0

\* Profile.LongestDurationSeconds, for the profile's one entry.
LongestDurationSeconds(ep) ==
    ep.rampup + ep.duration * (IF ep.steps > 1 THEN ep.steps ELSE 1)

\* shard.Split: the remainder goes to the earliest of the n shards 0 .. n-1.
SplitDropping(total, n, i) == total \div n
Split(total, n, i) == total \div n + (IF i < total % n THEN 1 ELSE 0)

\* shard.Plan: no more shards than there are virtual users.
Plan(ep, n) ==
    LET m == Min({n, ep.concurrency})
    IN  [i \in 1 .. m |-> [concurrency |-> Split(ep.concurrency, m, i - 1),
                           throughput  |-> Split(ep.throughput, m, i - 1)]]

\* loadmode.StaircaseSteps: shares rounded, the last step the stated ceiling.
StaircaseSteps(concurrency, throughput, steps) ==
    [i \in 1 .. steps |->
        IF i = steps
        THEN [concurrency |-> concurrency, throughput |-> throughput]
        ELSE [concurrency |-> Max({1, CeilDiv(concurrency * i, steps)}),
              throughput  |-> Max({1, (2 * throughput * i + steps) \div (2 * steps)})]]

\* A pod's share of a step, at least one: zero users are refused by bzt and a
\* rate of zero is unlimited.
StepShare(total, n, i) == Max({1, Split(total, n, i)})

\* compileShards: the tests of pod i of n; a staircase pod carries every step.
ShardTests(ep, sh, n, i) ==
    IF ep.steps > 1
    THEN LET st == StaircaseSteps(ep.concurrency, ep.throughput, ep.steps)
         IN  [k \in 1 .. ep.steps |->
                [concurrency |-> StepShare(st[k].concurrency, n, i - 1),
                 throughput  |-> StepShare(st[k].throughput, n, i - 1),
                 rampup |-> 0, hold |-> ep.duration]]
    ELSE <<[concurrency |-> sh.concurrency, throughput |-> sh.throughput,
            rampup |-> ep.rampup, hold |-> ep.duration]>>

\* compile.Taurus: the config of one pod; several blocks run one at a time.
Taurus(e, tests) == [of |-> e, blocks |-> tests, sequential |-> Len(tests) > 1]

\* compileShards: a config per planned shard.
compileShards(e, ep) ==
    LET shards == Plan(ep, ep.engines)
    IN  [i \in 1 .. Len(shards) |->
            Taurus(e, ShardTests(ep, shards[i], Len(shards), i))]

\* sizeRatio and engineEquivalents: quota units of count pods of a pinned size.
SizeRatio(cpu, memory) == Max({1, CeilDiv(cpu, 500), CeilDiv(memory, 512)})
engineEquivalents(cpu, memory, count) == SizeRatio(cpu, memory) * count

-----------------------------------------------------------------------------
NoDeploy == [at |-> Absent]
NoConfig == [of |-> Absent]
NoRun == [open |-> FALSE]
NoPods(e) == [c \in Targets[e] |-> <<>>]
Storable(entries) == {ep \in {Resolve(s) : s \in entries} : Valid(ep)}

Init ==
    /\ profile \in {f \in [Executions -> UNION {Storable(Stated[e]) : e \in Executions}] :
                     \A e \in Executions : f[e] \in Storable(Stated[e])}
    /\ deploy = [e \in Executions |-> NoDeploy]
    /\ deploys = [e \in Executions |-> 0]
    /\ staged = [i \in Shards |-> NoConfig]
    /\ pods = [e \in Executions |-> NoPods(e)]
    /\ run = [e \in Executions |-> NoRun]
    /\ doubt = [e \in Executions |-> {}]

\* The run is open and its snapshot is complete.
Snapped(e) == run[e].open /\ run[e].left = {}

\* There are pods of e, or there soon will be.
Exposed(e) == deploy[e].at = "clusters" \/ \E c \in Targets[e] : pods[e][c] # <<>>

\* StoreConfig: another entry, resolved and then validated; pods that exist
\* keep what they run.
StoreConfig(e, ep) ==
    /\ profile[e] # ep
    /\ profile' = [profile EXCEPT ![e] = ep]
    /\ doubt' = [doubt EXCEPT ![e] = @ \cup (IF Exposed(e) /\ ~run[e].open THEN {"edited"} ELSE {})]
    /\ UNCHANGED <<deploy, deploys, staged, pods, run>>

\* Deploy up to its loop: the profile is read once, and no run may be open.
Deploy(e) ==
    /\ deploy[e] = NoDeploy /\ ~run[e].open /\ deploys[e] < MaxDeploys[e]
    /\ deploys' = [deploys EXCEPT ![e] = @ + 1]
    /\ deploy' = [deploy EXCEPT ![e] = [at |-> "compile", entry |-> profile[e]]]
    /\ UNCHANGED <<profile, staged, pods, run, doubt>>

\* compileShards: every config is compiled and uploaded, each upload best
\* effort.  What was said of e's former pods no longer matters.
CompileShards(e) ==
    /\ deploy[e].at = "compile"
    /\ LET ep == deploy[e].entry
           configs == compileShards(e, ep)
       IN \E up \in SUBSET DOMAIN configs :
          /\ deploy' = [deploy EXCEPT ![e] =
                [at |-> "clusters", entry |-> ep, configs |-> configs, left |-> Targets[e]]]
          /\ staged' = [i \in Shards |-> IF i \in up THEN configs[i] ELSE staged[i]]
          /\ doubt' = [d \in Executions |->
                IF d # e THEN doubt[d] \cup (IF up # {} /\ Exposed(d) /\ ~Snapped(d) THEN {"staged"} ELSE {})
                ELSE (IF up = DOMAIN configs THEN {} ELSE {"unstaged"})
                     \cup (IF ep # profile[e] THEN {"edited"} ELSE {})
                     \cup (IF run[e].open THEN {"raced"} ELSE {})]
    /\ UNCHANGED <<profile, deploys, pods, run>>

\* compileShards gives up: a file of the scenario is missing, or a read fails.
CompileFails(e) ==
    /\ deploy[e].at = "compile"
    /\ deploy' = [deploy EXCEPT ![e] = NoDeploy]
    /\ UNCHANGED <<profile, deploys, staged, pods, run, doubt>>

\* DeployScenario on the next cluster: the new pods replace the old ones, or
\* the call fails and the deploy ends there.
DeployScenario(e, c) ==
    /\ deploy[e].at = "clusters" /\ c \in deploy[e].left
    /\ LET left == deploy[e].left \ {c}
       IN \/ /\ pods' = [pods EXCEPT ![e][c] = deploy[e].configs]
             /\ deploy' = [deploy EXCEPT ![e] = IF left = {} THEN NoDeploy ELSE [@ EXCEPT !.left = left]]
             /\ UNCHANGED doubt
          \/ /\ deploy' = [deploy EXCEPT ![e] = NoDeploy]
             /\ doubt' = [doubt EXCEPT ![e] = @ \cup {"failed"}]
             /\ UNCHANGED pods
    /\ UNCHANGED <<profile, deploys, staged, run>>

\* fanOutEngines and CanTrigger: the pool, and every target's pool of a
\* fan-out, covers the profile.
fanOutEngines(e) == profile[e].engines * Cardinality(Targets[e])
CanTrigger(e) ==
    /\ ~run[e].open
    /\ \A c \in Targets[e] : Len(pods[e][c]) >= profile[e].engines

\* run.VirtualUsers, as Trigger records it with the usage.
VirtualUsers(ep) == ep.engines * ep.concurrency

\* Trigger: the reservation of the profile on every target, and StartRun.
Trigger(e) ==
    /\ CanTrigger(e)
    /\ run' = [run EXCEPT ![e] =
          [open  |-> TRUE,
           units |-> engineEquivalents(CPU[e], Memory[e], profile[e].engines),
           until |-> LongestDurationSeconds(profile[e]),
           usage |-> fanOutEngines(e),
           users |-> VirtualUsers(profile[e]),
           ran   |-> pods[e],
           want  |-> profile[e].engines,
           left  |-> 1 .. profile[e].engines,
           snap  |-> [i \in {} |-> NoConfig]]]
    /\ doubt' = [doubt EXCEPT ![e] = @ \cup (IF deploy[e] # NoDeploy THEN {"raced"} ELSE {})]
    /\ UNCHANGED <<profile, deploy, deploys, staged, pods>>

\* snapshotConfigs: each shard's copy on its own, a missing one left out.
SnapshotConfig(e, i) ==
    /\ run[e].open /\ i \in run[e].left
    /\ run' = [run EXCEPT ![e].left = @ \ {i},
                          ![e].snap = IF staged[i] = NoConfig THEN @
                                      ELSE [k \in DOMAIN @ \cup {i} |-> IF k = i THEN staged[i] ELSE @[k]]]
    /\ UNCHANGED <<profile, deploy, deploys, staged, pods, doubt>>

\* Teardown of a finished run: pods purged and the run closed.
Purge(e) ==
    /\ Snapped(e)
    /\ run' = [run EXCEPT ![e] = NoRun]
    /\ pods' = [pods EXCEPT ![e] = NoPods(e)]
    /\ doubt' = [doubt EXCEPT ![e] = IF deploy[e] = NoDeploy THEN {} ELSE @]
    /\ UNCHANGED <<profile, deploy, deploys, staged>>

Next ==
    \E e \in Executions :
        \/ \E ep \in Storable(Edits[e]) : StoreConfig(e, ep)
        \/ Deploy(e) \/ CompileShards(e) \/ CompileFails(e) \/ Trigger(e) \/ Purge(e)
        \/ \E c \in Targets[e] : DeployScenario(e, c)
        \/ \E i \in Shards : SnapshotConfig(e, i)

Spec == Init /\ [][Next]_vars

-----------------------------------------------------------------------------
Total(configs, k, f(_)) == MapThenSumSet(LAMBDA i : f(configs[i].blocks[k]), DOMAIN configs)
Users(configs, k) == Total(configs, k, LAMBDA b : b.concurrency)
Rate(configs, k) == Total(configs, k, LAMBDA b : b.throughput)
RunSeconds(config) == FoldSeq(LAMBDA b, s : s + b.rampup + b.hold, 0, config.blocks)

\* The configs a Deploy under way is about to hand to the scheduler.
Compiled == {e \in Executions : deploy[e].at = "clusters"}

\* The pods of an ordinary entry together produce the profile that was asked
\* for: users and rate add up to the entry's, no pod is without users, no two
\* differ by more than one, and no pod of a limited entry is unlimited as long
\* as there is a request a second for each.
LoadAddsUp ==
    \A e \in Compiled :
        LET ep == deploy[e].entry
            cs == deploy[e].configs
        IN ep.steps <= 1 =>
              /\ Users(cs, 1) = ep.concurrency
              /\ Rate(cs, 1) = ep.throughput
              /\ \A i, j \in DOMAIN cs :
                    /\ cs[i].blocks[1].concurrency >= 1
                    /\ cs[i].blocks[1].concurrency - cs[j].blocks[1].concurrency <= 1
              /\ (ep.throughput >= Len(cs) => \A i \in DOMAIN cs : cs[i].blocks[1].throughput > 0)

\* A staircase's plateaus: every pod carries every step, one at a time and
\* with users and a limited rate; a step's rate is at least its row of the
\* table and over it by less than the number of pods; plateaus never fall,
\* and the last is the stated ceiling when each pod can have a request of it.
PlateausHold ==
    \A e \in Compiled :
        LET ep == deploy[e].entry
            cs == deploy[e].configs
            st == StaircaseSteps(ep.concurrency, ep.throughput, ep.steps)
        IN ep.steps > 1 =>
              /\ \A i \in DOMAIN cs :
                    /\ Len(cs[i].blocks) = ep.steps /\ cs[i].sequential
                    /\ \A k \in 1 .. ep.steps : cs[i].blocks[k].concurrency > 0 /\ cs[i].blocks[k].throughput > 0
              /\ \A k \in 1 .. ep.steps :
                    /\ Rate(cs, k) >= st[k].throughput /\ Rate(cs, k) - st[k].throughput < Len(cs)
                    /\ k > 1 => Rate(cs, k) >= Rate(cs, k - 1) /\ Users(cs, k) >= Users(cs, k - 1)
              /\ Users(cs, ep.steps) = ep.concurrency
              /\ (ep.throughput >= Len(cs) => Rate(cs, ep.steps) = ep.throughput)

\* What Trigger reserves covers what runs, when the profile was not edited
\* since the pods were deployed: the pods' size in both resources, and the
\* window is exactly the time the pods run.
Covers(e) ==
    \A c \in Targets[e] :
        LET cs == run[e].ran[c]
        IN  /\ Len(cs) * Max({CPU[e], 500}) <= run[e].units * 500
            /\ Len(cs) * Max({Memory[e], 512}) <= run[e].units * 512
            /\ \A i \in DOMAIN cs : RunSeconds(cs[i]) = run[e].until
ReservationCovers ==
    \A e \in Executions :
        run[e].open /\ doubt[e] \cap {"edited", "raced", "failed"} = {} => Covers(e)

\* Whatever failed before, every target cluster of a run has the pods of the
\* whole profile; they are the same pods everywhere, as many as usage counts,
\* when the deploy succeeded and the profile was not edited since.
FanOutAlike ==
    \A e \in Executions : run[e].open =>
        /\ \A c \in Targets[e] : Len(run[e].ran[c]) >= run[e].want
        /\ doubt[e] \cap {"edited", "raced", "failed"} = {} =>
              /\ \A c, d \in Targets[e] : run[e].ran[c] = run[e].ran[d]
              /\ run[e].usage = MapThenSumSet(LAMBDA c : Len(run[e].ran[c]), Targets[e])

\* The config a run is shown to have used is the one its pods run, when the
\* copies were staged by the deploy of those pods and by no other since.
Snapshot(e) ==
    run[e].left = {} =>
        \A c \in Targets[e] : \A i \in 1 .. Len(run[e].ran[c]) :
            i \in DOMAIN run[e].snap => run[e].snap[i] = run[e].ran[c][i]
SnapshotIsWhatRan ==
    \A e \in Executions :
        run[e].open /\ doubt[e] = {} => Snapshot(e)
=============================================================================
