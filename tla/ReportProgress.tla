--------------------------- MODULE ReportProgress ---------------------------
(***************************************************************************)
(* How one run's measurements reach its report: bzt appends lines to a      *)
(* file, the sidecar tails it and pushes batches (sidecar/sidecar.go), the  *)
(* control plane ingests them (app/metricsapp/ingest.go) into the working   *)
(* tables and the permanent series (adapters/repo/mysql/report_progress.go, *)
(* interval_repository.go), and the last shard's final batch turns them     *)
(* into the report.                                                         *)
(*                                                                         *)
(* A measurement is <<shard, stream, sequence>>; a table is how often each  *)
(* measurement has been added to it, once for its additive columns (add)    *)
(* and once for the JSON columns merged in Go (json).  A transaction takes  *)
(* its row locks one at a time and writes at its commit.  The file is       *)
(* measured in half lines, so a read can land inside one.  Opening,         *)
(* stopping and sweeping runs is RunLifecycle's; here one run is open until *)
(* its report is written.                                                   *)
(***************************************************************************)
EXTENDS Integers, Sequences

CONSTANTS
    Shards,         \* (scenario, cluster, shard index)
    Handlers,       \* requests the control plane serves at once
    Lines,          \* what an engine writes: a sequence of [second, label, err]
    MaxStreams,     \* bound on the sidecar instances of one shard
    MaxFaults,      \* bound on lost answers, failures, restarts and replaced pods
    LateStreams,    \* whether a request outlives the pod that sent it
    None

VARIABLES
    file,       \* half lines of the KPI stream on disk
    exitFile,   \* shards whose engine wrote its exit code
    side,       \* each shard's sidecar
    net,        \* requests sent and not yet served
    h,          \* each handler's program counter, request and locals
    owner,      \* row locks: the handler holding each row, or None
    add,        \* additive columns of each table
    json,       \* JSON columns of each table
    shardRow,   \* report_progress_shard
    tally,      \* seen and clusterTally: what this process showed live
    open,       \* the run marker
    report,     \* execution_report: what the run's report counted, or None
    finals,     \* history: final batches absorbed, as <<shard, stream, sequence>>
    faults      \* faults so far

pods == <<file, exitFile, side>>
tables == <<add, json, shardRow>>
vars == <<pods, net, h, owner, tables, tally, open, report, finals, faults>>

Streams == 1 .. MaxStreams
Seqs == 1 .. Len(Lines)
Ids == Shards \X Streams \X Seqs
Nothing == [i \in Ids |-> 0]
TotalLabel == "__total__"
Tables == {"second", "label", "signature", "series"}

Line(i) == Lines[i[3]]
\* A later instance measures later seconds.
Second(i) == (i[2] - 1) * Len(Lines) + Line(i).second

\* The row of each table a measurement is added to, where it has one.
Row(t, i) ==
    CASE t = "second" -> Second(i)
      [] t = "label" -> Line(i).label
      [] t = "signature" -> Line(i).label
      [] t = "series" -> Second(i)
HasRow(t, i) ==
    CASE t = "label" -> Line(i).label # TotalLabel
      [] t = "signature" -> Line(i).label # TotalLabel /\ Line(i).err
      [] OTHER -> TRUE
Touched(t, S) == {i \in S : HasRow(t, i)}
Rows(t, S) == {Row(t, i) : i \in Touched(t, S)}

----------------------------------------------------------------------------
(* The lock order of Absorb: Accumulator.Snapshot sorts what it exports.    *)

\* The rows that the merge of the measurements S locks, table by table.
Locked(t, S) == {<<t, r>> : r \in Rows(t, S)}
MergeSecondLabels(S) == Locked("second", S)
MergeLabels(S) == Locked("label", S)
MergeSignatures(S) == Locked("signature", S)
MergeSeriesSeconds(S) == Locked("series", S)
MergeProgress(S) == MergeSecondLabels(S) \cup MergeLabels(S) \cup MergeSignatures(S)

\* The tables one after the other, and in each the rows as they were sorted.
Rank == [second |-> 1, label |-> 2, signature |-> 3, series |-> 4]
Place(k) ==
    IF k[1] \in {"second", "series"} THEN k[2]
    ELSE CHOOSE n \in Seqs : Lines[n].label = k[2]
Precedes(j, k) == Rank[j[1]] < Rank[k[1]] \/ (j[1] = k[1] /\ Place(j) < Place(k))

\* Mutant: the rows are taken in the order a Go map yields them.
AnyRow(T) == T

\* Of the rows T still to be locked, the next one.
NextRow(T) == {k \in T : \A j \in T : j = k \/ Precedes(k, j)}

RowKeys ==
    {<<"shard", s>> : s \in Shards} \cup
    UNION {{<<t, r>> : r \in Rows(t, Ids)} : t \in Tables}

----------------------------------------------------------------------------
(* Requests and handlers.                                                   *)

Batch ==
    [shard : Shards, stream : Streams, lo : Seqs \cup {Len(Lines) + 1}, hi : Seqs \cup {0},
     final : BOOLEAN, code : BOOLEAN, attempt : 0 .. MaxFaults]

Amounts == 0 .. Len(Lines)

\* What Snapshot gathers and the report counts.
Snap ==
    [label : [Ids -> Nat], latency : [Ids -> Nat], second : [Ids -> Nat], signature : [Ids -> Nat],
     finals : SUBSET (Shards \X Streams \X Amounts), clusters : SUBSET Ids]

\* The in-memory store that the tables stand for.
Store ==
    INSTANCE ProgressStore WITH
        acc <- add["second"], shards <- shardRow, series <- add["series"]

\* A stream measures at most one second per line, and None is none of the values it
\* stands in for.
ASSUME ProgressAssumption ==
    /\ MaxStreams \in Nat \ {0} /\ MaxFaults \in Nat /\ LateStreams \in BOOLEAN
    /\ Len(Lines) \in Nat
    /\ \A n \in Seqs : Lines[n].second \in Seqs /\ Lines[n].err \in BOOLEAN
    /\ None \notin Handlers \cup Batch \cup Snap \cup Store!ShardStream

Unread == [c \in {} |-> 0]
Idle == [pc |-> "idle", req |-> None, todo |-> {}, fresh |-> {}, read |-> Unread,
         snap |-> None, deleted |-> 0]

At(x, label) == h[x].pc = label
Become(x, l) == h' = [h EXCEPT ![x] = l]
Goto(x, label) == Become(x, [h[x] EXCEPT !.pc = label])

Waiting(s) == side[s].state \in {"push", "final"}

\* Whether the sidecar that sent b still waits for its answer.
Awaited(b) ==
    LET sc == side[b.shard]
    IN  Waiting(b.shard) /\ sc.stream = b.stream /\ sc.attempt = b.attempt

\* flush drops from pending what was sent only on a 2xx; Run ends after a final.
Answered(b, ok) ==
    IF ~Awaited(b) THEN side
    ELSE [side EXCEPT
            ![b.shard].acked = IF ok THEN b.hi ELSE @,
            ![b.shard].state = IF ~b.final THEN "run" ELSE IF ok THEN "done" ELSE "failed"]

Respond(x, ok) ==
    /\ side' = Answered(h[x].req, ok)
    /\ Become(x, Idle)
    /\ UNCHANGED <<file, exitFile>>

----------------------------------------------------------------------------
(* The engine and the sidecar.                                              *)

EngineWrites(s) ==
    /\ s \notin exitFile
    /\ side[s].state \in {"run", "push"}
    /\ file[s] < 2 * Len(Lines)
    /\ file' = [file EXCEPT ![s] = @ + 1]
    /\ UNCHANGED <<exitFile, side, net, h, owner, tables, tally, open, report, finals, faults>>

\* engineScript: bzt closes its stream, then the container writes the exit code.
EngineExits(s) ==
    /\ s \notin exitFile
    /\ side[s].state \in {"run", "push"}
    /\ file[s] % 2 = 0
    /\ exitFile' = exitFile \cup {s}
    /\ UNCHANGED <<file, side, net, h, owner, tables, tally, open, report, finals, faults>>

\* A partial trailing line stays in carry: a line counts when its newline is read.
ConsumeLines(sc, length) == sc.seq + (length \div 2) - (sc.offset \div 2)

Drained(s) ==
    [side[s] EXCEPT !.seq = ConsumeLines(side[s], file[s]), !.offset = file[s]]

Drain(s) ==
    /\ side[s].state = "run"
    /\ side[s].offset < file[s]
    /\ side' = [side EXCEPT ![s] = Drained(s)]
    /\ UNCHANGED <<file, exitFile, net, h, owner, tables, tally, open, report, finals, faults>>

Flush(s, sc, final) ==
    /\ side' = [side EXCEPT ![s] = [sc EXCEPT !.state = IF final THEN "final" ELSE "push"]]
    /\ net' = net \cup {[shard |-> s, stream |-> sc.stream, lo |-> sc.acked + 1, hi |-> sc.seq,
                          final |-> final, code |-> final /\ s \in exitFile,
                          attempt |-> sc.attempt]}
    /\ UNCHANGED <<file, exitFile, h, owner, tables, tally, open, report, finals>>

FlushTick(s) ==
    /\ side[s].state = "run"
    /\ side[s].seq > side[s].acked
    /\ Flush(s, side[s], FALSE)
    /\ UNCHANGED faults

\* Mutant: the final batch holds what was read before the engine exited.
NoFinalDrain(s) ==
    /\ side[s].state = "run"
    /\ s \in exitFile
    /\ Flush(s, side[s], TRUE)
    /\ UNCHANGED faults

\* checkExitCode, then the final drain and the final batch.
PollTick(s) ==
    /\ side[s].state = "run"
    /\ s \in exitFile
    /\ Flush(s, Drained(s), TRUE)
    /\ UNCHANGED faults

\* SIGTERM: the engine dies with the pod, the sidecar sends what it has read.
Terminated(s) ==
    /\ side[s].state = "run"
    /\ faults < MaxFaults
    /\ faults' = faults + 1
    /\ Flush(s, Drained(s), TRUE)

\* The HTTP client's timeout, or an answer that got lost.
PushLost(s) ==
    /\ Waiting(s)
    /\ faults < MaxFaults
    /\ faults' = faults + 1
    /\ side' = [side EXCEPT
          ![s].state = IF @ = "final" THEN "failed" ELSE "run", ![s].attempt = @ + 1]
    /\ UNCHANGED <<file, exitFile, net, h, owner, tables, tally, open, report, finals>>

\* Mutant: a transaction that fails keeps its locks.
NeverReleased(S) == owner

Released(S) == [k \in DOMAIN owner |-> IF owner[k] \in S THEN None ELSE owner[k]]

NewSidecar(n) ==
    [stream |-> n, offset |-> 0, seq |-> 0, acked |-> 0, attempt |-> 0, state |-> "run"]

\* A crashed or evicted pod comes back empty, as a new stream.
PodReplaced(s) ==
    LET mine == IF LateStreams THEN {} ELSE {x \in Handlers : h[x].req # None /\ h[x].req.shard = s}
    IN  /\ side[s].stream < MaxStreams
        /\ faults < MaxFaults
        /\ faults' = faults + 1
        /\ file' = [file EXCEPT ![s] = 0]
        /\ exitFile' = exitFile \ {s}
        /\ side' = [side EXCEPT ![s] = NewSidecar(@.stream + 1)]
        /\ net' = IF LateStreams THEN net ELSE {b \in net : b.shard # s}
        /\ h' = [x \in Handlers |-> IF x \in mine THEN Idle ELSE h[x]]
        /\ owner' = Released(mine)
        /\ UNCHANGED <<tables, tally, open, report, finals>>

----------------------------------------------------------------------------
(* Ingest and the Absorb transaction.                                       *)

Carried(b) == {<<b.shard, b.stream, n>> : n \in b.lo .. b.hi}

\* Each measurement is shown live and tallied once per process.
Record(b) == tally' = tally \cup Carried(b)

Ingest(x) ==
    \E b \in net :
        /\ At(x, "idle")
        /\ net' = net \ {b}
        /\ \/ /\ ~open
              /\ side' = Answered(b, FALSE)
              /\ UNCHANGED <<h, tally>>
           \/ /\ open
              /\ Become(x, [Idle EXCEPT !.pc = "lock", !.req = b])
              /\ Record(b)
              /\ UNCHANGED side
        /\ UNCHANGED <<file, exitFile, owner, tables, open, report, finals, faults>>

\* Mutant: every batch is new.
ForgetsWatermark(b) == 0

\* Mutant: a restarted pod is held against its predecessor's watermark.
KeepsWatermark(b) == IF shardRow[b.shard] # None THEN shardRow[b.shard].seq ELSE 0

Watermark(b) ==
    IF shardRow[b.shard] # None /\ shardRow[b.shard].stream = b.stream
    THEN shardRow[b.shard].seq
    ELSE 0

LockShard(x) ==
    LET b == h[x].req
        fresh == {i \in Carried(b) : i[3] > Watermark(b)}
    IN  /\ At(x, "lock")
        /\ owner[<<"shard", b.shard>>] = None
        /\ owner' = [owner EXCEPT ![<<"shard", b.shard>>] = x]
        /\ Become(x, [h[x] EXCEPT !.pc = "rows", !.fresh = fresh,
                                  !.todo = MergeProgress(fresh) \cup MergeSeriesSeconds(fresh)])
        /\ UNCHANGED <<pods, net, tables, tally, open, report, finals, faults>>

InRow(k) == {<<k[1], i>> : i \in {j \in Touched(k[1], Ids) : Row(k[1], j) = k[2]}}

\* SELECT ... FOR UPDATE of the next row: its JSON column is read under the lock.
LockRow(x) ==
    \E k \in NextRow(h[x].todo) :
        /\ At(x, "rows")
        /\ owner[k] = None
        /\ owner' = [owner EXCEPT ![k] = x]
        /\ Become(x, [h[x] EXCEPT
              !.todo = @ \ {k},
              !.read = [c \in DOMAIN @ \cup InRow(k) |->
                           IF c \in DOMAIN @ THEN @[c] ELSE json[c[1]][c[2]]]])
        /\ UNCHANGED <<pods, net, tables, tally, open, report, finals, faults>>

Counted(bag, S) == [i \in Ids |-> bag[i] + (IF i \in S THEN 1 ELSE 0)]

MergedJson(x, t) ==
    [i \in Ids |->
        IF <<t, i>> \in DOMAIN h[x].read
        THEN h[x].read[<<t, i>>] +
             (IF i \in h[x].fresh /\ Line(i).label # TotalLabel THEN 1 ELSE 0)
        ELSE json[t][i]]

\* The merges, the shard row's new watermark and the commit.
Absorb(x) ==
    LET b == h[x].req
        old == shardRow[b.shard]
    IN  /\ At(x, "rows")
        /\ h[x].todo = {}
        /\ add' = [t \in Tables |-> Counted(add[t], Touched(t, h[x].fresh))]
        /\ json' = [t \in Tables |-> MergedJson(x, t)]
        /\ shardRow' = [shardRow EXCEPT ![b.shard] =
              [stream |-> b.stream,
               seq |-> IF h[x].fresh = {} THEN Watermark(b) ELSE b.hi,
               finished |-> b.final \/ (old # None /\ old.finished),
               code |-> b.code \/ (old # None /\ old.code)]]
        /\ finals' = IF b.final
                     THEN finals \cup {<<b.shard, b.stream,
                                         IF b.code THEN file[b.shard] \div 2 ELSE b.hi>>}
                     ELSE finals
        /\ owner' = Released({x})
        /\ IF b.final THEN Goto(x, "finished") /\ UNCHANGED pods ELSE Respond(x, TRUE)
        /\ UNCHANGED <<net, tally, open, report, faults>>

----------------------------------------------------------------------------
(* The last final batch finalises the run.                                  *)

AllShardsFinished(x) ==
    /\ At(x, "finished")
    /\ IF \A s \in Shards : shardRow[s] # None /\ shardRow[s].finished
       THEN Goto(x, "labels") /\ UNCHANGED pods
       ELSE Respond(x, TRUE)
    /\ UNCHANGED <<net, owner, tables, tally, open, report, finals, faults>>

\* Snapshot's three queries, in their order.
Snapshot(x) ==
    /\ \/ /\ At(x, "labels")
          /\ Become(x, [h[x] EXCEPT !.pc = "seconds",
                !.snap = [label |-> add["label"], latency |-> json["label"], finals |-> finals,
                          second |-> Nothing, signature |-> Nothing, clusters |-> {}]])
       \/ /\ At(x, "seconds")
          /\ Become(x, [h[x] EXCEPT !.pc = "signatures", !.snap.second = add["second"]])
       \/ /\ At(x, "signatures")
          /\ Become(x, [h[x] EXCEPT !.pc = "save", !.snap.signature = add["signature"]])
    /\ UNCHANGED <<pods, net, owner, tables, tally, open, report, finals, faults>>

\* The run_id primary key lets only the first report in.
SaveReport(x) ==
    /\ At(x, "save")
    /\ report' = IF report = None THEN [h[x].snap EXCEPT !.clusters = tally] ELSE report
    /\ Become(x, [h[x] EXCEPT !.pc = "discard", !.snap = None])
    /\ UNCHANGED <<pods, net, owner, tables, tally, open, finals, faults>>

\* One DELETE per table; a DELETE waits for the rows a transaction holds.
DiscardOrder == <<"label", "second", "signature", "shard">>

Discard(x) ==
    LET t == DiscardOrder[h[x].deleted + 1]
    IN  /\ At(x, "discard")
        /\ \A k \in DOMAIN owner : k[1] = t => owner[k] = None
        /\ IF t = "shard"
           THEN shardRow' = [s \in Shards |-> None] /\ UNCHANGED <<add, json>>
           ELSE /\ add' = [add EXCEPT ![t] = Nothing]
                /\ json' = [json EXCEPT ![t] = Nothing]
                /\ UNCHANGED shardRow
        /\ Become(x, [h[x] EXCEPT !.deleted = @ + 1,
                                  !.pc = IF t = "shard" THEN "close" ELSE @])
        /\ UNCHANGED <<pods, net, owner, tally, open, report, finals, faults>>

\* closeRun, then the process forgets what it has shown.
CloseRun(x) ==
    /\ At(x, "close")
    /\ open' = FALSE
    /\ tally' = {}
    /\ Respond(x, TRUE)
    /\ UNCHANGED <<net, owner, tables, report, finals, faults>>

\* Any statement may fail: the transaction rolls back and the push is refused.
StatementFails(x) ==
    /\ ~At(x, "idle")
    /\ faults < MaxFaults
    /\ faults' = faults + 1
    /\ Respond(x, FALSE)
    /\ owner' = Released({x})
    /\ UNCHANGED <<net, tables, tally, open, report, finals>>

\* A restarted control plane loses its handlers and its live view.
ControlPlaneRestarts ==
    LET broken == {s \in Shards : \E x \in Handlers :
                     h[x].req # None /\ h[x].req.shard = s /\ Awaited(h[x].req)}
    IN  /\ \E x \in Handlers : ~At(x, "idle")
        /\ faults < MaxFaults
        /\ faults' = faults + 1
        /\ side' = [s \in Shards |->
              IF s \in broken
              THEN [side[s] EXCEPT !.state = IF @ = "final" THEN "failed" ELSE "run"]
              ELSE side[s]]
        /\ h' = [x \in Handlers |-> Idle]
        /\ owner' = Released(Handlers)
        /\ tally' = {}
        /\ UNCHANGED <<file, exitFile, net, tables, open, report, finals>>

----------------------------------------------------------------------------
Init ==
    /\ file = [s \in Shards |-> 0]
    /\ exitFile = {}
    /\ side = [s \in Shards |-> NewSidecar(1)]
    /\ net = {}
    /\ h = [x \in Handlers |-> Idle]
    /\ owner = [k \in RowKeys |-> None]
    /\ add = [t \in Tables |-> Nothing]
    /\ json = [t \in Tables |-> Nothing]
    /\ shardRow = [s \in Shards |-> None]
    /\ tally = {}
    /\ open = TRUE
    /\ report = None
    /\ finals = {}
    /\ faults = 0

Sidecar(s) == Drain(s) \/ FlushTick(s) \/ PollTick(s)
Serve(x) ==
    \/ Ingest(x) \/ LockShard(x) \/ LockRow(x) \/ Absorb(x) \/ AllShardsFinished(x)
    \/ Snapshot(x) \/ SaveReport(x) \/ Discard(x) \/ CloseRun(x)

Next ==
    \/ \E s \in Shards :
          \/ EngineWrites(s) \/ EngineExits(s) \/ Sidecar(s)
          \/ Terminated(s) \/ PushLost(s) \/ PodReplaced(s)
    \/ \E x \in Handlers : Serve(x) \/ StatementFails(x)
    \/ ControlPlaneRestarts

Spec == Init /\ [][Next]_vars

\* The sidecar's tickers and the server's goroutines keep running.
FairSpec ==
    /\ Spec
    /\ \A s \in Shards : WF_vars(Sidecar(s))
    /\ \A x \in Handlers : WF_vars(Serve(x))

----------------------------------------------------------------------------
(* Properties.                                                              *)

\* Every variable has the shape the code gives it.
TypeOK ==
    /\ file \in [Shards -> 0 .. 2 * Len(Lines)]
    /\ exitFile \subseteq Shards
    /\ \A s \in Shards :
          /\ side[s].stream \in Streams
          /\ side[s].acked <= side[s].seq /\ 2 * side[s].seq <= side[s].offset
          /\ side[s].state \in {"run", "push", "final", "done", "failed"}
    /\ net \subseteq Batch
    /\ \A x \in Handlers : h[x].req \in Batch \cup {None} /\ h[x].fresh \subseteq Ids
    /\ owner \in [RowKeys -> Handlers \cup {None}]
    /\ shardRow \in [Shards -> Store!ShardStream \cup {None}]
    /\ add \in [Tables -> [Ids -> Nat]] /\ json \in [Tables -> [Ids -> Nat]]
    /\ report \in Snap \cup {None}
    /\ tally \subseteq Ids /\ open \in BOOLEAN /\ faults \in 0 .. MaxFaults

\* Absorb's promise, as long as the run has no report: a measurement that was pushed
\* again after a lost answer, a failed statement or a control-plane restart is in no
\* working table twice, and what a sidecar has dropped from its pending list because
\* the control plane answered 2xx is there.  (Once there is a report, Discard takes
\* the counts of a table and the watermarks in statements of their own, and a late
\* push may come in between.)
CountedOnce ==
    report = None =>
        /\ \A t \in {"second", "label", "signature"}, i \in Ids : add[t][i] <= 1
        /\ \A s \in Shards : \A n \in 1 .. side[s].acked :
              add["second"][<<s, side[s].stream, n>>] = 1

\* mergeLabels and its siblings lock the row before the read-merge-write of a
\* JSON column, so two shards' flushes never lose one another's buckets: the
\* JSON columns hold exactly the measurements the additive columns hold.
JsonAgrees ==
    \A t \in Tables, i \in Ids : HasRow(t, i) /\ Line(i).label # TotalLabel =>
        json[t][i] = add[t][i]

\* What the working tables hold is what was absorbed, in each column once.
TablesExact == CountedOnce /\ JsonAgrees

\* The transactions take their rows in one order, so they never wait for each
\* other in a circle.
Waits(x, y) ==
    \/ At(x, "lock") /\ owner[<<"shard", h[x].req.shard>>] = y
    \/ At(x, "rows") /\ \E k \in NextRow(h[x].todo) : owner[k] = y
NoLockCycle ==
    \A S \in (SUBSET Handlers) \ {{}} : \E x \in S : \A y \in S : ~Waits(x, y)

\* The report of a run that completed counts no measurement twice, in none of
\* its tables, and all that the pods whose final batch closed the run had written.
ReportExact ==
    report # None =>
        /\ \A i \in Ids : report.second[i] <= 1 /\ report.label[i] <= 1
        /\ report.latency = report.label
        /\ \A f \in report.finals : \A n \in 1 .. f[3] :
              LET i == <<f[1], f[2], n>>
              IN  /\ report.second[i] = 1
                  /\ HasRow("label", i) => report.label[i] = 1
                  /\ HasRow("signature", i) => report.signature[i] = 1

\* The MySQL adapter's Absorb, with its locks and its commit, is the in-memory
\* store's Absorb of the same batch in one step.
AbsorbsAsOne == \A x \in Handlers : Absorb(x) => Store!Absorb(h[x].req)
AbsorbImplemented == [][AbsorbsAsOne]_vars

\* When every engine has exited, the run gets its report, unless a final push
\* failed: the sidecar does not retry that one.
AllExited == exitFile = Shards
Reported ==
    \/ report # None
    \/ exitFile # Shards
    \/ \E s \in Shards : side[s].state = "failed"
RunReported == AllExited ~> Reported
=============================================================================
