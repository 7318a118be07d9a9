------------------------ MODULE ReportProgressProofs ------------------------
(***************************************************************************)
(* Theorems about ReportProgress, for any number of shards, handlers,      *)
(* restarted pods and faults, and any lines the engines write.             *)
(***************************************************************************)
EXTENDS ReportProgress, TLAPS

\* A leaf is tried with Zenon, with SMT and with both again for longer, unless it
\* names its prover.
USE ZenonT(3), SMTT(20), ZenonT(30), SMTT(90)

----------------------------------------------------------------------------
(* The inductive invariant, in three layers.                               *)

States == {"run", "push", "final", "done", "failed"}
Side == [stream : Streams, offset : 0 .. 2 * Len(Lines), seq : Amounts, acked : Amounts,
         attempt : 0 .. MaxFaults, state : States]
Pcs == {"idle", "lock", "rows", "finished", "labels", "seconds", "signatures", "save",
        "discard", "close"}
Snapped == {"seconds", "signatures", "save"}
DataKeys == UNION {{<<t, r>> : r \in Rows(t, Ids)} : t \in Tables}

\* What a sidecar has read and what it has been acknowledged.
SideOK(s) ==
    /\ side[s].offset <= file[s] /\ side[s].seq = side[s].offset \div 2
    /\ side[s].acked <= side[s].seq /\ side[s].attempt <= faults

\* A batch is of this or an earlier stream of its shard, and holds what was read.
Fits(b) ==
    /\ b.stream <= side[b.shard].stream
    /\ b.stream = side[b.shard].stream => b.hi <= side[b.shard].seq

Reads == UNION {[D -> Nat] : D \in SUBSET (Tables \X Ids)}
Handler ==
    [pc : Pcs, req : Batch \cup {None}, todo : SUBSET DataKeys, fresh : SUBSET Ids,
     read : Reads, snap : Snap \cup {None}, deleted : 0 .. 4]

\* What a handler has at each label, and that its request fits.
HandlerOK(x) ==
    /\ At(x, "idle") <=> h[x].req = None
    /\ h[x].req # None => Fits(h[x].req)
    /\ h[x].pc \in Snapped => h[x].snap \in Snap
    /\ At(x, "discard") => h[x].deleted < 4
    /\ h[x].pc \notin {"discard", "close"} => h[x].deleted = 0

PodsTyped ==
    /\ file \in [Shards -> 0 .. 2 * Len(Lines)]
    /\ exitFile \subseteq Shards
    /\ side \in [Shards -> Side]
    /\ faults \in 0 .. MaxFaults
    /\ \A s \in Shards : SideOK(s)
RequestsTyped ==
    /\ net \subseteq Batch
    /\ \A b \in net : Fits(b)
    /\ h \in [Handlers -> Handler]
    /\ \A x \in Handlers : HandlerOK(x)
StoreTyped ==
    /\ owner \in [RowKeys -> Handlers \cup {None}]
    /\ add \in [Tables -> [Ids -> Nat]] /\ json \in [Tables -> [Ids -> Nat]]
    /\ shardRow \in [Shards -> Store!ShardStream \cup {None}]
    /\ tally \subseteq Ids /\ open \in BOOLEAN
    /\ report \in Snap \cup {None}
    /\ finals \subseteq Shards \X Streams \X Amounts
Typed == PodsTyped /\ RequestsTyped /\ StoreTyped

\* What the transaction of x relies on while it holds its locks: the watermark it
\* read, the JSON columns it read, and that what it has yet to lock comes later.
HoldsShard(x) ==
    At(x, "rows") =>
        /\ owner[<<"shard", h[x].req.shard>>] = x
        /\ h[x].fresh = {i \in Carried(h[x].req) : i[3] > Watermark(h[x].req)}
HoldsRead(x) ==
    At(x, "rows") =>
        \A c \in DOMAIN h[x].read :
            /\ c \in Tables \X Ids /\ HasRow(c[1], c[2])
            /\ owner[<<c[1], Row(c[1], c[2])>>] = x
            /\ h[x].read[c] = json[c[1]][c[2]]
ReadsAll(x) ==
    At(x, "rows") =>
        \A t \in Tables, i \in h[x].fresh :
            HasRow(t, i) => <<t, Row(t, i)>> \in h[x].todo \/ <<t, i>> \in DOMAIN h[x].read
InOrder(x) ==
    \A k \in RowKeys : owner[k] = x =>
        /\ At(x, "rows")
        /\ k[1] # "shard" => \A j \in h[x].todo : Precedes(k, j)
LocksOK(x) ==
    /\ HoldsShard(x) /\ HoldsRead(x) /\ ReadsAll(x) /\ InOrder(x)
    /\ h[x].pc \in {"idle", "lock"} => h[x].read = Unread

NoRowNoCount == \A t \in Tables, i \in Ids : ~HasRow(t, i) => add[t][i] = 0 /\ json[t][i] = 0
Locks == (\A x \in Handlers : LocksOK(x)) /\ JsonAgrees /\ NoRowNoCount

\* How far the current stream of s has been absorbed.
Absorbed(s) ==
    IF shardRow[s] # None /\ shardRow[s].stream = side[s].stream THEN shardRow[s].seq ELSE 0

\* A request is its shard's current stream's, goes on where the watermark is or
\* earlier, and with an exit code has all that was written.
BatchOK(b) ==
    /\ b.stream = side[b.shard].stream
    /\ b.code => b.shard \in exitFile /\ b.hi = file[b.shard] \div 2
    /\ report = None => b.lo <= Absorbed(b.shard) + 1

CountOK(t, i) ==
    /\ i[2] < side[i[1]].stream => add[t][i] <= 1
    /\ i[2] = side[i[1]].stream =>
          add[t][i] = IF HasRow(t, i) /\ i[3] <= Absorbed(i[1]) THEN 1 ELSE 0
    /\ i[2] > side[i[1]].stream => add[t][i] = 0

FinalsIn(F, t, bag) ==
    \A f \in F : \A n \in 1 .. f[3] : HasRow(t, <<f[1], f[2], n>>) => bag[<<f[1], f[2], n>>] = 1
Single(bag) == \A i \in Ids : bag[i] <= 1

SnapOK(l) ==
    /\ l.pc \in Snapped =>
          /\ Single(l.snap.label) /\ l.snap.latency = l.snap.label
          /\ FinalsIn(l.snap.finals, "label", l.snap.label) /\ l.snap.finals \subseteq finals
    /\ l.pc \in {"signatures", "save"} =>
          Single(l.snap.second) /\ FinalsIn(l.snap.finals, "second", l.snap.second)
    /\ l.pc = "save" => FinalsIn(l.snap.finals, "signature", l.snap.signature)

\* The labels behind the commit of a final batch, up to the report.
Committed == Snapped \cup {"finished", "labels"}
HandlerCounts(x) ==
    /\ h[x].req # None => BatchOK(h[x].req)
    /\ h[x].pc \in {"discard", "close"} => report # None
    /\ report = None =>
          /\ h[x].pc \in Committed => h[x].req.hi <= Absorbed(h[x].req.shard)
          /\ SnapOK(h[x])

\* While there is no report, the tables count what the watermarks say.
TablesCount ==
    report = None =>
        /\ \A s \in Shards : side[s].acked <= Absorbed(s)
        /\ \A t \in Tables, i \in Ids : CountOK(t, i)
        /\ \A t \in Tables : FinalsIn(finals, t, add[t])

RowsOK == \A s \in Shards : shardRow[s] # None => shardRow[s].stream <= side[s].stream
Counts ==
    /\ \A b \in net : BatchOK(b)
    /\ RowsOK
    /\ \A x \in Handlers : HandlerCounts(x)
    /\ TablesCount
    /\ ReportExact

----------------------------------------------------------------------------
(* Rows, keys and batches.                                                 *)

LEMMA KeyFacts ==
    /\ \A s \in Shards : <<"shard", s>> \in RowKeys
    /\ DataKeys \subseteq RowKeys
    /\ \A k \in RowKeys : k[1] = "shard" \/ k \in DataKeys
    /\ \A k \in DataKeys :
          /\ k[1] \in Tables /\ k[1] # "shard" /\ k = <<k[1], k[2]>>
          /\ \E i \in Ids : HasRow(k[1], i) /\ k[2] = Row(k[1], i)
    /\ \A t \in Tables, i \in Ids : HasRow(t, i) => <<t, Row(t, i)>> \in DataKeys
  <1>1. RowKeys = {<<"shard", s>> : s \in Shards} \cup DataKeys
    BY DEF RowKeys, DataKeys
  <1>2. \A t \in Tables, i \in Ids : HasRow(t, i) => <<t, Row(t, i)>> \in DataKeys
    BY SMTT(30) DEF DataKeys, Rows, Touched
  <1>3. ASSUME NEW k \in DataKeys
        PROVE  /\ k[1] \in Tables /\ k[1] # "shard" /\ k = <<k[1], k[2]>>
               /\ \E i \in Ids : HasRow(k[1], i) /\ k[2] = Row(k[1], i)
    <2>1. PICK t \in Tables : k \in {<<t, r>> : r \in Rows(t, Ids)}
      BY DEF DataKeys
    <2>2. PICK r \in Rows(t, Ids) : k = <<t, r>>
      BY <2>1
    <2>3. PICK i \in Ids : HasRow(t, i) /\ r = Row(t, i)
      BY <2>2 DEF Rows, Touched
    <2> QED BY <2>2, <2>3 DEF Tables
  <1>4. \A s \in Shards : <<"shard", s>> \in RowKeys
    BY <1>1
  <1>5. DataKeys \subseteq RowKeys /\ \A k \in RowKeys : k[1] = "shard" \/ k \in DataKeys
    BY <1>1
  <1> QED BY <1>2, <1>3, <1>4, <1>5

\* What a transaction has to lock is the rows of its fresh measurements.
LEMMA TodoFacts ==
    ASSUME NEW S \in SUBSET Ids
    PROVE  /\ MergeProgress(S) \cup MergeSeriesSeconds(S) \subseteq DataKeys
           /\ \A t \in Tables, i \in S : HasRow(t, i) =>
                 <<t, Row(t, i)>> \in MergeProgress(S) \cup MergeSeriesSeconds(S)
  <1>1. \A t \in Tables : Locked(t, S) \subseteq DataKeys
    BY KeyFacts DEF Locked, Rows, Touched
  <1>2. \A t \in Tables, i \in S : HasRow(t, i) => <<t, Row(t, i)>> \in Locked(t, S)
    BY DEF Locked, Rows, Touched
  <1>3. MergeProgress(S) \cup MergeSeriesSeconds(S) =
          Locked("second", S) \cup Locked("label", S) \cup Locked("signature", S) \cup Locked("series", S)
    BY DEF MergeProgress, MergeSecondLabels, MergeLabels, MergeSignatures, MergeSeriesSeconds
  <1> QED BY <1>1, <1>2, <1>3 DEF Tables

LEMMA CarriedFacts ==
    ASSUME NEW b \in Batch
    PROVE  /\ Carried(b) \subseteq Ids
           /\ \A n : <<b.shard, b.stream, n>> \in Carried(b) <=> n \in b.lo .. b.hi
           /\ \A i \in Carried(b) : i = <<b.shard, b.stream, i[3]>> /\ i[3] \in b.lo .. b.hi
  <1>1. /\ b.shard \in Shards /\ b.stream \in Streams
        /\ b.lo \in Nat \ {0} /\ b.hi \in Nat /\ b.hi <= Len(Lines)
    BY SMTT(30), ProgressAssumption DEF Batch, Seqs
  <1>2. b.lo .. b.hi \subseteq Seqs
    BY <1>1, ProgressAssumption DEF Seqs
  <1> QED BY SMTT(30), <1>1, <1>2 DEF Carried, Ids

LEMMA IdleTyped ==
    Idle \in Handler
  <1>1. Unread \in [{} -> Nat]
    BY DEF Unread
  <1>2. Unread \in Reads
    BY <1>1 DEF Reads
  <1> QED BY <1>2 DEF Idle, Handler, Pcs

LEMMA ReleasedTyped ==
    ASSUME owner \in [RowKeys -> Handlers \cup {None}], NEW S
    PROVE  /\ Released(S) \in [RowKeys -> Handlers \cup {None}]
           /\ \A k \in RowKeys : Released(S)[k] = IF owner[k] \in S THEN None ELSE owner[k]
  BY DEF Released

LEMMA InitTyped ==
    ASSUME Init
    PROVE  Typed
  <1>1. PodsTyped
    BY ProgressAssumption DEF Init, PodsTyped, SideOK, NewSidecar, Side, Streams, Amounts, States
  <1>2. RequestsTyped
    BY IdleTyped, ProgressAssumption DEF Init, RequestsTyped, HandlerOK, At, Idle, Snapped
  <1>3. StoreTyped
    BY DEF Init, StoreTyped, Nothing
  <1> QED BY <1>1, <1>2, <1>3 DEF Typed
----------------------------------------------------------------------------
(* Every step keeps the types.                                             *)

\* No sidecar is replaced, and none forgets what it has read.
SideKept ==
    \A s \in Shards : side'[s].stream = side[s].stream /\ side'[s].seq >= side[s].seq

LEMMA FitsKept ==
    ASSUME PodsTyped, PodsTyped', SideKept, NEW b \in Batch, Fits(b)
    PROVE  Fits(b)'
  <1>1. b.shard \in Shards /\ b.stream \in Int /\ b.hi \in Int
    BY SMTT(30), ProgressAssumption DEF Batch, Seqs, Streams
  <1>2. side[b.shard].seq \in Int /\ side'[b.shard].seq \in Int
    BY <1>1 DEF PodsTyped, Side, Amounts
  <1> QED BY SMTT(30), <1>1, <1>2 DEF Fits, SideKept

LEMMA BatchTyped ==
    ASSUME NEW b \in Batch
    PROVE  /\ b.shard \in Shards /\ b.stream \in Streams /\ b.stream \in Nat
           /\ b.lo \in Nat \ {0} /\ b.hi \in Amounts /\ b.hi \in Nat
           /\ b.final \in BOOLEAN /\ b.code \in BOOLEAN
  BY SMTT(30), ProgressAssumption DEF Batch, Seqs, Streams, Amounts

\* The sidecars of the steps that leave handlers and requests as they are.
LEMMA RequestsKept ==
    ASSUME PodsTyped, PodsTyped', RequestsTyped, SideKept, h' = h, net' \subseteq net
    PROVE  RequestsTyped'
  <1>1. ASSUME NEW x \in Handlers PROVE HandlerOK(x)'
    <2>1. h[x].req # None => h[x].req \in Batch
      BY DEF RequestsTyped, Handler
    <2>2. h[x].req # None => Fits(h[x].req)'
      BY <2>1, FitsKept DEF RequestsTyped, HandlerOK
    <2> QED BY <2>2 DEF RequestsTyped, HandlerOK, At
  <1>2. \A b \in net' : Fits(b)'
    BY FitsKept DEF RequestsTyped
  <1> QED BY <1>1, <1>2 DEF RequestsTyped

\* A handler that moves on.
LEMMA HandlerMoves ==
    ASSUME PodsTyped, PodsTyped', RequestsTyped, SideKept, net' \subseteq net,
           NEW x \in Handlers, NEW l \in Handler, h' = [h EXCEPT ![x] = l], HandlerOK(x)'
    PROVE  RequestsTyped'
  <1>1. ASSUME NEW y \in Handlers, y # x PROVE HandlerOK(y)'
    <2>1. h'[y] = h[y] /\ (h[y].req # None => h[y].req \in Batch)
      BY <1>1 DEF RequestsTyped, Handler
    <2>2. h[y].req # None => Fits(h[y].req)'
      BY <2>1, FitsKept DEF RequestsTyped, HandlerOK
    <2> QED BY <2>1, <2>2 DEF RequestsTyped, HandlerOK, At
  <1>2. \A b \in net' : Fits(b)'
    BY FitsKept DEF RequestsTyped
  <1> QED BY <1>1, <1>2 DEF RequestsTyped

\* An answer, also one nobody waits for any more, acknowledges what had been read.
LEMMA AnswerTyped ==
    ASSUME PodsTyped, NEW b \in Batch, Fits(b), NEW ok \in BOOLEAN, side' = Answered(b, ok),
           UNCHANGED <<file, exitFile>>, faults' \in 0 .. MaxFaults, faults' >= faults
    PROVE  /\ PodsTyped' /\ SideKept
           /\ \A s \in Shards : side'[s].acked = side[s].acked \/
                 (ok /\ s = b.shard /\ b.stream = side[s].stream /\ side'[s].acked = b.hi)
  <1>1. b.shard \in Shards /\ b.hi \in Amounts /\ b.final \in BOOLEAN /\ b.stream \in Streams
    BY BatchTyped
  <1>2. \A s \in Shards : side[s] \in Side
    BY DEF PodsTyped
  <1>3. CASE ~Awaited(b)
    <2>1. side' = side
      BY <1>3 DEF Answered
    <2> QED BY SMTT(30), <2>1, <1>2, ProgressAssumption DEF PodsTyped, SideOK, SideKept, Side, Amounts
  <1>4. CASE Awaited(b)
    <2>1. b.stream = side[b.shard].stream /\ b.hi <= side[b.shard].seq
      BY <1>4 DEF Awaited, Fits
    <2> DEFINE st == IF ~b.final THEN "run" ELSE IF ok THEN "done" ELSE "failed"
               ac == IF ok THEN b.hi ELSE side[b.shard].acked
    <2>2. side' = [side EXCEPT ![b.shard] = [side[b.shard] EXCEPT !.acked = ac, !.state = st]]
      BY ZenonT(30), <1>4, <1>1, <1>2 DEF Answered, PodsTyped, Side
    <2>3. st \in States /\ ac \in Amounts /\ ac <= side[b.shard].seq
      BY <1>1, <1>2, <2>1 DEF States, Side, PodsTyped, SideOK
    <2>a. side'[b.shard] = [side[b.shard] EXCEPT !.acked = ac, !.state = st]
      BY ZenonT(30), <1>1, <2>2 DEF PodsTyped
    <2> HIDE DEF st, ac
    <2>4. /\ side'[b.shard] \in Side /\ side'[b.shard].acked = ac
          /\ side'[b.shard].stream = side[b.shard].stream /\ side'[b.shard].seq = side[b.shard].seq
          /\ side'[b.shard].offset = side[b.shard].offset
          /\ side'[b.shard].attempt = side[b.shard].attempt
      BY ZenonT(30), <1>1, <1>2, <2>a, <2>3 DEF Side
    <2>5. \A s \in Shards : s # b.shard => side'[s] = side[s]
      BY <2>2 DEF PodsTyped
    <2>6. side' \in [Shards -> Side]
      BY ZenonT(30), <1>1, <2>2, <2>4 DEF PodsTyped
    <2>7. \A s \in Shards : side'[s].seq = side[s].seq /\ side[s].seq \in Nat /\ side'[s].attempt = side[s].attempt
                           /\ side[s].attempt \in Nat /\ faults \in Nat /\ faults' \in Nat
      BY SMTT(30), <1>2, <2>4, <2>5, ProgressAssumption DEF Side, Amounts, PodsTyped
    <2>8. \A s \in Shards : SideOK(s)'
      BY <2>3, <2>4, <2>5, <2>7 DEF PodsTyped, SideOK
    <2> QED BY SMTT(30), <2>1, <2>4, <2>5, <2>6, <2>7, <2>8 DEF PodsTyped, SideKept, ac
  <1> QED BY <1>3, <1>4

LEMMA RespondTyped ==
    ASSUME Typed, NEW x \in Handlers, ~At(x, "idle"), NEW ok \in BOOLEAN, Respond(x, ok), net' = net,
           faults' \in 0 .. MaxFaults, faults' >= faults
    PROVE  PodsTyped' /\ RequestsTyped' /\ SideKept
  <1>1. h[x].req \in Batch /\ Fits(h[x].req)
    BY DEF Typed, RequestsTyped, HandlerOK, Handler
  <1>2. PodsTyped' /\ SideKept
    BY <1>1, AnswerTyped DEF Typed, Respond
  <1>3. h' = [h EXCEPT ![x] = Idle]
    BY DEF Respond, Become
  <1>4. h'[x] = Idle
    BY <1>3 DEF Typed, RequestsTyped
  <1>5. HandlerOK(x)'
    BY <1>4 DEF HandlerOK, At, Idle, Snapped
  <1> QED BY ZenonT(30), <1>2, <1>3, <1>5, IdleTyped, HandlerMoves DEF Typed
LEMMA StoreKept ==
    ASSUME StoreTyped, UNCHANGED <<owner, tables, open, report, finals>>, tally' \subseteq Ids
    PROVE  StoreTyped'
  BY DEF StoreTyped, tables

LEMMA HalfFacts ==
    ASSUME NEW n \in Nat, NEW m \in Nat, n <= m
    PROVE  /\ n \div 2 \in Nat /\ n \div 2 <= m \div 2 /\ 2 * (n \div 2) <= n
           /\ \A k \in Nat : m <= 2 * k => m \div 2 <= k
  OBVIOUS

\* drain reads what is complete in the file.
LEMMA DrainedTyped ==
    ASSUME PodsTyped, NEW s \in Shards
    PROVE  /\ Drained(s) \in Side
           /\ Drained(s) = [side[s] EXCEPT !.seq = file[s] \div 2, !.offset = file[s]]
           /\ Drained(s).stream = side[s].stream /\ Drained(s).acked = side[s].acked
           /\ Drained(s).attempt = side[s].attempt /\ Drained(s).offset = file[s]
           /\ Drained(s).seq = file[s] \div 2 /\ side[s].seq <= file[s] \div 2
  <1>1. /\ side[s] \in Side /\ file[s] \in Nat /\ file[s] <= 2 * Len(Lines)
        /\ side[s].offset \in Nat /\ side[s].offset <= file[s] /\ side[s].seq = side[s].offset \div 2
    BY SMTT(30), ProgressAssumption DEF PodsTyped, SideOK, Side
  <1>2. /\ file[s] \div 2 \in Amounts /\ side[s].offset \div 2 <= file[s] \div 2
        /\ side[s].offset \div 2 \in Nat /\ file[s] \in 0 .. 2 * Len(Lines)
    BY SMTT(30), <1>1, HalfFacts, ProgressAssumption DEF Amounts
  <1>3. ConsumeLines(side[s], file[s]) = file[s] \div 2
    BY <1>1, <1>2 DEF ConsumeLines, Amounts
  <1>4. Drained(s) = [side[s] EXCEPT !.seq = file[s] \div 2, !.offset = file[s]]
    BY <1>3 DEF Drained
  <1> DEFINE n == file[s] \div 2
  <1>5. n \in Amounts /\ Drained(s) = [side[s] EXCEPT !.seq = n, !.offset = file[s]]
    BY <1>2, <1>4
  <1>6. side[s].seq <= n
    BY <1>1, <1>2
  <1> HIDE DEF n
  <1>7. /\ Drained(s) \in Side /\ Drained(s).stream = side[s].stream /\ Drained(s).acked = side[s].acked
        /\ Drained(s).attempt = side[s].attempt /\ Drained(s).offset = file[s] /\ Drained(s).seq = n
    BY ZenonT(30), <1>1, <1>2, <1>5 DEF Side
  <1> QED BY <1>4, <1>6, <1>7 DEF n

\* What has been read is a sidecar's state again.
LEMMA DrainedOK ==
    ASSUME PodsTyped, NEW s \in Shards
    PROVE  /\ Drained(s) \in Side /\ Drained(s).stream = side[s].stream
           /\ Drained(s).seq >= side[s].seq /\ Drained(s).offset <= file[s]
           /\ Drained(s).seq = Drained(s).offset \div 2
           /\ Drained(s).acked <= Drained(s).seq /\ Drained(s).attempt <= faults
  <1> DEFINE d == Drained(s)
             n == file[s] \div 2
  <1>1. /\ d \in Side /\ d.stream = side[s].stream /\ d.acked = side[s].acked
        /\ d.attempt = side[s].attempt /\ d.offset = file[s] /\ d.seq = n /\ side[s].seq <= n
    BY ZenonT(30), DrainedTyped
  <1>2. d.seq = d.offset \div 2
    BY <1>1
  <1> HIDE DEF n, d
  <1>3. /\ side[s].acked \in Int /\ side[s].seq \in Int /\ file[s] \in Int /\ d.seq \in Int
        /\ side[s].acked <= side[s].seq /\ side[s].attempt <= faults
    BY SMTT(30), <1>1, ProgressAssumption DEF PodsTyped, SideOK, Side, Amounts
  <1>4. d.seq >= side[s].seq /\ d.offset <= file[s] /\ d.acked <= d.seq /\ d.attempt <= faults
    BY <1>1, <1>3
  <1> QED BY <1>1, <1>2, <1>4 DEF d

\* A sidecar that keeps its stream and loses nothing it has read.
LEMMA SidecarMoves ==
    ASSUME PodsTyped, NEW s \in Shards, NEW sc \in Side, side' = [side EXCEPT ![s] = sc],
           UNCHANGED <<file, exitFile>>, faults' \in 0 .. MaxFaults, faults' >= faults,
           sc.stream = side[s].stream, sc.seq >= side[s].seq, sc.offset <= file[s],
           sc.seq = sc.offset \div 2, sc.acked <= sc.seq, sc.attempt <= faults'
    PROVE  PodsTyped' /\ SideKept
  <1>1. side' \in [Shards -> Side] /\ side'[s] = sc /\ \A r \in Shards : r # s => side'[r] = side[r]
    BY DEF PodsTyped
  <1>2. SideOK(s)'
    BY <1>1 DEF SideOK
  <1>3. ASSUME NEW r \in Shards, r # s PROVE SideOK(r)'
    <2>1. side[r].attempt \in Int /\ faults \in Int /\ faults' \in Int
      BY ProgressAssumption DEF PodsTyped, Side
    <2> QED BY SMTT(30), <1>1, <1>3, <2>1 DEF PodsTyped, SideOK
  <1>4. \A r \in Shards : side[r].seq \in Int
    BY DEF PodsTyped, Side, Amounts
  <1> QED BY SMTT(30), <1>1, <1>2, <1>3, <1>4 DEF PodsTyped, SideKept

LEMMA FlushTyped ==
    ASSUME Typed, NEW s \in Shards, NEW sc \in Side, NEW final \in BOOLEAN, Flush(s, sc, final),
           faults' \in 0 .. MaxFaults, faults' >= faults,
           sc.stream = side[s].stream, sc.seq >= side[s].seq, sc.offset <= file[s],
           sc.seq = sc.offset \div 2, sc.acked <= sc.seq, sc.attempt <= faults
    PROVE  Typed' /\ SideKept
  <1> DEFINE st == IF final THEN "final" ELSE "push"
             nc == [sc EXCEPT !.state = st]
             b == [shard |-> s, stream |-> sc.stream, lo |-> sc.acked + 1, hi |-> sc.seq,
                   final |-> final, code |-> final /\ s \in exitFile, attempt |-> sc.attempt]
  <1>1. st \in States
    BY DEF States
  <1>2. side' = [side EXCEPT ![s] = nc] /\ net' = net \cup {b}
    BY DEF Flush
  <1> HIDE DEF st
  <1>3. /\ nc \in Side /\ nc.stream = sc.stream /\ nc.seq = sc.seq /\ nc.offset = sc.offset
        /\ nc.acked = sc.acked /\ nc.attempt = sc.attempt
    BY <1>1 DEF Side
  <1>4. faults \in Int /\ faults' \in Int /\ sc.attempt \in Int
    BY SMTT(30), ProgressAssumption DEF Typed, PodsTyped, Side
  <1>5. nc.attempt <= faults'
    BY <1>3, <1>4
  <1> HIDE DEF nc
  <1>6. PodsTyped' /\ SideKept
    BY ZenonT(30), <1>2, <1>3, <1>5, SidecarMoves DEF Typed, Flush
  <1>7. /\ sc.stream \in Streams /\ sc.acked \in Amounts /\ sc.seq \in Amounts
        /\ sc.attempt \in 0 .. MaxFaults
    BY DEF Side
  <1>8. b \in Batch
    <2>1. sc.acked + 1 \in Seqs \cup {Len(Lines) + 1} /\ sc.seq \in Seqs \cup {0}
      BY SMTT(30), <1>7, ProgressAssumption DEF Seqs, Amounts
    <2>2. (final /\ s \in exitFile) \in BOOLEAN
      OBVIOUS
    <2> QED BY <1>7, <2>1, <2>2 DEF Batch
  <1>9. side'[s] = nc
    BY <1>2 DEF Typed, PodsTyped
  <1>10. ASSUME NEW c, c = b PROVE Fits(c)'
    BY <1>3, <1>7, <1>9, <1>10, ProgressAssumption DEF Fits, Streams, Amounts
  <1> HIDE DEF b
  <1>11. RequestsTyped'
    <2>1. ASSUME NEW x \in Handlers PROVE HandlerOK(x)'
      <3>1. h'[x] = h[x] /\ (h[x].req # None => h[x].req \in Batch)
        BY DEF Typed, RequestsTyped, Handler, Flush
      <3>2. h[x].req # None => Fits(h[x].req)'
        BY <3>1, <1>6, FitsKept DEF Typed, RequestsTyped, HandlerOK
      <3> QED BY <3>1, <3>2 DEF Typed, RequestsTyped, HandlerOK, At
    <2>2. ASSUME NEW c \in net' PROVE Fits(c)'
      <3>1. CASE c = b
        BY <3>1, <1>10
      <3>2. CASE c \in net
        BY <3>2, <1>6, FitsKept DEF Typed, RequestsTyped
      <3> QED BY <1>2, <3>1, <3>2
    <2> QED BY <1>2, <1>8, <2>1, <2>2 DEF Typed, RequestsTyped, Flush
  <1>12. StoreTyped'
    BY StoreKept DEF Typed, StoreTyped, Flush
  <1> QED BY <1>6, <1>11, <1>12 DEF Typed
LEMMA EngineTyped ==
    ASSUME Typed, NEW s \in Shards, EngineWrites(s) \/ EngineExits(s) \/ Drain(s)
    PROVE  Typed' /\ SideKept
  <1>1. PodsTyped' /\ SideKept
    <2>1. CASE EngineWrites(s)
      <3>1. file[s] \in 0 .. 2 * Len(Lines) /\ file[s] + 1 \in 0 .. 2 * Len(Lines)
        BY SMTT(30), <2>1, ProgressAssumption DEF EngineWrites, Typed, PodsTyped
      <3>2. file' \in [Shards -> 0 .. 2 * Len(Lines)] /\ \A r \in Shards : file'[r] >= file[r]
        BY SMTT(30), <2>1, <3>1, ProgressAssumption DEF EngineWrites, Typed, PodsTyped
      <3>3. \A r \in Shards : side[r].offset \in Int /\ file[r] \in Int /\ file'[r] \in Int /\ side[r].seq \in Int
        BY SMTT(30), <3>2, ProgressAssumption DEF Typed, PodsTyped, Side, Amounts
      <3>4. \A r \in Shards : SideOK(r)'
        BY <2>1, <3>2, <3>3 DEF Typed, PodsTyped, SideOK, EngineWrites
      <3> QED BY SMTT(30), <2>1, <3>2, <3>3, <3>4 DEF Typed, PodsTyped, SideKept, EngineWrites
    <2>2. CASE EngineExits(s)
      <3>1. \A r \in Shards : side[r].seq \in Int
        BY SMTT(30) DEF Typed, PodsTyped, Side, Amounts
      <3> QED BY <2>2, <3>1 DEF Typed, PodsTyped, SideOK, SideKept, EngineExits
    <2>3. CASE Drain(s)
      <3> DEFINE d == Drained(s)
      <3>1. side' = [side EXCEPT ![s] = d] /\ UNCHANGED <<file, exitFile, faults>>
        BY <2>3 DEF Drain
      <3>2. faults' \in 0 .. MaxFaults /\ faults' >= faults
        BY SMTT(30), <3>1, ProgressAssumption DEF Typed, PodsTyped
      <3>3. /\ d \in Side /\ d.stream = side[s].stream /\ d.seq >= side[s].seq /\ d.offset <= file[s]
            /\ d.seq = d.offset \div 2 /\ d.acked <= d.seq /\ d.attempt <= faults'
        BY <3>1, DrainedOK DEF Typed
      <3> HIDE DEF d
      <3> QED BY ZenonT(30), <3>1, <3>2, <3>3, SidecarMoves DEF Typed
    <2> QED BY <2>1, <2>2, <2>3
  <1>2. RequestsTyped'
    BY <1>1, RequestsKept DEF Typed, EngineWrites, EngineExits, Drain
  <1>3. StoreTyped'
    BY StoreKept DEF Typed, StoreTyped, EngineWrites, EngineExits, Drain
  <1> QED BY <1>1, <1>2, <1>3 DEF Typed

\* FlushTick, PollTick and Terminated are a Flush of what was read.
LEMMA FlushesTyped ==
    ASSUME Typed, NEW s \in Shards, FlushTick(s) \/ PollTick(s) \/ Terminated(s)
    PROVE  /\ Typed' /\ SideKept
           /\ Flush(s, side[s], FALSE) \/ Flush(s, Drained(s), TRUE)
  <1>1. faults \in 0 .. MaxFaults /\ side[s] \in Side /\ SideOK(s) /\ side[s].seq \in Int
    BY SMTT(30) DEF Typed, PodsTyped, Side, Amounts
  <1>2. faults' \in 0 .. MaxFaults /\ faults' >= faults
    <2>1. faults' = faults \/ (faults < MaxFaults /\ faults' = faults + 1)
      BY ZenonT(30) DEF FlushTick, PollTick, Terminated
    <2> QED BY <1>1, <2>1, ProgressAssumption
  <1>3. CASE FlushTick(s)
    <2>1. Flush(s, side[s], FALSE)
      BY ZenonT(30), <1>3 DEF FlushTick
    <2>2. side[s].seq >= side[s].seq
      BY <1>1
    <2>3. Typed' /\ SideKept
      BY <1>1, <1>2, <2>1, <2>2, FlushTyped DEF SideOK
    <2> QED BY ZenonT(30), <2>1, <2>3
  <1>4. CASE PollTick(s) \/ Terminated(s)
    <2> DEFINE d == Drained(s)
    <2>1. Flush(s, d, TRUE)
      BY ZenonT(30), <1>4 DEF PollTick, Terminated
    <2>2. /\ d \in Side /\ d.stream = side[s].stream /\ d.seq >= side[s].seq /\ d.offset <= file[s]
          /\ d.seq = d.offset \div 2 /\ d.acked <= d.seq /\ d.attempt <= faults
      BY DrainedOK DEF Typed
    <2> HIDE DEF d
    <2>3. Typed' /\ SideKept
      BY ZenonT(30), <1>2, <2>1, <2>2, FlushTyped
    <2> QED BY <2>1, <2>3 DEF d
  <1> QED BY ZenonT(30), <1>3, <1>4

LEMMA PushLostTyped ==
    ASSUME Typed, NEW s \in Shards, PushLost(s)
    PROVE  Typed' /\ SideKept
  <1> DEFINE st == IF side[s].state = "final" THEN "failed" ELSE "run"
             n == side[s].attempt + 1
             nc == [side[s] EXCEPT !.state = st, !.attempt = n]
  <1>1. side[s] \in Side /\ SideOK(s) /\ side[s].seq \in Int /\ faults \in 0 .. MaxFaults
    BY SMTT(30) DEF Typed, PodsTyped, Side, Amounts
  <1>2. faults' \in 0 .. MaxFaults /\ faults' >= faults /\ faults' = faults + 1
    BY <1>1, ProgressAssumption DEF PushLost
  <1>3. st \in States /\ n \in 0 .. MaxFaults /\ n <= faults'
    BY SMTT(30), <1>1, <1>2, ProgressAssumption DEF States, Side, SideOK
  <1>4. side' = [side EXCEPT ![s] = nc]
    BY ZenonT(30) DEF PushLost, Typed, PodsTyped, Side
  <1> HIDE DEF st, n
  <1>5. /\ nc \in Side /\ nc.stream = side[s].stream /\ nc.seq = side[s].seq /\ nc.offset = side[s].offset
        /\ nc.acked = side[s].acked /\ nc.attempt = n
    BY ZenonT(30), <1>1, <1>3 DEF Side
  <1> HIDE DEF nc
  <1>6. PodsTyped' /\ SideKept
    <2>1. /\ nc.stream = side[s].stream /\ nc.seq >= side[s].seq /\ nc.offset <= file[s]
          /\ nc.seq = nc.offset \div 2 /\ nc.acked <= nc.seq /\ nc.attempt <= faults'
      BY <1>1, <1>3, <1>5 DEF SideOK
    <2> QED BY ZenonT(30), <1>2, <1>4, <1>5, <2>1, SidecarMoves DEF Typed, PushLost
  <1>7. RequestsTyped'
    BY <1>6, RequestsKept DEF Typed, PushLost
  <1>8. StoreTyped'
    BY StoreKept DEF Typed, StoreTyped, PushLost
  <1> QED BY <1>6, <1>7, <1>8 DEF Typed

\* Some handlers become idle, and their locks are released.
LEMMA HandlersDropped ==
    ASSUME Typed, PodsTyped', NEW S \in SUBSET Handlers,
           h' = [x \in Handlers |-> IF x \in S THEN Idle ELSE h[x]],
           \A x \in Handlers \ S : \A b \in Batch : h[x].req = b => Fits(b)',
           net' \subseteq net, \A b \in net' : Fits(b)'
    PROVE  RequestsTyped'
  <1>1. ASSUME NEW x \in Handlers PROVE HandlerOK(x)'
    <2>1. CASE x \in S
      <3>1. h'[x] = Idle
        BY <2>1
      <3> QED BY <3>1 DEF HandlerOK, At, Idle, Snapped
    <2>2. CASE x \notin S
      <3>1. h'[x] = h[x] /\ (h[x].req # None => h[x].req \in Batch)
        BY <2>2 DEF Typed, RequestsTyped, Handler
      <3>2. h'[x].req # None => Fits(h[x].req)'
        BY <2>2, <3>1
      <3> QED BY <3>1, <3>2 DEF Typed, RequestsTyped, HandlerOK, At
    <2> QED BY <2>1, <2>2
  <1>2. h' \in [Handlers -> Handler]
    BY IdleTyped DEF Typed, RequestsTyped
  <1> QED BY <1>1, <1>2 DEF Typed, RequestsTyped

LEMMA PodReplacedTyped ==
    ASSUME Typed, NEW s \in Shards, PodReplaced(s)
    PROVE  Typed'
  <1> DEFINE mine == IF LateStreams THEN {} ELSE {x \in Handlers : h[x].req # None /\ h[x].req.shard = s}
  <1>1. /\ side' = [side EXCEPT ![s] = NewSidecar(side[s].stream + 1)]
        /\ h' = [x \in Handlers |-> IF x \in mine THEN Idle ELSE h[x]]
        /\ owner' = Released(mine) /\ net' \subseteq net
        /\ file' = [file EXCEPT ![s] = 0] /\ exitFile' \subseteq exitFile /\ faults' = faults + 1
        /\ side[s].stream < MaxStreams /\ faults < MaxFaults
    BY DEF PodReplaced
  <1>2. side[s].stream \in Streams /\ faults \in 0 .. MaxFaults
    BY DEF Typed, PodsTyped, Side
  <1>3. side[s].stream + 1 \in Streams /\ faults' \in 0 .. MaxFaults /\ faults' >= faults /\ faults \in Nat /\ faults' \in Nat
    BY SMTT(30), <1>1, <1>2, ProgressAssumption DEF Streams
  <1>4. NewSidecar(side[s].stream + 1) \in Side
    BY SMTT(30), <1>3, ProgressAssumption DEF NewSidecar, Side, Amounts, States
  <1>5. /\ side' \in [Shards -> Side] /\ side'[s] = NewSidecar(side[s].stream + 1)
        /\ file' \in [Shards -> 0 .. 2 * Len(Lines)] /\ file'[s] = 0
        /\ \A r \in Shards : r # s => side'[r] = side[r] /\ file'[r] = file[r]
    BY SMTT(30), <1>1, <1>4, ProgressAssumption DEF Typed, PodsTyped
  <1>6. SideOK(s)'
    BY <1>3, <1>5 DEF SideOK, NewSidecar
  <1>7. ASSUME NEW r \in Shards, r # s PROVE SideOK(r)'
    <2>1. side[r].attempt \in Int
      BY DEF Typed, PodsTyped, Side
    <2> QED BY SMTT(30), <1>3, <1>5, <1>7, <2>1 DEF Typed, PodsTyped, SideOK
  <1>8. PodsTyped'
    BY <1>1, <1>3, <1>5, <1>6, <1>7 DEF Typed, PodsTyped
  <1>9. ASSUME NEW b \in Batch, Fits(b) PROVE Fits(b)'
    <2>1. b.shard \in Shards /\ b.stream \in Nat
      BY BatchTyped
    <2>2. CASE b.shard = s
      BY SMTT(30), <1>2, <1>5, <1>9, <2>1, <2>2, ProgressAssumption DEF Fits, NewSidecar, Streams
    <2>3. CASE b.shard # s
      BY <1>5, <1>9, <2>1, <2>3 DEF Fits
    <2> QED BY <2>2, <2>3
  <1>10. RequestsTyped'
    <2>1. \A x \in Handlers : \A b \in Batch : h[x].req = b => Fits(b)
      BY ProgressAssumption DEF Typed, RequestsTyped, HandlerOK
    <2>2. \A b \in net' : Fits(b)'
      BY <1>1, <1>9 DEF Typed, RequestsTyped
    <2>3. \A x \in Handlers : \A b \in Batch : h[x].req = b => Fits(b)'
      BY <2>1, <1>9
    <2>4. mine \in SUBSET Handlers
      OBVIOUS
    <2> HIDE DEF mine
    <2> QED BY ZenonT(30), <1>1, <1>8, <2>2, <2>3, <2>4, HandlersDropped
  <1>11. StoreTyped'
    <2> HIDE DEF mine
    <2> QED BY SMTT(30), <1>1, ReleasedTyped DEF PodReplaced, Typed, StoreTyped, tables
  <1> QED BY <1>8, <1>10, <1>11 DEF Typed
LEMMA PodsSame ==
    ASSUME PodsTyped, UNCHANGED <<pods, faults>>
    PROVE  PodsTyped' /\ SideKept
  <1>1. \A s \in Shards : side[s].seq \in Int
    BY SMTT(30) DEF PodsTyped, Side, Amounts
  <1> QED BY <1>1 DEF PodsTyped, SideOK, SideKept, pods

\* A handler that keeps its request and goes to another label.
LEMMA HandlerGoes ==
    ASSUME Typed, PodsTyped', SideKept, net' = net, NEW x \in Handlers, ~At(x, "idle"),
           NEW l \in Handler, h' = [h EXCEPT ![x] = l], l.req = h[x].req, l.pc # "idle",
           l.pc \in Snapped => l.snap \in Snap,
           l.pc = "discard" => l.deleted < 4,
           l.pc \notin {"discard", "close"} => l.deleted = 0
    PROVE  RequestsTyped'
  <1>1. h'[x] = l
    BY DEF Typed, RequestsTyped
  <1>2. h[x].req \in Batch /\ Fits(h[x].req) /\ h[x].req # None
    BY DEF Typed, RequestsTyped, HandlerOK, Handler
  <1>3. ASSUME NEW b \in Batch, b = h[x].req PROVE Fits(b)'
    BY <1>2, <1>3, FitsKept DEF Typed
  <1>4. HandlerOK(x)'
    BY <1>1, <1>2, <1>3 DEF HandlerOK, At
  <1> QED BY ZenonT(30), <1>4, HandlerMoves DEF Typed

LEMMA IngestTyped ==
    ASSUME Typed, NEW x \in Handlers, NEW b \in net, At(x, "idle"), net' = net \ {b},
           \/ ~open /\ side' = Answered(b, FALSE) /\ UNCHANGED <<h, tally>>
           \/ open /\ Become(x, [Idle EXCEPT !.pc = "lock", !.req = b]) /\ Record(b) /\ UNCHANGED side,
           UNCHANGED <<file, exitFile, owner, tables, open, report, finals, faults>>
    PROVE  Typed' /\ SideKept
  <1>1. b \in Batch /\ Fits(b) /\ faults \in 0 .. MaxFaults
    BY DEF Typed, RequestsTyped, PodsTyped
  <1>2. tally' \subseteq Ids
    BY ZenonT(30), <1>1, CarriedFacts DEF Typed, StoreTyped, Record
  <1>3. StoreTyped'
    BY <1>2, StoreKept DEF Typed
  <1>4. CASE side' = Answered(b, FALSE) /\ h' = h
    <2>1. faults' \in 0 .. MaxFaults /\ faults' >= faults
      BY <1>1, ProgressAssumption
    <2>2. PodsTyped' /\ SideKept
      BY ZenonT(30), <1>1, <1>4, <2>1, AnswerTyped DEF Typed
    <2> QED BY <1>3, <1>4, <2>2, RequestsKept DEF Typed
  <1>5. CASE Become(x, [Idle EXCEPT !.pc = "lock", !.req = b]) /\ UNCHANGED side
    <2> DEFINE l == [Idle EXCEPT !.pc = "lock", !.req = b]
    <2>1. PodsTyped' /\ SideKept
      BY <1>5, PodsSame DEF Typed, pods
    <2>2. l \in Handler /\ l.pc = "lock" /\ l.req = b /\ l.deleted = 0
      BY ZenonT(30), <1>1, IdleTyped DEF Handler, Pcs, Idle
    <2>3. h' = [h EXCEPT ![x] = l]
      BY <1>5 DEF Become
    <2> HIDE DEF l
    <2>4. h'[x] = l
      BY <2>3 DEF Typed, RequestsTyped
    <2>5. Fits(b)'
      BY <1>1, <2>1, FitsKept DEF Typed
    <2>6. HandlerOK(x)'
      BY <1>1, <2>2, <2>4, <2>5, ProgressAssumption DEF HandlerOK, At, Snapped
    <2>7. RequestsTyped'
      BY ZenonT(30), <2>1, <2>2, <2>3, <2>6, HandlerMoves DEF Typed
    <2> QED BY <1>3, <2>1, <2>7 DEF Typed
  <1> QED BY ZenonT(30), <1>4, <1>5

LEMMA LockShardTyped ==
    ASSUME Typed, NEW x \in Handlers, LockShard(x)
    PROVE  Typed'
  <1> DEFINE b == h[x].req
             fresh == {i \in Carried(b) : i[3] > Watermark(b)}
             todo == MergeProgress(fresh) \cup MergeSeriesSeconds(fresh)
             l == [h[x] EXCEPT !.pc = "rows", !.fresh = fresh, !.todo = todo]
  <1>1. h[x] \in Handler /\ At(x, "lock") /\ b \in Batch /\ h[x].deleted = 0
    BY DEF LockShard, Typed, RequestsTyped, HandlerOK, Handler, At
  <1>2. fresh \in SUBSET Ids
    BY <1>1, CarriedFacts
  <1>3. todo \in SUBSET DataKeys
    BY <1>2, TodoFacts
  <1>4. h' = [h EXCEPT ![x] = l] /\ UNCHANGED <<pods, net, tables, tally, open, report, finals, faults>>
        /\ owner' = [owner EXCEPT ![<<"shard", b.shard>>] = x]
    BY DEF LockShard, Become
  <1>5. PodsTyped' /\ SideKept
    BY <1>4, PodsSame DEF Typed
  <1> HIDE DEF fresh, todo
  <1>6. l \in Handler /\ l.pc = "rows" /\ l.req = h[x].req /\ l.deleted = 0
    BY ZenonT(30), <1>1, <1>2, <1>3 DEF Handler, Pcs
  <1>7. RequestsTyped'
    <2> HIDE DEF l
    <2> QED BY ZenonT(30), <1>1, <1>4, <1>5, <1>6, HandlerGoes DEF At, Snapped
  <1>8. StoreTyped'
    BY ZenonT(30), <1>4 DEF Typed, StoreTyped, tables
  <1> QED BY <1>5, <1>7, <1>8 DEF Typed

LEMMA ReadMore ==
    ASSUME NEW r \in Reads, NEW S \in SUBSET (Tables \X Ids), json \in [Tables -> [Ids -> Nat]]
    PROVE  LET n == [c \in DOMAIN r \cup S |-> IF c \in DOMAIN r THEN r[c] ELSE json[c[1]][c[2]]]
           IN  n \in Reads /\ DOMAIN n = DOMAIN r \cup S
  <1> DEFINE D == DOMAIN r \cup S
             n == [c \in D |-> IF c \in DOMAIN r THEN r[c] ELSE json[c[1]][c[2]]]
  <1>1. PICK E \in SUBSET (Tables \X Ids) : r \in [E -> Nat]
    BY DEF Reads
  <1>2. D \in SUBSET (Tables \X Ids)
    BY <1>1
  <1>3. \A c \in Tables \X Ids : json[c[1]][c[2]] \in Nat
    OBVIOUS
  <1>4. ASSUME NEW c \in D PROVE (IF c \in DOMAIN r THEN r[c] ELSE json[c[1]][c[2]]) \in Nat
    <2>1. CASE c \in DOMAIN r
      BY <1>1, <2>1
    <2>2. CASE c \notin DOMAIN r
      BY <1>2, <1>3, <2>2
    <2> QED BY <2>1, <2>2
  <1>5. n \in [D -> Nat]
    BY <1>4
  <1>6. DOMAIN n = D
    OBVIOUS
  <1> HIDE DEF D, n
  <1>7. n \in Reads
    BY <1>2, <1>5 DEF Reads
  <1> QED BY <1>6, <1>7 DEF n, D
LEMMA LockRowTyped ==
    ASSUME Typed, NEW x \in Handlers, LockRow(x)
    PROVE  Typed'
  <1>1. PICK k \in NextRow(h[x].todo) :
          /\ At(x, "rows") /\ owner[k] = None /\ owner' = [owner EXCEPT ![k] = x]
          /\ Become(x, [h[x] EXCEPT
                !.todo = @ \ {k},
                !.read = [c \in DOMAIN @ \cup InRow(k) |->
                             IF c \in DOMAIN @ THEN @[c] ELSE json[c[1]][c[2]]]])
          /\ UNCHANGED <<pods, net, tables, tally, open, report, finals, faults>>
    BY ZenonT(30) DEF LockRow
  <1>2. h[x] \in Handler /\ h[x].deleted = 0 /\ k \in DataKeys
    BY <1>1 DEF Typed, RequestsTyped, HandlerOK, Handler, At, NextRow
  <1> DEFINE todo == h[x].todo \ {k}
             read == [c \in DOMAIN h[x].read \cup InRow(k) |->
                        IF c \in DOMAIN h[x].read THEN h[x].read[c] ELSE json[c[1]][c[2]]]
             l == [h[x] EXCEPT !.todo = todo, !.read = read]
  <1>3. h' = [h EXCEPT ![x] = l]
    BY <1>1, <1>2 DEF Become, Handler
  <1>4. InRow(k) \in SUBSET (Tables \X Ids)
    BY SMTT(30), <1>2, KeyFacts DEF InRow, Touched
  <1>5. read \in Reads
    BY ZenonT(30), <1>2, <1>4, ReadMore DEF Handler, Typed, StoreTyped
  <1>6. todo \in SUBSET DataKeys
    BY <1>2 DEF Handler
  <1> HIDE DEF todo, read
  <1>7. l \in Handler /\ l.pc = h[x].pc /\ l.req = h[x].req /\ l.deleted = 0
    BY ZenonT(30), <1>2, <1>5, <1>6 DEF Handler
  <1> HIDE DEF l
  <1>8. PodsTyped' /\ SideKept
    BY <1>1, PodsSame DEF Typed
  <1>9. RequestsTyped'
    BY ZenonT(30), <1>1, <1>3, <1>7, <1>8, HandlerGoes DEF At, Snapped
  <1>10. StoreTyped'
    BY <1>1, <1>2, KeyFacts DEF Typed, StoreTyped, tables
  <1> QED BY <1>8, <1>9, <1>10 DEF Typed

\* The tables after a commit.
LEMMA AbsorbTables ==
    ASSUME Typed, NEW x \in Handlers, Absorb(x)
    PROVE  /\ add' \in [Tables -> [Ids -> Nat]] /\ json' \in [Tables -> [Ids -> Nat]]
           /\ \A t \in Tables, i \in Ids :
                 /\ add'[t][i] = add[t][i] + (IF i \in h[x].fresh /\ HasRow(t, i) THEN 1 ELSE 0)
                 /\ json'[t][i] = IF <<t, i>> \in DOMAIN h[x].read
                       THEN h[x].read[<<t, i>>] +
                              (IF i \in h[x].fresh /\ Line(i).label # TotalLabel THEN 1 ELSE 0)
                       ELSE json[t][i]
  <1>1. add' = [t \in Tables |-> Counted(add[t], Touched(t, h[x].fresh))]
    BY ZenonT(30) DEF Absorb
  <1>2. json' = [t \in Tables |-> MergedJson(x, t)]
    BY ZenonT(30) DEF Absorb
  <1>3. ASSUME NEW t \in Tables, NEW i \in Ids
        PROVE  /\ add'[t][i] = add[t][i] + (IF i \in h[x].fresh /\ HasRow(t, i) THEN 1 ELSE 0)
               /\ add[t][i] \in Nat /\ json[t][i] \in Nat
    BY <1>1 DEF Counted, Touched, Typed, StoreTyped
  <1>4. ASSUME NEW t \in Tables, NEW i \in Ids
        PROVE  json'[t][i] = IF <<t, i>> \in DOMAIN h[x].read
                       THEN h[x].read[<<t, i>>] +
                              (IF i \in h[x].fresh /\ Line(i).label # TotalLabel THEN 1 ELSE 0)
                       ELSE json[t][i]
    BY ZenonT(30), <1>2 DEF MergedJson
  <1>5. add' \in [Tables -> [Ids -> Nat]]
    BY SMTT(30), <1>1, <1>3 DEF Counted
  <1>a. h[x].read \in Reads
    BY DEF Typed, RequestsTyped, Handler
  <1>6. PICK E \in SUBSET (Tables \X Ids) : h[x].read \in [E -> Nat]
    BY <1>a DEF Reads
  <1>7. ASSUME NEW t \in Tables, NEW i \in Ids PROVE json'[t][i] \in Nat
    <2>1. CASE <<t, i>> \in DOMAIN h[x].read
      <3>1. h[x].read[<<t, i>>] \in Nat
        BY <1>6, <2>1
      <3> QED BY SMTT(30), <2>1, <3>1, <1>4
    <2>2. CASE <<t, i>> \notin DOMAIN h[x].read
      BY <2>2, <1>3, <1>4
    <2> QED BY <2>1, <2>2
  <1>8. json' \in [Tables -> [Ids -> Nat]]
    BY <1>2, <1>7 DEF MergedJson
  <1> QED BY <1>3, <1>4, <1>5, <1>8

LEMMA GotoTyped ==
    ASSUME Typed, PodsTyped', SideKept, net' = net, NEW x \in Handlers, ~At(x, "idle"),
           h[x].deleted = 0, NEW label \in {"finished", "labels"}, Goto(x, label)
    PROVE  RequestsTyped'
  <1> DEFINE l == [h[x] EXCEPT !.pc = label]
  <1>1. h' = [h EXCEPT ![x] = l] /\ h[x] \in Handler
    BY DEF Goto, Become, Typed, RequestsTyped
  <1>2. l \in Handler /\ l.pc = label /\ l.req = h[x].req /\ l.deleted = 0
    BY <1>1 DEF Handler, Pcs
  <1> HIDE DEF l
  <1> QED BY ZenonT(30), <1>1, <1>2, HandlerGoes DEF Snapped

LEMMA AbsorbTyped ==
    ASSUME Typed, NEW x \in Handlers, Absorb(x)
    PROVE  Typed' /\ SideKept
  <1> DEFINE b == h[x].req
             old == shardRow[b.shard]
             seq == IF h[x].fresh = {} THEN Watermark(b) ELSE b.hi
             new == [stream |-> b.stream, seq |-> seq,
                     finished |-> b.final \/ (old # None /\ old.finished),
                     code |-> b.code \/ (old # None /\ old.code)]
  <1>1. /\ At(x, "rows") /\ ~At(x, "idle") /\ b \in Batch /\ Fits(b) /\ h[x].deleted = 0
        /\ faults \in 0 .. MaxFaults /\ UNCHANGED <<net, tally, open, report, faults>>
    BY DEF Absorb, Typed, RequestsTyped, HandlerOK, Handler, At, PodsTyped
  <1>2. /\ b.shard \in Shards /\ b.stream \in Streams /\ b.hi \in Seqs \cup {0} /\ b.final \in BOOLEAN
        /\ b.code \in BOOLEAN /\ b.hi \in Amounts
    BY <1>1, BatchTyped DEF Batch
  <1>3. faults' \in 0 .. MaxFaults /\ faults' >= faults
    BY SMTT(30), <1>1, ProgressAssumption
  <1>4. PodsTyped' /\ SideKept /\ RequestsTyped'
    <2>1. CASE b.final
      <3>1. Goto(x, "finished") /\ UNCHANGED pods
        BY ZenonT(30), <2>1 DEF Absorb
      <3>2. PodsTyped' /\ SideKept
        BY <1>1, <3>1, PodsSame DEF Typed
      <3> QED BY <1>1, <3>1, <3>2, GotoTyped
    <2>2. CASE ~b.final
      <3>1. Respond(x, TRUE)
        BY <2>2 DEF Absorb
      <3> QED BY ZenonT(30), <1>1, <1>3, <3>1, RespondTyped
    <2> QED BY <2>1, <2>2
  <1>5. shardRow' = [shardRow EXCEPT ![b.shard] = new]
    BY ZenonT(30) DEF Absorb
  <1>6. old \in Store!ShardStream \cup {None}
    BY <1>2 DEF Typed, StoreTyped
  <1>7. seq \in Seqs \cup {0}
    BY <1>2, <1>6 DEF Watermark, Store!ShardStream
  <1>8. old # None => old.finished \in BOOLEAN /\ old.code \in BOOLEAN
    BY <1>6 DEF Store!ShardStream
  <1>9. new \in Store!ShardStream
    <2> HIDE DEF seq, old
    <2>1. (b.final \/ (old # None /\ old.finished)) \in BOOLEAN /\ (b.code \/ (old # None /\ old.code)) \in BOOLEAN
      OBVIOUS
    <2> QED BY <1>2, <1>7, <2>1 DEF Store!ShardStream
  <1> HIDE DEF new
  <1>10. shardRow' \in [Shards -> Store!ShardStream \cup {None}]
    BY <1>2, <1>5, <1>9 DEF Typed, StoreTyped
  <1>11. finals' \subseteq Shards \X Streams \X Amounts
    <2>1. file[b.shard] \div 2 \in Amounts
      <3>1. file[b.shard] \in Nat /\ file[b.shard] <= 2 * Len(Lines)
        BY <1>2, ProgressAssumption DEF Typed, PodsTyped
      <3> QED BY SMTT(30), <3>1, HalfFacts, ProgressAssumption DEF Amounts
    <2> DEFINE n == IF b.code THEN file[b.shard] \div 2 ELSE b.hi
    <2>2. n \in Amounts
      BY <1>2, <2>1
    <2>3. finals' \subseteq finals \cup {<<b.shard, b.stream, n>>}
      BY ZenonT(30) DEF Absorb
    <2> HIDE DEF n
    <2> QED BY SMTT(30), <1>2, <2>2, <2>3 DEF Typed, StoreTyped
  <1>12. owner' = Released({x})
    BY ZenonT(30) DEF Absorb
  <1>13. StoreTyped'
    BY ZenonT(30), <1>1, <1>10, <1>11, <1>12, AbsorbTables, ReleasedTyped DEF Typed, StoreTyped
  <1> QED BY <1>4, <1>13 DEF Typed
LEMMA FinishedTyped ==
    ASSUME Typed, NEW x \in Handlers, AllShardsFinished(x)
    PROVE  Typed' /\ SideKept
  <1>1. /\ ~At(x, "idle") /\ h[x].deleted = 0 /\ faults \in 0 .. MaxFaults
        /\ UNCHANGED <<net, owner, tables, tally, open, report, finals, faults>>
        /\ (Goto(x, "labels") /\ UNCHANGED pods) \/ Respond(x, TRUE)
    BY ZenonT(30) DEF AllShardsFinished, Typed, RequestsTyped, HandlerOK, At, PodsTyped
  <1>2. faults' \in 0 .. MaxFaults /\ faults' >= faults
    BY SMTT(30), <1>1, ProgressAssumption
  <1>3. PodsTyped' /\ SideKept /\ RequestsTyped'
    <2>1. CASE Goto(x, "labels") /\ UNCHANGED pods
      <3>1. PodsTyped' /\ SideKept
        BY <1>1, <2>1, PodsSame DEF Typed
      <3> QED BY <1>1, <2>1, <3>1, GotoTyped
    <2>2. CASE Respond(x, TRUE)
      BY <1>1, <1>2, <2>2, RespondTyped
    <2> QED BY ZenonT(30), <1>1, <2>1, <2>2
  <1>4. StoreTyped'
    BY ZenonT(30), <1>1, StoreKept DEF Typed, StoreTyped
  <1> QED BY <1>3, <1>4 DEF Typed

LEMMA SnapshotTyped ==
    ASSUME Typed, NEW x \in Handlers, Snapshot(x)
    PROVE  Typed'
  <1>1. /\ h[x] \in Handler /\ ~At(x, "idle") /\ h[x].deleted = 0
        /\ UNCHANGED <<pods, net, owner, tables, tally, open, report, finals, faults>>
    BY DEF Snapshot, Typed, RequestsTyped, HandlerOK, At
  <1>2. PodsTyped' /\ SideKept /\ StoreTyped'
    BY <1>1, PodsSame, StoreKept DEF Typed, StoreTyped
  <1>3. /\ add["label"] \in [Ids -> Nat] /\ json["label"] \in [Ids -> Nat] /\ add["second"] \in [Ids -> Nat]
        /\ add["signature"] \in [Ids -> Nat] /\ finals \in SUBSET (Shards \X Streams \X Amounts)
        /\ Nothing \in [Ids -> Nat]
    BY DEF Typed, StoreTyped, Tables, Nothing
  <1>4. CASE At(x, "labels")
    <2> DEFINE sn == [label |-> add["label"], latency |-> json["label"], finals |-> finals,
                      second |-> Nothing, signature |-> Nothing, clusters |-> {}]
               l == [h[x] EXCEPT !.pc = "seconds", !.snap = sn]
    <2>1. h' = [h EXCEPT ![x] = l]
      BY <1>4 DEF Snapshot, Become, At
    <2>2. sn \in Snap
      BY <1>3 DEF Snap
    <2> HIDE DEF sn
    <2>3. l \in Handler /\ l.pc = "seconds" /\ l.snap = sn /\ l.req = h[x].req /\ l.deleted = 0
      BY ZenonT(30), <1>1, <2>2 DEF Handler, Pcs
    <2> HIDE DEF l
    <2> QED BY ZenonT(30), <1>1, <1>2, <2>1, <2>2, <2>3, HandlerGoes DEF Typed
  <1>5. CASE At(x, "seconds")
    <2> DEFINE sn == [h[x].snap EXCEPT !.second = add["second"]]
               l == [h[x] EXCEPT !.pc = "signatures", !.snap = sn]
    <2>1. h' = [h EXCEPT ![x] = l]
      BY <1>1, <1>5 DEF Snapshot, Become, At, Handler
    <2>2. h[x].snap \in Snap
      BY <1>5 DEF Typed, RequestsTyped, HandlerOK, At, Snapped
    <2>3. sn \in Snap
      BY <1>3, <2>2 DEF Snap
    <2> HIDE DEF sn
    <2>4. l \in Handler /\ l.pc = "signatures" /\ l.snap = sn /\ l.req = h[x].req /\ l.deleted = 0
      BY ZenonT(30), <1>1, <2>3 DEF Handler, Pcs
    <2> HIDE DEF l
    <2> QED BY ZenonT(30), <1>1, <1>2, <2>1, <2>3, <2>4, HandlerGoes DEF Typed
  <1>6. CASE At(x, "signatures")
    <2> DEFINE sn == [h[x].snap EXCEPT !.signature = add["signature"]]
               l == [h[x] EXCEPT !.pc = "save", !.snap = sn]
    <2>1. h' = [h EXCEPT ![x] = l]
      BY <1>1, <1>6 DEF Snapshot, Become, At, Handler
    <2>2. h[x].snap \in Snap
      BY <1>6 DEF Typed, RequestsTyped, HandlerOK, At, Snapped
    <2>3. sn \in Snap
      BY <1>3, <2>2 DEF Snap
    <2> HIDE DEF sn
    <2>4. l \in Handler /\ l.pc = "save" /\ l.snap = sn /\ l.req = h[x].req /\ l.deleted = 0
      BY ZenonT(30), <1>1, <2>3 DEF Handler, Pcs
    <2> HIDE DEF l
    <2> QED BY ZenonT(30), <1>1, <1>2, <2>1, <2>3, <2>4, HandlerGoes DEF Typed
  <1> QED BY <1>4, <1>5, <1>6 DEF Snapshot

LEMMA SaveReportTyped ==
    ASSUME Typed, NEW x \in Handlers, SaveReport(x)
    PROVE  Typed'
  <1> DEFINE l == [h[x] EXCEPT !.pc = "discard", !.snap = None]
  <1>1. /\ h[x] \in Handler /\ ~At(x, "idle") /\ h[x].deleted = 0 /\ h[x].snap \in Snap
        /\ UNCHANGED <<pods, net, owner, tables, tally, open, finals, faults>>
        /\ h' = [h EXCEPT ![x] = l]
    BY DEF SaveReport, Typed, RequestsTyped, HandlerOK, At, Become, Snapped
  <1>2. l \in Handler /\ l.pc = "discard" /\ l.req = h[x].req /\ l.deleted = 0
    BY ZenonT(30), <1>1 DEF Handler, Pcs
  <1>3. PodsTyped' /\ SideKept
    BY <1>1, PodsSame DEF Typed
  <1> HIDE DEF l
  <1>a. net' = net /\ l.pc # "idle" /\ l.pc \notin Snapped /\ l.deleted < 4
    BY <1>1, <1>2 DEF Snapped
  <1>4. RequestsTyped'
    BY ZenonT(30), <1>1, <1>2, <1>3, <1>a, HandlerGoes
  <1>5. report' \in Snap \cup {None}
    <2>1. tally \in SUBSET Ids /\ report \in Snap \cup {None}
      BY DEF Typed, StoreTyped
    <2>2. [h[x].snap EXCEPT !.clusters = tally] \in Snap
      BY <1>1, <2>1 DEF Snap
    <2> QED BY <2>1, <2>2 DEF SaveReport
  <1>6. StoreTyped'
    BY <1>1, <1>5 DEF Typed, StoreTyped, tables
  <1> QED BY <1>3, <1>4, <1>6 DEF Typed

\* The table a Discard empties.
LEMMA DiscardFacts ==
    ASSUME Typed, NEW x \in Handlers, At(x, "discard")
    PROVE  /\ h[x].deleted \in 0 .. 3
           /\ DiscardOrder[h[x].deleted + 1] \in {"label", "second", "signature", "shard"}
           /\ DiscardOrder[h[x].deleted + 1] = "shard" <=> h[x].deleted = 3
  <1>1. h[x].deleted \in 0 .. 4 /\ h[x].deleted < 4
    BY DEF Typed, RequestsTyped, HandlerOK, Handler
  <1>2. h[x].deleted = 0 \/ h[x].deleted = 1 \/ h[x].deleted = 2 \/ h[x].deleted = 3
    BY <1>1
  <1> QED BY <1>2 DEF DiscardOrder

LEMMA DiscardTyped ==
    ASSUME Typed, NEW x \in Handlers, Discard(x)
    PROVE  Typed'
  <1> DEFINE t == DiscardOrder[h[x].deleted + 1]
             n == h[x].deleted + 1
             pc == IF t = "shard" THEN "close" ELSE "discard"
             l == [h[x] EXCEPT !.deleted = n, !.pc = pc]
  <1>1. /\ h[x] \in Handler /\ At(x, "discard") /\ ~At(x, "idle")
        /\ UNCHANGED <<pods, net, owner, tally, open, report, finals, faults>>
    BY DEF Discard, Typed, RequestsTyped, At
  <1>2. h' = [h EXCEPT ![x] = l]
    BY <1>1 DEF Discard, Become, At, Handler
  <1>3. n \in 0 .. 4 /\ (pc = "discard" => n < 4) /\ pc \in {"discard", "close"}
        /\ t \in {"label", "second", "signature", "shard"}
    BY <1>1, DiscardFacts
  <1>4. StoreTyped'
    <2> HIDE DEF t
    <2>1. Nothing \in [Ids -> Nat]
      BY DEF Nothing
    <2>2. CASE t = "shard"
      BY <1>1, <2>2 DEF Discard, Typed, StoreTyped, t
    <2>3. CASE t # "shard"
      <3>1. /\ add' = [add EXCEPT ![t] = Nothing] /\ json' = [json EXCEPT ![t] = Nothing] /\ shardRow' = shardRow
        BY <2>3 DEF Discard, t
      <3> QED BY <1>1, <1>3, <2>1, <2>3, <3>1 DEF Typed, StoreTyped, Tables
    <2> QED BY <2>2, <2>3
  <1> HIDE DEF n, pc, t
  <1>5. l \in Handler /\ l.pc = pc /\ l.req = h[x].req /\ l.deleted = n
    BY ZenonT(30), <1>1, <1>3 DEF Handler, Pcs
  <1> HIDE DEF l
  <1>6. PodsTyped' /\ SideKept
    BY <1>1, PodsSame DEF Typed
  <1>7. RequestsTyped'
    BY ZenonT(30), <1>1, <1>2, <1>3, <1>5, <1>6, HandlerGoes DEF Snapped
  <1> QED BY <1>4, <1>6, <1>7 DEF Typed

LEMMA EndsTyped ==
    ASSUME Typed, NEW x \in Handlers, CloseRun(x) \/ StatementFails(x)
    PROVE  Typed' /\ SideKept
  <1>1. /\ ~At(x, "idle") /\ net' = net /\ faults \in 0 .. MaxFaults
        /\ faults' = faults \/ (faults < MaxFaults /\ faults' = faults + 1)
        /\ Respond(x, TRUE) \/ Respond(x, FALSE)
    BY ZenonT(30) DEF CloseRun, StatementFails, At, Typed, PodsTyped
  <1>2. faults' \in 0 .. MaxFaults /\ faults' >= faults
    BY <1>1, ProgressAssumption
  <1>3. PodsTyped' /\ RequestsTyped' /\ SideKept
    BY ZenonT(30), <1>1, <1>2, RespondTyped
  <1>4. StoreTyped'
    <2>1. CASE CloseRun(x)
      BY ZenonT(30), <2>1 DEF Typed, StoreTyped, CloseRun, tables
    <2>2. CASE StatementFails(x)
      <3>1. owner' \in [RowKeys -> Handlers \cup {None}]
        BY <2>2, ReleasedTyped DEF Typed, StoreTyped, StatementFails
      <3> QED BY ZenonT(30), <2>2, <3>1 DEF Typed, StoreTyped, StatementFails, tables
    <2> QED BY <2>1, <2>2
  <1> QED BY <1>3, <1>4 DEF Typed

LEMMA RestartTyped ==
    ASSUME Typed, ControlPlaneRestarts
    PROVE  Typed' /\ SideKept /\ \A s \in Shards : side'[s].acked = side[s].acked
  <1> DEFINE broken == {s \in Shards : \E x \in Handlers :
                          h[x].req # None /\ h[x].req.shard = s /\ Awaited(h[x].req)}
             st(s) == IF side[s].state = "final" THEN "failed" ELSE "run"
             nc(s) == IF s \in broken THEN [side[s] EXCEPT !.state = st(s)] ELSE side[s]
  <1>1. /\ side' = [s \in Shards |-> nc(s)] /\ UNCHANGED <<file, exitFile, net, tables, open, report, finals>>
        /\ h' = [x \in Handlers |-> Idle] /\ owner' = Released(Handlers) /\ tally' = {}
        /\ faults < MaxFaults /\ faults' = faults + 1
    BY DEF ControlPlaneRestarts
  <1> HIDE DEF broken
  <1>2. ASSUME NEW s \in Shards
        PROVE  /\ nc(s) \in Side /\ nc(s).stream = side[s].stream /\ nc(s).seq = side[s].seq
               /\ nc(s).offset = side[s].offset /\ nc(s).acked = side[s].acked /\ nc(s).attempt = side[s].attempt
    <2>1. side[s] \in Side
      BY DEF Typed, PodsTyped
    <2>2. st(s) \in States
      BY DEF States
    <2> HIDE DEF st
    <2> QED BY <2>1, <2>2 DEF Side
  <1> HIDE DEF nc
  <1>3. side' \in [Shards -> Side] /\ \A s \in Shards : side'[s] = nc(s)
    BY <1>1, <1>2
  <1>4. faults \in Nat /\ faults' \in 0 .. MaxFaults /\ faults' \in Nat
    BY SMTT(30), <1>1, ProgressAssumption DEF Typed, PodsTyped
  <1>5. ASSUME NEW s \in Shards PROVE SideOK(s)' /\ side'[s].seq >= side[s].seq
    <2>1. side[s].attempt \in Int /\ side[s].seq \in Int /\ SideOK(s)
      BY DEF Typed, PodsTyped, Side, Amounts
    <2> QED BY SMTT(30), <1>1, <1>2, <1>3, <1>4, <2>1 DEF SideOK
  <1>6. PodsTyped' /\ SideKept
    BY <1>1, <1>2, <1>3, <1>4, <1>5 DEF Typed, PodsTyped, SideKept
  <1>7. \A b \in net' : Fits(b)'
    BY <1>1, <1>6, FitsKept DEF Typed, RequestsTyped
  <1>8. RequestsTyped'
    <2>1. h' = [x \in Handlers |-> IF x \in Handlers THEN Idle ELSE h[x]]
      BY <1>1
    <2> QED BY <1>1, <1>6, <1>7, <2>1, HandlersDropped
  <1>9. StoreTyped'
    BY <1>1, ReleasedTyped DEF Typed, StoreTyped, tables
  <1> QED BY <1>2, <1>3, <1>6, <1>8, <1>9 DEF Typed

LEMMA IngestFacts ==
    ASSUME Typed, NEW x \in Handlers, Ingest(x)
    PROVE  Typed' /\ SideKept
  <1>1. PICK b \in net :
          /\ At(x, "idle") /\ net' = net \ {b}
          /\ \/ ~open /\ side' = Answered(b, FALSE) /\ UNCHANGED <<h, tally>>
             \/ open /\ Become(x, [Idle EXCEPT !.pc = "lock", !.req = b]) /\ Record(b) /\ UNCHANGED side
          /\ UNCHANGED <<file, exitFile, owner, tables, open, report, finals, faults>>
    BY DEF Ingest
  <1> QED BY ZenonT(30), <1>1, IngestTyped

LEMMA TypedStep ==
    ASSUME Typed, [Next]_vars
    PROVE  Typed'
  <1>1. ASSUME NEW s \in Shards,
               EngineWrites(s) \/ EngineExits(s) \/ Sidecar(s) \/ Terminated(s) \/ PushLost(s) \/ PodReplaced(s)
        PROVE  Typed'
    BY ZenonT(30), <1>1, EngineTyped, FlushesTyped, PushLostTyped, PodReplacedTyped DEF Sidecar
  <1>2. ASSUME NEW x \in Handlers, Serve(x) \/ StatementFails(x)
        PROVE  Typed'
    BY <1>2, IngestFacts, LockShardTyped, LockRowTyped, AbsorbTyped, FinishedTyped, SnapshotTyped,
       SaveReportTyped, DiscardTyped, EndsTyped DEF Serve
  <1>3. CASE ControlPlaneRestarts
    BY <1>3, RestartTyped
  <1>4. CASE UNCHANGED vars
    <2>1. PodsTyped' /\ SideKept
      BY <1>4, PodsSame DEF Typed, vars
    <2> QED BY <1>4, <2>1, RequestsKept, StoreKept DEF Typed, StoreTyped, vars
  <1> QED BY <1>1, <1>2, <1>3, <1>4 DEF Next

LEMMA TypedMeansTypeOK ==
    ASSUME Typed
    PROVE  TypeOK
  <1>1. ASSUME NEW s \in Shards
        PROVE  /\ side[s].stream \in Streams
               /\ side[s].acked <= side[s].seq /\ 2 * side[s].seq <= side[s].offset
               /\ side[s].state \in {"run", "push", "final", "done", "failed"}
    <2>1. side[s].offset \in Nat /\ side[s].seq = side[s].offset \div 2 /\ side[s] \in Side /\ SideOK(s)
      BY ProgressAssumption DEF Typed, PodsTyped, SideOK, Side
    <2> QED BY SMTT(30), <2>1, HalfFacts DEF Side, SideOK, States
  <1> QED BY <1>1 DEF Typed, PodsTyped, RequestsTyped, StoreTyped, Handler, TypeOK

\* Whatever is pushed, lost, retried or restarted, every variable keeps its type: a batch
\* never reaches past the lines there are, and a watermark never past the batch.
THEOREM ProgressTypeCorrect == Spec => []TypeOK
  <1>1. Init => Typed
    BY InitTyped
  <1>2. Typed /\ [Next]_vars => Typed'
    BY TypedStep
  <1>3. Typed => TypeOK
    BY TypedMeansTypeOK
  <1> QED BY <1>1, <1>2, <1>3, PTL DEF Spec

----------------------------------------------------------------------------
(* The locks: what a transaction read is what its commit finds.            *)

LEMMA InitLocks ==
    ASSUME Init
    PROVE  Locks
  <1>1. ASSUME NEW x \in Handlers PROVE LocksOK(x)
    BY ZenonT(30), <1>1, ProgressAssumption
       DEF Init, LocksOK, HoldsShard, HoldsRead, ReadsAll, InOrder, At, Idle
  <1>2. \A t \in Tables, i \in Ids : add[t][i] = 0 /\ json[t][i] = 0
    BY DEF Init, Nothing
  <1> QED BY <1>1, <1>2 DEF Locks, JsonAgrees, NoRowNoCount

\* A handler whose rows nobody else writes.
LEMMA LocksKept ==
    ASSUME Typed, NEW y \in Handlers, LocksOK(y), h'[y] = h[y],
           \A k \in RowKeys : owner'[k] = y <=> owner[k] = y,
           \A s \in Shards : owner[<<"shard", s>>] = y => shardRow'[s] = shardRow[s],
           \A t \in Tables, i \in Ids :
              HasRow(t, i) /\ owner[<<t, Row(t, i)>>] = y => json'[t][i] = json[t][i]
    PROVE  LocksOK(y)'
  <1>1. At(y, "rows") => h[y].req \in Batch /\ h[y].req.shard \in Shards
                         /\ <<"shard", h[y].req.shard>> \in RowKeys
    BY SMTT(30), BatchTyped, KeyFacts DEF Typed, RequestsTyped, HandlerOK, Handler, At
  <1>2. HoldsShard(y)'
    <2> SUFFICES ASSUME At(y, "rows"), NEW b, b = h[y].req
                 PROVE  /\ owner'[<<"shard", b.shard>>] = y
                        /\ h[y].fresh = {i \in Carried(b) : i[3] > Watermark(b)'}
      BY ZenonT(30) DEF HoldsShard, At
    <2>1. owner[<<"shard", b.shard>>] = y /\ h[y].fresh = {i \in Carried(b) : i[3] > Watermark(b)}
      BY ZenonT(30) DEF LocksOK, HoldsShard
    <2>2. owner'[<<"shard", b.shard>>] = y /\ shardRow'[b.shard] = shardRow[b.shard]
      BY ZenonT(30), <1>1, <2>1
    <2>3. Watermark(b)' = Watermark(b)
      BY ZenonT(30), <2>2 DEF Watermark
    <2> QED BY ZenonT(30), <2>1, <2>2, <2>3
  <1>3. HoldsRead(y)'
    <2> SUFFICES ASSUME At(y, "rows"), NEW c \in DOMAIN h[y].read
                 PROVE  /\ c \in Tables \X Ids /\ HasRow(c[1], c[2])
                        /\ owner'[<<c[1], Row(c[1], c[2])>>] = y
                        /\ h[y].read[c] = json'[c[1]][c[2]]
      BY ZenonT(30) DEF HoldsRead, At
    <2>1. /\ c \in Tables \X Ids /\ HasRow(c[1], c[2]) /\ c[1] \in Tables /\ c[2] \in Ids
          /\ owner[<<c[1], Row(c[1], c[2])>>] = y
          /\ h[y].read[c] = json[c[1]][c[2]]
      BY ZenonT(30) DEF LocksOK, HoldsRead
    <2>2. <<c[1], Row(c[1], c[2])>> \in RowKeys
      BY <2>1, KeyFacts
    <2> QED BY ZenonT(30), <2>1, <2>2
  <1>4. ReadsAll(y)'
    BY DEF LocksOK, ReadsAll, At
  <1>5. InOrder(y)'
    BY DEF LocksOK, InOrder, At
  <1> QED BY ZenonT(30), <1>2, <1>3, <1>4, <1>5 DEF LocksOK

\* A handler outside a transaction.
LEMMA NoLocks ==
    ASSUME NEW y \in Handlers, h'[y].pc # "rows", \A k \in RowKeys : owner'[k] # y,
           h'[y].pc \in {"idle", "lock"} => h'[y].read = Unread
    PROVE  LocksOK(y)'
  BY DEF LocksOK, HoldsShard, HoldsRead, ReadsAll, InOrder, At

LEMMA CountsAgree ==
    ASSUME Locks, UNCHANGED tables
    PROVE  JsonAgrees' /\ NoRowNoCount'
  BY DEF Locks, JsonAgrees, NoRowNoCount, tables

LEMMA LocksUntouched ==
    ASSUME Typed, Locks, UNCHANGED <<h, owner, tables>>
    PROVE  Locks'
  <1>1. ASSUME NEW y \in Handlers PROVE LocksOK(y)'
    BY ZenonT(30), LocksKept DEF Locks, tables
  <1> QED BY <1>1, CountsAgree DEF Locks

\* Some handlers drop their request, and with it their locks.
LEMMA LocksDropped ==
    ASSUME Typed, Locks, UNCHANGED tables, NEW S \in SUBSET Handlers,
           h' = [y \in Handlers |-> IF y \in S THEN Idle ELSE h[y]], owner' = Released(S)
    PROVE  Locks'
  <1>1. /\ owner \in [RowKeys -> Handlers \cup {None}]
        /\ \A k \in RowKeys : owner'[k] = IF owner[k] \in S THEN None ELSE owner[k]
    BY ReleasedTyped DEF Typed, StoreTyped
  <1>2. ASSUME NEW y \in Handlers PROVE LocksOK(y)'
    <2>1. y # None
      BY ProgressAssumption
    <2>2. CASE y \in S
      BY ZenonT(30), <1>1, <2>1, <2>2, NoLocks DEF Idle
    <2>3. CASE y \notin S
      BY ZenonT(30), <1>1, <2>1, <2>3, LocksKept DEF Locks, tables
    <2> QED BY <2>2, <2>3
  <1> QED BY <1>2, CountsAgree DEF Locks

\* A handler outside a transaction goes to another label outside one.
LEMMA LocksAside ==
    ASSUME Typed, Locks, UNCHANGED <<owner, tables>>, NEW x \in Handlers, ~At(x, "rows"),
           \A y \in Handlers : y # x => h'[y] = h[y],
           h'[x].pc # "rows", h'[x].pc \in {"idle", "lock"} => h'[x].read = Unread
    PROVE  Locks'
  <1>1. \A k \in RowKeys : owner'[k] # x
    BY DEF Locks, LocksOK, InOrder
  <1>2. ASSUME NEW y \in Handlers, y # x PROVE LocksOK(y)'
    BY <1>2, LocksKept DEF Locks, tables
  <1> QED BY ZenonT(30), <1>1, <1>2, NoLocks, CountsAgree DEF Locks

LEMMA LockShardLocks ==
    ASSUME Typed, Locks, NEW x \in Handlers, LockShard(x)
    PROVE  Locks'
  <1> DEFINE b == h[x].req
             fresh == {i \in Carried(b) : i[3] > Watermark(b)}
             todo == MergeProgress(fresh) \cup MergeSeriesSeconds(fresh)
             l == [h[x] EXCEPT !.pc = "rows", !.fresh = fresh, !.todo = todo]
  <1>1. h[x] \in Handler /\ At(x, "lock") /\ b \in Batch /\ b.shard \in Shards /\ h[x].read = Unread
    BY BatchTyped DEF LockShard, Typed, RequestsTyped, HandlerOK, Handler, At, Locks, LocksOK
  <1>2. fresh \in SUBSET Ids
    BY <1>1, CarriedFacts
  <1>3. \A t \in Tables, i \in fresh : HasRow(t, i) => <<t, Row(t, i)>> \in todo
    BY <1>2, TodoFacts
  <1>4. /\ h' = [h EXCEPT ![x] = l] /\ UNCHANGED <<pods, net, tables, tally, open, report, finals, faults>>
        /\ owner[<<"shard", b.shard>>] = None
        /\ owner' = [owner EXCEPT ![<<"shard", b.shard>>] = x]
    BY DEF LockShard, Become
  <1> HIDE DEF todo
  <1>5. /\ <<"shard", b.shard>> \in RowKeys /\ owner'[<<"shard", b.shard>>] = x
        /\ \A k \in RowKeys : k # <<"shard", b.shard>> => owner'[k] = owner[k]
    BY <1>1, <1>4, KeyFacts DEF Typed, StoreTyped
  <1>6. ASSUME NEW y \in Handlers, y # x PROVE LocksOK(y)'
    <2>1. h'[y] = h[y] /\ y # None
      BY <1>4, <1>6, ProgressAssumption DEF Typed, RequestsTyped
    <2> QED BY ZenonT(30), <1>4, <1>5, <1>6, <2>1, LocksKept DEF Locks, tables
  <1>7. LocksOK(x)'
    <2> HIDE DEF fresh
    <2>1. h'[x] = l /\ l.pc = "rows" /\ l.req = b /\ l.fresh = fresh /\ l.todo = todo /\ l.read = Unread
      BY <1>1, <1>4 DEF Typed, RequestsTyped, Handler
    <2> HIDE DEF l
    <2>2. HoldsShard(x)'
      <3>1. Watermark(b)' = Watermark(b)
        BY <1>4, <2>1 DEF Watermark, tables
      <3> QED BY ZenonT(30), <1>4, <1>5, <2>1, <3>1 DEF HoldsShard, fresh, Watermark, tables
    <2>3. HoldsRead(x)'
      BY ZenonT(30), <2>1 DEF HoldsRead, Unread
    <2>4. ReadsAll(x)'
      BY <1>3, <2>1 DEF ReadsAll
    <2>5. InOrder(x)'
      <3>1. \A k \in RowKeys : owner[k] # x
        BY <1>1 DEF Locks, LocksOK, InOrder, At
      <3> QED BY SMTT(30), <1>5, <2>1, <3>1 DEF InOrder, At
    <2> QED BY <2>1, <2>2, <2>3, <2>4, <2>5 DEF LocksOK
  <1> QED BY <1>4, <1>6, <1>7, CountsAgree DEF Locks

LEMMA LockRowLocks ==
    ASSUME Typed, Locks, NEW x \in Handlers, LockRow(x)
    PROVE  Locks'
  <1>1. PICK k \in NextRow(h[x].todo) :
          /\ At(x, "rows") /\ owner[k] = None /\ owner' = [owner EXCEPT ![k] = x]
          /\ Become(x, [h[x] EXCEPT
                !.todo = @ \ {k},
                !.read = [c \in DOMAIN @ \cup InRow(k) |->
                             IF c \in DOMAIN @ THEN @[c] ELSE json[c[1]][c[2]]]])
          /\ UNCHANGED <<pods, net, tables, tally, open, report, finals, faults>>
    BY ZenonT(30) DEF LockRow
  <1>2. h[x] \in Handler /\ k \in DataKeys /\ k \in h[x].todo /\ h[x].todo \subseteq DataKeys
        /\ k[1] # "shard" /\ k \in RowKeys /\ k = <<k[1], k[2]>> /\ k[1] \in Tables
    BY <1>1, KeyFacts DEF Typed, RequestsTyped, Handler, NextRow
  <1> DEFINE todo == h[x].todo \ {k}
             read == [c \in DOMAIN h[x].read \cup InRow(k) |->
                        IF c \in DOMAIN h[x].read THEN h[x].read[c] ELSE json[c[1]][c[2]]]
             l == [h[x] EXCEPT !.todo = todo, !.read = read]
  <1>3. h' = [h EXCEPT ![x] = l]
    BY <1>1, <1>2 DEF Become, Handler
  <1>4. /\ DOMAIN read = DOMAIN h[x].read \cup InRow(k)
        /\ \A c \in DOMAIN read : read[c] = IF c \in DOMAIN h[x].read THEN h[x].read[c] ELSE json[c[1]][c[2]]
    BY ZenonT(30)
  <1> HIDE DEF read
  <1>5. h'[x] = l /\ l.pc = "rows" /\ l.req = h[x].req /\ l.fresh = h[x].fresh /\ l.todo = todo /\ l.read = read
    BY <1>1, <1>2, <1>3 DEF Typed, RequestsTyped, Handler, At
  <1> HIDE DEF l
  <1>6. owner'[k] = x /\ \A j \in RowKeys : j # k => owner'[j] = owner[j]
    BY <1>1, <1>2 DEF Typed, StoreTyped
  <1>7. ASSUME NEW y \in Handlers, y # x PROVE LocksOK(y)'
    <2>1. h'[y] = h[y] /\ y # None
      BY <1>3, <1>7, ProgressAssumption DEF Typed, RequestsTyped
    <2> QED BY <1>1, <1>6, <1>7, <2>1, LocksKept DEF Locks, tables
  <1>8. LocksOK(x)'
    <2>1. HoldsShard(x)'
      <3>1. h[x].req.shard \in Shards
        BY <1>1, BatchTyped DEF Typed, RequestsTyped, HandlerOK, Handler, At
      <3>2. <<"shard", h[x].req.shard>> \in RowKeys /\ <<"shard", h[x].req.shard>> # k
        BY <1>2, <3>1, KeyFacts
      <3> QED BY SMTT(30), <1>1, <1>5, <1>6, <3>2 DEF Locks, LocksOK, HoldsShard, At, Watermark, tables
    <2>2. HoldsRead(x)'
      <3> SUFFICES ASSUME NEW c \in DOMAIN read
                   PROVE  /\ c \in Tables \X Ids /\ HasRow(c[1], c[2])
                          /\ owner'[<<c[1], Row(c[1], c[2])>>] = x
                          /\ read[c] = json[c[1]][c[2]]
        BY <1>1, <1>5 DEF HoldsRead, tables
      <3>1. CASE c \in DOMAIN h[x].read
        <4>1. /\ c \in Tables \X Ids /\ HasRow(c[1], c[2]) /\ c[1] \in Tables /\ c[2] \in Ids
              /\ owner[<<c[1], Row(c[1], c[2])>>] = x
              /\ h[x].read[c] = json[c[1]][c[2]]
          BY <1>1, <3>1 DEF Locks, LocksOK, HoldsRead
        <4>2. <<c[1], Row(c[1], c[2])>> \in RowKeys
          BY <4>1, KeyFacts
        <4> QED BY ZenonT(30), <1>4, <1>6, <3>1, <4>1, <4>2
      <3>2. CASE c \notin DOMAIN h[x].read
        <4>1. c \in InRow(k)
          BY <1>4, <3>2
        <4>2. PICK i \in Ids : c = <<k[1], i>> /\ HasRow(k[1], i) /\ Row(k[1], i) = k[2]
          BY <4>1 DEF InRow, Touched
        <4> QED BY <1>2, <1>4, <1>6, <3>2, <4>2
      <3> QED BY ZenonT(30), <3>1, <3>2
    <2>3. ReadsAll(x)'
      <3> SUFFICES ASSUME NEW t \in Tables, NEW i \in h[x].fresh, HasRow(t, i)
                   PROVE  <<t, Row(t, i)>> \in todo \/ <<t, i>> \in DOMAIN read
        BY ZenonT(30), <1>5 DEF ReadsAll
      <3>1. i \in Ids
        BY <1>2 DEF Handler
      <3>2. <<t, Row(t, i)>> \in h[x].todo \/ <<t, i>> \in DOMAIN h[x].read
        BY <1>1 DEF Locks, LocksOK, ReadsAll
      <3>3. CASE <<t, Row(t, i)>> = k
        <4>1. k[1] = t /\ k[2] = Row(t, i)
          BY <3>3
        <4>2. <<t, i>> \in InRow(k)
          BY <3>1, <4>1 DEF InRow, Touched
        <4> QED BY <1>4, <4>2
      <3> QED BY ZenonT(30), <1>4, <3>2, <3>3
    <2>4. InOrder(x)'
      <3> SUFFICES ASSUME NEW j \in RowKeys, owner'[j] = x
                   PROVE  j[1] # "shard" => \A i \in todo : Precedes(j, i)
        BY <1>5 DEF InOrder, At
      <3>1. CASE j = k
        BY <1>1, <3>1 DEF NextRow
      <3>2. CASE j # k
        BY ZenonT(30), <1>6, <3>2 DEF Locks, LocksOK, InOrder
      <3> QED BY <3>1, <3>2
    <2> QED BY <1>5, <2>1, <2>2, <2>3, <2>4 DEF LocksOK
  <1> QED BY <1>1, <1>7, <1>8, CountsAgree DEF Locks

LEMMA AbsorbLocks ==
    ASSUME Typed, Locks, NEW x \in Handlers, Absorb(x)
    PROVE  Locks'
  <1> DEFINE b == h[x].req
  <1>1. /\ At(x, "rows") /\ h[x].todo = {} /\ b \in Batch /\ b.shard \in Shards
        /\ owner' = Released({x}) /\ x # None
    BY ZenonT(30), BatchTyped, ProgressAssumption DEF Absorb, Typed, RequestsTyped, HandlerOK, Handler, At
  <1>2. \A k \in RowKeys : owner'[k] = IF owner[k] = x THEN None ELSE owner[k]
    BY <1>1, ReleasedTyped DEF Typed, StoreTyped
  <1>3. /\ add \in [Tables -> [Ids -> Nat]] /\ json \in [Tables -> [Ids -> Nat]]
        /\ \A t \in Tables, i \in Ids :
                 /\ add'[t][i] = add[t][i] + (IF i \in h[x].fresh /\ HasRow(t, i) THEN 1 ELSE 0)
                 /\ json'[t][i] = IF <<t, i>> \in DOMAIN h[x].read
                       THEN h[x].read[<<t, i>>] +
                              (IF i \in h[x].fresh /\ Line(i).label # TotalLabel THEN 1 ELSE 0)
                       ELSE json[t][i]
    BY ZenonT(30), AbsorbTables DEF Typed, StoreTyped
  <1>4. ASSUME NEW t \in Tables, NEW i \in Ids, <<t, i>> \in DOMAIN h[x].read
        PROVE  HasRow(t, i) /\ owner[<<t, Row(t, i)>>] = x /\ h[x].read[<<t, i>>] = json[t][i]
    BY ZenonT(30), <1>1, <1>4 DEF Locks, LocksOK, HoldsRead
  <1>5. ASSUME NEW t \in Tables, NEW i \in Ids, HasRow(t, i), i \in h[x].fresh
        PROVE  <<t, i>> \in DOMAIN h[x].read
    BY ZenonT(30), <1>1, <1>5 DEF Locks, LocksOK, ReadsAll
  <1>6. ASSUME NEW y \in Handlers, y # x PROVE LocksOK(y)'
    <2>1. h'[y] = h[y] /\ y # None
      BY ZenonT(30), <1>6, ProgressAssumption DEF Typed, RequestsTyped, Absorb, Goto, Respond, Become
    <2>2. ASSUME NEW s \in Shards, owner[<<"shard", s>>] = y PROVE shardRow'[s] = shardRow[s]
      <3>1. s # b.shard
        BY <1>1, <1>6, <2>2 DEF Locks, LocksOK, HoldsShard
      <3> QED BY ZenonT(30), <1>1, <3>1 DEF Absorb, Typed, StoreTyped
    <2>3. ASSUME NEW t \in Tables, NEW i \in Ids, HasRow(t, i), owner[<<t, Row(t, i)>>] = y
          PROVE  json'[t][i] = json[t][i]
      BY <1>3, <1>4, <1>6, <2>3
    <2> QED BY ZenonT(30), <1>2, <1>6, <2>1, <2>2, <2>3, LocksKept DEF Locks
  <1>7. LocksOK(x)'
    <2>1. h' = [h EXCEPT ![x] = [h[x] EXCEPT !.pc = "finished"]] \/ h' = [h EXCEPT ![x] = Idle]
      BY ZenonT(30) DEF Absorb, Goto, Respond, Become
    <2>2. h'[x] = [h[x] EXCEPT !.pc = "finished"] \/ h'[x] = Idle
      BY <2>1 DEF Typed, RequestsTyped
    <2>3. h[x] \in Handler
      BY DEF Typed, RequestsTyped
    <2>4. h'[x].pc = "finished" \/ h'[x] = Idle
      BY <2>2, <2>3 DEF Handler
    <2>5. \A k \in RowKeys : owner'[k] # x
      BY <1>1, <1>2
    <2>6. h'[x].pc # "rows" /\ (h'[x].pc \in {"idle", "lock"} => h'[x].read = Unread)
      BY <2>4 DEF Idle
    <2> QED BY <2>5, <2>6, NoLocks
  <1>8. ASSUME NEW t \in Tables, NEW i \in Ids, HasRow(t, i), Line(i).label # TotalLabel
        PROVE  json'[t][i] = add'[t][i]
    <2>1. json[t][i] = add[t][i]
      BY <1>8 DEF Locks, JsonAgrees
    <2>2. CASE <<t, i>> \in DOMAIN h[x].read
      <3>1. h[x].read[<<t, i>>] = json[t][i]
        BY ZenonT(30), <1>4, <2>2
      <3>2. json'[t][i] = json[t][i] + (IF i \in h[x].fresh THEN 1 ELSE 0)
        BY ZenonT(30), <1>3, <1>8, <2>2, <3>1
      <3>3. add'[t][i] = add[t][i] + (IF i \in h[x].fresh THEN 1 ELSE 0)
        BY ZenonT(30), <1>3, <1>8
      <3> QED BY <2>1, <3>2, <3>3
    <2>3. CASE <<t, i>> \notin DOMAIN h[x].read
      <3>1. i \notin h[x].fresh
        BY <1>5, <1>8, <2>3
      <3>2. json'[t][i] = json[t][i] /\ add'[t][i] = add[t][i] + 0 /\ add[t][i] \in Nat
        BY <1>3, <2>3, <3>1
      <3> QED BY <2>1, <3>2
    <2> QED BY <2>2, <2>3
  <1>9. ASSUME NEW t \in Tables, NEW i \in Ids, ~HasRow(t, i)
        PROVE  add'[t][i] = 0 /\ json'[t][i] = 0
    <2>1. json[t][i] = 0 /\ add[t][i] = 0
      BY <1>9 DEF Locks, NoRowNoCount
    <2>2. <<t, i>> \notin DOMAIN h[x].read
      BY ZenonT(30), <1>4, <1>9
    <2>3. json'[t][i] = json[t][i] /\ add'[t][i] = add[t][i] + 0
      BY <1>3, <1>9, <2>2
    <2> QED BY <2>1, <2>3
  <1> QED BY ZenonT(30), <1>6, <1>7, <1>8, <1>9 DEF Locks, JsonAgrees, NoRowNoCount

LEMMA DiscardLocks ==
    ASSUME Typed, Locks, NEW x \in Handlers, Discard(x)
    PROVE  Locks'
  <1> DEFINE t == DiscardOrder[h[x].deleted + 1]
  <1>1. /\ At(x, "discard") /\ owner' = owner /\ x # None
        /\ \A k \in RowKeys : k[1] = t => owner[k] = None
        /\ \A y \in Handlers : y # x => h'[y] = h[y]
        /\ h'[x].pc \in {"discard", "close"}
    BY SMTT(30), ProgressAssumption DEF Discard, Become, At, Typed, RequestsTyped, Handler, StoreTyped
  <1>2. t \in {"label", "second", "signature", "shard"}
    BY <1>1, DiscardFacts
  <1>3. /\ t = "shard" => UNCHANGED <<add, json>>
        /\ t # "shard" => shardRow' = shardRow
        /\ \A u \in Tables : t # "shard" => add'[u] = (IF u = t THEN Nothing ELSE add[u])
        /\ \A u \in Tables : t # "shard" => json'[u] = (IF u = t THEN Nothing ELSE json[u])
    <2>1. add \in [Tables -> [Ids -> Nat]] /\ json \in [Tables -> [Ids -> Nat]]
      BY DEF Typed, StoreTyped
    <2> HIDE DEF t
    <2>2. /\ t = "shard" => UNCHANGED <<add, json>>
          /\ t # "shard" => /\ shardRow' = shardRow /\ add' = [add EXCEPT ![t] = Nothing]
                            /\ json' = [json EXCEPT ![t] = Nothing]
      BY DEF Discard, t
    <2>3. ASSUME t # "shard", NEW u \in Tables
          PROVE  add'[u] = (IF u = t THEN Nothing ELSE add[u]) /\ json'[u] = (IF u = t THEN Nothing ELSE json[u])
      BY <2>1, <2>2, <2>3
    <2> QED BY <2>2, <2>3
  <1> HIDE DEF t
  <1>4. ASSUME NEW y \in Handlers, y # x PROVE LocksOK(y)'
    <2>1. y # None /\ h'[y] = h[y]
      BY ZenonT(30), <1>1, <1>4, ProgressAssumption
    <2>2. ASSUME NEW s \in Shards, owner[<<"shard", s>>] = y PROVE shardRow'[s] = shardRow[s]
      <3>1. t # "shard"
        BY <1>1, <2>1, <2>2, KeyFacts
      <3> QED BY <1>3, <3>1
    <2>3. ASSUME NEW u \in Tables, NEW i \in Ids, HasRow(u, i), owner[<<u, Row(u, i)>>] = y
          PROVE  json'[u][i] = json[u][i]
      <3>1. <<u, Row(u, i)>> \in RowKeys
        BY <2>3, KeyFacts
      <3>2. u # t
        BY <1>1, <2>1, <2>3, <3>1
      <3>3. CASE t = "shard"
        BY <1>3, <3>3
      <3>4. CASE t # "shard"
        BY <1>3, <3>2, <3>4
      <3> QED BY <3>3, <3>4
    <2> QED BY <1>1, <2>1, <2>2, <2>3, LocksKept DEF Locks
  <1>5. LocksOK(x)'
    <2>1. \A k \in RowKeys : owner'[k] # x
      BY <1>1 DEF Locks, LocksOK, InOrder, At
    <2> QED BY <1>1, <2>1, NoLocks
  <1>6. JsonAgrees' /\ NoRowNoCount'
    <2>1. ASSUME NEW u \in Tables, NEW i \in Ids
          PROVE  \/ add'[u][i] = 0 /\ json'[u][i] = 0
                 \/ add'[u][i] = add[u][i] /\ json'[u][i] = json[u][i]
      <3>1. CASE t = "shard"
        BY <1>3, <3>1
      <3>2. CASE t # "shard"
        BY <1>3, <3>2 DEF Nothing
      <3> QED BY <3>1, <3>2
    <2> QED BY SMTT(30), <2>1 DEF Locks, JsonAgrees, NoRowNoCount
  <1> QED BY <1>4, <1>5, <1>6 DEF Locks

\* The steps of a handler that hold no lock.
LEMMA AsideLocks ==
    ASSUME Typed, Locks, NEW x \in Handlers,
           Ingest(x) \/ AllShardsFinished(x) \/ Snapshot(x) \/ SaveReport(x) \/ CloseRun(x)
    PROVE  Locks'
  <1>1. UNCHANGED <<owner, tables>> /\ ~At(x, "rows")
    BY ZenonT(30) DEF Ingest, AllShardsFinished, Snapshot, SaveReport, CloseRun, At
  <1>2. h[x] \in Handler /\ h \in [Handlers -> Handler]
    BY DEF Typed, RequestsTyped
  <1>3. /\ \A y \in Handlers : y # x => h'[y] = h[y]
        /\ h' = h \/ h'[x] = Idle \/ h'[x].pc \in {"labels", "seconds", "signatures", "save", "discard"}
           \/ (h'[x].pc = "lock" /\ h'[x].read = Unread)
    <2>1. CASE Ingest(x)
      BY ZenonT(30), <1>2, <2>1 DEF Ingest, Become, Idle
    <2>2. CASE AllShardsFinished(x) \/ CloseRun(x)
      <3>1. h' = [h EXCEPT ![x] = [h[x] EXCEPT !.pc = "labels"]] \/ h' = [h EXCEPT ![x] = Idle]
        BY ZenonT(30), <2>2 DEF AllShardsFinished, CloseRun, Goto, Respond, Become
      <3>2. h'[x] = [h[x] EXCEPT !.pc = "labels"] \/ h'[x] = Idle
        BY <1>2, <3>1
      <3>3. h'[x].pc = "labels" \/ h'[x] = Idle
        BY <1>2, <3>2 DEF Handler
      <3> QED BY <1>2, <3>1, <3>3
    <2>3. CASE Snapshot(x)
      BY ZenonT(30), <1>2, <2>3 DEF Snapshot, Become, Handler
    <2>4. CASE SaveReport(x)
      BY <1>2, <2>4 DEF SaveReport, Become, Handler
    <2> QED BY ZenonT(30), <2>1, <2>2, <2>3, <2>4
  <1>4. CASE h' = h
    BY <1>1, <1>4, LocksUntouched
  <1>5. CASE h' # h
    <2>1. h'[x].pc # "rows" /\ (h'[x].pc \in {"idle", "lock"} => h'[x].read = Unread)
      BY <1>3, <1>5 DEF Idle
    <2> QED BY ZenonT(30), <1>1, <1>3, <2>1, LocksAside
  <1> QED BY <1>4, <1>5

LEMMA LocksStep ==
    ASSUME Typed, Locks, [Next]_vars
    PROVE  Locks'
  <1>1. ASSUME NEW s \in Shards,
               EngineWrites(s) \/ EngineExits(s) \/ Sidecar(s) \/ Terminated(s) \/ PushLost(s)
        PROVE  Locks'
    BY <1>1, LocksUntouched
       DEF EngineWrites, EngineExits, Sidecar, Drain, FlushTick, PollTick, Terminated, PushLost, Flush
  <1>2. ASSUME NEW s \in Shards, PodReplaced(s)
        PROVE  Locks'
    <2> DEFINE mine == IF LateStreams THEN {} ELSE {x \in Handlers : h[x].req # None /\ h[x].req.shard = s}
    <2>1. /\ h' = [x \in Handlers |-> IF x \in mine THEN Idle ELSE h[x]] /\ owner' = Released(mine)
          /\ UNCHANGED tables /\ mine \in SUBSET Handlers
      BY ZenonT(30), <1>2 DEF PodReplaced
    <2> HIDE DEF mine
    <2> QED BY <2>1, LocksDropped
  <1>3. ASSUME NEW x \in Handlers, StatementFails(x)
        PROVE  Locks'
    <2>1. /\ h' = [y \in Handlers |-> IF y \in {x} THEN Idle ELSE h[y]] /\ owner' = Released({x})
          /\ UNCHANGED tables
      BY ZenonT(30), <1>3 DEF StatementFails, Respond, Become, Typed, RequestsTyped
    <2> QED BY <2>1, LocksDropped
  <1>4. CASE ControlPlaneRestarts
    <2>1. /\ h' = [y \in Handlers |-> IF y \in Handlers THEN Idle ELSE h[y]]
          /\ owner' = Released(Handlers) /\ UNCHANGED tables
      BY <1>4 DEF ControlPlaneRestarts
    <2> QED BY <2>1, LocksDropped
  <1>5. CASE UNCHANGED vars
    BY <1>5, LocksUntouched DEF vars
  <1>6. ASSUME NEW x \in Handlers, Serve(x)
        PROVE  Locks'
    BY <1>6, AsideLocks, LockShardLocks, LockRowLocks, AbsorbLocks, DiscardLocks DEF Serve
  <1> QED BY <1>1, <1>2, <1>3, <1>4, <1>5, <1>6 DEF Next

LEMMA LocksHold == Spec => [](Typed /\ Locks)
  <1>1. Init => Typed /\ Locks
    BY InitTyped, InitLocks
  <1>2. (Typed /\ Locks) /\ [Next]_vars => (Typed /\ Locks)'
    BY TypedStep, LocksStep
  <1> QED BY <1>1, <1>2, PTL DEF Spec

\* The merges of mergeLabels, mergeSecondLabels, mergeSignatures and mergeSeriesSeconds
\* lose nothing to one another, however the transactions of the shards interleave: what
\* Go merged into a JSON column is what the additive columns of the row count.
THEOREM JsonMergesLoseNothing == Spec => []JsonAgrees
  <1>1. Typed /\ Locks => JsonAgrees
    BY DEF Locks
  <1> QED BY <1>1, LocksHold, PTL

LEMMA FreshIsFresh ==
    ASSUME Typed, Locks, NEW x \in Handlers, At(x, "rows")
    PROVE  h[x].fresh = Store!Fresh(h[x].req)
  <1> DEFINE b == h[x].req
  <1>1. b \in Batch /\ h[x].fresh = {i \in Carried(b) : i[3] > Watermark(b)}
    BY ZenonT(30) DEF Typed, RequestsTyped, HandlerOK, Handler, At, Locks, LocksOK, HoldsShard
  <1>2. Watermark(b) = Store!Watermark(b)
    BY DEF Watermark, Store!Watermark
  <1>3. /\ Carried(b) \subseteq Ids
        /\ \A n : <<b.shard, b.stream, n>> \in Carried(b) <=> n \in b.lo .. b.hi
        /\ \A i \in Carried(b) : i = <<b.shard, b.stream, i[3]>> /\ i[3] \in b.lo .. b.hi
    BY ZenonT(30), <1>1, CarriedFacts
  <1>4. b.lo \in Nat \ {0} /\ b.hi \in Nat /\ b.hi \in Amounts
    BY <1>1, BatchTyped
  <1>5. ASSUME NEW i PROVE i \in h[x].fresh => i \in Store!Fresh(b)
    <2> SUFFICES ASSUME i \in Carried(b), i[3] > Watermark(b) PROVE i \in Store!Fresh(b)
      BY <1>1
    <2>1. i = <<b.shard, b.stream, i[3]>> /\ i[3] \in b.lo .. b.hi
      BY <1>3
    <2>2. i[3] \in Seqs /\ b.lo <= i[3] /\ i[3] <= b.hi
      BY SMTT(30), <1>4, <2>1, ProgressAssumption DEF Seqs, Amounts
    <2> QED BY <1>2, <2>1, <2>2 DEF Store!Fresh
  <1>6. ASSUME NEW i PROVE i \in Store!Fresh(b) => i \in h[x].fresh
    <2> SUFFICES ASSUME i \in Store!Fresh(b) PROVE i \in h[x].fresh
      OBVIOUS
    <2>1. PICK n \in Seqs : i = <<b.shard, b.stream, n>> /\ b.lo <= n /\ n <= b.hi /\ n > Watermark(b)
      BY <1>2 DEF Store!Fresh
    <2>2. n \in b.lo .. b.hi /\ i[3] = n
      BY SMTT(30), <1>4, <2>1, ProgressAssumption DEF Seqs
    <2> QED BY ZenonT(30), <1>1, <1>3, <2>1, <2>2
  <1> QED BY <1>5, <1>6

LEMMA AbsorbIsOne ==
    ASSUME Typed, Locks, NEW x \in Handlers, Absorb(x)
    PROVE  Store!Absorb(h[x].req)
  <1> DEFINE b == h[x].req
  <1>1. h[x].fresh = Store!Fresh(b) /\ h[x].fresh \subseteq Ids
    BY ZenonT(30), FreshIsFresh DEF Absorb, Typed, RequestsTyped, Handler
  <1>2. Touched("second", h[x].fresh) = h[x].fresh /\ Touched("series", h[x].fresh) = h[x].fresh
    BY DEF Touched, HasRow
  <1>3. /\ add'["second"] = Counted(add["second"], h[x].fresh)
        /\ add'["series"] = Counted(add["series"], h[x].fresh)
    BY ZenonT(30), <1>2 DEF Absorb, Tables
  <1>4. /\ add'["second"] = Store!Counted(add["second"], Store!Fresh(b))
        /\ add'["series"] = Store!Counted(add["series"], Store!Fresh(b))
    BY ZenonT(30), <1>1, <1>3 DEF Counted, Store!Counted, Ids, Store!Ids
  <1>5. Watermark(b) = Store!Watermark(b)
    BY ZenonT(30) DEF Watermark, Store!Watermark
  <1>6. shardRow' = [shardRow EXCEPT ![b.shard] =
              [stream |-> b.stream,
               seq |-> IF Store!Fresh(b) = {} THEN Store!Watermark(b) ELSE b.hi,
               finished |-> b.final \/ (shardRow[b.shard] # None /\ shardRow[b.shard].finished),
               code |-> b.code \/ (shardRow[b.shard] # None /\ shardRow[b.shard].code)]]
    BY <1>1, <1>5 DEF Absorb
  <1> QED BY ZenonT(30), <1>4, <1>6 DEF Store!Absorb, Store!AbsorbSeries

\* The MySQL Absorb refines the in-memory store's: however its row locks, reads and the
\* other handlers' transactions interleave, its commit adds exactly the measurements the
\* store would count as fresh at that moment, and moves the watermark as the store does.
THEOREM AbsorbRefinesStore == Spec => AbsorbImplemented
  <1>1. Typed /\ Locks => AbsorbsAsOne
    BY AbsorbIsOne DEF AbsorbsAsOne
  <1>2. Typed /\ Locks /\ [Next]_vars => [AbsorbsAsOne]_vars
    BY <1>1
  <1> QED BY <1>2, LocksHold, PTL DEF AbsorbImplemented, Spec

----------------------------------------------------------------------------
(* The counts: what was absorbed is in the tables once.                    *)

\* Watermarks only rise, and a batch starts at most one above.
LEMMA StaysBelow == \A a, b, c \in Nat : a <= b /\ c >= b => a <= c
  OBVIOUS

LEMMA StaysNext == \A a, b, c \in Nat : a <= b + 1 /\ c >= b => a <= c + 1
  OBVIOUS

LEMMA Reaches == \A a, b, c \in Nat : a <= b + 1 /\ c > b => a <= c
  OBVIOUS

LEMMA NotAbove == \A a, b \in Nat : ~(a > b) => a <= b
  OBVIOUS

\* A batch [lo, hi] that meets the watermark m raises it over what was fresh.
LEMMA MarkRises ==
    \A n, lo, hi, m \in Nat :
        lo <= m + 1 /\ hi >= m => (n <= hi <=> n <= m \/ (lo <= n /\ n <= hi /\ n > m))
  OBVIOUS

\* The numbers behind a watermark.
LEMMA AbsorbedTyped ==
    ASSUME Typed, NEW s \in Shards
    PROVE  /\ Absorbed(s) \in Amounts /\ Absorbed(s) \in Nat
           /\ side[s].stream \in Streams /\ side[s].stream \in Nat /\ side[s].acked \in Nat
           /\ shardRow[s] # None =>
                 shardRow[s].stream \in Nat /\ shardRow[s].seq \in Amounts /\ shardRow[s].seq \in Nat
  <1>1. side[s] \in Side
    BY DEF Typed, PodsTyped
  <1>2. shardRow[s] # None => shardRow[s] \in Store!ShardStream
    BY DEF Typed, StoreTyped
  <1>3. shardRow[s] # None => shardRow[s].stream \in Nat /\ shardRow[s].seq \in Amounts
    BY SMTT(30), <1>2, ProgressAssumption DEF Store!ShardStream, Streams, Seqs, Amounts
  <1>4. Absorbed(s) \in Amounts
    BY <1>3, ProgressAssumption DEF Absorbed, Amounts
  <1>5. Streams \subseteq Nat /\ Amounts \subseteq Nat
    BY ProgressAssumption DEF Streams, Amounts
  <1>6. side[s].stream \in Streams /\ side[s].acked \in Amounts
    BY ZenonT(30), <1>1 DEF Side
  <1> QED BY ZenonT(30), <1>3, <1>4, <1>5, <1>6

\* A step that replaces no pod, commits nothing and writes no report.
Steady ==
    /\ \A s \in Shards : side'[s].stream = side[s].stream
    /\ \A s \in Shards : s \in exitFile => s \in exitFile' /\ file'[s] = file[s]
    /\ UNCHANGED <<shardRow, add, finals, report>>

LEMMA SteadyAbsorbed ==
    ASSUME Steady, NEW s \in Shards
    PROVE  Absorbed(s)' = Absorbed(s)
  BY DEF Steady, Absorbed

LEMMA SteadyBatch ==
    ASSUME Steady, NEW b \in Batch, BatchOK(b)
    PROVE  BatchOK(b)'
  <1>1. b.shard \in Shards
    BY BatchTyped
  <1>2. Absorbed(b.shard)' = Absorbed(b.shard)
    BY <1>1, SteadyAbsorbed
  <1> QED BY <1>1, <1>2 DEF BatchOK, Steady

\* A handler that has dropped its request, and one that keeps it.
LEMMA IdleCounts ==
    ASSUME NEW x \in Handlers, h'[x] = Idle
    PROVE  HandlerCounts(x)'
  <1>1. Idle.req = None /\ Idle.pc = "idle"
    BY DEF Idle
  <1>2. Idle.pc \notin Committed /\ Idle.pc \notin Snapped /\ Idle.pc \notin {"discard", "close", "signatures", "save"}
    BY <1>1 DEF Committed, Snapped
  <1>3. SnapOK(Idle)'
    BY ZenonT(30), <1>1, <1>2 DEF SnapOK
  <1> QED BY ZenonT(30), <1>1, <1>2, <1>3 DEF HandlerCounts

LEMMA SteadyHandler ==
    ASSUME Typed, Counts, Steady, NEW x \in Handlers, ~At(x, "idle"), NEW l, h'[x] = l, l.req = h[x].req,
           l.pc \in {"discard", "close"} => report # None,
           report = None =>
              /\ l.pc \in Committed => h[x].req.hi <= Absorbed(h[x].req.shard)
              /\ SnapOK(l)
    PROVE  HandlerCounts(x)'
  <1>1. h[x].req \in Batch /\ h[x].req.shard \in Shards /\ BatchOK(h[x].req)
    BY ZenonT(30), BatchTyped DEF Typed, RequestsTyped, HandlerOK, Handler, Counts, HandlerCounts
  <1>2. ASSUME NEW b \in Batch, b = h[x].req PROVE BatchOK(b)' /\ Absorbed(b.shard)' = Absorbed(b.shard)
    BY ZenonT(30), <1>1, <1>2, SteadyBatch, SteadyAbsorbed
  <1>3. SnapOK(l) => SnapOK(l)'
    BY DEF SnapOK, Steady
  <1> QED BY ZenonT(30), <1>1, <1>2, <1>3 DEF HandlerCounts, Steady

LEMMA SteadyCounts ==
    ASSUME Typed, Counts, Steady,
           \A s \in Shards : \/ report # None
                             \/ side'[s].acked = side[s].acked
                             \/ side'[s].acked <= Absorbed(s),
           net' \subseteq Batch, \A b \in net' : b \in net \/ BatchOK(b)',
           \A x \in Handlers : h'[x] = h[x] \/ HandlerCounts(x)'
    PROVE  Counts'
  <1>1. \A b \in net' : BatchOK(b)'
    BY SteadyBatch DEF Counts
  <1>2. RowsOK'
    BY DEF Counts, RowsOK, Steady
  <1>3. ASSUME NEW x \in Handlers PROVE HandlerCounts(x)'
    <2>1. CASE h'[x] = h[x] /\ At(x, "idle")
      <3>1. h[x].req = None
        BY <2>1 DEF Typed, RequestsTyped, HandlerOK
      <3> QED BY ZenonT(30), <2>1, <3>1 DEF HandlerCounts, At, Committed, Snapped, SnapOK
    <2>2. CASE h'[x] = h[x] /\ ~At(x, "idle")
      <3>1. HandlerCounts(x)
        BY DEF Counts
      <3> QED BY ZenonT(30), <2>2, <3>1, SteadyHandler DEF HandlerCounts
    <2> QED BY <2>1, <2>2
  <1>4. TablesCount'
    <2> SUFFICES ASSUME report = None
                 PROVE  /\ \A s \in Shards : side'[s].acked <= Absorbed(s)'
                        /\ \A t \in Tables, i \in Ids : CountOK(t, i)'
                        /\ \A t \in Tables : FinalsIn(finals, t, add[t])'
      BY ZenonT(30) DEF TablesCount, Steady
    <2>1. /\ \A s \in Shards : side[s].acked <= Absorbed(s)
          /\ \A t \in Tables, i \in Ids : CountOK(t, i)
          /\ \A t \in Tables : FinalsIn(finals, t, add[t])
      BY ZenonT(30) DEF Counts, TablesCount
    <2>2. ASSUME NEW t \in Tables, NEW i \in Ids PROVE CountOK(t, i)'
      <3>1. i[1] \in Shards
        BY DEF Ids
      <3>2. Absorbed(i[1])' = Absorbed(i[1])
        BY <3>1, SteadyAbsorbed
      <3> QED BY ZenonT(30), <2>1, <3>1, <3>2 DEF CountOK, Steady
    <2>3. ASSUME NEW s \in Shards PROVE side'[s].acked <= Absorbed(s)'
      BY ZenonT(30), <2>1, SteadyAbsorbed
    <2>4. \A t \in Tables : FinalsIn(finals, t, add[t])'
      BY ZenonT(30), <2>1 DEF FinalsIn, Steady
    <2> QED BY <2>2, <2>3, <2>4
  <1>5. ReportExact'
    BY ZenonT(30) DEF Counts, ReportExact, Steady
  <1> QED BY ZenonT(30), <1>1, <1>2, <1>3, <1>4, <1>5 DEF Counts

LEMMA FlushCounts ==
    ASSUME Typed, Typed', Counts, NEW s \in Shards, NEW sc \in Side, NEW final \in BOOLEAN,
           Flush(s, sc, final), sc.stream = side[s].stream, sc.acked = side[s].acked,
           final => sc.seq = file[s] \div 2
    PROVE  Counts'
  <1> DEFINE b == [shard |-> s, stream |-> sc.stream, lo |-> sc.acked + 1, hi |-> sc.seq,
                   final |-> final, code |-> final /\ s \in exitFile, attempt |-> sc.attempt]
             st == IF final THEN "final" ELSE "push"
  <1>1. /\ side' = [side EXCEPT ![s] = [sc EXCEPT !.state = st]] /\ net' = net \cup {b}
        /\ UNCHANGED <<file, exitFile, h, owner, tables, tally, open, report, finals>>
    BY DEF Flush
  <1>2. /\ side'[s].stream = side[s].stream /\ side'[s].acked = side[s].acked
        /\ \A r \in Shards : r # s => side'[r] = side[r]
    <2>1. side'[s] = [sc EXCEPT !.state = st] /\ \A r \in Shards : r # s => side'[r] = side[r]
      BY <1>1 DEF Typed, PodsTyped
    <2> HIDE DEF st
    <2> QED BY <2>1 DEF Side
  <1> HIDE DEF st
  <1>3. Steady
    BY <1>1, <1>2 DEF Steady, tables
  <1>4. \A r \in Shards : side'[r].acked = side[r].acked
    BY <1>2
  <1>5. ASSUME NEW c, c = b PROVE BatchOK(c)'
    <2>1. /\ c.shard = s /\ c.stream = sc.stream /\ c.lo = side[s].acked + 1 /\ c.hi = sc.seq
          /\ c.code = (final /\ s \in exitFile)
      BY ZenonT(30), <1>5
    <2>2. Absorbed(s)' = Absorbed(s)
      BY <1>3, SteadyAbsorbed
    <2>3. report = None => side[s].acked + 1 <= Absorbed(s) + 1
      <3>1. report = None => side[s].acked <= Absorbed(s)
        BY ZenonT(30) DEF Counts, TablesCount
      <3> QED BY <3>1, AbsorbedTyped
    <2> HIDE DEF b
    <2> QED BY ZenonT(30), <1>1, <1>2, <2>1, <2>2, <2>3 DEF BatchOK
  <1> HIDE DEF b
  <1>6. net' \subseteq Batch /\ \A c \in net' : c \in net \/ BatchOK(c)'
    BY <1>1, <1>5 DEF Typed, RequestsTyped
  <1> QED BY <1>1, <1>3, <1>4, <1>6, SteadyCounts

\* The steps of the pods that replace none.
LEMMA PodCounts ==
    ASSUME Typed, Typed', Counts, NEW s \in Shards,
           EngineWrites(s) \/ EngineExits(s) \/ Sidecar(s) \/ Terminated(s) \/ PushLost(s)
    PROVE  Counts'
  <1>0. net' \subseteq Batch /\ side \in [Shards -> Side] /\ side[s] \in Side
    BY DEF Typed, PodsTyped, RequestsTyped
  <1>1. CASE EngineWrites(s) \/ EngineExits(s)
    <2>1. Steady
      BY ZenonT(30), <1>1 DEF EngineWrites, EngineExits, Steady, tables, Typed, PodsTyped
    <2>2. UNCHANGED <<side, net, h>>
      BY ZenonT(30), <1>1 DEF EngineWrites, EngineExits
    <2> QED BY <1>0, <2>1, <2>2, SteadyCounts
  <1>2. CASE Drain(s)
    <2>1. /\ side' = [side EXCEPT ![s] = Drained(s)] /\ UNCHANGED <<file, exitFile, net, h, tables, report, finals>>
      BY <1>2 DEF Drain
    <2>2. Drained(s).stream = side[s].stream /\ Drained(s).acked = side[s].acked
      BY ZenonT(30), DrainedTyped DEF Typed
    <2>3. \A r \in Shards : side'[r].stream = side[r].stream /\ side'[r].acked = side[r].acked
      BY <1>0, <2>1, <2>2
    <2>4. Steady
      BY <2>1, <2>3 DEF Steady, tables
    <2> QED BY <1>0, <2>1, <2>3, <2>4, SteadyCounts
  <1>3. CASE PushLost(s)
    <2> DEFINE st == IF side[s].state = "final" THEN "failed" ELSE "run"
               n == side[s].attempt + 1
               nc == [side[s] EXCEPT !.state = st, !.attempt = n]
    <2>1. side' = [side EXCEPT ![s] = nc] /\ UNCHANGED <<file, exitFile, net, h, tables, report, finals>>
      BY <1>0, <1>3 DEF PushLost, Side
    <2> HIDE DEF st, n
    <2>2. nc.stream = side[s].stream /\ nc.acked = side[s].acked
      BY <1>0 DEF Side
    <2> HIDE DEF nc
    <2>3. \A r \in Shards : side'[r].stream = side[r].stream /\ side'[r].acked = side[r].acked
      BY <1>0, <2>1, <2>2
    <2>4. Steady
      BY <2>1, <2>3 DEF Steady, tables
    <2> QED BY <1>0, <2>1, <2>3, <2>4, SteadyCounts
  <1>4. CASE FlushTick(s)
    BY ZenonT(30), <1>0, <1>4, FlushCounts DEF FlushTick
  <1>5. CASE PollTick(s) \/ Terminated(s)
    <2>1. /\ Drained(s) \in Side /\ Drained(s).stream = side[s].stream /\ Drained(s).acked = side[s].acked
          /\ Drained(s).seq = file[s] \div 2
      BY ZenonT(30), DrainedTyped DEF Typed
    <2>2. Flush(s, Drained(s), TRUE)
      BY ZenonT(30), <1>5 DEF PollTick, Terminated
    <2> DEFINE d == Drained(s)
    <2> HIDE DEF d
    <2>3. d \in Side /\ d.stream = side[s].stream /\ d.acked = side[s].acked /\ d.seq = file[s] \div 2
          /\ Flush(s, d, TRUE)
      BY <2>1, <2>2 DEF d
    <2> QED BY ZenonT(30), <2>3, FlushCounts
  <1> QED BY <1>1, <1>2, <1>3, <1>4, <1>5 DEF Sidecar

\* An answer: what it acknowledges has been absorbed.
LEMMA RespondSteady ==
    ASSUME Typed, Typed', Counts, NEW x \in Handlers, ~At(x, "idle"), NEW ok \in BOOLEAN, Respond(x, ok),
           UNCHANGED <<net, tables, report, finals>>,
           faults' = faults \/ faults' = faults + 1,
           ok /\ report = None => h[x].req.hi <= Absorbed(h[x].req.shard)
    PROVE  Counts'
  <1> DEFINE b == h[x].req
  <1>1. b \in Batch /\ Fits(b)
    BY DEF Typed, RequestsTyped, HandlerOK, Handler
  <1>2. faults' \in 0 .. MaxFaults /\ faults' >= faults /\ side' = Answered(b, ok) /\ UNCHANGED <<file, exitFile>>
    <2>1. faults \in 0 .. MaxFaults /\ faults' \in 0 .. MaxFaults
      BY DEF Typed, PodsTyped
    <2> QED BY <2>1 DEF Respond
  <1> HIDE DEF b
  <1>3. /\ SideKept
        /\ \A s \in Shards : side'[s].acked = side[s].acked \/
              (ok /\ s = b.shard /\ b.stream = side[s].stream /\ side'[s].acked = b.hi)
    BY <1>1, <1>2, AnswerTyped DEF Typed
  <1>4. Steady
    BY <1>2, <1>3 DEF Steady, SideKept, tables
  <1>5. \A y \in Handlers : h'[y] = h[y] \/ HandlerCounts(y)'
    <2>1. \A y \in Handlers : h'[y] = h[y] \/ h'[y] = Idle
      BY ZenonT(30) DEF Respond, Become, Typed, RequestsTyped
    <2> QED BY <2>1, IdleCounts
  <1>6. net' \subseteq Batch /\ \A c \in net' : c \in net
    BY ZenonT(30) DEF Typed, RequestsTyped
  <1>7. \A s \in Shards : report # None \/ side'[s].acked = side[s].acked \/ side'[s].acked <= Absorbed(s)
    BY <1>3 DEF b
  <1> QED BY ZenonT(30), <1>4, <1>5, <1>6, <1>7, SteadyCounts

LEMMA IngestCounts ==
    ASSUME Typed, Typed', Counts, NEW x \in Handlers, Ingest(x)
    PROVE  Counts'
  <1>1. PICK b \in net :
          /\ At(x, "idle") /\ net' = net \ {b}
          /\ \/ ~open /\ side' = Answered(b, FALSE) /\ UNCHANGED <<h, tally>>
             \/ open /\ Become(x, [Idle EXCEPT !.pc = "lock", !.req = b]) /\ Record(b) /\ UNCHANGED side
          /\ UNCHANGED <<file, exitFile, owner, tables, open, report, finals, faults>>
    BY ZenonT(30) DEF Ingest
  <1>2. b \in Batch /\ Fits(b) /\ BatchOK(b) /\ net' \subseteq net /\ net' \subseteq Batch
    BY <1>1 DEF Typed, RequestsTyped, Counts
  <1>3. SideKept /\ \A s \in Shards : side'[s].acked = side[s].acked
    <2>1. CASE side' = Answered(b, FALSE)
      <3>1. faults' \in 0 .. MaxFaults /\ faults' >= faults
        BY <1>1 DEF Typed, PodsTyped
      <3> QED BY ZenonT(30), <1>1, <1>2, <2>1, <3>1, AnswerTyped DEF Typed
    <2>2. CASE side' = side
      <3>1. \A s \in Shards : side[s].seq \in Int
        BY SMTT(30) DEF Typed, PodsTyped, Side, Amounts
      <3> QED BY <2>2, <3>1 DEF SideKept
    <2> QED BY ZenonT(30), <1>1, <2>1, <2>2
  <1>4. Steady
    BY <1>1, <1>3 DEF Steady, SideKept, tables
  <1>5. BatchOK(b)'
    BY <1>2, <1>4, SteadyBatch
  <1>6. ASSUME NEW y \in Handlers, h'[y] # h[y] PROVE HandlerCounts(y)'
    <2>1. h'[y] = [Idle EXCEPT !.pc = "lock", !.req = b]
      BY ZenonT(30), <1>1, <1>6 DEF Become, Typed, RequestsTyped
    <2>2. h'[y].pc = "lock" /\ h'[y].req = b
      BY <2>1 DEF Idle
    <2> QED BY ZenonT(30), <1>5, <2>2 DEF HandlerCounts, Committed, Snapped, SnapOK
  <1> QED BY <1>2, <1>3, <1>4, <1>6, SteadyCounts

\* A handler that goes on with its request, outside Answered.
LEMMA MovesCount ==
    ASSUME Typed, Typed', Counts, NEW x \in Handlers, ~At(x, "idle"), NEW l, h' = [h EXCEPT ![x] = l],
           l.req = h[x].req, l.pc \in {"discard", "close"} => report # None,
           report = None =>
              /\ l.pc \in Committed => h[x].req.hi <= Absorbed(h[x].req.shard)
              /\ SnapOK(l),
           UNCHANGED <<pods, net, shardRow, add, finals, report>>
    PROVE  Counts'
  <1>1. Steady
    BY ZenonT(30) DEF Steady, pods
  <1>2. h'[x] = l /\ \A y \in Handlers : y # x => h'[y] = h[y]
    BY ZenonT(30) DEF Typed, RequestsTyped
  <1>3. HandlerCounts(x)'
    BY ZenonT(30), <1>1, <1>2, SteadyHandler
  <1>4. net' \subseteq Batch /\ \A s \in Shards : side'[s].acked = side[s].acked
    BY DEF Typed, RequestsTyped, pods
  <1> QED BY ZenonT(30), <1>1, <1>2, <1>3, <1>4, SteadyCounts

LEMMA LockCounts ==
    ASSUME Typed, Typed', Counts, NEW x \in Handlers, LockShard(x) \/ LockRow(x)
    PROVE  Counts'
  <1>0. h[x] \in Handler /\ ~At(x, "idle") /\ UNCHANGED <<pods, net, shardRow, add, finals, report>>
    BY ZenonT(30) DEF Typed, RequestsTyped, LockShard, LockRow, At, tables
  <1>1. ASSUME NEW l, h' = [h EXCEPT ![x] = l], l.pc = "rows", l.req = h[x].req PROVE Counts'
    <2>1. l.pc \notin Committed /\ SnapOK(l)
      BY <1>1 DEF Committed, Snapped, SnapOK
    <2> QED BY ZenonT(30), <1>0, <1>1, <2>1, MovesCount
  <1>2. CASE LockShard(x)
    <2> DEFINE f == {i \in Carried(h[x].req) : i[3] > Watermark(h[x].req)}
               d == MergeProgress(f) \cup MergeSeriesSeconds(f)
               l == [h[x] EXCEPT !.pc = "rows", !.fresh = f, !.todo = d]
    <2>1. h' = [h EXCEPT ![x] = l]
      BY <1>2 DEF LockShard, Become
    <2> HIDE DEF f, d
    <2>2. l.pc = "rows" /\ l.req = h[x].req
      BY <1>0 DEF Handler
    <2> HIDE DEF l
    <2> QED BY ZenonT(30), <1>1, <2>1, <2>2
  <1>3. CASE LockRow(x)
    <2>1. PICK k \in NextRow(h[x].todo) :
            Become(x, [h[x] EXCEPT
                !.todo = @ \ {k},
                !.read = [c \in DOMAIN @ \cup InRow(k) |->
                             IF c \in DOMAIN @ THEN @[c] ELSE json[c[1]][c[2]]]])
      BY ZenonT(30), <1>3 DEF LockRow
    <2> DEFINE d == h[x].todo \ {k}
               r == [c \in DOMAIN h[x].read \cup InRow(k) |->
                        IF c \in DOMAIN h[x].read THEN h[x].read[c] ELSE json[c[1]][c[2]]]
               l == [h[x] EXCEPT !.todo = d, !.read = r]
    <2>2. h' = [h EXCEPT ![x] = l]
      BY <1>0, <2>1 DEF Become, Handler
    <2> HIDE DEF d, r
    <2>3. l.pc = "rows" /\ l.req = h[x].req
      BY ZenonT(30), <1>0, <1>3 DEF Handler, LockRow, At
    <2> HIDE DEF l
    <2> QED BY ZenonT(30), <1>1, <2>2, <2>3
  <1> QED BY <1>2, <1>3

LEMMA FinishedCounts ==
    ASSUME Typed, Typed', Counts, NEW x \in Handlers, AllShardsFinished(x)
    PROVE  Counts'
  <1>1. /\ At(x, "finished") /\ h[x] \in Handler /\ UNCHANGED <<net, tables, report, finals, faults>>
        /\ report = None => h[x].req.hi <= Absorbed(h[x].req.shard)
    BY ZenonT(30) DEF AllShardsFinished, Typed, RequestsTyped, Counts, HandlerCounts, Committed, At
  <1>2. CASE Goto(x, "labels") /\ UNCHANGED pods
    <2> DEFINE l == [h[x] EXCEPT !.pc = "labels"]
    <2>1. h' = [h EXCEPT ![x] = l] /\ l.pc = "labels" /\ l.req = h[x].req
      BY <1>1, <1>2 DEF Goto, Become, Handler
    <2> HIDE DEF l
    <2>2. SnapOK(l) /\ ~At(x, "idle")
      BY <1>1, <2>1 DEF SnapOK, Snapped, At
    <2> QED BY ZenonT(30), <1>1, <1>2, <2>1, <2>2, MovesCount DEF tables
  <1>3. CASE Respond(x, TRUE)
    BY <1>1, <1>3, RespondSteady DEF At
  <1> QED BY ZenonT(30), <1>2, <1>3 DEF AllShardsFinished

\* The statement that fails, and the end of the request that wrote the report.
LEMMA EndsCount ==
    ASSUME Typed, Typed', Counts, NEW x \in Handlers, CloseRun(x) \/ StatementFails(x)
    PROVE  Counts'
  <1>1. CASE CloseRun(x)
    <2>1. report # None /\ ~At(x, "idle")
      BY <1>1 DEF CloseRun, At, Counts, HandlerCounts
    <2> QED BY ZenonT(30), <1>1, <2>1, RespondSteady DEF CloseRun
  <1>2. CASE StatementFails(x)
    BY ZenonT(30), <1>2, RespondSteady DEF StatementFails
  <1> QED BY <1>1, <1>2

LEMMA RestartCounts ==
    ASSUME Typed, Typed', Counts, ControlPlaneRestarts
    PROVE  Counts'
  <1>1. SideKept /\ \A s \in Shards : side'[s].acked = side[s].acked
    BY RestartTyped
  <1>2. /\ h' = [x \in Handlers |-> Idle] /\ UNCHANGED <<file, exitFile, net, tables, open, report, finals>>
    BY DEF ControlPlaneRestarts
  <1>3. Steady
    BY ZenonT(30), <1>1, <1>2 DEF Steady, SideKept, tables
  <1>4. \A y \in Handlers : HandlerCounts(y)'
    BY <1>2, IdleCounts
  <1> QED BY ZenonT(30), <1>1, <1>2, <1>3, <1>4, SteadyCounts DEF Typed, RequestsTyped

\* Snapshot reads each table while it counts what the watermarks say.
LEMMA TablesAreSingle ==
    ASSUME Typed, Locks, Counts, report = None, NEW t \in Tables
    PROVE  Single(add[t]) /\ FinalsIn(finals, t, add[t]) /\ json["label"] = add["label"]
  <1>1. ASSUME NEW i \in Ids PROVE add[t][i] <= 1
    <2>1. i[1] \in Shards /\ i[2] \in Nat /\ CountOK(t, i)
      BY SMTT(30) DEF Ids, Streams, Counts, TablesCount
    <2>2. side[i[1]].stream \in Nat
      BY <2>1, AbsorbedTyped
    <2> QED BY SMTT(30), <2>1, <2>2 DEF CountOK
  <1>2. ASSUME NEW i \in Ids PROVE json["label"][i] = add["label"][i]
    <2>1. "label" \in Tables
      BY DEF Tables
    <2>2. HasRow("label", i) => Line(i).label # TotalLabel
      BY DEF HasRow
    <2> QED BY <2>1, <2>2 DEF Locks, JsonAgrees, NoRowNoCount
  <1>3. json["label"] \in [Ids -> Nat] /\ add["label"] \in [Ids -> Nat]
    BY DEF Typed, StoreTyped, Tables
  <1>4. json["label"] = add["label"]
    BY SMTT(30), <1>2, <1>3
  <1> QED BY <1>1, <1>4 DEF Single, Counts, TablesCount

LEMMA SnapshotCounts ==
    ASSUME Typed, Typed', Locks, Counts, NEW x \in Handlers, Snapshot(x)
    PROVE  Counts'
  <1>1. /\ h[x] \in Handler /\ ~At(x, "idle") /\ UNCHANGED <<pods, net, shardRow, add, finals, report>>
        /\ "label" \in Tables /\ "second" \in Tables /\ "signature" \in Tables
    BY DEF Snapshot, Typed, RequestsTyped, At, tables, Tables
  <1>2. report = None => h[x].req.hi <= Absorbed(h[x].req.shard) /\ SnapOK(h[x])
    BY DEF Snapshot, Counts, HandlerCounts, Committed, Snapped, At
  <1>3. CASE At(x, "labels")
    <2> DEFINE sn == [label |-> add["label"], latency |-> json["label"], finals |-> finals,
                      second |-> Nothing, signature |-> Nothing, clusters |-> {}]
               l == [h[x] EXCEPT !.pc = "seconds", !.snap = sn]
    <2>1. h' = [h EXCEPT ![x] = l]
      BY <1>3 DEF Snapshot, Become, At
    <2>2. sn.label = add["label"] /\ sn.latency = json["label"] /\ sn.finals = finals
      OBVIOUS
    <2> HIDE DEF sn
    <2>3. l.pc = "seconds" /\ l.req = h[x].req /\ l.snap = sn
      BY <1>1 DEF Handler
    <2> HIDE DEF l
    <2>4. report = None => SnapOK(l)
      BY <1>1, <2>2, <2>3, TablesAreSingle DEF SnapOK
    <2> QED BY ZenonT(30), <1>1, <1>2, <2>1, <2>3, <2>4, MovesCount
  <1>4. CASE At(x, "seconds")
    <2> DEFINE sn == [h[x].snap EXCEPT !.second = add["second"]]
               l == [h[x] EXCEPT !.pc = "signatures", !.snap = sn]
    <2>1. h' = [h EXCEPT ![x] = l]
      BY <1>1, <1>4 DEF Snapshot, Become, At, Handler
    <2>2. h[x].snap \in Snap
      BY <1>4 DEF Typed, RequestsTyped, HandlerOK, At, Snapped
    <2>3. /\ sn.second = add["second"] /\ sn.label = h[x].snap.label /\ sn.latency = h[x].snap.latency
          /\ sn.finals = h[x].snap.finals
      BY <2>2 DEF Snap
    <2> HIDE DEF sn
    <2>4. l.pc = "signatures" /\ l.req = h[x].req /\ l.snap = sn
      BY <1>1 DEF Handler
    <2> HIDE DEF l
    <2>5. ASSUME report = None PROVE SnapOK(l)
      <3>1. /\ Single(sn.label) /\ sn.latency = sn.label /\ FinalsIn(sn.finals, "label", sn.label)
            /\ sn.finals \subseteq finals
        BY ZenonT(30), <1>2, <1>4, <2>3, <2>5 DEF SnapOK, Snapped, At
      <3>2. Single(sn.second) /\ FinalsIn(finals, "second", sn.second)
        BY ZenonT(30), <1>1, <2>3, <2>5, TablesAreSingle
      <3>3. FinalsIn(sn.finals, "second", sn.second)
        BY ZenonT(30), <3>1, <3>2 DEF FinalsIn
      <3> QED BY <2>4, <3>1, <3>2, <3>3 DEF SnapOK
    <2> QED BY ZenonT(30), <1>1, <1>2, <2>1, <2>4, <2>5, MovesCount
  <1>5. CASE At(x, "signatures")
    <2> DEFINE sn == [h[x].snap EXCEPT !.signature = add["signature"]]
               l == [h[x] EXCEPT !.pc = "save", !.snap = sn]
    <2>1. h' = [h EXCEPT ![x] = l]
      BY <1>1, <1>5 DEF Snapshot, Become, At, Handler
    <2>2. h[x].snap \in Snap
      BY <1>5 DEF Typed, RequestsTyped, HandlerOK, At, Snapped
    <2>3. /\ sn.signature = add["signature"] /\ sn.label = h[x].snap.label /\ sn.latency = h[x].snap.latency
          /\ sn.second = h[x].snap.second /\ sn.finals = h[x].snap.finals
      BY <2>2 DEF Snap
    <2> HIDE DEF sn
    <2>4. l.pc = "save" /\ l.req = h[x].req /\ l.snap = sn
      BY <1>1 DEF Handler
    <2> HIDE DEF l
    <2>5. ASSUME report = None PROVE SnapOK(l)
      <3>1. /\ Single(sn.label) /\ sn.latency = sn.label /\ FinalsIn(sn.finals, "label", sn.label)
            /\ sn.finals \subseteq finals /\ Single(sn.second) /\ FinalsIn(sn.finals, "second", sn.second)
        BY ZenonT(30), <1>2, <1>5, <2>3, <2>5 DEF SnapOK, Snapped, At
      <3>2. FinalsIn(finals, "signature", sn.signature)
        BY ZenonT(30), <1>1, <2>3, <2>5, TablesAreSingle
      <3>3. FinalsIn(sn.finals, "signature", sn.signature)
        BY ZenonT(30), <3>1, <3>2 DEF FinalsIn
      <3> QED BY <2>4, <3>1, <3>3 DEF SnapOK
    <2> QED BY ZenonT(30), <1>1, <1>2, <2>1, <2>4, <2>5, MovesCount
  <1> QED BY <1>3, <1>4, <1>5 DEF Snapshot

\* Once there is a report, the tables owe nothing any more.
LEMMA ReportedCounts ==
    ASSUME Typed, Typed', Counts, report' # None, ReportExact', NEW x \in Handlers, ~At(x, "idle"),
           NEW l, h' = [h EXCEPT ![x] = l], l.req = h[x].req, UNCHANGED <<pods, net>>,
           \A s \in Shards : shardRow'[s] = shardRow[s] \/ shardRow'[s] = None
    PROVE  Counts'
  <1>1. ASSUME NEW b \in Batch, BatchOK(b) PROVE BatchOK(b)'
    BY ZenonT(30), <1>1 DEF BatchOK, pods
  <1>2. \A b \in net' : BatchOK(b)'
    BY ZenonT(30), <1>1 DEF Counts, Typed, RequestsTyped
  <1>3. RowsOK'
    BY DEF Counts, RowsOK, pods
  <1>4. ASSUME NEW y \in Handlers PROVE HandlerCounts(y)'
    <2>1. h'[y].req = h[y].req
      BY ZenonT(30) DEF Typed, RequestsTyped
    <2>2. h[y].req # None => h[y].req \in Batch /\ BatchOK(h[y].req)
      BY ZenonT(30) DEF Typed, RequestsTyped, Handler, Counts, HandlerCounts
    <2>3. ASSUME NEW b, b = h[y].req, b # None PROVE BatchOK(b)'
      BY ZenonT(30), <1>1, <2>2, <2>3
    <2> QED BY <2>1, <2>3 DEF HandlerCounts
  <1> QED BY ZenonT(30), <1>2, <1>3, <1>4 DEF Counts, TablesCount

LEMMA SaveReportCounts ==
    ASSUME Typed, Typed', Counts, NEW x \in Handlers, SaveReport(x)
    PROVE  Counts'
  <1> DEFINE sn == [h[x].snap EXCEPT !.clusters = tally]
             l == [h[x] EXCEPT !.pc = "discard", !.snap = None]
  <1>1. /\ h[x] \in Handler /\ At(x, "save") /\ h[x].snap \in Snap /\ tally \in SUBSET Ids
        /\ report' = (IF report = None THEN sn ELSE report) /\ h' = [h EXCEPT ![x] = l]
        /\ UNCHANGED <<pods, net, shardRow>>
    BY DEF SaveReport, Typed, RequestsTyped, HandlerOK, At, Become, Snapped, StoreTyped, tables
  <1>2. /\ sn \in Snap /\ sn.label = h[x].snap.label /\ sn.latency = h[x].snap.latency
        /\ sn.second = h[x].snap.second /\ sn.signature = h[x].snap.signature /\ sn.finals = h[x].snap.finals
    BY <1>1 DEF Snap
  <1> HIDE DEF sn
  <1>3. l.req = h[x].req /\ ~At(x, "idle")
    BY <1>1 DEF Handler, At
  <1> HIDE DEF l
  <1>4. report' # None
    BY ZenonT(30), <1>1, <1>2, ProgressAssumption
  <1>5. ReportExact'
    <2>1. CASE report # None
      BY ZenonT(30), <1>1, <2>1 DEF Counts, ReportExact
    <2>2. CASE report = None
      <3>1. SnapOK(h[x])
        BY <2>2 DEF Counts, HandlerCounts
      <3>2. /\ Single(sn.label) /\ sn.latency = sn.label /\ FinalsIn(sn.finals, "label", sn.label)
            /\ Single(sn.second) /\ FinalsIn(sn.finals, "second", sn.second)
            /\ FinalsIn(sn.finals, "signature", sn.signature)
        BY ZenonT(30), <1>1, <1>2, <3>1 DEF SnapOK, Snapped, At
      <3>3. \A i : HasRow("second", i)
        BY DEF HasRow
      <3>4. report' = sn
        BY <1>1, <2>2
      <3> QED BY ZenonT(30), <3>2, <3>3, <3>4 DEF ReportExact, Single, FinalsIn
    <2> QED BY <2>1, <2>2
  <1> QED BY ZenonT(30), <1>1, <1>3, <1>4, <1>5, ReportedCounts

LEMMA DiscardCounts ==
    ASSUME Typed, Typed', Counts, NEW x \in Handlers, Discard(x)
    PROVE  Counts'
  <1> DEFINE t == DiscardOrder[h[x].deleted + 1]
             n == h[x].deleted + 1
             pc == IF t = "shard" THEN "close" ELSE "discard"
             l == [h[x] EXCEPT !.deleted = n, !.pc = pc]
  <1>1. /\ h[x] \in Handler /\ At(x, "discard") /\ report # None
        /\ UNCHANGED <<pods, net, report>>
        /\ shardRow' = shardRow \/ shardRow' = [s \in Shards |-> None]
    BY DEF Discard, Typed, RequestsTyped, At, Counts, HandlerCounts
  <1>2. h' = [h EXCEPT ![x] = l]
    BY <1>1 DEF Discard, Become, At, Handler
  <1> HIDE DEF n, pc
  <1>3. l.req = h[x].req /\ ~At(x, "idle")
    BY <1>1 DEF Handler, At
  <1> HIDE DEF l
  <1>4. ReportExact'
    BY <1>1 DEF Counts, ReportExact
  <1> QED BY ZenonT(30), <1>1, <1>2, <1>3, <1>4, ReportedCounts

\* A replaced pod starts a stream that the tables know nothing of; its predecessor's
\* requests are gone with it.
LEMMA PodReplacedCounts ==
    ASSUME ~LateStreams, Typed, Typed', Counts, NEW s \in Shards, PodReplaced(s)
    PROVE  Counts'
  <1> DEFINE mine == {x \in Handlers : h[x].req # None /\ h[x].req.shard = s}
             m == side[s].stream + 1
  <1>1. /\ side' = [side EXCEPT ![s] = NewSidecar(m)]
        /\ h' = [x \in Handlers |-> IF x \in mine THEN Idle ELSE h[x]]
        /\ net' = {b \in net : b.shard # s}
        /\ file' = [file EXCEPT ![s] = 0] /\ exitFile' = exitFile \ {s}
        /\ UNCHANGED <<shardRow, add, finals, report>>
    BY ZenonT(30) DEF PodReplaced, tables
  <1>2. /\ side'[s].stream = m /\ side'[s].acked = 0 /\ m \in Nat /\ side[s].stream \in Nat
        /\ \A r \in Shards : r # s => side'[r] = side[r] /\ file'[r] = file[r]
    <2>1. side'[s] = NewSidecar(m) /\ \A r \in Shards : r # s => side'[r] = side[r] /\ file'[r] = file[r]
      BY ZenonT(30), <1>1 DEF Typed, PodsTyped
    <2>2. side[s].stream \in Nat
      BY ZenonT(30), AbsorbedTyped
    <2>3. m \in Nat
      BY <2>2
    <2>4. NewSidecar(m).stream = m /\ NewSidecar(m).acked = 0
      BY DEF NewSidecar
    <2> HIDE DEF m
    <2> QED BY ZenonT(30), <2>1, <2>2, <2>3, <2>4
  <1>3. ASSUME NEW r \in Shards, r # s PROVE Absorbed(r)' = Absorbed(r)
    BY ZenonT(30), <1>1, <1>2, <1>3 DEF Absorbed
  <1>4. Absorbed(s)' = 0
    <2>1. shardRow[s] # None => shardRow[s].stream <= side[s].stream /\ shardRow[s].stream \in Nat
      BY ZenonT(30), AbsorbedTyped DEF Counts, RowsOK
    <2>2. shardRow[s] # None => shardRow[s].stream # m
      BY SMTT(30), <1>2, <2>1
    <2> QED BY ZenonT(30), <1>1, <1>2, <2>2 DEF Absorbed
  <1>5. ASSUME NEW b \in Batch, b.shard # s, BatchOK(b) PROVE BatchOK(b)'
    <2>1. b.shard \in Shards
      BY BatchTyped
    <2>2. Absorbed(b.shard)' = Absorbed(b.shard)
      BY <1>3, <1>5, <2>1
    <2> QED BY ZenonT(30), <1>1, <1>2, <1>5, <2>1, <2>2 DEF BatchOK
  <1>6. \A b \in net' : BatchOK(b)'
    BY ZenonT(30), <1>1, <1>5 DEF Counts, Typed, RequestsTyped
  <1>7. RowsOK'
    <2>1. ASSUME NEW r \in Shards, shardRow[r] # None PROVE shardRow[r].stream <= side'[r].stream
      <3>1. shardRow[r].stream <= side[r].stream /\ shardRow[r].stream \in Nat
        BY <2>1, AbsorbedTyped DEF Counts, RowsOK
      <3> QED BY SMTT(30), <1>2, <3>1
    <2> QED BY ZenonT(30), <1>1, <2>1 DEF RowsOK
  <1>8. ASSUME NEW x \in Handlers PROVE HandlerCounts(x)'
    <2>1. CASE x \in mine
      BY ZenonT(30), <1>1, <2>1, IdleCounts
    <2>2. CASE x \notin mine
      <3>1. h'[x] = h[x] /\ (h[x].req # None => h[x].req \in Batch /\ h[x].req.shard # s /\ h[x].req.shard \in Shards)
        BY <1>1, <2>2, BatchTyped DEF Typed, RequestsTyped, Handler
      <3>2. HandlerCounts(x)
        BY DEF Counts
      <3>3. ASSUME NEW b, b = h[x].req, b # None PROVE BatchOK(b)' /\ Absorbed(b.shard)' = Absorbed(b.shard)
        BY ZenonT(30), <1>3, <1>5, <3>1, <3>2, <3>3 DEF HandlerCounts
      <3>4. h[x].pc \in Committed => h[x].req # None
        BY ZenonT(30) DEF Committed, Snapped, Typed, RequestsTyped, HandlerOK, At
      <3>5. ASSUME NEW l, SnapOK(l) PROVE SnapOK(l)'
        BY <1>1, <3>5 DEF SnapOK
      <3> QED BY ZenonT(30), <1>1, <3>1, <3>2, <3>3, <3>4, <3>5 DEF HandlerCounts
    <2> QED BY <2>1, <2>2
  <1>9. TablesCount'
    <2> SUFFICES ASSUME report = None
                 PROVE  /\ \A r \in Shards : side'[r].acked <= Absorbed(r)'
                        /\ \A t \in Tables, i \in Ids : CountOK(t, i)'
                        /\ \A t \in Tables : FinalsIn(finals, t, add[t])'
      BY <1>1 DEF TablesCount
    <2>1. /\ \A r \in Shards : side[r].acked <= Absorbed(r)
          /\ \A t \in Tables, i \in Ids : CountOK(t, i)
          /\ \A t \in Tables : FinalsIn(finals, t, add[t])
      BY ZenonT(30) DEF Counts, TablesCount
    <2>2. \A r \in Shards : side'[r].acked <= Absorbed(r)'
      <3>1. ASSUME NEW r \in Shards, r # s PROVE side'[r].acked <= Absorbed(r)'
        BY ZenonT(30), <1>2, <1>3, <2>1, <3>1
      <3>2. side'[s].acked <= Absorbed(s)'
        <4>1. side'[s].acked = 0 /\ Absorbed(s)' = 0
          BY ZenonT(30), <1>2, <1>4
        <4> QED BY <4>1
      <3> QED BY ZenonT(30), <3>1, <3>2
    <2>3. ASSUME NEW t \in Tables, NEW i \in Ids PROVE CountOK(t, i)'
      <3>1. i[1] \in Shards /\ i[2] \in Nat /\ i[3] \in Nat \ {0} /\ add'[t][i] = add[t][i] /\ CountOK(t, i)
        BY SMTT(30), <1>1, <2>1 DEF Ids, Streams, Seqs
      <3>2. CASE i[1] # s
        <4>1. side'[i[1]] = side[i[1]] /\ Absorbed(i[1])' = Absorbed(i[1])
          BY ZenonT(30), <1>2, <1>3, <3>1, <3>2
        <4> QED BY ZenonT(30), <3>1, <4>1 DEF CountOK
      <3>3. CASE i[1] = s
        <4>0. side[s].stream \in Nat /\ side'[s].stream = side[s].stream + 1 /\ Absorbed(s)' = 0
          BY <1>2, <1>4
        <4>1. i[2] <= side[s].stream => add[t][i] <= 1
          BY SMTT(30), <3>1, <3>3, <4>0 DEF CountOK
        <4>2. i[2] > side[s].stream => add[t][i] = 0
          BY ZenonT(30), <3>1, <3>3 DEF CountOK
        <4> QED BY SMTT(30), <3>1, <3>3, <4>0, <4>1, <4>2 DEF CountOK
      <3> QED BY <3>2, <3>3
    <2>4. \A t \in Tables : FinalsIn(finals, t, add[t])'
      BY ZenonT(30), <1>1, <2>1 DEF FinalsIn
    <2> QED BY <2>2, <2>3, <2>4
  <1>10. ReportExact'
    BY ZenonT(30), <1>1 DEF Counts, ReportExact
  <1> QED BY <1>6, <1>7, <1>8, <1>9, <1>10 DEF Counts

\* The watermark an Absorb leaves: all its batch has been absorbed.
LEMMA AbsorbMark ==
    ASSUME Typed, Typed', Locks, Counts, NEW x \in Handlers, Absorb(x), NEW b, b = h[x].req
    PROVE  /\ b \in Batch /\ BatchOK(b) /\ Watermark(b) = Absorbed(b.shard) /\ SideKept
           /\ \A s \in Shards : s # b.shard => shardRow'[s] = shardRow[s] /\ Absorbed(s)' = Absorbed(s)
           /\ Absorbed(b.shard)' = IF h[x].fresh = {} THEN Absorbed(b.shard) ELSE b.hi
           /\ Absorbed(b.shard)' >= Absorbed(b.shard)
           /\ shardRow'[b.shard] # None /\ shardRow'[b.shard].stream = b.stream
           /\ \A i \in Ids : i \in h[x].fresh <=>
                 i[1] = b.shard /\ i[2] = b.stream /\ b.lo <= i[3] /\ i[3] <= b.hi /\ i[3] > Absorbed(b.shard)
  <1> DEFINE w == IF h[x].fresh = {} THEN Watermark(b) ELSE b.hi
             fin == b.final \/ (shardRow[b.shard] # None /\ shardRow[b.shard].finished)
             cod == b.code \/ (shardRow[b.shard] # None /\ shardRow[b.shard].code)
             row == [stream |-> b.stream, seq |-> w, finished |-> fin, code |-> cod]
  <1>1. At(x, "rows") /\ b \in Batch /\ b # None /\ BatchOK(b) /\ SideKept
    BY ZenonT(30), AbsorbTyped, ProgressAssumption DEF Absorb, Typed, RequestsTyped, HandlerOK, Handler, At, Counts, HandlerCounts
  <1>2. b.shard \in Shards /\ b.lo \in Nat \ {0} /\ b.hi \in Nat /\ b.stream \in Streams
    BY <1>1, BatchTyped
  <1>3. Watermark(b) = Absorbed(b.shard)
    BY ZenonT(30), <1>1 DEF Watermark, Absorbed, BatchOK
  <1>4. shardRow' = [shardRow EXCEPT ![b.shard] = row]
    BY ZenonT(30) DEF Absorb
  <1>5. shardRow'[b.shard] = row /\ \A s \in Shards : s # b.shard => shardRow'[s] = shardRow[s]
    BY ZenonT(30), <1>2, <1>4 DEF Typed, StoreTyped
  <1>6. row.stream = b.stream /\ row.seq = w
    BY ZenonT(30)
  <1>7. row # None
    <2>1. row.stream \in Streams
      BY ZenonT(30), <1>2
    <2> HIDE DEF w, fin, cod
    <2>4. fin \in BOOLEAN /\ cod \in BOOLEAN
      BY DEF fin, cod
    <2>5. w \in Seqs \cup {0}
      <3>1. Absorbed(b.shard) \in Amounts /\ b.hi \in Amounts
        BY ZenonT(30), <1>1, <1>2, AbsorbedTyped, BatchTyped
      <3> QED BY SMTT(30), <1>3, <3>1, ProgressAssumption DEF w, Seqs, Amounts
    <2>6. row \in Store!ShardStream
      BY <2>1, <2>4, <2>5, <1>2 DEF Store!ShardStream
    <2> QED BY <2>6, ProgressAssumption
  <1> HIDE DEF row
  <1>8. side'[b.shard].stream = b.stream
    BY ZenonT(30), <1>1, <1>2 DEF BatchOK, SideKept
  <1>9. Absorbed(b.shard)' = w
    BY <1>5, <1>6, <1>7, <1>8 DEF Absorbed
  <1>10. \A s \in Shards : s # b.shard => Absorbed(s)' = Absorbed(s)
    BY <1>1, <1>5 DEF Absorbed, SideKept
  <1>11. h[x].fresh = {i \in Carried(b) : i[3] > Absorbed(b.shard)}
    BY ZenonT(30), <1>1, <1>3 DEF Locks, LocksOK, HoldsShard
  <1>12. ASSUME NEW i \in Ids
         PROVE  i \in h[x].fresh <=>
                 i[1] = b.shard /\ i[2] = b.stream /\ b.lo <= i[3] /\ i[3] <= b.hi /\ i[3] > Absorbed(b.shard)
    <2>1. i = <<i[1], i[2], i[3]>> /\ i[3] \in Nat
      BY DEF Ids, Seqs
    <2>2. /\ \A n : <<b.shard, b.stream, n>> \in Carried(b) <=> n \in b.lo .. b.hi
          /\ \A j \in Carried(b) : j = <<b.shard, b.stream, j[3]>> /\ j[3] \in b.lo .. b.hi
      BY ZenonT(30), <1>1, CarriedFacts
    <2>3. ASSUME i \in h[x].fresh
          PROVE  i[1] = b.shard /\ i[2] = b.stream /\ b.lo <= i[3] /\ i[3] <= b.hi /\ i[3] > Absorbed(b.shard)
      <3>1. i = <<b.shard, b.stream, i[3]>> /\ i[3] \in b.lo .. b.hi /\ i[3] > Absorbed(b.shard)
        BY ZenonT(30), <1>11, <2>2, <2>3
      <3> QED BY SMTT(30), <1>2, <3>1
    <2>4. ASSUME i[1] = b.shard, i[2] = b.stream, b.lo <= i[3], i[3] <= b.hi, i[3] > Absorbed(b.shard)
          PROVE  i \in h[x].fresh
      <3>1. i = <<b.shard, b.stream, i[3]>> /\ i[3] \in b.lo .. b.hi
        BY <1>2, <2>1, <2>4
      <3> QED BY ZenonT(30), <1>11, <2>2, <2>4, <3>1
    <2> QED BY <2>3, <2>4
  <1>13. w >= Absorbed(b.shard)
    <2>1. Absorbed(b.shard) \in Nat
      BY <1>2, AbsorbedTyped
    <2>2. CASE h[x].fresh = {}
      BY SMTT(30), <1>3, <2>1, <2>2
    <2>3. CASE h[x].fresh # {}
      <3>1. PICK i \in h[x].fresh : TRUE
        BY <2>3
      <3>2. i \in Ids /\ i[3] \in Nat
        BY SMTT(30), <3>1 DEF Ids, Seqs, Typed, RequestsTyped, Handler
      <3> QED BY <1>2, <1>12, <2>1, <2>3, <3>1, <3>2
    <2> QED BY <2>2, <2>3
  <1>14. w = IF h[x].fresh = {} THEN Absorbed(b.shard) ELSE b.hi
    BY <1>3
  <1> HIDE DEF w
  <1> QED BY ZenonT(30), <1>1, <1>3, <1>5, <1>6, <1>7, <1>9, <1>10, <1>12, <1>13, <1>14

LEMMA AbsorbCounts ==
    ASSUME Typed, Typed', Locks, Counts, NEW x \in Handlers, Absorb(x)
    PROVE  Counts'
  <1>0. PICK b : b = h[x].req
    OBVIOUS
  <1>1. /\ b \in Batch /\ BatchOK(b) /\ SideKept
        /\ \A s \in Shards : s # b.shard => shardRow'[s] = shardRow[s] /\ Absorbed(s)' = Absorbed(s)
        /\ Absorbed(b.shard)' = (IF h[x].fresh = {} THEN Absorbed(b.shard) ELSE b.hi)
        /\ Absorbed(b.shard)' >= Absorbed(b.shard)
        /\ shardRow'[b.shard] # None /\ shardRow'[b.shard].stream = b.stream
        /\ \A i \in Ids : i \in h[x].fresh <=>
              i[1] = b.shard /\ i[2] = b.stream /\ b.lo <= i[3] /\ i[3] <= b.hi /\ i[3] > Absorbed(b.shard)
    BY ZenonT(30), <1>0, AbsorbMark
  <1>batch. b \in Batch /\ BatchOK(b) /\ SideKept
    BY ZenonT(30), <1>1
  <1>others. \A s \in Shards : s # b.shard => shardRow'[s] = shardRow[s] /\ Absorbed(s)' = Absorbed(s)
    BY ZenonT(30), <1>1
  <1>mark. /\ Absorbed(b.shard)' = (IF h[x].fresh = {} THEN Absorbed(b.shard) ELSE b.hi)
           /\ Absorbed(b.shard)' >= Absorbed(b.shard)
    BY ZenonT(30), <1>1
  <1>row. shardRow'[b.shard] # None /\ shardRow'[b.shard].stream = b.stream
    BY ZenonT(30), <1>1
  <1>fresh. \A i \in Ids : i \in h[x].fresh <=>
              i[1] = b.shard /\ i[2] = b.stream /\ b.lo <= i[3] /\ i[3] <= b.hi /\ i[3] > Absorbed(b.shard)
    BY ZenonT(30), <1>1
  <1>current. b.stream = side[b.shard].stream
    BY ZenonT(30), <1>batch DEF BatchOK
  <1>2. b.shard \in Shards /\ b.lo \in Nat \ {0} /\ b.hi \in Nat /\ b.stream \in Nat
    BY <1>batch, BatchTyped
  <1>bounded. b.hi \in Amounts /\ b.stream \in Streams
    BY <1>batch, BatchTyped
  <1>3. /\ UNCHANGED <<file, exitFile, net, report, faults>> /\ ~At(x, "idle") /\ h[x] \in Handler /\ Fits(b)
        /\ finals' = IF b.final THEN finals \cup {<<b.shard, b.stream, IF b.code THEN file[b.shard] \div 2 ELSE b.hi>>}
                     ELSE finals
    BY ZenonT(30), <1>0, <1>batch, ProgressAssumption
       DEF Absorb, At, Respond, pods, Typed, RequestsTyped, HandlerOK
  <1>4. \A s \in Shards :
           Absorbed(s) \in Nat /\ Absorbed(s)' \in Nat /\ Absorbed(s)' >= Absorbed(s)
    <2>1. ASSUME NEW s \in Shards PROVE Absorbed(s) \in Nat
      BY AbsorbedTyped
    <2>2. Absorbed(b.shard)' \in Nat
      BY <1>mark, <1>2, <2>1
    <2> QED BY SMTT(30), <1>others, <1>mark, <2>1, <2>2
  <1>side. \A s \in Shards : side[s].stream \in Nat /\ side[s].acked \in Nat /\ side'[s].stream = side[s].stream
    <2>1. ASSUME NEW s \in Shards PROVE side[s].stream \in Nat /\ side[s].acked \in Nat
      BY ZenonT(30), AbsorbedTyped
    <2> QED BY ZenonT(30), <1>batch, <2>1 DEF SideKept
  <1>5. ASSUME NEW c \in Batch, BatchOK(c) PROVE BatchOK(c)'
    <2>1. c.shard \in Shards /\ c.lo \in Nat
      BY BatchTyped
    <2>2. file' = file /\ exitFile' = exitFile /\ report' = report
      BY ZenonT(30), <1>3
    <2>3. side'[c.shard].stream = side[c.shard].stream
      BY ZenonT(30), <1>side, <2>1
    <2>4. Absorbed(c.shard) \in Nat /\ Absorbed(c.shard)' \in Nat /\ Absorbed(c.shard)' >= Absorbed(c.shard)
      BY ZenonT(30), <1>4, <2>1
    <2>5. report = None => c.lo <= Absorbed(c.shard)' + 1
      BY ZenonT(30), <1>5, <2>1, <2>4, StaysNext DEF BatchOK
    <2> QED BY ZenonT(30), <1>5, <2>2, <2>3, <2>5 DEF BatchOK
  <1>6. \A c \in net' : BatchOK(c)'
    BY ZenonT(30), <1>3, <1>5 DEF Counts, Typed, RequestsTyped
  <1>7. RowsOK'
    <2>2. ASSUME NEW s \in Shards, shardRow'[s] # None PROVE shardRow'[s].stream <= side'[s].stream
      <3>1. CASE s = b.shard
        <4>1. shardRow'[s].stream = side'[s].stream /\ side'[s].stream \in Nat
          BY ZenonT(30), <1>row, <1>2, <1>current, <1>side, <3>1
        <4> QED BY <4>1
      <3>2. CASE s # b.shard
        BY <1>others, <1>side, <2>2, <3>2 DEF Counts, RowsOK
      <3> QED BY <3>1, <3>2
    <2> QED BY <2>2 DEF RowsOK
  \* All of the batch has been absorbed: it goes on where the watermark is or earlier.
  <1>8. report = None => b.hi <= Absorbed(b.shard)' /\ b.lo <= Absorbed(b.shard) + 1
    <2> SUFFICES ASSUME report = None PROVE b.hi <= Absorbed(b.shard)' /\ b.lo <= Absorbed(b.shard) + 1
      OBVIOUS
    <2>1. b.lo <= Absorbed(b.shard) + 1
      BY ZenonT(30), <1>batch DEF BatchOK
    <2>0. Absorbed(b.shard) \in Nat /\ Absorbed(b.shard)' \in Nat
      BY ZenonT(30), <1>2, <1>4
    <2>2. CASE h[x].fresh # {}
      BY SMTT(30), <1>mark, <1>2, <2>1, <2>2
    <2>3. CASE h[x].fresh = {} /\ b.hi > Absorbed(b.shard)
      <3>1. <<b.shard, b.stream, b.hi>> \in Ids
        <4>1. b.hi \in Seqs
          BY SMTT(30), <1>bounded, <2>0, <2>3 DEF Seqs, Amounts
        <4> QED BY <1>2, <1>bounded, <4>1 DEF Ids
      <3>2. b.lo <= b.hi
        BY ZenonT(30), <1>2, <2>0, <2>1, <2>3, Reaches
      <3>3. <<b.shard, b.stream, b.hi>> \in h[x].fresh
        BY SMTT(30), <1>fresh, <1>2, <2>3, <3>1, <3>2
      <3> QED BY <2>3, <3>3
    <2>4. CASE h[x].fresh = {} /\ ~(b.hi > Absorbed(b.shard))
      <3>1. Absorbed(b.shard)' = Absorbed(b.shard)
        BY ZenonT(30), <1>mark, <2>4
      <3>2. b.hi <= Absorbed(b.shard)
        BY ZenonT(30), <1>2, <2>0, <2>4, NotAbove
      <3> QED BY ZenonT(30), <2>1, <3>1, <3>2
    <2> QED BY <2>2, <2>3, <2>4
  <1>9. ASSUME NEW y \in Handlers PROVE HandlerCounts(y)'
    <2>1. ASSUME NEW l, SnapOK(l) PROVE SnapOK(l)'
      <3>1. finals \subseteq finals'
        BY <1>3
      <3> QED BY <2>1, <3>1 DEF SnapOK
    <2>2. CASE y # x
      <3>1. h'[y] = h[y] /\ HandlerCounts(y) /\ (h[y].req # None => h[y].req \in Batch)
        BY ZenonT(30), <2>2 DEF Absorb, Goto, Respond, Become, Counts, Typed, RequestsTyped, Handler
      <3>2. ASSUME NEW c, c = h[y].req, c # None
            PROVE  BatchOK(c)' /\ c.shard \in Shards /\ c.hi \in Nat
        BY <1>5, <3>1, <3>2, BatchTyped DEF HandlerCounts
      <3>3. h[y].pc \in Committed => h[y].req # None
        BY DEF Committed, Snapped, Typed, RequestsTyped, HandlerOK, At
      <3>4. report = None /\ h[y].pc \in Committed => h[y].req.hi <= Absorbed(h[y].req.shard)
        BY <3>1 DEF HandlerCounts
      <3>5. ASSUME report = None, h[y].pc \in Committed, NEW c, c = h[y].req PROVE c.hi <= Absorbed(c.shard)'
        <4>1. c # None /\ c.shard \in Shards /\ c.hi \in Nat /\ c.hi <= Absorbed(c.shard)
          BY ZenonT(30), <3>2, <3>3, <3>4, <3>5
        <4>2. Absorbed(c.shard) \in Nat /\ Absorbed(c.shard)' \in Nat /\ Absorbed(c.shard)' >= Absorbed(c.shard)
          BY ZenonT(30), <1>4, <4>1
        <4> QED BY SMTT(30), <4>1, <4>2
      <3>6. report' = report
        BY <1>3
      <3> QED BY ZenonT(30), <2>1, <3>1, <3>2, <3>3, <3>5, <3>6 DEF HandlerCounts
    <2>3. CASE y = x /\ h'[x] = Idle
      BY <2>3, IdleCounts
    <2>4. CASE y = x /\ h'[x] # Idle
      <3>1. h' = [h EXCEPT ![x] = [h[x] EXCEPT !.pc = "finished"]] \/ h' = [h EXCEPT ![x] = Idle]
        BY ZenonT(30) DEF Absorb, Goto, Respond, Become
      <3>2. h'[x] = [h[x] EXCEPT !.pc = "finished"]
        BY <2>4, <3>1 DEF Typed, RequestsTyped
      <3>3. h'[x].pc = "finished" /\ h'[x].req = b
        BY <1>0, <1>3, <3>2 DEF Handler
      <3>4. BatchOK(b)'
        BY <1>batch, <1>5
      <3>5. report' = report
        BY <1>3
      <3> QED BY <1>8, <2>4, <3>3, <3>4, <3>5 DEF HandlerCounts, SnapOK, Snapped
    <2> QED BY <2>2, <2>3, <2>4
  <1>10. TablesCount'
    <2> SUFFICES ASSUME report = None
                 PROVE  /\ \A s \in Shards : side'[s].acked <= Absorbed(s)'
                        /\ \A t \in Tables, i \in Ids : CountOK(t, i)'
                        /\ \A t \in Tables : FinalsIn(finals, t, add[t])'
      BY ZenonT(30), <1>3 DEF TablesCount
    <2>1. /\ \A s \in Shards : side[s].acked <= Absorbed(s)
          /\ \A t \in Tables, i \in Ids : CountOK(t, i)
          /\ \A t \in Tables : FinalsIn(finals, t, add[t])
      BY DEF Counts, TablesCount
    <2>2. ASSUME NEW s \in Shards PROVE side'[s].acked <= Absorbed(s)'
      <3>1. \/ side' = side
            \/ side' = Answered(b, TRUE)
        BY ZenonT(30), <1>0 DEF Absorb, Respond, pods
      <3>2. side'[s].acked = side[s].acked \/ (s = b.shard /\ side'[s].acked = b.hi)
        <4>1. faults' \in 0 .. MaxFaults /\ faults' >= faults
          BY SMTT(30), <1>3 DEF Typed, PodsTyped
        <4> QED BY ZenonT(30), <1>batch, <1>3, <3>1, <4>1, AnswerTyped DEF Typed
      <3>3. side[s].acked \in Nat /\ side[s].acked <= Absorbed(s)
        BY ZenonT(30), <1>side, <2>1
      <3>4. Absorbed(s) \in Nat /\ Absorbed(s)' \in Nat /\ Absorbed(s)' >= Absorbed(s)
        BY ZenonT(30), <1>4
      <3>5. side[s].acked <= Absorbed(s)'
        BY ZenonT(30), <3>3, <3>4, StaysBelow
      <3> QED BY ZenonT(30), <1>8, <3>2, <3>5
    <2>3. \A t \in Tables, i \in Ids :
             /\ add[t][i] \in Nat
             /\ add'[t][i] = add[t][i] + (IF i \in h[x].fresh /\ HasRow(t, i) THEN 1 ELSE 0)
      BY ZenonT(30), AbsorbTables DEF Typed, StoreTyped
    <2>4. ASSUME NEW t \in Tables, NEW i \in Ids PROVE CountOK(t, i)'
      <3>1. i[1] \in Shards /\ i[2] \in Nat /\ i[3] \in Nat \ {0} /\ CountOK(t, i)
        BY <2>1 DEF Ids, Streams, Seqs
      <3>2. add[t][i] \in Nat /\ add'[t][i] = add[t][i] + (IF i \in h[x].fresh /\ HasRow(t, i) THEN 1 ELSE 0)
        BY ZenonT(30), <2>3
      <3>3. CASE ~(i[1] = b.shard /\ i[2] = b.stream)
        <4>1. add'[t][i] = add[t][i]
          <5>1. i \notin h[x].fresh
            BY ZenonT(30), <1>fresh, <3>3
          <5> QED BY <3>2, <5>1
        <4>2. i[1] # b.shard => Absorbed(i[1])' = Absorbed(i[1])
          BY ZenonT(30), <1>others, <3>1
        <4>3. i[2] = side[i[1]].stream => i[1] # b.shard
          BY ZenonT(30), <1>current, <3>3
        <4>4. side'[i[1]].stream = side[i[1]].stream
          BY ZenonT(30), <1>side, <3>1
        <4> QED BY ZenonT(30), <3>1, <4>1, <4>2, <4>3, <4>4 DEF CountOK
      <3>4. CASE i[1] = b.shard /\ i[2] = b.stream
        <4>1. add[t][i] = IF HasRow(t, i) /\ i[3] <= Absorbed(b.shard) THEN 1 ELSE 0
          BY <3>1, <1>current, <1>2, <3>4 DEF CountOK
        <4>2. i \in h[x].fresh <=> b.lo <= i[3] /\ i[3] <= b.hi /\ i[3] > Absorbed(b.shard)
          BY ZenonT(30), <1>fresh, <3>4
        <4>0. Absorbed(b.shard) \in Nat /\ Absorbed(b.shard)' \in Nat
          BY ZenonT(30), <1>2, <1>4
        <4>3. i[3] <= Absorbed(b.shard)' <=> i[3] <= Absorbed(b.shard) \/ i \in h[x].fresh
          <5>1. CASE h[x].fresh = {}
            BY <1>mark, <5>1
          <5>2. CASE h[x].fresh # {}
            <6>1. Absorbed(b.shard)' = b.hi /\ b.hi >= Absorbed(b.shard)
              BY ZenonT(30), <1>mark, <5>2
            <6> QED BY ZenonT(30), <1>2, <1>8, <3>1, <4>0, <4>2, <6>1, MarkRises
          <5> QED BY <5>1, <5>2
        <4>4. add'[t][i] = IF HasRow(t, i) /\ i[3] <= Absorbed(b.shard)' THEN 1 ELSE 0
          BY SMTT(30), <3>1, <3>2, <4>0, <4>1, <4>2, <4>3
        <4>5. i[2] = side'[i[1]].stream /\ side'[i[1]].stream \in Nat
          BY ZenonT(30), <1>2, <1>current, <1>side, <3>4
        <4> QED BY SMTT(30), <3>1, <3>4, <4>4, <4>5 DEF CountOK
      <3> QED BY <3>3, <3>4
    <2>5. ASSUME NEW t \in Tables PROVE FinalsIn(finals', t, add'[t])
      <3> SUFFICES ASSUME NEW f \in finals', NEW n \in 1 .. f[3], HasRow(t, <<f[1], f[2], n>>)
                   PROVE  add'[t][<<f[1], f[2], n>>] = 1
        BY DEF FinalsIn
      <3> DEFINE i == <<f[1], f[2], n>>
      <3>1. f \in Shards \X Streams \X Amounts
        BY DEF Typed, StoreTyped
      <3>2. i \in Ids /\ i[1] = f[1] /\ i[2] = f[2] /\ i[3] = n /\ f[1] \in Shards /\ f[2] \in Nat /\ n \in Nat /\ f[3] \in Nat
        BY SMTT(30), <3>1, ProgressAssumption DEF Ids, Seqs, Amounts, Streams
      <3>3. CASE f \in finals
        <4>1. add[t][i] = 1
          BY <2>1, <3>3 DEF FinalsIn
        <4>2. add'[t][i] <= 1
          <5>1. CountOK(t, i)'
            BY ZenonT(30), <2>4, <3>2
          <5>2. i[2] \in Nat /\ side'[i[1]].stream \in Nat
            BY <1>side, <3>2
          <5> QED BY SMTT(30), <5>1, <5>2 DEF CountOK
        <4>3. add'[t][i] = add[t][i] + 0 \/ add'[t][i] = add[t][i] + 1
          BY <2>3, <3>2
        <4> QED BY <4>1, <4>2, <4>3
      <3>4. CASE f \notin finals
        <4>1. f = <<b.shard, b.stream, b.hi>>
          <5>1. b.code => b.hi = file[b.shard] \div 2
            BY ZenonT(30), <1>batch DEF BatchOK
          <5> QED BY <1>3, <3>4, <5>1
        <4>2. f[1] = b.shard /\ f[2] = b.stream /\ n <= b.hi /\ b.stream = side[b.shard].stream
          BY SMTT(30), <1>current, <4>1
        <4>3. n <= Absorbed(b.shard)'
          <5>1. Absorbed(b.shard)' \in Nat
            BY ZenonT(30), <1>2, <1>4
          <5> QED BY SMTT(30), <1>2, <1>8, <3>2, <4>2, <5>1
        <4>4. CountOK(t, i)'
          BY ZenonT(30), <2>4, <3>2
        <4>5. side'[i[1]].stream = i[2]
          BY ZenonT(30), <1>2, <1>side, <3>2, <4>2
        <4>6. HasRow(t, i)
          OBVIOUS
        <4>7. i[2] \in Nat /\ i[3] <= Absorbed(i[1])'
          BY <3>2, <4>2, <4>3
        <4> HIDE DEF i
        <4>8. add'[t][i] = 1
          BY <4>4, <4>5, <4>6, <4>7 DEF CountOK
        <4> QED BY <4>8 DEF i
      <3> QED BY <3>3, <3>4
    <2> QED BY <2>2, <2>4, <2>5
  <1>11. ReportExact'
    BY <1>3 DEF Counts, ReportExact
  <1> QED BY <1>6, <1>7, <1>9, <1>10, <1>11 DEF Counts

LEMMA CountsStep ==
    ASSUME ~LateStreams, Typed, Typed', Locks, Counts, [Next]_vars
    PROVE  Counts'
  <1>1. ASSUME NEW s \in Shards,
               EngineWrites(s) \/ EngineExits(s) \/ Sidecar(s) \/ Terminated(s) \/ PushLost(s) \/ PodReplaced(s)
        PROVE  Counts'
    BY <1>1, PodCounts, PodReplacedCounts
  <1>2. ASSUME NEW x \in Handlers, Serve(x) \/ StatementFails(x)
        PROVE  Counts'
    BY ZenonT(30), <1>2, IngestCounts, LockCounts, AbsorbCounts, FinishedCounts, SnapshotCounts,
       SaveReportCounts, DiscardCounts, EndsCount DEF Serve
  <1>3. CASE ControlPlaneRestarts
    BY <1>3, RestartCounts
  <1>4. CASE UNCHANGED vars
    <2>1. Steady /\ UNCHANGED <<side, net, h>>
      BY <1>4 DEF vars, pods, tables, Steady
    <2> QED BY <2>1, SteadyCounts DEF Typed, RequestsTyped
  <1> QED BY <1>1, <1>2, <1>3, <1>4 DEF Next

LEMMA InitCounts ==
    ASSUME Init
    PROVE  Counts
  <1>1. \A s \in Shards : shardRow[s] = None /\ side[s].acked = 0 /\ Absorbed(s) = 0
    BY DEF Init, NewSidecar, Absorbed
  <1>2. \A t \in Tables, i \in Ids : add[t][i] = 0 /\ i[3] \in Nat \ {0} /\ i[1] \in Shards
    BY DEF Init, Nothing, Ids, Seqs
  <1>3. \A t \in Tables, i \in Ids : CountOK(t, i)
    BY <1>1, <1>2 DEF CountOK
  <1>4. TablesCount /\ RowsOK
    <2>1. \A s \in Shards : side[s].acked <= Absorbed(s)
      <3>1. 0 <= 0
        OBVIOUS
      <3> QED BY ZenonT(30), <1>1, <3>1
    <2>2. \A t \in Tables : FinalsIn(finals, t, add[t])
      BY ZenonT(30) DEF FinalsIn, Init
    <2>3. RowsOK
      BY ZenonT(30), <1>1 DEF RowsOK
    <2> QED BY ZenonT(30), <1>3, <2>1, <2>2, <2>3 DEF TablesCount
  <1>5. \A x \in Handlers : HandlerCounts(x)
    BY DEF Init, HandlerCounts, Idle, Committed, Snapped, SnapOK
  <1> QED BY <1>4, <1>5 DEF Counts, Init, ReportExact

LEMMA CountsHold ==
    ASSUME ~LateStreams
    PROVE  Spec => [](Typed /\ Locks /\ Counts)
  <1>1. Init => Typed /\ Locks /\ Counts
    BY InitTyped, InitLocks, InitCounts
  <1>2. (Typed /\ Locks /\ Counts) /\ [Next]_vars => (Typed /\ Locks /\ Counts)'
    BY TypedStep, LocksStep, CountsStep
  <1> QED BY <1>1, <1>2, PTL DEF Spec

\* Exactly once: as long as no request of a replaced pod arrives after its successor's,
\* whatever else is lost, answered late, retried, rolled back or restarted, the working
\* tables hold every acknowledged measurement, none twice, and their JSON columns agree
\* with their additive ones.
THEOREM MeasurementsCountedOnce ==
    ASSUME ~LateStreams
    PROVE  Spec => []TablesExact
  <1>1. Typed /\ Locks /\ Counts => TablesExact
    <2> SUFFICES ASSUME Typed, Locks, Counts PROVE TablesExact
      OBVIOUS
    <2>1. ASSUME report = None, NEW t \in {"second", "label", "signature"}, NEW i \in Ids
          PROVE  add[t][i] <= 1
      BY ZenonT(30), <2>1, TablesAreSingle DEF Single, Tables
    <2>2. ASSUME report = None, NEW s \in Shards, NEW n \in 1 .. side[s].acked
          PROVE  add["second"][<<s, side[s].stream, n>>] = 1
      <3> DEFINE i == <<s, side[s].stream, n>>
      <3>1. /\ Absorbed(s) \in Amounts /\ Absorbed(s) \in Nat /\ side[s].stream \in Streams
            /\ side[s].acked \in Nat /\ side[s].acked <= Absorbed(s)
        BY ZenonT(30), <2>2, AbsorbedTyped DEF Counts, TablesCount
      <3>2. i \in Ids /\ n <= Absorbed(s) /\ i[1] = s /\ i[2] = side[s].stream /\ i[3] = n
        BY <3>1, ProgressAssumption DEF Ids, Seqs, Amounts
      <3>3. CountOK("second", i) /\ HasRow("second", i)
        BY <2>2, <3>2 DEF Counts, TablesCount, Tables, HasRow
      <3> QED BY ZenonT(30), <3>2, <3>3 DEF CountOK
    <2> QED BY <2>1, <2>2 DEF TablesExact, CountedOnce, Locks
  <1> QED BY <1>1, CountsHold, PTL

\* Under the same condition the report counts nothing twice and all that the pods whose
\* final batches closed the run had measured, though its tables are read one by one
\* while other handlers commit.
THEOREM ReportsCountEverything ==
    ASSUME ~LateStreams
    PROVE  Spec => []ReportExact
  <1>1. Typed /\ Locks /\ Counts => ReportExact
    BY DEF Counts
  <1> QED BY <1>1, CountsHold, PTL

----------------------------------------------------------------------------
(* The lock order leaves no circle.                                        *)
WF == INSTANCE WellFoundedInduction

LEMMA HasLargest ==
    ASSUME NEW B \in Nat, NEW S \in SUBSET (0 .. B), S # {}
    PROVE  \E m \in S : \A n \in S : n <= m
  <1> DEFINE T == {B - n : n \in S}
             R == WF!OpToRel(<, Nat)
  <1>a. \A n \in S : n \in Nat /\ B - n \in Nat
    OBVIOUS
  <1>1. T \subseteq Nat /\ T # {}
    <2>1. PICK n \in S : TRUE
      BY ZenonT(30)
    <2>2. B - n \in T
      OBVIOUS
    <2> QED BY <1>a, <2>2
  <1>2. WF!IsWellFoundedOn(R, Nat)
    BY WF!NatLessThanWellFounded
  <1>3. PICK l \in T : \A m \in T : ~(<<m, l>> \in R)
    BY <1>1, <1>2, WF!WFMin
  <1>4. \A m \in T : ~(m < l)
    BY ZenonT(30), <1>1, <1>3 DEF WF!OpToRel
  <1>5. PICK n \in S : l = B - n
    OBVIOUS
  <1>6. ASSUME NEW m \in S PROVE m <= n
    <2>1. B - m \in T
      OBVIOUS
    <2>2. ~(B - m < B - n)
      BY <1>4, <1>5, <2>1
    <2> QED BY <1>a, <2>2
  <1> QED BY <1>6

LEMMA TimesFacts ==
    ASSUME NEW a \in Nat, NEW n \in Nat, NEW M \in Nat, a < M
    PROVE  a * n \in Nat /\ M * n \in Nat /\ a * n + n <= M * n
  <1>1. M - a - 1 \in Nat
    OBVIOUS
  <1>2. (M - a - 1) * n >= 0 /\ a * n \in Nat /\ M * n \in Nat
    BY <1>1
  <1>3. (M - a - 1) * n = M * n - (a * n + n)
    OBVIOUS
  <1> QED BY <1>2, <1>3

\* Where a row stands in its table.
LEMMA PlaceBounded ==
    ASSUME NEW k \in DataKeys
    PROVE  /\ MaxStreams * Len(Lines) \in Nat
           /\ Place(k) \in 0 .. MaxStreams * Len(Lines) /\ Rank[k[1]] \in 0 .. 4
  <1>1. k[1] \in Tables /\ \E i \in Ids : HasRow(k[1], i) /\ k[2] = Row(k[1], i)
    BY KeyFacts
  <1>2. PICK i \in Ids : k[2] = Row(k[1], i)
    BY <1>1
  <1>3. i[2] \in Streams /\ i[3] \in Seqs
    BY DEF Ids
  <1>4. /\ i[2] - 1 \in Nat /\ i[2] - 1 < MaxStreams /\ Len(Lines) \in Nat /\ MaxStreams \in Nat
        /\ Lines[i[3]].second \in Nat /\ Lines[i[3]].second <= Len(Lines)
    BY SMTT(30), <1>3, ProgressAssumption DEF Streams, Seqs
  <1> DEFINE a == i[2] - 1
             p == a * Len(Lines)
             q == MaxStreams * Len(Lines)
  <1>5. p \in Nat /\ q \in Nat /\ p + Len(Lines) <= q
    <2> HIDE DEF a
    <2>1. a \in Nat /\ a < MaxStreams
      BY <1>4 DEF a
    <2> QED BY <1>4, <2>1, TimesFacts
  <1>6. Second(i) = p + Lines[i[3]].second
    BY DEF Second, Line
  <1> HIDE DEF p, q
  <1>7. Rank[k[1]] \in 0 .. 4
    BY <1>1 DEF Rank, Tables
  <1>8. CASE k[1] \in {"second", "series"}
    <2>1. Place(k) = Second(i)
      BY <1>2, <1>8 DEF Place, Row
    <2>2. Place(k) \in 0 .. q
      BY SMTT(30), <1>4, <1>5, <1>6, <2>1
    <2> QED BY <1>5, <1>7, <2>2 DEF q
  <1>9. CASE k[1] \notin {"second", "series"}
    <2>1. k[2] = Lines[i[3]].label
      BY <1>1, <1>2, <1>9 DEF Row, Line, Tables
    <2>2. Place(k) = CHOOSE n \in Seqs : Lines[n].label = k[2]
      BY <1>9 DEF Place
    <2>3. Place(k) \in Seqs
      BY <1>3, <2>1, <2>2
    <2>4. Place(k) \in 0 .. q
      BY <1>4, <1>5, <2>3 DEF Seqs
    <2> QED BY <1>5, <1>7, <2>4 DEF q
  <1> QED BY <1>8, <1>9
\* The row a transaction waits for comes before all that its holder waits for.
LEMMA HolderWaitsLater ==
    ASSUME Typed, Locks, NEW x \in Handlers, NEW y \in Handlers, At(x, "rows"),
           NEW k \in NextRow(h[x].todo), owner[k] = y
    PROVE  k \in DataKeys /\ At(y, "rows") /\ \A j \in h[y].todo : Precedes(k, j)
  <1>1. k \in DataKeys
    BY DEF NextRow, Typed, RequestsTyped, Handler
  <1>2. k \in RowKeys /\ k[1] # "shard"
    BY <1>1, KeyFacts
  <1> QED BY ZenonT(30), <1>1, <1>2 DEF Locks, LocksOK, InOrder

LEMMA NoCircle ==
    ASSUME Typed, Locks
    PROVE  NoLockCycle
  <1> SUFFICES ASSUME NEW S \in (SUBSET Handlers) \ {{}},
                      \A x \in S : \E y \in S : Waits(x, y)
               PROVE  FALSE
    BY DEF NoLockCycle
  <1> DEFINE K == {k \in DataKeys : \E x \in S : At(x, "rows") /\ k \in NextRow(h[x].todo) /\ owner[k] \in S}
             B == MaxStreams * Len(Lines)
  <1>1. \A x \in S : x \in Handlers
    OBVIOUS
  <1>2. ASSUME NEW x \in S, At(x, "rows")
        PROVE  \E k \in K : k \in h[x].todo
    <2>1. PICK y \in S : Waits(x, y)
      BY <1>2
    <2>2. PICK k \in NextRow(h[x].todo) : owner[k] = y
      BY <1>2, <2>1 DEF Waits, At
    <2>3. k \in DataKeys /\ k \in h[x].todo
      BY <1>1, <1>2, <2>2, HolderWaitsLater DEF NextRow
    <2> QED BY <1>2, <2>2, <2>3
  <1>3. K # {}
    <2>1. PICK x \in S : TRUE
      OBVIOUS
    <2>2. PICK y \in S : Waits(x, y)
      BY <2>1
    <2>3. CASE At(x, "rows")
      BY <1>2, <2>3
    <2>4. CASE At(x, "lock") /\ owner[<<"shard", h[x].req.shard>>] = y
      <3>1. h[x].req.shard \in Shards
        BY ZenonT(30), <1>1, <2>4, BatchTyped DEF Typed, RequestsTyped, HandlerOK, Handler, At
      <3>2. At(y, "rows")
        BY <1>1, <2>4, <3>1, KeyFacts DEF Locks, LocksOK, InOrder
      <3> QED BY <1>2, <3>2
    <2> QED BY <2>2, <2>3, <2>4 DEF Waits
  <1>4. ASSUME NEW k \in K PROVE \E j \in K : Precedes(k, j)
    <2>1. PICK x \in S : At(x, "rows") /\ k \in NextRow(h[x].todo) /\ owner[k] \in S
      OBVIOUS
    <2>2. At(owner[k], "rows") /\ \A j \in h[owner[k]].todo : Precedes(k, j)
      BY <1>1, <2>1, HolderWaitsLater
    <2> QED BY ZenonT(30), <1>2, <2>1, <2>2
  <1>5. \A k \in K : B \in Nat /\ Place(k) \in 0 .. B /\ Rank[k[1]] \in 0 .. 4
    BY PlaceBounded
  <1> HIDE DEF K, B
  <1>6. PICK m \in K : \A k \in K : Rank[k[1]] <= Rank[m[1]]
    <2> DEFINE T == {Rank[k[1]] : k \in K}
    <2>1. T \in SUBSET (0 .. 4) /\ T # {}
      BY ZenonT(30), <1>3, <1>5
    <2> HIDE DEF T
    <2>2. PICK a \in T : \A n \in T : n <= a
      BY <2>1, HasLargest
    <2> QED BY <2>2 DEF T
  <1>7. PICK l \in K : Rank[l[1]] = Rank[m[1]] /\ \A k \in K : Rank[k[1]] = Rank[m[1]] => Place(k) <= Place(l)
    <2> DEFINE T == {Place(k) : k \in {j \in K : Rank[j[1]] = Rank[m[1]]}}
    <2>1. T \in SUBSET (0 .. B) /\ T # {} /\ B \in Nat
      BY <1>5, <1>6
    <2> HIDE DEF T
    <2>2. PICK a \in T : \A n \in T : n <= a
      BY ZenonT(30), <2>1, HasLargest
    <2> QED BY ZenonT(30), <2>2 DEF T
  <1>8. PICK j \in K : Precedes(l, j)
    BY <1>4
  <1>9. CASE Rank[l[1]] < Rank[j[1]]
    BY SMTT(30), <1>5, <1>6, <1>7, <1>9
  <1>10. CASE l[1] = j[1] /\ Place(l) < Place(j)
    <2>1. Rank[j[1]] = Rank[m[1]]
      BY <1>7, <1>10
    <2>2. Place(j) <= Place(l)
      BY <1>7, <2>1
    <2>3. Place(j) \in Int /\ Place(l) \in Int
      BY <1>5
    <2> QED BY SMTT(30), <1>10, <2>2, <2>3
  <1> QED BY <1>8, <1>9, <1>10 DEF Precedes

\* No set of Absorb transactions waits for itself: rows are taken table by table and in
\* each in the order Snapshot sorted them, after the shard's row.
THEOREM TransactionsNeverDeadlock == Spec => []NoLockCycle
  <1>1. Typed /\ Locks => NoLockCycle
    BY NoCircle
  <1> QED BY <1>1, LocksHold, PTL
=============================================================================
