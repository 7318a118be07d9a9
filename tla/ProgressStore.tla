--------------------------- MODULE ProgressStore ---------------------------
(***************************************************************************)
(* What ports.ReportProgress promises for one run, as the in-memory store   *)
(* of ports/fake keeps it: every operation is one step under one mutex.     *)
(* A measurement is named by the shard, the stream and the sequence number  *)
(* that identify it on the wire; the accumulator and the permanent series   *)
(* are how often each has been counted.                                     *)
(***************************************************************************)
EXTENDS Integers

CONSTANTS Shards, Streams, Seqs, None

VARIABLES
    acc,        \* progressRun.acc
    shards,     \* progressRun.shards: a shardStream or None
    series      \* ReportProgress.series

Ids == Shards \X Streams \X Seqs
Nothing == [i \in Ids |-> 0]

ShardStream ==
    [stream : Streams, seq : Seqs \cup {0}, finished : BOOLEAN, code : BOOLEAN]

Counted(bag, S) == [i \in Ids |-> bag[i] + (IF i \in S THEN 1 ELSE 0)]

\* The watermark a batch is held against: a different stream is a restarted pod.
Watermark(b) ==
    IF shards[b.shard] # None /\ shards[b.shard].stream = b.stream
    THEN shards[b.shard].seq
    ELSE 0

Fresh(b) ==
    {<<b.shard, b.stream, n>> : n \in {m \in Seqs : b.lo <= m /\ m <= b.hi /\ m > Watermark(b)}}

AbsorbSeries(S) == series' = Counted(series, S)

Absorb(b) ==
    LET old == shards[b.shard]
        kept == old # None
    IN  /\ acc' = Counted(acc, Fresh(b))
        /\ AbsorbSeries(Fresh(b))
        /\ shards' = [shards EXCEPT ![b.shard] =
              [stream |-> b.stream,
               seq |-> IF Fresh(b) = {} THEN Watermark(b) ELSE b.hi,
               finished |-> b.final \/ (kept /\ old.finished),
               code |-> b.code \/ (kept /\ old.code)]]
=============================================================================
