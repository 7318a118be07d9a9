------------------------------ MODULE RunReport -----------------------------
(***************************************************************************)
(* A run's intervals reach the stored progress in batches and in any       *)
(* order; its report is what domain/report makes of the rows.  How a batch *)
(* is kept from being counted twice is ReportProgress's subject: here      *)
(* every interval arrives once.                                            *)
(***************************************************************************)
EXTENDS Accumulator

CONSTANTS
    Kinds,      \* the intervals a pod may report, numbered
    Measured,   \* how many a run produces
    MaxBatch,   \* intervals in a batch
    Requested   \* requested duration

VARIABLES
    ivs,      \* what the pods measured: a sequence of kinds
    pending,  \* positions not yet pushed
    rows      \* report_progress_label, _second and _signature

vars == <<ivs, pending, rows>>

Init ==
    /\ ivs \in {s \in [1..Measured -> DOMAIN Kinds] : \A i \in 1..(Measured - 1) : s[i] <= s[i + 1]}
    /\ pending = 1..Measured
    /\ rows = NewAccumulator

\* Absorb: a fresh accumulator takes the batch, its snapshot is merged.
Absorb(batch) ==
    /\ rows' = mergeProgress(rows, Build([i \in DOMAIN batch |-> Kinds[ivs[batch[i]]]]))
    /\ pending' = pending \ ToSet(batch)
    /\ UNCHANGED ivs

Batches == UNION {{s \in [1..n -> pending] : IsInjective(s)} : n \in 1..MaxBatch}

Next == \E batch \in Batches : Absorb(batch)

Spec == Init /\ [][Next]_vars

----------------------------------------------------------------------------
Arrived == {i \in 1..Measured : i \notin pending}
Intervals == [i \in 1..Cardinality(Arrived) |-> Kinds[ivs[SetToSortSeq(Arrived, <)[i]]]]
Overall == FoldSet(LAMBDA l, h : Merge(h, rows.labels[l].latency), Empty, DOMAIN rows.labels)

\* Counts are natural and a signature's wordings distinct and within their bound.
TypeOK ==
    /\ pending \subseteq 1..Measured
    /\ \A l \in DOMAIN rows.labels : rows.labels[l].failed \in 0..rows.labels[l].samples
    /\ \A s \in DOMAIN rows.signatures :
         /\ rows.signatures[s].count > 0
         /\ Len(rows.signatures[s].exemplars) \in 1..MaxExemplars
         /\ IsInjective(rows.signatures[s].exemplars)

\* Accumulator: "Two paths that summarised a run differently would eventually disagree
\* about a verdict": the report of the rows is the one Build makes of the intervals in
\* one pass, however they were batched and in whatever order they came.
ReportAsBuilt == Report(rows, Requested) = Report(Build(Intervals), Requested)

AtOrBelow(h, rt) == MapThenSumSet(LAMBDA x : h[x], {x \in DOMAIN h : x <= rt})
NearestRank(h, p) == Min({rt \in DOMAIN h : 100 * AtOrBelow(h, rt) >= p * Count(h)})

\* Histogram.Percentiles: every reported percentile is the nearest rank, and the run's
\* lies between the least and the greatest of its labels'.
PercentilesExact ==
    LET got == Report(rows, Requested)
        timed == {l \in DOMAIN rows.labels : Count(rows.labels[l].latency) > 0}
    IN  Count(Overall) > 0 =>
          \A p \in reportedPercentiles :
            /\ got.latency[p] = NearestRank(Overall, p)
            /\ \A l \in timed : got.labels[l].latency[p] = NearestRank(rows.labels[l].latency, p)
            /\ got.latency[p] \in Min({got.labels[l].latency[p] : l \in timed}) ..
                                  Max({got.labels[l].latency[p] : l \in timed})

RowsOf(sel(_)) == {i \in DOMAIN Intervals : sel(Intervals[i])}
ErrorsFrom(side) ==
    MapThenSumSet(LAMBDA i : MapThenSumSet(LAMBDA k : Intervals[i].errors[k].count,
                               {k \in DOMAIN Intervals[i].errors :
                                  AttributeError(Intervals[i].errors[k]) = side}),
                  RowsOf(LAMBDA iv : iv.label # Total))

\* Signature: "two failures on opposite sides ... would otherwise merge into one
\* signature": every failure counts on its own side, once, whatever merged.
FailuresKeepTheirSide ==
    \A side \in {"target", "engine", "unknown"} : errors(rows)[side] = ErrorsFrom(side)

\* Add: the engine's aggregate row "re-counts the requests beside it": a run's samples
\* are its label rows', and no second is reported with fewer users than its rows show.
SamplesOnce ==
    LET got == Report(rows, Requested)
        labelled == RowsOf(LAMBDA iv : iv.label # Total)
    IN  /\ got.samples = MapThenSumSet(LAMBDA i : Intervals[i].samples, labelled)
        /\ \A t \in DOMAIN rows.seconds : \A S \in {labelled, DOMAIN Intervals \ labelled} :
             got.concurrency >= MapThenSumSet(LAMBDA i : Intervals[i].concurrency,
                                              {i \in S : Intervals[i].ts = t})

\* Report: "a run too short for a trend of its own cannot hold a label that held two
\* minutes"; a run of one label has that label's trend; and a label whose mean never
\* rises is never suspected.
SoakTrendsAgree ==
    LET got == Report(rows, Requested)
        labels == soakTrendLabels(rows)
        falling(l) == \A t, u \in DOMAIN rows.seconds :
            LET a == labelSeries(rows, l)[t]
                b == labelSeries(rows, l)[u]
            IN  t < u => b.sum * a.samples <= a.sum * b.samples
    IN  /\ got.soakTrend = None => labels = Empty
        /\ \A l \in DOMAIN labels :
             /\ (\A t \in DOMAIN rows.seconds : DOMAIN rows.seconds[t].perLabel \subseteq {l})
                  => got.soakTrend = labels[l]
             /\ falling(l) => ~labels[l].leak
=============================================================================
