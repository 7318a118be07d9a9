----------------------------- MODULE Accumulator ----------------------------
(***************************************************************************)
(* The arithmetic of a run's report: domain/metrics (histograms) and       *)
(* domain/report (Accumulator, signatures, attribution, soak trend), and   *)
(* what repo/mysql/report_progress adds to the stored rows with each batch.*)
(*                                                                         *)
(* An interval is [ts, label, concurrency, samples, failed, latency,       *)
(* codes, errors]; latency and codes are functions to counts, errors a     *)
(* sequence of [code, says, message, count], where code is an HTTP status  *)
(* or None and says is what the wording points to.  Rates are left as the  *)
(* pair of their two counts.                                               *)
(***************************************************************************)
EXTENDS Integers, Sequences, FiniteSets, FiniteSetsExt, SequencesExt, Functions

CONSTANTS
    MaxExemplars,  \* wordings kept per signature
    SoakFloor,     \* soakTrendMinSampledSeconds
    Total,         \* TotalLabel, the engine's aggregate row
    None

----------------------------------------------------------------------------
(* metrics/histogram.go.                                                   *)

At(f, x, default) == IF x \in DOMAIN f THEN f[x] ELSE default

Merge(h, other) == [x \in DOMAIN h \cup DOMAIN other |-> At(h, x, 0) + At(other, x, 0)]

Count(h) == MapThenSumSet(LAMBDA x : h[x], DOMAIN h)

Empty == [x \in {} |-> 0]

\* ceil(p/100 * total), at least one.
rank(p, total) == IF p * total <= 100 THEN 1 ELSE (p * total + 99) \div 100

\* Percentiles and buckets are walked together, each in ascending order: a bucket
\* answers the percentiles whose rank it reaches, the last one those left over.
Percentiles(h, ps) ==
    LET total == Count(h)
        buckets == SetToSortSeq(DOMAIN h, <)
        walk[i \in 0..Len(buckets)] ==
            IF i = 0 THEN [seen |-> 0, left |-> SetToSortSeq(ps, <), out |-> Empty]
            ELSE LET w == walk[i - 1]
                     seen == w.seen + h[buckets[i]]
                     answered == SelectSeq(w.left, LAMBDA p : rank(p, total) <= seen)
                 IN  [seen |-> seen,
                      left |-> SelectSeq(w.left, LAMBDA p : rank(p, total) > seen),
                      out |-> [p \in DOMAIN w.out \cup ToSet(answered) |->
                                 At(w.out, p, buckets[i])]]
    IN  IF total = 0 THEN [p \in ps |-> 0]
        ELSE [p \in ps |-> At(walk[Len(buckets)].out, p, buckets[Len(buckets)])]

reportedPercentiles == {50, 90, 95, 99}

----------------------------------------------------------------------------
(* report/attribution.go, report/signature.go.                             *)

\* A status settles it; without one the wording does, the engine's faults first.
AttributeError(e) ==
    IF e.code # None THEN "target"
    ELSE IF "engine" \in e.says THEN "engine"
    ELSE IF "target" \in e.says THEN "target"
    ELSE "unknown"

NewSignature(label, e) == [label |-> label, code |-> e.code, side |-> AttributeError(e)]

\* A wording is kept when it is new and there is room.
addExemplar(kept, msg) ==
    IF Len(kept) >= MaxExemplars \/ msg \in ToSet(kept) THEN kept ELSE Append(kept, msg)

MergeExemplars(kept, incoming) == FoldLeft(addExemplar, kept, incoming)

----------------------------------------------------------------------------
(* report/accumulate.go.                                                   *)

NewAccumulator == [labels |-> Empty, seconds |-> Empty, signatures |-> Empty]

NoLabel == [samples |-> 0, failed |-> 0, latency |-> Empty, codes |-> Empty]
NoSecond == [engine |-> 0, labels |-> 0, sum |-> 0, samples |-> 0, perLabel |-> Empty]
NoTally == [sum |-> 0, samples |-> 0]
NoSignature == [count |-> 0, exemplars |-> <<>>]

Put(f, x, v) == [y \in DOMAIN f \cup {x} |-> IF y = x THEN v ELSE f[y]]

AddTally(t, d) == [sum |-> t.sum + d.sum, samples |-> t.samples + d.samples]

LatencySum(h) == MapThenSumSet(LAMBDA rt : rt * h[rt], DOMAIN h)

addError(sigs, label, e) ==
    LET sig == NewSignature(label, e)
        old == At(sigs, sig, NoSignature)
    IN  Put(sigs, sig, [count |-> old.count + e.count,
                        exemplars |-> addExemplar(old.exemplars, e.message)])

\* The engine's aggregate row gives its concurrency and nothing else; a label's row
\* goes to its second, its label and its signatures.
Add(a, iv) ==
    LET sec == At(a.seconds, iv.ts, NoSecond)
        tally == [sum |-> LatencySum(iv.latency), samples |-> Count(iv.latency)]
        timed == [sec EXCEPT !.labels = @ + iv.concurrency, !.sum = @ + tally.sum,
                    !.samples = @ + tally.samples,
                    !.perLabel = IF iv.latency = Empty THEN @
                                 ELSE Put(@, iv.label, AddTally(At(@, iv.label, NoTally), tally))]
        st == At(a.labels, iv.label, NoLabel)
    IN  IF iv.label = Total
        THEN [a EXCEPT !.seconds = Put(@, iv.ts, [sec EXCEPT !.engine = @ + iv.concurrency])]
        ELSE [labels |-> Put(a.labels, iv.label,
                [samples |-> st.samples + iv.samples, failed |-> st.failed + iv.failed,
                 latency |-> Merge(st.latency, iv.latency),
                 codes |-> Merge(st.codes, iv.codes)]),
              seconds |-> Put(a.seconds, iv.ts, timed),
              signatures |-> FoldLeft(LAMBDA s, e : addError(s, iv.label, e),
                                      a.signatures, iv.errors)]

Build(ivs) == FoldLeft(Add, NewAccumulator, ivs)

\* The larger of the two readings of each second, the largest over the seconds.
peak(a) ==
    Max({0} \cup {a.seconds[t].engine : t \in DOMAIN a.seconds}
            \cup {a.seconds[t].labels : t \in DOMAIN a.seconds})

\* First measured second to last, inclusive; the requested duration when none was.
achievedSeconds(a, requested) ==
    IF DOMAIN a.seconds = {} THEN requested
    ELSE Max(DOMAIN a.seconds) - Min(DOMAIN a.seconds) + 1

\* The run's failures by the side that caused them.
errors(a) ==
    [side \in {"target", "engine", "unknown"} |->
       MapThenSumSet(LAMBDA s : a.signatures[s].count, {s \in DOMAIN a.signatures : s.side = side})]

----------------------------------------------------------------------------
(* report/soak.go: a series is a function from sampled seconds to tallies. *)

Product(S, f(_)) == MapThenFoldSet(LAMBDA x, y : x * y, 1, f, LAMBDA T : CHOOSE t \in T : TRUE, S)

\* The halves' tallies by second count, the sign of the least-squares slope of the
\* per-second means over elapsed seconds (brought to one denominator), and the
\* verdict: half again as slow, and rising.
soakFigures(series) ==
    LET seconds == SetToSortSeq(DOMAIN series, <)
        n == Len(seconds)
        half == n \div 2
        of(S) == [sum |-> MapThenSumSet(LAMBDA t : series[t].sum, S),
                  samples |-> MapThenSumSet(LAMBDA t : series[t].samples, S)]
        first == of({seconds[i] : i \in 1..half})
        second == of({seconds[i] : i \in (half + 1)..n})
        all == DOMAIN series
        x(t) == t - seconds[1]
        y(t) == series[t].sum * Product(all \ {t}, LAMBDA u : series[u].samples)
        slope == n * MapThenSumSet(LAMBDA t : x(t) * y(t), all)
                   - MapThenSumSet(x, all) * MapThenSumSet(y, all)
    IN  [first |-> first, second |-> second, rising |-> slope > 0,
         leak |-> /\ first.sum > 0
                  /\ 2 * second.sum * first.samples > 3 * first.sum * second.samples
                  /\ slope > 0]

\* Seconds without samples are missing, not zero.
soakTrend(series) ==
    LET sampled == {t \in DOMAIN series : series[t].samples > 0}
    IN  IF Cardinality(sampled) < SoakFloor THEN None ELSE soakFigures(Restrict(series, sampled))

runSeries(a) ==
    [t \in DOMAIN a.seconds |-> [sum |-> a.seconds[t].sum, samples |-> a.seconds[t].samples]]

labelSeries(a, l) == [t \in DOMAIN a.seconds |-> At(a.seconds[t].perLabel, l, NoTally)]

\* Each label's own trend, judged like the run's.
soakTrendLabels(a) ==
    LET trend(l) ==
            LET series == labelSeries(a, l)
                own == {t \in DOMAIN series : series[t].samples > 0}
            IN  IF Cardinality(own) < SoakFloor THEN None ELSE soakFigures(Restrict(series, own))
    IN  [l \in {l \in DOMAIN a.labels : trend(l) # None} |-> trend(l)]

----------------------------------------------------------------------------
\* What a run is judged on; the labels' trends ride on the run's.
Report(a, requested) ==
    LET all == FoldSet(LAMBDA l, h : Merge(h, a.labels[l].latency), Empty, DOMAIN a.labels)
        samples == MapThenSumSet(LAMBDA l : a.labels[l].samples, DOMAIN a.labels)
        failed == MapThenSumSet(LAMBDA l : a.labels[l].failed, DOMAIN a.labels)
        trend == soakTrend(runSeries(a))
    IN  [samples |-> samples, failed |-> failed,
         concurrency |-> peak(a), seconds |-> achievedSeconds(a, requested),
         latency |-> Percentiles(all, reportedPercentiles),
         labels |-> [l \in DOMAIN a.labels |->
                       [samples |-> a.labels[l].samples, failed |-> a.labels[l].failed,
                        codes |-> a.labels[l].codes,
                        latency |-> Percentiles(a.labels[l].latency, reportedPercentiles)]],
         attribution |-> errors(a), soakTrend |-> trend,
         soakLabels |-> IF trend = None THEN Empty ELSE soakTrendLabels(a)]

----------------------------------------------------------------------------
(* repo/mysql/report_progress.go: a batch is accumulated on its own and    *)
(* its snapshot added to the rows, which have the accumulator's shape.     *)

MergeRows(rows, delta, none, add(_, _)) ==
    [x \in DOMAIN rows \cup DOMAIN delta |->
       IF x \in DOMAIN delta THEN add(At(rows, x, none), delta[x]) ELSE rows[x]]

mergeLabels(rows, delta) ==
    MergeRows(rows, delta, NoLabel, LAMBDA r, d :
      [samples |-> r.samples + d.samples, failed |-> r.failed + d.failed,
       latency |-> Merge(r.latency, d.latency), codes |-> Merge(r.codes, d.codes)])

\* Mutant: the batch's tallies replace the second's.
SecondLabelsReplaced(row, delta) == IF delta = Empty THEN row ELSE delta

mergeSecondLabels(row, delta) == MergeRows(row, delta, NoTally, AddTally)

mergeSeconds(rows, delta) ==
    MergeRows(rows, delta, NoSecond, LAMBDA r, d :
      [engine |-> r.engine + d.engine, labels |-> r.labels + d.labels, sum |-> r.sum + d.sum,
       samples |-> r.samples + d.samples, perLabel |-> mergeSecondLabels(r.perLabel, d.perLabel)])

mergeSignatures(rows, delta) ==
    MergeRows(rows, delta, NoSignature, LAMBDA r, d :
      [count |-> r.count + d.count, exemplars |-> MergeExemplars(r.exemplars, d.exemplars)])

mergeProgress(rows, s) ==
    [labels |-> mergeLabels(rows.labels, s.labels),
     seconds |-> mergeSeconds(rows.seconds, s.seconds),
     signatures |-> mergeSignatures(rows.signatures, s.signatures)]
=============================================================================
