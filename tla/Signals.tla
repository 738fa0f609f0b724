------------------------------ MODULE Signals ------------------------------
(* core/analysis.py and core/aggregation.py: what the Inspector concludes   *)
(* from redacted events.  Durations are numbers without a fraction, so a    *)
(* rounded sum is the sum; an average is compared through the total of      *)
(* rows with the same count.                                                *)
EXTENDS Integers, SequencesExt, Redaction

NoThreshold == 0      \* None: thresholds are positive
Reached(value, threshold) == threshold # NoThreshold /\ value >= threshold

\* The sum of a measure over a set: as many as there are units in all.
SumOver(S, measure(_)) == Cardinality(UNION {{i} \X (1..measure(i)) : i \in S})

\* The sum of the measure of the items of a sequence.
Total(s, measure(_)) == SumOver(DOMAIN s, LAMBDA i : measure(s[i]))

_find_slow_queries(queries, threshold) ==
    {i \in DOMAIN queries : Reached(queries[i].duration_ms, threshold)}

\* The sequence numbers of the queries with a fingerprint.
WithFingerprint(queries, fp) ==
    {i \in DOMAIN queries : queries[i].fingerprint = fp}

Fingerprints(queries) == {queries[i].fingerprint : i \in DOMAIN queries} \ {<<>>}

\* Mutant: the smaller counts come first.
MutantPrecedes(a, b) == a.count < b.count \/ (a.count = b.count /\ a.first < b.first)

\* By the keys, the larger first, then in the order in which rows came up.
Precedes(a, b) ==
    \/ a.count > b.count
    \/ a.count = b.count /\ a.weight > b.weight
    \/ a.count = b.count /\ a.weight = b.weight /\ a.first < b.first

\* Rows in the order of a Python sort, which is stable.
Ordered(rows) ==
    CHOOSE s \in [1..Cardinality(rows) -> rows] :
        \A i, j \in 1..Cardinality(rows) : i < j => Precedes(s[i], s[j])

\* Mutant: the threshold is passed, not reached.
Mutant_find_duplicate_queries(queries, threshold) ==
    Ordered({[fingerprint |-> fp, sequences |-> WithFingerprint(queries, fp),
              count  |-> Cardinality(WithFingerprint(queries, fp)),
              weight |-> 0, first |-> Min(WithFingerprint(queries, fp))] :
             fp \in {f \in Fingerprints(queries) :
                        Cardinality(WithFingerprint(queries, f)) > threshold}})

_find_duplicate_queries(queries, threshold) ==
    Ordered({[fingerprint |-> fp, sequences |-> WithFingerprint(queries, fp),
              count  |-> Cardinality(WithFingerprint(queries, fp)),
              weight |-> 0, first |-> Min(WithFingerprint(queries, fp))] :
             fp \in {f \in Fingerprints(queries) :
                        Reached(Cardinality(WithFingerprint(queries, f)), threshold)}})

\* _check_query_heavy counts all queries, those beyond the analysed ones too.
_check_query_heavy(event, thresholds) ==
    (IF Reached(event.total_query_count, thresholds.query_heavy_count)
     THEN {"count"} ELSE {})
    \cup
    (IF Reached(event.total_query_time_ms, thresholds.query_heavy_time_ms)
     THEN {"time"} ELSE {})

is_queries_truncated(event) == event.total_query_count > Len(event.queries)

analyze_request_signals(event, thresholds) ==
    [slow_request        |-> Reached(event.duration_ms, thresholds.slow_request_ms),
     slow_queries        |-> _find_slow_queries(event.queries, thresholds.slow_query_ms),
     duplicate_queries   |-> _find_duplicate_queries(
                                event.queries, thresholds.duplicate_query_threshold),
     query_heavy_reasons |-> _check_query_heavy(event, thresholds),
     analyzed_query_count |-> Len(event.queries),
     total_query_count    |-> event.total_query_count,
     is_queries_truncated |-> is_queries_truncated(event)]

summarize_request_signals(event, thresholds) ==
    LET signals == analyze_request_signals(event, thresholds)
    IN  [slow_request        |-> signals.slow_request,
         has_slow_query      |-> signals.slow_queries # {},
         has_duplicate_query |-> signals.duplicate_queries # <<>>,
         query_heavy         |-> signals.query_heavy_reasons # {}]

-----------------------------------------------------------------------------
\* Where the events of a route are.
EventsOf(events, route) == {i \in DOMAIN events : events[i].route_template = route}

\* weight and first are the second key of the order and the first appearance.
RouteRow(events, route) ==
    LET Of == EventsOf(events, route)
    IN  [route_template |-> route,
         count  |-> Cardinality(Of),
         weight |-> SumOver(Of, LAMBDA i : events[i].duration_ms),
         max_duration_ms |-> Max({events[i].duration_ms : i \in Of}),
         total_queries   |-> SumOver(Of, LAMBDA i : events[i].total_query_count),
         first  |-> Min(Of)]

_aggregate_routes(events) ==
    Ordered({RouteRow(events, events[i].route_template) : i \in DOMAIN events})

\* Every execution of every event, in the order in which they are walked.
Executions(events) ==
    FlattenSeq([i \in DOMAIN events |->
        [j \in DOMAIN events[i].queries |->
            [request_id  |-> events[i].request_id,
             fingerprint |-> events[i].queries[j].fingerprint,
             duration_ms |-> events[i].queries[j].duration_ms]]])

FingerprintRow(executions, fp) ==
    LET At == WithFingerprint(executions, fp)
    IN  [fingerprint |-> fp,
         count  |-> Cardinality(At),
         request_count |-> Cardinality({executions[i].request_id : i \in At}),
         weight |-> SumOver(At, LAMBDA i : executions[i].duration_ms),
         first  |-> Min(At)]

_aggregate_fingerprints(events) ==
    LET executions == Executions(events)
    IN  Ordered({FingerprintRow(executions, fp) : fp \in Fingerprints(executions)})
=============================================================================
