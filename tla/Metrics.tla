------------------------------- MODULE Metrics --------------------------------
(***************************************************************************)
(* What is computed from the records of a benchmark: the summary the       *)
(* runner writes (apps/benchmark_runner/reporting.py) and the metrics the  *)
(* analysis derives (apps/analysis).  The code rounds throughputs, means   *)
(* and ratios to four decimals, and percentages to two, which are four of  *)
(* the share: all of these are integral numbers of 1/SCALE here.  Latencies*)
(* and times are in milliseconds.                                          *)
(***************************************************************************)
EXTENDS Integers, Sequences, FiniteSets, SequencesExt, TLC

CONSTANT None

SCALE == 10000

(* round(n / d, 4), with ties upwards: in the code they go where the        *)
(* floating point numbers fall.  n may be negative.                        *)
Rounded(n, d) == (n * SCALE + d \div 2) \div d

(* A list of numbers whose order does not matter is a function on the       *)
(* places they come from.                                                  *)
Size(data) == Cardinality(DOMAIN data)
SumOf(data) == FoldFunction(LAMBDA x, y : x + y, 0, data)
Mean(data) == IF DOMAIN data = {} THEN 0 ELSE Rounded(SumOf(data), Size(data))

----------------------------------------------------------------------------
(* Records, a function on the lines of the file.  The body is None when    *)
(* there is none, or none with the fields of a purchase result.            *)

StatusOf(r) == IF r.response_body = None THEN None ELSE r.response_body.status
Duplicate(r) == r.response_body # None /\ r.response_body.duplicate

Count(records, Test(_)) ==
  Cardinality({i \in DOMAIN records : Test(records[i])})

Counts(records) ==
  [total_operations |-> Cardinality(DOMAIN records),
   accepted         |-> Count(records, LAMBDA r : StatusOf(r) = "ACCEPTED"),
   rejected         |-> Count(records, LAMBDA r : StatusOf(r) = "REJECTED"),
   duplicates       |-> Count(records, Duplicate),
   transport_errors |-> Count(records, LAMBDA r : r.error)]

Elapsed(records) == [i \in DOMAIN records |-> records[i].elapsed_ms]

(* The throughput of a number of operations in ms milliseconds.            *)
calculate_throughput(operations, ms) ==
  IF ms = 0 THEN 0 ELSE Rounded(operations * 1000, ms)

build_summary(records, ms) ==
  [counts             |-> Counts(records),
   throughput         |-> calculate_throughput(Len(records), ms),
   average_latency_ms |-> Mean(Elapsed(records))]

----------------------------------------------------------------------------
(* Percentiles, in hundredths: statistics.quantiles(data, n=100), which    *)
(* interpolates between two neighbours and goes beyond the last of them    *)
(* where the sample is too small for the percentile.                       *)

Smaller(data, x) == {i \in DOMAIN data : data[i] < x}
UpTo(data, x)    == {i \in DOMAIN data : data[i] <= x}

(* Place k of the sorted list: less than k are smaller, k are not larger.  *)
sorted(data) ==
  [k \in 1..Size(data) |->
     CHOOSE x \in Range(data) : /\ Cardinality(Smaller(data, x)) < k
                                /\ Cardinality(UpTo(data, x)) >= k]

Position(data, p) == p * (Size(data) + 1)

Neighbour(data, p) ==
  LET whole == Position(data, p) \div 100
  IN IF whole < 1 THEN 1
     ELSE IF whole > Size(data) - 1 THEN Size(data) - 1 ELSE whole

quantile(data, p) ==
  LET j == Neighbour(data, p)
      delta == Position(data, p) - 100 * j
  IN sorted(data)[j] * (100 - delta) + sorted(data)[j + 1] * delta

(* Mutant of percentile: the index counts from one.                        *)
next_percentile(data, p) ==
  IF DOMAIN data = {} THEN 0
  ELSE IF Size(data) = 1 THEN 100 * sorted(data)[1]
  ELSE quantile(data, IF p = 99 THEN 99 ELSE p + 1)

percentile(data, p) ==
  IF DOMAIN data = {} THEN 0
  ELSE IF Size(data) = 1 THEN 100 * sorted(data)[1]
  ELSE quantile(data, p)

----------------------------------------------------------------------------
(* The analysis' own view of the records                                   *)

(* Operations that ended without an answer have no latency.                *)
extract_latencies(records) ==
  LET answered == {i \in DOMAIN records : ~records[i].error}
  IN [i \in answered |-> records[i].elapsed_ms]

empty_metrics ==
  [total_operations |-> 0, throughput |-> 0, latency_mean |-> 0,
   latency_p50 |-> 0, latency_p95 |-> 0, latency_p99 |-> 0,
   success_rate |-> 0, error_rate |-> 0, accepted |-> 0, rejected |-> 0]

(* The throughput supposes that all operations started together.           *)
calculate_metrics(records) ==
  LET latencies == extract_latencies(records)
      counts == Counts(records)
      total == counts.total_operations
  IN IF records = <<>> THEN empty_metrics
     ELSE [total_operations |-> total,
           throughput   |-> calculate_throughput(
                              total, Max(ToSet(Elapsed(records)))),
           latency_mean |-> Mean(latencies),
           latency_p50  |-> percentile(latencies, 50),
           latency_p95  |-> percentile(latencies, 95),
           latency_p99  |-> percentile(latencies, 99),
           success_rate |-> Rounded(counts.accepted, total),
           error_rate   |-> Rounded(counts.transport_errors, total),
           accepted     |-> counts.accepted,
           rejected     |-> counts.rejected]

(* Mutant of merge_summary_metrics: what was calculated is kept.           *)
keep_calculated(metrics, summary) == metrics

merge_summary_metrics(metrics, summary) ==
  IF summary = None THEN metrics
  ELSE [metrics EXCEPT !.throughput = summary.throughput]
=============================================================================
