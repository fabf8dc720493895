------------------------------- MODULE Analysis -------------------------------
(***************************************************************************)
(* The analysis of the benchmarks of both architectures (apps/analysis)    *)
(* and the files it reads, which the benchmark runner leaves one after the *)
(* other.  The report is a function of the files: the operators below say  *)
(* what it would state at any moment.                                      *)
(***************************************************************************)
EXTENDS Metrics

CONSTANTS
  Slots,      \* where files are written: a test, an architecture, a case and
              \* how many workers (0 where that is not the question)
  Runs,       \* what a benchmark run may give: its records and its time
  Earlier,    \* the runs whose files are there at the start
  Samples,    \* latencies for the percentiles
  MaxRuns     \* runs of the benchmark runner in one behaviour

VARIABLES
  summary_file,  \* summary_file[s]: the run it summarises, or None
  results_file,  \* results_file[s]: the run whose records it holds, or None
  directories,   \* the slots whose directory has been made
  writing,       \* the slot and the run whose files are being written, or None
  torn,          \* history: the slots whose last run wrote only its summary
  runs

vars == <<summary_file, results_file, directories, writing, torn, runs>>

Tests == {"base", "contention", "scalability"}

Init ==
  /\ summary_file \in Earlier
  /\ results_file = summary_file
  /\ directories = {s \in Slots : summary_file[s] # None}
  /\ writing = None
  /\ torn = {}
  /\ runs = 0

----------------------------------------------------------------------------
(* A test script makes the directory and starts the runner, which writes   *)
(* the summary and then the results (benchmark_runner/main.py).            *)

MakeDirectory(s) ==
  /\ writing = None
  /\ runs < MaxRuns
  /\ runs' = runs + 1
  /\ directories' = directories \cup {s}

(* The runner fails before it has anything to write. *)
RunFails(s) ==
  /\ MakeDirectory(s)
  /\ UNCHANGED <<summary_file, results_file, writing, torn>>

(* Mutant of WriteSummary: the results are written first. *)
WriteResultsFirst(s, run) ==
  /\ MakeDirectory(s)
  /\ writing' = [slot |-> s, run |-> run]
  /\ results_file' = [results_file EXCEPT ![s] = run]
  /\ UNCHANGED <<summary_file, torn>>

WriteSummary(s, run) ==
  /\ MakeDirectory(s)
  /\ writing' = [slot |-> s, run |-> run]
  /\ summary_file' = [summary_file EXCEPT ![s] = run]
  /\ UNCHANGED <<results_file, torn>>

WriteResults ==
  /\ writing # None
  /\ results_file' = [results_file EXCEPT ![writing.slot] = writing.run]
  /\ torn' = torn \ {writing.slot}
  /\ writing' = None
  /\ UNCHANGED <<summary_file, directories, runs>>

(* The runner is interrupted, or the disk is full. *)
Interrupted ==
  /\ writing # None
  /\ torn' = torn \cup {writing.slot}
  /\ writing' = None
  /\ UNCHANGED <<summary_file, results_file, directories, runs>>

(* The scripts remove the files of earlier runs, and their directories:    *)
(* run_full_analysis.sh all, the others those of their own test.           *)
Without(files, tests) ==
  [s \in Slots |-> IF s.test \in tests THEN None ELSE files[s]]

Clean(tests) ==
  /\ writing = None
  /\ summary_file' = Without(summary_file, tests)
  /\ results_file' = Without(results_file, tests)
  /\ directories' = {s \in directories : s.test \notin tests}
  /\ torn' = {s \in torn : s.test \notin tests}
  /\ UNCHANGED <<writing, runs>>

Next == \/ \E s \in Slots, run \in Runs : WriteSummary(s, run)
        \/ \E s \in Slots : RunFails(s)
        \/ WriteResults
        \/ Interrupted
        \/ \E tests \in {Tests, {"scalability"}, {"contention"}} : Clean(tests)

Spec == Init /\ [][Next]_vars

----------------------------------------------------------------------------
(* BenchmarkAnalyzer                                                       *)

(* A directory or a file that does not exist holds nothing.                *)
Kept(files, s) == IF s \in Slots THEN files[s] ELSE None

summary(s) == IF Kept(summary_file, s) = None THEN None
              ELSE build_summary(summary_file[s].records, summary_file[s].ms)

records(s) == IF Kept(results_file, s) = None THEN <<>>
              ELSE results_file[s].records

(* A summary in the place of metrics: other keys for the throughput and    *)
(* the mean latency, no percentiles and no rates.                          *)
RawSummary(s) ==
  [empty_metrics EXCEPT
     !.total_operations = summary(s).counts.total_operations,
     !.throughput = summary(s).throughput,
     !.latency_mean = summary(s).average_latency_ms,
     !.accepted = summary(s).counts.accepted,
     !.rejected = summary(s).counts.rejected]

(* compare_architectures, one architecture in one benchmark *)
Entry(s) ==
  IF records(s) # <<>>
    THEN merge_summary_metrics(calculate_metrics(records(s)), summary(s))
  ELSE IF summary(s) # None THEN RawSummary(s) ELSE empty_metrics

(* analyze_contention *)
ContentionEntry(s) ==
  merge_summary_metrics(calculate_metrics(records(s)), summary(s))

(* analyze_scalability: a throughput of 0 in the summary does not count;   *)
(* without records, there is no key the report reads.                      *)
ScalabilityEntry(s) ==
  LET counts == summary(s) # None /\ summary(s).throughput # 0
  IN IF records(s) = <<>> THEN empty_metrics
     ELSE merge_summary_metrics(calculate_metrics(records(s)),
                                IF counts THEN summary(s) ELSE None)

Shown(s) == CASE s.test = "base"        -> Entry(s)
              [] s.test = "contention"  -> ContentionEntry(s)
              [] s.test = "scalability" -> ScalabilityEntry(s)

At(test, arch, case) ==
  [test |-> test, arch |-> arch, case |-> case, workers |-> 0]

With(arch, workers) ==
  [test |-> "scalability", arch |-> arch, case |-> "unnumbered",
   workers |-> workers]

Compared == {s.case : s \in {t \in Slots : /\ t.test = "base"
                                           /\ summary_file[t] # None}}

Ratio(direct, indirect) ==
  IF indirect = 0 THEN None ELSE Rounded(direct, indirect)

throughput_ratio(benchmark) ==
  Ratio(Entry(At("base", "direct", benchmark)).throughput,
        Entry(At("base", "indirect", benchmark)).throughput)

Degradation(normal, hotspot) ==
  IF normal > 0 THEN Rounded(normal - hotspot, normal) ELSE 0

throughput_degradation(arch) ==
  Degradation(ContentionEntry(At("contention", arch, "normal")).throughput,
              ContentionEntry(At("contention", arch, "hotspot")).throughput)

(* The worker counts with a directory, whatever is in it *)
WorkerCounts(arch) ==
  {s.workers : s \in {t \in directories : t.test = "scalability"
                                           /\ t.arch = arch}}

(* What the executive summary divides for the speedup from the fewest to   *)
(* the most workers: the quotient is not rounded.                          *)
Quotient(last_tp, first_tp) ==
  IF first_tp = 0 THEN None ELSE [last_tp |-> last_tp, first_tp |-> first_tp]

speedup(arch) ==
  LET workers == WorkerCounts(arch)
      Throughput(n) == ScalabilityEntry(With(arch, n)).throughput
  IN IF Cardinality(workers) < 2 THEN None
     ELSE Quotient(Throughput(Max(workers)), Throughput(Min(workers)))

----------------------------------------------------------------------------
(* BenchmarkReporter                                                       *)

Ratios == {throughput_ratio(b) : b \in Compared} \ {None, 0}

Recommended(ratio) == IF ratio > SCALE THEN "direct" ELSE "indirect"

(* Mutant of best_arch: the smallest ratio decides.                        *)
best_arch_of_the_worst ==
  IF Ratios = {} THEN None ELSE Recommended(Min(Ratios))

(* The recommendation of the executive summary *)
best_arch == IF Ratios = {} THEN None ELSE Recommended(Max(Ratios))

(* The recommendation of the conclusions *)
Faster(Wins(_)) ==
  Cardinality({b \in Compared : LET ratio == throughput_ratio(b)
                                IN ratio \notin {None, 0} /\ Wins(ratio)})

Winner(direct_faster, indirect_faster) ==
  IF direct_faster > indirect_faster THEN "direct"
  ELSE IF indirect_faster > direct_faster THEN "indirect"
  ELSE None

outperforms == Winner(Faster(LAMBDA ratio : ratio > SCALE),
                      Faster(LAMBDA ratio : ratio < SCALE))

----------------------------------------------------------------------------
(* Properties.                                                             *)

TypeOK ==
  /\ summary_file \in [Slots -> Runs \cup {None}]
  /\ results_file \in [Slots -> Runs \cup {None}]
  /\ \A s \in Slots : summary_file[s] = None => results_file[s] = None
  /\ directories \subseteq Slots
  /\ \A s \in Slots : summary_file[s] # None => s \in directories
  /\ writing # None => writing.slot \in Slots /\ writing.run \in Runs
  /\ torn \subseteq Slots
  /\ runs \in 0..MaxRuns

Measured(s) == IF Kept(summary_file, s) = None THEN 0
               ELSE calculate_throughput(Len(summary_file[s].records),
                                         summary_file[s].ms)

Describes(row, run) ==
  /\ row.throughput = calculate_throughput(Len(run.records), run.ms)
  /\ row.total_operations = Len(run.records)
  /\ row.accepted = Counts(run.records).accepted
  /\ row.rejected = Counts(run.records).rejected
  /\ row.success_rate =
       Rounded(Counts(run.records).accepted, Len(run.records))

(* A row of the report describes one run: its counts are those of the run  *)
(* whose throughput it shows, also when a slot is run again.  Only a       *)
(* runner interrupted between its two files can leave a row that mixes two *)
(* runs (analyzer.py, _merge_summary_metrics).                             *)
RowOfOneRun ==
  \A s \in Slots \ torn :
    summary_file[s] # None /\ (writing # None => writing.slot # s) =>
      Describes(Shown(s), summary_file[s])

(* The throughput of a row comes from the total time the runner measured,  *)
(* never from the longest single operation, whatever files an interrupted  *)
(* run has left; without records a scalability row has none.               *)
ThroughputMeasured ==
  \A s \in Slots :
    Shown(s).throughput =
      IF s.test = "scalability" /\ results_file[s] = None THEN 0
                                                          ELSE Measured(s)

(* The two sections of the report that recommend an architecture: the      *)
(* conclusions name the direct one only if the executive summary does, and *)
(* the summary names the indirect one only if no benchmark was faster on   *)
(* the direct one by more than half of the last of the ratio's four        *)
(* decimals, which is all that rounding it hides (analyzer.py line 168,     *)
(* reporter.py).                                                            *)
RecommendationsAgree ==
  /\ outperforms = "direct" => best_arch = "direct"
  /\ best_arch = "indirect" =>
       \A b \in Compared :
         LET direct == Measured(At("base", "direct", b))
             indirect == Measured(At("base", "indirect", b))
         IN indirect > 0 => 2 * SCALE * (direct - indirect) <= indirect

HasRun(s) == Kept(summary_file, s) # None

Architectures == {s.arch : s \in {t \in Slots : t.test # "base"}}

OfTwoRuns(quotient, most, least) ==
  quotient # None =>
    /\ HasRun(least) /\ quotient.first_tp = Measured(least)
    /\ quotient.last_tp > 0 =>
         HasRun(most) /\ quotient.last_tp = Measured(most)

LossOf(degradation, normal, hotspot) ==
  LET lost == SCALE * (Measured(normal) - Measured(hotspot))
      stated == degradation * Measured(normal)
  IN /\ ~HasRun(normal) => degradation = 0
     /\ HasRun(normal) /\ ~HasRun(hotspot) => degradation = SCALE
     /\ HasRun(normal) /\ HasRun(hotspot) =>
          /\ 2 * (stated - lost) <= Measured(normal)
          /\ 2 * (lost - stated) <= Measured(normal)

(* What the report says of two tests is what their runs measured, or it    *)
(* gives a missing run away, whatever other runs have failed or were       *)
(* interrupted.  A speedup is the quotient of two throughputs measured,    *)
(* unless it is 0.0, which a test whose directory was made for a run that  *)
(* failed comes to as well.  A degradation is what the hotspot file costs  *)
(* of the normal throughput, in percent to two decimals, if both tests     *)
(* have a run; without the hotspot run it is exactly 100, without the      *)
(* normal one 0 (analyzer.py lines 213-257 and 284-323, reporter.py lines  *)
(* 236-255).                                                               *)
ComparisonsTrue ==
  \A arch \in Architectures :
    /\ OfTwoRuns(speedup(arch), With(arch, Max(WorkerCounts(arch))),
                                With(arch, Min(WorkerCounts(arch))))
    /\ LossOf(throughput_degradation(arch), At("contention", arch, "normal"),
                                            At("contention", arch, "hotspot"))

(* What a percentile p > 0 of a sample is. *)
PercentileOf(data, p) ==
  LET value == percentile(data, p)
      below == Cardinality({i \in DOMAIN data : 100 * data[i] <= value})
      above == Cardinality({i \in DOMAIN data : 100 * data[i] >= value})
      share == Position(data, p) \div 100
      largest == 100 * Max(Range(data))
  IN IF Position(data, p) <= 100 * Size(data)
       THEN below >= share /\ above >= Size(data) - share /\ value <= largest
       ELSE value >= largest

PercentilesOf(data) ==
  /\ percentile(data, 50) <= percentile(data, 95)
  /\ percentile(data, 95) <= percentile(data, 99)
  /\ DOMAIN data # {} => \A p \in {50, 95, 99} : PercentileOf(data, p)

PercentilesOfSamples == \A data \in Samples : PercentilesOf(data)

(* A percentile against its definition: at least that share of the sample  *)
(* is no larger, the rest no smaller; it lies within the sample unless the *)
(* sample is too small for it, when it only exceeds the largest; and the   *)
(* three the report shows are in order (utils.py, calculate_percentiles).  *)
Percentiles ==
  /\ PercentilesOfSamples
  /\ \A s \in Slots : PercentilesOf(extract_latencies(records(s)))

(* A benchmark file holds operations; they take some time, and not so much *)
(* that the throughput is rounded to nothing.  There are finitely many     *)
(* directories, and None is none of the values it stands beside.           *)
ASSUME AnalysisAssumption ==
  /\ MaxRuns \in Nat
  /\ IsFiniteSet(Slots)
  /\ \A s \in Slots : s.workers \in Nat
  /\ None \notin Int
  /\ None \notin {"direct", "indirect"}
  /\ Samples \subseteq Seq(Nat)
  /\ Earlier \subseteq [Slots -> Runs \cup {None}]
  /\ \A s \in Slots : s.test \in Tests
  /\ None \notin Runs \cup [slot : Slots, run : Runs]
  /\ \A run \in Runs :
       /\ Len(run.records) \in Nat \ {0}
       /\ DOMAIN run.records = 1..Len(run.records)
       /\ \A i \in DOMAIN run.records : run.records[i].elapsed_ms \in Nat
       /\ run.ms \in Nat \ {0}
       /\ calculate_throughput(Len(run.records), run.ms) > 0
       /\ build_summary(run.records, run.ms) # None
=============================================================================
