---------------------------- MODULE AnalysisProofs ----------------------------
(***************************************************************************)
(* What the tables of the report say of the runs measured, for any number  *)
(* of tests, runs and interruptions: the files of a slot are of one run    *)
(* unless the runner was interrupted between them, and the throughput is   *)
(* that of the summary in any case.                                        *)
(***************************************************************************)
EXTENDS Analysis, FiniteSetTheorems, WellFoundedInduction, TLAPS

(* The files of a slot belong to one run, but while they are written, and  *)
(* after an interruption.                                                  *)
FilesOfOneRun ==
  /\ writing # None => summary_file[writing.slot] = writing.run
  /\ \A s \in Slots \ torn :
       (writing # None => writing.slot # s) => results_file[s] = summary_file[s]

Inv == TypeOK /\ FilesOfOneRun

LEMMA InitInv == Init => Inv
BY AnalysisAssumption DEF Init, Inv, TypeOK, FilesOfOneRun

LEMMA NextInv == Inv /\ [Next]_vars => Inv'
<1> SUFFICES ASSUME Inv, [Next]_vars PROVE Inv'
  OBVIOUS
<1> USE DEF Inv, TypeOK, FilesOfOneRun
<1>1. ASSUME NEW s \in Slots, NEW run \in Runs, WriteSummary(s, run)
      PROVE  Inv'
  <2>1. /\ writing = None
        /\ writing' = [slot |-> s, run |-> run]
        /\ summary_file' = [summary_file EXCEPT ![s] = run]
        /\ directories' = directories \cup {s}
        /\ runs < MaxRuns /\ runs' = runs + 1
        /\ UNCHANGED <<results_file, torn>>
    BY <1>1 DEF WriteSummary, MakeDirectory
  <2>2. TypeOK'
    BY <2>1, AnalysisAssumption
  <2>3. writing' # None
    BY <2>1, AnalysisAssumption
  <2>4. FilesOfOneRun'
    BY <2>1, <2>3
  <2> QED
    BY <2>2, <2>4
<1>2. ASSUME NEW s \in Slots, RunFails(s)
      PROVE  Inv'
  <2>1. /\ directories' = directories \cup {s}
        /\ runs < MaxRuns /\ runs' = runs + 1
        /\ UNCHANGED <<summary_file, results_file, writing, torn>>
    BY <1>2 DEF RunFails, MakeDirectory
  <2> QED
    BY <2>1, AnalysisAssumption
<1>3. CASE WriteResults
  BY <1>3 DEF WriteResults
<1>4. CASE Interrupted
  BY <1>4 DEF Interrupted
<1>5. ASSUME NEW tests, Clean(tests)
      PROVE  Inv'
  <2>1. /\ writing = None /\ writing' = None /\ runs' = runs
        /\ directories' = {s \in directories : s.test \notin tests}
        /\ torn' = {s \in torn : s.test \notin tests}
    BY <1>5 DEF Clean
  <2>2. /\ summary_file' = [s \in Slots |-> IF s.test \in tests
                                              THEN None ELSE summary_file[s]]
        /\ results_file' = [s \in Slots |-> IF s.test \in tests
                                              THEN None ELSE results_file[s]]
    BY <1>5 DEF Clean, Without
  <2>3. TypeOK'
    BY <2>1, <2>2
  <2>4. FilesOfOneRun'
    BY <2>1, <2>2
  <2> QED
    BY <2>3, <2>4
<1>6. CASE UNCHANGED vars
  BY <1>6 DEF vars
<1> QED
  BY <1>1, <1>2, <1>3, <1>4, <1>5, <1>6 DEF Next

(* The files hold runs, and records only where there is a summary.         *)
THEOREM TypeCorrect == Spec => []TypeOK
<1>1. Inv => TypeOK
  BY DEF Inv
<1> QED
  BY <1>1, InitInv, NextInv, PTL DEF Spec

----------------------------------------------------------------------------
(* The counts of a run *)

LEMMA CountsOf ==
  ASSUME NEW run \in Runs
  PROVE  /\ run.records # <<>>
         /\ Counts(run.records).total_operations = Len(run.records)
<1>1. Len(run.records) \in Nat \ {0} /\ DOMAIN run.records = 1..Len(run.records)
  BY ZenonT(60), AnalysisAssumption
<1>2. Cardinality(1..Len(run.records)) = Len(run.records)
  BY <1>1, FS_Interval
<1>3. Counts(run.records).total_operations = Cardinality(DOMAIN run.records)
  BY DEF Counts
<1> QED
  BY <1>1, <1>2, <1>3

(* The metrics of a run, with the throughput of a summary *)
LEMMA MetricsOf ==
  ASSUME NEW run \in Runs, NEW other \in Runs
  PROVE  LET metrics == calculate_metrics(run.records)
             row == merge_summary_metrics(
                      metrics, build_summary(other.records, other.ms))
         IN /\ row.throughput =
                 calculate_throughput(Len(other.records), other.ms)
            /\ row.total_operations = Len(run.records)
            /\ row.accepted = Counts(run.records).accepted
            /\ row.rejected = Counts(run.records).rejected
            /\ row.success_rate =
                 Rounded(Counts(run.records).accepted, Len(run.records))
<1> DEFINE metrics == calculate_metrics(run.records)
           total == build_summary(other.records, other.ms)
<1>1. total # None
  BY AnalysisAssumption
<1>2. total.throughput = calculate_throughput(Len(other.records), other.ms)
  BY DEF build_summary
<1>3. /\ metrics.total_operations = Len(run.records)
      /\ metrics.accepted = Counts(run.records).accepted
      /\ metrics.rejected = Counts(run.records).rejected
      /\ metrics.success_rate =
           Rounded(Counts(run.records).accepted, Len(run.records))
      /\ DOMAIN metrics = DOMAIN empty_metrics
  BY CountsOf DEF calculate_metrics, empty_metrics
<1> HIDE DEF metrics, total
<1>4. merge_summary_metrics(metrics, total) =
        [metrics EXCEPT !.throughput = total.throughput]
  BY <1>1 DEF merge_summary_metrics
<1> QED
  BY <1>2, <1>3, <1>4 DEF empty_metrics, metrics, total
----------------------------------------------------------------------------
(* The rows of the report *)

(* A slot with records has a summary too, which gives the throughput.      *)
LEMMA ShownWithRecords ==
  ASSUME Inv, NEW s \in Slots, results_file[s] # None
  PROVE  /\ results_file[s] \in Runs
         /\ summary_file[s] \in Runs
         /\ Shown(s) = merge_summary_metrics(
                         calculate_metrics(results_file[s].records),
                         build_summary(summary_file[s].records,
                                       summary_file[s].ms))
<1>1. results_file[s] \in Runs /\ summary_file[s] \in Runs
  BY DEF Inv, TypeOK
<1> DEFINE total == build_summary(summary_file[s].records, summary_file[s].ms)
<1>2. summary_file[s] # None
  BY DEF Inv, TypeOK
<1>3. summary(s) = total /\ total # None /\ total.throughput # 0
  <2>1. summary(s) = total
    BY <1>2 DEF summary, Kept
  <2>2. total # None
    BY <1>1, AnalysisAssumption
  <2>3. total.throughput
          = calculate_throughput(Len(summary_file[s].records),
                                 summary_file[s].ms)
    BY DEF build_summary
  <2>4. total.throughput # 0
    BY <1>1, <2>3, AnalysisAssumption
  <2> QED
    BY <2>1, <2>2, <2>4
<1>4. records(s) = results_file[s].records /\ records(s) # <<>>
  BY <1>1, CountsOf DEF records, Kept
<1>5. s.test \in {"base", "contention", "scalability"}
  BY AnalysisAssumption DEF Tests
<1> HIDE DEF total
<1>6. Shown(s) = merge_summary_metrics(calculate_metrics(records(s)), total)
  BY <1>3, <1>4, <1>5 DEF Shown, Entry, ContentionEntry, ScalabilityEntry
<1> QED
  BY <1>1, <1>4, <1>6 DEF total

(* A row of the report shows the counts, the rate and the throughput of    *)
(* one run, unless the runner was interrupted between the summary and the  *)
(* results of that slot.                                                   *)
THEOREM RowsOfOneRun == Spec => []RowOfOneRun
<1>1. Inv => RowOfOneRun
  <2> SUFFICES ASSUME Inv,
                      NEW s \in Slots \ torn,
                      summary_file[s] # None,
                      writing # None => writing.slot # s
               PROVE  Describes(Shown(s), summary_file[s])
    BY DEF RowOfOneRun
  <2>1. results_file[s] = summary_file[s]
    BY DEF Inv, FilesOfOneRun
  <2>2. /\ summary_file[s] \in Runs
        /\ Shown(s) = merge_summary_metrics(
                         calculate_metrics(summary_file[s].records),
                         build_summary(summary_file[s].records,
                                       summary_file[s].ms))
    BY <2>1, ShownWithRecords
  <2> QED
    BY <2>2, MetricsOf DEF Describes
<1> QED
  BY <1>1, InitInv, NextInv, PTL DEF Spec

(* What the analysis takes for the throughput of a slot: the one measured, *)
(* and for a scalability test without records none.                        *)
LEMMA EntryThroughputs ==
  ASSUME Inv, NEW s
  PROVE  /\ Entry(s).throughput = Measured(s)
         /\ ContentionEntry(s).throughput = Measured(s)
         /\ ScalabilityEntry(s).throughput =
              IF Kept(results_file, s) = None THEN 0 ELSE Measured(s)
<1>1. empty_metrics.throughput = 0
  BY DEF empty_metrics
<1>2. CASE Kept(results_file, s) # None
  <2>1. /\ s \in Slots
        /\ results_file[s] \in Runs
        /\ summary_file[s] \in Runs
        /\ summary_file[s] # None
        /\ results_file[s] # None
    BY <1>2 DEF Kept, Inv, TypeOK
  <2> DEFINE total == build_summary(summary_file[s].records, summary_file[s].ms)
  <2>2. /\ Measured(s) = calculate_throughput(Len(summary_file[s].records),
                                              summary_file[s].ms)
        /\ summary(s) = total
        /\ records(s) = results_file[s].records
    BY <2>1 DEF Measured, summary, records, Kept
  <2>3. total # None /\ total.throughput = Measured(s) /\ Measured(s) # 0
    BY <2>1, <2>2, AnalysisAssumption DEF build_summary
  <2>4. records(s) # <<>>
    BY <2>1, <2>2, CountsOf
  <2> HIDE DEF total
  <2>5. merge_summary_metrics(calculate_metrics(records(s)), total).throughput
          = Measured(s)
    BY <2>1, <2>2, MetricsOf DEF total
  <2> QED
    BY <1>2, <2>2, <2>3, <2>4, <2>5
       DEF Entry, ContentionEntry, ScalabilityEntry
<1>3. CASE Kept(results_file, s) = None
  <2>1. records(s) = <<>> /\ calculate_metrics(records(s)) = empty_metrics
    BY <1>3 DEF records, calculate_metrics
  <2>2. CASE Kept(summary_file, s) = None
    <3>1. summary(s) = None /\ Measured(s) = 0
      BY <2>2 DEF summary, Measured
    <3> QED
      BY <1>1, <1>3, <2>1, <3>1
         DEF Entry, ContentionEntry, ScalabilityEntry, merge_summary_metrics
  <2>3. CASE Kept(summary_file, s) # None
    <3>1. summary(s) = build_summary(summary_file[s].records,
                                     summary_file[s].ms)
      BY <2>3 DEF summary
    <3>2. Measured(s) = calculate_throughput(Len(summary_file[s].records),
                                             summary_file[s].ms)
      BY <2>3 DEF Measured
    <3>3. summary(s).throughput = Measured(s)
      BY <3>1, <3>2 DEF build_summary
    <3>4. summary_file[s] \in Runs
      BY <2>3 DEF Kept, Inv, TypeOK
    <3>5. summary(s) # None
      BY <3>1, <3>4, AnalysisAssumption
    <3>6. RawSummary(s).throughput = summary(s).throughput
      BY DEF RawSummary, empty_metrics
    <3>7. merge_summary_metrics(empty_metrics, summary(s)).throughput
            = summary(s).throughput
      BY <3>5 DEF merge_summary_metrics, empty_metrics
    <3> QED
      BY <1>1, <1>3, <2>1, <3>3, <3>5, <3>6, <3>7
         DEF Entry, ContentionEntry, ScalabilityEntry
  <2> QED
    BY <2>2, <2>3
<1> QED
  BY <1>2, <1>3

(* The throughput of a row is the one measured in the run of its summary,  *)
(* whether or not the records beside it belong to the same run.            *)
THEOREM ThroughputsMeasured == Spec => []ThroughputMeasured
<1>1. Inv => ThroughputMeasured
  <2> SUFFICES ASSUME Inv, NEW s \in Slots
               PROVE  Shown(s).throughput =
                        IF s.test = "scalability" /\ results_file[s] = None
                          THEN 0 ELSE Measured(s)
    BY DEF ThroughputMeasured
  <2>1. s.test \in {"base", "contention", "scalability"}
    BY AnalysisAssumption DEF Tests
  <2>2. Kept(results_file, s) = results_file[s]
    BY DEF Kept
  <2> QED
    BY <2>1, <2>2, EntryThroughputs DEF Shown
<1> QED
  BY <1>1, InitInv, NextInv, PTL DEF Spec

----------------------------------------------------------------------------
(* Comparisons.                                                            *)

(* A set of natural numbers has a least element. *)
LEMMA LeastOfNaturals ==
  ASSUME NEW T, T \subseteq Nat, T # {}
  PROVE  \E x \in T : \A y \in T : x <= y
<1>1. IsWellFoundedOn(OpToRel(<, Nat), Nat)
  BY NatLessThanWellFounded
<1>2. PICK x \in T : \A y \in T : ~(<<y, x>> \in OpToRel(<, Nat))
  BY <1>1, WFMin
<1>3. \A y \in T : ~(y < x)
  BY <1>2 DEF OpToRel
<1> QED
  BY <1>3

(* A finite set of numbers has a largest and a smallest element: the one    *)
(* with the fewest above it, and the one with the fewest below it.         *)
LEMMA Extremes ==
  ASSUME NEW S, IsFiniteSet(S), S \subseteq Int, S # {}
  PROVE  /\ Max(S) \in S /\ \A x \in S : x <= Max(S)
         /\ Min(S) \in S /\ \A x \in S : Min(S) <= x
<1> DEFINE Above(x) == {y \in S : y > x}
           Below(x) == {y \in S : y < x}
<1>1. \A x \in S : /\ IsFiniteSet(Above(x)) /\ Cardinality(Above(x)) \in Nat
                   /\ IsFiniteSet(Below(x)) /\ Cardinality(Below(x)) \in Nat
  BY FS_Subset, FS_CardinalityType
<1>2. \A x, y \in S :
        /\ y > x => /\ Above(y) \subseteq Above(x)
                    /\ y \in Above(x) /\ y \notin Above(y)
        /\ y < x => /\ Below(y) \subseteq Below(x)
                    /\ y \in Below(x) /\ y \notin Below(y)
  <2> TAKE x, y \in S
  <2>1. x \in Int /\ y \in Int /\ ~(y < y)
    OBVIOUS
  <2>2. ASSUME y > x, NEW z \in Above(y) PROVE z \in Above(x)
    BY <2>1, <2>2
  <2>3. ASSUME y < x, NEW z \in Below(y) PROVE z \in Below(x)
    BY <2>1, <2>3
  <2>4. y \notin Above(y) /\ y \notin Below(y)
    BY <2>1
  <2>5. (y > x => y \in Above(x)) /\ (y < x => y \in Below(x))
    OBVIOUS
  <2> HIDE DEF Above, Below
  <2> QED
    BY <2>2, <2>3, <2>4, <2>5
<1> HIDE DEF Above, Below
<1>3. \A x, y \in S :
        /\ y > x => Cardinality(Above(y)) < Cardinality(Above(x))
        /\ y < x => Cardinality(Below(y)) < Cardinality(Below(x))
  BY <1>1, <1>2, FS_Subset
<1>4. \E x \in S : \A y \in S : y <= x
  <2> DEFINE T == {Cardinality(Above(x)) : x \in S}
  <2>1. T \subseteq Nat /\ T # {}
    BY <1>1
  <2>2. \E n \in T : \A m \in T : n <= m
    <3> HIDE DEF T
    <3> QED
      BY <2>1, LeastOfNaturals
  <2>3. PICK x \in S : \A y \in S :
          Cardinality(Above(x)) <= Cardinality(Above(y))
    BY <2>2
  <2>4. \A y \in S : ~(y > x)
    BY <1>1, <1>3, <2>3
  <2> QED
    BY <2>3, <2>4
<1>5. \E x \in S : \A y \in S : x <= y
  <2> DEFINE T == {Cardinality(Below(x)) : x \in S}
  <2>1. T \subseteq Nat /\ T # {}
    BY <1>1
  <2>2. \E n \in T : \A m \in T : n <= m
    <3> HIDE DEF T
    <3> QED
      BY <2>1, LeastOfNaturals
  <2>3. PICK x \in S : \A y \in S :
          Cardinality(Below(x)) <= Cardinality(Below(y))
    BY <2>2
  <2>4. \A y \in S : ~(y < x)
    BY <1>1, <1>3, <2>3
  <2> QED
    BY <2>3, <2>4
<1> QED
  BY <1>4, <1>5 DEF Max, Min

LEMMA Division ==
  ASSUME NEW m \in Int, NEW d \in Nat \ {0}
  PROVE  /\ m \div d \in Int
         /\ d * (m \div d) <= m
         /\ m < d * (m \div d) + d
         /\ m \in Nat => m \div d \in Nat
OBVIOUS

(* What is rounded differs from the quotient by half of the last decimal   *)
(* at most.                                                                *)
LEMMA RoundedQuotient ==
  ASSUME NEW n \in Int, NEW d \in Nat \ {0}
  PROVE  /\ Rounded(n, d) \in Int
         /\ n \in Nat => Rounded(n, d) \in Nat
         /\ 2 * (Rounded(n, d) * d - SCALE * n) <= d
         /\ 2 * (SCALE * n - Rounded(n, d) * d) <= d
<1> DEFINE half == d \div 2
           m == n * SCALE + half
           q == m \div d
<1>1. half \in Nat /\ 2 * half <= d /\ d <= 2 * half + 1
  OBVIOUS
<1>2. m \in Int /\ (n \in Nat => m \in Nat)
  BY <1>1 DEF SCALE
<1> HIDE DEF half
<1>3. /\ q \in Int /\ d * q <= m /\ m < d * q + d
      /\ n \in Nat => q \in Nat
  <2> HIDE DEF m
  <2> QED
    BY <1>2, Division
<1>4. Rounded(n, d) = q
  BY DEF Rounded, half
<1>5. q * d \in Int /\ q * d = d * q
  BY <1>3
<1>6. n * SCALE \in Int /\ n * SCALE = SCALE * n
  BY DEF SCALE
<1>7. q * d <= SCALE * n + half /\ SCALE * n + half < q * d + d
  BY <1>3, <1>5, <1>6
<1> HIDE DEF m, q
<1>8. /\ 2 * (q * d - SCALE * n) <= d
      /\ 2 * (SCALE * n - q * d) <= d
  BY <1>1, <1>5, <1>6, <1>7
<1> QED
  BY <1>3, <1>4, <1>8

LEMMA RoundedToItself ==
  ASSUME NEW d \in Nat \ {0}
  PROVE  Rounded(d, d) = SCALE
<1> DEFINE q == Rounded(d, d)
<1>1. q \in Int /\ 2 * (q * d - SCALE * d) <= d /\ 2 * (SCALE * d - q * d) <= d
  BY RoundedQuotient
<1> HIDE DEF q
<1>2. ~(q >= SCALE + 1)
  <2> SUFFICES ASSUME q >= SCALE + 1 PROVE FALSE
    OBVIOUS
  <2>1. q * d >= (SCALE + 1) * d
    BY <1>1 DEF SCALE
  <2> QED
    BY <1>1, <2>1 DEF SCALE
<1>3. ~(q <= SCALE - 1)
  <2> SUFFICES ASSUME q <= SCALE - 1 PROVE FALSE
    OBVIOUS
  <2>1. q * d <= (SCALE - 1) * d
    BY <1>1 DEF SCALE
  <2> QED
    BY <1>1, <2>1 DEF SCALE
<1> QED
  BY <1>1, <1>2, <1>3 DEF q, SCALE

(* On which side of 1 a quotient is, as far as its decimals tell. *)
LEMMA RoundedRatio ==
  ASSUME NEW n \in Nat, NEW d \in Nat \ {0}
  PROVE  /\ Rounded(n, d) \in Nat
         /\ Rounded(n, d) <= SCALE => 2 * SCALE * (n - d) <= d
<1> DEFINE q == Rounded(n, d)
<1>1. q \in Nat /\ 2 * (SCALE * n - q * d) <= d
  BY RoundedQuotient
<1> HIDE DEF q
<1>2. ASSUME q <= SCALE PROVE 2 * SCALE * (n - d) <= d
  <2>1. q * d <= SCALE * d
    BY <1>1, <1>2 DEF SCALE
  <2> QED
    BY <1>1, <2>1 DEF SCALE
<1> QED
  BY <1>1, <1>2 DEF q

LEMMA MeasuredNatural ==
  ASSUME Inv, NEW s
  PROVE  Measured(s) \in Nat
<1>1. CASE Kept(summary_file, s) = None
  BY <1>1 DEF Measured
<1>2. CASE Kept(summary_file, s) # None
  <2> DEFINE run == summary_file[s]
  <2>1. run \in Runs
    BY <1>2 DEF Kept, Inv, TypeOK
  <2> DEFINE scaled == Len(run.records) * 1000
             ms == run.ms
  <2>2. scaled \in Nat /\ ms \in Nat \ {0}
    BY <2>1, AnalysisAssumption
  <2>3. Measured(s) = Rounded(scaled, ms)
    BY <1>2, <2>2 DEF Measured, calculate_throughput
  <2> HIDE DEF scaled, ms
  <2> QED
    BY <2>2, <2>3, RoundedRatio
<1> QED
  BY <1>1, <1>2

(* A set given by an expression over a finite set is finite. *)
LEMMA FiniteImage ==
  ASSUME NEW f, IsFiniteSet(DOMAIN f)
  PROVE  IsFiniteSet({f[x] : x \in DOMAIN f})
<1> DEFINE T == {f[x] : x \in DOMAIN f}
           g == [x \in DOMAIN f |-> f[x]]
<1>1. g \in Surjection(DOMAIN f, T)
  BY DEF Surjection
<1> HIDE DEF T, g
<1>2. IsFiniteSet(T)
  BY <1>1, FS_Surjection
<1> QED
  BY <1>2 DEF T

(* The ratio of a benchmark that has run on both architectures *)
LEMMA RatioOf ==
  ASSUME Inv, NEW b
  PROVE  LET direct == Measured(At("base", "direct", b))
             indirect == Measured(At("base", "indirect", b))
         IN /\ indirect = 0 => throughput_ratio(b) = None
            /\ indirect # 0 => throughput_ratio(b) = Rounded(direct, indirect)
BY EntryThroughputs DEF throughput_ratio, Ratio

LEMMA RatiosFinite ==
  ASSUME Inv
  PROVE  IsFiniteSet(Compared) /\ IsFiniteSet(Ratios) /\ Ratios \subseteq Nat
<1>1. IsFiniteSet(Compared)
  <2> DEFINE T == {t \in Slots : t.test = "base" /\ summary_file[t] # None}
             f == [t \in T |-> t.case]
  <2>1. IsFiniteSet(T)
    BY AnalysisAssumption, FS_Subset
  <2>2. DOMAIN f = T /\ Compared = {f[t] : t \in DOMAIN f}
    BY DEF Compared
  <2> HIDE DEF T, f
  <2> QED
    BY <2>1, <2>2, FiniteImage
<1>2. IsFiniteSet({throughput_ratio(b) : b \in Compared})
  <2> DEFINE f == [b \in Compared |-> throughput_ratio(b)]
  <2>1. /\ DOMAIN f = Compared
        /\ {throughput_ratio(b) : b \in Compared} = {f[b] : b \in DOMAIN f}
    OBVIOUS
  <2> HIDE DEF f
  <2> QED
    BY <1>1, <2>1, FiniteImage
<1>3. IsFiniteSet(Ratios)
  BY <1>2, FS_Subset DEF Ratios
<1>4. ASSUME NEW b PROVE throughput_ratio(b) \in Nat \cup {None}
  <2> DEFINE direct == Measured(At("base", "direct", b))
             indirect == Measured(At("base", "indirect", b))
  <2>1. direct \in Nat /\ indirect \in Nat
    BY MeasuredNatural
  <2>2. /\ indirect = 0 => throughput_ratio(b) = None
        /\ indirect # 0 => throughput_ratio(b) = Rounded(direct, indirect)
    BY RatioOf
  <2> HIDE DEF direct, indirect
  <2> QED
    BY <2>1, <2>2, RoundedRatio
<1>5. Ratios \subseteq Nat
  BY <1>4 DEF Ratios
<1> QED
  BY <1>1, <1>3, <1>5

LEMMA AgreementOfSections == Inv => RecommendationsAgree
<1> SUFFICES ASSUME Inv PROVE RecommendationsAgree
  OBVIOUS
<1>1. IsFiniteSet(Compared) /\ IsFiniteSet(Ratios) /\ Ratios \subseteq Nat
  BY RatiosFinite
<1>2. Ratios # {} => Max(Ratios) \in Nat /\ \A x \in Ratios : x <= Max(Ratios)
  <2>1. Ratios \subseteq Int
    BY <1>1
  <2> QED
    BY <1>1, <2>1, Extremes
<1>3. SCALE = 10000
  BY DEF SCALE
<1>4. ASSUME outperforms = "direct" PROVE best_arch = "direct"
  <2> DEFINE D == {b \in Compared : /\ throughput_ratio(b) \notin {None, 0}
                                   /\ throughput_ratio(b) > SCALE}
             I == {b \in Compared : /\ throughput_ratio(b) \notin {None, 0}
                                   /\ throughput_ratio(b) < SCALE}
  <2>1. Cardinality(D) > Cardinality(I)
    BY <1>4, AnalysisAssumption DEF outperforms, Winner, Faster
  <2>2. D \subseteq Compared /\ I \subseteq Compared
    OBVIOUS
  <2>3. D # {}
    <3> HIDE DEF D, I
    <3>1. IsFiniteSet(D) /\ Cardinality(I) \in Nat
      BY <1>1, <2>2, FS_Subset, FS_CardinalityType
    <3> QED
      BY <2>1, <3>1, FS_EmptySet
  <2>4. PICK b \in Compared : /\ throughput_ratio(b) \notin {None, 0}
                              /\ throughput_ratio(b) > SCALE
    BY <2>3
  <2>5. throughput_ratio(b) \in Ratios
    BY <2>4 DEF Ratios
  <2>6. Ratios # {}
    BY <2>5
  <2>7. Max(Ratios) > SCALE
    <3> DEFINE ratio == throughput_ratio(b)
               most == Max(Ratios)
    <3>1. ratio \in Nat /\ ratio > SCALE
      BY <1>1, <2>4, <2>5
    <3>2. most \in Nat /\ ratio <= most
      BY <1>2, <2>5, <2>6
    <3> HIDE DEF ratio, most
    <3>3. most > SCALE
      BY <1>3, <3>1, <3>2
    <3> QED
      BY <3>3 DEF most
  <2> QED
    BY <2>6, <2>7 DEF best_arch, Recommended
<1>5. ASSUME best_arch = "indirect", NEW b \in Compared,
             Measured(At("base", "indirect", b)) > 0
      PROVE  2 * SCALE * (Measured(At("base", "direct", b))
                            - Measured(At("base", "indirect", b)))
               <= Measured(At("base", "indirect", b))
  <2> DEFINE direct == Measured(At("base", "direct", b))
             indirect == Measured(At("base", "indirect", b))
  <2>1. direct \in Nat /\ indirect \in Nat \ {0}
    BY <1>5, MeasuredNatural
  <2>2. throughput_ratio(b) = Rounded(direct, indirect)
    BY <2>1, RatioOf
  <2>3. Ratios # {} /\ ~(Max(Ratios) > SCALE)
    BY <1>5, AnalysisAssumption DEF best_arch, Recommended
  <2> HIDE DEF direct, indirect
  <2>4. Rounded(direct, indirect) \in Nat
    BY <2>1, RoundedRatio
  <2>5. Rounded(direct, indirect) <= SCALE
    <3>1. CASE Rounded(direct, indirect) = 0
      BY <1>3, <3>1
    <3>2. CASE Rounded(direct, indirect) # 0
      <4>1. Rounded(direct, indirect) \in Ratios
        BY <2>2, <2>4, <3>2, AnalysisAssumption DEF Ratios
      <4> QED
        BY <1>2, <1>3, <2>3, <2>4, <4>1
    <3> QED
      BY <3>1, <3>2
  <2>6. 2 * SCALE * (direct - indirect) <= indirect
    BY <2>1, <2>5, RoundedRatio
  <2> QED
    BY <2>6 DEF direct, indirect
<1> QED
  BY <1>4, <1>5 DEF RecommendationsAgree

(* The two sections of the report that recommend an architecture do not    *)
(* contradict each other, nor the throughputs that were measured, but for  *)
(* half of the last of the four decimals of their ratio.                   *)
THEOREM SectionsAgree == Spec => []RecommendationsAgree
BY AgreementOfSections, InitInv, NextInv, PTL DEF Spec

(* What has a throughput has a run. *)
LEMMA MeasuredRun ==
  ASSUME Inv, NEW s
  PROVE  /\ Measured(s) # 0 => HasRun(s)
         /\ HasRun(s) => Measured(s) > 0
<1>1. ASSUME HasRun(s) PROVE Measured(s) > 0
  <2>1. summary_file[s] \in Runs
    BY <1>1 DEF HasRun, Kept, Inv, TypeOK
  <2>2. Measured(s) = calculate_throughput(Len(summary_file[s].records),
                                           summary_file[s].ms)
    BY <1>1 DEF HasRun, Measured, Kept
  <2> QED
    BY <2>1, <2>2, AnalysisAssumption
<1> QED
  BY <1>1 DEF HasRun, Measured

LEMMA TrueComparisons == Inv => ComparisonsTrue
<1> SUFFICES ASSUME Inv PROVE ComparisonsTrue
  OBVIOUS
<1>1. ASSUME NEW arch \in Architectures
      PROVE  OfTwoRuns(speedup(arch), With(arch, Max(WorkerCounts(arch))),
                                      With(arch, Min(WorkerCounts(arch))))
  <2> DEFINE most == With(arch, Max(WorkerCounts(arch)))
             least == With(arch, Min(WorkerCounts(arch)))
             last == ScalabilityEntry(most).throughput
             first == ScalabilityEntry(least).throughput
  <2>1. speedup(arch) # None =>
          first # 0 /\ speedup(arch) = [last_tp |-> last, first_tp |-> first]
    BY DEF speedup, Quotient
  <2>2. last \in {0, Measured(most)} /\ first \in {0, Measured(least)}
    BY EntryThroughputs
  <2>3. /\ Measured(most) # 0 => HasRun(most)
        /\ Measured(least) # 0 => HasRun(least)
    BY MeasuredRun
  <2> HIDE DEF most, least, last, first
  <2>4. OfTwoRuns(speedup(arch), most, least)
    BY <2>1, <2>2, <2>3 DEF OfTwoRuns
  <2> QED
    BY <2>4 DEF most, least
<1>2. ASSUME NEW arch \in Architectures
      PROVE  LossOf(throughput_degradation(arch),
                    At("contention", arch, "normal"),
                    At("contention", arch, "hotspot"))
  <2> DEFINE hotspot == At("contention", arch, "hotspot")
             normal == At("contention", arch, "normal")
             high == Measured(normal)
             low == Measured(hotspot)
             degradation == throughput_degradation(arch)
  <2>1. /\ high \in Nat /\ low \in Nat
        /\ HasRun(normal) => high > 0
        /\ ~HasRun(normal) => high = 0
        /\ ~HasRun(hotspot) => low = 0
    BY MeasuredNatural, MeasuredRun
  <2>2. degradation = IF high > 0 THEN Rounded(high - low, high) ELSE 0
    BY EntryThroughputs DEF throughput_degradation, Degradation
  <2> HIDE DEF high, low, degradation, hotspot, normal
  <2>3. ~HasRun(normal) => degradation = 0
    BY <2>1, <2>2
  <2>4. ASSUME HasRun(normal)
        PROVE  /\ degradation \in Int
               /\ 2 * (degradation * high - SCALE * (high - low)) <= high
               /\ 2 * (SCALE * (high - low) - degradation * high) <= high
    <3>1. high \in Nat \ {0} /\ high - low \in Int
      BY <2>1, <2>4
    <3>2. degradation = Rounded(high - low, high)
      BY <2>1, <2>2, <2>4
    <3> QED
      BY <3>1, <3>2, RoundedQuotient
  <2>5. ASSUME HasRun(normal), ~HasRun(hotspot)
        PROVE  degradation = SCALE
    <3>1. degradation = Rounded(high, high) /\ high \in Nat \ {0}
      BY <2>1, <2>2, <2>5
    <3> QED
      BY <3>1, RoundedToItself
  <2>6. LossOf(degradation, normal, hotspot)
    BY <2>3, <2>4, <2>5 DEF LossOf, high, low
  <2> QED
    BY <2>6 DEF degradation, hotspot, normal
<1> QED
  BY <1>1, <1>2 DEF ComparisonsTrue

(* A speedup in the report is the quotient of two throughputs that were    *)
(* measured, or 0.0; a degradation is that of the two throughputs to the   *)
(* decimals of the report, or 100 without a hotspot run, or 0 without a    *)
(* normal one, whatever an interrupted runner has left of its files.       *)
THEOREM ComparisonsAreTrue == Spec => []ComparisonsTrue
BY TrueComparisons, InitInv, NextInv, PTL DEF Spec

----------------------------------------------------------------------------
(* Percentiles.                                                            *)

(* Finitely many latencies *)
Sample(data) == IsFiniteSet(DOMAIN data) /\ \A i \in DOMAIN data : data[i] \in Nat

LEMMA PlacesCounted ==
  ASSUME NEW data, Sample(data), NEW D \in SUBSET DOMAIN data
  PROVE  /\ IsFiniteSet(D) /\ Cardinality(D) \in Nat
         /\ Size(data) \in Nat /\ Cardinality(D) <= Size(data)
<1>1. IsFiniteSet(DOMAIN data) /\ Size(data) \in Nat
  BY FS_CardinalityType DEF Sample, Size
<1>2. IsFiniteSet(D) /\ Cardinality(D) <= Size(data)
  BY <1>1, FS_Subset DEF Size
<1> QED
  BY <1>1, <1>2, FS_CardinalityType

(* More places, more of them. *)
LEMMA PlacesCompared ==
  ASSUME NEW data, Sample(data), NEW D \in SUBSET DOMAIN data,
         NEW E \in SUBSET D
  PROVE  Cardinality(E) <= Cardinality(D)
<1>1. IsFiniteSet(D)
  BY PlacesCounted
<1> QED
  BY <1>1, FS_Subset

LEMMA ValuesOf ==
  ASSUME NEW data, Sample(data)
  PROVE  /\ IsFiniteSet(Range(data)) /\ Range(data) \subseteq Nat
         /\ \A i \in DOMAIN data : data[i] \in Range(data)
<1>1. Range(data) = {data[i] : i \in DOMAIN data}
  BY DEF Range
<1>2. IsFiniteSet(Range(data))
  BY <1>1, FiniteImage DEF Sample
<1> QED
  BY <1>1, <1>2 DEF Sample

LEMMA Largest ==
  ASSUME NEW data, Sample(data), DOMAIN data # {}
  PROVE  /\ Max(Range(data)) \in Nat /\ Max(Range(data)) \in Range(data)
         /\ \A i \in DOMAIN data : data[i] <= Max(Range(data))
<1>1. Range(data) \subseteq Int /\ Range(data) # {} /\ IsFiniteSet(Range(data))
  BY ValuesOf
<1>2. /\ Max(Range(data)) \in Range(data)
      /\ \A x \in Range(data) : x <= Max(Range(data))
  BY <1>1, Extremes
<1> QED
  BY <1>2, ValuesOf

(* There is a value for each place of the sorted list: the least that at   *)
(* least k do not exceed.                                                  *)
LEMMA PlaceFilled ==
  ASSUME NEW data, Sample(data), NEW k \in 1..Size(data)
  PROVE  \E x \in Range(data) : /\ Cardinality(Smaller(data, x)) < k
                               /\ Cardinality(UpTo(data, x)) >= k
<1>1. Size(data) \in Nat /\ DOMAIN data # {}
  BY PlacesCounted, FS_EmptySet DEF Size
<1>2. k \in Nat
  OBVIOUS
<1> DEFINE G == {x \in Range(data) : Cardinality(UpTo(data, x)) >= k}
<1>3. G # {}
  <2> DEFINE most == Max(Range(data))
  <2>1. most \in Range(data) /\ \A i \in DOMAIN data : data[i] <= most
    BY <1>1, Largest
  <2> HIDE DEF most
  <2>2. UpTo(data, most) = DOMAIN data
    BY <2>1 DEF UpTo
  <2>3. Cardinality(UpTo(data, most)) >= k
    BY <1>1, <2>2 DEF Size
  <2> QED
    BY <2>1, <2>3
<1>4. G \subseteq Nat
  BY ValuesOf
<1>5. PICK x \in G : \A y \in G : x <= y
  <2> HIDE DEF G
  <2> QED
    BY <1>3, <1>4, LeastOfNaturals
<1>6. x \in Nat
  BY <1>4
<1>7. Cardinality(Smaller(data, x)) < k
  <2> SUFFICES ASSUME ~(Cardinality(Smaller(data, x)) < k) PROVE FALSE
    OBVIOUS
  <2>1. Smaller(data, x) \in SUBSET DOMAIN data
    BY DEF Smaller
  <2>2. IsFiniteSet(Smaller(data, x)) /\ Cardinality(Smaller(data, x)) \in Nat
    BY <2>1, PlacesCounted
  <2>3. Smaller(data, x) # {}
    BY <1>2, <2>2, FS_EmptySet
  <2> DEFINE f == [i \in Smaller(data, x) |-> data[i]]
             R == {f[i] : i \in DOMAIN f}
             y == Max(R)
  <2>4. IsFiniteSet(R)
    <3> HIDE DEF R
    <3>1. IsFiniteSet(DOMAIN f)
      BY <2>2
    <3> HIDE DEF f
    <3> QED
      BY <3>1, FiniteImage DEF R
  <2>5. /\ R = {data[i] : i \in Smaller(data, x)}
        /\ R \subseteq Int /\ R # {}
    BY <2>1, <2>3 DEF Sample
  <2> HIDE DEF R, f
  <2>6. y \in R /\ \A z \in R : z <= y
    BY <2>4, <2>5, Extremes
  <2> HIDE DEF y
  <2>7. PICK j \in Smaller(data, x) : y = data[j]
    BY <2>5, <2>6
  <2>8. j \in DOMAIN data /\ y < x /\ y \in Nat /\ y \in Range(data)
    BY <2>7, ValuesOf DEF Smaller, Sample
  <2>9. UpTo(data, y) = Smaller(data, x)
    <3>1. ASSUME NEW i \in DOMAIN data
          PROVE  data[i] <= y <=> data[i] < x
      <4>1. data[i] \in Nat
        BY DEF Sample
      <4>2. data[i] < x => data[i] \in R
        BY <2>5 DEF Smaller
      <4> QED
        BY <1>6, <2>6, <2>8, <4>1, <4>2
    <3> QED
      BY <3>1 DEF UpTo, Smaller
  <2>10. y \in G
    BY <1>2, <2>2, <2>8, <2>9
  <2>11. x <= y
    BY <1>5, <2>10
  <2> QED
    BY <1>6, <2>8, <2>11
<1> QED
  BY <1>5, <1>7

LEMMA SortedPlaces ==
  ASSUME NEW data, Sample(data), NEW k \in 1..Size(data)
  PROVE  /\ sorted(data)[k] \in Range(data) /\ sorted(data)[k] \in Nat
         /\ Cardinality(Smaller(data, sorted(data)[k])) < k
         /\ Cardinality(UpTo(data, sorted(data)[k])) >= k
<1>1. sorted(data)[k] = CHOOSE x \in Range(data) :
                          /\ Cardinality(Smaller(data, x)) < k
                          /\ Cardinality(UpTo(data, x)) >= k
  BY DEF sorted
<1>2. /\ sorted(data)[k] \in Range(data)
      /\ Cardinality(Smaller(data, sorted(data)[k])) < k
      /\ Cardinality(UpTo(data, sorted(data)[k])) >= k
  BY <1>1, PlaceFilled
<1> QED
  BY <1>2, ValuesOf

LEMMA SortedUp ==
  ASSUME NEW data, Sample(data), NEW j \in 1..Size(data),
         NEW k \in 1..Size(data), j <= k
  PROVE  sorted(data)[j] <= sorted(data)[k]
<1> DEFINE x == sorted(data)[j]
           y == sorted(data)[k]
<1>1. /\ x \in Nat /\ y \in Nat
      /\ Cardinality(Smaller(data, x)) < j
      /\ Cardinality(UpTo(data, y)) >= k
  BY SortedPlaces
<1> HIDE DEF x, y
<1> SUFFICES ASSUME y < x PROVE FALSE
  BY <1>1 DEF x, y
<1>2. /\ UpTo(data, y) \in SUBSET Smaller(data, x)
      /\ Smaller(data, x) \in SUBSET DOMAIN data
      /\ UpTo(data, y) \in SUBSET DOMAIN data
  BY <1>1 DEF UpTo, Smaller, Sample
<1>3. Cardinality(UpTo(data, y)) <= Cardinality(Smaller(data, x))
  BY <1>2, PlacesCompared
<1>4. /\ Cardinality(UpTo(data, y)) \in Nat
      /\ Cardinality(Smaller(data, x)) \in Nat
      /\ j \in Nat /\ k \in Nat
  BY <1>2, PlacesCounted
<1> QED
  BY <1>1, <1>3, <1>4

(* What lies d hundredths of the way from a to b, or beyond them. *)
Between(a, b, d) == a * (100 - d) + b * d

LEMMA Interpolation ==
  ASSUME NEW a \in Nat, NEW b \in Nat, a <= b, NEW d \in Int
  PROVE  /\ Between(a, b, d) \in Int
         /\ d <= 0 => Between(a, b, d) <= 100 * a
         /\ d >= 0 => Between(a, b, d) >= 100 * a
         /\ d <= 100 => Between(a, b, d) <= 100 * b
         /\ d >= 100 => Between(a, b, d) >= 100 * b
<1>1. \A m, n \in Int : m >= 0 /\ n >= 0 => m * n >= 0
  OBVIOUS
<1>2. b - a \in Int /\ b - a >= 0
  OBVIOUS
<1>3. Between(a, b, d) = 100 * a + (b - a) * d
  BY DEF Between
<1>4. Between(a, b, d) = 100 * b + (b - a) * (d - 100)
  BY DEF Between
<1>5. /\ (b - a) * d \in Int /\ (b - a) * (d - 100) \in Int
      /\ (b - a) * (0 - d) = 0 - (b - a) * d
      /\ (b - a) * (100 - d) = 0 - (b - a) * (d - 100)
  OBVIOUS
<1>6. /\ d >= 0 => (b - a) * d >= 0
      /\ d <= 0 => (b - a) * (0 - d) >= 0
      /\ d >= 100 => (b - a) * (d - 100) >= 0
      /\ d <= 100 => (b - a) * (100 - d) >= 0
  BY <1>1, <1>2
<1> QED
  BY <1>3, <1>4, <1>5, <1>6

LEMMA InterpolationUp ==
  ASSUME NEW a \in Nat, NEW b \in Nat, a <= b, NEW d \in Int, NEW e \in Int,
         d <= e
  PROVE  Between(a, b, d) <= Between(a, b, e)
<1>1. \A m, n \in Int : m >= 0 /\ n >= 0 => m * n >= 0
  OBVIOUS
<1>2. Between(a, b, e) - Between(a, b, d) = (b - a) * (e - d)
  BY DEF Between
<1>3. (b - a) * (e - d) >= 0
  BY <1>1
<1>4. Between(a, b, d) \in Int /\ Between(a, b, e) \in Int
  BY DEF Between
<1> QED
  BY <1>2, <1>3, <1>4

(* Between which neighbours the percentile p is, and how far from the      *)
(* first: outside of them only at the ends of the list.                    *)
LEMMA NeighbourOf ==
  ASSUME NEW data, Sample(data), Size(data) >= 2, NEW p \in 1..99
  PROVE  LET j == Neighbour(data, p)
             d == Position(data, p) - 100 * j
         IN /\ j \in 1..(Size(data) - 1) /\ d \in Int
            /\ Position(data, p) \in Nat
            /\ d < 0 => j = 1
            /\ d >= 100 => j = Size(data) - 1
            /\ d < 0 => Position(data, p) \div 100 = 0
            /\ 0 <= d /\ d < 100 => Position(data, p) \div 100 = j
<1> DEFINE n == Size(data)
           position == Position(data, p)
           whole == position \div 100
           j == Neighbour(data, p)
<1>1. n \in Nat /\ n >= 2
  BY PlacesCounted
<1>2. position \in Nat
  BY <1>1 DEF Position
<1>3. j = IF whole < 1 THEN 1 ELSE IF whole > n - 1 THEN n - 1 ELSE whole
  BY DEF Neighbour
<1> HIDE DEF n, position, j
<1>4. whole \in Nat /\ 100 * whole <= position /\ position < 100 * whole + 100
  BY <1>2, Division
<1> HIDE DEF whole
<1>5. /\ j \in 1..(n - 1) /\ position - 100 * j \in Int
      /\ position - 100 * j < 0 => j = 1 /\ whole = 0
      /\ position - 100 * j >= 100 => j = n - 1
      /\ 0 <= position - 100 * j /\ position - 100 * j < 100 => whole = j
  BY <1>1, <1>2, <1>3, <1>4
<1> QED
  BY <1>2, <1>5 DEF n, position, j, whole

(* A percentile of two values or more *)
LEMMA PercentileBetween ==
  ASSUME NEW data, Sample(data), Size(data) >= 2, NEW p
  PROVE  LET j == Neighbour(data, p)
         IN percentile(data, p) =
              Between(sorted(data)[j], sorted(data)[j + 1],
                      Position(data, p) - 100 * j)
<1>1. Size(data) # 1 /\ Size(data) # 0
  BY PlacesCounted
<1>2. DOMAIN data # {}
  BY <1>1, FS_EmptySet DEF Size
<1> QED
  BY <1>1, <1>2 DEF percentile, quantile, Between

LEMMA LastIsLargest ==
  ASSUME NEW data, Sample(data), DOMAIN data # {}
  PROVE  /\ Size(data) \in Nat \ {0}
         /\ sorted(data)[Size(data)] = Max(Range(data))
<1> DEFINE n == Size(data)
           x == sorted(data)[n]
           most == Max(Range(data))
<1>1. n \in Nat /\ n # 0
  BY PlacesCounted, FS_EmptySet DEF Sample, Size
<1>2. /\ x \in Range(data) /\ x \in Nat
      /\ Cardinality(UpTo(data, x)) >= n
  BY <1>1, SortedPlaces
<1>3. most \in Nat /\ most \in Range(data) /\ \A i \in DOMAIN data : data[i] <= most
  BY Largest
<1> HIDE DEF x, most
<1>4. UpTo(data, x) = DOMAIN data
  <2>1. UpTo(data, x) \in SUBSET DOMAIN data
    BY DEF UpTo
  <2>2. /\ Cardinality(UpTo(data, x)) \in Nat
        /\ Cardinality(UpTo(data, x)) <= n
    BY <2>1, PlacesCounted
  <2>3. Cardinality(UpTo(data, x)) = Cardinality(DOMAIN data)
    BY <1>1, <1>2, <2>2 DEF Size
  <2> QED
    BY <2>1, <2>3, FS_Subset DEF Sample
<1>5. most <= x
  BY <1>3, <1>4 DEF UpTo, Range
<1>6. x <= most
  BY <1>2, <1>3 DEF Range
<1>7. x = most
  BY <1>2, <1>3, <1>5, <1>6
<1> QED
  BY <1>1, <1>7 DEF x, most

(* How many values a number at or beyond a place of the sorted list has    *)
(* below it, and above it.                                                 *)
LEMMA ShareBelow ==
  ASSUME NEW data, Sample(data), NEW k \in 1..Size(data), NEW value \in Int,
         100 * sorted(data)[k] <= value
  PROVE  Cardinality({i \in DOMAIN data : 100 * data[i] <= value}) >= k
<1> DEFINE x == sorted(data)[k]
           below == {i \in DOMAIN data : 100 * data[i] <= value}
<1>1. x \in Nat /\ Cardinality(UpTo(data, x)) >= k
  BY SortedPlaces
<1> HIDE DEF x
<1>2. below \in SUBSET DOMAIN data /\ UpTo(data, x) \in SUBSET below
  <2>1. ASSUME NEW i \in DOMAIN data, data[i] <= x PROVE 100 * data[i] <= value
    <3>1. data[i] \in Nat
      BY DEF Sample
    <3> QED
      BY <1>1, <2>1, <3>1 DEF x
  <2> QED
    BY <2>1 DEF UpTo
<1> HIDE DEF below
<1>3. /\ Cardinality(UpTo(data, x)) <= Cardinality(below)
      /\ Cardinality(UpTo(data, x)) \in Nat /\ Cardinality(below) \in Nat
  BY <1>2, PlacesCompared, PlacesCounted
<1>4. Cardinality(below) >= k
  BY <1>1, <1>3
<1> QED
  BY <1>4 DEF below

LEMMA ShareAbove ==
  ASSUME NEW data, Sample(data), NEW k \in 1..Size(data), NEW value \in Int,
         value <= 100 * sorted(data)[k]
  PROVE  Cardinality({i \in DOMAIN data : 100 * data[i] >= value})
           >= Size(data) - k + 1
<1> DEFINE x == sorted(data)[k]
           above == {i \in DOMAIN data : 100 * data[i] >= value}
           rest == DOMAIN data \ Smaller(data, x)
<1>1. x \in Nat /\ Cardinality(Smaller(data, x)) < k
  BY SortedPlaces
<1> HIDE DEF x
<1>2. above \in SUBSET DOMAIN data /\ rest \in SUBSET above
  <2>1. ASSUME NEW i \in DOMAIN data, ~(data[i] < x)
        PROVE  100 * data[i] >= value
    <3>1. data[i] \in Nat
      BY DEF Sample
    <3> QED
      BY <1>1, <2>1, <3>1 DEF x
  <2> QED
    BY <2>1 DEF Smaller
<1>3. /\ Smaller(data, x) \in SUBSET DOMAIN data
      /\ Smaller(data, x) = DOMAIN data \cap Smaller(data, x)
  BY DEF Smaller
<1>4. Cardinality(rest) = Size(data) - Cardinality(Smaller(data, x))
  <2> DEFINE smaller == Smaller(data, x)
  <2>1. IsFiniteSet(DOMAIN data)
    BY DEF Sample
  <2>2. Cardinality(DOMAIN data \ smaller) =
          Cardinality(DOMAIN data) - Cardinality(DOMAIN data \cap smaller)
    BY <2>1, FS_Difference
  <2> QED
    BY <1>3, <2>2 DEF Size
<1> HIDE DEF above, rest
<1>5. /\ Cardinality(rest) <= Cardinality(above)
      /\ Cardinality(above) \in Nat /\ Size(data) \in Nat
      /\ Cardinality(Smaller(data, x)) \in Nat
  BY <1>2, <1>3, PlacesCompared, PlacesCounted
<1>6. Cardinality(above) >= Size(data) - k + 1
  BY <1>1, <1>4, <1>5
<1> QED
  BY <1>6 DEF above

LEMMA PercentileOfMany ==
  ASSUME NEW data, Sample(data), Size(data) >= 2, NEW p \in 1..99
  PROVE  PercentileOf(data, p)
<1> DEFINE n == Size(data)
           position == Position(data, p)
           j == Neighbour(data, p)
           d == position - 100 * j
           a == sorted(data)[j]
           b == sorted(data)[j + 1]
           value == percentile(data, p)
           share == position \div 100
           largest == 100 * Max(Range(data))
           below == Cardinality({i \in DOMAIN data : 100 * data[i] <= value})
           above == Cardinality({i \in DOMAIN data : 100 * data[i] >= value})
<1>1. /\ n \in Nat /\ n >= 2 /\ DOMAIN data # {}
      /\ below \in Nat /\ above \in Nat
  <2>1. DOMAIN data # {}
    BY FS_EmptySet DEF Size
  <2> QED
    BY <2>1, PlacesCounted
<1>2. /\ j \in 1..(n - 1) /\ position \in Nat /\ d \in Int
      /\ d < 0 => j = 1 /\ share = 0
      /\ d >= 100 => j = n - 1
      /\ 0 <= d /\ d < 100 => share = j
  BY NeighbourOf
<1>3. j \in 1..n /\ j + 1 \in 1..n
  BY <1>1, <1>2
<1>4. a \in Nat /\ b \in Nat /\ a <= b
  BY <1>1, <1>3, SortedPlaces, SortedUp
<1>5. value = Between(a, b, d)
  BY PercentileBetween
<1>6. largest = 100 * sorted(data)[n] /\ largest \in Nat
  BY <1>1, LastIsLargest, Largest
<1>7. b <= sorted(data)[n] /\ sorted(data)[n] \in Nat
  BY <1>1, <1>3, SortedPlaces, SortedUp
<1>8. position = d + 100 * j
  BY <1>1, <1>2 DEF Position
<1>9. /\ value \in Int
      /\ d <= 0 => value <= 100 * a
      /\ d >= 0 => value >= 100 * a
      /\ d <= 100 => value <= 100 * b
      /\ d >= 100 => value >= 100 * b
  <2> HIDE DEF j, a, b, d, value
  <2>1. d \in Int
    BY <1>2
  <2>2. /\ Between(a, b, d) \in Int
        /\ d <= 0 => Between(a, b, d) <= 100 * a
        /\ d >= 0 => Between(a, b, d) >= 100 * a
        /\ d <= 100 => Between(a, b, d) <= 100 * b
        /\ d >= 100 => Between(a, b, d) >= 100 * b
    BY <1>4, <2>1, Interpolation
  <2> QED
    BY <1>5, <2>2
<1>10. d >= 0 => below >= j
  <2> HIDE DEF d, j
  <2> QED
    BY <1>3, <1>9, ShareBelow DEF a
<1>11. d >= 100 => below >= j + 1
  <2> HIDE DEF d, j
  <2> QED
    BY <1>3, <1>9, ShareBelow DEF b
<1>12. d <= 0 => above >= n - j + 1
  <2> HIDE DEF d, j
  <2> QED
    BY <1>3, <1>9, ShareAbove DEF a
<1>13. d <= 100 => above >= n - (j + 1) + 1
  <2> HIDE DEF d, j
  <2> QED
    BY <1>3, <1>9, ShareAbove DEF b
<1>14. /\ share \in Nat /\ 100 * share <= position
       /\ position < 100 * share + 100
  <2> HIDE DEF position
  <2> QED
    BY <1>2, Division
<1>15. CASE position <= 100 * n
  <2>1. d <= 100
    BY <1>1, <1>2, <1>8, <1>15
  <2> HIDE DEF n, position, j, d, a, b, value, share, largest, below, above
  <2>2. value <= largest
    BY <1>4, <1>6, <1>7, <1>9, <2>1
  <2>3. below >= share
    BY <1>1, <1>2, <1>8, <1>10, <1>11, <1>14, <1>15, <2>1
  <2>4. above >= n - share
    BY <1>1, <1>2, <1>8, <1>12, <1>13, <1>14, <1>15, <2>1
  <2> QED
    BY <1>15, <2>2, <2>3, <2>4
       DEF PercentileOf, n, position, value, share, largest, below, above
<1>16. CASE ~(position <= 100 * n)
  <2>1. d >= 100 /\ j = n - 1
    BY <1>1, <1>2, <1>8, <1>16
  <2>2. b = sorted(data)[n]
    BY <1>1, <2>1
  <2> HIDE DEF n, position, j, d, a, b, value, largest
  <2>3. value >= largest
    BY <1>6, <1>9, <2>1, <2>2
  <2> QED
    BY <1>16, <2>3 DEF PercentileOf, n, position, value, largest
<1> QED
  BY <1>15, <1>16

LEMMA PercentileOfOne ==
  ASSUME NEW data, Sample(data), Size(data) = 1, NEW p \in {50, 95, 99}
  PROVE  PercentileOf(data, p)
<1> DEFINE x == sorted(data)[1]
           value == percentile(data, p)
           below == Cardinality({i \in DOMAIN data : 100 * data[i] <= value})
           above == Cardinality({i \in DOMAIN data : 100 * data[i] >= value})
<1>1. DOMAIN data # {} /\ x = Max(Range(data)) /\ x \in Nat
  BY FS_EmptySet, LastIsLargest, Largest DEF Size
<1>2. value = 100 * x
  BY <1>1 DEF percentile
<1> HIDE DEF x, value
<1>3. below >= 1
  BY <1>1, <1>2, ShareBelow DEF x
<1>4. above >= 1
  BY <1>1, <1>2, ShareAbove DEF x
<1>5. Position(data, p) = 2 * p
  BY DEF Position
<1>6. \/ p = 50 /\ Position(data, p) <= 100 * Size(data)
              /\ Position(data, p) \div 100 = 1
      \/ ~(Position(data, p) <= 100 * Size(data))
  BY <1>5
<1>7. above \in Nat
  BY PlacesCounted
<1> HIDE DEF below, above
<1>8. /\ below >= 1 /\ above >= Size(data) - 1
      /\ value <= 100 * Max(Range(data)) /\ value >= 100 * Max(Range(data))
  BY <1>1, <1>2, <1>3, <1>4, <1>7
<1> QED
  BY <1>6, <1>8 DEF PercentileOf, value, below, above

(* The order of two percentiles of the same sample *)
LEMMA PercentilesUp ==
  ASSUME NEW data, Sample(data), Size(data) >= 2,
         NEW p \in 1..99, NEW q \in 1..99, p <= q
  PROVE  percentile(data, p) <= percentile(data, q)
<1> DEFINE n == Size(data)
           j == Neighbour(data, p)
           k == Neighbour(data, q)
           d == Position(data, p) - 100 * j
           e == Position(data, q) - 100 * k
           S(i) == sorted(data)[i]
<1>1. n \in Nat /\ n >= 2
  BY PlacesCounted
<1>2. /\ j \in 1..(n - 1) /\ d \in Int
      /\ k \in 1..(n - 1) /\ e \in Int
      /\ d >= 100 => j = n - 1
      /\ e < 0 => k = 1
      /\ d < 0 => j = 1
      /\ e >= 100 => k = n - 1
  BY NeighbourOf
<1>3. Position(data, p) = d + 100 * j /\ Position(data, q) = e + 100 * k
  BY <1>1, <1>2 DEF Position
<1>4. Position(data, p) <= Position(data, q)
  <2>1. q * (n + 1) - p * (n + 1) = (q - p) * (n + 1)
    BY <1>1
  <2>2. (q - p) * (n + 1) >= 0
    BY <1>1
  <2> QED
    BY <1>1, <2>1, <2>2 DEF Position
<1>5. /\ percentile(data, p) = Between(S(j), S(j + 1), d)
      /\ percentile(data, q) = Between(S(k), S(k + 1), e)
  BY PercentileBetween
<1>6. /\ j \in 1..n /\ j + 1 \in 1..n /\ k \in 1..n /\ k + 1 \in 1..n
  BY <1>1, <1>2
<1>7. /\ S(j) \in Nat /\ S(j + 1) \in Nat /\ S(j) <= S(j + 1)
      /\ S(k) \in Nat /\ S(k + 1) \in Nat /\ S(k) <= S(k + 1)
      /\ j + 1 <= k => S(j + 1) <= S(k)
  BY <1>1, <1>6, SortedPlaces, SortedUp
<1>8. CASE j = k
  <2>1. d <= e
    BY <1>2, <1>3, <1>4, <1>8
  <2> HIDE DEF j, k, d, e, S
  <2>2. Between(S(j), S(j + 1), d) <= Between(S(j), S(j + 1), e)
    BY <1>2, <1>7, <2>1, InterpolationUp
  <2> QED
    BY <1>5, <1>8, <2>2
<1>9. CASE j # k
  <2> HIDE DEF n, j, k, d, e
  <2>1. j < k /\ d <= 100 /\ e >= 0
    BY <1>1, <1>2, <1>3, <1>4, <1>9
  <2>2. S(j + 1) <= S(k)
    BY <1>2, <1>7, <2>1
  <2> HIDE DEF S
  <2>3. Between(S(j), S(j + 1), d) <= 100 * S(j + 1)
    BY <1>2, <1>7, <2>1, Interpolation
  <2>4. 100 * S(k) <= Between(S(k), S(k + 1), e)
    BY <1>2, <1>7, <2>1, Interpolation
  <2>5. Between(S(j), S(j + 1), d) \in Int /\ Between(S(k), S(k + 1), e) \in Int
    BY <1>2, <1>7, Interpolation
  <2> QED
    BY <1>5, <1>7, <2>2, <2>3, <2>4, <2>5
<1> QED
  BY <1>8, <1>9

LEMMA PercentilesRight ==
  ASSUME NEW data, Sample(data)
  PROVE  PercentilesOf(data)
<1>1. CASE DOMAIN data = {}
  BY <1>1 DEF PercentilesOf, percentile
<1>2. CASE Size(data) = 1
  <2>1. DOMAIN data # {}
    BY <1>2, FS_EmptySet DEF Size
  <2>2. \A p : percentile(data, p) = 100 * sorted(data)[1]
    BY <1>2, <2>1 DEF percentile
  <2>3. 100 * sorted(data)[1] \in Nat
    BY <1>2, SortedPlaces
  <2> QED
    BY <1>2, <2>1, <2>2, <2>3, PercentileOfOne DEF PercentilesOf
<1>3. CASE Size(data) >= 2
  <2>1. 50 \in 1..99 /\ 95 \in 1..99 /\ 99 \in 1..99 /\ 50 <= 95 /\ 95 <= 99
    OBVIOUS
  <2>2. percentile(data, 50) <= percentile(data, 95)
    BY ZenonT(60), <1>3, <2>1, PercentilesUp
  <2>3. percentile(data, 95) <= percentile(data, 99)
    BY ZenonT(60), <1>3, <2>1, PercentilesUp
  <2>4. \A p \in {50, 95, 99} : PercentileOf(data, p)
    BY <1>3, PercentileOfMany
  <2> QED
    BY <2>2, <2>3, <2>4 DEF PercentilesOf
<1>4. \/ DOMAIN data = {} \/ Size(data) = 1 \/ Size(data) >= 2
  <2>1. Size(data) \in Nat /\ (Size(data) = 0 => DOMAIN data = {})
    BY PlacesCounted, FS_EmptySet DEF Sample, Size
  <2> QED
    BY <2>1
<1> QED
  BY <1>1, <1>2, <1>3, <1>4

LEMMA PercentilesOfResults == Inv => Percentiles
<1> SUFFICES ASSUME Inv PROVE Percentiles
  OBVIOUS
<1>1. ASSUME NEW data \in Samples PROVE PercentilesOf(data)
  <2>1. data \in Seq(Nat) /\ DOMAIN data = 1..Len(data) /\ Len(data) \in Nat
    BY AnalysisAssumption
  <2>2. IsFiniteSet(DOMAIN data)
    BY <2>1, FS_Interval
  <2> QED
    BY <2>1, <2>2, PercentilesRight DEF Sample
<1>2. ASSUME NEW s \in Slots
      PROVE  PercentilesOf(extract_latencies(records(s)))
  <2> DEFINE lines == records(s)
             answered == {i \in DOMAIN lines : ~lines[i].error}
             data == extract_latencies(lines)
  <2>1. /\ DOMAIN data = answered
        /\ \A i \in answered : data[i] = lines[i].elapsed_ms
    BY DEF extract_latencies
  <2>2. CASE results_file[s] = None
    <3>1. answered = {}
      BY <2>2 DEF records, Kept
    <3> HIDE DEF data, answered
    <3>2. Sample(data)
      BY <2>1, <3>1, FS_EmptySet DEF Sample
    <3> QED
      BY <3>2, PercentilesRight DEF data
  <2>3. CASE results_file[s] # None
    <3> DEFINE run == results_file[s]
    <3>1. run \in Runs /\ lines = run.records
      BY <2>3 DEF records, Kept, Inv, TypeOK
    <3>2. /\ DOMAIN lines = 1..Len(lines) /\ Len(lines) \in Nat
          /\ \A i \in DOMAIN lines : lines[i].elapsed_ms \in Nat
      BY <3>1, AnalysisAssumption
    <3>3. IsFiniteSet(DOMAIN lines)
      BY <3>2, FS_Interval
    <3>4. answered \in SUBSET DOMAIN lines
      OBVIOUS
    <3>5. IsFiniteSet(answered)
      BY <3>3, <3>4, FS_Subset
    <3> HIDE DEF data, answered
    <3>6. Sample(data)
      BY <2>1, <3>2, <3>4, <3>5 DEF Sample
    <3> QED
      BY <3>6, PercentilesRight DEF data
  <2> QED
    BY <2>2, <2>3
<1> QED
  BY <1>1, <1>2 DEF Percentiles, PercentilesOfSamples

(* The percentiles of the report are percentiles, for any number of        *)
(* latencies, and whatever files an interrupted runner has left.           *)
THEOREM PercentilesArePercentiles == Spec => []Percentiles
BY PercentilesOfResults, InitInv, NextInv, PTL DEF Spec

=============================================================================
