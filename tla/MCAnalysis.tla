------------------------------ MODULE MCAnalysis ------------------------------
(***************************************************************************)
(* A small instance of Analysis: two benchmarks on both architectures, one *)
(* architecture in the other tests, and three runs that differ in what the *)
(* operations came to.                                                     *)
(***************************************************************************)
EXTENDS Analysis

MCSlots ==
  {At("base", arch, case) : arch \in {"direct", "indirect"},
                              case \in {"unnumbered", "numbered"}}
    \cup {With("indirect", workers) : workers \in {1, 2}}
    \cup {At("contention", "indirect", case) : case \in {"normal", "hotspot"}}

Answered(ms, status, duplicate) ==
  [elapsed_ms |-> ms, error |-> FALSE,
   response_body |-> [status |-> status, duplicate |-> duplicate]]
ErrorPage(ms) == [elapsed_ms |-> ms, error |-> FALSE, response_body |-> None]
Failed(ms) == [elapsed_ms |-> ms, error |-> TRUE, response_body |-> None]

(* Two operations a second, give or take 1/10000.                          *)
Steady == [ms |-> 3499, records |-> [k \in 1..7 |->
             Answered(IF k = 7 THEN 1000 ELSE 100 + 50 * (k % 3), "ACCEPTED", FALSE)]]
(* Faster than Steady, by less than the four decimals of a ratio show.     *)
Brisk == [ms |-> 2999, records |-> [k \in 1..6 |->
            Answered(IF k = 6 THEN 1000 ELSE 150, "ACCEPTED", FALSE)]]
SoldOut == [ms |-> 3000, records |-> <<Answered(200, "ACCEPTED", TRUE),
                                       Answered(300, "REJECTED", FALSE),
                                       ErrorPage(100), Failed(900)>>]
MCRuns == {Steady, Brisk, SoldOut}

(* Nothing, a complete session in which the architectures are level but for *)
(* the rounding, or one in which each of them is faster in one benchmark.   *)
MCEarlier ==
  LET Steadily(s) == \/ s.test = "scalability"
                     \/ s.case \in {"unnumbered", "normal"}
      Fast(s) == IF s.arch = "direct" THEN s.case = "unnumbered"
                                      ELSE s.case \in {"numbered", "normal"}
  IN {[s \in MCSlots |-> None],
      [s \in MCSlots |-> IF Steadily(s)
                           THEN IF s.arch = "direct" THEN Brisk ELSE Steady
                           ELSE SoldOut],
      [s \in MCSlots |-> IF Fast(s) THEN Steady ELSE SoldOut]}

(* Samples of up to 21 values among three, and of about 100 among two: on  *)
(* both sides of the sizes from which each percentile lies in the sample.  *)
MCSamples ==
  {[i \in 1..(a + b + c) |-> IF i <= a THEN 10 ELSE IF i <= a + b THEN 1 ELSE 2]
     : a \in 0..3, b \in 0..9, c \in {0, 1, 4, 8}}
    \cup {[i \in 1..(a + b) |-> IF i <= a THEN 7 ELSE 3]
            : a \in 0..2, b \in {47, 97, 98, 99}}
=============================================================================
