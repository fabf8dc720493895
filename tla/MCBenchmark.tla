----------------------------- MODULE MCBenchmark ------------------------------
(***************************************************************************)
(* A small instance of Benchmark: two replicas, three purchases for two    *)
(* tickets or for one seat.                                                *)
(***************************************************************************)
EXTENDS Benchmark, TLC

CONSTANTS a1, a2, c1, c2, r1, r2, r3

UnnumberedOp(c, r) ==
  [ticket_type |-> "unnumbered", client_id |-> c, request_id |-> r,
   seat_id |-> None]

NumberedOp(c, r, s) ==
  [ticket_type |-> "numbered", client_id |-> c, request_id |-> r,
   seat_id |-> s]

MCReplicas == {a1, a2}
MCClientIds == {c1, c2}
MCRequestIds == {r1, r2, r3}

TicketFile ==
  <<UnnumberedOp(c1, r1), UnnumberedOp(c2, r2), UnnumberedOp(c2, r3)>>
SeatFile ==
  <<Comment, NumberedOp(c1, r1, 1), NumberedOp(c2, r2, 1)>>
OutOfRange == <<NumberedOp(c1, r1, 3), NumberedOp(c2, r2, 2)>>
BrokenFile == <<UnnumberedOp(c1, r1), Garbage>>

MCFiles ==
  {TicketFile, SubSeq(TicketFile, 1, 2), SeatFile, OutOfRange, BrokenFile}
MCOps == UNION {Range(f) \ {Comment, Garbage} : f \in MCFiles}
MCCalls == 1..3

(* Two faults while two purchases run, one while three do.                 *)
MCBound == Cardinality(Operations) + faults <= 4

(* The replicas are interchangeable, for safety. *)
MCSymmetry == Permutations(MCReplicas)

(* Two purchases for one ticket or one seat, for the liveness properties.  *)
LiveFiles ==
  {SubSeq(TicketFile, 1, 2), Tail(SeatFile), <<Comment, SeatFile[2]>>,
   <<NumberedOp(c1, r1, 2)>>, BrokenFile}
LiveOps == UNION {Range(f) \ {Comment, Garbage} : f \in LiveFiles}
LiveRequestIds == {r1, r2}
LiveCalls == 1..2
=============================================================================
