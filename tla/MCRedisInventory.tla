-------------------------- MODULE MCRedisInventory ---------------------------
(***************************************************************************)
(* Small instances of RedisInventory: two tickets of each type, one seat   *)
(* number that is valid but was never seeded, the same request sent twice, *)
(* a request_id used for both ticket types, and inputs that validation     *)
(* refuses.                                                                *)
(***************************************************************************)
EXTENDS RedisInventory, TLC

CONSTANTS t1, t2, c1, c2, r1, r2, r3, blank

UnnumberedOp(c, r) ==
  [ticket_type |-> "unnumbered", client_id |-> c, request_id |-> r,
   seat_id |-> None]

NumberedOp(c, s, r) ==
  [ticket_type |-> "numbered", client_id |-> c, request_id |-> r,
   seat_id |-> s]

MCThreads    == {t1, t2}
MCClientIds  == {c1, c2}
MCRequestIds == {r1, r2, r3}

(* Inputs that validation refuses. *)
InvalidOps ==
  {NumberedOp(c1, TOTAL_TICKETS + 1, r1), NumberedOp(c2, 0, r2),
   UnnumberedOp(blank, r1), NumberedOp(c2, 1, blank)}

(* Three requests for two tickets. *)
UnnumberedOps ==
  {UnnumberedOp(c1, r1), UnnumberedOp(c2, r2), UnnumberedOp(c1, r3)}

(* Two clients after the same seat, one of them with a request_id that is  *)
(* also used for an unnumbered ticket, and a seat that was never seeded.   *)
MixedOps ==
  {UnnumberedOp(c1, r1), NumberedOp(c2, 1, r1), NumberedOp(c1, 1, r2),
   NumberedOp(c1, TOTAL_TICKETS, r3)} \cup InvalidOps

ThreadSymmetry == Permutations(Threads)
=============================================================================
