----------------------------- MODULE MCSeeding -------------------------------
(***************************************************************************)
(* A small instance of Seeding: the seeding tool and a thread that buys.   *)
(***************************************************************************)
EXTENDS Seeding, TLC

CONSTANTS t1, c1, c2, r1, r2, blank

UnnumberedOp(c, r) ==
  [ticket_type |-> "unnumbered", client_id |-> c, request_id |-> r,
   seat_id |-> None]

NumberedOp(c, s, r) ==
  [ticket_type |-> "numbered", client_id |-> c, request_id |-> r,
   seat_id |-> s]

MCThreads    == {t1}
MCClientIds  == {c1, c2}
MCRequestIds == {r1, r2}

(* Two tickets and, with a request_id of theirs, a seat. *)
MCOps ==
  {UnnumberedOp(c1, r1), UnnumberedOp(c2, r2), NumberedOp(c2, 1, r2)}

(* No action and no property here reads the answers. *)
NoAnswers == <<store, calls, faults, seeder, history>>
=============================================================================
