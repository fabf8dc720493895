-------------------------- MODULE MCIndirectSystem ---------------------------
(***************************************************************************)
(* Small instances of IndirectSystem: two handlers, two workers, two       *)
(* clients after one ticket or one seat.                                   *)
(***************************************************************************)
EXTENDS IndirectSystem, TLC

CONSTANTS h1, h2, w1, w2, c1, c2, r1, r2, blank

UnnumberedOp(c, r) ==
  [ticket_type |-> "unnumbered", client_id |-> c, request_id |-> r,
   seat_id |-> None]

NumberedOp(c, r, s) ==
  [ticket_type |-> "numbered", client_id |-> c, request_id |-> r,
   seat_id |-> s]

MCHandlers   == {h1, h2}
MCWorkers    == {w1, w2}
OneWorker    == {w1}
MCClientIds  == {c1, c2}
MCRequestIds == {r1, r2}

(* Two clients after the only ticket; in place of the first, also a request *)
(* without a client.                                                        *)
TicketOps ==
  {UnnumberedOp(c1, r1), UnnumberedOp(c2, r2), UnnumberedOp(Blank, r1)}

(* Two clients after the only seat. *)
SeatOps == {NumberedOp(c1, r1, 1), NumberedOp(c2, r2, 1)}

MCSymmetry == Permutations(Handlers) \cup Permutations(Workers)
=============================================================================
