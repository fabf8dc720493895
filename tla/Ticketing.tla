------------------------------ MODULE Ticketing ------------------------------
(***************************************************************************)
(* The domain of the ticket shop: purchase operations, their validation    *)
(* and the results a purchase is answered with                             *)
(* (core/domain/, core/services/validation_service.py).  It has no state;  *)
(* every module that sells or carries tickets extends it.                  *)
(***************************************************************************)
EXTENDS Integers

CONSTANTS
  ClientIds,      \* the well-formed client identifiers
  RequestIds,     \* the well-formed request identifiers
  Blank,          \* a string that strip() empties
  None,           \* Python's None: an absent field or a missing Redis key
  TOTAL_TICKETS,  \* the size of the venue
  Ops             \* the purchases the callers may ask for

TicketType == {"unnumbered", "numbered"}

SeatIds == 1..TOTAL_TICKETS

----------------------------------------------------------------------------
(* Results.  A field that the Python object leaves at None is None here.   *)

PurchaseStatus == {"ACCEPTED", "REJECTED"}

PurchaseResult ==
  [status      : PurchaseStatus \cup {"ERROR"},
   request_id  : RequestIds,
   client_id   : ClientIds,
   reason      : {"ok", "sold_out", "seat_already_sold", "invalid_seat",
                  "connection_error"},
   ticket_type : TicketType,
   seat_id     : SeatIds \cup {None},
   remaining   : Int \cup {None},
   duplicate   : BOOLEAN]

accepted(o, left) ==
  [status |-> "ACCEPTED", request_id |-> o.request_id,
   client_id |-> o.client_id, reason |-> "ok",
   ticket_type |-> o.ticket_type, seat_id |-> o.seat_id,
   remaining |-> left, duplicate |-> FALSE]

rejected(o, why) ==
  [status |-> "REJECTED", request_id |-> o.request_id,
   client_id |-> o.client_id, reason |-> why,
   ticket_type |-> o.ticket_type, seat_id |-> o.seat_id,
   remaining |-> None, duplicate |-> FALSE]

(* What a caller sees when redis-py's ConnectionError escapes the call: no  *)
(* PurchaseResult at all.                                                   *)
NoResult(o) ==
  [rejected(o, "connection_error") EXCEPT !.status = "ERROR"]

(* The answer to a request that already has a stored result.  Each buy     *)
(* method copies only the fields of its own ticket type.                   *)
Replayed(o, stored) ==
  [stored EXCEPT
     !.request_id = o.request_id,
     !.seat_id    = IF o.ticket_type = "numbered" THEN @ ELSE None,
     !.remaining  = IF o.ticket_type = "unnumbered" THEN @ ELSE None,
     !.duplicate  = TRUE]

----------------------------------------------------------------------------
(* Operations and their validation.                                        *)

Operation ==
  [ticket_type : TicketType,
   client_id   : ClientIds \cup {Blank},
   request_id  : RequestIds \cup {Blank},
   seat_id     : Int \cup {None}]

Unnumbered(o) == o.ticket_type = "unnumbered"
Numbered(o)   == o.ticket_type = "numbered"

validate_common_input(o) ==
  /\ o.client_id # Blank
  /\ o.request_id # Blank

validate_seat_id(s) == s \in SeatIds

(* The operations PurchaseService passes on to the repository; the others  *)
(* end in InvalidInputError before any key is touched.                     *)
ValidInput(o) ==
  /\ validate_common_input(o)
  /\ Numbered(o) => validate_seat_id(o.seat_id)

(* Operations are well formed; only numbered ones name a seat.  None and    *)
(* Blank differ from every identifier and value they stand beside.          *)
ASSUME DomainAssumption ==
  /\ TOTAL_TICKETS \in Nat \ {0}
  /\ Ops \subseteq Operation
  /\ \A o \in Ops : Unnumbered(o) <=> o.seat_id = None
  /\ Blank \notin ClientIds \cup RequestIds
  /\ None \notin Int
  /\ None \notin ClientIds
  /\ None \notin Operation
  /\ None \notin PurchaseResult
  /\ None \notin PurchaseStatus
=============================================================================
