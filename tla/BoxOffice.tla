------------------------------ MODULE BoxOffice ------------------------------
(***************************************************************************)
(* The stock and the ledger of sales as their users see them: a purchase   *)
(* takes effect at one instant.  RedisInventory is shown to implement this *)
(* (TicketSale); the components above the repository use it as it is.      *)
(***************************************************************************)
EXTENDS Ticketing

CONSTANT
  SeededTickets   \* tickets of each type put on sale

Offered == 1..SeededTickets

VARIABLES
  stock,     \* unnumbered tickets left
  owner,     \* owner[s]: who bought seat s, or None
  ledger     \* ledger[r]: the result of the sale of request r, or None

boxOffice == <<stock, owner, ledger>>

BoxOfficeInit ==
  /\ stock = SeededTickets
  /\ owner = [s \in Offered |-> None]
  /\ ledger = [r \in RequestIds |-> None]

(* Mutant of SellTicket: it does not look at the stock. *)
SellAnyTicket(o, result) ==
  /\ Unnumbered(o)
  /\ ledger[o.request_id] = None
  /\ result = accepted(o, stock - 1)
  /\ stock' = stock - 1
  /\ ledger' = [ledger EXCEPT ![o.request_id] = result]
  /\ UNCHANGED owner

SellTicket(o, result) ==
  /\ Unnumbered(o)
  /\ ledger[o.request_id] = None
  /\ stock > 0
  /\ result = accepted(o, stock - 1)
  /\ stock' = stock - 1
  /\ ledger' = [ledger EXCEPT ![o.request_id] = result]
  /\ UNCHANGED owner

(* Mutant of SellSeat: it does not look whether the seat is free. *)
SellAnySeat(o, result) ==
  /\ Numbered(o)
  /\ ledger[o.request_id] = None
  /\ o.seat_id \in Offered
  /\ result = accepted(o, None)
  /\ owner' = [owner EXCEPT ![o.seat_id] = o.client_id]
  /\ ledger' = [ledger EXCEPT ![o.request_id] = result]
  /\ UNCHANGED stock

SellSeat(o, result) ==
  /\ Numbered(o)
  /\ ledger[o.request_id] = None
  /\ o.seat_id \in Offered
  /\ owner[o.seat_id] = None
  /\ result = accepted(o, None)
  /\ owner' = [owner EXCEPT ![o.seat_id] = o.client_id]
  /\ ledger' = [ledger EXCEPT ![o.request_id] = result]
  /\ UNCHANGED stock

Sell(o, result) == SellTicket(o, result) \/ SellSeat(o, result)

Repeat(o, result) ==
  /\ ledger[o.request_id] # None
  /\ result = Replayed(o, ledger[o.request_id])
  /\ UNCHANGED boxOffice

(* A refusal speaks of the stock only: it does not promise that the request *)
(* has no sale of its own (see OneVerdict in RedisInventory).               *)
Refuse(o, result) ==
  /\ \/ /\ Unnumbered(o)
        /\ stock = 0
        /\ result = rejected(o, "sold_out")
     \/ /\ Numbered(o)
        /\ o.seat_id \notin Offered
        /\ result = rejected(o, "invalid_seat")
     \/ /\ Numbered(o)
        /\ o.seat_id \in Offered
        /\ owner[o.seat_id] # None
        /\ result = rejected(o, "seat_already_sold")
  /\ UNCHANGED boxOffice

(* The exception that escapes says nothing about the sale. *)
Fail(o, result) ==
  /\ result = NoResult(o)
  /\ UNCHANGED boxOffice

(* Everything a purchase may be answered with now. *)
ResultsFor(o) ==
  {accepted(o, stock - 1), accepted(o, None), NoResult(o)}
    \cup {rejected(o, why) :
            why \in {"sold_out", "invalid_seat", "seat_already_sold"}}
    \cup {Replayed(o, sale) : sale \in {ledger[o.request_id]} \ {None}}
=============================================================================
