----------------------------- MODULE TicketShop ------------------------------
(***************************************************************************)
(* What both architectures promise their clients, from the HTTP request to *)
(* the HTTP response: nothing is sold that nobody asked for, and who is    *)
(* told something is told the truth.  A sale and its answer are different  *)
(* instants; the answer may never come, or come long after.                *)
(***************************************************************************)
EXTENDS BoxOffice

VARIABLES
  asked,    \* the purchases clients have sent
  told      \* the results they have received, each with its purchase

shopVars == <<boxOffice, asked, told>>

Init == BoxOfficeInit /\ asked = {} /\ told = {}

Ask == /\ asked \subseteq asked'
       /\ asked' \subseteq Ops
       /\ UNCHANGED <<boxOffice, told>>

Serve == \E o \in asked :
           /\ ValidInput(o)
           /\ \E result \in ResultsFor(o) : Sell(o, result)
           /\ UNCHANGED <<asked, told>>

(* A result that says "accepted" repeats what is on record; each of the     *)
(* refusals by the stock is a fact about the stock, which stays one.        *)
Holds(o, result) ==
  /\ result.request_id = o.request_id
  /\ result.status = "ACCEPTED" =>
       LET sale == ledger[o.request_id] IN
       /\ sale # None
       /\ result.client_id = sale.client_id
       /\ result.ticket_type = sale.ticket_type
       /\ result.seat_id \in {sale.seat_id, None}
       /\ result.remaining \in {sale.remaining, None}
  /\ result.reason = "sold_out" => stock = 0
  /\ result.reason = "seat_already_sold" =>
       result.seat_id \in Offered /\ owner[result.seat_id] # None
  /\ result.reason = "invalid_seat" => result.seat_id \notin Offered

(* What a client has received stays with it.                               *)
Tell == /\ told \subseteq told'
        /\ \A x \in told' \ told : x.op \in asked /\ Holds(x.op, x.result)
        /\ UNCHANGED <<boxOffice, asked>>

Next == Ask \/ Serve \/ Tell

Spec == Init /\ [][Next]_shopVars
=============================================================================
