----------------------------- MODULE TicketSale ------------------------------
(***************************************************************************)
(* What the shop promises, with no Redis in sight: a sale happens at one   *)
(* instant, takes one ticket out of the stock or one free seat, and is     *)
(* entered in the ledger under its request_id.  An answer is given at an   *)
(* instant at which it is true of the stock.                               *)
(***************************************************************************)
EXTENDS BoxOffice

VARIABLE
  answers    \* every <<operation, result>> returned to a caller

saleVars == <<boxOffice, answers>>

Init == BoxOfficeInit /\ answers = {}

Answer(o, result) == answers' = answers \cup {[op |-> o, result |-> result]}

(* A sale that happened may still fail to be answered: the reply of the    *)
(* store was lost, or the process that waited for it is gone.              *)
Unanswered == UNCHANGED answers

Next ==
  \E o \in Ops :
    /\ ValidInput(o)
    /\ \E result \in ResultsFor(o) :
         \/ Sell(o, result) /\ (Answer(o, result) \/ Unanswered)
         \/ Repeat(o, result) /\ Answer(o, result)
         \/ Refuse(o, result) /\ Answer(o, result)
         \/ Fail(o, result) /\ Answer(o, result)

Spec == Init /\ [][Next]_saleVars
=============================================================================
