--------------------------- MODULE RedisInventory ----------------------------
(***************************************************************************)
(* RedisInventoryRepository: purchases as optimistic Redis transactions    *)
(* (adapters/persistence/redis/repositories.py).                           *)
(*                                                                         *)
(* Several threads (workers, API request handlers) run buy_unnumbered and  *)
(* buy_numbered at the same time.  Each method is WATCH, two GETs and      *)
(* MULTI/EXEC, and each of those is a round trip to Redis between which    *)
(* any other thread may run, so each is an action of its own.  A WatchError *)
(* sends the method back to WATCH.                                         *)
(***************************************************************************)
EXTENDS Ticketing, Sequences, FiniteSets

CONSTANTS
  Threads,        \* the threads that call the repository
  SeededTickets,  \* tickets of each type that initialize put on sale
  MaxFaults       \* bound on lost connections, lost replies and crashes

ASSUME InventoryAssumption ==
  /\ SeededTickets \in Nat \ {0}
  /\ MaxFaults \in Nat
  /\ IsFiniteSet(RequestIds)
  /\ IsFiniteSet(Threads)

VARIABLES
  (* the keys of the store; a missing counter reads as 0 *)
  counter,        \* ct:unnumbered:available
  seat,           \* ct:numbered:seat:<s>, or None
  available_set,  \* ct:numbered:available_set
  idempotency,    \* ct:idempotency:<r>, or None
  purchases,      \* ct:client:<c>:purchases
  (* the calls in progress, and the server's state of their connections *)
  pc,             \* the round trip thread t is about to make
  op,             \* the purchase it is making
  watching,       \* the keys its connection watches
  dirty,          \* has one of them been modified since WATCH?
  available,      \* the counter it read
  attempt,        \* how many WatchErrors it has had
  (* the environment *)
  answers,        \* every <<operation, result>> returned to a caller
  faults          \* faults so far

store == <<counter, seat, available_set, idempotency, purchases>>
calls == <<pc, op, watching, dirty, available, attempt>>
vars  == <<store, calls, answers, faults>>

Offered == 1..SeededTickets
Seats   == SeatIds \cup Offered

----------------------------------------------------------------------------
(* Keys (key_schema.py) and what is stored under them.                     *)

CounterKey        == <<"unnumbered", "available">>
SeatKey(s)        == <<"seat", s>>
IdempotencyKey(r) == <<"idempotency", r>>

Keys ==
  {CounterKey} \cup {SeatKey(s) : s \in Seats}
               \cup {IdempotencyKey(r) : r \in RequestIds}

StockKey(o) == IF Unnumbered(o) THEN CounterKey ELSE SeatKey(o.seat_id)

(* mutants: one of the two keys is forgotten *)
StockKeyOnly(o)       == {StockKey(o)}
IdempotencyKeyOnly(o) == {IdempotencyKey(o.request_id)}

WatchedKeys(o) == {StockKey(o), IdempotencyKey(o.request_id)}

(* The keys some call may watch that a purchase writes. *)
WrittenKeys(o) == {StockKey(o), IdempotencyKey(o.request_id)}

FreeSeat    == [status |-> "available", owner |-> None]

(* mutant: the seat is sold to nobody *)
OwnerForgotten(o) == [status |-> "sold", owner |-> None]

SoldSeat(o) == [status |-> "sold", owner |-> o.client_id]

SeatRecord == {FreeSeat} \cup [status : {"sold"}, owner : ClientIds]

(* A missing key is no seat. *)
ASSUME SeatAssumption == None \notin SeatRecord

----------------------------------------------------------------------------
(* initialize("unnumbered", n) and initialize("numbered", n) on an empty   *)
(* store, as the seeding tool runs them before the system starts.          *)

Init ==
  /\ counter = SeededTickets
  /\ seat = [s \in Seats |-> IF s \in Offered THEN FreeSeat ELSE None]
  /\ available_set = Offered
  /\ idempotency = [r \in RequestIds |-> None]
  /\ purchases = [c \in ClientIds |-> <<>>]
  /\ pc = [t \in Threads |-> "idle"]
  /\ op = [t \in Threads |-> None]
  /\ watching = [t \in Threads |-> {}]
  /\ dirty = [t \in Threads |-> FALSE]
  /\ available = [t \in Threads |-> 0]
  /\ attempt = [t \in Threads |-> 0]
  /\ answers = {}
  /\ faults = 0

----------------------------------------------------------------------------
(* How a call moves on, retries and ends.                                  *)

Goto(t, l) == pc' = [pc EXCEPT ![t] = l]

(* mutant: the connection keeps its transaction state *)
NoReset(t) == UNCHANGED <<watching, dirty>>

(* Leaving the pipeline's with block unwatches its keys. *)
Unwatch(t) ==
  /\ watching' = [watching EXCEPT ![t] = {}]
  /\ dirty' = [dirty EXCEPT ![t] = FALSE]

(* The call is over and its local variables are gone. *)
Leave(t) ==
  /\ Goto(t, "idle")
  /\ op' = [op EXCEPT ![t] = None]
  /\ available' = [available EXCEPT ![t] = 0]
  /\ attempt' = [attempt EXCEPT ![t] = 0]

Answer(t, result) ==
  answers' = answers \cup {[op |-> op[t], result |-> result]}

(* A return inside the with block, before MULTI. *)
EarlyReturn(t, result) ==
  /\ Answer(t, result)
  /\ Leave(t)
  /\ Unwatch(t)
  /\ UNCHANGED <<store, faults>>

(* mutant: EXEC is sent again without reading again *)
RetryExecOnly(t) ==
  /\ Goto(t, "exec")
  /\ attempt' = [attempt EXCEPT ![t] = @ + 1]
  /\ UNCHANGED <<op, available, answers>>

(* except WatchError: one more attempt. *)
Retry(t) ==
  /\ Goto(t, "watch")
  /\ attempt' = [attempt EXCEPT ![t] = @ + 1]
  /\ available' = [available EXCEPT ![t] = 0]
  /\ UNCHANGED <<op, answers>>

Fault ==
  /\ faults < MaxFaults
  /\ faults' = faults + 1

----------------------------------------------------------------------------
(* A call: validation, then WATCH and the two reads.                       *)

Call(t, o) ==
  /\ pc[t] = "idle"
  /\ ValidInput(o)
  /\ op' = [op EXCEPT ![t] = o]
  /\ Goto(t, "watch")
  /\ UNCHANGED <<store, watching, dirty, available, attempt, answers, faults>>

Watch(t) ==
  /\ pc[t] = "watch"
  /\ watching' = [watching EXCEPT ![t] = WatchedKeys(op[t])]
  /\ Goto(t, "idem")
  /\ UNCHANGED <<store, op, dirty, available, attempt, answers, faults>>

Stored(t) == idempotency[op[t].request_id]

ReplayStored(t) ==
  /\ pc[t] = "idem"
  /\ Stored(t) # None
  /\ EarlyReturn(t, Replayed(op[t], Stored(t)))

NotProcessed(t) ==
  /\ pc[t] = "idem"
  /\ Stored(t) = None
  /\ Goto(t, "stock")
  /\ UNCHANGED <<store, op, watching, dirty, available, attempt, answers,
                 faults>>

ReadCounter(t) ==
  /\ pc[t] = "stock"
  /\ Unnumbered(op[t])
  /\ counter > 0
  /\ available' = [available EXCEPT ![t] = counter]
  /\ Goto(t, "exec")
  /\ UNCHANGED <<store, op, watching, dirty, attempt, answers, faults>>

SoldOut(t) ==
  /\ pc[t] = "stock"
  /\ Unnumbered(op[t])
  /\ counter <= 0
  /\ EarlyReturn(t, rejected(op[t], "sold_out"))

ReadFreeSeat(t) ==
  /\ pc[t] = "stock"
  /\ Numbered(op[t])
  /\ seat[op[t].seat_id] # None
  /\ seat[op[t].seat_id].status # "sold"
  /\ Goto(t, "exec")
  /\ UNCHANGED <<store, op, watching, dirty, available, attempt, answers,
                 faults>>

InvalidSeat(t) ==
  /\ pc[t] = "stock"
  /\ Numbered(op[t])
  /\ seat[op[t].seat_id] = None
  /\ EarlyReturn(t, rejected(op[t], "invalid_seat"))

SeatAlreadySold(t) ==
  /\ pc[t] = "stock"
  /\ Numbered(op[t])
  /\ seat[op[t].seat_id] # None
  /\ seat[op[t].seat_id].status = "sold"
  /\ EarlyReturn(t, rejected(op[t], "seat_already_sold"))

----------------------------------------------------------------------------
(* MULTI ... EXEC.                                                         *)

NewResult(t) ==
  accepted(op[t], IF Unnumbered(op[t]) THEN available[t] - 1 ELSE None)

Record(t) ==
  LET o == op[t] IN
  /\ idempotency' = [idempotency EXCEPT ![o.request_id] = NewResult(t)]
  /\ purchases' = [purchases EXCEPT ![o.client_id] = Append(@, NewResult(t))]

TakeTicket(t) ==
  /\ Unnumbered(op[t])
  /\ counter' = counter - 1
  /\ UNCHANGED <<seat, available_set>>

TakeSeat(t) ==
  /\ Numbered(op[t])
  /\ seat' = [seat EXCEPT ![op[t].seat_id] = SoldSeat(op[t])]
  /\ available_set' = available_set \ {op[t].seat_id}
  /\ UNCHANGED counter

(* Redis marks every other connection that watches a written key; t's own  *)
(* EXEC ends its watch.                                                    *)
MarkWatchers(t) ==
  /\ dirty' = [u \in Threads |->
                 u # t /\ (dirty[u] \/ watching[u] \cap WrittenKeys(op[t]) # {})]
  /\ watching' = [watching EXCEPT ![t] = {}]

Transaction(t) ==
  /\ pc[t] = "exec"
  /\ ~dirty[t]
  /\ TakeTicket(t) \/ TakeSeat(t)
  /\ Record(t)
  /\ MarkWatchers(t)

ExecCommitted(t) ==
  /\ Transaction(t)
  /\ Answer(t, NewResult(t))
  /\ Leave(t)
  /\ UNCHANGED faults

(* mutant: the dirty flag outlives the aborted EXEC *)
AbortedForGood(t) ==
  /\ pc[t] = "exec"
  /\ dirty[t]
  /\ Goto(t, "watch")
  /\ UNCHANGED <<store, op, watching, dirty, available, attempt, answers,
                 faults>>

ExecAborted(t) ==
  /\ pc[t] = "exec"
  /\ dirty[t]
  /\ Unwatch(t)
  /\ Retry(t)
  /\ UNCHANGED <<store, faults>>

----------------------------------------------------------------------------
(* Faults.  redis-py turns an error of a connection that watches keys into *)
(* a WatchError, so the method tries again whether or not EXEC took effect; *)
(* an error of the WATCH itself escapes to the caller.                     *)

ConnectionLost(t) ==
  /\ pc[t] \in {"idem", "stock", "exec"}
  /\ Unwatch(t)
  /\ Retry(t)
  /\ Fault
  /\ UNCHANGED store

ExecReplyLost(t) ==
  /\ Transaction(t)
  /\ Retry(t)
  /\ Fault

WatchFails(t) ==
  /\ pc[t] = "watch"
  /\ Answer(t, NoResult(op[t]))
  /\ Leave(t)
  /\ Fault
  /\ UNCHANGED <<store, watching, dirty>>

(* The process is killed: nobody gets an answer. *)
Crash(t) ==
  /\ pc[t] # "idle"
  /\ Leave(t)
  /\ Unwatch(t)
  /\ Fault
  /\ UNCHANGED <<store, answers>>

----------------------------------------------------------------------------

(* The steps by which a call makes progress. *)
Step(t) ==
  \/ Watch(t)
  \/ ReplayStored(t)
  \/ NotProcessed(t)
  \/ ReadCounter(t)
  \/ SoldOut(t)
  \/ ReadFreeSeat(t)
  \/ InvalidSeat(t)
  \/ SeatAlreadySold(t)
  \/ ExecCommitted(t)
  \/ ExecAborted(t)

Environment(t) ==
  \/ \E o \in Ops : Call(t, o)
  \/ ConnectionLost(t)
  \/ ExecReplyLost(t)
  \/ WatchFails(t)
  \/ Crash(t)

Next == \E t \in Threads : Step(t) \/ Environment(t)

Spec == Init /\ [][Next]_vars

(* A thread inside a call is scheduled; nobody has to call, nothing has to *)
(* fail.                                                                   *)
FairSpec == Spec /\ \A t \in Threads : WF_vars(Step(t))

----------------------------------------------------------------------------
(* The queries: single Redis commands that change nothing.                 *)

get_request_result(r) == idempotency[r]
request_exists(r)     == idempotency[r] # None

get_available_count(ticket_type) ==
  IF ticket_type = "unnumbered" THEN counter ELSE Cardinality(available_set)

(* A seat that was never seeded is reported available. *)
get_seat_status(s) == IF seat[s] = None THEN FreeSeat ELSE seat[s]

get_client_purchases(c) == purchases[c]

Granted == {r \in RequestIds : request_exists(r)}

GrantedOf(ticket_type) ==
  {r \in Granted : get_request_result(r).ticket_type = ticket_type}

----------------------------------------------------------------------------
(* Properties.                                                             *)

(* Every variable stays in its type, and a thread has an operation exactly   *)
(* while it is inside a call.                                               *)
TypeOK ==
  /\ counter \in Int
  /\ seat \in [Seats -> SeatRecord \cup {None}]
  /\ available_set \in SUBSET Seats
  /\ idempotency \in [RequestIds -> PurchaseResult \cup {None}]
  /\ purchases \in [ClientIds -> Seq(PurchaseResult)]
  /\ pc \in [Threads -> {"idle", "watch", "idem", "stock", "exec"}]
  /\ op \in [Threads -> {o \in Ops : ValidInput(o)} \cup {None}]
  /\ \A t \in Threads : pc[t] = "idle" <=> op[t] = None
  /\ watching \in [Threads -> SUBSET Keys]
  /\ dirty \in [Threads -> BOOLEAN]
  /\ available \in [Threads -> Int]
  /\ attempt \in [Threads -> Nat]
  /\ answers \subseteq [op : Ops, result : PurchaseResult]
  /\ faults \in Nat

(* The optimistic lock: as long as its connection is not marked dirty, what *)
(* a call has read is still what the store holds, however many other calls  *)
(* ran since; so an EXEC that is let through acts on current values.        *)
ReadsCurrent ==
  \A t \in Threads :
    /\ pc[t] \in {"idle", "watch"} => watching[t] = {} /\ ~dirty[t]
    /\ pc[t] \in {"idem", "stock", "exec"} => watching[t] = WatchedKeys(op[t])
    /\ pc[t] \in {"stock", "exec"} /\ ~dirty[t] => Stored(t) = None
    /\ pc[t] = "exec" /\ ~dirty[t] =>
         \/ Unnumbered(op[t]) /\ counter = available[t] /\ counter > 0
         \/ Numbered(op[t]) /\ seat[op[t].seat_id] = FreeSeat

(* Tickets are neither oversold nor lost: whatever retries, lost replies    *)
(* and crashes happened, the counter and the unnumbered sales on record add *)
(* up to what was put on sale (buy_unnumbered).                             *)
StockConserved ==
  /\ get_available_count("unnumbered") >= 0
  /\ get_available_count("unnumbered") + Cardinality(GrantedOf("unnumbered"))
       = SeededTickets

(* The "remaining" reported to the buyers, computed from a value read       *)
(* before EXEC, counts the tickets down one by one: no two buyers are told  *)
(* the same number and none is skipped (repositories.py line 74).           *)
RemainingExact ==
  {idempotency[r].remaining : r \in GrantedOf("unnumbered")}
    = counter..(SeededTickets - 1)

(* A seat is sold to the one client whose request has the sale on record,   *)
(* no seat is sold on two requests, and the set of free seats that          *)
(* get_available_count counts is the seats' own status (buy_numbered).      *)
SeatLedger ==
  /\ available_set = {s \in Seats : seat[s] = FreeSeat}
  /\ \A s \in Seats : seat[s] \notin {None, FreeSeat} =>
       \E r \in GrantedOf("numbered") :
         /\ idempotency[r].seat_id = s
         /\ seat[s].owner = idempotency[r].client_id
  /\ \A q, r \in GrantedOf("numbered") :
       idempotency[q].seat_id = idempotency[r].seat_id => q = r
  /\ \A r \in GrantedOf("numbered") :
       seat[idempotency[r].seat_id] \notin {None, FreeSeat}

(* A client's purchase history lists each of the client's sales exactly     *)
(* once and nothing else, retries of a committed EXEC included.             *)
PurchaseHistory ==
  \A c \in ClientIds :
    LET history == get_client_purchases(c) IN
    /\ \A i \in DOMAIN history :
         /\ history[i].client_id = c
         /\ idempotency[history[i].request_id] = history[i]
    /\ \A i, j \in DOMAIN history :
         history[i].request_id = history[j].request_id => i = j
    /\ \A r \in Granted : idempotency[r].client_id = c =>
         \E i \in DOMAIN history : history[i] = idempotency[r]

(* A retry is always somebody's progress or somebody's fault: a call has no *)
(* more WatchErrors than there were sales and faults, so contention cannot  *)
(* keep the "while True" loop going (repositories.py lines 44 and 108).     *)
RetriesBounded ==
  \A t \in Threads : attempt[t] <= Cardinality(Granted) + faults

(* A sale on record is never replaced: concurrent executions of the same    *)
(* request_id cannot overwrite each other's result (AtomicSale implies it).  *)
GrantsAreFinal ==
  [][\A r \in Granted : idempotency'[r] = idempotency[r]]_vars

(* An operation that was refused while its request had no sale is never     *)
(* carried out later, by another thread that had read the stock before.     *)
RefusedStaysRefused ==
  [][\A a \in answers :
       (a.result.status = "REJECTED" /\ ~request_exists(a.op.request_id)) =>
         idempotency'[a.op.request_id] = None
         \/ idempotency'[a.op.request_id].ticket_type # a.op.ticket_type
         \/ idempotency'[a.op.request_id].seat_id # a.op.seat_id]_vars

(* Every call returns, under contention and after faults: the optimistic    *)
(* loop has no livelock.                                                    *)
CallsReturn ==
  \A t \in Threads : pc[t] # "idle" ~> pc[t] = "idle"

(* The WATCH/GET/EXEC round trips amount to sales and answers that happen   *)
(* at one instant.                                                          *)
Sale ==
  INSTANCE TicketSale WITH
    stock  <- counter,
    owner  <- [s \in Offered |-> seat[s].owner],
    ledger <- idempotency

AtomicSale == Sale!Spec

(* What README.md line 8 says ("mantiene idempotencia por request_id"): the *)
(* same purchase is not answered ACCEPTED to one caller and REJECTED to     *)
(* another.                                                                 *)
OneVerdict ==
  \A a, b \in answers :
    (a.op = b.op /\ a.result.status = "ACCEPTED") =>
      b.result.status # "REJECTED"
=============================================================================
