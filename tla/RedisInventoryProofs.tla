------------------------ MODULE RedisInventoryProofs -------------------------
(***************************************************************************)
(* Theorems about RedisInventory, for any number of threads, requests,     *)
(* clients, tickets and faults.                                            *)
(***************************************************************************)
EXTENDS RedisInventory, TLAPS, FiniteSetTheorems

----------------------------------------------------------------------------
(* The values the operations build.                                        *)

(* A purchase that passes validation names a known client and request, and *)
(* a numbered one names a seat of the venue.                               *)
LEMMA ValidOps ==
  ASSUME NEW o \in {x \in Ops : ValidInput(x)}
  PROVE  /\ o \in Ops
         /\ o.ticket_type \in TicketType
         /\ o.client_id \in ClientIds
         /\ o.request_id \in RequestIds
         /\ o.seat_id \in SeatIds \cup {None}
         /\ Numbered(o) => o.seat_id \in SeatIds
         /\ Unnumbered(o) => o.seat_id = None
         /\ o # None
BY DomainAssumption
   DEF ValidInput, validate_common_input, validate_seat_id, Operation,
       TicketType, Unnumbered, Numbered

(* The results built for such a purchase are well typed. *)
LEMMA ResultTypes ==
  ASSUME NEW o \in {x \in Ops : ValidInput(x)}
  PROVE  /\ \A left \in Int \cup {None} : accepted(o, left) \in PurchaseResult
         /\ \A why \in {"sold_out", "invalid_seat", "seat_already_sold"} :
              rejected(o, why) \in PurchaseResult
         /\ NoResult(o) \in PurchaseResult
         /\ \A stored \in PurchaseResult :
              Replayed(o, stored) \in PurchaseResult
<1>1. \A left \in Int \cup {None} : accepted(o, left) \in PurchaseResult
  BY ValidOps DEF accepted, PurchaseResult, PurchaseStatus
<1>2. \A why \in {"sold_out", "invalid_seat", "seat_already_sold"} :
        rejected(o, why) \in PurchaseResult
  BY ValidOps DEF rejected, PurchaseResult, PurchaseStatus
<1>3. NoResult(o) \in PurchaseResult
  BY ValidOps DEF NoResult, rejected, PurchaseResult, PurchaseStatus
<1>4. \A stored \in PurchaseResult : Replayed(o, stored) \in PurchaseResult
  BY ZenonT(60), ValidOps DEF Replayed, PurchaseResult, PurchaseStatus
<1> QED
  BY <1>1, <1>2, <1>3, <1>4

(* The keys a call watches are keys of the store. *)
LEMMA WatchedKeysType ==
  ASSUME NEW o \in {x \in Ops : ValidInput(x)}
  PROVE  WatchedKeys(o) \subseteq Keys
<1>1. StockKey(o) \in Keys
  BY ValidOps DEF StockKey, Keys, Seats, Unnumbered, Numbered, TicketType
<1>2. IdempotencyKey(o.request_id) \in Keys
  BY ValidOps DEF Keys
<1> QED
  BY <1>1, <1>2 DEF WatchedKeys

----------------------------------------------------------------------------
(* Type correctness.                                                       *)

(* The initial values have their types. *)
LEMMA InitTypeOK == Init => TypeOK
<1> SUFFICES ASSUME Init PROVE TypeOK
  OBVIOUS
<1>1. seat \in [Seats -> SeatRecord \cup {None}]
  BY DEF Init, FreeSeat, SeatRecord
<1>2. purchases \in [ClientIds -> Seq(PurchaseResult)]
  <2>1. <<>> \in Seq(PurchaseResult)
    OBVIOUS
  <2> QED
    BY <2>1 DEF Init
<1> QED
  BY <1>1, <1>2, InventoryAssumption DEF Init, TypeOK, Seats

(* The variables of a call that ends or tries again. *)
LEMMA EarlyReturnTypeOK ==
  ASSUME TypeOK, NEW t \in Threads, pc[t] # "idle",
         NEW result \in PurchaseResult, EarlyReturn(t, result)
  PROVE  TypeOK'
<1>1. op[t] \in Ops
  BY DEF TypeOK
<1>2. answers' \subseteq [op : Ops, result : PurchaseResult]
  BY <1>1 DEF EarlyReturn, Answer, TypeOK
<1> QED
  BY <1>2 DEF TypeOK, EarlyReturn, Leave, Goto, Unwatch, store

(* So have the variables of a call after a WatchError. *)
LEMMA RetryTypes ==
  ASSUME TypeOK, NEW t \in Threads, pc[t] # "idle", Retry(t)
  PROVE  /\ pc' \in [Threads -> {"idle", "watch", "idem", "stock", "exec"}]
         /\ op' \in [Threads -> {o \in Ops : ValidInput(o)} \cup {None}]
         /\ \A u \in Threads : pc'[u] = "idle" <=> op'[u] = None
         /\ available' \in [Threads -> Int]
         /\ attempt' \in [Threads -> Nat]
         /\ answers' \subseteq [op : Ops, result : PurchaseResult]
BY DEF TypeOK, Retry, Goto

(* A committed transaction writes values of the store's types.              *)
LEMMA TransactionTypes ==
  ASSUME TypeOK, NEW t \in Threads, Transaction(t)
  PROVE  /\ op[t] \in {o \in Ops : ValidInput(o)}
         /\ NewResult(t) \in PurchaseResult
         /\ counter' \in Int
         /\ seat' \in [Seats -> SeatRecord \cup {None}]
         /\ available_set' \in SUBSET Seats
         /\ idempotency' \in [RequestIds -> PurchaseResult \cup {None}]
         /\ purchases' \in [ClientIds -> Seq(PurchaseResult)]
         /\ watching' \in [Threads -> SUBSET Keys]
         /\ dirty' \in [Threads -> BOOLEAN]
<1> DEFINE o == op[t]
<1>1. o \in {x \in Ops : ValidInput(x)}
  BY DEF TypeOK, Transaction
<1>2. /\ o.client_id \in ClientIds
      /\ o.request_id \in RequestIds
      /\ Numbered(o) => o.seat_id \in SeatIds
  BY <1>1, ValidOps
<1>3. NewResult(t) \in PurchaseResult
  <2>1. (IF Unnumbered(o) THEN available[t] - 1 ELSE None) \in Int \cup {None}
    BY DEF TypeOK
  <2> QED
    BY <1>1, <2>1, ResultTypes DEF NewResult
<1>4. counter' \in Int /\ seat' \in [Seats -> SeatRecord \cup {None}]
      /\ available_set' \in SUBSET Seats
  <2>1. CASE TakeTicket(t)
    BY <2>1 DEF TakeTicket, TypeOK
  <2>2. CASE TakeSeat(t)
    <3>1. SoldSeat(o) \in SeatRecord
      BY <1>2 DEF SoldSeat, SeatRecord
    <3> QED
      BY <2>2, <3>1, <1>2 DEF TakeSeat, TypeOK, Seats
  <2> QED
    BY <2>1, <2>2 DEF Transaction
<1>5. idempotency' \in [RequestIds -> PurchaseResult \cup {None}]
  BY <1>3 DEF Transaction, Record, TypeOK
<1>6. purchases' \in [ClientIds -> Seq(PurchaseResult)]
  <2>1. Append(purchases[o.client_id], NewResult(t)) \in Seq(PurchaseResult)
    BY <1>2, <1>3 DEF TypeOK
  <2> QED
    BY <2>1 DEF Transaction, Record, TypeOK
<1>7. watching' \in [Threads -> SUBSET Keys] /\ dirty' \in [Threads -> BOOLEAN]
  BY DEF Transaction, MarkWatchers, TypeOK
<1> QED
  BY <1>1, <1>3, <1>4, <1>5, <1>6, <1>7

(* Every step keeps the types: one case per action.                         *)
LEMMA NextTypeOK == TypeOK /\ [Next]_vars => TypeOK'
<1> SUFFICES ASSUME TypeOK, [Next]_vars PROVE TypeOK'
  OBVIOUS
<1>1. CASE UNCHANGED vars
  BY <1>1 DEF vars, store, calls, TypeOK
<1>2. CASE Next
  <2> PICK t \in Threads : Step(t) \/ Environment(t)
    BY <1>2 DEF Next
  <2> DEFINE o == op[t]
  <2>0. pc[t] # "idle" => o \in {x \in Ops : ValidInput(x)}
    BY DEF TypeOK
  <2>1. CASE \E x \in Ops : Call(t, x)
    BY <2>1, ValidOps DEF Call, Goto, TypeOK, store
  <2>2. CASE Watch(t)
    BY <2>2, <2>0, WatchedKeysType DEF Watch, Goto, TypeOK, store
  <2>3. CASE ReplayStored(t)
    <3>1. Stored(t) \in PurchaseResult
      BY <2>3, <2>0, ValidOps DEF ReplayStored, Stored, TypeOK
    <3> QED
      BY <2>3, <2>0, <3>1, ResultTypes, EarlyReturnTypeOK DEF ReplayStored
  <2>4. CASE NotProcessed(t)
    BY <2>4 DEF NotProcessed, Goto, TypeOK, store
  <2>5. CASE ReadCounter(t)
    BY <2>5 DEF ReadCounter, Goto, TypeOK, store
  <2>6. CASE SoldOut(t)
    BY <2>6, <2>0, ResultTypes, EarlyReturnTypeOK DEF SoldOut
  <2>7. CASE ReadFreeSeat(t)
    BY <2>7 DEF ReadFreeSeat, Goto, TypeOK, store
  <2>8. CASE InvalidSeat(t)
    BY <2>8, <2>0, ResultTypes, EarlyReturnTypeOK DEF InvalidSeat
  <2>9. CASE SeatAlreadySold(t)
    BY <2>9, <2>0, ResultTypes, EarlyReturnTypeOK DEF SeatAlreadySold
  <2>10. CASE ExecCommitted(t)
    <3>1. Transaction(t)
      BY <2>10 DEF ExecCommitted
    <3>2. answers' \subseteq [op : Ops, result : PurchaseResult]
      BY <2>10, <3>1, TransactionTypes DEF ExecCommitted, Answer, TypeOK
    <3> QED
      BY <2>10, <3>1, <3>2, TransactionTypes
         DEF ExecCommitted, Leave, Goto, TypeOK
  <2>11. CASE ExecAborted(t)
    BY <2>11, RetryTypes DEF ExecAborted, Unwatch, TypeOK, store
  <2>12. CASE ConnectionLost(t)
    BY <2>12, RetryTypes DEF ConnectionLost, Unwatch, Fault, TypeOK, store
  <2>13. CASE ExecReplyLost(t)
    <3>1. Transaction(t) /\ Retry(t) /\ pc[t] # "idle"
      BY <2>13 DEF ExecReplyLost, Transaction
    <3> QED
      BY <2>13, <3>1, TransactionTypes, RetryTypes
         DEF ExecReplyLost, Fault, TypeOK
  <2>14. CASE WatchFails(t)
    <3>1. answers' \subseteq [op : Ops, result : PurchaseResult]
      BY <2>14, <2>0, ResultTypes DEF WatchFails, Answer, TypeOK
    <3> QED
      BY <2>14, <3>1 DEF WatchFails, Leave, Goto, Fault, TypeOK, store
  <2>15. CASE Crash(t)
    BY <2>15 DEF Crash, Leave, Goto, Unwatch, Fault, TypeOK, store
  <2> QED
    BY <2>1, <2>2, <2>3, <2>4, <2>5, <2>6, <2>7, <2>8, <2>9, <2>10, <2>11,
       <2>12, <2>13, <2>14, <2>15 DEF Step, Environment
<1> QED
  BY <1>1, <1>2

(* The variables keep their types in every reachable state. *)
THEOREM TypeCorrect == Spec => []TypeOK
BY InitTypeOK, NextTypeOK, PTL DEF Spec

----------------------------------------------------------------------------
(* The optimistic lock.                                                    *)

(* Two purchases that watch no key in common are for different requests and *)
(* take different tickets or seats.                                         *)
LEMMA DisjointKeys ==
  ASSUME NEW o \in {x \in Ops : ValidInput(x)},
         NEW p \in {x \in Ops : ValidInput(x)},
         WatchedKeys(o) \cap WrittenKeys(p) = {}
  PROVE  /\ o.request_id # p.request_id
         /\ ~(Unnumbered(o) /\ Unnumbered(p))
         /\ Numbered(o) /\ Numbered(p) => o.seat_id # p.seat_id
<1>1. IdempotencyKey(o.request_id) # IdempotencyKey(p.request_id)
  BY DEF WatchedKeys, WrittenKeys
<1>2. StockKey(o) # StockKey(p)
  BY DEF WatchedKeys, WrittenKeys
<1> QED
  BY <1>1, <1>2 DEF StockKey, Numbered, Unnumbered

(* A call that EXEC lets through has no sale yet, and the ticket or seat it *)
(* read is still there.                                                     *)
LEMMA TransactionReads ==
  ASSUME TypeOK, ReadsCurrent, NEW t \in Threads, Transaction(t)
  PROVE  /\ Stored(t) = None
         /\ Unnumbered(op[t]) => counter = available[t] /\ counter > 0
         /\ Numbered(op[t]) => seat[op[t].seat_id] = FreeSeat
BY DEF ReadsCurrent, Transaction, Unnumbered, Numbered

(* Nobody has read anything yet. *)
LEMMA InitReadsCurrent == Init => ReadsCurrent
BY DEF Init, ReadsCurrent

(* A step of t that leaves the store and the other calls alone. *)
LEMMA OtherCallsCurrent ==
  ASSUME TypeOK, ReadsCurrent, NEW t \in Threads, UNCHANGED store,
         pc' = [pc EXCEPT ![t] = pc'[t]],
         op' = [op EXCEPT ![t] = op'[t]],
         watching' = [watching EXCEPT ![t] = watching'[t]],
         dirty' = [dirty EXCEPT ![t] = dirty'[t]],
         available' = [available EXCEPT ![t] = available'[t]],
         pc'[t] \in {"idle", "watch"} => watching'[t] = {} /\ ~dirty'[t],
         pc'[t] \in {"idem", "stock", "exec"} =>
           watching'[t] = WatchedKeys(op'[t]),
         pc'[t] \in {"stock", "exec"} /\ ~dirty'[t] =>
           idempotency[op'[t].request_id] = None,
         pc'[t] = "exec" /\ ~dirty'[t] =>
           \/ Unnumbered(op'[t]) /\ counter = available'[t] /\ counter > 0
           \/ Numbered(op'[t]) /\ seat[op'[t].seat_id] = FreeSeat
  PROVE  ReadsCurrent'
<1>1. /\ counter' = counter /\ seat' = seat /\ idempotency' = idempotency
      /\ \A u \in Threads : u # t =>
           /\ pc'[u] = pc[u] /\ op'[u] = op[u] /\ watching'[u] = watching[u]
           /\ dirty'[u] = dirty[u] /\ available'[u] = available[u]
  BY DEF TypeOK, store
<1> SUFFICES ASSUME NEW u \in Threads
             PROVE  /\ pc'[u] \in {"idle", "watch"} =>
                         watching'[u] = {} /\ ~dirty'[u]
                    /\ pc'[u] \in {"idem", "stock", "exec"} =>
                         watching'[u] = WatchedKeys(op'[u])
                    /\ pc'[u] \in {"stock", "exec"} /\ ~dirty'[u] =>
                         idempotency[op'[u].request_id] = None
                    /\ pc'[u] = "exec" /\ ~dirty'[u] =>
                         \/ /\ Unnumbered(op'[u])
                            /\ counter = available'[u] /\ counter > 0
                         \/ /\ Numbered(op'[u])
                            /\ seat[op'[u].seat_id] = FreeSeat
  BY <1>1 DEF ReadsCurrent, Stored
<1>2. CASE u = t
  BY <1>2
<1>3. CASE u # t
  BY <1>1, <1>3 DEF ReadsCurrent, Stored
<1> QED
  BY <1>2, <1>3

(* After t's EXEC, a call that is not marked dirty still has current reads. *)
LEMMA TransactionKeepsReadsCurrent ==
  ASSUME TypeOK, ReadsCurrent, NEW t \in Threads, Transaction(t),
         pc' = [pc EXCEPT ![t] = pc'[t]], pc'[t] \in {"idle", "watch"},
         op' = [op EXCEPT ![t] = op'[t]],
         available' = [available EXCEPT ![t] = available'[t]]
  PROVE  ReadsCurrent'
<1> SUFFICES ASSUME NEW u \in Threads
             PROVE  /\ pc'[u] \in {"idle", "watch"} =>
                         watching'[u] = {} /\ ~dirty'[u]
                    /\ pc'[u] \in {"idem", "stock", "exec"} =>
                         watching'[u] = WatchedKeys(op'[u])
                    /\ pc'[u] \in {"stock", "exec"} /\ ~dirty'[u] =>
                         Stored(u)' = None
                    /\ pc'[u] = "exec" /\ ~dirty'[u] =>
                         \/ /\ Unnumbered(op'[u])
                            /\ counter' = available'[u] /\ counter' > 0
                         \/ /\ Numbered(op'[u])
                            /\ seat'[op'[u].seat_id] = FreeSeat
  BY DEF ReadsCurrent
<1>1. CASE u = t
  BY <1>1 DEF TypeOK, Transaction, MarkWatchers
<1>2. CASE u # t
  <2>1. /\ pc'[u] = pc[u] /\ op'[u] = op[u] /\ watching'[u] = watching[u]
        /\ available'[u] = available[u]
        /\ dirty'[u] <=> dirty[u] \/ watching[u] \cap WrittenKeys(op[t]) # {}
    BY <1>2 DEF TypeOK, Transaction, MarkWatchers
  <2>2. pc[u] \in {"idle", "watch"} => watching'[u] = {} /\ ~dirty'[u]
    BY <2>1 DEF ReadsCurrent
  <2>3. pc[u] \in {"idem", "stock", "exec"} =>
          watching'[u] = WatchedKeys(op'[u])
    BY <2>1 DEF ReadsCurrent
  <2>4. ASSUME pc[u] \in {"stock", "exec"}, ~dirty'[u]
        PROVE  /\ op[u] \in {x \in Ops : ValidInput(x)}
               /\ op[t] \in {x \in Ops : ValidInput(x)}
               /\ WatchedKeys(op[u]) \cap WrittenKeys(op[t]) = {}
               /\ ~dirty[u]
    <3>1. WatchedKeys(op[u]) \cap WrittenKeys(op[t]) = {} /\ ~dirty[u]
      BY <2>1, <2>4 DEF ReadsCurrent
    <3> QED
      BY <2>4, <3>1, TransactionTypes DEF TypeOK
  <2>5. ASSUME pc[u] \in {"stock", "exec"}, ~dirty'[u]
        PROVE  Stored(u)' = None
    <3>1. op[u].request_id # op[t].request_id
      BY <2>4, <2>5, DisjointKeys
    <3>2. Stored(u) = None
      BY <2>4, <2>5 DEF ReadsCurrent
    <3>3. op[u].request_id \in RequestIds
      BY <2>4, <2>5, ValidOps
    <3> QED
      BY <2>1, <3>1, <3>2, <3>3 DEF Transaction, Record, Stored, TypeOK
  <2>6. ASSUME pc[u] = "exec", ~dirty'[u]
        PROVE  \/ /\ Unnumbered(op'[u])
                  /\ counter' = available'[u] /\ counter' > 0
               \/ /\ Numbered(op'[u])
                  /\ seat'[op'[u].seat_id] = FreeSeat
    <3>1. /\ ~(Unnumbered(op[u]) /\ Unnumbered(op[t]))
          /\ Numbered(op[u]) /\ Numbered(op[t]) =>
               op[u].seat_id # op[t].seat_id
      BY <2>4, <2>6, DisjointKeys
    <3>2. \/ Unnumbered(op[u]) /\ counter = available[u] /\ counter > 0
          \/ Numbered(op[u]) /\ seat[op[u].seat_id] = FreeSeat
      BY <2>4, <2>6 DEF ReadsCurrent
    <3>3. CASE TakeTicket(t)
      BY <2>1, <3>1, <3>2, <3>3 DEF TakeTicket
    <3>4. CASE TakeSeat(t)
      <4>1. Numbered(op[u]) => op[u].seat_id \in Seats
        BY <2>4, <2>6, ValidOps DEF Seats
      <4> QED
        BY <2>1, <3>1, <3>2, <3>4, <4>1 DEF TakeSeat, TypeOK
    <3> QED
      BY <3>3, <3>4 DEF Transaction
  <2> QED
    BY <2>1, <2>2, <2>3, <2>5, <2>6
<1> QED
  BY <1>1, <1>2

(* Every step keeps the reads of unmarked calls current.                    *)
LEMMA NextReadsCurrent ==
  TypeOK /\ ReadsCurrent /\ [Next]_vars => ReadsCurrent'
<1> SUFFICES ASSUME TypeOK, ReadsCurrent, [Next]_vars PROVE ReadsCurrent'
  OBVIOUS
<1>1. CASE UNCHANGED vars
  BY <1>1 DEF vars, store, calls, ReadsCurrent, Stored
<1>2. CASE Next
  <2> PICK t \in Threads : Step(t) \/ Environment(t)
    BY <1>2 DEF Next
  <2>1. CASE \E x \in Ops : Call(t, x)
    <3>1. PICK x \in Ops : Call(t, x)
      BY <2>1
    <3>2. watching[t] = {} /\ ~dirty[t]
      BY <3>1 DEF Call, ReadsCurrent
    <3> QED
      BY <3>1, <3>2, OtherCallsCurrent DEF Call, Goto, TypeOK
  <2>2. CASE Watch(t)
    <3>1. ~dirty[t]
      BY <2>2 DEF Watch, ReadsCurrent
    <3> QED
      BY <2>2, <3>1, OtherCallsCurrent DEF Watch, Goto, TypeOK
  <2>3. ASSUME NEW result, EarlyReturn(t, result)
        PROVE  ReadsCurrent'
    BY <2>3, OtherCallsCurrent DEF EarlyReturn, Leave, Goto, Unwatch, TypeOK
  <2>4. CASE NotProcessed(t)
    <3>1. watching[t] = WatchedKeys(op[t])
      BY <2>4 DEF NotProcessed, ReadsCurrent
    <3>2. idempotency[op[t].request_id] = None
      BY <2>4 DEF NotProcessed, Stored
    <3>3. /\ pc' = [pc EXCEPT ![t] = pc'[t]] /\ pc'[t] = "stock"
          /\ UNCHANGED <<store, op, watching, dirty, available>>
      BY <2>4 DEF NotProcessed, Goto, TypeOK
    <3> QED
      BY <3>1, <3>2, <3>3, OtherCallsCurrent DEF TypeOK
  <2>5. CASE ReadCounter(t)
    <3>1. /\ watching[t] = WatchedKeys(op[t])
          /\ ~dirty[t] => idempotency[op[t].request_id] = None
      BY <2>5 DEF ReadCounter, ReadsCurrent, Stored
    <3> QED
      BY <2>5, <3>1, OtherCallsCurrent DEF ReadCounter, Goto, TypeOK
  <2>6. CASE ReadFreeSeat(t)
    <3>1. /\ watching[t] = WatchedKeys(op[t])
          /\ ~dirty[t] => idempotency[op[t].request_id] = None
      BY <2>6 DEF ReadFreeSeat, ReadsCurrent, Stored
    <3>2. seat[op[t].seat_id] = FreeSeat
      <4>1. op[t] \in {x \in Ops : ValidInput(x)} /\ Numbered(op[t])
        BY <2>6 DEF ReadFreeSeat, TypeOK
      <4>2. op[t].seat_id \in Seats
        BY <4>1, ValidOps DEF Seats
      <4> QED
        BY <2>6, <4>2 DEF ReadFreeSeat, TypeOK, SeatRecord
    <3> QED
      BY <2>6, <3>1, <3>2, OtherCallsCurrent DEF ReadFreeSeat, Goto, TypeOK
  <2>7. CASE ExecCommitted(t)
    BY <2>7, TransactionKeepsReadsCurrent DEF ExecCommitted, Leave, Goto, TypeOK
  <2>8. CASE ExecReplyLost(t)
    <3>1. /\ pc' = [pc EXCEPT ![t] = pc'[t]] /\ pc'[t] = "watch"
          /\ op' = [op EXCEPT ![t] = op'[t]]
          /\ available' = [available EXCEPT ![t] = available'[t]]
      BY <2>8 DEF ExecReplyLost, Retry, Goto, TypeOK
    <3> QED
      BY <2>8, <3>1, TransactionKeepsReadsCurrent DEF ExecReplyLost
  <2>9. CASE ExecAborted(t) \/ ConnectionLost(t)
    <3>1. /\ pc' = [pc EXCEPT ![t] = pc'[t]] /\ pc'[t] = "watch"
          /\ op' = [op EXCEPT ![t] = op'[t]]
          /\ available' = [available EXCEPT ![t] = available'[t]]
          /\ watching' = [watching EXCEPT ![t] = watching'[t]]
          /\ dirty' = [dirty EXCEPT ![t] = dirty'[t]]
          /\ watching'[t] = {} /\ ~dirty'[t]
          /\ UNCHANGED store
      BY <2>9 DEF ExecAborted, ConnectionLost, Unwatch, Retry, Goto, TypeOK
    <3> QED
      BY <3>1, OtherCallsCurrent
  <2>10. CASE WatchFails(t)
    <3>1. watching[t] = {} /\ ~dirty[t]
      BY <2>10 DEF WatchFails, ReadsCurrent
    <3> QED
      BY <2>10, <3>1, OtherCallsCurrent DEF WatchFails, Leave, Goto, TypeOK
  <2>11. CASE Crash(t)
    BY <2>11, OtherCallsCurrent DEF Crash, Leave, Goto, Unwatch, TypeOK
  <2> QED
    BY <2>1, <2>2, <2>3, <2>4, <2>5, <2>6, <2>7, <2>8, <2>9, <2>10, <2>11
       DEF Step, Environment, ReplayStored, SoldOut, InvalidSeat,
           SeatAlreadySold
<1> QED
  BY <1>1, <1>2

(* In every reachable state, what an unmarked call has read is current. *)
THEOREM OptimisticLock == Spec => []ReadsCurrent
<1>1. Init => TypeOK /\ ReadsCurrent
  BY InitTypeOK, InitReadsCurrent
<1>2. TypeOK /\ ReadsCurrent /\ [Next]_vars => (TypeOK /\ ReadsCurrent)'
  BY NextTypeOK, NextReadsCurrent
<1> QED
  BY <1>1, <1>2, PTL DEF Spec

----------------------------------------------------------------------------
(* Sales.                                                                  *)

(* The store changes in committed transactions only. *)
LEMMA StoreSteps ==
  [Next]_vars => UNCHANGED store \/ \E t \in Threads : Transaction(t)
BY DEF Next, Step, Environment, Call, Watch, ReplayStored, NotProcessed,
       ReadCounter, SoldOut, ReadFreeSeat, InvalidSeat, SeatAlreadySold,
       EarlyReturn, ExecCommitted, ExecAborted, ConnectionLost,
       ExecReplyLost, WatchFails, Crash, vars

(* A transaction puts the one sale of one request on record. *)
LEMMA OneMoreGrant ==
  ASSUME TypeOK, ReadsCurrent, NEW t \in Threads, Transaction(t)
  PROVE  LET r == op[t].request_id IN
         /\ r \in RequestIds \ Granted
         /\ idempotency' = [idempotency EXCEPT ![r] = NewResult(t)]
         /\ NewResult(t) # None
         /\ Granted' = Granted \cup {r}
         /\ \A q \in Granted : idempotency'[q] = idempotency[q]
<1> DEFINE r == op[t].request_id
<1>1. r \in RequestIds
  BY TransactionTypes, ValidOps
<1>2. r \notin Granted
  BY TransactionReads DEF Granted, request_exists, Stored
<1>3. idempotency' = [idempotency EXCEPT ![r] = NewResult(t)]
  BY DEF Transaction, Record
<1>4. NewResult(t) # None
  BY TransactionTypes, DomainAssumption
<1>5. \A q \in RequestIds :
        idempotency'[q] = IF q = r THEN NewResult(t) ELSE idempotency[q]
  BY <1>3 DEF TypeOK
<1>6. Granted' = Granted \cup {r}
  BY <1>1, <1>4, <1>5 DEF Granted, request_exists
<1>7. \A q \in Granted : idempotency'[q] = idempotency[q]
  BY <1>2, <1>5 DEF Granted
<1> QED
  BY <1>1, <1>2, <1>3, <1>4, <1>6, <1>7

(* That sale is one more of its own ticket type and none of the other.      *)
LEMMA OneMoreGrantOf ==
  ASSUME TypeOK, ReadsCurrent, NEW t \in Threads, Transaction(t)
  PROVE  /\ TakeTicket(t) =>
              /\ GrantedOf("unnumbered")' =
                   GrantedOf("unnumbered") \cup {op[t].request_id}
              /\ GrantedOf("numbered")' = GrantedOf("numbered")
         /\ TakeSeat(t) =>
              /\ GrantedOf("numbered")' =
                   GrantedOf("numbered") \cup {op[t].request_id}
              /\ GrantedOf("unnumbered")' = GrantedOf("unnumbered")
<1> DEFINE r == op[t].request_id
<1>1. /\ r \in RequestIds \ Granted
      /\ Granted' = Granted \cup {r}
      /\ \A q \in Granted : idempotency'[q] = idempotency[q]
      /\ idempotency'[r] = NewResult(t)
  BY OneMoreGrant DEF TypeOK
<1>2. NewResult(t).ticket_type = op[t].ticket_type
  BY DEF NewResult, accepted
<1>3. \A type : GrantedOf(type)' =
        {q \in Granted \cup {r} : idempotency'[q].ticket_type = type}
  BY <1>1 DEF GrantedOf, get_request_result
<1>4. \A type : GrantedOf(type) = {q \in Granted : idempotency[q].ticket_type = type}
  BY DEF GrantedOf, get_request_result
<1>5. \A type : NewResult(t).ticket_type = type
                  => GrantedOf(type)' = GrantedOf(type) \cup {r}
  BY <1>1, <1>3, <1>4
<1>6. \A type : NewResult(t).ticket_type # type
                  => GrantedOf(type)' = GrantedOf(type)
  BY <1>1, <1>3, <1>4
<1>7. TakeTicket(t) => NewResult(t).ticket_type = "unnumbered"
  BY <1>2 DEF TakeTicket, Unnumbered
<1>8. TakeSeat(t) => NewResult(t).ticket_type = "numbered"
  BY <1>2 DEF TakeSeat, Numbered
<1> QED
  BY <1>7, <1>8, <1>5, <1>6

(* The queries read nothing but the store. *)
LEMMA QueriesReadStore ==
  UNCHANGED store => /\ UNCHANGED Granted
                     /\ UNCHANGED GrantedOf("unnumbered")
                     /\ UNCHANGED GrantedOf("numbered")
BY DEF store, Granted, GrantedOf, request_exists, get_request_result

(* The seeded store has no sale on record. *)
LEMMA NoGrantsAtFirst ==
  Init => /\ Granted = {}
          /\ \A type : GrantedOf(type) = {}
BY DEF Init, Granted, GrantedOf, request_exists

(* There are at most as many sales as request_ids.                          *)
LEMMA GrantsFinite ==
  /\ IsFiniteSet(Granted)
  /\ \A type : IsFiniteSet(GrantedOf(type))
<1>1. IsFiniteSet(Granted)
  BY FS_Subset, InventoryAssumption DEF Granted
<1> QED
  BY <1>1, FS_Subset DEF GrantedOf

----------------------------------------------------------------------------
(* The counter and the sales.                                              *)

(* All the tickets put on sale are left at first.                           *)
LEMMA InitStockConserved == Init => StockConserved
<1> SUFFICES ASSUME Init PROVE StockConserved
  OBVIOUS
<1>1. Cardinality(GrantedOf("unnumbered")) = 0
  BY NoGrantsAtFirst, FS_EmptySet
<1> QED
  BY <1>1, InventoryAssumption DEF Init, StockConserved, get_available_count

(* A sale takes one ticket off the counter and puts one on record.          *)
LEMMA NextStockConserved ==
  TypeOK /\ ReadsCurrent /\ StockConserved /\ [Next]_vars => StockConserved'
<1> SUFFICES ASSUME TypeOK, ReadsCurrent, StockConserved, [Next]_vars
             PROVE  StockConserved'
  OBVIOUS
<1>1. CASE UNCHANGED store
  BY <1>1, QueriesReadStore DEF StockConserved, get_available_count, store
<1>2. ASSUME NEW t \in Threads, Transaction(t)
      PROVE  StockConserved'
  <2>1. CASE TakeTicket(t)
    <3>1. counter > 0 /\ counter' = counter - 1
      BY <1>2, <2>1, TransactionReads DEF TakeTicket
    <3>2. Cardinality(GrantedOf("unnumbered"))'
            = Cardinality(GrantedOf("unnumbered")) + 1
      <4>1. op[t].request_id \notin GrantedOf("unnumbered")
        BY <1>2, OneMoreGrant DEF GrantedOf
      <4> QED
        BY <1>2, <2>1, <4>1, OneMoreGrantOf, GrantsFinite, FS_AddElement
    <3>3. Cardinality(GrantedOf("unnumbered")) \in Nat
      BY GrantsFinite, FS_CardinalityType
    <3> QED
      BY <3>1, <3>2, <3>3
         DEF StockConserved, get_available_count, TypeOK
  <2>2. CASE TakeSeat(t)
    BY <1>2, <2>2, OneMoreGrantOf
       DEF TakeSeat, StockConserved, get_available_count
  <2> QED
    BY <1>2, <2>1, <2>2 DEF Transaction
<1> QED
  BY <1>1, <1>2, StoreSteps

(* No ticket is oversold or lost. *)
THEOREM StockIsConserved == Spec => []StockConserved
<1>1. Init => TypeOK /\ ReadsCurrent /\ StockConserved
  BY InitTypeOK, InitReadsCurrent, InitStockConserved
<1>2. TypeOK /\ ReadsCurrent /\ StockConserved /\ [Next]_vars
        => (TypeOK /\ ReadsCurrent /\ StockConserved)'
  BY NextTypeOK, NextReadsCurrent, NextStockConserved
<1> QED
  BY <1>1, <1>2, PTL DEF Spec

(* Sales never leave the record (GrantsAreFinal). *)
THEOREM GrantsStay == Spec => GrantsAreFinal
<1>1. TypeOK /\ ReadsCurrent /\ [Next]_vars
        => [\A r \in Granted : idempotency'[r] = idempotency[r]]_vars
  BY StoreSteps, OneMoreGrant DEF store
<1>2. Init => TypeOK /\ ReadsCurrent
  BY InitTypeOK, InitReadsCurrent
<1>3. TypeOK /\ ReadsCurrent /\ [Next]_vars => (TypeOK /\ ReadsCurrent)'
  BY NextTypeOK, NextReadsCurrent
<1> QED
  BY <1>1, <1>2, <1>3, PTL DEF Spec, GrantsAreFinal

(* At first no ticket is sold and no number is given out.                   *)
LEMMA InitRemainingExact == Init => RemainingExact
<1> SUFFICES ASSUME Init PROVE RemainingExact
  OBVIOUS
<1>1. {idempotency[r].remaining : r \in GrantedOf("unnumbered")} = {}
  BY NoGrantsAtFirst
<1>2. counter..(SeededTickets - 1) = {}
  BY InventoryAssumption DEF Init
<1> QED
  BY <1>1, <1>2 DEF RemainingExact

(* A sale gives out the counter's new value, and the counter is just above  *)
(* what has been given out.                                                 *)
LEMMA NextRemainingExact ==
  TypeOK /\ ReadsCurrent /\ StockConserved /\ RemainingExact /\ [Next]_vars
    => RemainingExact'
<1> SUFFICES ASSUME TypeOK, ReadsCurrent, StockConserved, RemainingExact,
                    [Next]_vars
             PROVE  RemainingExact'
  OBVIOUS
<1>1. CASE UNCHANGED store
  BY <1>1, QueriesReadStore DEF RemainingExact, store
<1>2. ASSUME NEW t \in Threads, Transaction(t)
      PROVE  RemainingExact'
  <2> DEFINE r == op[t].request_id
             sold == GrantedOf("unnumbered")
  <2>1. /\ idempotency'[r] = NewResult(t)
        /\ \A q \in sold : idempotency'[q] = idempotency[q]
    BY <1>2, OneMoreGrant DEF TypeOK, GrantedOf
  <2>2. CASE TakeTicket(t)
    <3>1. counter > 0 /\ counter = available[t] /\ counter' = counter - 1
      BY <1>2, <2>2, TransactionReads DEF TakeTicket
    <3>2. counter <= SeededTickets
      <4>1. Cardinality(sold) \in Nat
        BY GrantsFinite, FS_CardinalityType
      <4> QED
        BY <4>1, InventoryAssumption
           DEF StockConserved, get_available_count, TypeOK
    <3>3. NewResult(t).remaining = counter - 1
      BY <2>2, <3>1 DEF NewResult, accepted, TakeTicket
    <3>4. sold' = sold \cup {r}
      BY <1>2, <2>2, OneMoreGrantOf
    <3>5. {idempotency'[q].remaining : q \in sold \cup {r}}
            = {idempotency[q].remaining : q \in sold} \cup {counter - 1}
      BY <2>1, <3>3
    <3>6. (counter - 1)..(SeededTickets - 1)
            = (counter..(SeededTickets - 1)) \cup {counter - 1}
      BY <3>1, <3>2, InventoryAssumption DEF TypeOK
    <3> QED
      BY <3>1, <3>4, <3>5, <3>6 DEF RemainingExact
  <2>3. CASE TakeSeat(t)
    <3>1. sold' = sold /\ counter' = counter
      BY <1>2, <2>3, OneMoreGrantOf DEF TakeSeat
    <3>2. {idempotency'[q].remaining : q \in sold}
            = {idempotency[q].remaining : q \in sold}
      BY <2>1
    <3> QED
      BY <3>1, <3>2 DEF RemainingExact
  <2> QED
    BY <1>2, <2>2, <2>3 DEF Transaction
<1> QED
  BY <1>1, <1>2, StoreSteps

(* The buyers of unnumbered tickets are told each number once. *)
THEOREM RemainingIsExact == Spec => []RemainingExact
<1>1. Init => TypeOK /\ ReadsCurrent /\ StockConserved /\ RemainingExact
  BY InitTypeOK, InitReadsCurrent, InitStockConserved, InitRemainingExact
<1>2. TypeOK /\ ReadsCurrent /\ StockConserved /\ RemainingExact /\ [Next]_vars
        => (TypeOK /\ ReadsCurrent /\ StockConserved /\ RemainingExact)'
  BY NextTypeOK, NextReadsCurrent, NextStockConserved, NextRemainingExact
<1> QED
  BY <1>1, <1>2, PTL DEF Spec
=============================================================================
