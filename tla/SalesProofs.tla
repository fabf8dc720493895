---------------------------- MODULE SalesProofs ------------------------------
(***************************************************************************)
(* Theorems about RedisInventory, continued: seats and their owners, the   *)
(* purchase histories, the number of retries, refusals, and the refinement *)
(* of TicketSale.                                                          *)
(***************************************************************************)
EXTENDS RedisInventoryProofs, SequenceTheorems

----------------------------------------------------------------------------
(* Seats.                                                                  *)

(* All the seats on sale are free at first, and nobody has bought one.      *)
LEMMA InitSeatLedger == Init => SeatLedger
<1> SUFFICES ASSUME Init PROVE SeatLedger
  OBVIOUS
<1>1. \A s \in Seats : seat[s] \in {None, FreeSeat}
  BY DEF Init
<1>2. available_set = {s \in Seats : seat[s] = FreeSeat}
  <2>1. Offered \subseteq Seats
    BY DEF Seats
  <2>2. None # FreeSeat
    BY SeatAssumption DEF SeatRecord
  <2> QED
    BY <2>1, <2>2 DEF Init
<1> QED
  BY <1>1, <1>2, NoGrantsAtFirst DEF SeatLedger

(* Selling a ticket changes no seat and no sale of a seat.                  *)
LEMMA TakeTicketSeatLedger ==
  ASSUME TypeOK, ReadsCurrent, SeatLedger, NEW t \in Threads, Transaction(t),
         TakeTicket(t)
  PROVE  SeatLedger'
<1>1. GrantedOf("numbered")' = GrantedOf("numbered")
  BY OneMoreGrantOf
<1>2. UNCHANGED <<seat, available_set>>
  BY DEF TakeTicket
<1>3. \A r \in GrantedOf("numbered") : idempotency'[r] = idempotency[r]
  BY OneMoreGrant DEF GrantedOf
<1> QED
  BY <1>1, <1>2, <1>3 DEF SeatLedger

(* Selling a seat makes one free seat the buyer's.                          *)
LEMMA TakeSeatSeatLedger ==
  ASSUME TypeOK, ReadsCurrent, SeatLedger, NEW t \in Threads, Transaction(t),
         TakeSeat(t)
  PROVE  SeatLedger'
<1> DEFINE r0 == op[t].request_id
           s0 == op[t].seat_id
           sold == GrantedOf("numbered")
<1>1. /\ s0 \in Seats
      /\ op[t].client_id \in ClientIds
  BY TransactionTypes, ValidOps DEF TakeSeat, Seats
<1>2. seat[s0] = FreeSeat
  BY TransactionReads DEF TakeSeat
<1>3. /\ SoldSeat(op[t]) # FreeSeat
      /\ SoldSeat(op[t]) # None
      /\ SoldSeat(op[t]).owner = op[t].client_id
  BY <1>1, SeatAssumption DEF SoldSeat, FreeSeat, SeatRecord
<1>4. /\ \A s \in Seats : seat'[s] = IF s = s0 THEN SoldSeat(op[t]) ELSE seat[s]
      /\ available_set' = available_set \ {s0}
  BY DEF TakeSeat, TypeOK
<1>5. /\ r0 \notin sold
      /\ sold' = sold \cup {r0}
      /\ \A r \in sold : idempotency'[r] = idempotency[r]
  BY OneMoreGrant, OneMoreGrantOf DEF GrantedOf
<1>6. /\ idempotency'[r0].seat_id = s0
      /\ idempotency'[r0].client_id = op[t].client_id
  <2>1. r0 \in RequestIds /\ idempotency' = [idempotency EXCEPT ![r0] = NewResult(t)]
    BY OneMoreGrant
  <2>2. idempotency'[r0] = NewResult(t)
    BY <2>1 DEF TypeOK
  <2> QED
    BY <2>2 DEF NewResult, accepted
<1>7. \A r \in sold : idempotency[r].seat_id # s0
  BY <1>2 DEF SeatLedger
<1>8. available_set' = {s \in Seats : seat'[s] = FreeSeat}
  <2>1. available_set = {s \in Seats : seat[s] = FreeSeat}
    BY DEF SeatLedger
  <2>2. \A s \in Seats : seat'[s] = FreeSeat <=> seat[s] = FreeSeat /\ s # s0
    BY <1>3, <1>4
  <2> QED
    BY <2>1, <2>2, <1>4
<1>9. \A s \in Seats : seat'[s] \notin {None, FreeSeat} =>
        \E r \in sold' : /\ idempotency'[r].seat_id = s
                         /\ seat'[s].owner = idempotency'[r].client_id
  <2> SUFFICES ASSUME NEW s \in Seats, seat'[s] \notin {None, FreeSeat}
               PROVE  \E r \in sold' :
                        /\ idempotency'[r].seat_id = s
                        /\ seat'[s].owner = idempotency'[r].client_id
    OBVIOUS
  <2>1. CASE s = s0
    BY <2>1, <1>3, <1>4, <1>5, <1>6
  <2>2. CASE s # s0
    <3>1. PICK r \in sold : /\ idempotency[r].seat_id = s
                            /\ seat[s].owner = idempotency[r].client_id
      BY <2>2, <1>4 DEF SeatLedger
    <3> QED
      BY <3>1, <2>2, <1>4, <1>5
  <2> QED
    BY <2>1, <2>2
<1>10. \A q, r \in sold' :
         idempotency'[q].seat_id = idempotency'[r].seat_id => q = r
  BY <1>5, <1>6, <1>7 DEF SeatLedger
<1>11. \A r \in sold' : seat'[idempotency'[r].seat_id] \notin {None, FreeSeat}
  <2> SUFFICES ASSUME NEW r \in sold'
               PROVE  seat'[idempotency'[r].seat_id] \notin {None, FreeSeat}
    OBVIOUS
  <2>1. CASE r = r0
    BY <2>1, <1>1, <1>3, <1>4, <1>6
  <2>2. CASE r \in sold
    <3>1. seat' = [seat EXCEPT ![s0] = SoldSeat(op[t])]
      BY DEF TakeSeat
    <3>2. seat'[idempotency[r].seat_id] = seat[idempotency[r].seat_id]
      BY <3>1, <1>7, <2>2
    <3> QED
      BY <3>2, <2>2, <1>5 DEF SeatLedger
  <2> QED
    BY <2>1, <2>2, <1>5
<1> QED
  BY <1>8, <1>9, <1>10, <1>11 DEF SeatLedger

(* Every step keeps seats and sales in agreement.                           *)
LEMMA NextSeatLedger ==
  TypeOK /\ ReadsCurrent /\ SeatLedger /\ [Next]_vars => SeatLedger'
<1> SUFFICES ASSUME TypeOK, ReadsCurrent, SeatLedger, [Next]_vars
             PROVE  SeatLedger'
  OBVIOUS
<1>1. CASE UNCHANGED store
  BY <1>1, QueriesReadStore DEF SeatLedger, store
<1>2. ASSUME NEW t \in Threads, Transaction(t)
      PROVE  SeatLedger'
  BY <1>2, TakeTicketSeatLedger, TakeSeatSeatLedger DEF Transaction
<1> QED
  BY <1>1, <1>2, StoreSteps

(* A seat has one owner, the client whose request has its sale on record,   *)
(* and the set of free seats is that of the seats' own status.              *)
THEOREM SeatsHaveOneOwner == Spec => []SeatLedger
<1>1. Init => TypeOK /\ ReadsCurrent /\ SeatLedger
  BY InitTypeOK, InitReadsCurrent, InitSeatLedger
<1>2. TypeOK /\ ReadsCurrent /\ SeatLedger /\ [Next]_vars
        => (TypeOK /\ ReadsCurrent /\ SeatLedger)'
  BY NextTypeOK, NextReadsCurrent, NextSeatLedger
<1> QED
  BY <1>1, <1>2, PTL DEF Spec

----------------------------------------------------------------------------
(* Retries.                                                                *)

(* The WatchErrors a call has had, and the one it is about to have.         *)
Debt(t) == attempt[t] + (IF dirty[t] THEN 1 ELSE 0)

(* Each of them is paid for by a sale or by a fault.                        *)
RetriesPaid == \A t \in Threads : Debt(t) <= Cardinality(Granted) + faults

(* The numbers in RetriesPaid are numbers. *)
LEMMA RetryNumbers ==
  ASSUME TypeOK
  PROVE  /\ Cardinality(Granted) \in Nat
         /\ faults \in Nat
         /\ \A t \in Threads : attempt[t] \in Nat /\ dirty[t] \in BOOLEAN
BY GrantsFinite, FS_CardinalityType DEF TypeOK

(* The bound the runs check follows. *)
LEMMA RetriesPaidBounds == TypeOK /\ RetriesPaid => RetriesBounded
<1> SUFFICES ASSUME TypeOK, RetriesPaid, NEW t \in Threads
             PROVE  attempt[t] <= Cardinality(Granted) + faults
  BY DEF RetriesBounded
<1>1. Debt(t) <= Cardinality(Granted) + faults
  BY DEF RetriesPaid
<1>2. attempt[t] <= Debt(t)
  BY RetryNumbers DEF Debt
<1> QED
  BY <1>1, <1>2, RetryNumbers DEF Debt

(* Nothing is owed at first. *)
LEMMA InitRetriesPaid == Init => RetriesPaid
<1> SUFFICES ASSUME Init, NEW t \in Threads
             PROVE  Debt(t) <= Cardinality(Granted) + faults
  BY DEF RetriesPaid
<1>1. TypeOK
  BY InitTypeOK
<1>2. Debt(t) = 0
  BY DEF Init, Debt
<1> QED
  BY <1>1, <1>2, RetryNumbers

(* A step in which the debt of each call grows by no more than the sales    *)
(* and faults it adds.                                                      *)
LEMMA PaidStep ==
  ASSUME TypeOK, TypeOK', RetriesPaid,
         \A u \in Threads :
           Debt(u)' - faults' - Cardinality(Granted)'
             <= Debt(u) - faults - Cardinality(Granted)
  PROVE  RetriesPaid'
<1> SUFFICES ASSUME NEW u \in Threads
             PROVE  Debt(u)' <= Cardinality(Granted)' + faults'
  BY DEF RetriesPaid
<1>1. Debt(u) <= Cardinality(Granted) + faults
  BY DEF RetriesPaid
<1>2. /\ Debt(u) \in Int /\ Cardinality(Granted) \in Int /\ faults \in Int
  BY RetryNumbers DEF Debt
<1>3. Cardinality(Granted)' \in Int
  <2>1. IsFiniteSet(Granted')
    BY FS_Subset, InventoryAssumption DEF Granted
  <2> QED
    BY <2>1, FS_CardinalityType
<1>4. Debt(u)' \in Int /\ faults' \in Int
  BY DEF TypeOK, Debt
<1> QED
  BY <1>1, <1>2, <1>3, <1>4

(* Every step pays for the WatchErrors it causes.                           *)
LEMMA NextRetriesPaid ==
  TypeOK /\ ReadsCurrent /\ RetriesPaid /\ [Next]_vars => RetriesPaid'
<1> SUFFICES ASSUME TypeOK, ReadsCurrent, RetriesPaid, [Next]_vars
             PROVE  RetriesPaid'
  OBVIOUS
<1>1. TypeOK'
  BY NextTypeOK
<1>2. CASE UNCHANGED vars
  BY <1>2, QueriesReadStore DEF vars, calls, RetriesPaid, Debt
<1>3. CASE Next
  <2> PICK t \in Threads : Step(t) \/ Environment(t)
    BY <1>3 DEF Next
  <2>0. ASSUME UNCHANGED store,
               \A u \in Threads : Debt(u)' - faults' <= Debt(u) - faults
        PROVE  RetriesPaid'
    <3>1. Cardinality(Granted)' = Cardinality(Granted)
      BY <2>0, QueriesReadStore
    <3>2. /\ Cardinality(Granted) \in Int
          /\ \A u \in Threads :
               /\ Debt(u)' \in Int /\ faults' \in Int
               /\ Debt(u) \in Int /\ faults \in Int
      BY <1>1, RetryNumbers DEF TypeOK, Debt
    <3> QED
      BY <1>1, <2>0, <3>1, <3>2, PaidStep
  <2>1. ASSUME UNCHANGED <<store, attempt, dirty, faults>>
        PROVE  RetriesPaid'
    BY <2>1, QueriesReadStore DEF RetriesPaid, Debt
  <2>2. ASSUME NEW result, EarlyReturn(t, result)
        PROVE  RetriesPaid'
    <3>1. \A u \in Threads : Debt(u)' - faults' <= Debt(u) - faults
      BY <2>2 DEF EarlyReturn, Leave, Unwatch, Debt, TypeOK
    <3> QED
      BY <2>0, <2>2, <3>1 DEF EarlyReturn
  <2>3. CASE ExecAborted(t)
    <3>1. \A u \in Threads : Debt(u)' - faults' <= Debt(u) - faults
      BY <2>3 DEF ExecAborted, Unwatch, Retry, Debt, TypeOK
    <3> QED
      BY <2>0, <2>3, <3>1 DEF ExecAborted
  <2>4. CASE ConnectionLost(t)
    <3>1. \A u \in Threads : Debt(u)' - faults' <= Debt(u) - faults
      BY <2>4 DEF ConnectionLost, Unwatch, Retry, Fault, Debt, TypeOK
    <3> QED
      BY <2>0, <2>4, <3>1 DEF ConnectionLost
  <2>5. CASE WatchFails(t) \/ Crash(t)
    <3>1. \A u \in Threads : Debt(u)' - faults' <= Debt(u) - faults
      <4>1. /\ attempt' = [attempt EXCEPT ![t] = 0]
            /\ dirty' \in {dirty, [dirty EXCEPT ![t] = FALSE]}
            /\ faults' = faults + 1
        BY <2>5 DEF WatchFails, Crash, Leave, Unwatch, Fault
      <4>2. \A u \in Threads :
              /\ attempt'[u] <= attempt[u] /\ attempt'[u] \in Nat
              /\ dirty'[u] => dirty[u]
        BY <4>1, RetryNumbers DEF TypeOK
      <4> QED
        BY <4>1, <4>2, RetryNumbers DEF Debt
    <3> QED
      BY <2>0, <2>5, <3>1 DEF WatchFails, Crash
  <2>6. CASE ExecCommitted(t) \/ ExecReplyLost(t)
    <3>1. Transaction(t)
      BY <2>6 DEF ExecCommitted, ExecReplyLost
    <3>2. Cardinality(Granted)' = Cardinality(Granted) + 1
      <4>1. op[t].request_id \notin Granted
            /\ Granted' = Granted \cup {op[t].request_id}
        BY <3>1, OneMoreGrant
      <4> QED
        BY <4>1, GrantsFinite, FS_AddElement
    <3>3. \A u \in Threads : Debt(u)' - faults' <= Debt(u) - faults + 1
      <4>1. /\ ~dirty'[t]
            /\ \A u \in Threads \ {t} : attempt'[u] = attempt[u]
        BY <2>6, <3>1
           DEF ExecCommitted, ExecReplyLost, Transaction, MarkWatchers, Leave,
               Retry, TypeOK
      <4>2. \/ attempt'[t] = 0 /\ faults' = faults
            \/ attempt'[t] = attempt[t] + 1 /\ faults' = faults + 1
        BY <2>6 DEF ExecCommitted, ExecReplyLost, Leave, Retry, Fault, TypeOK
      <4>3. faults' \in {faults, faults + 1}
        BY <4>2
      <4>4. \A u \in Threads : /\ attempt[u] \in Nat /\ attempt'[u] \in Nat
                               /\ faults \in Nat
        BY <1>1, RetryNumbers DEF TypeOK
      <4>5. Debt(t)' - faults' <= Debt(t) - faults + 1
        <5>1. Debt(t)' = attempt'[t]
          BY <4>1, <4>4 DEF Debt
        <5>2. attempt[t] <= Debt(t) /\ Debt(t) \in Nat
          BY <4>4 DEF Debt
        <5> QED
          BY <4>2, <4>4, <5>1, <5>2
      <4>6. ASSUME NEW u \in Threads \ {t}
            PROVE  Debt(u)' - faults' <= Debt(u) - faults + 1
        <5>1. Debt(u)' \in {attempt[u], attempt[u] + 1}
          BY <4>1, <4>4 DEF Debt
        <5>2. Debt(u) \in {attempt[u], attempt[u] + 1}
          BY <4>4 DEF Debt
        <5> QED
          BY <4>3, <4>4, <5>1, <5>2
      <4> QED
        BY <4>5, <4>6
    <3>4. /\ Cardinality(Granted) \in Int
          /\ \A u \in Threads :
               /\ Debt(u)' \in Int /\ faults' \in Int
               /\ Debt(u) \in Int /\ faults \in Int
      BY <1>1, RetryNumbers DEF TypeOK, Debt
    <3> QED
      BY <1>1, <3>2, <3>3, <3>4, PaidStep
  <2> QED
    BY <2>1, <2>2, <2>3, <2>4, <2>5, <2>6
       DEF Step, Environment, Call, Watch, ReplayStored, NotProcessed,
           ReadCounter, SoldOut, ReadFreeSeat, InvalidSeat, SeatAlreadySold
<1> QED
  BY <1>2, <1>3

(* The "while True" of a purchase goes round no more often than there are   *)
(* sales and faults.                                                        *)
THEOREM RetriesAreBounded == Spec => []RetriesBounded
<1>1. Init => TypeOK /\ ReadsCurrent /\ RetriesPaid
  BY InitTypeOK, InitReadsCurrent, InitRetriesPaid
<1>2. TypeOK /\ ReadsCurrent /\ RetriesPaid /\ [Next]_vars
        => (TypeOK /\ ReadsCurrent /\ RetriesPaid)'
  BY NextTypeOK, NextReadsCurrent, NextRetriesPaid
<1> QED
  BY <1>1, <1>2, RetriesPaidBounds, PTL DEF Spec

----------------------------------------------------------------------------
(* Purchase histories.                                                     *)

(* Nobody has bought anything at first. *)
LEMMA InitPurchaseHistory == Init => PurchaseHistory
<1> SUFFICES ASSUME Init PROVE PurchaseHistory
  OBVIOUS
<1>1. \A c \in ClientIds : purchases[c] = <<>>
  BY DEF Init
<1>2. \A c \in ClientIds : \A i \in DOMAIN purchases[c] : FALSE
  BY <1>1
<1> QED
  BY <1>2, NoGrantsAtFirst DEF PurchaseHistory, get_client_purchases

(* A listed purchase is a sale on record.                                   *)
LEMMA ListedIsGranted ==
  ASSUME TypeOK, PurchaseHistory, NEW c \in ClientIds,
         NEW i \in DOMAIN purchases[c]
  PROVE  /\ purchases[c][i].request_id \in Granted
         /\ purchases[c][i].client_id = c
         /\ idempotency[purchases[c][i].request_id] = purchases[c][i]
<1>1. purchases[c] \in Seq(PurchaseResult)
  BY DEF TypeOK
<1>2. purchases[c][i] \in PurchaseResult
  BY <1>1, ElementOfSeq
<1>3. purchases[c][i].request_id \in RequestIds
  BY <1>2 DEF PurchaseResult
<1>4. /\ idempotency[purchases[c][i].request_id] = purchases[c][i]
      /\ purchases[c][i].client_id = c
  BY DEF PurchaseHistory, get_client_purchases
<1> QED
  BY <1>2, <1>3, <1>4, DomainAssumption DEF Granted, request_exists

(* A transaction adds its sale to the buyer's history and to no other.      *)
LEMMA TransactionHistory ==
  ASSUME TypeOK, ReadsCurrent, PurchaseHistory, NEW t \in Threads,
         Transaction(t)
  PROVE  PurchaseHistory'
<1> DEFINE r0 == op[t].request_id
           c0 == op[t].client_id
           N == NewResult(t)
<1>1. /\ c0 \in ClientIds /\ N \in PurchaseResult
      /\ N.request_id = r0 /\ N.client_id = c0
  BY TransactionTypes, ValidOps DEF NewResult, accepted
<1>2. /\ r0 \in RequestIds \ Granted
      /\ idempotency' = [idempotency EXCEPT ![r0] = N]
      /\ Granted' = Granted \cup {r0}
      /\ \A q \in Granted : idempotency'[q] = idempotency[q]
  BY OneMoreGrant
<1>3. idempotency'[r0] = N
  BY <1>2 DEF TypeOK
<1>4. purchases' = [purchases EXCEPT ![c0] = Append(purchases[c0], N)]
  BY DEF Transaction, Record
<1> SUFFICES ASSUME NEW c \in ClientIds
             PROVE  /\ \A i \in DOMAIN purchases'[c] :
                         /\ purchases'[c][i].client_id = c
                         /\ idempotency'[purchases'[c][i].request_id]
                              = purchases'[c][i]
                    /\ \A i, j \in DOMAIN purchases'[c] :
                         purchases'[c][i].request_id = purchases'[c][j].request_id
                           => i = j
                    /\ \A r \in Granted' : idempotency'[r].client_id = c =>
                         \E i \in DOMAIN purchases'[c] :
                           purchases'[c][i] = idempotency'[r]
  BY DEF PurchaseHistory, get_client_purchases
<1> DEFINE h == purchases[c]
<1>5. h \in Seq(PurchaseResult)
  BY DEF TypeOK
<1>6. \A i \in DOMAIN h : /\ h[i].request_id \in Granted
                          /\ h[i].client_id = c
                          /\ idempotency'[h[i].request_id] = h[i]
                          /\ h[i].request_id # r0
  BY <1>2, ListedIsGranted
<1>7. /\ \A i, j \in DOMAIN h : h[i].request_id = h[j].request_id => i = j
      /\ \A r \in Granted : idempotency'[r].client_id = c =>
           \E i \in DOMAIN h : h[i] = idempotency'[r]
  BY <1>2 DEF PurchaseHistory, get_client_purchases
<1>8. CASE c # c0
  <2>1. purchases'[c] = h
    BY <1>4, <1>8
  <2>2. \A r \in Granted' : idempotency'[r].client_id = c => r \in Granted
    BY <1>1, <1>2, <1>3, <1>8
  <2> QED
    BY <2>1, <2>2, <1>6, <1>7
<1>9. CASE c = c0
  <2> DEFINE n == Len(h) + 1
             g == Append(h, N)
  <2>1. purchases'[c] = g
    BY <1>1, <1>4, <1>9 DEF TypeOK
  <2>2. /\ DOMAIN g = DOMAIN h \cup {n}
        /\ n \notin DOMAIN h
        /\ \A i \in DOMAIN h : g[i] = h[i]
        /\ g[n] = N
    BY <1>1, <1>5, AppendProperties, LenProperties
  <2> HIDE DEF g, h, n
  <2>3. \A i \in DOMAIN g : /\ g[i].client_id = c
                            /\ idempotency'[g[i].request_id] = g[i]
    BY <2>2, <1>1, <1>3, <1>6, <1>9
  <2>4. \A i, j \in DOMAIN g : g[i].request_id = g[j].request_id => i = j
    BY <2>2, <1>1, <1>6, <1>7
  <2>5. \A r \in Granted' : idempotency'[r].client_id = c =>
          \E i \in DOMAIN g : g[i] = idempotency'[r]
    BY <2>2, <1>2, <1>3, <1>7
  <2> QED
    BY <2>1, <2>3, <2>4, <2>5
<1> QED
  BY <1>8, <1>9

(* Every step keeps histories and sales in agreement.                       *)
LEMMA NextPurchaseHistory ==
  TypeOK /\ ReadsCurrent /\ PurchaseHistory /\ [Next]_vars => PurchaseHistory'
<1> SUFFICES ASSUME TypeOK, ReadsCurrent, PurchaseHistory, [Next]_vars
             PROVE  PurchaseHistory'
  OBVIOUS
<1>1. CASE UNCHANGED store
  BY <1>1, QueriesReadStore DEF PurchaseHistory, get_client_purchases, store
<1> QED
  BY <1>1, TransactionHistory, StoreSteps

(* Each client's history lists the client's sales, each once, however often *)
(* the purchase was tried.                                                  *)
THEOREM HistoriesAreExact == Spec => []PurchaseHistory
<1>1. Init => TypeOK /\ ReadsCurrent /\ PurchaseHistory
  BY InitTypeOK, InitReadsCurrent, InitPurchaseHistory
<1>2. TypeOK /\ ReadsCurrent /\ PurchaseHistory /\ [Next]_vars
        => (TypeOK /\ ReadsCurrent /\ PurchaseHistory)'
  BY NextTypeOK, NextReadsCurrent, NextPurchaseHistory
<1> QED
  BY <1>1, <1>2, PTL DEF Spec

----------------------------------------------------------------------------
(* Refusals.                                                               *)

(* What the purchase o asks for is gone or never was.                       *)
Unavailable(o) ==
  \/ Unnumbered(o) /\ counter <= 0
  \/ /\ Numbered(o)
     /\ o.seat_id \in Seats
     /\ seat[o.seat_id] # FreeSeat

(* Only sales are on record, and a refusal is true of the stock as long as  *)
(* its request has no sale.                                                 *)
RefusalsTrue ==
  /\ \A r \in Granted : idempotency[r].status = "ACCEPTED"
  /\ \A a \in answers : a.result.status = "REJECTED" =>
       request_exists(a.op.request_id) \/ Unavailable(a.op)

(* Nobody has been refused at first. *)
LEMMA InitRefusalsTrue == Init => RefusalsTrue
BY NoGrantsAtFirst DEF Init, RefusalsTrue

(* A call that is answered before EXEC leaves the store alone.              *)
LEMMA EarlyReturnRefusals ==
  ASSUME TypeOK, RefusalsTrue, NEW t \in Threads, pc[t] # "idle",
         NEW result, EarlyReturn(t, result),
         result.status = "REJECTED" => Unavailable(op[t])
  PROVE  RefusalsTrue'
<1>1. UNCHANGED store /\ UNCHANGED Granted
  BY QueriesReadStore DEF EarlyReturn
<1>2. answers' = answers \cup {[op |-> op[t], result |-> result]}
  BY DEF EarlyReturn, Answer
<1>3. \A a \in answers' : a.result.status = "REJECTED" =>
        request_exists(a.op.request_id) \/ Unavailable(a.op)
  BY <1>2 DEF RefusalsTrue
<1> QED
  BY <1>1, <1>3 DEF RefusalsTrue, store, request_exists, Unavailable

(* A sale takes nothing off the record and puts nothing back on sale.       *)
LEMMA TransactionRefusals ==
  ASSUME TypeOK, ReadsCurrent, RefusalsTrue, NEW t \in Threads,
         Transaction(t),
         \A a \in answers' : a.result.status = "REJECTED" => a \in answers
  PROVE  RefusalsTrue'
<1> DEFINE r0 == op[t].request_id
<1>1. /\ r0 \in RequestIds \ Granted
      /\ idempotency' = [idempotency EXCEPT ![r0] = NewResult(t)]
      /\ NewResult(t) # None
      /\ Granted' = Granted \cup {r0}
      /\ \A q \in Granted : idempotency'[q] = idempotency[q]
  BY OneMoreGrant
<1>2. idempotency'[r0] = NewResult(t) /\ NewResult(t).status = "ACCEPTED"
  BY <1>1 DEF TypeOK, NewResult, accepted
<1>3. \A r \in Granted' : idempotency'[r].status = "ACCEPTED"
  BY <1>1, <1>2 DEF RefusalsTrue
<1>4. \A r : request_exists(r) => request_exists(r)'
  BY <1>1 DEF request_exists, TypeOK
<1>5. \A o : Unavailable(o) => Unavailable(o)'
  <2>1. CASE TakeTicket(t)
    BY <2>1, TransactionReads DEF TakeTicket, Unavailable, TypeOK
  <2>2. CASE TakeSeat(t)
    <3>1. \A s \in Seats : seat'[s] = IF s = op[t].seat_id THEN SoldSeat(op[t])
                                                           ELSE seat[s]
      BY <2>2 DEF TakeSeat, TypeOK
    <3>2. SoldSeat(op[t]) # FreeSeat
      BY DEF SoldSeat, FreeSeat
    <3> QED
      BY <2>2, <3>1, <3>2 DEF TakeSeat, Unavailable
  <2> QED
    BY <2>1, <2>2 DEF Transaction
<1> QED
  BY <1>3, <1>4, <1>5 DEF RefusalsTrue

(* Every step gives true refusals only.                                     *)
LEMMA NextRefusalsTrue ==
  TypeOK /\ ReadsCurrent /\ RefusalsTrue /\ [Next]_vars => RefusalsTrue'
<1> SUFFICES ASSUME TypeOK, ReadsCurrent, RefusalsTrue, [Next]_vars
             PROVE  RefusalsTrue'
  OBVIOUS
<1>1. ASSUME UNCHANGED store,
             \A a \in answers' : a.result.status = "REJECTED" => a \in answers
      PROVE  RefusalsTrue'
  BY <1>1, QueriesReadStore
     DEF RefusalsTrue, store, request_exists, Unavailable
<1>2. CASE UNCHANGED vars
  BY <1>1, <1>2 DEF vars
<1>3. CASE Next
  <2> PICK t \in Threads : Step(t) \/ Environment(t)
    BY <1>3 DEF Next
  <2>1. ASSUME UNCHANGED <<store, answers>>
        PROVE  RefusalsTrue'
    BY <1>1, <2>1
  <2>2. CASE ReplayStored(t)
    <3>1. op[t].request_id \in RequestIds
      BY <2>2, ValidOps DEF ReplayStored, TypeOK
    <3>2. Stored(t).status = "ACCEPTED" /\ Stored(t) \in PurchaseResult
      BY <2>2, <3>1
         DEF ReplayStored, RefusalsTrue, Stored, Granted, request_exists, TypeOK
    <3>3. Replayed(op[t], Stored(t)).status = "ACCEPTED"
      BY <3>2 DEF Replayed, PurchaseResult
    <3> QED
      BY <2>2, <3>3, EarlyReturnRefusals DEF ReplayStored
  <2>3. CASE SoldOut(t)
    BY <2>3, EarlyReturnRefusals DEF SoldOut, Unavailable
  <2>4. CASE InvalidSeat(t) \/ SeatAlreadySold(t)
    <3>1. op[t] \in {o \in Ops : ValidInput(o)} /\ Numbered(op[t])
      BY <2>4 DEF InvalidSeat, SeatAlreadySold, TypeOK
    <3>2. op[t].seat_id \in Seats
      BY <3>1, ValidOps DEF Seats
    <3>3. seat[op[t].seat_id] # FreeSeat
      BY <2>4, SeatAssumption
         DEF InvalidSeat, SeatAlreadySold, FreeSeat, SeatRecord
    <3>4. Unavailable(op[t])
      BY <3>1, <3>2, <3>3 DEF Unavailable
    <3> QED
      BY <2>4, <3>4, EarlyReturnRefusals DEF InvalidSeat, SeatAlreadySold
  <2>5. CASE ExecCommitted(t)
    <3>1. NewResult(t).status = "ACCEPTED"
      BY DEF NewResult, accepted
    <3>2. \A a \in answers' : a.result.status = "REJECTED" => a \in answers
      BY <2>5, <3>1 DEF ExecCommitted, Answer
    <3> QED
      BY <2>5, <3>2, TransactionRefusals DEF ExecCommitted
  <2>6. CASE ExecReplyLost(t)
    BY <2>6, TransactionRefusals DEF ExecReplyLost, Retry
  <2>7. CASE WatchFails(t)
    <3>1. NoResult(op[t]).status = "ERROR"
      BY DEF NoResult, rejected
    <3> QED
      BY <1>1, <2>7, <3>1 DEF WatchFails, Answer
  <2> QED
    BY <2>1, <2>2, <2>3, <2>4, <2>5, <2>6, <2>7
       DEF Step, Environment, Call, Watch, NotProcessed, ReadCounter,
           ReadFreeSeat, ExecAborted, ConnectionLost, Retry, Crash
<1> QED
  BY <1>2, <1>3

(* A sale is not one of a purchase that was refused before.                 *)
LEMMA SalesAreUnrefused ==
  TypeOK /\ ReadsCurrent /\ RefusalsTrue /\ [Next]_vars =>
    \A a \in answers :
      (a.result.status = "REJECTED" /\ ~request_exists(a.op.request_id)) =>
        idempotency'[a.op.request_id] = None
        \/ idempotency'[a.op.request_id].ticket_type # a.op.ticket_type
        \/ idempotency'[a.op.request_id].seat_id # a.op.seat_id
<1> SUFFICES ASSUME TypeOK, ReadsCurrent, RefusalsTrue, [Next]_vars,
                    NEW a \in answers, a.result.status = "REJECTED",
                    ~request_exists(a.op.request_id),
                    idempotency'[a.op.request_id] # None,
                    idempotency'[a.op.request_id].ticket_type
                      = a.op.ticket_type,
                    idempotency'[a.op.request_id].seat_id = a.op.seat_id
             PROVE  FALSE
  OBVIOUS
<1>1. Unavailable(a.op)
  BY DEF RefusalsTrue
<1>2. PICK t \in Threads : Transaction(t)
  BY StoreSteps DEF store, request_exists
<1>3. /\ op[t].request_id \in RequestIds
      /\ idempotency' = [idempotency EXCEPT ![op[t].request_id] = NewResult(t)]
  BY <1>2, OneMoreGrant
<1>4. idempotency'[a.op.request_id] = NewResult(t)
  BY <1>3 DEF request_exists, TypeOK
<1>5. op[t].ticket_type = a.op.ticket_type /\ op[t].seat_id = a.op.seat_id
  BY <1>4 DEF NewResult, accepted
<1>6. ~Unavailable(op[t])
  BY <1>2, TransactionReads DEF Unavailable, Unnumbered, Numbered, TypeOK
<1> QED
  BY <1>1, <1>5, <1>6 DEF Unavailable, Unnumbered, Numbered

(* What was refused, and not sold meanwhile, is not sold by a call that had *)
(* read the stock before.                                                   *)
THEOREM RefusalsStand == Spec => RefusedStaysRefused
<1>1. Init => TypeOK /\ ReadsCurrent /\ RefusalsTrue
  BY InitTypeOK, InitReadsCurrent, InitRefusalsTrue
<1>2. TypeOK /\ ReadsCurrent /\ RefusalsTrue /\ [Next]_vars
        => (TypeOK /\ ReadsCurrent /\ RefusalsTrue)'
  BY NextTypeOK, NextReadsCurrent, NextRefusalsTrue
<1>3. TypeOK /\ ReadsCurrent /\ RefusalsTrue /\ [Next]_vars =>
        [\A a \in answers :
           (a.result.status = "REJECTED" /\ ~request_exists(a.op.request_id)) =>
             idempotency'[a.op.request_id] = None
             \/ idempotency'[a.op.request_id].ticket_type # a.op.ticket_type
             \/ idempotency'[a.op.request_id].seat_id # a.op.seat_id]_vars
  BY SalesAreUnrefused
<1> QED
  BY <1>1, <1>2, <1>3, PTL DEF Spec, RefusedStaysRefused

----------------------------------------------------------------------------
(* RedisInventory implements TicketSale: the round trips of a purchase      *)
(* amount to one sale or one answer at one instant.                         *)

(* The refinement mapping of the seats. *)
Owner == [s \in Offered |-> seat[s].owner]

(* Exactly the offered seats have a key. *)
SeatsOffered == \A s \in Seats : seat[s] = None <=> s \notin Offered

(* What the simulation needs of the state before a step. *)
SaleInv == TypeOK /\ ReadsCurrent /\ StockConserved /\ SeatsOffered

(* A seat record is not None, and its owner tells whether it is sold.       *)
LEMMA SeatValues ==
  /\ \A x \in SeatRecord : x # None
  /\ \A x \in SeatRecord : x.status = "sold" <=> x.owner # None
  /\ \A x \in SeatRecord : x = FreeSeat <=> x.owner = None
BY SeatAssumption, DomainAssumption DEF SeatRecord, FreeSeat

(* A sale changes the record of one offered seat at most.                   *)
LEMMA TransactionSeats ==
  ASSUME TypeOK, ReadsCurrent, SeatsOffered, NEW t \in Threads, Transaction(t)
  PROVE  /\ SeatsOffered'
         /\ TakeTicket(t) => Owner' = Owner
         /\ TakeSeat(t) =>
              /\ op[t].seat_id \in Offered
              /\ Owner[op[t].seat_id] = None
              /\ Owner' = [Owner EXCEPT ![op[t].seat_id] = op[t].client_id]
<1> DEFINE s0 == op[t].seat_id
<1>1. CASE TakeTicket(t)
  BY <1>1 DEF TakeTicket, TakeSeat, Unnumbered, Numbered, SeatsOffered, Owner
<1>2. CASE TakeSeat(t)
  <2>1. s0 \in Seats
    BY <1>2, TransactionTypes, ValidOps DEF TakeSeat, Seats
  <2>2. seat[s0] = FreeSeat
    BY <1>2, TransactionReads DEF TakeSeat
  <2>3. FreeSeat \in SeatRecord /\ SoldSeat(op[t]) \in SeatRecord
    BY TransactionTypes, ValidOps DEF FreeSeat, SoldSeat, SeatRecord
  <2>4. s0 \in Offered
    BY <2>1, <2>2, <2>3, SeatValues DEF SeatsOffered
  <2>5. \A s \in Seats : seat'[s] = IF s = s0 THEN SoldSeat(op[t]) ELSE seat[s]
    BY <1>2 DEF TakeSeat, TypeOK
  <2>6. SeatsOffered'
    BY <2>3, <2>4, <2>5, SeatValues DEF SeatsOffered
  <2>7. Owner[s0] = None
    BY <2>2, <2>4 DEF Owner, FreeSeat
  <2>8. Owner' = [Owner EXCEPT ![s0] = op[t].client_id]
    <3>1. Offered \subseteq Seats
      BY DEF Seats
    <3>2. SoldSeat(op[t]).owner = op[t].client_id
      BY DEF SoldSeat
    <3> QED
      BY <2>5, <3>1, <3>2 DEF Owner
  <2>9. ~TakeTicket(t)
    BY <1>2 DEF TakeTicket, TakeSeat, Unnumbered, Numbered
  <2> QED
    BY <2>4, <2>6, <2>7, <2>8, <2>9
<1> QED
  BY <1>1, <1>2 DEF Transaction

(* The seeded store maps to the seeded box office.                          *)
LEMMA InitSimulation == Init => SaleInv /\ Sale!Init
<1> SUFFICES ASSUME Init PROVE SaleInv /\ Sale!Init
  OBVIOUS
<1>1. TypeOK /\ ReadsCurrent /\ StockConserved
  BY InitTypeOK, InitReadsCurrent, InitStockConserved
<1>2. SeatsOffered
  BY SeatValues DEF Init, SeatsOffered, SeatRecord
<1>3. Offered = 1..SeededTickets /\ Sale!Offered = 1..SeededTickets
  BY DEF Offered, Sale!Offered
<1>4. \A s \in Offered : seat[s].owner = None
  BY DEF Init, FreeSeat, Seats
<1>5. Sale!Init
  BY <1>3, <1>4 DEF Init, Sale!Init, Sale!BoxOfficeInit
<1> QED
  BY <1>1, <1>2, <1>5 DEF SaleInv

(* The invariant of the simulation. *)
LEMMA NextSaleInv == SaleInv /\ [Next]_vars => SaleInv'
<1> SUFFICES ASSUME SaleInv, [Next]_vars PROVE SaleInv'
  OBVIOUS
<1>1. (TypeOK /\ ReadsCurrent /\ StockConserved)'
  BY NextTypeOK, NextReadsCurrent, NextStockConserved DEF SaleInv
<1>2. SeatsOffered'
  BY StoreSteps, TransactionSeats DEF SaleInv, SeatsOffered, store
<1> QED
  BY <1>1, <1>2 DEF SaleInv

----------------------------------------------------------------------------
(* Steps.                                                                  *)

(* A step that touches neither the store nor the answers is invisible.      *)
LEMMA Stutter ==
  UNCHANGED <<store, answers>> => UNCHANGED Sale!saleVars
BY DEF store, Sale!saleVars, Sale!boxOffice

(* The valid operations are those of the shop.                              *)
LEMMA SameDomain ==
  ASSUME NEW o \in {x \in Ops : ValidInput(x)}
  PROVE  /\ o \in Ops /\ Sale!ValidInput(o)
         /\ Sale!Unnumbered(o) <=> Unnumbered(o)
         /\ Sale!Numbered(o) <=> Numbered(o)
         /\ \A left : Sale!accepted(o, left) = accepted(o, left)
         /\ \A why : Sale!rejected(o, why) = rejected(o, why)
         /\ \A stored : Sale!Replayed(o, stored) = Replayed(o, stored)
         /\ Sale!NoResult(o) = NoResult(o)
<1>1. Sale!ValidInput(o)
  BY DEF ValidInput, validate_common_input, validate_seat_id, Numbered, SeatIds,
         Sale!ValidInput, Sale!validate_common_input, Sale!validate_seat_id,
         Sale!Numbered, Sale!SeatIds
<1> QED
  BY <1>1 DEF Unnumbered, Numbered, accepted, rejected, Replayed, NoResult,
              Sale!Unnumbered, Sale!Numbered, Sale!accepted, Sale!rejected,
              Sale!Replayed, Sale!NoResult

(* The moves of the shop, one purchase at a time.                           *)
LEMMA SaleMoves ==
  ASSUME NEW o \in {x \in Ops : ValidInput(x)}, NEW result \in Sale!ResultsFor(o),
         \/ Sale!Sell(o, result) /\ (Sale!Answer(o, result) \/ Sale!Unanswered)
         \/ Sale!Repeat(o, result) /\ Sale!Answer(o, result)
         \/ Sale!Refuse(o, result) /\ Sale!Answer(o, result)
         \/ Sale!Fail(o, result) /\ Sale!Answer(o, result)
  PROVE  Sale!Next
BY SameDomain DEF Sale!Next

(* An early return is an answer of the shop's, given at this instant.       *)
LEMMA EarlyReturnSimulation ==
  ASSUME SaleInv, NEW t \in Threads, pc[t] # "idle", NEW result,
         EarlyReturn(t, result),
         \/ /\ Stored(t) # None
            /\ result = Replayed(op[t], Stored(t))
         \/ /\ Unnumbered(op[t]) /\ counter = 0
            /\ result = rejected(op[t], "sold_out")
         \/ /\ Numbered(op[t]) /\ op[t].seat_id \notin Offered
            /\ result = rejected(op[t], "invalid_seat")
         \/ /\ Numbered(op[t]) /\ op[t].seat_id \in Offered
            /\ Owner[op[t].seat_id] # None
            /\ result = rejected(op[t], "seat_already_sold")
  PROVE  Sale!Next
<1> DEFINE o == op[t]
<1>1. o \in {x \in Ops : ValidInput(x)}
  BY DEF SaleInv, TypeOK
<1>2. UNCHANGED Sale!boxOffice
  BY DEF EarlyReturn, store, Sale!boxOffice
<1>3. Sale!Answer(o, result)
  BY DEF EarlyReturn, Answer, Sale!Answer
<1>4. result \in Sale!ResultsFor(o)
  BY <1>1, SameDomain DEF Sale!ResultsFor, Stored
<1>5. Sale!Repeat(o, result) \/ Sale!Refuse(o, result)
  BY <1>1, <1>2, SameDomain
     DEF Sale!Repeat, Sale!Refuse, Stored, Owner, Offered, Sale!Offered
<1> QED
  BY <1>1, <1>3, <1>4, <1>5, SaleMoves

(* EXEC is the instant of the sale.                                         *)
LEMMA TransactionSimulation ==
  ASSUME SaleInv, NEW t \in Threads, Transaction(t),
         NEW o, o = op[t], NEW result, result = NewResult(t)
  PROVE  /\ o \in {x \in Ops : ValidInput(x)}
         /\ result \in Sale!ResultsFor(o)
         /\ Sale!Sell(o, result)
<1> USE DEF SaleInv
<1>1. o \in {x \in Ops : ValidInput(x)}
  BY TransactionTypes
<1>2. /\ idempotency[o.request_id] = None
      /\ Unnumbered(o) => counter = available[t] /\ counter > 0
  BY TransactionReads DEF Stored
<1>3. idempotency' = [idempotency EXCEPT ![o.request_id] = NewResult(t)]
  BY OneMoreGrant
<1>4. CASE TakeTicket(t)
  <2>1. /\ Unnumbered(o) /\ counter' = counter - 1 /\ Owner' = Owner
        /\ NewResult(t) = accepted(o, counter - 1)
    BY <1>2, <1>4, TransactionSeats DEF TakeTicket, NewResult
  <2>2. Sale!SellTicket(o, result)
    BY <1>1, <1>2, <1>3, <2>1, SameDomain DEF Sale!SellTicket, Owner
  <2> QED
    BY <1>1, <2>1, <2>2, SameDomain DEF Sale!ResultsFor, Sale!Sell
<1>5. CASE TakeSeat(t)
  <2>1. /\ Numbered(o) /\ counter' = counter
        /\ NewResult(t) = accepted(o, None)
        /\ o.seat_id \in Offered /\ Owner[o.seat_id] = None
        /\ Owner' = [Owner EXCEPT ![o.seat_id] = o.client_id]
    BY <1>5, TransactionSeats DEF TakeSeat, NewResult, Unnumbered, Numbered
  <2>2. Sale!SellSeat(o, result)
    BY <1>1, <1>2, <1>3, <2>1, SameDomain
       DEF Sale!SellSeat, Owner, Offered, Sale!Offered
  <2> QED
    BY <1>1, <2>1, <2>2, SameDomain DEF Sale!ResultsFor, Sale!Sell
<1> QED
  BY <1>1, <1>4, <1>5 DEF Transaction

(* Every step is a move of the shop or invisible.                           *)
LEMMA NextSimulation == SaleInv /\ [Next]_vars => [Sale!Next]_Sale!saleVars
<1> SUFFICES ASSUME SaleInv, [Next]_vars
             PROVE  Sale!Next \/ UNCHANGED Sale!saleVars
  OBVIOUS
<1>1. CASE UNCHANGED vars
  BY <1>1, Stutter DEF vars
<1>2. CASE Next
  <2> PICK t \in Threads : Step(t) \/ Environment(t)
    BY <1>2 DEF Next
  <2>1. CASE ReplayStored(t)
    BY <2>1, EarlyReturnSimulation DEF ReplayStored
  <2>2. CASE SoldOut(t)
    <3>1. counter = 0
      BY <2>2 DEF SoldOut, SaleInv, StockConserved, get_available_count, TypeOK
    <3> QED
      BY <2>2, <3>1, EarlyReturnSimulation DEF SoldOut
  <2>3. CASE InvalidSeat(t) \/ SeatAlreadySold(t)
    <3>1. op[t].seat_id \in Seats
      BY <2>3, ValidOps DEF InvalidSeat, SeatAlreadySold, SaleInv, TypeOK, Seats
    <3>2. CASE InvalidSeat(t)
      BY <3>1, <3>2, EarlyReturnSimulation
         DEF InvalidSeat, SaleInv, SeatsOffered
    <3>3. CASE SeatAlreadySold(t)
      <4>1. op[t].seat_id \in Offered
        BY <3>1, <3>3 DEF SeatAlreadySold, SaleInv, SeatsOffered
      <4>2. Owner[op[t].seat_id] # None
        BY <3>1, <3>3, <4>1, SeatValues
           DEF SeatAlreadySold, SaleInv, TypeOK, Owner
      <4> QED
        BY <3>3, <4>1, <4>2, EarlyReturnSimulation DEF SeatAlreadySold
    <3> QED
      BY <2>3, <3>2, <3>3
  <2>4. CASE ExecCommitted(t)
    <3>1. PICK o, result : o = op[t] /\ result = NewResult(t)
      OBVIOUS
    <3>2. Sale!Answer(o, result)
      BY <2>4, <3>1 DEF ExecCommitted, Answer, Sale!Answer
    <3> QED
      BY <2>4, <3>1, <3>2, TransactionSimulation, SaleMoves DEF ExecCommitted
  <2>5. CASE ExecReplyLost(t)
    <3>1. PICK o, result : o = op[t] /\ result = NewResult(t)
      OBVIOUS
    <3>2. Sale!Unanswered
      BY <2>5 DEF ExecReplyLost, Retry, Sale!Unanswered
    <3> QED
      BY <2>5, <3>1, <3>2, TransactionSimulation, SaleMoves DEF ExecReplyLost
  <2>6. CASE WatchFails(t)
    <3>1. op[t] \in {x \in Ops : ValidInput(x)}
      BY <2>6 DEF WatchFails, SaleInv, TypeOK
    <3>2. NoResult(op[t]) \in Sale!ResultsFor(op[t])
      BY <3>1, SameDomain DEF Sale!ResultsFor
    <3>3. Sale!Fail(op[t], NoResult(op[t])) /\ Sale!Answer(op[t], NoResult(op[t]))
      BY <2>6, <3>1, SameDomain
         DEF WatchFails, Answer, store, Sale!Fail, Sale!boxOffice, Sale!Answer
    <3> QED
      BY <3>1, <3>2, <3>3, SaleMoves
  <2>7. CASE UNCHANGED <<store, answers>>
    BY <2>7, Stutter
  <2> QED
    BY <2>1, <2>2, <2>3, <2>4, <2>5, <2>6, <2>7
       DEF Step, Environment, Call, Watch, NotProcessed, ReadCounter,
           ReadFreeSeat, ExecAborted, ConnectionLost, Retry, Crash
<1> QED
  BY <1>1, <1>2

(* Purchases are atomic: whatever the interleaving and the faults, callers  *)
(* cannot tell the round trips from sales that happen at one instant.       *)
THEOREM PurchasesAreAtomic == Spec => AtomicSale
BY InitSimulation, NextSaleInv, NextSimulation, PTL
   DEF Spec, AtomicSale, Sale!Spec
=============================================================================
