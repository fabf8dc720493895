---------------------------- MODULE SeedingProofs -----------------------------
(***************************************************************************)
(* Theorems about Seeding: what the seeding tool leaves behind while        *)
(* purchases go on, for any number of buyers, tickets, batches and runs of  *)
(* the tool.                                                               *)
(***************************************************************************)
EXTENDS Seeding, RedisInventoryProofs

----------------------------------------------------------------------------
(* The invariant.                                                          *)

(* Every variable of the tool stays in its type. *)
ToolTypes ==
  /\ spc \in {"idle", "scanning", "deleting", "counter", "seats", "done",
              "failed"}
  /\ ticket_type \in {"all", "unnumbered", "numbered"}
  /\ next_seat \in Nat \ {0}
  /\ cursor_zero \in BOOLEAN
  /\ before \subseteq Granted
  /\ fresh \subseteq RequestIds

(* Which parts of the tool run for which ticket type, and what they start   *)
(* from.                                                                    *)
Phases ==
  /\ spc \in {"scanning", "deleting", "seats"} => ticket_type # "unnumbered"
  /\ spc = "counter" => ticket_type # "numbered"
  /\ spc \in {"scanning", "deleting", "counter"} => next_seat = 1
  /\ spc # "deleting" => keys = {} /\ ~cursor_zero
  /\ cursor_zero => unscanned = {}

(* The keys the scan has yet to return, or has returned and will delete.    *)
Doomed == unscanned \cup keys

(* While the scan goes on, everything that must go is still to be deleted:  *)
(* sales meanwhile create no seat.                                          *)
ScanOwes ==
  spc \in {"scanning", "deleting"} =>
    /\ \A s \in Seats : seat[s] # None => SeatKey(s) \in Doomed
    /\ available_set # {} =>
         ticket_type = "all" /\ AvailableSetKey \in Doomed
    /\ ticket_type = "all" => \A r \in before : IdempotencyKey(r) \in Doomed

(* Between the scan and the last batch, exactly the seats of the batches    *)
(* written so far are there, and the set holds the free ones.               *)
SeatsSoFar ==
  ticket_type # "unnumbered" /\ spc \in {"counter", "seats"} =>
    /\ \A s \in Seats : seat[s] # None <=> s \in Offered /\ s < next_seat
    /\ available_set = {s \in Seats : seat[s] = FreeSeat}

(* The counter stands as it was set, but for the sales since then. *)
Counting == spc \in {"idle", "seats", "done"} /\ ticket_type # "numbered"

(* The sales counted since then are on record. *)
FreshOnRecord == Counting => fresh \subseteq GrantedOf("unnumbered")

Locked == TypeOK /\ ReadsCurrent /\ counter >= 0
Loops  == ToolTypes /\ Phases

----------------------------------------------------------------------------
(* Keys and writes.                                                        *)

(* Different things have different keys. *)
LEMMA KeysDiffer ==
  /\ \A s : SeatKey(s) # CounterKey /\ SeatKey(s) # AvailableSetKey
  /\ \A r : IdempotencyKey(r) # CounterKey /\ IdempotencyKey(r) # AvailableSetKey
  /\ \A r, s : IdempotencyKey(r) # SeatKey(s)
  /\ \A s, z : SeatKey(s) = SeatKey(z) => s = z
  /\ \A q, r : IdempotencyKey(q) = IdempotencyKey(r) => q = r
  /\ CounterKey # AvailableSetKey
BY DEF SeatKey, IdempotencyKey, CounterKey, AvailableSetKey

(* Whatever keys the tool writes or deletes, a call that is not marked      *)
(* dirty afterwards still has current reads.                                *)
LEMMA WriteKeepsReadsCurrent ==
  ASSUME TypeOK, ReadsCurrent, NEW ks, Touch(ks), UNCHANGED undisturbed,
         CounterKey \notin ks => counter' = counter,
         \A s \in Seats : SeatKey(s) \notin ks => seat'[s] = seat[s],
         \A r \in RequestIds :
           IdempotencyKey(r) \notin ks => idempotency'[r] = idempotency[r]
  PROVE  ReadsCurrent'
<1>1. UNCHANGED <<pc, op, watching, available>>
  BY DEF undisturbed
<1> SUFFICES ASSUME NEW t \in Threads
             PROVE  /\ pc[t] \in {"idle", "watch"} =>
                         watching[t] = {} /\ ~dirty'[t]
                    /\ pc[t] \in {"idem", "stock", "exec"} =>
                         watching[t] = WatchedKeys(op[t])
                    /\ pc[t] \in {"stock", "exec"} /\ ~dirty'[t] =>
                         idempotency'[op[t].request_id] = None
                    /\ pc[t] = "exec" /\ ~dirty'[t] =>
                         \/ /\ Unnumbered(op[t])
                            /\ counter' = available[t] /\ counter' > 0
                         \/ /\ Numbered(op[t])
                            /\ seat'[op[t].seat_id] = FreeSeat
  BY <1>1 DEF ReadsCurrent, Stored
<1>2. dirty'[t] <=> dirty[t] \/ watching[t] \cap ks # {}
  BY DEF Touch
<1>3. /\ pc[t] \in {"idle", "watch"} => watching[t] = {} /\ ~dirty'[t]
      /\ pc[t] \in {"idem", "stock", "exec"} => watching[t] = WatchedKeys(op[t])
  BY <1>2 DEF ReadsCurrent
<1>4. ASSUME pc[t] \in {"stock", "exec"}, ~dirty'[t]
      PROVE  /\ ~dirty[t]
             /\ op[t] \in {o \in Ops : ValidInput(o)}
             /\ StockKey(op[t]) \notin ks
             /\ IdempotencyKey(op[t].request_id) \notin ks
  <2>1. watching[t] = WatchedKeys(op[t])
    BY <1>3, <1>4
  <2>2. StockKey(op[t]) \in watching[t]
        /\ IdempotencyKey(op[t].request_id) \in watching[t]
    BY <2>1 DEF WatchedKeys
  <2> QED
    BY <1>2, <1>4, <2>2 DEF TypeOK
<1>5. ASSUME pc[t] \in {"stock", "exec"}, ~dirty'[t]
      PROVE  idempotency'[op[t].request_id] = None
  <2>1. op[t].request_id \in RequestIds
    BY <1>4, <1>5, ValidOps
  <2>2. idempotency[op[t].request_id] = None
    BY <1>4, <1>5 DEF ReadsCurrent, Stored
  <2> QED
    BY <1>4, <1>5, <2>1, <2>2
<1>6. ASSUME pc[t] = "exec", ~dirty'[t]
      PROVE  \/ /\ Unnumbered(op[t])
                /\ counter' = available[t] /\ counter' > 0
             \/ /\ Numbered(op[t])
                /\ seat'[op[t].seat_id] = FreeSeat
  <2>1. \/ Unnumbered(op[t]) /\ counter = available[t] /\ counter > 0
        \/ Numbered(op[t]) /\ seat[op[t].seat_id] = FreeSeat
    BY <1>4, <1>6 DEF ReadsCurrent
  <2>2. Unnumbered(op[t]) => counter' = counter
    BY <1>4, <1>6 DEF StockKey
  <2>3. Numbered(op[t]) => seat'[op[t].seat_id] = seat[op[t].seat_id]
    BY <1>4, <1>6, ValidOps DEF StockKey, Unnumbered, Numbered, Seats
  <2> QED
    BY <2>1, <2>2, <2>3
<1> QED
  BY <1>3, <1>5, <1>6

(* A deletion removes values of their types. *)
LEMMA DeleteTypeOK ==
  ASSUME TypeOK, NEW ks, Delete(ks), UNCHANGED undisturbed
  PROVE  TypeOK'
<1>1. purchases' \in [ClientIds -> Seq(PurchaseResult)]
  <2>1. <<>> \in Seq(PurchaseResult)
    OBVIOUS
  <2> QED
    BY <2>1 DEF Delete, TypeOK
<1>2. /\ counter' \in Int
      /\ seat' \in [Seats -> SeatRecord \cup {None}]
      /\ available_set' \in SUBSET Seats
      /\ idempotency' \in [RequestIds -> PurchaseResult \cup {None}]
      /\ dirty' \in [Threads -> BOOLEAN]
  BY DEF Delete, Touch, TypeOK
<1> QED
  BY <1>1, <1>2 DEF TypeOK, undisturbed

(* A deletion breaks the watches it must. *)
LEMMA DeleteReadsCurrent ==
  ASSUME TypeOK, ReadsCurrent, NEW ks, Delete(ks), UNCHANGED undisturbed
  PROVE  ReadsCurrent'
<1>1. /\ CounterKey \notin ks => counter' = counter
      /\ \A s \in Seats : SeatKey(s) \notin ks => seat'[s] = seat[s]
      /\ \A r \in RequestIds :
           IdempotencyKey(r) \notin ks => idempotency'[r] = idempotency[r]
      /\ Touch(ks)
  BY DEF Delete
<1> QED
  BY <1>1, WriteKeepsReadsCurrent

(* Writing the counter, or a batch of seats, writes values of their types   *)
(* and breaks the watches it must.                                          *)
LEMMA InitializeLocked ==
  ASSUME Locked, InitializeUnnumbered \/ InitializeNumbered
  PROVE  Locked'
<1> USE DEF Locked
<1>1. CASE InitializeUnnumbered
  <2>1. TypeOK'
    BY <1>1, InventoryAssumption
       DEF InitializeUnnumbered, Touch, undisturbed, TypeOK
  <2>2. ReadsCurrent'
    BY <1>1, WriteKeepsReadsCurrent, KeysDiffer DEF InitializeUnnumbered
  <2> QED
    BY <1>1, <2>1, <2>2, InventoryAssumption DEF InitializeUnnumbered
<1>2. CASE InitializeNumbered
  <2>1. Batch \subseteq Seats
    BY DEF Batch, Seats
  <2>2. FreeSeat \in SeatRecord
    BY DEF SeatRecord
  <2>3. TypeOK'
    <3>1. /\ seat' \in [Seats -> SeatRecord \cup {None}]
          /\ available_set' \in SUBSET Seats
          /\ dirty' \in [Threads -> BOOLEAN]
      BY <1>2, <2>1, <2>2 DEF InitializeNumbered, WriteSeats, Touch, TypeOK
    <3> QED
      BY <1>2, <3>1 DEF InitializeNumbered, WriteSeats, undisturbed, TypeOK
  <2>4. ReadsCurrent'
    <3> DEFINE ks == {SeatKey(s) : s \in Batch}
    <3>1. \A s \in Seats : SeatKey(s) \notin ks => seat'[s] = seat[s]
      BY <1>2 DEF InitializeNumbered, WriteSeats
    <3>2. Touch(ks) /\ UNCHANGED <<undisturbed, counter, idempotency>>
      BY <1>2 DEF InitializeNumbered, WriteSeats
    <3> HIDE DEF ks
    <3> QED
      BY <3>1, <3>2, WriteKeepsReadsCurrent
  <2> QED
    BY <1>2, <2>3, <2>4 DEF InitializeNumbered, WriteSeats
<1> QED
  BY <1>1, <1>2

(* A step of the tool that deletes. *)
LEMMA DeleteLocked ==
  ASSUME Locked, NEW ks, Delete(ks), UNCHANGED undisturbed
  PROVE  Locked'
<1>1. counter' \in {0, counter}
  BY DEF Delete
<1> QED
  BY <1>1, DeleteTypeOK, DeleteReadsCurrent DEF Locked

(* Every step of purchases and tool keeps the optimistic lock.              *)
LEMMA NextLocked == Locked /\ [SeedingNext]_seedVars => Locked'
<1> SUFFICES ASSUME Locked, [SeedingNext]_seedVars PROVE Locked'
  OBVIOUS
<1>1. CASE UNCHANGED vars
  <2>1. TypeOK' /\ ReadsCurrent'
    BY <1>1, NextTypeOK, NextReadsCurrent DEF Locked
  <2> QED
    BY <1>1, <2>1 DEF Locked, vars, store
<1>2. CASE Purchases
  <2>1. [Next]_vars
    BY <1>2 DEF Purchases
  <2>2. TypeOK' /\ ReadsCurrent'
    BY <2>1, NextTypeOK, NextReadsCurrent DEF Locked
  <2>3. counter' >= 0
    <3>1. CASE UNCHANGED store
      BY <3>1 DEF store, Locked
    <3>2. ASSUME NEW t \in Threads, Transaction(t)
          PROVE  counter' >= 0
      BY <3>2, TransactionReads
         DEF Locked, TypeOK, Transaction, TakeTicket, TakeSeat
    <3> QED
      BY <2>1, <3>1, <3>2, StoreSteps
  <2> QED
    BY <2>2, <2>3 DEF Locked
<1>3. CASE ResetUnnumbered \/ ResetNumbered \/ DeleteScanned
  BY <1>3, DeleteLocked DEF ResetUnnumbered, ResetNumbered, DeleteScanned
<1>4. CASE InitializeUnnumbered \/ InitializeNumbered
  BY <1>4, InitializeLocked
<1>5. CASE SeederFails
  <2>1. UNCHANGED <<store, calls, answers>> /\ faults' = faults + 1
    BY <1>5 DEF SeederFails, Fault
  <2>2. TypeOK'
    BY <2>1 DEF Locked, TypeOK, store, calls
  <2>3. ReadsCurrent'
    BY <2>1 DEF Locked, ReadsCurrent, Stored, store, calls
  <2> QED
    BY <2>1, <2>2, <2>3 DEF Locked, store
<1>6. CASE ResetAll \/ Scan
  BY <1>1, <1>6 DEF ResetAll, Scan, ScanReturns
<1> QED
  BY <1>1, <1>2, <1>3, <1>4, <1>5, <1>6 DEF SeedingNext, Seeder, seedVars

(* At first the store is as initialize left it. *)
LEMMA InitLocked == SeedingInit => Locked
<1> SUFFICES ASSUME SeedingInit PROVE Locked
  OBVIOUS
<1>1. TypeOK /\ ReadsCurrent
  BY InitTypeOK, InitReadsCurrent DEF SeedingInit
<1> QED
  BY <1>1, InventoryAssumption DEF SeedingInit, Init, Locked

(* An EXEC that is let through finds what it read, or more would be sold    *)
(* than there is.                                                           *)
LEMMA LockedNothingFromNothing == Locked => NothingFromNothing
<1> SUFFICES ASSUME Locked, NEW t \in Threads, pc[t] = "exec", ~dirty[t]
             PROVE  StockKey(op[t]) \in Existing
  BY DEF Locked, NothingFromNothing
<1>1. \/ Unnumbered(op[t]) /\ counter = available[t] /\ counter > 0
      \/ Numbered(op[t]) /\ seat[op[t].seat_id] = FreeSeat
  BY DEF Locked, ReadsCurrent
<1>2. CASE Unnumbered(op[t])
  <2>1. counter # 0
    BY <1>1, <1>2 DEF Unnumbered, Numbered, Locked, TypeOK
  <2> QED
    BY <1>2, <2>1 DEF StockKey, Existing, AllKeys, Keys
<1>3. CASE ~Unnumbered(op[t])
  <2>1. seat[op[t].seat_id] = FreeSeat /\ FreeSeat # None
    BY <1>1, <1>3, SeatAssumption DEF SeatRecord
  <2>2. op[t].seat_id \in Seats
    <3>1. op[t] \in {o \in Ops : ValidInput(o)}
      BY DEF Locked, TypeOK
    <3> QED
      BY <1>1, <1>3, <3>1, ValidOps DEF Seats
  <2> QED
    BY <1>3, <2>1, <2>2 DEF StockKey, Existing, AllKeys, Keys
<1> QED
  BY <1>2, <1>3

(* No purchase commits on a counter or a seat that the tool has deleted.    *)
THEOREM NothingComesFromNothing == SeedingSpec => []NothingFromNothing
<1>1. SeedingSpec => []Locked
  BY InitLocked, NextLocked, PTL DEF SeedingSpec
<1> QED
  BY <1>1, LockedNothingFromNothing, PTL

----------------------------------------------------------------------------
(* The loops of the tool.                                                  *)

(* What purchases do to the store: nothing, or one sale on record. *)
LEMMA PurchaseSteps ==
  ASSUME Locked, Purchases
  PROVE  /\ UNCHANGED <<seeder, before>>
         /\ Granted \subseteq Granted'
         /\ \A r \in Granted : idempotency'[r] = idempotency[r]
         /\ \/ UNCHANGED store
            \/ \E t \in Threads : Transaction(t)
<1>1. UNCHANGED <<seeder, before>> /\ [Next]_vars
  BY DEF Purchases
<1>2. UNCHANGED store \/ \E t \in Threads : Transaction(t)
  BY <1>1, StoreSteps
<1>3. CASE UNCHANGED store
  BY <1>1, <1>3, QueriesReadStore DEF store
<1>4. ASSUME NEW t \in Threads, Transaction(t)
      PROVE  /\ Granted \subseteq Granted'
             /\ \A r \in Granted : idempotency'[r] = idempotency[r]
  BY <1>4, OneMoreGrant DEF Locked
<1> QED
  BY <1>1, <1>2, <1>3, <1>4

(* A deletion takes the same requests from the record and from the history. *)
LEMMA DeletedGrants ==
  ASSUME NEW ks, Delete(ks)
  PROVE  /\ Granted' = Granted \ {r \in RequestIds : IdempotencyKey(r) \in ks}
         /\ before' = before \ {r \in RequestIds : IdempotencyKey(r) \in ks}
BY DEF Delete, Granted, request_exists

(* The tool has forgotten nothing and sold nothing at first. *)
LEMMA InitLoops == SeedingInit => Loops
<1> SUFFICES ASSUME SeedingInit PROVE ToolTypes /\ Phases
  BY DEF Loops
<1>1. ToolTypes
  <2>1. cursor_zero \in BOOLEAN
    BY DEF SeedingInit
  <2> QED
    BY <2>1 DEF SeedingInit, ToolTypes
<1>2. Phases
  BY DEF SeedingInit, Phases
<1> QED
  BY <1>1, <1>2

(* Every step keeps the tool in one of its phases.                          *)
LEMMA NextLoops == Locked /\ Loops /\ [SeedingNext]_seedVars => Loops'
<1> SUFFICES ASSUME Locked, Loops, [SeedingNext]_seedVars PROVE Loops'
  OBVIOUS
<1> USE DEF Loops
<1>1. CASE UNCHANGED seedVars
  <2>1. UNCHANGED <<store, seeder, history>>
    BY <1>1 DEF seedVars, vars
  <2> QED
    BY <2>1, QueriesReadStore DEF seeder, history, ToolTypes, Phases
<1>2. CASE Purchases
  <2>1. UNCHANGED <<seeder, before>> /\ Granted \subseteq Granted'
    BY <1>2, PurchaseSteps
  <2>2. fresh' \subseteq RequestIds
    BY <1>2 DEF Purchases, ToolTypes
  <2> QED
    BY <2>1, <2>2 DEF seeder, ToolTypes, Phases
<1>3. CASE ResetAll
  <2>1. Granted' = Granted
    BY <1>3, QueriesReadStore DEF ResetAll, vars
  <2> QED
    BY <1>3, <2>1 DEF ResetAll, Start, ToolTypes, Phases
<1>4. CASE ResetUnnumbered
  <2>1. before' \subseteq Granted'
    BY <1>4, DeletedGrants DEF ResetUnnumbered, ToolTypes
  <2> QED
    BY <1>4, <2>1 DEF ResetUnnumbered, Start, ToolTypes, Phases
<1>5. CASE ResetNumbered
  <2>1. before' \subseteq Granted'
    BY <1>5, DeletedGrants DEF ResetNumbered, ToolTypes
  <2> QED
    BY <1>5, <2>1 DEF ResetNumbered, Start, ToolTypes, Phases
<1>6. CASE Scan
  <2>1. Granted' = Granted
    BY <1>6, QueriesReadStore DEF Scan, ScanReturns, vars
  <2> QED
    BY <1>6, <2>1 DEF Scan, ScanReturns, history, ToolTypes, Phases
<1>7. CASE DeleteScanned
  <2>1. before' \subseteq Granted'
    BY <1>7, DeletedGrants DEF DeleteScanned, ToolTypes
  <2> QED
    BY <1>7, <2>1 DEF DeleteScanned, ToolTypes, Phases
<1>8. CASE InitializeUnnumbered
  <2>1. Granted' = Granted
    BY <1>8 DEF InitializeUnnumbered, Granted, request_exists
  <2> QED
    BY <1>8, <2>1 DEF InitializeUnnumbered, progress, ToolTypes, Phases
<1>9. CASE InitializeNumbered
  <2>1. Granted' = Granted
    BY <1>9 DEF InitializeNumbered, WriteSeats, Granted, request_exists
  <2>2. next_seat' \in Nat \ {0}
    BY <1>9, SeedingAssumption DEF InitializeNumbered, WriteSeats, ToolTypes
  <2> QED
    BY <1>9, <2>1, <2>2
       DEF InitializeNumbered, WriteSeats, progress, history, ToolTypes, Phases
<1>10. CASE SeederFails
  <2>1. Granted' = Granted
    BY <1>10, QueriesReadStore DEF SeederFails
  <2> QED
    BY <1>10, <2>1 DEF SeederFails, history, ToolTypes, Phases
<1> QED
  BY <1>1, <1>2, <1>3, <1>4, <1>5, <1>6, <1>7, <1>8, <1>9, <1>10
     DEF SeedingNext, Seeder

----------------------------------------------------------------------------
(* The reset.                                                              *)

(* A sale creates no seat and no member of the set of free seats. *)
LEMMA SalesCreateNoSeats ==
  ASSUME Locked, NEW t \in Threads, Transaction(t)
  PROVE  /\ \A s \in Seats : seat'[s] # None <=> seat[s] # None
         /\ available_set' \subseteq available_set
<1>1. CASE TakeTicket(t)
  BY <1>1 DEF TakeTicket
<1>2. CASE TakeSeat(t)
  <2>1. seat[op[t].seat_id] = FreeSeat
    BY <1>2, TransactionReads DEF Locked, TakeSeat
  <2>2. FreeSeat # None /\ SoldSeat(op[t]) # None
    BY TransactionTypes, ValidOps, SeatAssumption
       DEF Locked, FreeSeat, SoldSeat, SeatRecord
  <2> QED
    BY <1>2, <2>1, <2>2 DEF TakeSeat, Locked, TypeOK
<1> QED
  BY <1>1, <1>2 DEF Transaction

(* A key that exists when a SCAN ends is returned or still owed.            *)
LEMMA ScanKeepsDoomed ==
  ASSUME Scan, NEW k \in Existing, k \in Doomed, keys = {}
  PROVE  k \in Doomed'
BY DEF Scan, ScanReturns, Doomed

(* The keys of seats, of the set and of sales that are there exist. *)
LEMMA ExistingKeys ==
  /\ \A s \in Seats : seat[s] # None => SeatKey(s) \in Existing
  /\ available_set # {} => AvailableSetKey \in Existing
  /\ \A r \in Granted : IdempotencyKey(r) \in Existing
<1>1. /\ \A s \in Seats : SeatKey(s) \in AllKeys
      /\ AvailableSetKey \in AllKeys
      /\ \A r \in RequestIds : IdempotencyKey(r) \in AllKeys
  BY DEF AllKeys, Keys
<1> QED
  BY <1>1 DEF Existing, Granted, request_exists

(* No scan has begun. *)
LEMMA InitScanOwes == SeedingInit => ScanOwes
BY DEF SeedingInit, ScanOwes

(* Every step keeps the account of what the scan owes.                      *)
LEMMA NextScanOwes ==
  Locked /\ Loops /\ ScanOwes /\ [SeedingNext]_seedVars => ScanOwes'
<1> SUFFICES ASSUME Locked, Loops, ScanOwes, [SeedingNext]_seedVars
             PROVE  ScanOwes'
  OBVIOUS
<1>1. CASE UNCHANGED seedVars
  BY <1>1 DEF seedVars, vars, store, seeder, history, ScanOwes, Doomed
<1>2. CASE Purchases
  <2>1. /\ UNCHANGED <<seeder, before>>
        /\ UNCHANGED store \/ \E t \in Threads : Transaction(t)
    BY <1>2, PurchaseSteps
  <2>2. /\ \A s \in Seats : seat'[s] # None => seat[s] # None
        /\ available_set' \subseteq available_set
    BY <2>1, SalesCreateNoSeats DEF store
  <2> QED
    BY <2>1, <2>2 DEF seeder, ScanOwes, Doomed
<1>3. CASE ResetAll
  <2>1. UNCHANGED store /\ unscanned' = Existing /\ before' = Granted
        /\ ticket_type' = "all"
    BY <1>3 DEF ResetAll, Start, vars
  <2> QED
    BY <2>1, ExistingKeys DEF store, ScanOwes, Doomed
<1>4. CASE ResetNumbered
  <2>1. /\ unscanned' = Existing \cap {SeatKey(s) : s \in Seats}
        /\ ticket_type' = "numbered"
        /\ Delete({AvailableSetKey})
    BY <1>4 DEF ResetNumbered, Start
  <2>2. /\ available_set' = {}
        /\ \A s \in Seats : seat'[s] # None => seat[s] # None
    BY <2>1 DEF Delete
  <2> QED
    BY <2>1, <2>2, ExistingKeys DEF ScanOwes, Doomed
<1>5. CASE Scan
  <2>1. UNCHANGED <<store, before, ticket_type>> /\ spc = "scanning"
    BY <1>5 DEF Scan, ScanReturns, vars, history
  <2>2. keys = {} /\ before \subseteq Granted
    BY <2>1 DEF Loops, Phases, ToolTypes
  <2>3. \A s \in Seats : seat[s] # None => SeatKey(s) \in Doomed'
    BY <1>5, <2>1, <2>2, ExistingKeys, ScanKeepsDoomed DEF ScanOwes
  <2>4. available_set # {} => ticket_type = "all" /\ AvailableSetKey \in Doomed'
    BY <1>5, <2>1, <2>2, ExistingKeys, ScanKeepsDoomed DEF ScanOwes
  <2>5. ticket_type = "all" => \A r \in before : IdempotencyKey(r) \in Doomed'
    BY <1>5, <2>1, <2>2, ExistingKeys, ScanKeepsDoomed DEF ScanOwes
  <2> QED
    BY <2>1, <2>3, <2>4, <2>5 DEF store, ScanOwes
<1>6. CASE DeleteScanned
  <2>1. /\ Delete(keys) /\ UNCHANGED <<ticket_type, unscanned>>
        /\ keys' = {} /\ spc = "deleting"
    BY <1>6 DEF DeleteScanned
  <2>2. /\ \A s \in Seats : seat'[s] # None =>
             seat[s] # None /\ SeatKey(s) \notin keys
        /\ available_set' # {} =>
             available_set # {} /\ AvailableSetKey \notin keys
    BY <2>1 DEF Delete
  <2>3. \A r \in before' : r \in before /\ IdempotencyKey(r) \notin keys
    BY <2>1 DEF Delete, Loops, ToolTypes, Granted
  <2> QED
    BY <2>1, <2>2, <2>3 DEF ScanOwes, Doomed
<1>7. CASE ResetUnnumbered \/ InitializeUnnumbered \/ InitializeNumbered
           \/ SeederFails
  <2>1. spc' \notin {"scanning", "deleting"}
    BY <1>7 DEF ResetUnnumbered, InitializeUnnumbered, InitializeNumbered,
                WriteSeats, SeederFails
  <2> QED
    BY <2>1 DEF ScanOwes
<1> QED
  BY <1>1, <1>2, <1>3, <1>4, <1>5, <1>6, <1>7 DEF SeedingNext, Seeder

(* When the scan has ended, nothing is left of what it had to delete.       *)
LEMMA ScanComplete ==
  ASSUME Locked, Loops, ScanOwes, DeleteScanned,
         spc' \notin {"scanning", "deleting"}
  PROVE  /\ \A s \in Seats : seat'[s] = None
         /\ available_set' = {}
         /\ ticket_type = "all" => before' = {}
<1>1. Delete(keys) /\ cursor_zero /\ spc = "deleting"
  BY DEF DeleteScanned
<1>2. unscanned = {}
  BY <1>1 DEF Loops, Phases
<1>3. Doomed = keys
  BY <1>2 DEF Doomed
<1>4. \A s \in Seats : seat'[s] = None
  BY <1>1, <1>3 DEF Delete, ScanOwes
<1>5. available_set' = {}
  BY <1>1, <1>3 DEF Delete, ScanOwes
<1>6. ticket_type = "all" => before' = {}
  BY <1>1, <1>3 DEF Delete, ScanOwes, Loops, ToolTypes, Granted
<1> QED
  BY <1>4, <1>5, <1>6

(* Nothing is recorded as sold before a reset that has not begun. *)
LEMMA InitOldSalesForgotten == SeedingInit => OldSalesForgotten
BY DEF SeedingInit, OldSalesForgotten

(* Every step that ends the scan has emptied the record.                    *)
LEMMA NextOldSalesForgotten ==
  /\ Locked /\ Loops /\ ScanOwes /\ OldSalesForgotten
  /\ [SeedingNext]_seedVars
  => OldSalesForgotten'
<1> SUFFICES ASSUME Locked, Loops, ScanOwes, OldSalesForgotten,
                    [SeedingNext]_seedVars
             PROVE  OldSalesForgotten'
  OBVIOUS
<1> USE DEF OldSalesForgotten
<1>1. CASE UNCHANGED seedVars \/ Purchases
  BY <1>1 DEF seedVars, Purchases, seeder, history
<1>2. CASE ResetAll \/ ResetUnnumbered \/ ResetNumbered
  BY <1>2 DEF ResetAll, ResetUnnumbered, ResetNumbered, Start
<1>3. CASE Scan
  BY <1>3 DEF Scan, ScanReturns
<1>4. CASE DeleteScanned
  BY <1>4, ScanComplete DEF DeleteScanned
<1>5. CASE InitializeUnnumbered
  BY <1>5 DEF InitializeUnnumbered
<1>6. CASE InitializeNumbered
  BY <1>6 DEF InitializeNumbered, WriteSeats, history
<1>7. CASE SeederFails
  BY <1>7 DEF SeederFails
<1> QED
  BY <1>1, <1>2, <1>3, <1>4, <1>5, <1>6, <1>7 DEF SeedingNext, Seeder

(* The reset forgets every sale that was on record when it began.           *)
THEOREM OldSalesAreForgotten == SeedingSpec => []OldSalesForgotten
<1>1. SeedingInit => Locked /\ Loops /\ ScanOwes /\ OldSalesForgotten
  BY InitLocked, InitLoops, InitScanOwes, InitOldSalesForgotten
<1>2. /\ Locked /\ Loops /\ ScanOwes /\ OldSalesForgotten
      /\ [SeedingNext]_seedVars
      => (Locked /\ Loops /\ ScanOwes /\ OldSalesForgotten)'
  BY NextLocked, NextLoops, NextScanOwes, NextOldSalesForgotten
<1> QED
  BY <1>1, <1>2, PTL DEF SeedingSpec

----------------------------------------------------------------------------
(* The seats.                                                              *)

(* A sale takes a seat from the set as it marks the seat sold. *)
LEMMA SalesKeepTheSet ==
  ASSUME Locked, NEW t \in Threads, Transaction(t),
         available_set = {s \in Seats : seat[s] = FreeSeat}
  PROVE  available_set' = {s \in Seats : seat'[s] = FreeSeat}
<1>1. CASE TakeTicket(t)
  BY <1>1 DEF TakeTicket
<1>2. CASE TakeSeat(t)
  <2>1. SoldSeat(op[t]) # FreeSeat
    <3>1. op[t].client_id # None
      BY TransactionTypes, ValidOps, DomainAssumption DEF Locked
    <3> QED
      BY <3>1 DEF SoldSeat, FreeSeat
  <2>2. /\ \A s \in Seats :
             seat'[s] = IF s = op[t].seat_id THEN SoldSeat(op[t]) ELSE seat[s]
        /\ available_set' = available_set \ {op[t].seat_id}
    BY <1>2 DEF TakeSeat, Locked, TypeOK
  <2> QED
    BY <2>1, <2>2
<1> QED
  BY <1>1, <1>2 DEF Transaction

(* A batch adds its seats and their members of the set together.            *)
LEMMA BatchSeats ==
  ASSUME Loops, SeatsSoFar, InitializeNumbered
  PROVE  /\ \A s \in Seats : seat'[s] # None <=> s \in Offered /\ s < next_seat'
         /\ available_set' = {s \in Seats : seat'[s] = FreeSeat}
<1> USE DEF Loops
<1>1. /\ spc = "seats"
      /\ seat' = [s \in Seats |-> IF s \in Batch THEN FreeSeat ELSE seat[s]]
      /\ next_seat' = next_seat + BatchSize
      /\ available_set' = available_set \cup Batch
  BY DEF InitializeNumbered, WriteSeats
<1>2. /\ \A s \in Seats : seat[s] # None <=> s \in Offered /\ s < next_seat
      /\ available_set = {s \in Seats : seat[s] = FreeSeat}
  BY <1>1 DEF SeatsSoFar, Phases
<1>3. FreeSeat # None
  BY SeatAssumption DEF SeatRecord
<1>4. Batch \subseteq Seats
  BY DEF Batch, Seats
<1>5. \A s \in Offered : s \in Batch <=> next_seat <= s /\ s < next_seat'
  BY <1>1 DEF Batch
<1>6. \A s \in Offered : s < next_seat' <=> s \in Batch \/ s < next_seat
  <2>1. \A s \in Offered : s \in Int
    BY DEF Offered
  <2>2. /\ next_seat \in Int /\ next_seat' \in Int
        /\ next_seat <= next_seat'
    BY <1>1, SeedingAssumption DEF ToolTypes
  <2> QED
    BY <1>5, <2>1, <2>2
<1>7. Batch \subseteq Offered
  BY DEF Batch
<1>8. \A s \in Seats : seat'[s] # None <=> s \in Offered /\ s < next_seat'
  <2> SUFFICES ASSUME NEW s \in Seats
               PROVE  seat'[s] # None <=> s \in Offered /\ s < next_seat'
    OBVIOUS
  <2>1. CASE s \in Batch
    BY <1>1, <1>3, <1>6, <1>7, <2>1
  <2>2. CASE s \notin Batch
    BY <1>1, <1>2, <1>6, <2>2
  <2> QED
    BY <2>1, <2>2
<1>9. available_set' = {s \in Seats : seat'[s] = FreeSeat}
  BY <1>1, <1>2, <1>4
<1> QED
  BY <1>8, <1>9

(* The system starts with all the seats on sale. *)
LEMMA InitSeatsSeeded == SeedingInit => SeatsSoFar /\ SeatsSeeded
<1> SUFFICES ASSUME SeedingInit PROVE SeatsSeeded
  BY DEF SeedingInit, SeatsSoFar
<1>1. FreeSeat # None
  BY SeatAssumption DEF SeatRecord
<1>2. Offered \subseteq Seats
  BY DEF Seats
<1> QED
  BY <1>1, <1>2 DEF SeedingInit, Init, SeatsSeeded

(* Every step keeps seats and set in agreement, from the end of the scan to *)
(* the next reset.                                                          *)
LEMMA NextSeatsSeeded ==
  /\ Locked /\ Loops /\ ScanOwes /\ SeatsSoFar /\ SeatsSeeded
  /\ [SeedingNext]_seedVars
  => SeatsSoFar' /\ SeatsSeeded'
<1> SUFFICES ASSUME Locked, Loops, ScanOwes, SeatsSoFar, SeatsSeeded,
                    [SeedingNext]_seedVars
             PROVE  SeatsSoFar' /\ SeatsSeeded'
  OBVIOUS
<1>1. ASSUME UNCHANGED <<seat, available_set, spc, ticket_type, next_seat>>
      PROVE  SeatsSoFar' /\ SeatsSeeded'
  BY <1>1 DEF SeatsSoFar, SeatsSeeded
<1>2. CASE UNCHANGED seedVars
  BY <1>1, <1>2 DEF seedVars, vars, store, seeder
<1>3. CASE Purchases
  <2>1. UNCHANGED <<spc, ticket_type, next_seat>>
    BY <1>3, PurchaseSteps DEF seeder
  <2>2. CASE UNCHANGED store
    BY <1>1, <2>1, <2>2 DEF store
  <2>3. ASSUME NEW t \in Threads, Transaction(t)
        PROVE  SeatsSoFar' /\ SeatsSeeded'
    <3>1. \A s \in Seats : seat'[s] # None <=> seat[s] # None
      BY <2>3, SalesCreateNoSeats
    <3>2. available_set = {s \in Seats : seat[s] = FreeSeat}
            => available_set' = {s \in Seats : seat'[s] = FreeSeat}
      BY <2>3, SalesKeepTheSet
    <3>3. Offered \subseteq Seats
      BY DEF Seats
    <3> QED
      BY <2>1, <3>1, <3>2, <3>3 DEF SeatsSoFar, SeatsSeeded
  <2> QED
    BY <1>3, <2>2, <2>3, PurchaseSteps
<1>4. CASE ResetAll \/ ResetNumbered
  BY <1>4 DEF ResetAll, ResetNumbered, Start, SeatsSoFar, SeatsSeeded
<1>5. CASE ResetUnnumbered
  BY <1>5 DEF ResetUnnumbered, Start, SeatsSoFar, SeatsSeeded
<1>6. CASE Scan
  BY <1>6 DEF Scan, ScanReturns, SeatsSoFar, SeatsSeeded
<1>7. CASE DeleteScanned
  <2>1. CASE spc' = "scanning"
    BY <2>1 DEF SeatsSoFar, SeatsSeeded
  <2>2. CASE spc' # "scanning"
    <3>1. /\ \A s \in Seats : seat'[s] = None
          /\ available_set' = {}
          /\ spc' \in {"counter", "seats"}
      BY <1>7, <2>2, ScanComplete DEF DeleteScanned
    <3>2. next_seat' = 1
      BY <1>7 DEF DeleteScanned, Loops, Phases
    <3>3. FreeSeat # None
      BY SeatAssumption DEF SeatRecord
    <3>4. \A s \in Offered : ~(s < 1)
      BY DEF Offered
    <3>5. SeatsSoFar'
      BY <3>1, <3>2, <3>3, <3>4 DEF SeatsSoFar
    <3> QED
      BY <3>1, <3>5 DEF SeatsSeeded
  <2> QED
    BY <2>1, <2>2
<1>8. CASE InitializeUnnumbered
  <2>1. /\ UNCHANGED <<seat, available_set, next_seat, ticket_type>>
        /\ spc = "counter"
        /\ spc' = IF ticket_type = "all" THEN "seats" ELSE "done"
    BY <1>8 DEF InitializeUnnumbered
  <2>2. ticket_type \in {"all", "unnumbered"}
    BY <2>1 DEF Loops, ToolTypes, Phases
  <2> QED
    BY <2>1, <2>2 DEF SeatsSoFar, SeatsSeeded
<1>9. CASE InitializeNumbered
  <2>1. /\ \A s \in Seats : seat'[s] # None <=> s \in Offered /\ s < next_seat'
        /\ available_set' = {s \in Seats : seat'[s] = FreeSeat}
    BY <1>9, BatchSeats
  <2>2. spc' = IF next_seat' > SeededTickets THEN "done" ELSE "seats"
    BY <1>9 DEF InitializeNumbered, WriteSeats
  <2>3. next_seat' > SeededTickets => \A s \in Offered : s < next_seat'
    <3>1. next_seat' \in Nat
      BY NextLoops DEF Loops, ToolTypes
    <3> QED
      BY <3>1, InventoryAssumption DEF Offered
  <2>4. Offered \subseteq Seats
    BY DEF Seats
  <2> QED
    BY <2>1, <2>2, <2>3, <2>4 DEF SeatsSoFar, SeatsSeeded
<1>10. CASE SeederFails
  BY <1>10 DEF SeederFails, SeatsSoFar, SeatsSeeded
<1> QED
  BY <1>2, <1>3, <1>4, <1>5, <1>6, <1>7, <1>8, <1>9, <1>10
     DEF SeedingNext, Seeder

(* Every seat on sale is there when the tool is done, and the set of free   *)
(* seats is that of the seats' own status.                                  *)
THEOREM SeatsAreSeeded == SeedingSpec => []SeatsSeeded
<1>1. SeedingInit => Locked /\ Loops /\ ScanOwes /\ SeatsSoFar /\ SeatsSeeded
  BY InitLocked, InitLoops, InitScanOwes, InitSeatsSeeded
<1>2. /\ Locked /\ Loops /\ ScanOwes /\ SeatsSoFar /\ SeatsSeeded
      /\ [SeedingNext]_seedVars
      => (Locked /\ Loops /\ ScanOwes /\ SeatsSoFar /\ SeatsSeeded)'
  BY NextLocked, NextLoops, NextScanOwes, NextSeatsSeeded
<1> QED
  BY <1>1, <1>2, PTL DEF SeedingSpec

----------------------------------------------------------------------------
(* The counter.                                                            *)

(* A sale of a ticket is counted as it is made, one of a seat is not.       *)
LEMMA PurchasesCounted ==
  ASSUME Locked, Purchases
  PROVE  /\ UNCHANGED store => UNCHANGED fresh
         /\ \A t \in Threads : Transaction(t) =>
              fresh' = IF TakeTicket(t) THEN fresh \cup {op[t].request_id}
                                        ELSE fresh
<1> DEFINE added == {r \in RequestIds :
                       /\ idempotency[r] = None
                       /\ idempotency'[r] # None
                       /\ idempotency'[r].ticket_type = "unnumbered"}
<1>1. fresh' = fresh \cup added
  BY DEF Purchases
<1>2. UNCHANGED store => added = {}
  BY DEF store
<1>3. ASSUME NEW t \in Threads, Transaction(t)
      PROVE  added = IF TakeTicket(t) THEN {op[t].request_id} ELSE {}
  <2> DEFINE r0 == op[t].request_id
  <2>1. /\ r0 \in RequestIds \ Granted
        /\ idempotency' = [idempotency EXCEPT ![r0] = NewResult(t)]
        /\ NewResult(t) # None
    BY <1>3, OneMoreGrant DEF Locked
  <2>2. \A r \in RequestIds :
          idempotency'[r] = IF r = r0 THEN NewResult(t) ELSE idempotency[r]
    BY <2>1 DEF Locked, TypeOK
  <2>3. idempotency[r0] = None
    BY <2>1 DEF Granted, request_exists
  <2>4. NewResult(t).ticket_type = "unnumbered" <=> TakeTicket(t)
    <3>1. NewResult(t).ticket_type = op[t].ticket_type
      BY DEF NewResult, accepted
    <3> QED
      BY <1>3, <3>1
         DEF Transaction, TakeTicket, TakeSeat, Unnumbered, Numbered
  <2>5. added = {r \in {r0} : NewResult(t).ticket_type = "unnumbered"}
    BY <2>1, <2>2, <2>3
  <2> QED
    BY <2>4, <2>5
<1> QED
  BY <1>1, <1>2, <1>3

(* The counter has just been set.                                           *)
LEMMA CounterSet ==
  counter = SeededTickets /\ fresh = {} => FreshStockExact /\ FreshOnRecord
<1> SUFFICES ASSUME counter = SeededTickets, fresh = {}
             PROVE  FreshStockExact /\ FreshOnRecord
  OBVIOUS
<1>1. Cardinality(fresh) = 0
  BY FS_EmptySet
<1>2. {idempotency[r].remaining : r \in fresh} = {}
  OBVIOUS
<1>3. counter..(SeededTickets - 1) = {}
  BY InventoryAssumption
<1> QED
  BY <1>1, <1>2, <1>3, InventoryAssumption DEF FreshStockExact, FreshOnRecord

(* A sale of a ticket takes the next number off the counter.                *)
LEMMA FreshTicket ==
  ASSUME Locked, ToolTypes, FreshStockExact, FreshOnRecord, Counting,
         NEW t \in Threads, Transaction(t), TakeTicket(t),
         fresh' = fresh \cup {op[t].request_id}
  PROVE  /\ fresh' \subseteq GrantedOf("unnumbered")'
         /\ counter' + Cardinality(fresh') = SeededTickets
         /\ {idempotency'[r].remaining : r \in fresh'}
              = counter'..(SeededTickets - 1)
<1> USE DEF Locked
<1> DEFINE r0 == op[t].request_id
<1>1. /\ r0 \notin Granted
      /\ \A r \in Granted : idempotency'[r] = idempotency[r]
      /\ idempotency'[r0] = NewResult(t)
  BY OneMoreGrant DEF TypeOK
<1>2. GrantedOf("unnumbered")' = GrantedOf("unnumbered") \cup {r0}
  BY OneMoreGrantOf
<1>3. fresh \subseteq GrantedOf("unnumbered") /\ fresh \subseteq Granted
  BY DEF FreshOnRecord, Counting, GrantedOf
<1>4. counter > 0 /\ counter = available[t] /\ counter' = counter - 1
  BY TransactionReads DEF TakeTicket
<1>5. /\ counter + Cardinality(fresh) = SeededTickets
      /\ {idempotency[r].remaining : r \in fresh} = counter..(SeededTickets - 1)
  BY DEF FreshStockExact, Counting
<1>6. IsFiniteSet(fresh) /\ Cardinality(fresh) \in Nat
  BY FS_Subset, FS_CardinalityType, InventoryAssumption DEF ToolTypes
<1>7. counter' + Cardinality(fresh') = SeededTickets
  <2>1. Cardinality(fresh') = Cardinality(fresh) + 1
    BY <1>1, <1>3, <1>6, FS_AddElement
  <2> QED
    BY <1>4, <1>5, <1>6, <2>1 DEF TypeOK
<1>8. NewResult(t).remaining = counter - 1
  BY <1>4 DEF NewResult, accepted, TakeTicket
<1>9. {idempotency'[r].remaining : r \in fresh'}
        = {idempotency[r].remaining : r \in fresh} \cup {counter - 1}
  BY <1>1, <1>3, <1>8
<1>10. (counter - 1)..(SeededTickets - 1)
         = (counter..(SeededTickets - 1)) \cup {counter - 1}
  BY <1>4, <1>5, <1>6, InventoryAssumption DEF TypeOK
<1> QED
  BY <1>2, <1>3, <1>4, <1>5, <1>7, <1>9, <1>10

(* Every step keeps the count of the new stock.                             *)
LEMMA NextFreshStock ==
  /\ Locked /\ Loops /\ FreshStockExact /\ FreshOnRecord
  /\ [SeedingNext]_seedVars
  => FreshStockExact' /\ FreshOnRecord'
<1> SUFFICES ASSUME Locked, Loops, FreshStockExact, FreshOnRecord,
                    [SeedingNext]_seedVars
             PROVE  FreshStockExact' /\ FreshOnRecord'
  OBVIOUS
<1>1. ASSUME ~Counting'
      PROVE  FreshStockExact' /\ FreshOnRecord'
  BY <1>1 DEF Counting, FreshStockExact, FreshOnRecord
<1>2. ASSUME Counting' => Counting, UNCHANGED <<counter, idempotency, fresh>>
      PROVE  FreshStockExact' /\ FreshOnRecord'
  <2>1. GrantedOf("unnumbered")' = GrantedOf("unnumbered")
    BY <1>2 DEF GrantedOf, Granted, request_exists, get_request_result
  <2> QED
    BY <1>2, <2>1 DEF Counting, FreshStockExact, FreshOnRecord
<1>3. CASE UNCHANGED seedVars
  <2>1. UNCHANGED <<counter, idempotency, fresh, spc, ticket_type>>
    BY <1>3 DEF seedVars, vars, store, history, seeder
  <2> QED
    BY <1>2, <2>1 DEF Counting
<1>4. CASE Purchases /\ Counting
  <2>1. UNCHANGED <<spc, ticket_type>>
    BY <1>4, PurchaseSteps DEF seeder
  <2>2. CASE UNCHANGED store
    BY <1>2, <1>4, <2>2, PurchasesCounted DEF store
  <2>3. ASSUME NEW t \in Threads, Transaction(t)
        PROVE  FreshStockExact' /\ FreshOnRecord'
    <3>1. CASE TakeTicket(t)
      <4>1. fresh' = fresh \cup {op[t].request_id}
        BY <1>4, <2>3, <3>1, PurchasesCounted
      <4> QED
        BY <1>4, <2>1, <2>3, <3>1, <4>1, FreshTicket
           DEF Loops, FreshStockExact, FreshOnRecord
    <3>2. CASE ~TakeTicket(t)
      <4>1. TakeSeat(t) /\ fresh' = fresh
        BY <1>4, <2>3, <3>2, PurchasesCounted DEF Transaction
      <4>2. /\ GrantedOf("unnumbered")' = GrantedOf("unnumbered")
            /\ counter' = counter
        BY <2>3, <4>1, OneMoreGrantOf DEF Locked, TakeSeat
      <4>3. fresh \subseteq GrantedOf("unnumbered")
        BY <1>4 DEF FreshOnRecord, Counting
      <4>4. \A r \in fresh : idempotency'[r] = idempotency[r]
        BY <1>4, <4>3, PurchaseSteps DEF GrantedOf
      <4>5. {idempotency'[r].remaining : r \in fresh}
              = {idempotency[r].remaining : r \in fresh}
        BY <4>4
      <4> QED
        BY <1>4, <4>1, <4>2, <4>3, <4>5
           DEF Counting, FreshStockExact, FreshOnRecord
    <3> QED
      BY <3>1, <3>2
  <2> QED
    BY <1>4, <2>2, <2>3, PurchaseSteps
<1>5. CASE Purchases /\ ~Counting
  <2>1. UNCHANGED <<spc, ticket_type>>
    BY <1>5, PurchaseSteps DEF seeder
  <2> QED
    BY <1>1, <1>5, <2>1 DEF Counting
<1>6. CASE ResetAll \/ ResetUnnumbered \/ ResetNumbered \/ Scan \/ SeederFails
  BY <1>1, <1>6 DEF ResetAll, ResetUnnumbered, ResetNumbered, Start, Scan,
                    ScanReturns, SeederFails, Counting
<1>7. CASE DeleteScanned
  <2>1. ticket_type' \in {"all", "numbered"}
    BY <1>7 DEF DeleteScanned, Loops, ToolTypes, Phases
  <2> QED
    BY <1>1, <1>7, <2>1 DEF DeleteScanned, Counting
<1>8. CASE InitializeUnnumbered
  <2>1. counter' = SeededTickets /\ fresh' = {}
    BY <1>8 DEF InitializeUnnumbered
  <2>2. /\ Cardinality({}) = 0
        /\ {idempotency'[r].remaining : r \in {}} = {}
        /\ SeededTickets..(SeededTickets - 1) = {}
    BY FS_EmptySet, InventoryAssumption
  <2> QED
    BY <2>1, <2>2, InventoryAssumption DEF FreshStockExact, FreshOnRecord
<1>9. CASE InitializeNumbered
  <2>1. /\ UNCHANGED <<counter, idempotency, fresh, ticket_type>>
        /\ spc = "seats"
    BY <1>9 DEF InitializeNumbered, WriteSeats, history
  <2> QED
    BY <1>2, <2>1 DEF Counting
<1> QED
  BY <1>3, <1>4, <1>5, <1>6, <1>7, <1>8, <1>9 DEF SeedingNext, Seeder

(* From the SET of the counter to the next reset, the tickets left and the  *)
(* tickets sold add up, and each number is told to one buyer.               *)
THEOREM FreshStockIsExact == SeedingSpec => []FreshStockExact
<1>1. SeedingInit => Locked /\ Loops /\ FreshStockExact /\ FreshOnRecord
  <2>1. SeedingInit => counter = SeededTickets /\ fresh = {}
    BY DEF SeedingInit, Init
  <2> QED
    BY <2>1, InitLocked, InitLoops, CounterSet
<1>2. /\ Locked /\ Loops /\ FreshStockExact /\ FreshOnRecord
      /\ [SeedingNext]_seedVars
      => (Locked /\ Loops /\ FreshStockExact /\ FreshOnRecord)'
  BY NextLocked, NextLoops, NextFreshStock
<1> QED
  BY <1>1, <1>2, PTL DEF SeedingSpec
=============================================================================
