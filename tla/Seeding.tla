------------------------------- MODULE Seeding -------------------------------
(***************************************************************************)
(* tools/local_dev/seed_state.py next to running purchases: reset and      *)
(* initialize of RedisInventoryRepository, command by command.  README.md  *)
(* runs it (scripts/init_state.sh) between benchmarks, with workers and    *)
(* APIs up, and a worker may still hold purchases of the last benchmark.   *)
(***************************************************************************)
EXTENDS RedisInventory

CONSTANTS
  BatchSize,      \* seats per pipeline (5000 in the code)
  ScanCount,      \* bound on the keys one SCAN returns
  MaxSeedings     \* bound on the runs of seed_state.py

ASSUME SeedingAssumption ==
  /\ BatchSize \in Nat \ {0}
  /\ ScanCount \in Nat \ {0}
  /\ MaxSeedings \in Nat

VARIABLES
  spc,            \* where seed_state.py is
  ticket_type,    \* its --ticket-type
  unscanned,      \* keys there since SCAN began that it has not returned yet
  keys,           \* the keys the last SCAN returned
  cursor_zero,    \* the last SCAN returned cursor 0
  next_seat,      \* the first seat of the next pipeline
  seedings,       \* runs so far
  (* history *)
  before,         \* sales on record since before the reset
  fresh           \* the unnumbered sales made from the counter as seeded

seeder  == <<spc, ticket_type, unscanned, keys, cursor_zero, next_seat, seedings>>
history == <<before, fresh>>

seedVars == <<vars, seeder, history>>

(* What a write of the seeder leaves alone: the calls, but for their dirty  *)
(* flags, and the environment.                                              *)
undisturbed == <<pc, op, watching, available, attempt, answers, faults>>
progress    == <<unscanned, keys, cursor_zero>>

----------------------------------------------------------------------------
(* The keys of the store.                                                  *)

AvailableSetKey == <<"numbered", "available_set">>
PurchasesKey(c) == <<"client", c>>

AllKeys ==
  Keys \cup {AvailableSetKey} \cup {PurchasesKey(c) : c \in ClientIds}

(* Redis drops an empty set; a counter of 0 is as good as none. *)
Existing ==
  {k \in AllKeys :
     \/ k = CounterKey /\ counter # 0
     \/ k = AvailableSetKey /\ available_set # {}
     \/ \E s \in Seats : k = SeatKey(s) /\ seat[s] # None
     \/ \E r \in RequestIds : k = IdempotencyKey(r) /\ idempotency[r] # None
     \/ \E c \in ClientIds : k = PurchasesKey(c) /\ purchases[c] # <<>>}

(* all_keys_pattern, and the pattern of reset("numbered"). *)
Matching ==
  IF ticket_type = "all" THEN AllKeys ELSE {SeatKey(s) : s \in Seats}

(* A write or a deletion breaks the watches of the keys. *)
Touch(ks) ==
  dirty' = [t \in Threads |-> dirty[t] \/ watching[t] \cap ks # {}]

Delete(ks) ==
  /\ counter' = IF CounterKey \in ks THEN 0 ELSE counter
  /\ seat' = [s \in Seats |-> IF SeatKey(s) \in ks THEN None ELSE seat[s]]
  /\ available_set' = IF AvailableSetKey \in ks THEN {} ELSE available_set
  /\ idempotency' = [r \in RequestIds |->
       IF IdempotencyKey(r) \in ks THEN None ELSE idempotency[r]]
  /\ purchases' = [c \in ClientIds |->
       IF PurchasesKey(c) \in ks THEN <<>> ELSE purchases[c]]
  /\ before' = before \ {r \in RequestIds : IdempotencyKey(r) \in ks}
  /\ Touch(ks)

----------------------------------------------------------------------------
(* reset(ticket_type).                                                     *)

Start(type) ==
  /\ spc \in {"idle", "done", "failed"}
  /\ seedings < MaxSeedings
  /\ seedings' = seedings + 1
  /\ ticket_type' = type
  /\ next_seat' = 1
  /\ UNCHANGED <<keys, cursor_zero>>

ResetAll ==
  /\ Start("all")
  /\ spc' = "scanning"
  /\ unscanned' = Existing
  /\ before' = Granted
  /\ UNCHANGED <<vars, fresh>>

ResetUnnumbered ==
  /\ Start("unnumbered")
  /\ Delete({CounterKey})
  /\ spc' = "counter"
  /\ unscanned' = {}
  /\ UNCHANGED <<undisturbed, fresh>>

ResetNumbered ==
  /\ Start("numbered")
  /\ Delete({AvailableSetKey})
  /\ spc' = "scanning"
  /\ unscanned' = Existing \cap {SeatKey(s) : s \in Seats}
  /\ UNCHANGED <<undisturbed, fresh>>

ScanReturns(found) ==
  /\ spc = "scanning"
  /\ Cardinality(found) <= ScanCount
  /\ keys' = found
  /\ unscanned' = (unscanned \ found) \cap Existing
  /\ spc' = "deleting"
  /\ UNCHANGED <<vars, history, ticket_type, next_seat, seedings>>

(* Mutant of Scan: a call that returns no keys ends the loop. *)
ScanUntilEmpty ==
  \E found \in SUBSET (Existing \cap Matching) :
    ScanReturns(found) /\ cursor_zero' = (found = {})

(* SCAN returns every key that is there from the first call to the last; of *)
(* the keys that come in between, it returns what it likes.                 *)
Scan ==
  \E found \in SUBSET (Existing \cap Matching) :
    ScanReturns(found) /\ cursor_zero' \in {FALSE, unscanned' = {}}

DeleteScanned ==
  /\ spc = "deleting"
  /\ Delete(keys)
  /\ spc' = IF ~cursor_zero THEN "scanning"
            ELSE IF ticket_type = "all" THEN "counter" ELSE "seats"
  /\ keys' = {}
  /\ cursor_zero' = FALSE
  /\ UNCHANGED <<undisturbed, fresh, ticket_type, unscanned, next_seat,
                 seedings>>

----------------------------------------------------------------------------
(* initialize("unnumbered", n) and initialize("numbered", n).              *)

InitializeUnnumbered ==
  /\ spc = "counter"
  /\ counter' = SeededTickets
  /\ Touch({CounterKey})
  /\ spc' = IF ticket_type = "all" THEN "seats" ELSE "done"
  /\ fresh' = {}
  /\ UNCHANGED <<seat, available_set, idempotency, purchases, undisturbed,
                 before, ticket_type, progress, next_seat, seedings>>

Batch == {s \in Offered : next_seat <= s /\ s < next_seat + BatchSize}

WriteSeats ==
  /\ spc = "seats"
  /\ seat' = [s \in Seats |-> IF s \in Batch THEN FreeSeat ELSE seat[s]]
  /\ Touch({SeatKey(s) : s \in Batch})
  /\ next_seat' = next_seat + BatchSize
  /\ spc' = IF next_seat' > SeededTickets THEN "done" ELSE "seats"
  /\ UNCHANGED <<counter, idempotency, purchases, undisturbed, history,
                 ticket_type, progress, seedings>>

(* Mutant of InitializeNumbered: the set is written with the last batch.    *)
InitializeSeatsThenSet ==
  /\ WriteSeats
  /\ available_set' = IF spc' = "done" THEN Offered ELSE available_set

(* Each pipeline is a transaction: the seats of a batch and their members   *)
(* of the available set appear together.                                    *)
InitializeNumbered ==
  /\ WriteSeats
  /\ available_set' = available_set \cup Batch

(* A lost connection ends the script. *)
SeederFails ==
  /\ spc \notin {"idle", "done", "failed"}
  /\ spc' = "failed"
  /\ keys' = {}
  /\ cursor_zero' = FALSE
  /\ Fault
  /\ UNCHANGED <<store, calls, answers, history, ticket_type, unscanned,
                 next_seat, seedings>>

----------------------------------------------------------------------------

SeedingInit ==
  /\ Init
  /\ spc = "idle"
  /\ ticket_type = "all"
  /\ unscanned = {}
  /\ keys = {}
  /\ cursor_zero = FALSE
  /\ next_seat = 1
  /\ seedings = 0
  /\ before = {}
  /\ fresh = {}

Purchases ==
  /\ Next
  /\ fresh' = fresh \cup {r \in RequestIds :
                            /\ idempotency[r] = None
                            /\ idempotency'[r] # None
                            /\ idempotency'[r].ticket_type = "unnumbered"}
  /\ UNCHANGED <<seeder, before>>

Seeder ==
  \/ ResetAll
  \/ ResetUnnumbered
  \/ ResetNumbered
  \/ Scan
  \/ DeleteScanned
  \/ InitializeUnnumbered
  \/ InitializeNumbered
  \/ SeederFails

SeedingNext == Purchases \/ Seeder

SeedingSpec == SeedingInit /\ [][SeedingNext]_seedVars

----------------------------------------------------------------------------
(* Properties.                                                             *)

(* Purchases that were under way while the stock was deleted and written    *)
(* again do not disturb the new stock: from the SET of the counter to the   *)
(* next reset, the tickets left and the tickets sold since then add up, and *)
(* the buyers were told each number once (initialize, buy_unnumbered).      *)
FreshStockExact ==
  spc \in {"idle", "seats", "done"} /\ ticket_type # "numbered" =>
    /\ counter + Cardinality(fresh) = SeededTickets
    /\ {idempotency[r].remaining : r \in fresh} = counter..(SeededTickets - 1)

(* When the script has seeded the seats, every seat on sale is there and    *)
(* the set that get_available_count counts holds exactly the free ones,     *)
(* although sales went on between the deletions and between the batches     *)
(* (repositories.py lines 208-221 and 239-249).                             *)
SeatsSeeded ==
  spc \in {"idle", "done"} /\ ticket_type # "unnumbered" =>
    /\ \A s \in Offered : seat[s] # None
    /\ available_set = {s \in Seats : seat[s] = FreeSeat}

(* No sale recorded before reset("all") survives it, so the next benchmark  *)
(* may use its request_ids again (repositories.py lines 226-235).           *)
OldSalesForgotten ==
  ticket_type = "all" /\ spc \in {"counter", "seats", "done"} => before = {}

(* A sale takes stock that is there: no EXEC goes through on a counter or a *)
(* seat that the reset deleted after the call had read it.                  *)
NothingFromNothing ==
  /\ counter >= 0
  /\ \A t \in Threads : pc[t] = "exec" /\ ~dirty[t] =>
       StockKey(op[t]) \in Existing
=============================================================================
