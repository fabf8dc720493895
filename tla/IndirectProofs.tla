---------------------------- MODULE IndirectProofs ----------------------------
(***************************************************************************)
(* What a client of the gateway is told, for any number of clients,        *)
(* handlers, workers and faults.                                           *)
(***************************************************************************)
EXTENDS IndirectSystem, FiniteSetTheorems, SequenceTheorems, TLAPS

(* Who works on a purchase has it, and a result to reply with.             *)
InHand ==
  /\ \A w \in Workers :
       /\ wpc[w] \in {"processing", "replying", "acking"} => wmsg[w] \in Ops
       /\ wpc[w] \in {"replying", "acking"} => wresult[w] \in ReplyType
  /\ \A h \in Handlers : hpc[h] # "idle" => hop[h] \in Ops

(* A sale on record has been accepted, and its seat belongs to its client. *)
Recorded ==
  \A r \in RequestIds : ledger[r] # None =>
    /\ ledger[r].status = "ACCEPTED"
    /\ ledger[r].reason = "ok"
    /\ Numbered(ledger[r]) =>
         /\ ledger[r].seat_id \in Offered
         /\ owner[ledger[r].seat_id] = ledger[r].client_id

Typed == TypeOK /\ InHand /\ Recorded

----------------------------------------------------------------------------
(* The values that are built.                                              *)

LEMMA ValidOperation ==
  ASSUME NEW o \in Ops, ValidInput(o)
  PROVE  /\ o.ticket_type \in TicketType
         /\ o.client_id \in ClientIds
         /\ o.request_id \in RequestIds
         /\ o.seat_id \in SeatIds \cup {None}
         /\ Numbered(o) => o.seat_id \in SeatIds
         /\ Unnumbered(o) => o.seat_id = None
         /\ Numbered(o) # Unnumbered(o)
BY DomainAssumption
   DEF ValidInput, validate_common_input, validate_seat_id, Operation,
       TicketType, Unnumbered, Numbered

LEMMA ResultTypes ==
  ASSUME Typed, NEW o \in Ops, ValidInput(o), NEW result \in ResultsFor(o)
  PROVE  result \in PurchaseResult
<1>1. \A left \in Int \cup {None} : accepted(o, left) \in PurchaseResult
  BY ValidOperation DEF accepted, PurchaseResult, PurchaseStatus
<1>2. \A why \in {"sold_out", "invalid_seat", "seat_already_sold"} :
        rejected(o, why) \in PurchaseResult
  BY ValidOperation DEF rejected, PurchaseResult, PurchaseStatus
<1>3. NoResult(o) \in PurchaseResult
  BY ValidOperation DEF NoResult, rejected, PurchaseResult, PurchaseStatus
<1>4. \A stored \in PurchaseResult : Replayed(o, stored) \in PurchaseResult
  BY ZenonT(60), ValidOperation DEF Replayed, PurchaseResult, PurchaseStatus
<1>5. stock - 1 \in Int
  BY IndirectAssumption, DomainAssumption DEF Typed, TypeOK
<1>6. \A sale \in {ledger[o.request_id]} \ {None} : sale \in PurchaseResult
  BY ValidOperation DEF Typed, TypeOK
<1> QED
  BY <1>1, <1>2, <1>3, <1>4, <1>5, <1>6 DEF ResultsFor

LEMMA InternalErrorType == \A o \in Ops : InternalError(o) \in ReplyType
<1> SUFFICES ASSUME NEW o \in Ops PROVE InternalError(o) \in ReplyType
  OBVIOUS
<1>1. o \in Operation /\ o.request_id \in RequestIds
  BY DomainAssumption, GatewayAssumption
<1> QED
  BY <1>1 DEF InternalError, NoResult, rejected, ReplyType, PurchaseStatus,
              Operation

LEMMA ProcessedType ==
  ASSUME NEW o \in Ops, NEW result,
         \/ result.status = "ERROR"
         \/ result \in PurchaseResult /\ result.reason # "connection_error"
  PROVE  Processed(o, result) \in ReplyType
<1>1. CASE result.status = "ERROR"
  BY <1>1, InternalErrorType DEF Processed
<1>2. CASE result.status # "ERROR"
  <2>1. result \in PurchaseResult /\ result.reason # "connection_error"
    BY <1>2
  <2>2. result \in ReplyType
    BY <1>2, <2>1 DEF PurchaseResult, ReplyType, PurchaseStatus
  <2> QED
    BY <1>2, <2>2 DEF Processed
<1> QED
  BY <1>1, <1>2

----------------------------------------------------------------------------
(* Results and the box office.                                             *)

(* A result speaks the truth, and says enough for it to remain true.       *)
TrueOf(x, left, seats, sales) ==
  /\ x.status = "ACCEPTED" =>
       /\ x.request_id \in RequestIds
       /\ sales[x.request_id] # None
       /\ sales[x.request_id].client_id = x.client_id
       /\ sales[x.request_id].ticket_type = x.ticket_type
       /\ x.seat_id \in {sales[x.request_id].seat_id, None}
       /\ x.remaining \in {sales[x.request_id].remaining, None}
  /\ x.reason = "sold_out" => left = 0
  /\ x.reason = "seat_already_sold" =>
       x.seat_id \in Offered /\ seats[x.seat_id] # None
  /\ x.reason = "invalid_seat" => x.seat_id \notin Offered

ResultTrue(x) == TrueOf(x, stock, owner, ledger)
TrueNext(x)   == TrueOf(x, stock', owner', ledger')

BoxOfficeTyped ==
  /\ stock \in 0..SeededTickets
  /\ owner \in [Offered -> ClientIds \cup {None}]
  /\ ledger \in [RequestIds -> PurchaseResult \cup {None}]

LEMMA Unsold ==
  ASSUME UNCHANGED boxOffice
  PROVE  /\ BoxOfficeTyped => BoxOfficeTyped'
         /\ Recorded => Recorded'
         /\ \A x : ResultTrue(x) => TrueNext(x)
BY DEF boxOffice, BoxOfficeTyped, Recorded, ResultTrue, TrueNext, TrueOf

(* A sale takes nothing back and is on record. *)
LEMMA Sale ==
  ASSUME Typed, NEW o \in Ops, ValidInput(o), NEW result \in ResultsFor(o),
         Sell(o, result)
  PROVE  /\ BoxOfficeTyped' /\ Recorded'
         /\ \A x : ResultTrue(x) => TrueNext(x)
         /\ result \in PurchaseResult
         /\ result.reason = "ok" /\ result.status = "ACCEPTED"
         /\ TrueNext(result)
<1>1. result \in PurchaseResult
  BY ResultTypes
<1>2. BoxOfficeTyped /\ SeededTickets \in Nat
  BY IndirectAssumption, DomainAssumption DEF Typed, TypeOK, BoxOfficeTyped
<1>3. /\ o.request_id \in RequestIds
      /\ o.client_id \in ClientIds
      /\ ledger[o.request_id] = None
      /\ ledger' = [ledger EXCEPT ![o.request_id] = result]
      /\ result.status = "ACCEPTED" /\ result.reason = "ok"
      /\ result.request_id = o.request_id
      /\ result.client_id = o.client_id
      /\ result.ticket_type = o.ticket_type
      /\ result.seat_id = o.seat_id
  BY ValidOperation DEF Sell, SellTicket, SellSeat, accepted
<1>4. \/ Unnumbered(o) /\ UNCHANGED owner /\ stock > 0 /\ stock' = stock - 1
      \/ /\ Numbered(o) /\ UNCHANGED stock
         /\ o.seat_id \in Offered /\ owner[o.seat_id] = None
         /\ owner' = [owner EXCEPT ![o.seat_id] = o.client_id]
  BY DEF Sell, SellTicket, SellSeat
<1>5. BoxOfficeTyped'
  BY <1>1, <1>2, <1>3, <1>4 DEF BoxOfficeTyped
<1>6. \A s \in Offered : owner[s] # None => owner'[s] = owner[s]
  BY <1>2, <1>4 DEF BoxOfficeTyped
<1>7. /\ ledger'[o.request_id] = result
      /\ \A r \in RequestIds : r # o.request_id => ledger'[r] = ledger[r]
  BY <1>2, <1>3 DEF BoxOfficeTyped
<1>8. result # None /\ None \notin ClientIds
  BY <1>1, DomainAssumption
<1>9. ASSUME NEW r \in RequestIds, ledger'[r] # None
      PROVE  /\ ledger'[r].status = "ACCEPTED"
             /\ ledger'[r].reason = "ok"
             /\ Numbered(ledger'[r]) =>
                  /\ ledger'[r].seat_id \in Offered
                  /\ owner'[ledger'[r].seat_id] = ledger'[r].client_id
  <2>1. CASE r = o.request_id
    <3>1. Numbered(result) <=> Numbered(o)
      BY <1>3 DEF Numbered
    <3>2. Numbered(o) => ~Unnumbered(o)
      BY DEF Numbered, Unnumbered
    <3> QED
      BY <1>2, <1>3, <1>4, <1>7, <2>1, <3>1, <3>2 DEF BoxOfficeTyped
  <2>2. CASE r # o.request_id
    <3>1. ledger'[r] = ledger[r]
      BY <1>7, <2>2
    <3>2. ledger[r].client_id \in ClientIds
      BY <1>2, <1>9, <3>1 DEF BoxOfficeTyped, PurchaseResult
    <3> QED
      BY <1>6, <1>8, <1>9, <3>1, <3>2 DEF Typed, Recorded
  <2> QED
    BY <2>1, <2>2
<1>10. Recorded'
  BY <1>9 DEF Recorded, Numbered
<1>11. ASSUME NEW x, ResultTrue(x) PROVE TrueNext(x)
  <2>1. stock = 0 => stock' = 0
    BY <1>4
  <2> QED
    BY <1>3, <1>6, <1>7, <1>11, <2>1 DEF ResultTrue, TrueNext, TrueOf
<1>12. TrueNext(result)
  BY <1>3, <1>7, <1>8 DEF ResultTrue, TrueNext, TrueOf
<1> QED
  BY <1>1, <1>3, <1>5, <1>10, <1>11, <1>12

(* An answer without a sale is true of what is there. *)
LEMMA NoSale ==
  ASSUME Typed, NEW o \in Ops, ValidInput(o), NEW result \in ResultsFor(o),
         Repeat(o, result) \/ Refuse(o, result)
  PROVE  /\ result \in PurchaseResult
         /\ result.reason # "connection_error" /\ result.status # "ERROR"
         /\ TrueNext(result)
<1>1. result \in PurchaseResult
  BY ResultTypes
<1>2. CASE Repeat(o, result)
  <2>1. /\ o.request_id \in RequestIds
        /\ ledger[o.request_id] # None
        /\ ledger[o.request_id] \in PurchaseResult
        /\ UNCHANGED boxOffice
    BY <1>2, ValidOperation DEF Repeat, Typed, TypeOK
  <2>2. /\ result.status = ledger[o.request_id].status
        /\ result.reason = ledger[o.request_id].reason
        /\ result.client_id = ledger[o.request_id].client_id
        /\ result.ticket_type = ledger[o.request_id].ticket_type
        /\ result.request_id = o.request_id
        /\ result.seat_id \in {ledger[o.request_id].seat_id, None}
        /\ result.remaining \in {ledger[o.request_id].remaining, None}
    BY <1>2, <2>1 DEF Repeat, Replayed, PurchaseResult
  <2>3. result.reason = "ok" /\ result.status = "ACCEPTED"
    BY <2>1, <2>2 DEF Typed, Recorded
  <2> QED
    BY <1>1, <2>1, <2>2, <2>3 DEF ResultTrue, TrueNext, TrueOf, boxOffice
<1>3. CASE Refuse(o, result)
  BY <1>1, <1>3 DEF Refuse, rejected, ResultTrue, TrueNext, TrueOf, boxOffice
<1> QED
  BY <1>2, <1>3
----------------------------------------------------------------------------
(* Type correctness.                                                       *)

BrokerTyped ==
  /\ rabbit_up \in BOOLEAN /\ reply_bound \in BOOLEAN
  /\ purchase_requests \in Seq(Ops)
  /\ unacked \in [Workers -> Ops \cup {None}]
  /\ reply_queue \in Seq(ReplyType)

HandlersTyped ==
  /\ hpc \in [Handlers -> HandlerPlaces]
  /\ hop \in [Handlers -> Ops \cup {None}]
  /\ \A h \in Handlers : hpc[h] # "idle" => hop[h] \in Ops

GlobalsTyped ==
  /\ ready \in BOOLEAN /\ publisher_open \in BOOLEAN
  /\ publish_lock \in Handlers \cup {None}
  /\ pending_responses \in [RequestIds -> ReplyType \cup {None}]
  /\ response_events \in [RequestIds -> Handlers \cup {None}]
  /\ signalled \subseteq Handlers
  /\ rpc \in {"connecting", "consuming", "notifying"}
  /\ revent \in Handlers \cup {None}
  /\ requests \in 0..MaxRequests
  /\ responses \subseteq [op : Ops, code : {200, 400, 409, 503, 504},
                          result : ReplyType \cup {None}]

GatewayTyped == HandlersTyped /\ GlobalsTyped

WorkersTyped ==
  /\ wpc \in [Workers -> WorkerPlaces]
  /\ connected \in [Workers -> BOOLEAN]
  /\ wmsg \in [Workers -> Ops \cup {None}]
  /\ wresult \in [Workers -> ReplyType \cup {None}]
  /\ shutdown \in [Workers -> BOOLEAN]
  /\ \A w \in Workers :
       /\ wpc[w] \in {"processing", "replying", "acking"} => wmsg[w] \in Ops
       /\ wpc[w] \in {"replying", "acking"} => wresult[w] \in ReplyType

LEMMA Parts ==
  Typed <=> /\ BrokerTyped /\ GatewayTyped /\ WorkersTyped /\ BoxOfficeTyped
            /\ Recorded /\ faults \in 0..MaxFaults
BY DEF Typed, TypeOK, InHand, BrokerTyped, GatewayTyped, HandlersTyped,
       GlobalsTyped, WorkersTyped, BoxOfficeTyped

LEMMA TypedInit == Init => Typed
<1> SUFFICES ASSUME Init PROVE Typed
  OBVIOUS
<1>1. BrokerTyped /\ WorkersTyped
  BY EmptySeq
     DEF Init, BrokerInit, WorkerInit, BrokerTyped, WorkersTyped, WorkerPlaces
<1>2. GatewayTyped
  BY GatewayAssumption
     DEF Init, GatewayInit, GatewayTyped, HandlersTyped, GlobalsTyped,
         HandlerPlaces
<1>3. BoxOfficeTyped /\ Recorded /\ faults \in 0..MaxFaults
  BY IndirectAssumption, DomainAssumption
     DEF Init, BoxOfficeInit, BoxOfficeTyped, Recorded
<1> QED
  BY <1>1, <1>2, <1>3, Parts

(* What the broker holds of purchases: the queue and the deliveries.       *)
HeldIn(queue, deliveries, S) ==
  queue \in Seq(S) /\ deliveries \in [Workers -> S \cup {None}]

LEMMA QueuesHold ==
  ASSUME NEW S, HeldIn(purchase_requests, unacked, S)
  PROVE  /\ \A o \in S :
              Publish(o) => HeldIn(purchase_requests', unacked', S)
         /\ \A w \in Workers : DeliverTo(w) =>
              HeldIn(purchase_requests', unacked', S) /\ unacked'[w] \in S
         /\ \A w \in Workers : AckBy(w) \/ RequeueOf(w) =>
              HeldIn(purchase_requests', unacked', S)
         /\ BrokerStops => HeldIn(purchase_requests', unacked', S)
<1> USE DEF HeldIn
<1>1. ASSUME NEW o \in S, Publish(o)
      PROVE  HeldIn(purchase_requests', unacked', S)
  BY <1>1, AppendProperties DEF Publish
<1>2. ASSUME NEW w \in Workers, DeliverTo(w)
      PROVE  HeldIn(purchase_requests', unacked', S) /\ unacked'[w] \in S
  <2>1. /\ Head(purchase_requests) \in S
        /\ Tail(purchase_requests) \in Seq(S)
    BY <1>2, HeadTailProperties DEF DeliverTo
  <2> QED
    BY <1>2, <2>1 DEF DeliverTo
<1>3. ASSUME NEW w \in Workers, AckBy(w)
      PROVE  HeldIn(purchase_requests', unacked', S)
  BY <1>3 DEF AckBy
<1>4. ASSUME NEW w \in Workers, RequeueOf(w)
      PROVE  HeldIn(purchase_requests', unacked', S)
  <2>1. ASSUME unacked[w] # None
        PROVE  <<unacked[w]>> \o purchase_requests \in Seq(S)
    <3>1. <<unacked[w]>> \in Seq(S)
      BY <2>1
    <3> QED
      BY <3>1, ConcatProperties
  <2> QED
    BY <1>4, <2>1 DEF RequeueOf
<1>5. ASSUME BrokerStops PROVE HeldIn(purchase_requests', unacked', S)
  <2> DEFINE Holders == {w \in Workers : unacked[w] # None}
  <2>1. PICK s \in Orderings(Holders) :
          purchase_requests' =
            [i \in DOMAIN s |-> unacked[s[i]]] \o purchase_requests
    BY <1>5 DEF BrokerStops
  <2>2. Cardinality(Holders) \in Nat
    BY FS_Subset, FS_CardinalityType, IndirectAssumption
  <2>3. DOMAIN s = 1..Cardinality(Holders) /\ \A i \in DOMAIN s : s[i] \in Holders
    BY <2>1 DEF Orderings
  <2> DEFINE front == [i \in DOMAIN s |-> unacked[s[i]]]
  <2>4. front \in Seq(S)
    <3>1. \A i \in DOMAIN s : unacked[s[i]] \in S
      BY <2>3
    <3>2. front \in [1..Cardinality(Holders) -> S]
      BY <2>3, <3>1
    <3> HIDE DEF front, Holders
    <3> QED
      BY <2>2, <3>2, IsASeq
  <2>5. front \o purchase_requests \in Seq(S)
    <3> HIDE DEF front
    <3> QED
      BY <2>4, ConcatProperties
  <2> QED
    BY <1>5, <2>1, <2>5 DEF BrokerStops
<1> QED
  BY <1>1, <1>2, <1>3, <1>4, <1>5

(* The queues *)
LEMMA QueueTypes ==
  ASSUME BrokerTyped
  PROVE  /\ \A o \in Ops : Publish(o) => BrokerTyped'
         /\ \A w \in Workers : DeliverTo(w) =>
              BrokerTyped' /\ unacked'[w] \in Ops
         /\ \A w \in Workers : AckBy(w) \/ RequeueOf(w) => BrokerTyped'
         /\ \A x \in ReplyType : PublishReply(x) => BrokerTyped'
         /\ BindReplyQueue \/ DeleteReplyQueue => BrokerTyped'
         /\ TakeReply => BrokerTyped' /\ Head(reply_queue) \in ReplyType
         /\ BrokerStops \/ BrokerStarts => BrokerTyped'
<1> USE DEF BrokerTyped
<1>0. HeldIn(purchase_requests, unacked, Ops)
  BY DEF HeldIn
<1>1. ASSUME NEW o \in Ops, Publish(o) PROVE BrokerTyped'
  BY <1>0, <1>1, QueuesHold DEF Publish, HeldIn
<1>2. ASSUME NEW w \in Workers, DeliverTo(w)
      PROVE  BrokerTyped' /\ unacked'[w] \in Ops
  BY <1>0, <1>2, QueuesHold DEF DeliverTo, HeldIn
<1>3. ASSUME NEW w \in Workers, AckBy(w) PROVE BrokerTyped'
  BY <1>0, <1>3, QueuesHold DEF AckBy, HeldIn
<1>4. ASSUME NEW w \in Workers, RequeueOf(w) PROVE BrokerTyped'
  BY <1>0, <1>4, QueuesHold DEF RequeueOf, HeldIn
<1>5. ASSUME NEW x \in ReplyType, PublishReply(x) PROVE BrokerTyped'
  BY <1>5, AppendProperties DEF PublishReply
<1>6. ASSUME BindReplyQueue \/ DeleteReplyQueue PROVE BrokerTyped'
  BY <1>6, EmptySeq DEF BindReplyQueue, DeleteReplyQueue
<1>7. ASSUME TakeReply PROVE BrokerTyped' /\ Head(reply_queue) \in ReplyType
  <2>1. /\ Head(reply_queue) \in ReplyType
        /\ Tail(reply_queue) \in Seq(ReplyType)
    BY <1>7, HeadTailProperties DEF TakeReply
  <2> QED
    BY <1>7, <2>1 DEF TakeReply
<1>8. ASSUME BrokerStops PROVE BrokerTyped'
  BY <1>0, <1>8, QueuesHold, EmptySeq DEF BrokerStops, HeldIn
<1>9. ASSUME BrokerStarts PROVE BrokerTyped'
  BY <1>9 DEF BrokerStarts
<1> QED
  BY <1>1, <1>2, <1>3, <1>4, <1>5, <1>6, <1>7, <1>8, <1>9

LEMMA HandlerMoves ==
  ASSUME GatewayTyped, NEW h \in Handlers, hpc[h] # "idle"
  PROVE  /\ hop[h] \in Ops
         /\ cid(h) \in RequestIds
         /\ \A l \in HandlerPlaces :
              HGoto(h, l) /\ UNCHANGED hop => HandlersTyped'
         /\ \A code, result : Respond(h, code, result) => HandlersTyped'
<1>1. hop[h] \in Ops /\ cid(h) \in RequestIds
  BY GatewayAssumption DEF GatewayTyped, HandlersTyped, cid
<1>2. ASSUME NEW l \in HandlerPlaces, HGoto(h, l), UNCHANGED hop
      PROVE  HandlersTyped'
  BY <1>1, <1>2 DEF GatewayTyped, HandlersTyped, HGoto
<1>3. ASSUME NEW code, NEW result, Respond(h, code, result)
      PROVE  HandlersTyped'
  BY <1>3 DEF GatewayTyped, HandlersTyped, HandlerPlaces, Respond, HGoto
<1> QED
  BY <1>1, <1>2, <1>3

LEMMA HandlerTypes ==
  ASSUME Typed, NEW h \in Handlers, HandlerStep(h) \/ PublishRaisesLate(h)
  PROVE  BrokerTyped' /\ GatewayTyped'
<1>0. BrokerTyped /\ GatewayTyped /\ HandlersTyped /\ GlobalsTyped
  BY Parts DEF GatewayTyped
<1>1. UNCHANGED brokerVars => BrokerTyped'
  BY <1>0 DEF BrokerTyped, brokerVars
<1>2. hpc[h] # "idle"
  BY DEF HandlerStep, PublishRaisesLate, CheckReady, RegisterWaiter,
         LockPublisher, PublishSucceeds, PublishVanishes, PublishRaises,
         RebuildPublisher, RebuildFails, MarkNotReady, ForgetWaiter, Wake,
         Timeout, CollectResult
<1>3. /\ hop[h] \in Ops
      /\ cid(h) \in RequestIds
      /\ \A l \in HandlerPlaces :
           HGoto(h, l) /\ UNCHANGED hop => HandlersTyped'
      /\ \A code, result : Respond(h, code, result) => HandlersTyped'
  BY <1>0, <1>2, HandlerMoves
<1>4. HandlersTyped'
  BY <1>3 DEF HandlerStep, PublishRaisesLate, CheckReady, RegisterWaiter,
         LockPublisher, PublishSucceeds, PublishVanishes, PublishRaises,
         RebuildPublisher, RebuildFails, MarkNotReady, ForgetWaiter, Wake,
         Timeout, CollectResult, AfterPublication, HandlerPlaces
<1> USE <1>0 DEF GlobalsTyped
<1>5. CASE CheckReady(h)
  BY <1>1, <1>3, <1>4, <1>5 DEF CheckReady, Respond, GatewayTyped
<1>6. CASE RegisterWaiter(h)
  BY <1>1, <1>3, <1>4, <1>6 DEF RegisterWaiter, GatewayTyped
<1>7. CASE LockPublisher(h)
  BY <1>1, <1>4, <1>7 DEF LockPublisher, GatewayTyped
<1>8. CASE PublishSucceeds(h)
  <2>1. BrokerTyped'
    BY <1>3, <1>8, QueueTypes DEF PublishSucceeds
  <2> QED
    BY <1>4, <1>8, <2>1 DEF PublishSucceeds, AfterPublication, GatewayTyped
<1>9. CASE PublishRaisesLate(h)
  <2>1. BrokerTyped'
    BY <1>3, <1>9, QueueTypes DEF PublishRaisesLate
  <2> QED
    BY ZenonT(60), <1>4, <1>9, <2>1 DEF PublishRaisesLate, GatewayTyped
<1>10. CASE PublishVanishes(h)
  BY <1>1, <1>4, <1>10 DEF PublishVanishes, AfterPublication, GatewayTyped
<1>11. CASE PublishRaises(h)
  BY <1>1, <1>4, <1>11, GatewayAssumption DEF PublishRaises, GatewayTyped
<1>12. CASE RebuildPublisher(h)
  BY <1>1, <1>4, <1>12 DEF RebuildPublisher, GatewayTyped
<1>13. CASE RebuildFails(h)
  BY <1>1, <1>4, <1>13 DEF RebuildFails, GatewayTyped
<1>14. CASE MarkNotReady(h)
  BY ZenonT(60), <1>1, <1>4, <1>14 DEF MarkNotReady, GatewayTyped
<1>15. CASE Wake(h)
  BY <1>1, <1>4, <1>15 DEF Wake, GatewayTyped
<1>16. CASE Timeout(h)
  BY <1>1, <1>4, <1>16 DEF Timeout, GatewayTyped
<1>17. CASE ForgetWaiter(h)
  BY <1>1, <1>3, <1>4, <1>17 DEF ForgetWaiter, Respond, GatewayTyped
<1>18. CASE CollectResult(h)
  <2> DEFINE result == pending_responses[cid(h)]
  <2>1. result \in ReplyType \cup {None}
    BY <1>3
  <2>2. HttpCode(result) \in {200, 400, 409}
    BY DEF HttpCode
  <2>3. \/ responses' = responses \cup
                         {[op |-> hop[h], code |-> 504, result |-> None]}
        \/ responses' = responses \cup
                         {[op |-> hop[h], code |-> HttpCode(result),
                           result |-> result]}
    BY <1>18 DEF CollectResult, Respond
  <2> HIDE DEF result
  <2>4. responses' \subseteq [op : Ops, code : {200, 400, 409, 503, 504},
                              result : ReplyType \cup {None}]
    BY <1>3, <2>1, <2>2, <2>3
  <2> QED
    BY <1>1, <1>3, <1>4, <1>18, <2>4 DEF CollectResult, GatewayTyped
<1> QED
  BY <1>5, <1>6, <1>7, <1>8, <1>9, <1>10, <1>11, <1>12, <1>13, <1>14, <1>15,
     <1>16, <1>17, <1>18
     DEF HandlerStep

LEMMA GatewayTypes ==
  ASSUME Typed,
         \/ \E h \in Handlers, o \in Ops : HttpRequest(h, o)
         \/ ReplyThreadStep
         \/ PublisherDisconnected
         \/ ReplyThreadDisconnected
  PROVE  BrokerTyped' /\ GatewayTyped'
<1>0. BrokerTyped /\ GatewayTyped /\ HandlersTyped /\ GlobalsTyped
  BY Parts DEF GatewayTyped
<1>1. UNCHANGED brokerVars => BrokerTyped'
  BY <1>0 DEF BrokerTyped, brokerVars
<1>2. UNCHANGED <<hpc, hop>> => HandlersTyped'
  BY <1>0 DEF HandlersTyped
<1> USE <1>0 DEF GlobalsTyped
<1>3. ASSUME NEW h \in Handlers, NEW o \in Ops, HttpRequest(h, o)
      PROVE  BrokerTyped' /\ GatewayTyped'
  <2>1. HandlersTyped'
    BY <1>3 DEF HttpRequest, HGoto, HandlersTyped, HandlerPlaces
  <2> QED
    BY <1>1, <1>3, <2>1, GatewayAssumption DEF HttpRequest, GatewayTyped
<1>4. CASE StoreReply
  <2>1. BrokerTyped' /\ Head(reply_queue) \in ReplyType
    BY <1>4, QueueTypes DEF StoreReply
  <2>2. Head(reply_queue).request_id \in RequestIds
    BY <2>1 DEF ReplyType
  <2> QED
    BY <1>2, <1>4, <2>1, <2>2 DEF StoreReply, GatewayTyped
<1>5. CASE NotifyWaiter
  BY <1>1, <1>2, <1>5 DEF NotifyWaiter, GatewayTyped
<1>6. CASE ReplyThreadConnects
  <2>1. BrokerTyped'
    BY <1>6, QueueTypes DEF ReplyThreadConnects
  <2> QED
    BY <1>2, <1>6, <2>1 DEF ReplyThreadConnects, GatewayTyped
<1>7. CASE ReplyThreadRaises
  BY <1>1, <1>2, <1>7 DEF ReplyThreadRaises, GatewayTyped
<1>8. CASE PublisherDisconnected
  BY ZenonT(60), <1>1, <1>2, <1>8 DEF PublisherDisconnected, GatewayTyped
<1>9. CASE ReplyThreadDisconnected
  <2>1. BrokerTyped'
    BY <1>9, QueueTypes DEF ReplyThreadDisconnected
  <2> QED
    BY <1>2, <1>9, <2>1 DEF ReplyThreadDisconnected, gatewayVars, GatewayTyped
<1> QED
  BY <1>3, <1>4, <1>5, <1>6, <1>7, <1>8, <1>9 DEF ReplyThreadStep

(* What a worker does to the box office and to its result. *)
LEMMA WorkerTypes ==
  ASSUME Typed, NEW w \in Workers,
         \/ WorkerStep(w) \/ WorkerStarts(w)
         \/ WorkerDisconnected(w) \/ SigTerm(w) \/ SigKill(w)
         \/ RedisFails(w) \/ SaleUnanswered(w)
  PROVE  BrokerTyped' /\ WorkersTyped' /\ BoxOfficeTyped' /\ Recorded'
<1>0. BrokerTyped /\ WorkersTyped /\ BoxOfficeTyped /\ Recorded
  BY Parts
<1>1. UNCHANGED brokerVars => BrokerTyped'
  BY <1>0 DEF BrokerTyped, brokerVars
<1>2. UNCHANGED boxOffice => BoxOfficeTyped' /\ Recorded'
  BY <1>0, Unsold
<1>3. wpc[w] = "processing" => wmsg[w] \in Ops
  BY <1>0 DEF WorkersTyped
<1>4. ASSUME wpc[w] = "processing",
             NEW result, Answers(w, result),
             \/ result.status = "ERROR"
             \/ result \in PurchaseResult /\ result.reason # "connection_error"
      PROVE  BrokerTyped' /\ WorkersTyped'
  <2>1. Processed(wmsg[w], result) \in ReplyType
    BY <1>3, <1>4, ProcessedType
  <2> QED
    BY <1>0, <1>1, <1>3, <1>4, <2>1
       DEF Answers, WGoto, WorkersTyped, WorkerPlaces
<1>5. CASE WorkerBuys(w)
  <2>1. PICK result \in ResultsFor(wmsg[w]) :
          /\ wpc[w] = "processing"
          /\ ValidInput(wmsg[w])
          /\ \/ Sell(wmsg[w], result)
             \/ Repeat(wmsg[w], result) \/ Refuse(wmsg[w], result)
          /\ Answers(w, result)
    BY <1>5 DEF WorkerBuys
  <2>2. CASE Sell(wmsg[w], result)
    BY <1>3, <1>4, <2>1, <2>2, Sale
  <2>3. CASE Repeat(wmsg[w], result) \/ Refuse(wmsg[w], result)
    <3>1. UNCHANGED boxOffice
      BY <2>3 DEF Repeat, Refuse
    <3> QED
      BY <1>2, <1>3, <1>4, <2>1, <2>3, <3>1, NoSale
  <2> QED
    BY <2>1, <2>2, <2>3
<1>6. CASE RedisFails(w) \/ WorkerRefusesInput(w)
  <2>1. /\ wpc[w] = "processing"
        /\ UNCHANGED boxOffice
        /\ Answers(w, NoResult(wmsg[w]))
    BY <1>6 DEF RedisFails, WorkerRefusesInput, Fail
  <2>2. NoResult(wmsg[w]).status = "ERROR"
    BY DEF NoResult, rejected
  <2> QED
    BY <1>2, <1>4, <2>1, <2>2
<1>7. CASE SaleUnanswered(w)
  <2>1. PICK result \in ResultsFor(wmsg[w]) :
          /\ wpc[w] = "processing"
          /\ ValidInput(wmsg[w])
          /\ Sell(wmsg[w], result)
    BY <1>7 DEF SaleUnanswered
  <2>2. UNCHANGED <<brokerVars, workerVars>>
    BY <1>7 DEF SaleUnanswered
  <2>3. BoxOfficeTyped' /\ Recorded'
    BY <1>3, <2>1, Sale
  <2> QED
    BY <1>0, <1>1, <2>2, <2>3 DEF workerVars, WorkersTyped
<1>8. CASE OnMessage(w)
  <2>1. BrokerTyped' /\ unacked'[w] \in Ops
    BY <1>0, <1>8, QueueTypes DEF OnMessage
  <2> QED
    BY <1>0, <1>2, <1>8, <2>1 DEF OnMessage, WGoto, WorkersTyped, WorkerPlaces
<1>9. CASE WorkerReplies(w)
  <2>1. BrokerTyped'
    BY <1>0, <1>9, QueueTypes DEF WorkerReplies, WorkersTyped
  <2> QED
    BY <1>0, <1>2, <1>9, <2>1
       DEF WorkerReplies, WGoto, WorkersTyped, WorkerPlaces
<1>10. CASE WorkerAcks(w) \/ WorkerDisconnected(w) \/ SigKill(w)
  <2>1. BrokerTyped'
    BY <1>0, <1>10, QueueTypes DEF WorkerAcks, WorkerDisconnected, SigKill
  <2>2. WorkersTyped'
    <3>1. CASE WorkerAcks(w)
      BY <1>0, <3>1 DEF WorkerAcks, WGoto, WorkersTyped, WorkerPlaces
    <3>2. CASE WorkerDisconnected(w)
      BY <1>0, <3>2 DEF WorkerDisconnected, WorkersTyped
    <3>3. CASE SigKill(w)
      BY <1>0, <3>3 DEF SigKill, WGoto, WorkersTyped, WorkerPlaces
    <3> QED
      BY <1>10, <3>1, <3>2, <3>3
  <2>3. UNCHANGED boxOffice
    BY <1>10 DEF WorkerAcks, WorkerDisconnected, SigKill
  <2> QED
    BY <1>2, <2>1, <2>2, <2>3
<1>11. CASE \/ WorkerGivesUp(w) \/ ConsumingRaises(w) \/ OnMessageRaises(w)
  BY <1>0, <1>1, <1>2, <1>11
     DEF WorkerGivesUp, ConsumingRaises, OnMessageRaises, LoopRaises, WGoto,
         WorkersTyped, WorkerPlaces
<1>12. CASE \/ WorkerConnects(w) \/ WorkerWakes(w) \/ WorkerStarts(w)
            \/ SigTerm(w)
  BY <1>0, <1>1, <1>2, <1>12
     DEF WorkerConnects, WorkerWakes, WorkerStarts, SigTerm, WGoto,
         WorkersTyped, WorkerPlaces
<1> QED
  BY <1>5, <1>6, <1>7, <1>8, <1>9, <1>10, <1>11, <1>12 DEF WorkerStep

LEMMA TypedStep == Typed /\ [Next]_vars => Typed'
<1> SUFFICES ASSUME Typed, [Next]_vars PROVE Typed'
  OBVIOUS
<1>0. /\ BrokerTyped /\ GatewayTyped /\ WorkersTyped /\ BoxOfficeTyped
      /\ Recorded /\ faults \in 0..MaxFaults
  BY Parts
<1>1. UNCHANGED gatewayVars => GatewayTyped'
  BY <1>0 DEF gatewayVars, GatewayTyped, HandlersTyped, GlobalsTyped
<1>2. UNCHANGED workerVars => WorkersTyped'
  BY <1>0 DEF workerVars, WorkersTyped
<1>3. UNCHANGED boxOffice => BoxOfficeTyped' /\ Recorded'
  BY <1>0, Unsold
<1>p. ASSUME /\ BrokerTyped' /\ GatewayTyped' /\ WorkersTyped'
             /\ BoxOfficeTyped' /\ Recorded' /\ faults' \in 0..MaxFaults
      PROVE  Typed'
  BY <1>p
     DEF Typed, TypeOK, InHand, BrokerTyped, GatewayTyped, HandlersTyped,
         GlobalsTyped, WorkersTyped, BoxOfficeTyped
<1>4. ASSUME UNCHANGED <<workerVars, boxOffice>>,
             BrokerTyped' /\ GatewayTyped' /\ faults' \in 0..MaxFaults
      PROVE  Typed'
  BY <1>2, <1>3, <1>4, <1>p
<1>5. ASSUME UNCHANGED gatewayVars,
             /\ BrokerTyped' /\ WorkersTyped' /\ BoxOfficeTyped' /\ Recorded'
             /\ faults' \in 0..MaxFaults
      PROVE  Typed'
  BY <1>1, <1>5, <1>p
<1>6. ASSUME \/ \E h \in Handlers, o \in Ops : GatewayAlone(HttpRequest(h, o))
             \/ \E h \in Handlers : GatewayAlone(HandlerStep(h))
             \/ GatewayAlone(ReplyThreadStep)
      PROVE  Typed'
  BY <1>0, <1>4, <1>6, HandlerTypes, GatewayTypes DEF GatewayAlone
<1>7. ASSUME NEW w \in Workers,
             WorkerAlone(WorkerStep(w)) \/ WorkerAlone(WorkerStarts(w))
      PROVE  Typed'
  BY <1>0, <1>5, <1>7, WorkerTypes DEF WorkerAlone
<1>8. CASE Recovery
  BY <1>0, <1>1, <1>4, <1>8, QueueTypes DEF Recovery
<1>9. CASE Fault
  <2>1. faults' \in 0..MaxFaults
    BY <1>0, <1>9, IndirectAssumption DEF Fault
  <2>2. CASE Outage
    <3>1. BrokerTyped'
      BY <1>0, <2>2, QueueTypes DEF Outage
    <3>2. GatewayTyped'
      BY ZenonT(60), <1>0, <2>2 DEF Outage, GatewayTyped, HandlersTyped, GlobalsTyped
    <3>3. WorkersTyped'
      BY <1>0, <2>2 DEF Outage, WorkersTyped
    <3> QED
      BY <1>3, <1>p, <2>1, <2>2, <3>1, <3>2, <3>3 DEF Outage
  <2>3. ASSUME \/ PublisherDisconnected
               \/ ReplyThreadDisconnected
               \/ \E h \in Handlers : PublishRaisesLate(h),
               UNCHANGED <<workerVars, boxOffice>>
        PROVE  Typed'
    BY <1>4, <2>1, <2>3, HandlerTypes, GatewayTypes
  <2>4. ASSUME NEW w \in Workers,
               \/ WorkerDisconnected(w) \/ SigTerm(w) \/ SigKill(w)
               \/ RedisFails(w) \/ SaleUnanswered(w),
               UNCHANGED gatewayVars
        PROVE  Typed'
    BY <1>5, <2>1, <2>4, WorkerTypes
  <2> QED
    BY <1>9, <2>2, <2>3, <2>4 DEF Fault
<1>10. CASE Quiescent \/ UNCHANGED vars
  <2>1. /\ UNCHANGED <<brokerVars, gatewayVars, workerVars, boxOffice>>
        /\ UNCHANGED faults
    BY <1>10 DEF Quiescent, vars
  <2>2. BrokerTyped'
    BY <1>0, <2>1 DEF brokerVars, BrokerTyped
  <2> QED
    BY <1>0, <1>1, <1>4, <2>1, <2>2
<1> QED
  BY <1>6, <1>7, <1>8, <1>9, <1>10 DEF Next

(* The gateway, the queues and the workers keep their types, whatever      *)
(* fails: no exception travels as a result, and a purchase in hand is one. *)
THEOREM TypeCorrect == Spec => []TypeOK
<1>1. Typed => TypeOK
  BY DEF Typed
<1> QED
  BY <1>1, TypedInit, TypedStep, PTL DEF Spec

----------------------------------------------------------------------------
(* What is on its way to a client, or with it.                             *)

Told ==
  /\ \A w \in Workers : wresult[w] # None => ResultTrue(wresult[w])
  /\ \A k \in 1..Len(reply_queue) :
       reply_queue[k] # None => ResultTrue(reply_queue[k])
  /\ \A r \in RequestIds : pending_responses[r] # None =>
       /\ ResultTrue(pending_responses[r])
       /\ pending_responses[r].request_id = r
  /\ \A x \in responses : x.result # None =>
       /\ ResultTrue(x.result)
       /\ x.result.request_id = x.op.request_id

LEMMA ToldIsTrue == Typed /\ Told => ResultsTrue
<1> SUFFICES ASSUME Typed, Told PROVE ResultsTrue
  OBVIOUS
<1>1. DOMAIN reply_queue = 1..Len(reply_queue)
  BY LenProperties DEF Typed, TypeOK
<1>2. \A result \in Results \ {None} : ResultTrue(result)
  BY <1>1 DEF Results, Told
<1>3. ASSUME NEW result, ResultTrue(result)
      PROVE  /\ result.status = "ACCEPTED" =>
                  LET sale == ledger[result.request_id] IN
                  /\ sale # None
                  /\ sale.client_id = result.client_id
                  /\ sale.ticket_type = result.ticket_type
                  /\ Numbered(sale) => owner[sale.seat_id] = result.client_id
             /\ result.reason = "sold_out" => stock = 0
             /\ result.reason = "seat_already_sold" =>
                  owner[result.seat_id] # None
  BY <1>3 DEF ResultTrue, TrueOf, Typed, Recorded
<1> QED
  BY <1>2, <1>3 DEF ResultsTrue, Told

LEMMA ToldInit == Init => Told
BY EmptySeq DEF Init, BrokerInit, GatewayInit, WorkerInit, Told

(* What a worker tells comes from the box office. *)
LEMMA WorkerTells ==
  ASSUME Typed, Told, UNCHANGED gatewayVars, NEW w \in Workers,
         \/ WorkerStep(w) \/ WorkerStarts(w)
         \/ WorkerDisconnected(w) \/ SigTerm(w) \/ SigKill(w)
         \/ RedisFails(w) \/ SaleUnanswered(w)
  PROVE  Told'
<1>0. /\ wmsg \in [Workers -> Ops \cup {None}]
      /\ wresult \in [Workers -> ReplyType \cup {None}]
      /\ reply_queue \in Seq(ReplyType)
      /\ wpc[w] = "processing" => wmsg[w] \in Ops
      /\ wpc[w] = "replying" => wresult[w] \in ReplyType
  BY DEF Typed, TypeOK, InHand
<1>1. UNCHANGED <<pending_responses, responses>>
  BY DEF gatewayVars
<1>2. ASSUME \A x : ResultTrue(x) => TrueNext(x),
             UNCHANGED reply_queue,
             \A v \in Workers :
               \/ wresult'[v] \in {None, wresult[v]}
               \/ TrueNext(wresult'[v])
      PROVE  Told'
  <2>1. \A v \in Workers : wresult'[v] # None => TrueNext(wresult'[v])
    BY <1>2 DEF Told, ResultTrue, TrueNext
  <2>2. \A k \in 1..Len(reply_queue') :
          reply_queue'[k] # None => TrueNext(reply_queue'[k])
    BY <1>2 DEF Told, ResultTrue, TrueNext
  <2>3. \A r \in RequestIds : pending_responses'[r] # None =>
          /\ TrueNext(pending_responses'[r])
          /\ pending_responses'[r].request_id = r
    BY <1>1, <1>2 DEF Told, ResultTrue, TrueNext
  <2>4. \A x \in responses' : x.result # None =>
          /\ TrueNext(x.result)
          /\ x.result.request_id = x.op.request_id
    BY <1>1, <1>2 DEF Told, ResultTrue, TrueNext
  <2> QED
    BY <2>1, <2>2, <2>3, <2>4 DEF Told, ResultTrue, TrueNext
<1>3. UNCHANGED boxOffice => \A x : ResultTrue(x) => TrueNext(x)
  BY Unsold
<1>4. ASSUME NEW x, wresult' = [wresult EXCEPT ![w] = x], TrueNext(x)
      PROVE  \A v \in Workers : \/ wresult'[v] \in {None, wresult[v]}
                               \/ TrueNext(wresult'[v])
  <2>1. /\ wresult'[w] = x
        /\ \A v \in Workers : v # w => wresult'[v] = wresult[v]
    BY <1>0, <1>4
  <2>2. TrueNext(wresult'[w])
    BY <1>4, <2>1
  <2> QED
    BY <2>1, <2>2
<1>5. CASE WorkerBuys(w)
  <2>1. PICK result \in ResultsFor(wmsg[w]) :
          /\ wpc[w] = "processing"
          /\ ValidInput(wmsg[w])
          /\ \/ Sell(wmsg[w], result)
             \/ Repeat(wmsg[w], result) \/ Refuse(wmsg[w], result)
          /\ Answers(w, result)
    BY <1>5 DEF WorkerBuys
  <2>2. /\ \A x : ResultTrue(x) => TrueNext(x)
        /\ result.status # "ERROR"
        /\ TrueNext(result)
    <3>1. CASE Sell(wmsg[w], result)
      BY <1>0, <2>1, <3>1, Sale
    <3>2. CASE Repeat(wmsg[w], result) \/ Refuse(wmsg[w], result)
      <4>1. UNCHANGED boxOffice
        BY <3>2 DEF Repeat, Refuse
      <4> QED
        BY <1>0, <1>3, <2>1, <3>2, <4>1, NoSale
    <3> QED
      BY <2>1, <3>1, <3>2
  <2>3. /\ wresult' = [wresult EXCEPT ![w] = result]
        /\ UNCHANGED reply_queue
    BY <2>1, <2>2 DEF Answers, Processed, brokerVars
  <2>4. \A v \in Workers : \/ wresult'[v] \in {None, wresult[v]}
                           \/ TrueNext(wresult'[v])
    BY <1>4, <2>2, <2>3
  <2> QED
    BY <1>2, <2>2, <2>3, <2>4
<1>6. CASE RedisFails(w) \/ WorkerRefusesInput(w)
  <2>1. /\ wpc[w] = "processing"
        /\ UNCHANGED boxOffice
        /\ Answers(w, NoResult(wmsg[w]))
    BY <1>6 DEF RedisFails, WorkerRefusesInput, Fail
  <2>2. /\ wresult' = [wresult EXCEPT ![w] = InternalError(wmsg[w])]
        /\ UNCHANGED reply_queue
    BY <2>1 DEF Answers, Processed, NoResult, rejected, brokerVars
  <2> DEFINE error == InternalError(wmsg[w])
  <2>3. error.status = "REJECTED" /\ error.reason = "internal_error"
    BY DEF InternalError, NoResult, rejected
  <2> HIDE DEF error
  <2>4. TrueNext(error)
    BY <2>3 DEF TrueNext, TrueOf
  <2>5. wresult' = [wresult EXCEPT ![w] = error]
    BY <2>2 DEF error
  <2>6. \A v \in Workers : \/ wresult'[v] \in {None, wresult[v]}
                           \/ TrueNext(wresult'[v])
    BY <1>4, <2>4, <2>5
  <2> QED
    BY <1>2, <1>3, <2>1, <2>2, <2>6
<1>7. CASE SaleUnanswered(w)
  <2>1. \A x : ResultTrue(x) => TrueNext(x)
    BY <1>0, <1>7, Sale DEF SaleUnanswered
  <2> QED
    BY <1>2, <1>7, <2>1 DEF SaleUnanswered, brokerVars, workerVars
<1>8. CASE WorkerReplies(w)
  <2>1. /\ wpc[w] = "replying"
        /\ UNCHANGED <<boxOffice, wresult>>
        /\ \/ UNCHANGED reply_queue
           \/ reply_queue' = Append(reply_queue, wresult[w])
    BY <1>8 DEF WorkerReplies, PublishReply
  <2>2. CASE reply_queue' = Append(reply_queue, wresult[w])
    <3>1. /\ Len(reply_queue') = Len(reply_queue) + 1
          /\ \A k \in 1..Len(reply_queue) : reply_queue'[k] = reply_queue[k]
          /\ reply_queue'[Len(reply_queue) + 1] = wresult[w]
          /\ Len(reply_queue) \in Nat
      BY <1>0, <2>1, <2>2, AppendProperties, LenProperties
    <3>2. \A k \in 1..Len(reply_queue') :
            k \in 1..Len(reply_queue) \/ k = Len(reply_queue) + 1
      BY <3>1
    <3> QED
      BY <1>1, <1>3, <2>1, <3>1, <3>2 DEF Told, ResultTrue, TrueNext
  <2>3. CASE UNCHANGED reply_queue
    BY <1>2, <1>3, <2>1, <2>3
  <2> QED
    BY <2>1, <2>2, <2>3
<1>9. CASE \/ OnMessage(w) \/ WorkerAcks(w) \/ WorkerDisconnected(w)
           \/ SigKill(w) \/ WorkerGivesUp(w) \/ ConsumingRaises(w)
           \/ OnMessageRaises(w) \/ WorkerConnects(w) \/ WorkerWakes(w)
           \/ WorkerStarts(w) \/ SigTerm(w)
  <2>1. UNCHANGED <<boxOffice, reply_queue>>
    BY <1>9 DEF OnMessage, WorkerAcks, WorkerDisconnected, SigKill,
         WorkerGivesUp, ConsumingRaises, OnMessageRaises, WorkerConnects,
         WorkerWakes, WorkerStarts, SigTerm, DeliverTo, AckBy, RequeueOf,
         brokerVars
  <2>2. wresult' \in {wresult, [wresult EXCEPT ![w] = None]}
    BY <1>9 DEF OnMessage, WorkerAcks, WorkerDisconnected, SigKill,
         WorkerGivesUp, ConsumingRaises, OnMessageRaises, WorkerConnects,
         WorkerWakes, WorkerStarts, SigTerm, LoopRaises
  <2>3. \A v \in Workers : wresult'[v] \in {None, wresult[v]}
    BY <1>0, <2>2
  <2> QED
    BY <1>2, <1>3, <2>1, <2>3
<1> QED
  BY <1>5, <1>6, <1>7, <1>8, <1>9 DEF WorkerStep

(* The gateway hands on what it receives, each result to its own request.  *)
LEMMA GatewayTells ==
  ASSUME Typed, Told, UNCHANGED <<wresult, boxOffice>>,
         \/ \E h \in Handlers, o \in Ops : HttpRequest(h, o)
         \/ \E h \in Handlers : HandlerStep(h) \/ PublishRaisesLate(h)
         \/ ReplyThreadStep
         \/ PublisherDisconnected
         \/ ReplyThreadDisconnected
  PROVE  Told'
<1>0. /\ pending_responses \in [RequestIds -> ReplyType \cup {None}]
      /\ reply_queue \in Seq(ReplyType)
      /\ GatewayTyped
  BY Parts DEF Typed, TypeOK
<1>1. \A x : ResultTrue(x) => TrueNext(x)
  BY Unsold
<1>2. ASSUME UNCHANGED <<reply_queue, pending_responses>>,
             \A x \in responses' : x \in responses \/ x.result = None
      PROVE  Told'
  BY <1>1, <1>2 DEF Told, ResultTrue, TrueNext
<1>3. ASSUME NEW h \in Handlers, HandlerStep(h) \/ PublishRaisesLate(h)
      PROVE  Told'
  <2>1. CASE CheckReady(h) \/ ForgetWaiter(h)
    BY <1>2, <2>1 DEF CheckReady, ForgetWaiter, Respond, brokerVars
  <2>2. CASE CollectResult(h)
    <3>1. /\ cid(h) \in RequestIds
          /\ pending_responses' = [pending_responses EXCEPT ![cid(h)] = None]
          /\ UNCHANGED reply_queue
      BY <1>0, <2>2, HandlerMoves DEF CollectResult, brokerVars
    <3>2. ASSUME NEW x \in responses', x \notin responses, x.result # None
          PROVE  x.result = pending_responses[cid(h)] /\ x.op = hop[h]
      BY <2>2, <3>2 DEF CollectResult, Respond
    <3>3. \A x \in responses' : x.result # None =>
            /\ TrueNext(x.result)
            /\ x.result.request_id = x.op.request_id
      BY <1>1, <3>1, <3>2 DEF Told, ResultTrue, TrueNext, cid
    <3>4. \A r \in RequestIds :
            pending_responses'[r] \in {None, pending_responses[r]}
      BY <1>0, <3>1
    <3> QED
      BY <1>1, <3>1, <3>3, <3>4 DEF Told, ResultTrue, TrueNext
  <2>3. CASE \/ RegisterWaiter(h) \/ LockPublisher(h) \/ PublishSucceeds(h)
             \/ PublishVanishes(h) \/ PublishRaises(h) \/ RebuildPublisher(h)
             \/ RebuildFails(h) \/ MarkNotReady(h) \/ Wake(h) \/ Timeout(h)
             \/ PublishRaisesLate(h)
    BY <1>2, <2>3
       DEF RegisterWaiter, LockPublisher, PublishSucceeds, PublishVanishes,
           PublishRaises, RebuildPublisher, RebuildFails, MarkNotReady, Wake,
           Timeout, PublishRaisesLate, Publish, brokerVars
  <2> QED
    BY <1>3, <2>1, <2>2, <2>3 DEF HandlerStep
<1>4. CASE StoreReply
  <2>1. /\ reply_queue # <<>>
        /\ reply_queue' = Tail(reply_queue)
        /\ pending_responses' =
             [pending_responses EXCEPT ![Head(reply_queue).request_id] =
                Head(reply_queue)]
        /\ UNCHANGED responses
    BY <1>4 DEF StoreReply, TakeReply
  <2>2. /\ Len(reply_queue) \in Nat \ {0}
        /\ Head(reply_queue) = reply_queue[1]
        /\ Head(reply_queue) \in ReplyType
        /\ Len(reply_queue') = Len(reply_queue) - 1
        /\ \A k \in 1..Len(reply_queue') : reply_queue'[k] = reply_queue[k + 1]
    <3>1. /\ Head(reply_queue) \in ReplyType
          /\ Tail(reply_queue) \in Seq(ReplyType)
          /\ Len(Tail(reply_queue)) = Len(reply_queue) - 1
          /\ \A k \in 1..Len(Tail(reply_queue)) :
               Tail(reply_queue)[k] = reply_queue[k + 1]
      BY <1>0, <2>1, HeadTailProperties
    <3>2. Head(reply_queue) = reply_queue[1]
      BY <1>0, <2>1
    <3>3. Len(reply_queue) \in Nat \ {0}
      BY <1>0, <2>1, EmptySeq, LenProperties
    <3> QED
      BY <2>1, <3>1, <3>2, <3>3
  <2>3. Head(reply_queue) # None => TrueNext(Head(reply_queue))
    BY <1>1, <2>2 DEF Told, ResultTrue, TrueNext
  <2>4. \A k \in 1..Len(reply_queue') :
          reply_queue'[k] # None => TrueNext(reply_queue'[k])
    BY <1>1, <2>2 DEF Told, ResultTrue, TrueNext
  <2>5. \A r \in RequestIds : pending_responses'[r] # None =>
          /\ TrueNext(pending_responses'[r])
          /\ pending_responses'[r].request_id = r
    BY <1>0, <1>1, <2>1, <2>3 DEF Told, ResultTrue, TrueNext
  <2> QED
    BY <1>1, <2>1, <2>4, <2>5 DEF Told, ResultTrue, TrueNext
<1>5. CASE ReplyThreadDisconnected
  <2>1. reply_queue' = <<>> /\ UNCHANGED <<pending_responses, responses>>
    BY <1>5 DEF ReplyThreadDisconnected, DeleteReplyQueue, gatewayVars
  <2> QED
    BY <1>1, <2>1, EmptySeq DEF Told, ResultTrue, TrueNext
<1>6. CASE \/ NotifyWaiter \/ ReplyThreadConnects \/ ReplyThreadRaises
           \/ PublisherDisconnected
  BY <1>2, <1>6
     DEF NotifyWaiter, ReplyThreadConnects, BindReplyQueue, ReplyThreadRaises,
         PublisherDisconnected, brokerVars
<1>7. ASSUME NEW h \in Handlers, NEW o \in Ops, HttpRequest(h, o)
      PROVE  Told'
  BY <1>2, <1>7 DEF HttpRequest, brokerVars
<1> QED
  BY <1>3, <1>4, <1>5, <1>6, <1>7 DEF ReplyThreadStep

LEMMA ToldStep == Typed /\ Told /\ [Next]_vars => Told'
<1> SUFFICES ASSUME Typed, Told, [Next]_vars PROVE Told'
  OBVIOUS
<1>1. ASSUME UNCHANGED <<boxOffice, wresult, pending_responses, responses>>,
             reply_queue' = <<>> \/ UNCHANGED reply_queue
      PROVE  Told'
  BY <1>1, Unsold, EmptySeq DEF Told, ResultTrue, TrueNext
<1>2. ASSUME \/ \E h \in Handlers, o \in Ops : GatewayAlone(HttpRequest(h, o))
             \/ \E h \in Handlers : GatewayAlone(HandlerStep(h))
             \/ GatewayAlone(ReplyThreadStep)
      PROVE  Told'
  BY <1>2, GatewayTells DEF GatewayAlone, workerVars
<1>3. ASSUME NEW w \in Workers,
             WorkerAlone(WorkerStep(w)) \/ WorkerAlone(WorkerStarts(w))
      PROVE  Told'
  BY <1>3, WorkerTells DEF WorkerAlone
<1>4. CASE Recovery
  BY <1>1, <1>4 DEF Recovery, BrokerStarts, gatewayVars, workerVars
<1>5. CASE Fault
  <2>1. CASE Outage
    BY <1>1, <2>1 DEF Outage, BrokerStops
  <2>2. ASSUME \/ PublisherDisconnected
               \/ ReplyThreadDisconnected
               \/ \E h \in Handlers : PublishRaisesLate(h),
               UNCHANGED <<workerVars, boxOffice>>
        PROVE  Told'
    BY <2>2, GatewayTells DEF workerVars
  <2>3. ASSUME NEW w \in Workers,
               \/ WorkerDisconnected(w) \/ SigTerm(w) \/ SigKill(w)
               \/ RedisFails(w) \/ SaleUnanswered(w),
               UNCHANGED gatewayVars
        PROVE  Told'
    BY <2>3, WorkerTells
  <2> QED
    BY <1>5, <2>1, <2>2, <2>3 DEF Fault
<1>6. CASE Quiescent \/ UNCHANGED vars
  BY <1>1, <1>6 DEF Quiescent, vars, brokerVars, gatewayVars, workerVars
<1> QED
  BY <1>2, <1>3, <1>4, <1>5, <1>6 DEF Next

(* Redelivered, published twice, late or left in a dictionary: a result    *)
(* that is on its way to a client, or has reached one, is true of the      *)
(* sales on record, and it is the result of the client's own request.      *)
THEOREM NobodyIsToldLies == Spec => []ResultsTrue
<1>1. Spec => []Typed
  BY TypedInit, TypedStep, PTL DEF Spec
<1>2. Spec => []Told
  BY <1>1, ToldInit, ToldStep, PTL DEF Spec
<1> QED
  BY <1>1, <1>2, ToldIsTrue, PTL

----------------------------------------------------------------------------
(* How often a purchase is in the broker's hands.                          *)

(* Where o is in a queue, and the workers whose delivery it is. *)
Occurrences(q, o) == {i \in 1..Len(q) : q[i] = o}
Holding(u, o)     == {w \in Workers : u[w] = o}

(* One, if e is the purchase that is counted. *)
Is(e, o) == IF e = o THEN 1 ELSE 0

LEMMA OneToOne ==
  ASSUME NEW S, IsFiniteSet(S), NEW T, NEW f \in [S -> T],
         \A x, y \in S : f[x] = f[y] => x = y,
         \A z \in T : \E x \in S : f[x] = z
  PROVE  IsFiniteSet(T) /\ Cardinality(T) = Cardinality(S)
<1>1. f \in Bijection(S, T)
  BY DEF Bijection, Injection, Surjection, IsInjective
<1> QED
  BY <1>1, FS_Bijection DEF ExistsBijection

LEMMA FiniteOccurrences ==
  ASSUME NEW S, NEW q \in Seq(S), NEW o
  PROVE  /\ IsFiniteSet(Occurrences(q, o))
         /\ Cardinality(Occurrences(q, o)) \in Nat
<1>1. Len(q) \in Nat
  BY LenProperties
<1>2. IsFiniteSet(1..Len(q))
  BY <1>1, FS_Interval
<1>3. Occurrences(q, o) \subseteq 1..Len(q)
  BY DEF Occurrences
<1> QED
  BY <1>2, <1>3, FS_Subset, FS_CardinalityType

LEMMA OccurrencesOfConcat ==
  ASSUME NEW S, NEW p \in Seq(S), NEW q \in Seq(S), NEW o
  PROVE  Cardinality(Occurrences(p \o q, o))
           = Cardinality(Occurrences(p, o)) + Cardinality(Occurrences(q, o))
<1> DEFINE P       == Occurrences(p, o)
           Q       == Occurrences(q, o)
           shifted == {i + Len(p) : i \in Q}
           f       == [i \in Q |-> i + Len(p)]
<1>1. /\ Len(p) \in Nat /\ Len(q) \in Nat
      /\ Len(p \o q) = Len(p) + Len(q)
      /\ \A i \in 1..Len(p) + Len(q) :
           (p \o q)[i] = IF i <= Len(p) THEN p[i] ELSE q[i - Len(p)]
  BY ConcatProperties, LenProperties
<1>2. IsFiniteSet(P) /\ IsFiniteSet(Q)
  BY FiniteOccurrences
<1>3. IsFiniteSet(shifted) /\ Cardinality(shifted) = Cardinality(Q)
  <2>1. Q \subseteq Nat
    BY DEF Occurrences
  <2>2. \A x, y \in Q : f[x] = f[y] => x = y
    BY <1>1, <2>1
  <2>3. f \in [Q -> shifted] /\ \A z \in shifted : \E x \in Q : f[x] = z
    OBVIOUS
  <2> HIDE DEF Q, shifted, f
  <2> QED
    BY <1>2, <2>2, <2>3, OneToOne
<1>4. Occurrences(p \o q, o) = P \cup shifted
  <2>1. ASSUME NEW i \in Occurrences(p \o q, o), i \notin P
        PROVE  i \in shifted
    <3>1. i \in 1..Len(p) + Len(q) /\ (p \o q)[i] = o
      BY <1>1, <2>1 DEF Occurrences
    <3>2. ~(i <= Len(p))
      BY <1>1, <2>1, <3>1 DEF Occurrences
    <3>3. i - Len(p) \in Q
      BY <1>1, <3>1, <3>2 DEF Occurrences
    <3>4. i = (i - Len(p)) + Len(p)
      BY <1>1, <3>1
    <3> QED
      BY <3>3, <3>4
  <2>2. ASSUME NEW i \in P PROVE i \in Occurrences(p \o q, o)
    BY <1>1, <2>2 DEF Occurrences
  <2>3. ASSUME NEW i \in Q PROVE i + Len(p) \in Occurrences(p \o q, o)
    BY <1>1, <2>3 DEF Occurrences
  <2> HIDE DEF P, Q
  <2> QED
    BY <2>1, <2>2, <2>3
<1>5. P \cap shifted = {}
  BY <1>1 DEF Occurrences
<1> HIDE DEF P, Q, shifted
<1>6. /\ Cardinality(P) \in Nat /\ Cardinality(Q) \in Nat
      /\ Cardinality(P \cap shifted) = 0
  BY <1>2, <1>5, FS_CardinalityType, FS_EmptySet
<1>7. Cardinality(P \cup shifted) =
        Cardinality(P) + Cardinality(shifted) - Cardinality(P \cap shifted)
  BY <1>2, <1>3, FS_Union
<1>8. Cardinality(P \cup shifted) = Cardinality(P) + Cardinality(Q)
  BY <1>3, <1>6, <1>7
<1> QED
  BY <1>4, <1>8 DEF P, Q

LEMMA OccurrencesOfOne ==
  ASSUME NEW e, NEW o
  PROVE  Cardinality(Occurrences(<<e>>, o)) = Is(e, o)
<1>1. Occurrences(<<e>>, o) = IF e = o THEN {1} ELSE {}
  BY DEF Occurrences
<1> QED
  BY <1>1, FS_Singleton, FS_EmptySet DEF Is

LEMMA FiniteHolding ==
  ASSUME NEW u, NEW o
  PROVE  /\ IsFiniteSet(Holding(u, o))
         /\ Cardinality(Holding(u, o)) \in Nat
BY IndirectAssumption, FS_Subset, FS_CardinalityType DEF Holding

LEMMA HoldingLess ==
  ASSUME NEW u, NEW v, NEW w \in Workers, NEW o \in Ops,
         \A x \in Workers : v[x] = IF x = w THEN None ELSE u[x]
  PROVE  Cardinality(Holding(v, o)) = Cardinality(Holding(u, o)) - Is(u[w], o)
<1> DEFINE before == Holding(u, o)
           after  == Holding(v, o)
           e      == u[w]
<1>1. IsFiniteSet(before) /\ Cardinality(before) \in Nat
  BY FiniteHolding
<1>2. /\ w \in before <=> e = o
      /\ after = before \ {w}
  BY DomainAssumption DEF Holding
<1> HIDE DEF before, after, e
<1>3. Cardinality(before \ {w})
        = IF w \in before THEN Cardinality(before) - 1 ELSE Cardinality(before)
  BY <1>1, FS_RemoveElement
<1>4. Cardinality(after) = Cardinality(before) - Is(e, o)
  BY <1>1, <1>2, <1>3 DEF Is
<1> QED
  BY <1>4 DEF before, after, e

LEMMA CopiesAre ==
  ASSUME BrokerTyped, NEW o
  PROVE  Copies(o) = Cardinality(Occurrences(purchase_requests, o))
                       + Cardinality(Holding(unacked, o))
<1>1. DOMAIN purchase_requests = 1..Len(purchase_requests)
  BY LenProperties DEF BrokerTyped
<1> QED
  BY <1>1 DEF Copies, Occurrences, Holding


(* What the broker does with the copies of a purchase: only an             *)
(* acknowledgement takes one away.                                         *)
LEMMA CopiesKept ==
  ASSUME BrokerTyped, BrokerTyped', NEW o \in Ops
  PROVE  /\ Copies(o) \in Nat /\ Copies(o)' \in Nat
         /\ UNCHANGED <<purchase_requests, unacked>> => Copies(o)' = Copies(o)
         /\ \A e \in Ops : Publish(e) => Copies(o)' >= Copies(o)
         /\ \A w \in Workers :
              /\ DeliverTo(w) => Copies(o)' = Copies(o)
              /\ RequeueOf(w) => Copies(o)' = Copies(o)
              /\ AckBy(w) => Copies(o)' = Copies(o) - Is(unacked[w], o)
         /\ BrokerStops => Copies(o)' = Copies(o)
<1>0. /\ purchase_requests \in Seq(Ops) /\ purchase_requests' \in Seq(Ops)
      /\ unacked \in [Workers -> Ops \cup {None}]
      /\ None \notin Ops
  BY DomainAssumption DEF BrokerTyped
<1> DEFINE queued  == Cardinality(Occurrences(purchase_requests, o))
           queuedN == Cardinality(Occurrences(purchase_requests', o))
           held    == Cardinality(Holding(unacked, o))
           heldN   == Cardinality(Holding(unacked', o))
<1>1. /\ Copies(o) = queued + held
      /\ Copies(o)' = queuedN + heldN
  <2>1. Copies(o) = queued + held
    BY CopiesAre
  <2>2. DOMAIN purchase_requests' = 1..Len(purchase_requests')
    BY <1>0, LenProperties
  <2> QED
    BY <2>1, <2>2 DEF Copies, Occurrences, Holding
<1>2. queued \in Nat /\ queuedN \in Nat /\ held \in Nat /\ heldN \in Nat
  BY <1>0, FiniteOccurrences, FiniteHolding
<1>3. \A e : Is(e, o) \in {0, 1} /\ (e \notin Ops => Is(e, o) = 0)
  BY DEF Is
<1> HIDE DEF queued, queuedN, held, heldN
<1>4. ASSUME NEW e \in Ops, Publish(e)
      PROVE  Copies(o)' >= Copies(o)
  <2>1. <<e>> \in Seq(Ops)
    OBVIOUS
  <2>2. purchase_requests' = purchase_requests \o <<e>> /\ unacked' = unacked
    BY <1>0, <1>4 DEF Publish
  <2>3. queuedN = queued + Is(e, o)
    <3>1. Cardinality(Occurrences(purchase_requests \o <<e>>, o))
            = Cardinality(Occurrences(purchase_requests, o))
                + Cardinality(Occurrences(<<e>>, o))
      BY <1>0, <2>1, OccurrencesOfConcat
    <3> QED
      BY <2>2, <3>1, OccurrencesOfOne DEF queued, queuedN
  <2>4. heldN = held
    BY <2>2 DEF held, heldN
  <2> QED
    BY <1>1, <1>2, <1>3, <2>3, <2>4
<1>5. ASSUME NEW w \in Workers, DeliverTo(w)
      PROVE  Copies(o)' = Copies(o)
  <2> DEFINE e == Head(purchase_requests)
  <2>1. /\ e \in Ops /\ <<e>> \in Seq(Ops)
        /\ purchase_requests = <<e>> \o purchase_requests'
    BY <1>0, <1>5, HeadTailProperties DEF DeliverTo
  <2>2. unacked' = [unacked EXCEPT ![w] = e] /\ unacked[w] = None
    BY <1>5 DEF DeliverTo
  <2> HIDE DEF e
  <2>3. queued = Is(e, o) + queuedN
    <3>1. Cardinality(Occurrences(<<e>> \o purchase_requests', o))
            = Cardinality(Occurrences(<<e>>, o))
                + Cardinality(Occurrences(purchase_requests', o))
      BY <1>0, <2>1, OccurrencesOfConcat
    <3> QED
      BY <2>1, <3>1, OccurrencesOfOne DEF queued, queuedN
  <2>4. heldN = held + Is(e, o)
    <3> DEFINE before == Holding(unacked, o)
               after  == Holding(unacked', o)
    <3>1. IsFiniteSet(before)
      BY FiniteHolding
    <3>2. /\ w \notin before
          /\ after = IF e = o THEN before \cup {w} ELSE before
      BY <1>0, <2>2 DEF Holding
    <3> HIDE DEF before, after
    <3>3. Cardinality(before \cup {w}) = Cardinality(before) + 1
      BY <3>1, <3>2, FS_AddElement
    <3>4. held = Cardinality(before) /\ heldN = Cardinality(after)
      BY DEF held, heldN, before, after
    <3> QED
      BY <1>2, <3>2, <3>3, <3>4 DEF Is
  <2>5. Is(e, o) \in {0, 1}
    BY <1>3
  <2> QED
    BY <1>1, <1>2, <2>3, <2>4, <2>5
<1>6. ASSUME NEW w \in Workers, unacked' = [unacked EXCEPT ![w] = None]
      PROVE  heldN = held - Is(unacked[w], o)
  <2>1. \A x \in Workers : unacked'[x] = IF x = w THEN None ELSE unacked[x]
    BY <1>0, <1>6
  <2> QED
    BY <2>1, HoldingLess DEF held, heldN
<1>7. ASSUME NEW w \in Workers, AckBy(w)
      PROVE  Copies(o)' = Copies(o) - Is(unacked[w], o)
  <2> DEFINE e == unacked[w]
  <2>1. heldN = held - Is(e, o)
    BY <1>6, <1>7 DEF AckBy
  <2>2. queuedN = queued
    BY <1>7 DEF AckBy, queued, queuedN
  <2>3. Is(e, o) \in {0, 1}
    BY <1>3
  <2> HIDE DEF e
  <2>4. Copies(o)' = Copies(o) - Is(e, o)
    BY <1>1, <1>2, <2>1, <2>2, <2>3
  <2> QED
    BY <2>4 DEF e
<1>8. ASSUME NEW w \in Workers, RequeueOf(w)
      PROVE  Copies(o)' = Copies(o)
  <2> DEFINE e == unacked[w]
  <2>1. heldN = held - Is(e, o)
    BY <1>6, <1>8 DEF RequeueOf
  <2>2. /\ e = None => purchase_requests' = purchase_requests
        /\ e # None => purchase_requests' = <<e>> \o purchase_requests
    BY <1>8 DEF RequeueOf
  <2>3. e # None => <<e>> \in Seq(Ops)
    BY <1>0
  <2>4. Is(e, o) \in {0, 1} /\ (e = None => Is(e, o) = 0)
    BY <1>0, <1>3
  <2> HIDE DEF e
  <2>5. CASE e = None
    <3>1. queuedN = queued
      BY <2>2, <2>5 DEF queued, queuedN
    <3> QED
      BY <1>1, <1>2, <2>1, <2>4, <2>5, <3>1
  <2>6. CASE e # None
    <3>1. Cardinality(Occurrences(<<e>> \o purchase_requests, o))
            = Cardinality(Occurrences(<<e>>, o))
                + Cardinality(Occurrences(purchase_requests, o))
      BY <1>0, <2>6, <2>3, OccurrencesOfConcat
    <3>2. queuedN = Is(e, o) + queued
      BY <2>6, <2>2, <3>1, OccurrencesOfOne DEF queued, queuedN
    <3> QED
      BY <1>1, <1>2, <2>1, <2>4, <3>2
  <2> QED
    BY <2>5, <2>6
<1>9. ASSUME BrokerStops PROVE Copies(o)' = Copies(o)
  <2> DEFINE Holders == {w \in Workers : unacked[w] # None}
  <2>1. PICK s \in Orderings(Holders) :
          purchase_requests' =
            [i \in DOMAIN s |-> unacked[s[i]]] \o purchase_requests
    BY <1>9 DEF BrokerStops
  <2> DEFINE n     == Cardinality(Holders)
             front == [i \in DOMAIN s |-> unacked[s[i]]]
             theirs == Holding(unacked, o)
             places == Occurrences(front, o)
             f      == [i \in places |-> s[i]]
  <2>2. IsFiniteSet(Holders) /\ n \in Nat
    BY FS_Subset, FS_CardinalityType, IndirectAssumption
  <2>3. /\ s \in [1..n -> Holders]
        /\ \A i, j \in 1..n : s[i] = s[j] => i = j
    BY <2>1 DEF Orderings
  <2>4. \A w \in Holders : \E i \in 1..n : s[i] = w
    <3>1. s \in Injection(1..n, Holders)
      BY <2>3 DEF Injection, IsInjective
    <3>2. Cardinality(1..n) = n
      BY <2>2, FS_Interval
    <3> HIDE DEF Holders
    <3>3. s \in Surjection(1..n, Holders)
      BY <2>2, <3>1, <3>2, FS_Injection
    <3> QED
      BY <3>3 DEF Surjection
  <2>5. front \in Seq(Ops) /\ Len(front) = n
    <3>1. front \in [1..n -> Ops]
      BY <1>0, <2>3
    <3> HIDE DEF front, n
    <3> QED
      BY <2>2, <3>1
  <2>6. /\ f \in [places -> theirs]
        /\ \A i, j \in places : f[i] = f[j] => i = j
        /\ \A w \in theirs : \E i \in places : f[i] = w
    <3>1. /\ places = {i \in 1..n : unacked[s[i]] = o}
          /\ theirs \subseteq Holders
      BY <1>0, <2>3, <2>5 DEF Occurrences, Holding
    <3>2. \A i \in places : s[i] \in theirs
      BY <2>3, <3>1 DEF Holding
    <3>3. ASSUME NEW w \in theirs PROVE \E i \in places : f[i] = w
      <4>1. PICK i \in 1..n : s[i] = w
        BY <2>4, <3>1, <3>3
      <4>2. i \in places
        BY <3>1, <3>3, <4>1 DEF Holding
      <4> QED
        BY <4>1, <4>2
    <3> QED
      BY <2>3, <3>1, <3>2, <3>3
  <2> HIDE DEF Holders, n, front, places, theirs, f
  <2>7. Cardinality(places) = Cardinality(theirs)
    <3>1. IsFiniteSet(places)
      BY <2>5, FiniteOccurrences DEF places
    <3> QED
      BY <2>6, <3>1, OneToOne
  <2>8. queuedN = held + queued
    <3>1. purchase_requests' = front \o purchase_requests
      BY <2>1 DEF front
    <3> QED
      BY <1>0, <2>5, <2>7, <3>1, OccurrencesOfConcat
         DEF queued, queuedN, held, places, theirs
  <2>9. heldN = 0
    <3>1. Holding(unacked', o) = {}
      BY <1>0, <1>9 DEF BrokerStops, Holding
    <3> QED
      BY <3>1, FS_EmptySet DEF heldN
  <2> QED
    BY <1>1, <1>2, <2>8, <2>9
<1>10. ASSUME UNCHANGED <<purchase_requests, unacked>>
      PROVE  Copies(o)' = Copies(o)
  BY <1>1, <1>10 DEF queued, queuedN, held, heldN
<1> QED
  BY <1>1, <1>2, <1>4, <1>5, <1>7, <1>8, <1>9, <1>10

----------------------------------------------------------------------------
(* The deliveries.                                                         *)

(* What the broker waits for is what the worker has in hand, as long as    *)
(* they are connected, and the result in hand answers it.                  *)
Delivery(w) ==
  /\ unacked[w] = IF connected[w] THEN wmsg[w] ELSE None
  /\ wmsg[w] # None => wpc[w] \in {"processing", "replying", "acking"}
  /\ wpc[w] \in {"replying", "acking"} =>
       wresult[w].request_id = wmsg[w].request_id

Deliveries == \A w \in Workers : Delivery(w)

LEMMA DeliveriesInit == Init => Deliveries
BY DEF Init, BrokerInit, WorkerInit, Deliveries, Delivery

(* Whatever a purchase is answered with carries its request_id. *)
LEMMA OwnResult ==
  ASSUME Typed, NEW o \in Ops, ValidInput(o), NEW result \in ResultsFor(o)
  PROVE  Processed(o, result).request_id = o.request_id
<1>1. ledger[o.request_id] # None => ledger[o.request_id] \in PurchaseResult
  BY ValidOperation DEF Typed, TypeOK
<1>2. \A sale \in PurchaseResult : Replayed(o, sale).request_id = o.request_id
  BY DEF Replayed, PurchaseResult
<1>3. result.request_id = o.request_id
  BY <1>1, <1>2 DEF ResultsFor, accepted, rejected, NoResult
<1>4. InternalError(o).request_id = o.request_id
  BY DEF InternalError, NoResult, rejected
<1> QED
  BY <1>3, <1>4 DEF Processed

LEMMA WorkerDeliveries ==
  ASSUME Typed, Deliveries, NEW w \in Workers,
         \/ WorkerStep(w) \/ WorkerStarts(w)
         \/ WorkerDisconnected(w) \/ SigTerm(w) \/ SigKill(w)
         \/ RedisFails(w) \/ SaleUnanswered(w)
  PROVE  Deliveries'
<1>0. /\ BrokerTyped /\ WorkersTyped /\ None \notin Ops
      /\ unacked \in [Workers -> Ops \cup {None}]
  BY Parts, DomainAssumption DEF BrokerTyped
<1> USE <1>0 DEF WorkersTyped
<1>1. Delivery(w)
  BY DEF Deliveries
<1>2. ASSUME Delivery(w)',
             \A v \in Workers \ {w} :
               /\ unacked'[v] = unacked[v] /\ connected'[v] = connected[v]
               /\ wmsg'[v] = wmsg[v] /\ wpc'[v] = wpc[v]
               /\ wresult'[v] = wresult[v]
      PROVE  Deliveries'
  BY <1>2 DEF Deliveries, Delivery
<1>3. ASSUME wpc[w] = "processing", NEW result, Answers(w, result),
             Processed(wmsg[w], result).request_id = wmsg[w].request_id
      PROVE  Deliveries'
  BY <1>1, <1>2, <1>3 DEF Answers, WGoto, Delivery, brokerVars
<1>4. CASE WorkerBuys(w) \/ RedisFails(w)
  <2>1. PICK result \in ResultsFor(wmsg[w]) :
          /\ wpc[w] = "processing"
          /\ ValidInput(wmsg[w])
          /\ Answers(w, result)
    BY <1>4 DEF WorkerBuys, RedisFails
  <2>2. wmsg[w] \in Ops
    BY <2>1
  <2> QED
    BY <1>3, <2>1, <2>2, OwnResult
<1>5. CASE WorkerRefusesInput(w)
  <2>1. Processed(wmsg[w], NoResult(wmsg[w])).request_id = wmsg[w].request_id
    BY DEF Processed, InternalError, NoResult, rejected
  <2> QED
    BY <1>3, <1>5, <2>1 DEF WorkerRefusesInput
<1>6. CASE OnMessage(w)
  <2>1. unacked'[w] \in Ops
    BY <1>6, QueueTypes DEF OnMessage
  <2> QED
    BY <1>1, <1>2, <1>6, <2>1 DEF OnMessage, DeliverTo, WGoto, Delivery
<1>7. CASE WorkerAcks(w)
  BY <1>1, <1>2, <1>7 DEF WorkerAcks, AckBy, WGoto, Delivery
<1>8. CASE WorkerDisconnected(w)
  BY <1>1, <1>2, <1>8 DEF WorkerDisconnected, RequeueOf, Delivery
<1>9. CASE SigKill(w)
  BY <1>1, <1>2, <1>9 DEF SigKill, RequeueOf, WGoto, Delivery
<1>10. CASE WorkerReplies(w)
  BY <1>1, <1>2, <1>10 DEF WorkerReplies, PublishReply, WGoto, Delivery
<1>11. CASE SaleUnanswered(w)
  BY <1>1, <1>2, <1>11 DEF SaleUnanswered, brokerVars, workerVars, Delivery
<1>12. CASE WorkerConnects(w)
  BY <1>1, <1>2, <1>12 DEF WorkerConnects, WGoto, Delivery, brokerVars
<1>13. CASE WorkerGivesUp(w)
  BY <1>1, <1>2, <1>13
     DEF WorkerGivesUp, LoopRaises, WGoto, Delivery, brokerVars
<1>14. CASE ConsumingRaises(w)
  BY <1>1, <1>2, <1>14
     DEF ConsumingRaises, LoopRaises, WGoto, Delivery, brokerVars
<1>15. CASE OnMessageRaises(w)
  BY <1>1, <1>2, <1>15
     DEF OnMessageRaises, LoopRaises, WGoto, Delivery, brokerVars
<1>16. CASE WorkerWakes(w)
  BY <1>1, <1>2, <1>16 DEF WorkerWakes, WGoto, Delivery, brokerVars
<1>17. CASE WorkerStarts(w)
  BY <1>1, <1>2, <1>17 DEF WorkerStarts, WGoto, Delivery, brokerVars
<1>18. CASE SigTerm(w)
  BY <1>1, <1>2, <1>18 DEF SigTerm, Delivery, brokerVars
<1> QED
  BY <1>4, <1>5, <1>6, <1>7, <1>8, <1>9, <1>10, <1>11, <1>12, <1>13, <1>14,
     <1>15, <1>16, <1>17, <1>18
     DEF WorkerStep

(* What the gateway does leaves the deliveries alone. *)
LEMMA GatewayDelivers ==
  ASSUME \/ \E h \in Handlers, o \in Ops : HttpRequest(h, o)
         \/ \E h \in Handlers : HandlerStep(h) \/ PublishRaisesLate(h)
         \/ ReplyThreadStep
         \/ PublisherDisconnected
         \/ ReplyThreadDisconnected
  PROVE  /\ UNCHANGED unacked
         /\ \/ UNCHANGED purchase_requests
            \/ \E h \in Handlers : hpc[h] # "idle" /\ Publish(hop[h])
<1>1. ASSUME NEW h \in Handlers, HandlerStep(h) \/ PublishRaisesLate(h)
      PROVE  /\ UNCHANGED unacked
             /\ \/ UNCHANGED purchase_requests
                \/ hpc[h] # "idle" /\ Publish(hop[h])
  <2>1. CASE PublishSucceeds(h) \/ PublishRaisesLate(h)
    BY <2>1 DEF PublishSucceeds, PublishRaisesLate, Publish
  <2>2. CASE \/ CheckReady(h) \/ RegisterWaiter(h) \/ LockPublisher(h)
             \/ PublishVanishes(h) \/ PublishRaises(h) \/ RebuildPublisher(h)
             \/ RebuildFails(h) \/ MarkNotReady(h) \/ Wake(h) \/ Timeout(h)
             \/ ForgetWaiter(h) \/ CollectResult(h)
    BY <2>2
       DEF CheckReady, RegisterWaiter, LockPublisher, PublishVanishes,
           PublishRaises, RebuildPublisher, RebuildFails, MarkNotReady, Wake,
           Timeout, ForgetWaiter, CollectResult, brokerVars
  <2> QED
    BY <1>1, <2>1, <2>2 DEF HandlerStep
<1>2. ASSUME \/ \E h \in Handlers, o \in Ops : HttpRequest(h, o)
             \/ ReplyThreadStep
             \/ PublisherDisconnected
             \/ ReplyThreadDisconnected
      PROVE  UNCHANGED <<purchase_requests, unacked>>
  BY <1>2
     DEF HttpRequest, ReplyThreadStep, StoreReply, TakeReply, NotifyWaiter,
         ReplyThreadConnects, BindReplyQueue, ReplyThreadRaises,
         PublisherDisconnected, ReplyThreadDisconnected, DeleteReplyQueue,
         brokerVars
<1> QED
  BY <1>1, <1>2

LEMMA DeliveriesStep == Typed /\ Deliveries /\ [Next]_vars => Deliveries'
<1> SUFFICES ASSUME Typed, Deliveries, [Next]_vars PROVE Deliveries'
  OBVIOUS
<1>1. ASSUME UNCHANGED unacked, UNCHANGED workerVars PROVE Deliveries'
  BY <1>1 DEF workerVars, Deliveries, Delivery
<1>2. ASSUME \/ \E h \in Handlers, o \in Ops : GatewayAlone(HttpRequest(h, o))
             \/ \E h \in Handlers : GatewayAlone(HandlerStep(h))
             \/ GatewayAlone(ReplyThreadStep)
      PROVE  Deliveries'
  BY <1>1, <1>2, GatewayDelivers DEF GatewayAlone
<1>3. ASSUME NEW w \in Workers,
             WorkerAlone(WorkerStep(w)) \/ WorkerAlone(WorkerStarts(w))
      PROVE  Deliveries'
  BY <1>3, WorkerDeliveries DEF WorkerAlone
<1>4. CASE Recovery
  BY <1>1, <1>4 DEF Recovery, BrokerStarts
<1>5. CASE Fault
  <2>1. CASE Outage
    BY <2>1 DEF Outage, BrokerStops, Deliveries, Delivery
  <2>2. ASSUME \/ PublisherDisconnected
               \/ ReplyThreadDisconnected
               \/ \E h \in Handlers : PublishRaisesLate(h),
               UNCHANGED <<workerVars, boxOffice>>
        PROVE  Deliveries'
    BY <1>1, <2>2, GatewayDelivers
  <2>3. ASSUME NEW w \in Workers,
               \/ WorkerDisconnected(w) \/ SigTerm(w) \/ SigKill(w)
               \/ RedisFails(w) \/ SaleUnanswered(w)
        PROVE  Deliveries'
    BY <2>3, WorkerDeliveries
  <2> QED
    BY <1>5, <2>1, <2>2, <2>3 DEF Fault
<1>6. CASE Quiescent \/ UNCHANGED vars
  BY <1>1, <1>6 DEF Quiescent, vars, brokerVars
<1> QED
  BY <1>2, <1>3, <1>4, <1>5, <1>6 DEF Next

(* A step that leaves fewer copies of o than there were is the             *)
(* acknowledgement of a worker that is done with o.                        *)
LEMMA OnlyAcksTake ==
  ASSUME Typed, Typed', Deliveries, [Next]_vars, NEW o \in Ops,
         Copies(o)' < Copies(o)
  PROVE  \E w \in Workers :
           /\ wpc[w] = "acking" /\ wmsg[w] = o
           /\ wresult[w].request_id = o.request_id
<1>0. /\ BrokerTyped /\ BrokerTyped'
      /\ \A h \in Handlers : hpc[h] # "idle" => hop[h] \in Ops
  BY Parts DEF Typed, TypeOK, InHand, BrokerTyped
<1>1. /\ Copies(o) \in Nat /\ Copies(o)' \in Nat
      /\ ~(Copies(o)' >= Copies(o))
  BY <1>0, CopiesKept
<1>2. Copies(o)' # Copies(o)
  BY <1>1
<1>3. ~UNCHANGED <<purchase_requests, unacked>>
  BY <1>0, <1>2, CopiesKept
<1>4. ASSUME NEW w \in Workers, WorkerAcks(w)
      PROVE  /\ wpc[w] = "acking" /\ wmsg[w] = o
             /\ wresult[w].request_id = o.request_id
  <2>1. wpc[w] = "acking" /\ connected[w] /\ AckBy(w)
    BY <1>4 DEF WorkerAcks
  <2>2. Is(unacked[w], o) # 0
    <3>1. Copies(o)' = Copies(o) - Is(unacked[w], o)
      BY <1>0, <2>1, CopiesKept
    <3> QED
      BY <1>1, <3>1
  <2>3. unacked[w] = o
    BY <2>2 DEF Is
  <2> QED
    BY <2>1, <2>3 DEF Deliveries, Delivery
<1>5. ASSUME NEW w \in Workers,
             \/ WorkerStep(w) \/ WorkerStarts(w)
             \/ WorkerDisconnected(w) \/ SigTerm(w) \/ SigKill(w)
             \/ RedisFails(w) \/ SaleUnanswered(w)
      PROVE  WorkerAcks(w)
  <2>1. ~OnMessage(w)
    BY <1>0, <1>2, CopiesKept DEF OnMessage
  <2>2. ~WorkerDisconnected(w) /\ ~SigKill(w)
    BY <1>0, <1>2, CopiesKept DEF WorkerDisconnected, SigKill
  <2>3. /\ ~WorkerBuys(w) /\ ~RedisFails(w) /\ ~WorkerRefusesInput(w)
        /\ ~SaleUnanswered(w) /\ ~WorkerReplies(w)
    BY <1>3
       DEF WorkerBuys, RedisFails, WorkerRefusesInput, SaleUnanswered,
           WorkerReplies, PublishReply, Answers, brokerVars
  <2>4. /\ ~WorkerConnects(w) /\ ~WorkerGivesUp(w) /\ ~ConsumingRaises(w)
        /\ ~OnMessageRaises(w) /\ ~WorkerWakes(w) /\ ~WorkerStarts(w)
        /\ ~SigTerm(w)
    BY <1>3
       DEF WorkerConnects, WorkerGivesUp, ConsumingRaises, OnMessageRaises,
           WorkerWakes, WorkerStarts, SigTerm, brokerVars
  <2> QED
    BY <1>5, <2>1, <2>2, <2>3, <2>4 DEF WorkerStep
<1>6. ASSUME \/ \E h \in Handlers, e \in Ops : HttpRequest(h, e)
             \/ \E h \in Handlers : HandlerStep(h) \/ PublishRaisesLate(h)
             \/ ReplyThreadStep
             \/ PublisherDisconnected
             \/ ReplyThreadDisconnected
      PROVE  FALSE
  <2>1. /\ UNCHANGED unacked
        /\ \/ UNCHANGED purchase_requests
           \/ \E h \in Handlers : hpc[h] # "idle" /\ Publish(hop[h])
    BY <1>6, GatewayDelivers
  <2>2. ASSUME NEW e \in Ops, Publish(e) PROVE FALSE
    BY <1>0, <1>1, <2>2, CopiesKept
  <2> QED
    BY <1>0, <1>3, <2>1, <2>2
<1>7. ~Outage
  BY <1>0, <1>2, CopiesKept DEF Outage
<1>8. ~Recovery /\ ~Quiescent /\ ~UNCHANGED vars
  BY <1>3 DEF Recovery, BrokerStarts, Quiescent, vars, brokerVars
<1>9. \E w \in Workers :
        \/ WorkerStep(w) \/ WorkerStarts(w)
        \/ WorkerDisconnected(w) \/ SigTerm(w) \/ SigKill(w)
        \/ RedisFails(w) \/ SaleUnanswered(w)
  BY <1>6, <1>7, <1>8 DEF Next, Fault, GatewayAlone, WorkerAlone
<1> QED
  BY <1>4, <1>5, <1>9

(* At least once: whoever crashes, disconnects or is restarted, a purchase *)
(* leaves the broker's hands only when a worker that has processed it, and *)
(* replied, acknowledges it.                                               *)
THEOREM AcknowledgedWhenDone == Spec => AckedWhenDone
<1>1. Spec => []Typed
  BY TypedInit, TypedStep, PTL DEF Spec
<1>2. Spec => []Deliveries
  BY <1>1, DeliveriesInit, DeliveriesStep, PTL DEF Spec
<1>3. Typed /\ Typed' /\ Deliveries /\ [Next]_vars =>
        [\A o \in Ops : Copies(o)' < Copies(o) =>
           \E w \in Workers :
             /\ wpc[w] = "acking" /\ wmsg[w] = o
             /\ wresult[w].request_id = o.request_id
        ]_<<purchase_requests, unacked>>
  BY OnlyAcksTake
<1> QED
  BY <1>1, <1>2, <1>3, PTL DEF Spec, AckedWhenDone

----------------------------------------------------------------------------
(* The shop that the clients of the gateway see.                           *)

AskedFor ==
  {x.op : x \in responses} \cup {hop[h] : h \in {g \in Handlers : hop[g] # None}}
Answered == {y \in responses : y.result # None}
Delivered == {[op |-> x.op, result |-> x.result] : x \in Answered}

(* A handler has a purchase only while it works on it, and every copy of a *)
(* purchase, queued, redelivered or in a worker's hands, was asked for.    *)
Requested ==
  /\ \A h \in Handlers : hpc[h] = "idle" => hop[h] = None
  /\ HeldIn(purchase_requests, unacked, AskedFor)
  /\ \A w \in Workers : wmsg[w] # None => wmsg[w] \in AskedFor

LEMMA RequestedInit == Init => Requested
BY EmptySeq
   DEF Init, BrokerInit, GatewayInit, WorkerInit, Requested, HeldIn

(* What the gateway does to the purchases in its hands and the responses:  *)
(* nothing, or one more purchase, or one that goes with its response.      *)
LEMMA GatewayAsks ==
  ASSUME Typed, Requested,
         \/ \E h \in Handlers, o \in Ops : HttpRequest(h, o)
         \/ \E h \in Handlers : HandlerStep(h) \/ PublishRaisesLate(h)
         \/ ReplyThreadStep
         \/ PublisherDisconnected
         \/ ReplyThreadDisconnected
  PROVE  /\ \A h \in Handlers : hpc'[h] = "idle" => hop'[h] = None
         /\ \/ AskedFor' = AskedFor /\ responses \subseteq responses'
            \/ AskedFor \subseteq AskedFor' /\ UNCHANGED responses
<1>0. /\ HandlersTyped
      /\ None \notin Ops
      /\ \A h \in Handlers : hpc[h] = "idle" => hop[h] = None
  BY Parts, DomainAssumption DEF GatewayTyped, Requested
<1> USE <1>0 DEF HandlersTyped
<1>1. ASSUME NEW h \in Handlers, NEW o \in Ops, HttpRequest(h, o)
      PROVE  /\ \A g \in Handlers : hpc'[g] = "idle" => hop'[g] = None
             /\ AskedFor \subseteq AskedFor' /\ UNCHANGED responses
  <2>1. /\ hpc' = [hpc EXCEPT ![h] = "checking"]
        /\ hop' = [hop EXCEPT ![h] = o]
        /\ hop[h] = None /\ UNCHANGED responses
    BY <1>1 DEF HttpRequest, HGoto
  <2>2. \A g \in Handlers : hop[g] # None => hop'[g] = hop[g]
    BY <2>1
  <2>3. AskedFor \subseteq AskedFor'
    BY <2>1, <2>2 DEF AskedFor
  <2> QED
    BY <2>1, <2>3
<1>2. ASSUME NEW h \in Handlers, NEW code, NEW result, hpc[h] # "idle",
             Respond(h, code, result)
      PROVE  /\ \A g \in Handlers : hpc'[g] = "idle" => hop'[g] = None
             /\ AskedFor' = AskedFor /\ responses \subseteq responses'
  <2> DEFINE response == [op |-> hop[h], code |-> code, result |-> result]
  <2>1. /\ responses' = responses \cup {response}
        /\ hpc' = [hpc EXCEPT ![h] = "idle"]
        /\ hop' = [hop EXCEPT ![h] = None]
        /\ hop[h] # None /\ response.op = hop[h]
    BY <1>2 DEF Respond, HGoto
  <2> HIDE DEF response
  <2>2. /\ {x.op : x \in responses'} = {x.op : x \in responses} \cup {hop[h]}
    BY <2>1
  <2>3. {hop'[g] : g \in {f \in Handlers : hop'[f] # None}} \cup {hop[h]}
          = {hop[g] : g \in {f \in Handlers : hop[f] # None}}
    BY <2>1
  <2>4. AskedFor' = AskedFor
    BY <2>2, <2>3 DEF AskedFor
  <2> QED
    BY <2>1, <2>4
<1>3. ASSUME NEW h \in Handlers, hpc[h] # "idle",
             \E l \in HandlerPlaces \ {"idle"} : HGoto(h, l),
             UNCHANGED <<hop, responses>>
      PROVE  /\ \A g \in Handlers : hpc'[g] = "idle" => hop'[g] = None
             /\ AskedFor' = AskedFor /\ responses \subseteq responses'
  BY <1>3 DEF HGoto, AskedFor
<1>4. ASSUME NEW h \in Handlers, HandlerStep(h) \/ PublishRaisesLate(h)
      PROVE  /\ \A g \in Handlers : hpc'[g] = "idle" => hop'[g] = None
             /\ AskedFor' = AskedFor /\ responses \subseteq responses'
  <2>1. CASE CheckReady(h) \/ ForgetWaiter(h) \/ CollectResult(h)
    <3>1. hpc[h] # "idle"
      BY <2>1 DEF CheckReady, ForgetWaiter, CollectResult
    <3>2. \/ \E code, result : Respond(h, code, result)
          \/ HGoto(h, "registering") /\ UNCHANGED <<hop, responses>>
      BY <2>1 DEF CheckReady, ForgetWaiter, CollectResult
    <3> QED
      BY <1>2, <1>3, <3>1, <3>2 DEF HandlerPlaces
  <2>2. CASE \/ RegisterWaiter(h) \/ LockPublisher(h) \/ PublishSucceeds(h)
             \/ PublishVanishes(h) \/ PublishRaises(h) \/ RebuildPublisher(h)
             \/ RebuildFails(h) \/ MarkNotReady(h) \/ Wake(h) \/ Timeout(h)
             \/ PublishRaisesLate(h)
    <3>1. /\ hpc[h] # "idle"
          /\ UNCHANGED <<hop, responses>>
          /\ \E l \in HandlerPlaces \ {"idle"} : HGoto(h, l)
      BY <2>2
         DEF RegisterWaiter, LockPublisher, PublishSucceeds, PublishVanishes,
             PublishRaises, RebuildPublisher, RebuildFails, MarkNotReady, Wake,
             Timeout, PublishRaisesLate, AfterPublication, HandlerPlaces
    <3> QED
      BY <1>3, <3>1
  <2> QED
    BY <1>4, <2>1, <2>2 DEF HandlerStep
<1>5. CASE ReplyThreadStep \/ PublisherDisconnected \/ ReplyThreadDisconnected
  <2>1. UNCHANGED <<hpc, hop, responses>>
    BY <1>5 DEF ReplyThreadStep, StoreReply, NotifyWaiter, ReplyThreadConnects,
         ReplyThreadRaises, PublisherDisconnected, ReplyThreadDisconnected,
         gatewayVars
  <2> QED
    BY <2>1 DEF AskedFor
<1> QED
  BY <1>1, <1>4, <1>5

(* What a worker does to the purchase in its hands, and what it sells.     *)
LEMMA WorkerTakes ==
  ASSUME Typed, Requested, NEW w \in Workers,
         \/ WorkerStep(w) \/ WorkerStarts(w)
         \/ WorkerDisconnected(w) \/ SigTerm(w) \/ SigKill(w)
         \/ RedisFails(w) \/ SaleUnanswered(w)
  PROVE  /\ HeldIn(purchase_requests', unacked', AskedFor)
         /\ \A v \in Workers : wmsg'[v] # None => wmsg'[v] \in AskedFor
         /\ \/ UNCHANGED boxOffice
            \/ \E o \in AskedFor :
                 ValidInput(o) /\ \E result \in ResultsFor(o) : Sell(o, result)
<1>0. /\ wmsg \in [Workers -> Ops \cup {None}]
      /\ HeldIn(purchase_requests, unacked, AskedFor)
      /\ \A v \in Workers : wmsg[v] # None => wmsg[v] \in AskedFor
      /\ wpc[w] = "processing" => wmsg[w] \in AskedFor
  BY DomainAssumption DEF Typed, TypeOK, InHand, Requested
<1>1. ASSUME wmsg' \in {wmsg, [wmsg EXCEPT ![w] = None]}
      PROVE  \A v \in Workers : wmsg'[v] # None => wmsg'[v] \in AskedFor
  BY <1>0, <1>1
<1>2. CASE OnMessage(w)
  <2>1. /\ HeldIn(purchase_requests', unacked', AskedFor)
        /\ unacked'[w] \in AskedFor
    BY <1>0, <1>2, QueuesHold DEF OnMessage
  <2>2. wmsg' = [wmsg EXCEPT ![w] = unacked'[w]] /\ UNCHANGED boxOffice
    BY <1>2 DEF OnMessage
  <2> QED
    BY <1>0, <2>1, <2>2
<1>3. CASE WorkerAcks(w) \/ WorkerDisconnected(w) \/ SigKill(w)
  <2>1. HeldIn(purchase_requests', unacked', AskedFor)
    BY <1>0, <1>3, QueuesHold DEF WorkerAcks, WorkerDisconnected, SigKill
  <2>2. /\ wmsg' \in {wmsg, [wmsg EXCEPT ![w] = None]}
        /\ UNCHANGED boxOffice
    BY <1>3 DEF WorkerAcks, WorkerDisconnected, SigKill
  <2> QED
    BY <1>1, <2>1, <2>2
<1>4. CASE \/ WorkerConnects(w) \/ WorkerGivesUp(w) \/ WorkerWakes(w)
           \/ ConsumingRaises(w) \/ OnMessageRaises(w) \/ WorkerStarts(w)
           \/ SigTerm(w) \/ WorkerReplies(w) \/ WorkerRefusesInput(w)
           \/ RedisFails(w)
  <2>1. /\ UNCHANGED <<purchase_requests, unacked, boxOffice>>
        /\ wmsg' \in {wmsg, [wmsg EXCEPT ![w] = None]}
    BY <1>4 DEF WorkerConnects, WorkerGivesUp, WorkerWakes, ConsumingRaises,
         OnMessageRaises, WorkerStarts, SigTerm, WorkerReplies,
         WorkerRefusesInput, RedisFails, Fail, LoopRaises, Answers,
         PublishReply, brokerVars
  <2> QED
    BY <1>0, <1>1, <2>1
<1>5. CASE WorkerBuys(w) \/ SaleUnanswered(w)
  <2>1. UNCHANGED <<purchase_requests, unacked, wmsg>>
    BY <1>5 DEF WorkerBuys, SaleUnanswered, Answers, brokerVars, workerVars
  <2>2. /\ wmsg[w] \in AskedFor
        /\ ValidInput(wmsg[w])
        /\ \E result \in ResultsFor(wmsg[w]) :
             Sell(wmsg[w], result) \/ UNCHANGED boxOffice
    BY <1>0, <1>5 DEF WorkerBuys, SaleUnanswered, Repeat, Refuse
  <2> QED
    BY <1>0, <2>1, <2>2
<1> QED
  BY <1>2, <1>3, <1>4, <1>5 DEF WorkerStep

(* A step of the system is one of the gateway, of a worker, or of neither. *)
LEMMA StepAsks ==
  ASSUME Typed, Requested, [Next]_vars
  PROVE  /\ Requested'
         /\ \/ /\ AskedFor' = AskedFor /\ UNCHANGED boxOffice
               /\ responses \subseteq responses'
            \/ /\ AskedFor \subseteq AskedFor'
               /\ UNCHANGED <<boxOffice, responses>>
            \/ /\ AskedFor' = AskedFor /\ UNCHANGED responses
               /\ \E o \in AskedFor : /\ ValidInput(o)
                                      /\ \E result \in ResultsFor(o) :
                                           Sell(o, result)
<1>0. /\ HeldIn(purchase_requests, unacked, AskedFor)
      /\ \A h \in Handlers : hpc[h] # "idle" => hop[h] \in AskedFor
      /\ \A h \in Handlers : hpc[h] = "idle" => hop[h] = None
      /\ \A w \in Workers : wmsg[w] # None => wmsg[w] \in AskedFor
  BY DomainAssumption DEF Typed, InHand, Requested, AskedFor
<1>1. ASSUME AskedFor \subseteq AskedFor',
             \A h \in Handlers : hpc'[h] = "idle" => hop'[h] = None,
             HeldIn(purchase_requests', unacked', AskedFor),
             \A w \in Workers : wmsg'[w] # None => wmsg'[w] \in AskedFor
      PROVE  Requested'
  <2>1. ASSUME NEW S, NEW T, S \subseteq T, NEW q \in Seq(S)
        PROVE  q \in Seq(T)
    BY <2>1
  <2>2. HeldIn(purchase_requests, unacked, AskedFor)'
    BY <1>1, <2>1 DEF HeldIn
  <2> QED
    BY <1>1, <2>2 DEF Requested
<1>2. ASSUME UNCHANGED <<workerVars, boxOffice>>,
             \/ \E h \in Handlers, o \in Ops : HttpRequest(h, o)
             \/ \E h \in Handlers : HandlerStep(h) \/ PublishRaisesLate(h)
             \/ ReplyThreadStep
             \/ PublisherDisconnected
             \/ ReplyThreadDisconnected
      PROVE  /\ Requested'
             /\ \/ AskedFor' = AskedFor /\ responses \subseteq responses'
                \/ AskedFor \subseteq AskedFor' /\ UNCHANGED responses
  <2>1. /\ \A h \in Handlers : hpc'[h] = "idle" => hop'[h] = None
        /\ \/ AskedFor' = AskedFor /\ responses \subseteq responses'
           \/ AskedFor \subseteq AskedFor' /\ UNCHANGED responses
    BY <1>2, GatewayAsks
  <2>2. /\ UNCHANGED unacked
        /\ \/ UNCHANGED purchase_requests
           \/ \E h \in Handlers : hpc[h] # "idle" /\ Publish(hop[h])
    BY <1>2, GatewayDelivers
  <2>3. HeldIn(purchase_requests', unacked', AskedFor)
    BY <1>0, <2>2, QueuesHold
  <2> QED
    BY <1>0, <1>1, <1>2, <2>1, <2>3 DEF workerVars
<1>3. ASSUME NEW w \in Workers, UNCHANGED gatewayVars,
             \/ WorkerStep(w) \/ WorkerStarts(w)
             \/ WorkerDisconnected(w) \/ SigTerm(w) \/ SigKill(w)
             \/ RedisFails(w) \/ SaleUnanswered(w)
      PROVE  /\ Requested'
             /\ AskedFor' = AskedFor /\ UNCHANGED responses
             /\ \/ UNCHANGED boxOffice
                \/ \E o \in AskedFor : /\ ValidInput(o)
                                       /\ \E result \in ResultsFor(o) :
                                            Sell(o, result)
  <2>1. UNCHANGED <<hpc, hop, responses>> /\ AskedFor' = AskedFor
    BY <1>3 DEF gatewayVars, AskedFor
  <2> QED
    BY <1>0, <1>1, <1>3, <2>1, WorkerTakes
<1>4. ASSUME UNCHANGED <<hpc, hop, responses, wmsg, boxOffice>>,
             HeldIn(purchase_requests', unacked', AskedFor)
      PROVE  /\ Requested'
             /\ AskedFor' = AskedFor /\ UNCHANGED <<boxOffice, responses>>
  <2>1. AskedFor' = AskedFor
    BY <1>4 DEF AskedFor
  <2> QED
    BY <1>0, <1>1, <1>4, <2>1
<1>5. CASE Recovery \/ Quiescent \/ UNCHANGED vars
  BY <1>0, <1>4, <1>5
     DEF Recovery, BrokerStarts, Quiescent, vars, brokerVars, gatewayVars,
         workerVars
<1>6. CASE Outage
  BY <1>0, <1>4, <1>6, QueuesHold DEF Outage
<1>7. CASE Fault
  BY <1>2, <1>3, <1>4, <1>6, <1>7 DEF Fault
<1> QED
  BY <1>2, <1>3, <1>5, <1>7 DEF Next, GatewayAlone, WorkerAlone

(* The shop speaks of the same purchases and sales. *)
LEMMA SameShop ==
  /\ Shop!Offered = Offered
  /\ Shop!boxOffice = boxOffice
  /\ \A o : Shop!ValidInput(o) <=> ValidInput(o)
  /\ \A o, result : Shop!Sell(o, result) <=> Sell(o, result)
  /\ \A o : Shop!ResultsFor(o) = ResultsFor(o)
<1>1. Shop!Offered = Offered /\ Shop!SeatIds = SeatIds
  BY DEF Offered, Shop!Offered, SeatIds, Shop!SeatIds
<1>2. ASSUME NEW o
      PROVE  /\ Shop!Unnumbered(o) <=> Unnumbered(o)
             /\ Shop!Numbered(o) <=> Numbered(o)
             /\ Shop!ValidInput(o) <=> ValidInput(o)
             /\ \A left : Shop!accepted(o, left) = accepted(o, left)
             /\ \A why : Shop!rejected(o, why) = rejected(o, why)
             /\ \A stored : Shop!Replayed(o, stored) = Replayed(o, stored)
             /\ Shop!NoResult(o) = NoResult(o)
  BY <1>1 DEF Shop!Unnumbered, Unnumbered, Shop!Numbered, Numbered,
       Shop!ValidInput, ValidInput, Shop!validate_common_input,
       validate_common_input, Shop!validate_seat_id, validate_seat_id,
       Shop!accepted, accepted, Shop!rejected, rejected, Shop!Replayed,
       Replayed, Shop!NoResult, NoResult
<1>3. ASSUME NEW o, NEW result
      PROVE  Shop!Sell(o, result) <=> Sell(o, result)
  BY <1>1, <1>2 DEF Shop!Sell, Sell, Shop!SellTicket, SellTicket,
       Shop!SellSeat, SellSeat
<1>4. ASSUME NEW o PROVE Shop!ResultsFor(o) = ResultsFor(o)
  BY <1>2 DEF Shop!ResultsFor, ResultsFor
<1> QED
  BY <1>1, <1>2, <1>3, <1>4 DEF Shop!boxOffice, boxOffice

LEMMA ShopInit == Init => Shop!Init
<1> SUFFICES ASSUME Init PROVE Shop!Init
  OBVIOUS
<1>1. Shop!BoxOfficeInit
  BY SameShop DEF Shop!BoxOfficeInit, Init, BoxOfficeInit
<1>2. responses = {} /\ {g \in Handlers : hop[g] # None} = {}
  BY DEF Init, GatewayInit
<1> QED
  BY <1>1, <1>2 DEF Shop!Init

(* What has been answered was asked for, and is true. *)
ResponsesHold ==
  \A x \in Answered : x.op \in AskedFor /\ Shop!Holds(x.op, x.result)

LEMMA TruthDelivered == Typed /\ Told => ResponsesHold
<1> SUFFICES ASSUME Typed, Told, NEW x \in Answered
             PROVE  x.op \in AskedFor /\ Shop!Holds(x.op, x.result)
  BY DEF ResponsesHold
<1>1. /\ ResultTrue(x.result)
      /\ x.result.request_id = x.op.request_id
      /\ x.op \in AskedFor
  BY DEF Told, Answered, AskedFor
<1> QED
  BY <1>1, SameShop DEF ResultTrue, TrueOf, Shop!Holds

LEMMA StepIsOfTheShop ==
  ASSUME Typed, Requested, Typed', ResponsesHold', [Next]_vars
  PROVE  [Shop!Next]_Shop!shopVars
<1> USE DEF AskedFor, Delivered
<1>1. CASE /\ AskedFor' = AskedFor /\ UNCHANGED boxOffice
           /\ responses \subseteq responses'
  <2>1. Answered \subseteq Answered'
    BY <1>1 DEF Answered
  <2>2. Delivered \subseteq Delivered'
    BY <2>1
  <2>3. ASSUME NEW y \in Delivered'
        PROVE  y.op \in AskedFor /\ Shop!Holds(y.op, y.result)
    <3>1. PICK x \in Answered' : y = [op |-> x.op, result |-> x.result]
      OBVIOUS
    <3>2. x.op \in AskedFor' /\ Shop!Holds(x.op, x.result)'
      BY DEF ResponsesHold
    <3>3. Shop!Holds(x.op, x.result)
      BY <1>1, <3>2 DEF Shop!Holds, boxOffice
    <3> QED
      BY <1>1, <3>1, <3>2, <3>3
  <2>4. Shop!Tell
    BY <1>1, <2>2, <2>3 DEF Shop!Tell, Answered, Shop!boxOffice, boxOffice
  <2> QED
    BY <2>4 DEF Shop!Next
<1>2. CASE AskedFor \subseteq AskedFor' /\ UNCHANGED <<boxOffice, responses>>
  <2>1. AskedFor' \subseteq Ops
    BY DEF Typed, TypeOK
  <2>2. Shop!Ask
    BY <1>2, <2>1 DEF Shop!Ask, Answered, Shop!boxOffice, boxOffice
  <2> QED
    BY <2>2 DEF Shop!Next
<1>3. CASE /\ AskedFor' = AskedFor /\ UNCHANGED responses
           /\ \E o \in AskedFor : /\ ValidInput(o)
                                  /\ \E result \in ResultsFor(o) :
                                       Sell(o, result)
  <2>1. Shop!Serve
    BY <1>3, SameShop DEF Shop!Serve, Answered
  <2> QED
    BY <2>1 DEF Shop!Next
<1> QED
  BY <1>1, <1>2, <1>3, StepAsks

(* Gateway, broker and workers are one shop to their clients: redelivered  *)
(* or published twice, only what was sent in a request is sold, and what a *)
(* response says is on record, or tells what cannot be had any more.       *)
THEOREM WorkersAreOneShop == Spec => PromiseKept
<1>1. Spec => []Typed
  BY TypedInit, TypedStep, PTL DEF Spec
<1>2. Spec => []Told
  BY <1>1, ToldInit, ToldStep, PTL DEF Spec
<1>3. Typed /\ Requested /\ [Next]_vars => Requested'
  BY StepAsks
<1>4. Spec => []Requested
  BY <1>1, <1>3, RequestedInit, PTL DEF Spec
<1>5. /\ Typed /\ Requested /\ ResponsesHold
      /\ (Typed /\ Requested /\ ResponsesHold)'
      /\ [Next]_vars
      => [Shop!Next]_Shop!shopVars
  BY StepIsOfTheShop
<1> QED
  BY <1>1, <1>2, <1>4, <1>5, TruthDelivered, ShopInit, PTL
     DEF Spec, PromiseKept, Shop!Spec
=============================================================================
