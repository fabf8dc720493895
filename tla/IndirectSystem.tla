--------------------------- MODULE IndirectSystem ----------------------------
(***************************************************************************)
(* The indirect architecture: HTTP clients, the gateway, RabbitMQ, the     *)
(* workers and the box office, with lost connections, broker restarts and  *)
(* killed workers.                                                         *)
(***************************************************************************)
EXTENDS Gateway, Worker

CONSTANT
  MaxFaults       \* bound on faults and signals

ASSUME IndirectAssumption ==
  /\ SeededTickets \in 0..TOTAL_TICKETS
  /\ MaxFaults \in Nat
  /\ IsFiniteSet(Workers)

VARIABLE
  faults          \* faults and signals so far

vars == <<brokerVars, gatewayVars, workerVars, boxOffice, faults>>

Init ==
  /\ BrokerInit
  /\ GatewayInit
  /\ WorkerInit
  /\ BoxOfficeInit
  /\ faults = 0

(* The broker's end takes every connection with it. *)
Outage ==
  /\ BrokerStops
  /\ publisher_open' = FALSE
  /\ connected' = [w \in Workers |-> FALSE]
  /\ UNCHANGED <<ready, publish_lock, pending_responses, response_events,
                 signalled, hpc, hop, rpc, revent, requests, responses,
                 wpc, wmsg, wresult, shutdown, boxOffice>>

Recovery ==
  /\ BrokerStarts
  /\ UNCHANGED <<gatewayVars, workerVars, boxOffice, faults>>

(* Where a broker that has come back may still find closed connections,    *)
(* their owners notice by themselves (ConsumingRaises, PublishRaises ...). *)
Fault ==
  /\ faults < MaxFaults
  /\ faults' = faults + 1
  /\ \/ Outage
     \/ PublisherDisconnected /\ UNCHANGED <<workerVars, boxOffice>>
     \/ ReplyThreadDisconnected /\ UNCHANGED <<workerVars, boxOffice>>
     \/ \E h \in Handlers :
          PublishRaisesLate(h) /\ UNCHANGED <<workerVars, boxOffice>>
     \/ \E w \in Workers :
          \/ WorkerDisconnected(w) /\ UNCHANGED gatewayVars
          \/ SigTerm(w) /\ UNCHANGED gatewayVars
          \/ SigKill(w) /\ UNCHANGED gatewayVars
          \/ RedisFails(w) /\ UNCHANGED gatewayVars
          \/ SaleUnanswered(w) /\ UNCHANGED gatewayVars

(* The clients have sent all they send and everything has come to rest; any *)
(* other state without a successor is a deadlock.                           *)
Quiescent ==
  /\ requests = MaxRequests
  /\ \A h \in Handlers : hpc[h] = "idle"
  /\ purchase_requests = <<>>
  /\ reply_queue = <<>>
  /\ UNCHANGED vars

GatewayAlone(A) == A /\ UNCHANGED <<workerVars, boxOffice, faults>>
WorkerAlone(A)  == A /\ UNCHANGED <<gatewayVars, faults>>

Next ==
  \/ \E h \in Handlers, o \in Ops : GatewayAlone(HttpRequest(h, o))
  \/ \E h \in Handlers : GatewayAlone(HandlerStep(h))
  \/ GatewayAlone(ReplyThreadStep)
  \/ \E w \in Workers : WorkerAlone(WorkerStep(w))
  \/ \E w \in Workers : WorkerAlone(WorkerStarts(w))
  \/ Recovery
  \/ Fault
  \/ Quiescent

Spec == Init /\ [][Next]_vars

----------------------------------------------------------------------------
(* Properties.                                                             *)

(* What travels between the processes: a result, or the dictionary that     *)
(* stands for an exception, but never the exception itself.                 *)
ReplyType ==
  [status      : PurchaseStatus,
   request_id  : RequestIds,
   client_id   : ClientIds \cup {Blank},
   reason      : {"ok", "sold_out", "seat_already_sold", "invalid_seat",
                  "internal_error"},
   ticket_type : TicketType \cup {None},
   seat_id     : SeatIds \cup {None},
   remaining   : Int \cup {None},
   duplicate   : BOOLEAN]

(* Every variable of the gateway, the broker, the workers and the box       *)
(* office stays in its type.                                                *)
TypeOK ==
  /\ rabbit_up \in BOOLEAN /\ reply_bound \in BOOLEAN
  /\ purchase_requests \in Seq(Ops)
  /\ unacked \in [Workers -> Ops \cup {None}]
  /\ reply_queue \in Seq(ReplyType)
  /\ ready \in BOOLEAN /\ publisher_open \in BOOLEAN
  /\ publish_lock \in Handlers \cup {None}
  /\ pending_responses \in [RequestIds -> ReplyType \cup {None}]
  /\ response_events \in [RequestIds -> Handlers \cup {None}]
  /\ signalled \subseteq Handlers
  /\ hpc \in [Handlers -> HandlerPlaces]
  /\ hop \in [Handlers -> Ops \cup {None}]
  /\ rpc \in {"connecting", "consuming", "notifying"}
  /\ revent \in Handlers \cup {None}
  /\ requests \in 0..MaxRequests
  /\ responses \subseteq [op : Ops, code : {200, 400, 409, 503, 504},
                          result : ReplyType \cup {None}]
  /\ wpc \in [Workers -> WorkerPlaces]
  /\ connected \in [Workers -> BOOLEAN]
  /\ wmsg \in [Workers -> Ops \cup {None}]
  /\ wresult \in [Workers -> ReplyType \cup {None}]
  /\ shutdown \in [Workers -> BOOLEAN]
  /\ stock \in 0..SeededTickets
  /\ owner \in [Offered -> ClientIds \cup {None}]
  /\ ledger \in [RequestIds -> PurchaseResult \cup {None}]
  /\ faults \in 0..MaxFaults

Results == {wresult[w] : w \in Workers}
             \cup {reply_queue[i] : i \in DOMAIN reply_queue}
             \cup {pending_responses[r] : r \in RequestIds}
             \cup {x.result : x \in responses}

(* Whatever was redelivered, published twice, answered late or kept in      *)
(* _pending_responses: a result on its way to a client, or with it, is true *)
(* of the box office.  An accepted purchase is the one on record, a refused *)
(* one found the stock exhausted; and a client gets the result of its own   *)
(* request.                                                                 *)
ResultsTrue ==
  /\ \A result \in Results \ {None} :
       /\ result.status = "ACCEPTED" =>
            LET sale == ledger[result.request_id] IN
            /\ sale # None
            /\ sale.client_id = result.client_id
            /\ sale.ticket_type = result.ticket_type
            /\ Numbered(sale) => owner[sale.seat_id] = result.client_id
       /\ result.reason = "sold_out" => stock = 0
       /\ result.reason = "seat_already_sold" =>
            owner[result.seat_id] # None
  /\ \A x \in responses :
       x.result # None => x.result.request_id = x.op.request_id

(* Register-then-publish loses no wake-up (main.py line 199): the Event of  *)
(* a handler in flight is registered, set or about to be set, and if a      *)
(* reply to its request is there, the Event is set or about to be.          *)
NoLostWakeup ==
  \A h \in Handlers :
    hpc[h] \in {"locking", "publishing", "rebuilding", "republishing",
                "waiting"} =>
      \/ h \in signalled
      \/ rpc = "notifying" /\ revent = h
      \/ response_events[cid(h)] = h /\ pending_responses[cid(h)] = None

(* No Event is left behind in _response_events, on any path: the entry of   *)
(* a request_id belongs to a handler that still works on it.                *)
EventsHaveWaiters ==
  \A r \in RequestIds : response_events[r] # None =>
    LET h == response_events[r] IN
    /\ hpc[h] \notin {"idle", "checking", "registering"}
    /\ cid(h) = r

(* The publisher's channel, which pika does not share between threads, is   *)
(* used by the holder of _publish_lock only, and no path keeps the lock.    *)
PublisherExclusive ==
  \A h \in Handlers :
    hpc[h] \in {"publishing", "rebuilding", "republishing"}
      <=> publish_lock = h

(* From the clients' side gateway, broker and workers are one shop: what is *)
(* bought, redelivered or not, was asked for in an HTTP request, and what a *)
(* response says is true, however late it comes.                            *)
Shop ==
  INSTANCE TicketShop WITH
    asked <- {x.op : x \in responses}
                 \cup {hop[h] : h \in {g \in Handlers : hop[g] # None}},
    told  <- {[op |-> x.op, result |-> x.result] :
                x \in {y \in responses : y.result # None}}

PromiseKept == Shop!Spec

Copies(o) ==
  Cardinality({i \in DOMAIN purchase_requests : purchase_requests[i] = o})
    + Cardinality({w \in Workers : unacked[w] = o})

(* At-least-once: a purchase leaves the broker only by the acknowledgement  *)
(* of a worker that has processed it and sent the reply, whoever crashes    *)
(* or disconnects in between (on_message, consumer.py lines 46-63).         *)
AckedWhenDone ==
  [][\A o \in Ops : Copies(o)' < Copies(o) =>
       \E w \in Workers :
         /\ wpc[w] = "acking" /\ wmsg[w] = o
         /\ wresult[w].request_id = o.request_id]_<<purchase_requests, unacked>>

(* Every HTTP request is answered, with 504 if nothing better.              *)
HttpAnswered ==
  \A h \in Handlers : hpc[h] # "idle" ~> hpc[h] = "idle"

(* A purchase that reached the broker is processed in the end, if the       *)
(* broker comes back and somebody leaves a worker running: no redelivery    *)
(* goes on forever and no delivery stays with a worker that is not on it.   *)
PurchasesProcessed ==
  \A o \in Ops :
    Copies(o) > 0 ~> Copies(o) = 0 \/ \A w \in Workers : wpc[w] = "exited"

(* "RabbitMQ/Redis no disponible" (main.py line 255): unless some handler   *)
(* is still about to publish, requests are turned away only while the       *)
(* broker is away.                                                          *)
NotReadyMeansDown ==
  ~ready /\ (\A h \in Handlers : hpc[h] \in {"idle", "checking"})
    => ~rabbit_up

(* A handler's steps and its timeout happen, the reply thread and the       *)
(* workers run, and a stopped broker comes back.  Nobody promises to start  *)
(* a worker again.                                                          *)
FairSpec ==
  /\ Spec
  /\ \A h \in Handlers : WF_vars(GatewayAlone(HandlerStep(h)))
  /\ WF_vars(GatewayAlone(ReplyThreadStep))
  /\ \A w \in Workers : WF_vars(WorkerAlone(WorkerStep(w)))
  /\ WF_vars(Recovery)
=============================================================================
