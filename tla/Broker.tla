------------------------------- MODULE Broker --------------------------------
(***************************************************************************)
(* RabbitMQ, as far as the gateway and the workers use it: the durable     *)
(* queue of purchase requests, delivered one at a time to each worker and  *)
(* kept until acknowledged, and the gateway's reply queue, which exists    *)
(* only while the gateway consumes from it.  Not part of the repository;   *)
(* modelled from connection.py, queue_setup.py, publisher.py, consumer.py. *)
(***************************************************************************)
EXTENDS Ticketing, Sequences, FiniteSets

CONSTANT
  Workers            \* worker processes

VARIABLES
  rabbit_up,          \* the broker runs
  purchase_requests,  \* the queue: purchases, the request_id correlates
  unacked,            \* unacked[w]: the delivery w has not acknowledged, or None
  reply_queue,        \* results on their way to the gateway
  reply_bound         \* the reply queue is declared and bound

brokerVars ==
  <<rabbit_up, purchase_requests, unacked, reply_queue, reply_bound>>

BrokerInit ==
  /\ rabbit_up = TRUE
  /\ purchase_requests = <<>>
  /\ unacked = [w \in Workers |-> None]
  /\ reply_queue = <<>>
  /\ reply_bound = FALSE

Publish(o) ==
  /\ purchase_requests' = Append(purchase_requests, o)
  /\ UNCHANGED <<rabbit_up, unacked, reply_queue, reply_bound>>

(* prefetch_count = 1: nothing is delivered while a delivery is unacked. *)
DeliverTo(w) ==
  /\ rabbit_up
  /\ unacked[w] = None
  /\ purchase_requests # <<>>
  /\ unacked' = [unacked EXCEPT ![w] = Head(purchase_requests)]
  /\ purchase_requests' = Tail(purchase_requests)
  /\ UNCHANGED <<rabbit_up, reply_queue, reply_bound>>

AckBy(w) ==
  /\ unacked' = [unacked EXCEPT ![w] = None]
  /\ UNCHANGED <<rabbit_up, purchase_requests, reply_queue, reply_bound>>

(* The deliveries of closed channels go back to the front of the queue. *)
RequeueOf(w) ==
  /\ purchase_requests' = IF unacked[w] = None THEN purchase_requests
                          ELSE <<unacked[w]>> \o purchase_requests
  /\ unacked' = [unacked EXCEPT ![w] = None]
  /\ UNCHANGED <<rabbit_up, reply_queue, reply_bound>>

(* A reply without a queue bound to its routing key is dropped. *)
PublishReply(result) ==
  /\ reply_queue' = IF reply_bound THEN Append(reply_queue, result)
                    ELSE reply_queue
  /\ UNCHANGED <<rabbit_up, purchase_requests, unacked, reply_bound>>

BindReplyQueue ==
  /\ reply_bound' = TRUE
  /\ UNCHANGED <<rabbit_up, purchase_requests, unacked, reply_queue>>

(* auto_delete: the queue and what is in it go with its only consumer. *)
DeleteReplyQueue ==
  /\ reply_bound' = FALSE
  /\ reply_queue' = <<>>
  /\ UNCHANGED <<rabbit_up, purchase_requests, unacked>>

TakeReply ==
  /\ reply_queue # <<>>
  /\ reply_queue' = Tail(reply_queue)
  /\ UNCHANGED <<rabbit_up, purchase_requests, unacked, reply_bound>>

Orderings(S) ==
  {s \in [1..Cardinality(S) -> S] : \A i, j \in DOMAIN s : s[i] = s[j] => i = j}

(* The broker stops: every connection is gone, the durable queue stays. *)
BrokerStops ==
  /\ rabbit_up
  /\ rabbit_up' = FALSE
  /\ \E s \in Orderings({w \in Workers : unacked[w] # None}) :
       purchase_requests' =
         [i \in DOMAIN s |-> unacked[s[i]]] \o purchase_requests
  /\ unacked' = [w \in Workers |-> None]
  /\ reply_queue' = <<>>
  /\ reply_bound' = FALSE

BrokerStarts ==
  /\ ~rabbit_up
  /\ rabbit_up' = TRUE
  /\ UNCHANGED <<purchase_requests, unacked, reply_queue, reply_bound>>
=============================================================================
