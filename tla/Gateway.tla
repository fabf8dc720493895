------------------------------- MODULE Gateway -------------------------------
(***************************************************************************)
(* The indirect gateway (apps/indirect_gateway/main.py): HTTP handlers     *)
(* that publish a purchase and wait for the worker's reply, and the thread *)
(* that consumes the replies.  They share two dictionaries under _lock,    *)
(* one publisher under _publish_lock, and the flag _ready under no lock.   *)
(***************************************************************************)
EXTENDS Broker

CONSTANTS
  Handlers,       \* threads that serve HTTP requests
  MaxRequests,    \* bound on the HTTP requests the clients send
  SharedIds       \* may a request_id be sent again while it is in progress?

(* The gateway correlates by request_id.  A blank one would be a key like  *)
(* any other; here, the keys are the well-formed ones.                     *)
ASSUME GatewayAssumption ==
  /\ MaxRequests \in Nat
  /\ None \notin Handlers
  /\ \A o \in Ops : o.request_id \in RequestIds

VARIABLES
  (* module globals *)
  ready,              \* _ready
  publisher_open,     \* _publisher's connection works
  publish_lock,       \* the handler that holds _publish_lock, or None
  pending_responses,  \* _pending_responses[cid], or None
  response_events,    \* the handler whose Event is registered for cid, or None
  signalled,          \* the handlers whose Event is set
  (* the handlers and the reply thread *)
  hpc,                \* where the handler is
  hop,                \* the purchase of its HTTP request, or None
  rpc,                \* where the reply thread is
  revent,             \* the Event it is about to set, or None
  (* the clients *)
  requests,           \* HTTP requests sent so far
  responses           \* every HTTP response, with its purchase

gatewayVars ==
  <<ready, publisher_open, publish_lock, pending_responses, response_events,
    signalled, hpc, hop, rpc, revent, requests, responses>>

HandlerPlaces ==
  {"idle", "checking", "registering", "locking", "publishing", "rebuilding",
   "republishing", "failing", "waiting", "collecting", "forgetting"}

(* After _init_connections: the publisher is connected, the reply thread   *)
(* has been started and has not bound its queue yet.                       *)
GatewayInit ==
  /\ ready = TRUE
  /\ publisher_open = TRUE
  /\ publish_lock = None
  /\ pending_responses = [r \in RequestIds |-> None]
  /\ response_events = [r \in RequestIds |-> None]
  /\ signalled = {}
  /\ hpc = [h \in Handlers |-> "idle"]
  /\ hop = [h \in Handlers |-> None]
  /\ rpc = "connecting"
  /\ revent = None
  /\ requests = 0
  /\ responses = {}

HGoto(h, l) == hpc' = [hpc EXCEPT ![h] = l]

cid(h) == hop[h].request_id

Respond(h, code, result) ==
  /\ responses' =
       responses \cup {[op |-> hop[h], code |-> code, result |-> result]}
  /\ HGoto(h, "idle")
  /\ hop' = [hop EXCEPT ![h] = None]

(* _publish_and_wait's HTTP code. *)
HttpCode(result) ==
  IF result.duplicate \/ result.status = "ACCEPTED" THEN 200
  ELSE IF result.reason \in {"sold_out", "seat_already_sold"} THEN 409
  ELSE 400

----------------------------------------------------------------------------
(* _publish_and_wait, up to the publication.                               *)

HttpRequest(h, o) ==
  /\ hpc[h] = "idle"
  /\ SharedIds \/ \A g \in Handlers :
       hpc[g] # "idle" => cid(g) # o.request_id
  /\ requests < MaxRequests
  /\ requests' = requests + 1
  /\ hop' = [hop EXCEPT ![h] = o]
  /\ HGoto(h, "checking")
  /\ UNCHANGED <<brokerVars, ready, publisher_open, publish_lock,
                 pending_responses, response_events, signalled, rpc, revent,
                 responses>>

CheckReady(h) ==
  /\ hpc[h] = "checking"
  /\ IF ready
       THEN HGoto(h, "registering") /\ UNCHANGED <<hop, responses>>
       ELSE Respond(h, 503, None)
  /\ UNCHANGED <<brokerVars, ready, publisher_open, publish_lock,
                 pending_responses, response_events, signalled, rpc, revent,
                 requests>>

(* Mutant of RegisterWaiter: it does not look for a result already there.  *)
RegisterBlindly(h) ==
  /\ hpc[h] = "registering"
  /\ response_events' = [response_events EXCEPT ![cid(h)] = h]
  /\ signalled' = signalled \ {h}
  /\ revent' = IF revent = h THEN None ELSE revent
  /\ HGoto(h, "locking")
  /\ UNCHANGED <<brokerVars, ready, publisher_open, publish_lock,
                 pending_responses, hop, rpc, requests, responses>>

(* Under _lock; a result that is already there sets the new Event.  If the  *)
(* reply thread still holds the handler's previous Event, setting that one  *)
(* no longer matters.                                                       *)
RegisterWaiter(h) ==
  /\ hpc[h] = "registering"
  /\ response_events' = [response_events EXCEPT ![cid(h)] = h]
  /\ signalled' = IF pending_responses[cid(h)] = None THEN signalled \ {h}
                  ELSE signalled \cup {h}
  /\ revent' = IF revent = h THEN None ELSE revent
  /\ HGoto(h, "locking")
  /\ UNCHANGED <<brokerVars, ready, publisher_open, publish_lock,
                 pending_responses, hop, rpc, requests, responses>>

LockPublisher(h) ==
  /\ hpc[h] = "locking"
  /\ publish_lock = None
  /\ publish_lock' = h
  /\ HGoto(h, "publishing")
  /\ UNCHANGED <<brokerVars, ready, publisher_open, pending_responses,
                 response_events, signalled, hop, rpc, revent, requests,
                 responses>>

----------------------------------------------------------------------------
(* _safe_publish_request, with _publish_lock held.                         *)

AfterPublication(h) ==
  /\ ready' = TRUE
  /\ publish_lock' = None
  /\ HGoto(h, "waiting")

PublishSucceeds(h) ==
  /\ hpc[h] \in {"publishing", "republishing"}
  /\ publisher_open
  /\ Publish(hop[h])
  /\ AfterPublication(h)
  /\ UNCHANGED <<publisher_open, pending_responses, response_events,
                 signalled, hop, rpc, revent, requests, responses>>

(* Without publisher confirms a message written to a dead connection that  *)
(* pika still believes in is gone, and nobody knows.                       *)
PublishVanishes(h) ==
  /\ hpc[h] \in {"publishing", "republishing"}
  /\ ~publisher_open
  /\ AfterPublication(h)
  /\ UNCHANGED <<brokerVars, publisher_open, pending_responses,
                 response_events, signalled, hop, rpc, revent, requests,
                 responses>>

(* The first failure rebuilds the publisher, the second one is final. *)
PublishRaises(h) ==
  /\ hpc[h] \in {"publishing", "republishing"}
  /\ ~publisher_open
  /\ \/ /\ hpc[h] = "publishing"
        /\ HGoto(h, "rebuilding")
        /\ UNCHANGED publish_lock
     \/ /\ hpc[h] = "republishing"
        /\ HGoto(h, "failing")
        /\ publish_lock' = None
  /\ UNCHANGED <<brokerVars, ready, publisher_open, pending_responses,
                 response_events, signalled, hop, rpc, revent, requests,
                 responses>>

(* The broker has the message, and basic_publish raises nevertheless. *)
PublishRaisesLate(h) ==
  /\ hpc[h] = "publishing"
  /\ publisher_open
  /\ Publish(hop[h])
  /\ publisher_open' = FALSE
  /\ HGoto(h, "rebuilding")
  /\ UNCHANGED <<ready, publish_lock, pending_responses, response_events,
                 signalled, hop, rpc, revent, requests, responses>>

RebuildPublisher(h) ==
  /\ hpc[h] = "rebuilding"
  /\ rabbit_up
  /\ publisher_open' = TRUE
  /\ ready' = TRUE
  /\ HGoto(h, "republishing")
  /\ UNCHANGED <<brokerVars, publish_lock, pending_responses,
                 response_events, signalled, hop, rpc, revent, requests,
                 responses>>

(* Mutant of RebuildFails: the exception leaves _publish_lock taken. *)
RebuildFailsLocked(h) ==
  /\ hpc[h] = "rebuilding"
  /\ ~rabbit_up
  /\ HGoto(h, "failing")
  /\ UNCHANGED <<brokerVars, ready, publisher_open, publish_lock,
                 pending_responses, response_events, signalled, hop, rpc,
                 revent, requests, responses>>

(* MAX_RETRIES attempts, and the broker is still away. *)
RebuildFails(h) ==
  /\ hpc[h] = "rebuilding"
  /\ ~rabbit_up
  /\ publish_lock' = None
  /\ HGoto(h, "failing")
  /\ UNCHANGED <<brokerVars, ready, publisher_open, pending_responses,
                 response_events, signalled, hop, rpc, revent, requests,
                 responses>>

(* except Exception in _publish_and_wait: _ready goes down without a lock, *)
(* then the waiter is removed under _lock.                                 *)
MarkNotReady(h) ==
  /\ hpc[h] = "failing"
  /\ ready' = FALSE
  /\ HGoto(h, "forgetting")
  /\ UNCHANGED <<brokerVars, publisher_open, publish_lock, pending_responses,
                 response_events, signalled, hop, rpc, revent, requests,
                 responses>>

ForgetWaiter(h) ==
  /\ hpc[h] = "forgetting"
  /\ response_events' = [response_events EXCEPT ![cid(h)] = None]
  /\ Respond(h, 503, None)
  /\ UNCHANGED <<brokerVars, ready, publisher_open, publish_lock,
                 pending_responses, signalled, rpc, revent, requests>>

----------------------------------------------------------------------------
(* _wait_for_result.                                                       *)

Wake(h) ==
  /\ hpc[h] = "waiting"
  /\ h \in signalled
  /\ HGoto(h, "collecting")
  /\ UNCHANGED <<brokerVars, ready, publisher_open, publish_lock,
                 pending_responses, response_events, signalled, hop, rpc,
                 revent, requests, responses>>

(* Mutant of Timeout: a loop around event.wait(), which waits again. *)
WaitAgain(h) ==
  /\ hpc[h] = "waiting"
  /\ UNCHANGED <<brokerVars, gatewayVars>>

(* RESPONSE_TIMEOUT may be over at any moment. *)
Timeout(h) ==
  /\ hpc[h] = "waiting"
  /\ HGoto(h, "collecting")
  /\ UNCHANGED <<brokerVars, ready, publisher_open, publish_lock,
                 pending_responses, response_events, signalled, hop, rpc,
                 revent, requests, responses>>

(* Mutant of CollectResult: after a timeout the Event is not popped. *)
CollectResultOrLeave(h) ==
  /\ hpc[h] = "collecting"
  /\ LET result == pending_responses[cid(h)] IN
       IF result = None
         THEN /\ Respond(h, 504, None)
              /\ UNCHANGED <<response_events, pending_responses>>
         ELSE /\ response_events' = [response_events EXCEPT ![cid(h)] = None]
              /\ pending_responses' =
                   [pending_responses EXCEPT ![cid(h)] = None]
              /\ Respond(h, HttpCode(result), result)
  /\ UNCHANGED <<brokerVars, ready, publisher_open, publish_lock, signalled,
                 rpc, revent, requests>>

CollectResult(h) ==
  /\ hpc[h] = "collecting"
  /\ response_events' = [response_events EXCEPT ![cid(h)] = None]
  /\ pending_responses' = [pending_responses EXCEPT ![cid(h)] = None]
  /\ LET result == pending_responses[cid(h)] IN
       IF result = None THEN Respond(h, 504, None)
       ELSE Respond(h, HttpCode(result), result)
  /\ UNCHANGED <<brokerVars, ready, publisher_open, publish_lock, signalled,
                 rpc, revent, requests>>

----------------------------------------------------------------------------
(* _reply_consumer_thread.                                                 *)

ReplyThreadConnects ==
  /\ rpc = "connecting"
  /\ rabbit_up
  /\ BindReplyQueue
  /\ rpc' = "consuming"
  /\ UNCHANGED <<ready, publisher_open, publish_lock, pending_responses,
                 response_events, signalled, hpc, hop, revent, requests,
                 responses>>

(* Mutant of StoreReply: it hands the reply to whoever waits. *)
StoreReplyForAnyone ==
  /\ rpc = "consuming"
  /\ TakeReply
  /\ \E r \in RequestIds :
       /\ response_events[r] # None
       /\ pending_responses' =
            [pending_responses EXCEPT ![r] = Head(reply_queue)]
       /\ revent' = response_events[r]
  /\ rpc' = "notifying"
  /\ UNCHANGED <<ready, publisher_open, publish_lock, response_events,
                 signalled, hpc, hop, requests, responses>>

(* on_reply under _lock: the result is stored and the Event looked up. *)
StoreReply ==
  /\ rpc = "consuming"
  /\ TakeReply
  /\ LET result == Head(reply_queue) IN
       /\ pending_responses' =
            [pending_responses EXCEPT ![result.request_id] = result]
       /\ revent' = response_events[result.request_id]
  /\ rpc' = "notifying"
  /\ UNCHANGED <<ready, publisher_open, publish_lock, response_events,
                 signalled, hpc, hop, requests, responses>>

(* After _lock: event.set(), and the acknowledgement. *)
NotifyWaiter ==
  /\ rpc = "notifying"
  /\ signalled' = signalled \cup ({revent} \ {None})
  /\ revent' = None
  /\ rpc' = IF reply_bound THEN "consuming" ELSE "connecting"
  /\ UNCHANGED <<brokerVars, ready, publisher_open, publish_lock,
                 pending_responses, response_events, hpc, hop, requests,
                 responses>>

(* The consumer finds its connection gone. *)
ReplyThreadRaises ==
  /\ rpc = "consuming"
  /\ ~reply_bound
  /\ rpc' = "connecting"
  /\ UNCHANGED <<brokerVars, ready, publisher_open, publish_lock,
                 pending_responses, response_events, signalled, hpc, hop,
                 revent, requests, responses>>

----------------------------------------------------------------------------
(* Lost connections.                                                       *)

PublisherDisconnected ==
  /\ publisher_open
  /\ publisher_open' = FALSE
  /\ UNCHANGED <<brokerVars, ready, publish_lock, pending_responses,
                 response_events, signalled, hpc, hop, rpc, revent, requests,
                 responses>>

ReplyThreadDisconnected ==
  /\ reply_bound
  /\ DeleteReplyQueue
  /\ UNCHANGED gatewayVars

HandlerStep(h) ==
  \/ CheckReady(h)
  \/ RegisterWaiter(h)
  \/ LockPublisher(h)
  \/ PublishSucceeds(h)
  \/ PublishVanishes(h)
  \/ PublishRaises(h)
  \/ RebuildPublisher(h)
  \/ RebuildFails(h)
  \/ MarkNotReady(h)
  \/ ForgetWaiter(h)
  \/ Wake(h)
  \/ Timeout(h)
  \/ CollectResult(h)

ReplyThreadStep ==
  \/ ReplyThreadConnects
  \/ StoreReply
  \/ NotifyWaiter
  \/ ReplyThreadRaises
=============================================================================
