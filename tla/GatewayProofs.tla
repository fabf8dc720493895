----------------------------- MODULE GatewayProofs -----------------------------
(***************************************************************************)
(* The locks and Events of the gateway, for any number of handlers,        *)
(* requests, workers and faults.  Nothing outside the gateway touches      *)
(* them, so that only its own steps matter.                                *)
(***************************************************************************)
EXTENDS IndirectSystem, TLAPS

events == <<publish_lock, pending_responses, response_events, signalled, hpc,
            hop, rpc, revent>>

(* The steps of Next, as far as the gateway is concerned. *)
LEMMA GatewaySteps ==
  ASSUME [Next]_vars
  PROVE  \/ \E h \in Handlers, o \in Ops : HttpRequest(h, o)
         \/ \E h \in Handlers : HandlerStep(h) \/ PublishRaisesLate(h)
         \/ ReplyThreadStep
         \/ UNCHANGED events
BY DEF Next, GatewayAlone, WorkerAlone, Recovery, Fault, Outage,
       PublisherDisconnected, ReplyThreadDisconnected, Quiescent, vars,
       gatewayVars, events

Typed ==
  /\ hpc \in [Handlers -> HandlerPlaces]
  /\ hop \in [Handlers -> Ops \cup {None}]
  /\ \A h \in Handlers : hpc[h] # "idle" => hop[h] \in Ops
  /\ response_events \in [RequestIds -> Handlers \cup {None}]
  /\ pending_responses = [r \in RequestIds |-> pending_responses[r]]

LEMMA TypedInit == Init => Typed
BY DEF Init, GatewayInit, Typed, HandlerPlaces

LEMMA TypedStep == Typed /\ [Next]_vars => Typed'
<1> SUFFICES ASSUME Typed, [Next]_vars PROVE Typed'
  OBVIOUS
<1> USE DEF Typed, HandlerPlaces, HGoto
<1>1. ASSUME NEW h \in Handlers, NEW o \in Ops, HttpRequest(h, o) PROVE Typed'
  BY <1>1 DEF HttpRequest
<1>2. ASSUME NEW h \in Handlers, HandlerStep(h) \/ PublishRaisesLate(h)
      PROVE  Typed'
  <2>1. CASE CheckReady(h)
    BY <2>1 DEF CheckReady, Respond
  <2>2. CASE RegisterWaiter(h)
    BY <2>2 DEF RegisterWaiter
  <2>3. CASE ForgetWaiter(h) \/ CollectResult(h)
    BY <2>3 DEF ForgetWaiter, CollectResult, Respond
  <2>4. CASE \/ LockPublisher(h) \/ PublishSucceeds(h) \/ PublishVanishes(h)
             \/ PublishRaises(h) \/ RebuildPublisher(h) \/ RebuildFails(h)
             \/ MarkNotReady(h) \/ Wake(h) \/ Timeout(h) \/ PublishRaisesLate(h)
    BY <2>4 DEF LockPublisher, PublishSucceeds, PublishVanishes, PublishRaises,
                RebuildPublisher, RebuildFails, MarkNotReady, Wake, Timeout,
                PublishRaisesLate, AfterPublication
  <2> QED
    BY <1>2, <2>1, <2>2, <2>3, <2>4 DEF HandlerStep
<1>3. CASE ReplyThreadStep
  BY <1>3 DEF ReplyThreadStep, ReplyThreadConnects, StoreReply, NotifyWaiter,
              ReplyThreadRaises
<1>4. CASE UNCHANGED events
  BY <1>4 DEF events
<1> QED
  BY <1>1, <1>2, <1>3, <1>4, GatewaySteps

----------------------------------------------------------------------------
(* The publisher *)

LEMMA ExclusiveStep ==
  ASSUME Typed, PublisherExclusive, [Next]_vars
  PROVE  PublisherExclusive'
<1> USE GatewayAssumption DEF Typed, PublisherExclusive, HGoto
<1>1. ASSUME NEW h \in Handlers, NEW o \in Ops, HttpRequest(h, o)
      PROVE  PublisherExclusive'
  BY <1>1 DEF HttpRequest
<1>2. ASSUME NEW h \in Handlers, HandlerStep(h) \/ PublishRaisesLate(h)
      PROVE  PublisherExclusive'
  <2>1. CASE CheckReady(h) \/ ForgetWaiter(h) \/ CollectResult(h)
    BY <2>1 DEF CheckReady, ForgetWaiter, CollectResult, Respond
  <2>2. CASE RegisterWaiter(h) \/ MarkNotReady(h) \/ Wake(h) \/ Timeout(h)
    BY <2>2 DEF RegisterWaiter, MarkNotReady, Wake, Timeout
  <2>3. CASE LockPublisher(h)
    BY <2>3 DEF LockPublisher
  <2>4. CASE PublishSucceeds(h) \/ PublishVanishes(h)
    BY <2>4 DEF PublishSucceeds, PublishVanishes, AfterPublication
  <2>5. CASE PublishRaises(h) \/ PublishRaisesLate(h)
    BY <2>5 DEF PublishRaises, PublishRaisesLate
  <2>6. CASE RebuildPublisher(h) \/ RebuildFails(h)
    BY <2>6 DEF RebuildPublisher, RebuildFails
  <2> QED
    BY <1>2, <2>1, <2>2, <2>3, <2>4, <2>5, <2>6 DEF HandlerStep
<1>3. CASE ReplyThreadStep
  BY <1>3 DEF ReplyThreadStep, ReplyThreadConnects, StoreReply, NotifyWaiter,
              ReplyThreadRaises
<1>4. CASE UNCHANGED events
  BY <1>4 DEF events
<1> QED
  BY <1>1, <1>2, <1>3, <1>4, GatewaySteps

(* The publisher is used by the holder of _publish_lock alone, and no way  *)
(* out of a publication keeps the lock.                                    *)
THEOREM PublisherLocked == Spec => []PublisherExclusive
<1>1. Init => PublisherExclusive
  BY GatewayAssumption DEF Init, GatewayInit, PublisherExclusive
<1>2. Spec => []Typed
  BY TypedInit, TypedStep, PTL DEF Spec
<1> QED
  BY <1>1, <1>2, ExclusiveStep, PTL DEF Spec

----------------------------------------------------------------------------
(* The Events *)

LEMMA EventsStep ==
  ASSUME Typed, EventsHaveWaiters, [Next]_vars
  PROVE  EventsHaveWaiters'
<1> USE DEF Typed, EventsHaveWaiters, HGoto, cid
<1>1. ASSUME NEW h \in Handlers, NEW o \in Ops, HttpRequest(h, o)
      PROVE  EventsHaveWaiters'
  BY <1>1 DEF HttpRequest
<1>2. ASSUME NEW h \in Handlers, HandlerStep(h) \/ PublishRaisesLate(h)
      PROVE  EventsHaveWaiters'
  <2>1. CASE CheckReady(h)
    BY <2>1 DEF CheckReady, Respond
  <2>2. CASE RegisterWaiter(h)
    BY <2>2 DEF RegisterWaiter
  <2>3. CASE ForgetWaiter(h) \/ CollectResult(h)
    BY <2>3 DEF ForgetWaiter, CollectResult, Respond
  <2>4. CASE \/ LockPublisher(h) \/ PublishSucceeds(h) \/ PublishVanishes(h)
             \/ PublishRaises(h) \/ RebuildPublisher(h) \/ RebuildFails(h)
             \/ MarkNotReady(h) \/ Wake(h) \/ Timeout(h) \/ PublishRaisesLate(h)
    BY <2>4 DEF LockPublisher, PublishSucceeds, PublishVanishes, PublishRaises,
                RebuildPublisher, RebuildFails, MarkNotReady, Wake, Timeout,
                PublishRaisesLate, AfterPublication
  <2> QED
    BY <1>2, <2>1, <2>2, <2>3, <2>4 DEF HandlerStep
<1>3. CASE ReplyThreadStep
  BY <1>3 DEF ReplyThreadStep, ReplyThreadConnects, StoreReply, NotifyWaiter,
              ReplyThreadRaises
<1>4. CASE UNCHANGED events
  BY <1>4 DEF events
<1> QED
  BY <1>1, <1>2, <1>3, <1>4, GatewaySteps

(* An Event in _response_events belongs to a handler that still works on   *)
(* that request, also where requests share their request_id.               *)
THEOREM EventsBelong == Spec => []EventsHaveWaiters
<1>1. Init => EventsHaveWaiters
  BY DEF Init, GatewayInit, EventsHaveWaiters
<1>2. Spec => []Typed
  BY TypedInit, TypedStep, PTL DEF Spec
<1> QED
  BY <1>1, <1>2, EventsStep, PTL DEF Spec

(* Requests in progress have request_ids of their own.                     *)
OwnIds ==
  \A g, h \in Handlers :
    g # h /\ hpc[g] # "idle" /\ hpc[h] # "idle" => cid(g) # cid(h)

LEMMA OwnIdsStep ==
  ASSUME ~SharedIds, Typed, OwnIds, [Next]_vars
  PROVE  OwnIds'
<1> USE DEF Typed, OwnIds, HGoto, cid
<1>1. ASSUME NEW h \in Handlers, NEW o \in Ops, HttpRequest(h, o)
      PROVE  OwnIds'
  BY <1>1 DEF HttpRequest
<1>2. ASSUME NEW h \in Handlers, HandlerStep(h) \/ PublishRaisesLate(h)
      PROVE  OwnIds'
  <2>1. CASE CheckReady(h)
    BY <2>1 DEF CheckReady, Respond
  <2>2. CASE ForgetWaiter(h) \/ CollectResult(h)
    BY <2>2 DEF ForgetWaiter, CollectResult, Respond
  <2>3. CASE \/ RegisterWaiter(h) \/ LockPublisher(h) \/ PublishSucceeds(h)
             \/ PublishVanishes(h) \/ PublishRaises(h) \/ RebuildPublisher(h)
             \/ RebuildFails(h) \/ MarkNotReady(h) \/ Wake(h) \/ Timeout(h)
             \/ PublishRaisesLate(h)
    BY <2>3 DEF RegisterWaiter, LockPublisher, PublishSucceeds,
                PublishVanishes, PublishRaises, RebuildPublisher, RebuildFails,
                MarkNotReady, Wake, Timeout, PublishRaisesLate,
                AfterPublication
  <2> QED
    BY <1>2, <2>1, <2>2, <2>3 DEF HandlerStep
<1>3. CASE ReplyThreadStep
  BY <1>3 DEF ReplyThreadStep, ReplyThreadConnects, StoreReply, NotifyWaiter,
              ReplyThreadRaises
<1>4. CASE UNCHANGED events
  BY <1>4 DEF events
<1> QED
  BY <1>1, <1>2, <1>3, <1>4, GatewaySteps

LEMMA WakeupStep ==
  ASSUME Typed, OwnIds, NoLostWakeup, [Next]_vars
  PROVE  NoLostWakeup'
<1> USE GatewayAssumption
    DEF Typed, OwnIds, NoLostWakeup, HGoto, cid
<1>1. ASSUME NEW h \in Handlers, NEW o \in Ops, HttpRequest(h, o)
      PROVE  NoLostWakeup'
  BY <1>1 DEF HttpRequest
<1>2. ASSUME NEW h \in Handlers, HandlerStep(h) \/ PublishRaisesLate(h)
      PROVE  NoLostWakeup'
  <2>1. CASE CheckReady(h)
    BY <2>1 DEF CheckReady, Respond
  <2>2. CASE RegisterWaiter(h)
    BY <2>2 DEF RegisterWaiter
  <2>3. CASE ForgetWaiter(h) \/ CollectResult(h)
    BY <2>3 DEF ForgetWaiter, CollectResult, Respond
  <2>4. CASE \/ LockPublisher(h) \/ PublishSucceeds(h) \/ PublishVanishes(h)
             \/ PublishRaises(h) \/ RebuildPublisher(h) \/ RebuildFails(h)
             \/ MarkNotReady(h) \/ Wake(h) \/ Timeout(h) \/ PublishRaisesLate(h)
    BY <2>4 DEF LockPublisher, PublishSucceeds, PublishVanishes, PublishRaises,
                RebuildPublisher, RebuildFails, MarkNotReady, Wake, Timeout,
                PublishRaisesLate, AfterPublication
  <2> QED
    BY <1>2, <2>1, <2>2, <2>3, <2>4 DEF HandlerStep
<1>3. CASE StoreReply
  BY <1>3 DEF StoreReply
<1>4. CASE NotifyWaiter
  BY <1>4 DEF NotifyWaiter
<1>5. CASE ReplyThreadConnects \/ ReplyThreadRaises
  BY <1>5 DEF ReplyThreadConnects, ReplyThreadRaises
<1>6. CASE UNCHANGED events
  BY <1>6 DEF events
<1> QED
  BY <1>1, <1>2, <1>3, <1>4, <1>5, <1>6, GatewaySteps DEF ReplyThreadStep

(* Where no request_id is sent again while it is in progress, a handler    *)
(* whose reply has come is woken, whenever the reply came.                 *)
THEOREM NobodySleepsOn == ASSUME ~SharedIds PROVE Spec => []NoLostWakeup
<1>1. Init => OwnIds /\ NoLostWakeup
  BY DEF Init, GatewayInit, OwnIds, NoLostWakeup
<1>2. Spec => []Typed
  BY TypedInit, TypedStep, PTL DEF Spec
<1>3. Typed /\ OwnIds /\ [Next]_vars => OwnIds'
  BY OwnIdsStep
<1>4. Typed /\ OwnIds /\ NoLostWakeup /\ [Next]_vars => NoLostWakeup'
  BY WakeupStep
<1> QED
  BY <1>1, <1>2, <1>3, <1>4, PTL DEF Spec
=============================================================================
