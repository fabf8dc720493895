------------------------------- MODULE Worker --------------------------------
(***************************************************************************)
(* The worker processes of the indirect architecture (apps/worker/main.py, *)
(* rabbitmq/consumer.py): the connection loop of main(), and on_message,   *)
(* which buys, replies and acknowledges, in that order.  A purchase is one *)
(* step of the box office; everything around it may be cut short by a lost *)
(* connection or by a signal.                                              *)
(***************************************************************************)
EXTENDS Broker, BoxOffice

VARIABLES
  wpc,        \* where the worker is
  connected,  \* its connection to RabbitMQ is open
  wmsg,       \* the purchase on_message is working on, or None
  wresult,    \* the result it got, or None
  shutdown    \* _shutdown_requested

workerVars == <<wpc, connected, wmsg, wresult, shutdown>>

WorkerPlaces ==
  {"connecting", "consuming", "processing", "replying", "acking", "sleeping",
   "exited"}

WorkerInit ==
  /\ wpc = [w \in Workers |-> "connecting"]
  /\ connected = [w \in Workers |-> FALSE]
  /\ wmsg = [w \in Workers |-> None]
  /\ wresult = [w \in Workers |-> None]
  /\ shutdown = [w \in Workers |-> FALSE]

WGoto(w, l) == wpc' = [wpc EXCEPT ![w] = l]

----------------------------------------------------------------------------
(* main(): connect, consume until something raises, sleep, again.          *)

WorkerConnects(w) ==
  /\ wpc[w] = "connecting"
  /\ rabbit_up
  /\ connected' = [connected EXCEPT ![w] = TRUE]
  /\ WGoto(w, "consuming")
  /\ UNCHANGED <<brokerVars, boxOffice, wmsg, wresult, shutdown>>

(* The except branch of the loop: a requested shutdown ends it here. *)
LoopRaises(w) ==
  /\ WGoto(w, IF shutdown[w] THEN "exited" ELSE "sleeping")
  /\ wmsg' = [wmsg EXCEPT ![w] = None]
  /\ wresult' = [wresult EXCEPT ![w] = None]
  /\ UNCHANGED <<connected, shutdown>>

(* Ten attempts failed. *)
WorkerGivesUp(w) ==
  /\ wpc[w] = "connecting"
  /\ ~rabbit_up
  /\ LoopRaises(w)
  /\ UNCHANGED <<brokerVars, boxOffice>>

WorkerWakes(w) ==
  /\ wpc[w] = "sleeping"
  /\ WGoto(w, IF shutdown[w] THEN "exited" ELSE "connecting")
  /\ UNCHANGED <<brokerVars, boxOffice, connected, wmsg, wresult, shutdown>>

(* Mutant of ConsumingRaises: the loop goes on with the connection it had. *)
ConsumesUnconnected(w) ==
  /\ wpc[w] = "consuming"
  /\ ~connected[w]
  /\ UNCHANGED <<brokerVars, boxOffice, workerVars>>

(* start_consuming raises when it finds the connection gone. *)
ConsumingRaises(w) ==
  /\ wpc[w] = "consuming"
  /\ ~connected[w]
  /\ LoopRaises(w)
  /\ UNCHANGED <<brokerVars, boxOffice>>

----------------------------------------------------------------------------
(* on_message                                                              *)

(* Mutant of OnMessage: auto_ack=True. *)
OnMessageAutoAck(w) ==
  /\ wpc[w] = "consuming"
  /\ connected[w]
  /\ rabbit_up
  /\ purchase_requests # <<>>
  /\ purchase_requests' = Tail(purchase_requests)
  /\ wmsg' = [wmsg EXCEPT ![w] = Head(purchase_requests)]
  /\ WGoto(w, "processing")
  /\ UNCHANGED <<rabbit_up, unacked, reply_queue, reply_bound, boxOffice,
                 connected, wresult, shutdown>>

OnMessage(w) ==
  /\ wpc[w] = "consuming"
  /\ connected[w]
  /\ DeliverTo(w)
  /\ wmsg' = [wmsg EXCEPT ![w] = unacked'[w]]
  /\ WGoto(w, "processing")
  /\ UNCHANGED <<boxOffice, connected, wresult, shutdown>>

(* process_message turns every exception of the service into a rejection. *)
InternalError(o) ==
  [NoResult(o) EXCEPT !.status = "REJECTED", !.reason = "internal_error",
                      !.ticket_type = None, !.seat_id = None]

(* Mutant of Processed: without the except clause of process_message.      *)
ExceptionEscapes(o, result) == result

Processed(o, result) ==
  IF result.status = "ERROR" THEN InternalError(o) ELSE result

Answers(w, result) ==
  /\ wresult' = [wresult EXCEPT ![w] = Processed(wmsg[w], result)]
  /\ WGoto(w, "replying")
  /\ UNCHANGED <<brokerVars, connected, wmsg, shutdown>>

WorkerBuys(w) ==
  /\ wpc[w] = "processing"
  /\ ValidInput(wmsg[w])
  /\ \E result \in ResultsFor(wmsg[w]) :
       /\ \/ Sell(wmsg[w], result)
          \/ Repeat(wmsg[w], result)
          \/ Refuse(wmsg[w], result)
       /\ Answers(w, result)

(* Redis fails before, or after, the sale took effect. *)
RedisFails(w) ==
  /\ wpc[w] = "processing"
  /\ ValidInput(wmsg[w])
  /\ \E result \in ResultsFor(wmsg[w]) :
       /\ Fail(wmsg[w], result)
       /\ Answers(w, result)

SaleUnanswered(w) ==
  /\ wpc[w] = "processing"
  /\ ValidInput(wmsg[w])
  /\ \E result \in ResultsFor(wmsg[w]) : Sell(wmsg[w], result)
  /\ UNCHANGED <<brokerVars, workerVars>>

(* InvalidInputError is an exception like any other. *)
WorkerRefusesInput(w) ==
  /\ wpc[w] = "processing"
  /\ ~ValidInput(wmsg[w])
  /\ Answers(w, NoResult(wmsg[w]))
  /\ UNCHANGED boxOffice

WorkerReplies(w) ==
  /\ wpc[w] = "replying"
  /\ connected[w]
  /\ PublishReply(wresult[w])
  /\ WGoto(w, "acking")
  /\ UNCHANGED <<boxOffice, connected, wmsg, wresult, shutdown>>

WorkerAcks(w) ==
  /\ wpc[w] = "acking"
  /\ connected[w]
  /\ AckBy(w)
  /\ WGoto(w, "consuming")
  /\ wmsg' = [wmsg EXCEPT ![w] = None]
  /\ wresult' = [wresult EXCEPT ![w] = None]
  /\ UNCHANGED <<boxOffice, connected, shutdown>>

(* On a closed connection basic_publish or basic_ack raises, and so does   *)
(* the basic_nack of the except branch: the exception leaves on_message.   *)
OnMessageRaises(w) ==
  /\ wpc[w] \in {"replying", "acking"}
  /\ ~connected[w]
  /\ LoopRaises(w)
  /\ UNCHANGED <<brokerVars, boxOffice>>

----------------------------------------------------------------------------
(* What happens to a worker.                                               *)

WorkerDisconnected(w) ==
  /\ connected[w]
  /\ connected' = [connected EXCEPT ![w] = FALSE]
  /\ RequeueOf(w)
  /\ UNCHANGED <<boxOffice, wpc, wmsg, wresult, shutdown>>

(* handle_signal only sets the flag. *)
SigTerm(w) ==
  /\ wpc[w] # "exited"
  /\ ~shutdown[w]
  /\ shutdown' = [shutdown EXCEPT ![w] = TRUE]
  /\ UNCHANGED <<brokerVars, boxOffice, wpc, connected, wmsg, wresult>>

SigKill(w) ==
  /\ wpc[w] # "exited"
  /\ WGoto(w, "exited")
  /\ connected' = [connected EXCEPT ![w] = FALSE]
  /\ wmsg' = [wmsg EXCEPT ![w] = None]
  /\ wresult' = [wresult EXCEPT ![w] = None]
  /\ RequeueOf(w)
  /\ UNCHANGED <<boxOffice, shutdown>>

(* The scripts start the process again. *)
WorkerStarts(w) ==
  /\ wpc[w] = "exited"
  /\ WGoto(w, "connecting")
  /\ shutdown' = [shutdown EXCEPT ![w] = FALSE]
  /\ UNCHANGED <<brokerVars, boxOffice, connected, wmsg, wresult>>

(* The steps a running worker takes by itself. *)
WorkerStep(w) ==
  \/ WorkerConnects(w)
  \/ WorkerGivesUp(w)
  \/ WorkerWakes(w)
  \/ ConsumingRaises(w)
  \/ OnMessage(w)
  \/ WorkerBuys(w)
  \/ WorkerRefusesInput(w)
  \/ WorkerReplies(w)
  \/ WorkerAcks(w)
  \/ OnMessageRaises(w)
=============================================================================
