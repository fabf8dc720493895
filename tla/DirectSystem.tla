----------------------------- MODULE DirectSystem -----------------------------
(***************************************************************************)
(* The direct architecture: nginx in front of replicas of the REST API     *)
(* (deploy/nginx, adapters/api/rest, apps/direct_api).  nginx may send one *)
(* POST to a second replica although the first one is still at work on it, *)
(* or has sold the ticket and lost the answer (proxy_next_upstream ...     *)
(* non_idempotent).  Each replica runs the handler of a call in a thread,  *)
(* which goes on when nginx, or the client, has stopped waiting.           *)
(***************************************************************************)
EXTENDS BoxOffice, FiniteSets

CONSTANTS
  Calls,        \* the HTTP requests clients send to nginx
  Replicas,     \* the servers of direct_backend
  NEXT_TRIES,   \* proxy_next_upstream_tries
  MAX_FAILS,    \* max_fails
  MaxFaults     \* crashes, timeouts and lost connections in one behaviour

VARIABLES
  purchase,   \* purchase[c]: the operation call c asks for
  upstream,   \* where nginx has call c: "idle", "choosing", a replica, "closed"
  tried,      \* tried[c]: the replicas nginx has sent c to
  reply,      \* reply[c]: the response nginx has for the client, or None
  fails,      \* fails[r]: recent failures of replica r
  alive,      \* alive[r]: the process runs
  handler,    \* handler[c][r]: how far the handler of c at r is
  answer,     \* answer[c][r]: its HTTP response, or None
  abandoned,  \* history: the calls nginx gave up on while they were served
  faults

nginxVars == <<upstream, tried, reply, fails>>
apiVars == <<alive, handler, answer>>
directVars == <<boxOffice, purchase, nginxVars, apiVars, abandoned, faults>>

HandlerPlaces == {"idle", "received", "unprocessed", "answered"}

(* A body is a purchase result; None stands for the others: {"detail": ..} *)
(* of the exception handlers and the HTML page of nginx.                   *)
Response == [code : {200, 400, 409, 500, 502, 504},
             body : PurchaseResult \cup {None}]

Status(code) == [code |-> code, body |-> None]

status_code_from_result(result) ==
  IF result.duplicate \/ result.status = "ACCEPTED" THEN 200
  ELSE IF result.reason \in {"sold_out", "seat_already_sold"} THEN 409 ELSE 400

PurchaseResponse(result) ==
  [code |-> status_code_from_result(result), body |-> result]

DirectInit ==
  /\ BoxOfficeInit
  /\ upstream = [c \in Calls |-> "idle"]
  /\ tried = [c \in Calls |-> {}]
  /\ reply = [c \in Calls |-> None]
  /\ fails = [r \in Replicas |-> 0]
  /\ \E up \in SUBSET Replicas \ {{}} : alive = [r \in Replicas |-> r \in up]
  /\ handler = [c \in Calls |-> [r \in Replicas |-> "idle"]]
  /\ answer = [c \in Calls |-> [r \in Replicas |-> None]]
  /\ abandoned = {}
  /\ faults = 0

Fault == /\ faults < MaxFaults
         /\ faults' = faults + 1

----------------------------------------------------------------------------
(* nginx                                                                   *)

Available(c) == {r \in Replicas \ tried[c] : fails[r] < MAX_FAILS}

Connections(r) == Cardinality({c \in Calls : upstream[c] = r})

LeastConnected(c) ==
  {r \in Available(c) :
     \A other \in Available(c) : Connections(r) <= Connections(other)}

Forward(c) ==
  /\ upstream[c] = "choosing"
  /\ \E r \in LeastConnected(c) :
       /\ alive[r]
       /\ upstream' = [upstream EXCEPT ![c] = r]
       /\ tried' = [tried EXCEPT ![c] = @ \cup {r}]
       /\ handler' = [handler EXCEPT ![c][r] = "received"]
  /\ UNCHANGED <<boxOffice, purchase, reply, fails, alive, answer, abandoned,
                 faults>>

Respond(c, response) ==
  /\ upstream' = [upstream EXCEPT ![c] = "closed"]
  /\ reply' = [reply EXCEPT ![c] = response]

(* proxy_next_upstream: count the failure, then the next replica, or the   *)
(* error once the tries are used up.                                       *)
NextUpstream(c, r, code) ==
  /\ fails' = [fails EXCEPT ![r] = IF @ < MAX_FAILS THEN @ + 1 ELSE @]
  /\ tried' = [tried EXCEPT ![c] = @ \cup {r}]
  /\ IF Cardinality(tried'[c]) < NEXT_TRIES
       THEN /\ upstream' = [upstream EXCEPT ![c] = "choosing"]
            /\ UNCHANGED reply
       ELSE Respond(c, Status(code))
  /\ UNCHANGED <<boxOffice, purchase, apiVars>>

ConnectionRefused(c) ==
  /\ upstream[c] = "choosing"
  /\ \E r \in LeastConnected(c) : ~alive[r] /\ NextUpstream(c, r, 502)
  /\ UNCHANGED <<abandoned, faults>>

(* Mutant of NoLiveUpstreams: nginx waits for fail_timeout when it may     *)
(* still try.                                                              *)
OutOfTries(c) ==
  /\ upstream[c] = "choosing"
  /\ Replicas \ tried[c] = {}
  /\ Respond(c, Status(502))
  /\ UNCHANGED <<boxOffice, purchase, tried, fails, apiVars, abandoned, faults>>

NoLiveUpstreams(c) ==
  /\ upstream[c] = "choosing"
  /\ Available(c) = {}
  /\ Respond(c, Status(502))
  /\ UNCHANGED <<boxOffice, purchase, tried, fails, apiVars, abandoned, faults>>

(* The replica that served c died. *)
UpstreamError(c) ==
  /\ \E r \in Replicas : /\ upstream[c] = r
                         /\ handler[c][r] = "idle"
                         /\ NextUpstream(c, r, 502)
  /\ UNCHANGED <<abandoned, faults>>

(* proxy_read_timeout passes, or the connection to the replica breaks: the *)
(* replica knows nothing of it.                                            *)
UpstreamLost(c) ==
  /\ Fault
  /\ \E r \in Replicas, code \in {502, 504} :
       /\ upstream[c] = r
       /\ handler[c][r] # "idle"
       /\ NextUpstream(c, r, code)
  /\ abandoned' = abandoned \cup {c}

(* Mutant of UpstreamAnswers: the replica nginx gave up on answers as well. *)
AnyoneAnswers(c) ==
  /\ \E r \in tried[c] : /\ handler[c][r] = "answered"
                         /\ Respond(c, answer[c][r])
                         /\ handler' = [handler EXCEPT ![c][r] = "idle"]
                         /\ answer' = [answer EXCEPT ![c][r] = None]
  /\ UNCHANGED <<boxOffice, purchase, tried, fails, alive, abandoned, faults>>

(* 500 is not among the statuses proxy_next_upstream lists. *)
UpstreamAnswers(c) ==
  /\ \E r \in Replicas : /\ upstream[c] = r
                         /\ handler[c][r] = "answered"
                         /\ Respond(c, answer[c][r])
                         /\ handler' = [handler EXCEPT ![c][r] = "idle"]
                         /\ answer' = [answer EXCEPT ![c][r] = None]
  /\ UNCHANGED <<boxOffice, purchase, tried, fails, alive, abandoned, faults>>

FailTimeout(r) ==
  /\ fails[r] > 0
  /\ fails' = [fails EXCEPT ![r] = 0]
  /\ UNCHANGED <<boxOffice, purchase, upstream, tried, reply, apiVars,
                 abandoned, faults>>

(* The client closes its connection: nginx tries no further. *)
ClientCloses(c) == upstream' = [upstream EXCEPT ![c] = "closed"]

----------------------------------------------------------------------------
(* The handler of a call at a replica                                      *)

AtReplica(c, r, place) ==
  /\ handler' = [handler EXCEPT ![c][r] = place]
  /\ UNCHANGED <<purchase, nginxVars, alive, abandoned>>

Answers(c, r, response) ==
  /\ AtReplica(c, r, "answered")
  /\ answer' = [answer EXCEPT ![c][r] = response]

(* InvalidInputError *)
InvalidInput(c, r) ==
  /\ handler[c][r] = "received"
  /\ ~ValidInput(purchase[c])
  /\ Answers(c, r, Status(400))
  /\ UNCHANGED <<boxOffice, faults>>

(* Mutant of AlreadyProcessed: only a refused EXEC looks for the sale. *)
NeverProcessed(c, r) ==
  /\ handler[c][r] = "received"
  /\ ValidInput(purchase[c])
  /\ AtReplica(c, r, "unprocessed")
  /\ UNCHANGED <<boxOffice, answer, faults>>

(* The repository's first read: has the request been processed?            *)
AlreadyProcessed(c, r) ==
  /\ handler[c][r] = "received"
  /\ ValidInput(purchase[c])
  /\ \E result \in ResultsFor(purchase[c]) :
       /\ Repeat(purchase[c], result)
       /\ Answers(c, r, PurchaseResponse(result))
  /\ UNCHANGED faults

NotProcessed(c, r) ==
  /\ handler[c][r] = "received"
  /\ ValidInput(purchase[c])
  /\ ledger[purchase[c].request_id] = None
  /\ AtReplica(c, r, "unprocessed")
  /\ UNCHANGED <<boxOffice, answer, faults>>

(* The rest of the purchase: the early return on the stock, or the EXEC.   *)
Buy(c, r) ==
  /\ handler[c][r] = "unprocessed"
  /\ \E result \in ResultsFor(purchase[c]) :
       /\ Sell(purchase[c], result) \/ Refuse(purchase[c], result)
       /\ Answers(c, r, PurchaseResponse(result))
  /\ UNCHANGED faults

(* Mutant of WatchError: the retry goes on with what it had read.          *)
WatchErrorUnread(c, r) ==
  /\ handler[c][r] = "unprocessed"
  /\ ledger[purchase[c].request_id] # None
  /\ AtReplica(c, r, "unprocessed")
  /\ UNCHANGED <<boxOffice, answer, faults>>

(* The EXEC is refused, as the request has been sold since.                *)
WatchError(c, r) ==
  /\ handler[c][r] = "unprocessed"
  /\ ledger[purchase[c].request_id] # None
  /\ AtReplica(c, r, "received")
  /\ UNCHANGED <<boxOffice, answer, faults>>

(* The reply of an EXEC is lost: redis-py makes a WatchError of it.        *)
SaleUnanswered(c, r) ==
  /\ handler[c][r] = "unprocessed"
  /\ Fault
  /\ \E result \in ResultsFor(purchase[c]) : Sell(purchase[c], result)
  /\ AtReplica(c, r, "received")
  /\ UNCHANGED answer

(* redis-py's ConnectionError is not the RedisConnectionError that has a   *)
(* handler (503): it is the unexpected one.                                *)
RedisFails(c, r) ==
  /\ handler[c][r] \in {"received", "unprocessed"}
  /\ ValidInput(purchase[c])
  /\ Fault
  /\ Answers(c, r, Status(500))
  /\ UNCHANGED boxOffice

(* Nobody waits for the response any more. *)
AnswerDropped(c, r) ==
  /\ handler[c][r] = "answered"
  /\ upstream[c] # r
  /\ AtReplica(c, r, "idle")
  /\ answer' = [answer EXCEPT ![c][r] = None]
  /\ UNCHANGED <<boxOffice, faults>>

----------------------------------------------------------------------------
(* What happens to a replica                                               *)

Crash(r) ==
  /\ Fault
  /\ alive[r]
  /\ alive' = [alive EXCEPT ![r] = FALSE]
  /\ handler' = [c \in Calls |-> [handler[c] EXCEPT ![r] = "idle"]]
  /\ answer' = [c \in Calls |-> [answer[c] EXCEPT ![r] = None]]
  /\ UNCHANGED <<boxOffice, purchase, nginxVars, abandoned>>

Restart(r) ==
  /\ ~alive[r]
  /\ alive' = [alive EXCEPT ![r] = TRUE]
  /\ UNCHANGED <<boxOffice, purchase, nginxVars, handler, answer, abandoned,
                 faults>>

----------------------------------------------------------------------------
(* The query routes, each one read of Redis.                               *)

get_request_result(id) ==
  [found |-> ledger[id] # None, result |-> ledger[id]]

(* What the routes of the stock, /inventory and /stats, tell. *)
get_available_count(type) ==
  IF type = "unnumbered" THEN stock
  ELSE Cardinality({s \in Offered : owner[s] = None})

get_seat_status(s) ==
  [status |-> IF owner[s] = None THEN "AVAILABLE" ELSE "SOLD",
   owner  |-> owner[s]]

get_client_purchases(client) ==
  {ledger[id] : id \in {i \in RequestIds :
                          ledger[i] # None /\ ledger[i].client_id = client}}

----------------------------------------------------------------------------

NginxStep(c) == \/ Forward(c) \/ ConnectionRefused(c) \/ NoLiveUpstreams(c)
                \/ UpstreamError(c) \/ UpstreamAnswers(c)

HandlerStep(c, r) == \/ InvalidInput(c, r) \/ AlreadyProcessed(c, r)
                     \/ NotProcessed(c, r) \/ Buy(c, r) \/ WatchError(c, r)
                     \/ AnswerDropped(c, r)

DirectFault == \/ \E c \in Calls : UpstreamLost(c)
               \/ \E c \in Calls, r \in Replicas :
                    SaleUnanswered(c, r) \/ RedisFails(c, r)
               \/ \E r \in Replicas : FailTimeout(r) \/ Crash(r) \/ Restart(r)

DirectStep == \/ \E c \in Calls : NginxStep(c)
              \/ \E c \in Calls, r \in Replicas : HandlerStep(c, r)
              \/ DirectFault

DirectTypeOK ==
  /\ stock \in 0..SeededTickets
  /\ owner \in [Offered -> ClientIds \cup {None}]
  /\ ledger \in [RequestIds -> PurchaseResult \cup {None}]
  /\ upstream \in [Calls -> {"idle", "choosing", "closed"} \cup Replicas]
  /\ tried \in [Calls -> SUBSET Replicas]
  /\ reply \in [Calls -> Response \cup {None}]
  /\ fails \in [Replicas -> 0..MAX_FAILS]
  /\ alive \in [Replicas -> BOOLEAN]
  /\ handler \in [Calls -> [Replicas -> HandlerPlaces]]
  /\ answer \in [Calls -> [Replicas -> Response \cup {None}]]
  /\ abandoned \subseteq Calls
  /\ faults \in 0..MaxFaults

(* nginx asks for a response to one call from at least one replica and at  *)
(* most NEXT_TRIES; a crash needs somebody to be there.                     *)
ASSUME DirectAssumption ==
  /\ NEXT_TRIES \in Nat \ {0}
  /\ MAX_FAILS \in Nat \ {0}
  /\ MaxFaults \in Nat
  /\ Replicas \cap {"idle", "choosing", "closed"} = {}
=============================================================================
