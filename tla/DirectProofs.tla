----------------------------- MODULE DirectProofs -----------------------------
(***************************************************************************)
(* Theorems about Benchmark, for any number of replicas, calls and faults. *)
(***************************************************************************)
EXTENDS Benchmark, FiniteSetTheorems, TLAPS

(* The calls in progress are operations of the file, and a handler is past *)
(* the first read of the repository only with a valid purchase.            *)
Requests ==
  /\ file \in Files
  /\ purchase = [c \in Calls |-> IF c \in Operations THEN file[c] ELSE None]
  /\ \A c \in Calls : upstream[c] # "idle" => c \in Operations
  /\ \A c \in Calls, r \in Replicas :
       /\ handler[c][r] # "idle" => upstream[c] # "idle"
       /\ handler[c][r] = "unprocessed" => ValidInput(purchase[c])

Typed == TypeOK /\ Requests

----------------------------------------------------------------------------
(* The values that are built.                                              *)

LEMMA OperationTypes ==
  ASSUME Requests, NEW c \in Operations
  PROVE  /\ c \in Calls
         /\ purchase[c] = file[c]
         /\ file[c] \in Ops
         /\ file[c] \in Operation
         /\ \A d \in Operations :
              d # c => file[d].request_id # file[c].request_id
<1>1. DOMAIN file \subseteq Calls /\ c \in DOMAIN file /\ c \in Calls
  BY BenchmarkAssumption DEF Requests, Operations, OperationLines
<1>2. file[c] \in Ops
  <2>1. file[c] \in Ops \cup {Comment, Garbage}
    BY <1>1, BenchmarkAssumption DEF Requests
  <2> QED
    BY <2>1 DEF Operations, OperationLines
<1>3. \A d \in Operations :
        d # c => file[d].request_id # file[c].request_id
  BY BenchmarkAssumption DEF Requests, Operations
<1> QED
  BY <1>1, <1>2, <1>3, DomainAssumption DEF Requests

LEMMA ValidOperation ==
  ASSUME Requests, NEW c \in Operations, ValidInput(file[c])
  PROVE  /\ file[c].ticket_type \in TicketType
         /\ file[c].client_id \in ClientIds
         /\ file[c].request_id \in RequestIds
         /\ file[c].seat_id \in SeatIds \cup {None}
         /\ Numbered(file[c]) => file[c].seat_id \in SeatIds
         /\ Unnumbered(file[c]) => file[c].seat_id = None
         /\ Numbered(file[c]) \/ Unnumbered(file[c])
<1>1. file[c] \in Ops /\ file[c] \in Operation
  BY OperationTypes
<1> QED
  BY <1>1, DomainAssumption
     DEF ValidInput, validate_common_input, validate_seat_id, Operation,
         TicketType, Unnumbered, Numbered

(* The results a handler may come to. *)
LEMMA ResultTypes ==
  ASSUME Typed, NEW c \in Operations, ValidInput(file[c]),
         NEW result \in ResultsFor(file[c])
  PROVE  result \in PurchaseResult
<1> DEFINE o == file[c]
<1>1. \A left \in Int \cup {None} : accepted(o, left) \in PurchaseResult
  BY ValidOperation DEF Typed, accepted, PurchaseResult, PurchaseStatus
<1>2. \A why \in {"sold_out", "invalid_seat", "seat_already_sold"} :
        rejected(o, why) \in PurchaseResult
  BY ValidOperation DEF Typed, rejected, PurchaseResult, PurchaseStatus
<1>3. NoResult(o) \in PurchaseResult
  BY ValidOperation DEF Typed, NoResult, rejected, PurchaseResult, PurchaseStatus
<1>4. \A stored \in PurchaseResult : Replayed(o, stored) \in PurchaseResult
  <2>1. o.request_id \in RequestIds
    BY ValidOperation DEF Typed
  <2> HIDE DEF o
  <2> QED
    BY <2>1, ZenonT(60) DEF Replayed, PurchaseResult, PurchaseStatus
<1>5. stock - 1 \in Int
  BY BenchmarkAssumption, DomainAssumption DEF Typed, TypeOK, DirectTypeOK
<1>6. \A sale \in {ledger[o.request_id]} \ {None} : sale \in PurchaseResult
  BY ValidOperation DEF Typed, TypeOK, DirectTypeOK
<1> QED
  BY <1>1, <1>2, <1>3, <1>4, <1>5, <1>6 DEF ResultsFor

LEMMA ResponseTypes ==
  /\ \A code \in {400, 500, 502, 504} : Status(code) \in Response
  /\ \A result \in PurchaseResult : PurchaseResponse(result) \in Response
<1>1. \A code \in {400, 500, 502, 504} : Status(code) \in Response
  BY DEF Status, Response
<1>2. \A result : status_code_from_result(result) \in {200, 400, 409}
  BY DEF status_code_from_result
<1>3. \A result \in PurchaseResult : PurchaseResponse(result) \in Response
  BY <1>2 DEF PurchaseResponse, Response
<1> QED
  BY <1>1, <1>3

(* What the box office does with a purchase keeps its types. *)
LEMMA BoxOfficeTypes ==
  ASSUME Typed, NEW c \in Operations, ValidInput(file[c]),
         NEW result \in ResultsFor(file[c]),
         \/ Sell(file[c], result)
         \/ Refuse(file[c], result)
         \/ Repeat(file[c], result)
         \/ UNCHANGED boxOffice
  PROVE  /\ stock' \in 0..SeededTickets
         /\ owner' \in [Offered -> ClientIds \cup {None}]
         /\ ledger' \in [RequestIds -> PurchaseResult \cup {None}]
<1>0. /\ stock \in 0..SeededTickets
      /\ owner \in [Offered -> ClientIds \cup {None}]
      /\ ledger \in [RequestIds -> PurchaseResult \cup {None}]
      /\ SeededTickets \in Nat
  BY BenchmarkAssumption, DomainAssumption DEF Typed, TypeOK, DirectTypeOK
<1>1. CASE UNCHANGED boxOffice
  BY <1>0, <1>1 DEF boxOffice
<1>2. CASE Sell(file[c], result)
  <2>1. result \in PurchaseResult
    BY ResultTypes
  <2>2. /\ file[c].client_id \in ClientIds
        /\ file[c].request_id \in RequestIds
    BY ValidOperation DEF Typed
  <2>3. CASE SellTicket(file[c], result)
    BY <1>0, <2>1, <2>2, <2>3 DEF SellTicket
  <2>4. CASE SellSeat(file[c], result)
    BY <1>0, <2>1, <2>2, <2>4 DEF SellSeat
  <2> QED
    BY <1>2, <2>3, <2>4 DEF Sell
<1> QED
  BY <1>1, <1>2 DEF Refuse, Repeat

----------------------------------------------------------------------------
(* Type correctness.                                                       *)

LEMMA TypedInit == BenchmarkInit => Typed
<1> SUFFICES ASSUME BenchmarkInit PROVE Typed
  OBVIOUS
<1> USE DEF BenchmarkInit, DirectInit, BoxOfficeInit
<1>1. DirectTypeOK
  BY BenchmarkAssumption, DirectAssumption, DomainAssumption
     DEF DirectTypeOK, Offered, HandlerPlaces
<1>2. TypeOK
  BY <1>1 DEF TypeOK
<1>3. Requests
  BY DEF Requests, Operations
<1> QED
  BY <1>2, <1>3 DEF Typed

(* The variables a handler leaves alone, and those of the runner. *)
runnerVars == <<file, runner, results, summary_file, results_file>>

(* A handler that goes on to a place, with an answer or without.           *)
LEMMA HandlerTypes ==
  ASSUME Typed, UNCHANGED runnerVars,
         NEW c \in Calls, NEW r \in Replicas, NEW place \in HandlerPlaces,
         handler[c][r] # "idle", AtReplica(c, r, place),
         place = "unprocessed" => ValidInput(purchase[c]),
         \/ UNCHANGED answer
         \/ \E response \in Response \cup {None} :
              answer' = [answer EXCEPT ![c][r] = response],
         stock' \in 0..SeededTickets,
         owner' \in [Offered -> ClientIds \cup {None}],
         ledger' \in [RequestIds -> PurchaseResult \cup {None}],
         faults' \in 0..MaxFaults
  PROVE  Typed'
<1> USE DEF AtReplica, runnerVars, nginxVars
<1>1. DirectTypeOK'
  <2>1. handler' \in [Calls -> [Replicas -> HandlerPlaces]]
    BY DEF Typed, TypeOK, DirectTypeOK
  <2>2. answer \in [Calls -> [Replicas -> Response \cup {None}]]
    BY DEF Typed, TypeOK, DirectTypeOK
  <2>3. answer' \in [Calls -> [Replicas -> Response \cup {None}]]
    BY <2>2
  <2> QED
    BY <2>1, <2>3 DEF Typed, TypeOK, DirectTypeOK
<1>2. TypeOK'
  BY <1>1 DEF Typed, TypeOK, BenchmarkRequestResult, PurchaseResult
<1>3. handler \in [Calls -> [Replicas -> HandlerPlaces]]
  BY DEF Typed, TypeOK, DirectTypeOK
<1>4. Requests'
  BY <1>3 DEF Typed, Requests, Operations
<1> QED
  BY <1>2, <1>4 DEF Typed

(* A fault is within its bound. *)
LEMMA FaultTypes ==
  ASSUME Typed, Fault \/ UNCHANGED faults
  PROVE  faults' \in 0..MaxFaults
BY DirectAssumption DEF Fault, Typed, TypeOK, DirectTypeOK

(* The purchase of a handler in progress. *)
LEMMA ServedOperation ==
  ASSUME Typed, NEW c \in Calls, NEW r \in Replicas, handler[c][r] # "idle"
  PROVE  /\ c \in Operations
         /\ purchase[c] = file[c]
         /\ handler[c][r] = "unprocessed" => ValidInput(file[c])
<1>1. c \in Operations
  BY DEF Typed, Requests
<1> QED
  BY <1>1, OperationTypes DEF Typed, Requests

LEMMA HandlerStepTypes ==
  ASSUME Typed, UNCHANGED runnerVars, NEW c \in Calls, NEW r \in Replicas,
         HandlerStep(c, r) \/ SaleUnanswered(c, r) \/ RedisFails(c, r)
  PROVE  Typed'
<1>0. /\ stock \in 0..SeededTickets
      /\ owner \in [Offered -> ClientIds \cup {None}]
      /\ ledger \in [RequestIds -> PurchaseResult \cup {None}]
      /\ faults \in 0..MaxFaults
  BY DEF Typed, TypeOK, DirectTypeOK
<1>1. handler[c][r] # "idle"
  BY DEF HandlerStep, SaleUnanswered, RedisFails, InvalidInput,
         AlreadyProcessed, NotProcessed, Buy, WatchError, AnswerDropped
<1>2. /\ c \in Operations
      /\ purchase[c] = file[c]
      /\ handler[c][r] = "unprocessed" => ValidInput(file[c])
  BY <1>1, ServedOperation
<1>3. \A code \in {400, 500, 502, 504} : Status(code) \in Response
  BY ResponseTypes
<1>4. CASE InvalidInput(c, r)
  <2>1. /\ AtReplica(c, r, "answered")
        /\ answer' = [answer EXCEPT ![c][r] = Status(400)]
        /\ UNCHANGED boxOffice
        /\ UNCHANGED faults
    BY <1>4 DEF InvalidInput, Answers
  <2>2. Status(400) \in Response
    BY <1>3
  <2> QED
    BY ZenonT(60), <1>0, <1>1, <2>1, <2>2, HandlerTypes DEF boxOffice, HandlerPlaces
<1>5. CASE AlreadyProcessed(c, r)
  <2>1. PICK result \in ResultsFor(file[c]) :
          /\ Repeat(file[c], result)
          /\ Answers(c, r, PurchaseResponse(result))
          /\ ValidInput(file[c])
          /\ UNCHANGED faults
    BY <1>2, <1>5 DEF AlreadyProcessed
  <2>2. PurchaseResponse(result) \in Response
    BY <1>2, <2>1, ResultTypes, ResponseTypes
  <2> QED
    BY ZenonT(60), <1>0, <1>1, <1>2, <2>1, <2>2, BoxOfficeTypes, HandlerTypes
       DEF Answers, HandlerPlaces
<1>6. CASE NotProcessed(c, r)
  BY <1>0, <1>1, <1>6, HandlerTypes
     DEF NotProcessed, boxOffice, HandlerPlaces
<1>7. CASE Buy(c, r)
  <2>1. PICK result \in ResultsFor(file[c]) :
          /\ Sell(file[c], result) \/ Refuse(file[c], result)
          /\ Answers(c, r, PurchaseResponse(result))
          /\ ValidInput(file[c])
          /\ UNCHANGED faults
    BY <1>2, <1>7 DEF Buy
  <2>2. PurchaseResponse(result) \in Response
    BY <1>2, <2>1, ResultTypes, ResponseTypes
  <2> QED
    BY ZenonT(60), <1>0, <1>1, <1>2, <2>1, <2>2, BoxOfficeTypes, HandlerTypes
       DEF Answers, HandlerPlaces
<1>8. CASE WatchError(c, r)
  BY <1>0, <1>1, <1>8, HandlerTypes DEF WatchError, boxOffice, HandlerPlaces
<1>9. CASE AnswerDropped(c, r)
  BY ZenonT(60), <1>0, <1>1, <1>9, HandlerTypes
     DEF AnswerDropped, boxOffice, HandlerPlaces
<1>10. CASE SaleUnanswered(c, r)
  <2>1. PICK result \in ResultsFor(file[c]) :
          Sell(file[c], result) /\ ValidInput(file[c])
    BY <1>2, <1>10 DEF SaleUnanswered
  <2>2. faults' \in 0..MaxFaults
    BY <1>10, FaultTypes DEF SaleUnanswered
  <2> QED
    BY <1>1, <1>2, <1>10, <2>1, <2>2, BoxOfficeTypes, HandlerTypes
       DEF SaleUnanswered, HandlerPlaces
<1>11. CASE RedisFails(c, r)
  <2>1. faults' \in 0..MaxFaults
    BY <1>11, FaultTypes DEF RedisFails
  <2>2. Status(500) \in Response
    BY <1>3
  <2>3. answer' = [answer EXCEPT ![c][r] = Status(500)]
    BY <1>11 DEF RedisFails, Answers
  <2>4. AtReplica(c, r, "answered") /\ UNCHANGED boxOffice
    BY <1>11 DEF RedisFails, Answers
  <2> QED
    BY ZenonT(60), <1>0, <1>1, <2>1, <2>2, <2>3, <2>4, HandlerTypes
       DEF boxOffice, HandlerPlaces
<1> QED
  BY <1>4, <1>5, <1>6, <1>7, <1>8, <1>9, <1>10, <1>11 DEF HandlerStep

(* The step to the next replica, or to the error once the tries are used.  *)
LEMMA NextUpstreamTypes ==
  ASSUME Typed, UNCHANGED runnerVars, NEW c \in Calls, NEW r \in Replicas,
         NEW code \in {502, 504}, upstream[c] # "idle",
         NextUpstream(c, r, code),
         abandoned' \subseteq Calls, faults' \in 0..MaxFaults
  PROVE  Typed'
<1> USE DEF NextUpstream, runnerVars, apiVars, boxOffice
<1>1. /\ upstream' \in [Calls -> {"idle", "choosing", "closed"} \cup Replicas]
      /\ reply' \in [Calls -> Response \cup {None}]
      /\ \A d \in Calls : upstream'[d] # "idle" => upstream[d] # "idle"
      /\ \A d \in Calls : upstream[d] # "idle" => upstream'[d] # "idle"
  <2>1. upstream \in [Calls -> {"idle", "choosing", "closed"} \cup Replicas]
    BY DEF Typed, TypeOK, DirectTypeOK
  <2>2. reply \in [Calls -> Response \cup {None}]
    BY DEF Typed, TypeOK, DirectTypeOK
  <2>3. Status(code) \in Response
    BY ResponseTypes
  <2> QED
    BY <2>1, <2>2, <2>3 DEF Respond
<1>2. tried' \in [Calls -> SUBSET Replicas]
  BY DEF Typed, TypeOK, DirectTypeOK
<1>3. fails' \in [Replicas -> 0..MAX_FAILS]
  BY DirectAssumption DEF Typed, TypeOK, DirectTypeOK
<1>4. DirectTypeOK'
  BY <1>1, <1>2, <1>3 DEF Typed, TypeOK, DirectTypeOK
<1>5. TypeOK'
  BY <1>4 DEF Typed, TypeOK, BenchmarkRequestResult, PurchaseResult
<1>6. Requests'
  BY <1>1 DEF Typed, Requests, Operations
<1> QED
  BY <1>5, <1>6 DEF Typed

LEMMA RespondTypes ==
  ASSUME Typed, UNCHANGED runnerVars, NEW c \in Calls, upstream[c] # "idle",
         NEW response \in Response \cup {None}, Respond(c, response),
         UNCHANGED <<boxOffice, purchase, tried, fails, alive, abandoned, faults>>,
         \/ UNCHANGED <<handler, answer>>
         \/ \E r \in Replicas :
              /\ handler' = [handler EXCEPT ![c][r] = "idle"]
              /\ answer' = [answer EXCEPT ![c][r] = None]
  PROVE  Typed'
<1> USE DEF Respond, runnerVars, boxOffice
<1>1. /\ upstream' \in [Calls -> {"idle", "choosing", "closed"} \cup Replicas]
      /\ reply' \in [Calls -> Response \cup {None}]
      /\ \A d \in Calls : upstream'[d] # "idle" <=> upstream[d] # "idle"
  BY DEF Typed, TypeOK, DirectTypeOK
<1>2. /\ handler' \in [Calls -> [Replicas -> HandlerPlaces]]
      /\ \A d \in Calls, r \in Replicas :
           handler'[d][r] # "idle" => handler'[d][r] = handler[d][r]
  <2>1. handler \in [Calls -> [Replicas -> HandlerPlaces]]
    BY DEF Typed, TypeOK, DirectTypeOK
  <2> QED
    BY <2>1 DEF HandlerPlaces
<1>3. answer' \in [Calls -> [Replicas -> Response \cup {None}]]
  <2>1. answer \in [Calls -> [Replicas -> Response \cup {None}]]
    BY DEF Typed, TypeOK, DirectTypeOK
  <2> QED
    BY <2>1
<1>4. DirectTypeOK'
  BY <1>1, <1>2, <1>3 DEF Typed, TypeOK, DirectTypeOK
<1>5. TypeOK'
  BY <1>4 DEF Typed, TypeOK, BenchmarkRequestResult, PurchaseResult
<1>6. Requests'
  BY <1>1, <1>2 DEF Typed, Requests, Operations
<1> QED
  BY <1>5, <1>6 DEF Typed

LEMMA NginxStepTypes ==
  ASSUME Typed, UNCHANGED runnerVars, NEW c \in Calls,
         NginxStep(c) \/ UpstreamLost(c)
  PROVE  Typed'
<1>0. /\ upstream \in [Calls -> {"idle", "choosing", "closed"} \cup Replicas]
      /\ handler \in [Calls -> [Replicas -> HandlerPlaces]]
      /\ answer \in [Calls -> [Replicas -> Response \cup {None}]]
      /\ faults \in 0..MaxFaults
      /\ abandoned \subseteq Calls
      /\ "idle" \notin Replicas
  BY DirectAssumption DEF Typed, TypeOK, DirectTypeOK
<1>1. CASE Forward(c)
  <2> USE <1>1 DEF Forward, runnerVars, boxOffice
  <2>1. PICK r \in Replicas :
          /\ upstream' = [upstream EXCEPT ![c] = r]
          /\ tried' = [tried EXCEPT ![c] = @ \cup {r}]
          /\ handler' = [handler EXCEPT ![c][r] = "received"]
    BY DEF LeastConnected, Available
  <2>2. /\ upstream' \in [Calls -> {"idle", "choosing", "closed"} \cup Replicas]
        /\ handler' \in [Calls -> [Replicas -> HandlerPlaces]]
    BY <1>0, <2>1 DEF HandlerPlaces
  <2>3. tried' \in [Calls -> SUBSET Replicas]
    BY <2>1 DEF Typed, TypeOK, DirectTypeOK
  <2>4. DirectTypeOK'
    BY <2>2, <2>3 DEF Typed, TypeOK, DirectTypeOK
  <2>5. TypeOK'
    BY <2>4 DEF Typed, TypeOK, BenchmarkRequestResult, PurchaseResult
  <2>6. Requests'
    BY <1>0, <2>1 DEF Typed, Requests, Operations
  <2> QED
    BY <2>5, <2>6 DEF Typed
<1>2. CASE ConnectionRefused(c)
  <2>1. PICK r \in Replicas : NextUpstream(c, r, 502)
    BY <1>2 DEF ConnectionRefused, LeastConnected, Available
  <2> QED
    BY <1>0, <1>2, <2>1, NextUpstreamTypes DEF ConnectionRefused
<1>3. CASE NoLiveUpstreams(c)
  <2>1. Status(502) \in Response
    BY ResponseTypes
  <2> QED
    BY <1>0, <1>3, <2>1, RespondTypes DEF NoLiveUpstreams, apiVars
<1>4. CASE UpstreamError(c)
  <2>1. PICK r \in Replicas : NextUpstream(c, r, 502) /\ upstream[c] = r
    BY <1>4 DEF UpstreamError
  <2> QED
    BY <1>0, <1>4, <2>1, NextUpstreamTypes DEF UpstreamError
<1>5. CASE UpstreamAnswers(c)
  <2>1. PICK r \in Replicas :
          /\ upstream[c] = r
          /\ Respond(c, answer[c][r])
          /\ handler' = [handler EXCEPT ![c][r] = "idle"]
          /\ answer' = [answer EXCEPT ![c][r] = None]
    BY <1>5 DEF UpstreamAnswers
  <2>2. answer[c][r] \in Response \cup {None}
    BY <1>0
  <2> QED
    BY <1>0, <1>5, <2>1, <2>2, RespondTypes DEF UpstreamAnswers
<1>6. CASE UpstreamLost(c)
  <2>1. PICK r \in Replicas, code \in {502, 504} :
          NextUpstream(c, r, code) /\ upstream[c] = r
    BY <1>6 DEF UpstreamLost
  <2>2. faults' \in 0..MaxFaults
    BY <1>6, FaultTypes DEF UpstreamLost
  <2>3. abandoned' \subseteq Calls
    BY <1>0, <1>6 DEF UpstreamLost
  <2> QED
    BY <1>0, <2>1, <2>2, <2>3, NextUpstreamTypes
<1> QED
  BY <1>1, <1>2, <1>3, <1>4, <1>5, <1>6 DEF NginxStep

LEMMA ReplicaFaultTypes ==
  ASSUME Typed, UNCHANGED runnerVars, NEW r \in Replicas,
         FailTimeout(r) \/ Crash(r) \/ Restart(r)
  PROVE  Typed'
<1> USE DEF runnerVars, boxOffice, nginxVars, apiVars
<1>0. /\ handler \in [Calls -> [Replicas -> HandlerPlaces]]
      /\ answer \in [Calls -> [Replicas -> Response \cup {None}]]
      /\ alive \in [Replicas -> BOOLEAN]
  BY DEF Typed, TypeOK, DirectTypeOK
<1>1. CASE FailTimeout(r)
  <2>1. fails' \in [Replicas -> 0..MAX_FAILS]
    BY <1>1, DirectAssumption DEF FailTimeout, Typed, TypeOK, DirectTypeOK
  <2>2. DirectTypeOK'
    BY <1>1, <2>1 DEF FailTimeout, Typed, TypeOK, DirectTypeOK
  <2>3. Requests'
    BY <1>1 DEF FailTimeout, Typed, Requests, Operations
  <2> QED
    BY <2>2, <2>3 DEF Typed, TypeOK, BenchmarkRequestResult, PurchaseResult
<1>2. CASE Crash(r)
  <2> USE <1>2 DEF Crash
  <2>1. /\ handler' \in [Calls -> [Replicas -> HandlerPlaces]]
        /\ \A d \in Calls, s \in Replicas :
             handler'[d][s] # "idle" => handler'[d][s] = handler[d][s]
    BY <1>0 DEF HandlerPlaces
  <2>2. answer' \in [Calls -> [Replicas -> Response \cup {None}]]
    BY <1>0
  <2>3. alive' \in [Replicas -> BOOLEAN]
    BY <1>0
  <2>4. faults' \in 0..MaxFaults
    BY FaultTypes
  <2>5. DirectTypeOK'
    BY <2>1, <2>2, <2>3, <2>4 DEF Typed, TypeOK, DirectTypeOK
  <2>6. Requests'
    BY <2>1 DEF Typed, Requests, Operations
  <2> QED
    BY <2>5, <2>6 DEF Typed, TypeOK, BenchmarkRequestResult, PurchaseResult
<1>3. CASE Restart(r)
  <2>1. alive' \in [Replicas -> BOOLEAN]
    BY <1>0, <1>3 DEF Restart
  <2>2. DirectTypeOK'
    BY <1>3, <2>1 DEF Restart, Typed, TypeOK, DirectTypeOK
  <2>3. Requests'
    BY <1>3 DEF Restart, Typed, Requests, Operations
  <2> QED
    BY <2>2, <2>3 DEF Typed, TypeOK, BenchmarkRequestResult, PurchaseResult
<1> QED
  BY <1>1, <1>2, <1>3

LEMMA RunnerTypes ==
  ASSUME Typed, RunnerStep \/ RunnerFault
  PROVE  Typed'
<1> USE DEF boxOffice, apiVars, directVars, nginxVars
<1>0. /\ upstream \in [Calls -> {"idle", "choosing", "closed"} \cup Replicas]
      /\ results \in [Calls -> BenchmarkRequestResult \cup {None}]
      /\ reply \in [Calls -> Response \cup {None}]
      /\ \A d \in Calls : results[d] # None =>
           (results[d].error <=> results[d].http_status = 0)
      /\ "idle" \notin Replicas
      /\ \A c \in Operations : c \in Calls
      /\ \A c \in Operations :
           /\ purchase[c] = file[c]
           /\ file[c].request_id \in RequestIds \cup {Blank}
           /\ file[c].seat_id \in Int \cup {None}
           /\ file[c].ticket_type \in TicketType
  <2>1. \A c \in Operations : /\ c \in Calls
                              /\ purchase[c] = file[c]
                              /\ file[c] \in Operation
    BY OperationTypes DEF Typed
  <2> QED
    BY <2>1, DirectAssumption DEF Typed, TypeOK, DirectTypeOK, Operation
<1>1. ASSUME NEW c \in Calls, Send(c) PROVE Typed'
  <2> USE <1>1 DEF Send
  <2>1. upstream' \in [Calls -> {"idle", "choosing", "closed"} \cup Replicas]
    BY <1>0
  <2>2. DirectTypeOK'
    BY <2>1 DEF Typed, TypeOK, DirectTypeOK
  <2>3. c \in Operations
    BY DEF Pending
  <2>4. Requests'
    BY <1>0, <2>3 DEF Typed, Requests, Operations
  <2> QED
    BY <2>2, <2>4 DEF Typed, TypeOK, BenchmarkRequestResult, PurchaseResult
<1>2. ASSUME NEW c \in Operations, NEW new \in BenchmarkRequestResult,
             new.error <=> new.http_status = 0,
             results' = [results EXCEPT ![c] = new]
      PROVE  /\ results' \in [Calls -> BenchmarkRequestResult \cup {None}]
             /\ \A d \in Calls : results'[d] # None =>
                  (results'[d].error <=> results'[d].http_status = 0)
  BY <1>0, <1>2
<1>3. ASSUME NEW c \in Calls, Receive(c) PROVE Typed'
  <2> USE <1>3 DEF Receive
  <2>1. c \in Operations /\ reply[c] \in Response
    BY <1>0 DEF InFlight
  <2>2. /\ reply[c].code \in {200, 400, 409, 500, 502, 504}
        /\ reply[c].body \in PurchaseResult \cup {None}
    BY <2>1 DEF Response
  <2> DEFINE new == [request_id |-> purchase[c].request_id,
                     seat_id |-> purchase[c].seat_id,
                     ticket_type |-> purchase[c].ticket_type,
                     http_status |-> reply[c].code, response_body |-> reply[c].body,
                     error |-> FALSE]
  <2>a. results' = [results EXCEPT ![c] = new]
    BY DEF Record
  <2>b. new \in BenchmarkRequestResult
    BY <1>0, <2>1, <2>2 DEF BenchmarkRequestResult
  <2>c. new.error <=> new.http_status = 0
    BY <2>2
  <2> HIDE DEF new
  <2>4. /\ results' \in [Calls -> BenchmarkRequestResult \cup {None}]
        /\ \A d \in Calls : results'[d] # None =>
             (results'[d].error <=> results'[d].http_status = 0)
    BY <1>2, <2>1, <2>a, <2>b, <2>c
  <2>5. DirectTypeOK'
    BY DEF Typed, TypeOK, DirectTypeOK
  <2>6. Requests'
    BY DEF Typed, Requests, Operations
  <2>7. runner' \in {"running", "writing", "done", "failed"}
    BY DEF Typed, TypeOK
  <2> HIDE <1>3 DEF Receive
  <2>8. TypeOK'
    BY <2>4, <2>5, <2>7 DEF TypeOK, BenchmarkRequestResult, PurchaseResult
  <2> QED
    BY <2>6, <2>8 DEF Typed
<1>4. ASSUME NEW c \in Calls, RequestFails(c) PROVE Typed'
  <2> USE <1>4 DEF RequestFails, ClientCloses
  <2>1. c \in Operations /\ upstream[c] # "idle"
    BY DEF InFlight, Pending
  <2> DEFINE new == [request_id |-> purchase[c].request_id,
                     seat_id |-> purchase[c].seat_id,
                     ticket_type |-> purchase[c].ticket_type,
                     http_status |-> 0, response_body |-> None,
                     error |-> TRUE]
  <2>a. results' = [results EXCEPT ![c] = new]
    BY DEF Record
  <2>b. new \in BenchmarkRequestResult
    BY <1>0, <2>1 DEF BenchmarkRequestResult
  <2>c. new.error <=> new.http_status = 0
    OBVIOUS
  <2> HIDE DEF new
  <2>2. /\ results' \in [Calls -> BenchmarkRequestResult \cup {None}]
        /\ \A d \in Calls : results'[d] # None =>
             (results'[d].error <=> results'[d].http_status = 0)
    BY <1>2, <2>1, <2>a, <2>b, <2>c
  <2>3. upstream' \in [Calls -> {"idle", "choosing", "closed"} \cup Replicas]
    BY <1>0
  <2>4. faults' \in 0..MaxFaults
    BY FaultTypes
  <2>5. DirectTypeOK'
    BY <2>3, <2>4 DEF Typed, TypeOK, DirectTypeOK
  <2>6. Requests'
    BY <1>0, <2>1 DEF Typed, Requests, Operations
  <2>7. runner' \in {"running", "writing", "done", "failed"}
    BY DEF Typed, TypeOK
  <2> HIDE <1>4 DEF RequestFails, ClientCloses
  <2>8. TypeOK'
    BY <2>2, <2>5, <2>7 DEF TypeOK, BenchmarkRequestResult, PurchaseResult
  <2> QED
    BY <2>6, <2>8 DEF Typed
<1>5. CASE WriteSummary \/ WriteResults
  <2> USE <1>5 DEF WriteSummary, WriteResults
  <2>1. DirectTypeOK'
    BY DEF Typed, TypeOK, DirectTypeOK
  <2>2. Requests'
    BY DEF Typed, Requests, Operations
  <2>3. runner' \in {"running", "writing", "done", "failed"} /\ UNCHANGED results
    OBVIOUS
  <2> QED
    BY <2>1, <2>2, <2>3 DEF Typed, TypeOK, BenchmarkRequestResult, PurchaseResult
<1>6. CASE Interrupt
  <2> USE <1>6 DEF Interrupt
  <2>1. upstream' \in [Calls -> {"idle", "choosing", "closed"} \cup Replicas]
    BY <1>0
  <2>2. faults' \in 0..MaxFaults
    BY FaultTypes
  <2>3. DirectTypeOK'
    BY <2>1, <2>2 DEF Typed, TypeOK, DirectTypeOK
  <2>4. Requests'
    BY <1>0 DEF Typed, Requests, Operations
  <2> QED
    BY <2>3, <2>4 DEF Typed, TypeOK, BenchmarkRequestResult, PurchaseResult
<1> QED
  BY <1>1, <1>3, <1>4, <1>5, <1>6 DEF RunnerStep, RunnerFault

LEMMA TypedStep == Typed /\ [Next]_vars => Typed'
<1> SUFFICES ASSUME Typed, [Next]_vars PROVE Typed'
  OBVIOUS
<1>1. CASE DirectAlone
  <2>1. UNCHANGED runnerVars
    BY <1>1 DEF DirectAlone, runnerVars
  <2> QED
    BY <1>1, <2>1, NginxStepTypes, HandlerStepTypes, ReplicaFaultTypes
       DEF DirectAlone, DirectStep, DirectFault
<1>2. CASE RunnerStep \/ RunnerFault
  BY <1>2, RunnerTypes
<1>3. CASE Finished \/ UNCHANGED vars
  <2> USE <1>3 DEF Finished, vars, directVars, nginxVars, apiVars, boxOffice
  <2>1. DirectTypeOK'
    BY DEF Typed, TypeOK, DirectTypeOK
  <2>2. Requests'
    BY DEF Typed, Requests, Operations
  <2> QED
    BY <2>1, <2>2 DEF Typed, TypeOK, BenchmarkRequestResult, PurchaseResult
<1> QED
  BY <1>1, <1>2, <1>3 DEF Next

(* Every reachable state of nginx, the replicas and the runner is well     *)
(* typed, and no handler runs for a call the runner has not sent.          *)
THEOREM TypeCorrect == Spec => []TypeOK
<1>1. Spec => []Typed
  BY TypedInit, TypedStep, PTL DEF Spec
<1>2. Typed => TypeOK
  BY DEF Typed
<1> QED
  BY <1>1, <1>2, PTL

----------------------------------------------------------------------------
(* Truthful responses.                                                     *)

(* What the queries of the API say of an operation and a response, in       *)
(* terms of a ledger L, the owners W of the seats and a stock S.           *)
TrueAt(o, response, L, W, S) ==
  LET result == response.body
      sale == L[o.request_id]
  IN /\ response.code = 200 =>
          /\ sale # None
          /\ result \in {sale, Replayed(o, sale)}
          /\ result.client_id = sale.client_id
          /\ Numbered(o) => W[o.seat_id] = result.client_id
     /\ response.code = 409 =>
          IF Numbered(o) THEN W[o.seat_id] # None ELSE S = 0
     /\ response.code \notin {200, 409} => result.reason = "invalid_seat"

TrueIsTrueAt ==
  \A c \in Operations : \A response \in Response :
    file[c].request_id \in RequestIds =>
      (TrueOf(c, response) <=>
         TrueAt(file[c], response, ledger, owner, stock))

LEMMA QueriesTell == TrueIsTrueAt
<1> SUFFICES ASSUME NEW c \in Operations, NEW response \in Response,
                    file[c].request_id \in RequestIds
             PROVE  TrueOf(c, response) <=>
                      TrueAt(file[c], response, ledger, owner, stock)
  BY DEF TrueIsTrueAt
<1> DEFINE result == response.body
           sale == ledger[file[c].request_id]
<1>1. CASE response.code = 200
  <2>1. get_request_result(file[c].request_id).found <=> sale # None
    BY Zenon DEF get_request_result
  <2>2. get_request_result(file[c].request_id).result = sale
    BY Zenon DEF get_request_result
  <2>3. get_seat_status(file[c].seat_id).owner = owner[file[c].seat_id]
    BY Zenon DEF get_seat_status
  <2>4. TrueOf(c, response) <=>
          LET told == get_request_result(file[c].request_id)
          IN /\ told.found
             /\ result \in {told.result, Replayed(file[c], told.result)}
             /\ told.result \in get_client_purchases(result.client_id)
             /\ Numbered(file[c]) =>
                  get_seat_status(file[c].seat_id).owner = result.client_id
    BY <1>1 DEF TrueOf
  <2>5. sale # None =>
          (sale \in get_client_purchases(result.client_id)
             <=> result.client_id = sale.client_id)
    BY DEF get_client_purchases
  <2>6. TrueOf(c, response) <=>
          /\ sale # None
          /\ result \in {sale, Replayed(file[c], sale)}
          /\ result.client_id = sale.client_id
          /\ Numbered(file[c]) => owner[file[c].seat_id] = result.client_id
    BY <2>1, <2>2, <2>3, <2>4, <2>5
  <2> QED
    BY <1>1, <2>6 DEF TrueAt
<1>2. CASE response.code = 409
  BY <1>2 DEF TrueOf, TrueAt, get_seat_status, get_available_count
<1>3. CASE response.code \notin {200, 409}
  BY <1>3 DEF TrueOf, TrueAt
<1> QED
  BY <1>1, <1>2, <1>3

(* A seat that has been sold to a request belongs to the client whose sale *)
(* is on record.                                                           *)
SalesTrue ==
  \A c \in Operations :
    /\ ValidInput(file[c])
    /\ Numbered(file[c])
    /\ ledger[file[c].request_id] # None
    => owner[file[c].seat_id] = ledger[file[c].request_id].client_id

(* Only a valid purchase comes to a result, and the result is true.        *)
TrueTo(c, response) ==
  response # None /\ response.body # None =>
    /\ ValidInput(file[c])
    /\ TrueAt(file[c], response, ledger, owner, stock)

(* A response that waits at a replica is true already, and stays true with *)
(* nginx and the client.                                                   *)
Truthful ==
  /\ SalesTrue
  /\ \A c \in Operations : TrueTo(c, reply[c])
  /\ \A c \in Operations, r \in Replicas : TrueTo(c, answer[c][r])

LEMMA TruthfulReplies == Typed /\ Truthful => RepliesTrue
<1> SUFFICES ASSUME Typed, Truthful,
                    NEW c \in Operations, reply[c] # None, reply[c].body # None
             PROVE  TrueOf(c, reply[c])
  BY DEF RepliesTrue
<1>1. ValidInput(file[c]) /\ TrueAt(file[c], reply[c], ledger, owner, stock)
  BY DEF Truthful, TrueTo
<1>2. reply[c] \in Response /\ file[c].request_id \in RequestIds
  BY <1>1, OperationTypes, ValidOperation DEF Typed, TypeOK, DirectTypeOK
<1> QED
  BY <1>1, <1>2, QueriesTell DEF TrueIsTrueAt

LEMMA TruthfulInit == BenchmarkInit => Truthful
<1> SUFFICES ASSUME BenchmarkInit PROVE Truthful
  OBVIOUS
<1>1. Typed
  BY TypedInit
<1>2. \A c \in Operations :
        /\ c \in Calls
        /\ ValidInput(file[c]) => ledger[file[c].request_id] = None
  BY <1>1, OperationTypes, ValidOperation
     DEF Typed, BenchmarkInit, DirectInit, BoxOfficeInit
<1> QED
  BY <1>2 DEF Truthful, SalesTrue, TrueTo, BenchmarkInit, DirectInit

(* What is said of the box office stays true when something is sold: stock *)
(* and free seats do not come back, and a sale on record stays.            *)
LEMMA SaleKeepsTruth ==
  ASSUME Typed, UNCHANGED file, NEW c \in Operations, NEW d \in Operations,
         ValidInput(file[d]), NEW sold \in PurchaseResult,
         Sell(file[d], sold),
         NEW response \in Response \cup {None}, TrueTo(c, response)
  PROVE  TrueTo(c, response)'
<1> SUFFICES ASSUME response # None, response.body # None
             PROVE  /\ ValidInput(file[c])
                    /\ TrueAt(file[c], response, ledger', owner', stock')
  BY DEF TrueTo
<1>1. /\ ValidInput(file[c])
      /\ TrueAt(file[c], response, ledger, owner, stock)
  BY DEF TrueTo
<1>2. /\ ledger \in [RequestIds -> PurchaseResult \cup {None}]
      /\ owner \in [Offered -> ClientIds \cup {None}]
      /\ response.body.client_id \in ClientIds
      /\ file[c].request_id \in RequestIds
      /\ file[d].request_id \in RequestIds
      /\ Numbered(file[c]) => file[c].seat_id \in Offered
      /\ file[d].client_id \in ClientIds
      /\ None \notin ClientIds
  <2>1. Offered = SeatIds
    BY BenchmarkAssumption DEF Offered, SeatIds
  <2>2. response.body \in PurchaseResult
    BY DEF Response
  <2>3. response.body.client_id \in ClientIds
    BY <2>2 DEF PurchaseResult
  <2> QED
    BY <1>1, <2>1, <2>3, ValidOperation, DomainAssumption
       DEF Typed, TypeOK, DirectTypeOK
<1>3. \A id \in RequestIds :
        ledger[id] # None => ledger'[id] = ledger[id]
  BY <1>2 DEF Sell, SellTicket, SellSeat
<1>4. \A s \in Offered : owner[s] # None => owner'[s] = owner[s]
  BY <1>2 DEF Sell, SellTicket, SellSeat
<1>5. stock = 0 => stock' = 0
  BY DEF Sell, SellTicket, SellSeat
<1> QED
  BY <1>1, <1>2, <1>3, <1>4, <1>5 DEF TrueAt

(* A new sale is on record with its client, and can be answered.           *)
LEMMA SaleIsTrue ==
  ASSUME Typed, SalesTrue, UNCHANGED file, NEW d \in Operations,
         ValidInput(file[d]), NEW sold \in PurchaseResult,
         Sell(file[d], sold)
  PROVE  SalesTrue' /\ TrueTo(d, PurchaseResponse(sold))'
<1> DEFINE o == file[d]
<1>1. /\ ledger \in [RequestIds -> PurchaseResult \cup {None}]
      /\ owner \in [Offered -> ClientIds \cup {None}]
      /\ o.request_id \in RequestIds
      /\ o.client_id \in ClientIds
      /\ Offered = SeatIds
      /\ None \notin PurchaseResult
      /\ None \notin ClientIds
      /\ Numbered(o) <=> ~Unnumbered(o)
  BY ValidOperation, BenchmarkAssumption, DomainAssumption
     DEF Typed, TypeOK, DirectTypeOK, Offered, SeatIds, Numbered, Unnumbered
<1>2. /\ ledger' = [ledger EXCEPT ![o.request_id] = sold]
      /\ sold.status = "ACCEPTED" /\ sold.client_id = o.client_id
      /\ IF Numbered(o)
           THEN /\ owner' = [owner EXCEPT ![o.seat_id] = o.client_id]
                /\ o.seat_id \in Offered
                /\ owner[o.seat_id] = None
           ELSE owner' = owner
  BY <1>1 DEF Sell, SellTicket, SellSeat, accepted
<1>3. SalesTrue'
  <2> SUFFICES ASSUME NEW c \in Operations,
                      ValidInput(file[c]), Numbered(file[c]),
                      ledger'[file[c].request_id] # None
               PROVE  owner'[file[c].seat_id]
                        = ledger'[file[c].request_id].client_id
    BY DEF SalesTrue, Operations
  <2>1. file[c].request_id \in RequestIds /\ file[c].seat_id \in Offered
    BY <1>1, ValidOperation DEF Typed
  <2>2. CASE c = d
    BY <1>1, <1>2, <2>1, <2>2
  <2>3. CASE c # d
    <3>1. file[c].request_id # o.request_id
      BY <2>3, OperationTypes DEF Typed
    <3>2. /\ ledger'[file[c].request_id] = ledger[file[c].request_id]
          /\ ledger[file[c].request_id] # None
          /\ owner[file[c].seat_id] = ledger[file[c].request_id].client_id
      BY <1>1, <1>2, <2>1, <3>1 DEF SalesTrue
    <3>3. ledger[file[c].request_id].client_id \in ClientIds
      BY <1>1, <2>1, <3>2 DEF PurchaseResult
    <3> QED
      BY <1>1, <1>2, <2>1, <3>2, <3>3
  <2> QED
    BY <2>2, <2>3
<1>4. TrueTo(d, PurchaseResponse(sold))'
  <2>1. PurchaseResponse(sold).code = 200 /\ PurchaseResponse(sold).body = sold
    BY <1>2 DEF PurchaseResponse, status_code_from_result
  <2>2. TrueAt(o, PurchaseResponse(sold), ledger', owner', stock')
    BY <1>1, <1>2, <2>1 DEF TrueAt
  <2> QED
    BY <2>2 DEF TrueTo
<1> QED
  BY <1>3, <1>4

(* So can a stored sale, and the state of the stock that refuses a request. *)
LEMMA AnswerIsTrue ==
  ASSUME Typed, SalesTrue, UNCHANGED file, NEW c \in Operations,
         ValidInput(file[c]), NEW result,
         Repeat(file[c], result) \/ Refuse(file[c], result)
  PROVE  TrueTo(c, PurchaseResponse(result))'
<1> DEFINE o == file[c]
           response == PurchaseResponse(result)
           sale == ledger[o.request_id]
<1>1. UNCHANGED <<stock, owner, ledger>>
  BY DEF Repeat, Refuse, boxOffice
<1>2. response.body = result
  BY DEF PurchaseResponse
<1>3. CASE Repeat(o, result)
  <2>1. /\ sale # None
        /\ result = Replayed(o, sale)
        /\ sale \in PurchaseResult
    BY <1>3, ValidOperation DEF Repeat, Typed, TypeOK, DirectTypeOK
  <2>2. result.duplicate = TRUE /\ result.client_id = sale.client_id
    BY <2>1 DEF Replayed, PurchaseResult
  <2>3. response.code = 200
    BY <2>2 DEF PurchaseResponse, status_code_from_result
  <2>4. Numbered(o) => owner[o.seat_id] = result.client_id
    BY <2>1, <2>2 DEF SalesTrue
  <2>5. TrueAt(o, response, ledger, owner, stock)
    BY <1>2, <2>1, <2>2, <2>3, <2>4 DEF TrueAt
  <2> QED
    BY <1>1, <2>5 DEF TrueTo
<1>4. CASE Refuse(o, result)
  <2>1. result.duplicate = FALSE /\ result.status = "REJECTED"
    BY <1>4 DEF Refuse, rejected
  <2>2. response.code = IF result.reason \in {"sold_out", "seat_already_sold"}
                          THEN 409 ELSE 400
    BY <2>1 DEF PurchaseResponse, status_code_from_result
  <2>3. \/ result.reason = "sold_out" /\ ~Numbered(o) /\ stock = 0
        \/ result.reason = "invalid_seat"
        \/ /\ result.reason = "seat_already_sold" /\ Numbered(o)
           /\ owner[o.seat_id] # None
    BY <1>4 DEF Refuse, rejected, Numbered, Unnumbered
  <2>4. TrueAt(o, response, ledger, owner, stock)
    BY <1>2, <2>2, <2>3 DEF TrueAt
  <2> QED
    BY <1>1, <2>4 DEF TrueTo
<1> QED
  BY <1>3, <1>4

(* A step keeps the truth if it keeps what has been said true, and adds    *)
(* only responses that are true, were waiting, or have no body.            *)
LEMMA TruthCarries ==
  ASSUME Typed, Truthful, UNCHANGED file, SalesTrue',
         \A c \in Operations : \A response \in Response \cup {None} :
           TrueTo(c, response) => TrueTo(c, response)',
         \A c \in Operations :
           \/ reply'[c] = reply[c]
           \/ reply'[c].body = None
           \/ \E r \in Replicas : reply'[c] = answer[c][r],
         \A c \in Operations, r \in Replicas :
           \/ answer'[c][r] \in {None, answer[c][r]}
           \/ TrueTo(c, answer[c][r])'
  PROVE  Truthful'
<1>1. \A c \in Operations :
        /\ reply[c] \in Response \cup {None}
        /\ \A r \in Replicas : answer[c][r] \in Response \cup {None}
  BY OperationTypes DEF Typed, TypeOK, DirectTypeOK
<1>3. ASSUME NEW c \in Operations PROVE TrueTo(c, reply[c])'
  <2>1. CASE reply'[c] = reply[c]
    <3>1. TrueTo(c, reply[c])
      BY DEF Truthful
    <3> QED
      BY <1>1, <2>1, <3>1 DEF TrueTo
  <2>2. CASE reply'[c].body = None
    BY <2>2 DEF TrueTo
  <2>3. CASE \E r \in Replicas : reply'[c] = answer[c][r]
    <3>1. PICK r \in Replicas : reply'[c] = answer[c][r]
      BY <2>3
    <3>2. PICK response \in Response \cup {None} : response = answer[c][r]
      BY <1>1
    <3>3. TrueTo(c, response)
      BY <3>2 DEF Truthful
    <3>4. TrueTo(c, response)'
      BY <3>3
    <3> QED
      BY <3>1, <3>2, <3>4 DEF TrueTo
  <2> QED
    BY <2>1, <2>2, <2>3
<1>4. ASSUME NEW c \in Operations, NEW r \in Replicas
      PROVE  TrueTo(c, answer[c][r])'
  <2>1. TrueTo(c, answer[c][r])
    BY DEF Truthful
  <2>2. CASE answer'[c][r] = answer[c][r]
    BY <1>1, <2>1, <2>2 DEF TrueTo
  <2>3. CASE answer'[c][r] = None
    BY <2>3 DEF TrueTo
  <2> QED
    BY <2>2, <2>3
<1>5. Operations' = Operations
  BY DEF Operations
<1> QED
  BY <1>3, <1>4, <1>5 DEF Truthful

(* The truth of a response depends on the box office only. *)
LEMMA BoxOfficeUnchanged ==
  ASSUME Truthful, UNCHANGED <<file, boxOffice>>
  PROVE  /\ SalesTrue'
         /\ \A c \in Operations : \A response \in Response \cup {None} :
              TrueTo(c, response) => TrueTo(c, response)'
BY DEF Truthful, SalesTrue, TrueTo, boxOffice, Operations

LEMMA HandlerTruth ==
  ASSUME Typed, Truthful, UNCHANGED runnerVars,
         NEW c \in Calls, NEW r \in Replicas,
         HandlerStep(c, r) \/ SaleUnanswered(c, r) \/ RedisFails(c, r)
  PROVE  Truthful'
<1> USE DEF runnerVars
<1>0. /\ answer \in [Calls -> [Replicas -> Response \cup {None}]]
      /\ \A d \in Operations : d \in Calls
  BY OperationTypes DEF Typed, TypeOK, DirectTypeOK
<1>1. handler[c][r] # "idle"
  BY DEF HandlerStep, SaleUnanswered, RedisFails, InvalidInput,
         AlreadyProcessed, NotProcessed, Buy, WatchError, AnswerDropped
<1>2. /\ c \in Operations
      /\ purchase[c] = file[c]
      /\ handler[c][r] = "unprocessed" => ValidInput(file[c])
  BY <1>1, ServedOperation
<1>3. UNCHANGED reply
  BY DEF HandlerStep, SaleUnanswered, RedisFails, InvalidInput,
         AlreadyProcessed, NotProcessed, Buy, WatchError, AnswerDropped,
         Answers, AtReplica, nginxVars
<1>4. ASSUME NEW response, answer' = [answer EXCEPT ![c][r] = response],
             TrueTo(c, response)'
      PROVE  \A d \in Operations, s \in Replicas :
               \/ answer'[d][s] \in {None, answer[d][s]}
               \/ TrueTo(d, answer[d][s])'
  <2> SUFFICES ASSUME NEW d \in Operations, NEW s \in Replicas,
                      answer'[d][s] \notin {None, answer[d][s]}
               PROVE  TrueTo(d, answer[d][s])'
    OBVIOUS
  <2>1. d = c /\ s = r /\ answer'[d][s] = response
    BY <1>0, <1>4
  <2> QED
    BY <1>4, <2>1 DEF TrueTo
<1>5. ASSUME NEW result \in PurchaseResult, ValidInput(file[c]),
             Sell(file[c], result)
      PROVE  /\ SalesTrue'
             /\ \A d \in Operations : \A response \in Response \cup {None} :
                  TrueTo(d, response) => TrueTo(d, response)'
             /\ TrueTo(c, PurchaseResponse(result))'
  BY <1>2, <1>5, SaleIsTrue, SaleKeepsTruth DEF Truthful
<1>6. CASE AlreadyProcessed(c, r)
  <2>1. PICK result :
          /\ Repeat(file[c], result)
          /\ Answers(c, r, PurchaseResponse(result))
          /\ ValidInput(file[c])
    BY <1>2, <1>6 DEF AlreadyProcessed
  <2>2. TrueTo(c, PurchaseResponse(result))'
    BY <1>2, <2>1, AnswerIsTrue DEF Truthful
  <2>3. UNCHANGED boxOffice
    BY <2>1 DEF Repeat
  <2> QED
    BY <1>3, <1>4, <2>1, <2>2, <2>3, BoxOfficeUnchanged, TruthCarries
       DEF Answers
<1>7. CASE Buy(c, r)
  <2>1. PICK result \in ResultsFor(file[c]) :
          /\ Sell(file[c], result) \/ Refuse(file[c], result)
          /\ Answers(c, r, PurchaseResponse(result))
          /\ ValidInput(file[c])
    BY <1>2, <1>7 DEF Buy
  <2>2. CASE Sell(file[c], result)
    <3>1. result \in PurchaseResult
      BY <1>2, <2>1, ResultTypes
    <3> QED
      BY <1>3, <1>4, <1>5, <2>1, <2>2, <3>1, TruthCarries DEF Answers
  <2>3. CASE Refuse(file[c], result)
    <3>1. TrueTo(c, PurchaseResponse(result))'
      BY <1>2, <2>1, <2>3, AnswerIsTrue DEF Truthful
    <3>2. UNCHANGED boxOffice
      BY <2>3 DEF Refuse
    <3> QED
      BY <1>3, <1>4, <2>1, <3>1, <3>2, BoxOfficeUnchanged, TruthCarries
         DEF Answers
  <2> QED
    BY <2>1, <2>2, <2>3
<1>8. CASE SaleUnanswered(c, r)
  <2>1. PICK result \in ResultsFor(file[c]) :
          Sell(file[c], result) /\ ValidInput(file[c]) /\ UNCHANGED answer
    BY <1>2, <1>8 DEF SaleUnanswered
  <2>2. result \in PurchaseResult
    BY <1>2, <2>1, ResultTypes
  <2> QED
    BY <1>3, <1>5, <2>1, <2>2, TruthCarries
<1>9. CASE InvalidInput(c, r) \/ RedisFails(c, r)
  <2>1. PICK code \in {400, 500} : Answers(c, r, Status(code)) /\ UNCHANGED boxOffice
    BY <1>9 DEF InvalidInput, RedisFails
  <2>2. TrueTo(c, Status(code))'
    BY DEF TrueTo, Status
  <2> QED
    BY <1>3, <1>4, <2>1, <2>2, BoxOfficeUnchanged, TruthCarries DEF Answers
<1>10. CASE NotProcessed(c, r) \/ WatchError(c, r)
  <2>1. UNCHANGED <<boxOffice, answer>>
    BY <1>10 DEF NotProcessed, WatchError
  <2> QED
    BY <1>3, <2>1, BoxOfficeUnchanged, TruthCarries
<1>11. CASE AnswerDropped(c, r)
  <2>1. answer' = [answer EXCEPT ![c][r] = None] /\ UNCHANGED boxOffice
    BY <1>11 DEF AnswerDropped
  <2>2. TrueTo(c, None)'
    BY DEF TrueTo
  <2> QED
    BY <1>3, <1>4, <2>1, <2>2, BoxOfficeUnchanged, TruthCarries
<1> QED
  BY <1>6, <1>7, <1>8, <1>9, <1>10, <1>11 DEF HandlerStep

(* All other steps leave the box office alone and pass responses on. *)
LEMMA PassOn ==
  ASSUME Typed, Truthful, Next, UNCHANGED boxOffice,
         \A c \in Operations :
           \/ reply'[c] = reply[c]
           \/ reply'[c].body = None
           \/ \E r \in Replicas : reply'[c] = answer[c][r],
         \A c \in Operations, r \in Replicas :
           answer'[c][r] \in {None, answer[c][r]}
  PROVE  Truthful'
<1>1. UNCHANGED file
  BY DEF Next, RunnerStep, RunnerFault, DirectAlone, Finished, Send, Receive,
         WriteSummary, WriteResults, RequestFails, Interrupt, vars
<1> QED
  BY <1>1, BoxOfficeUnchanged, TruthCarries

LEMMA NginxTruth ==
  ASSUME Typed, Truthful, DirectAlone, NEW c \in Calls,
         NginxStep(c) \/ UpstreamLost(c)
  PROVE  Truthful'
<1>0. /\ answer \in [Calls -> [Replicas -> Response \cup {None}]]
      /\ reply \in [Calls -> Response \cup {None}]
      /\ \A d \in Operations : d \in Calls
  BY OperationTypes DEF Typed, TypeOK, DirectTypeOK
<1>1. \A code : Status(code).body = None
  BY DEF Status
<1>2. Next
  BY DEF Next
<1>3. CASE Forward(c)
  <2>1. UNCHANGED <<boxOffice, reply, answer>>
    BY <1>3 DEF Forward
  <2> QED
    BY <1>2, <2>1, PassOn
<1>4. CASE ConnectionRefused(c) \/ UpstreamError(c) \/ UpstreamLost(c)
  <2>1. PICK r, code : NextUpstream(c, r, code)
    BY <1>4 DEF ConnectionRefused, UpstreamError, UpstreamLost
  <2>2. \A d \in Operations : reply'[d] = reply[d] \/ reply'[d] = Status(code)
    BY <1>0, <2>1 DEF NextUpstream, Respond
  <2>3. UNCHANGED <<boxOffice, answer>>
    BY <2>1 DEF NextUpstream, apiVars
  <2> QED
    BY <1>1, <1>2, <2>2, <2>3, PassOn
<1>5. CASE NoLiveUpstreams(c)
  <2>1. \A d \in Operations : reply'[d] = reply[d] \/ reply'[d] = Status(502)
    BY <1>0, <1>5 DEF NoLiveUpstreams, Respond
  <2>2. UNCHANGED <<boxOffice, answer>>
    BY <1>5 DEF NoLiveUpstreams, apiVars
  <2> QED
    BY <1>1, <1>2, <2>1, <2>2, PassOn
<1>6. CASE UpstreamAnswers(c)
  <2>1. PICK r \in Replicas :
          /\ reply' = [reply EXCEPT ![c] = answer[c][r]]
          /\ answer' = [answer EXCEPT ![c][r] = None]
          /\ UNCHANGED boxOffice
    BY <1>6 DEF UpstreamAnswers, Respond
  <2>2. \A d \in Operations :
          reply'[d] = reply[d] \/ \E s \in Replicas : reply'[d] = answer[d][s]
    BY <1>0, <2>1
  <2>3. \A d \in Operations, s \in Replicas :
          answer'[d][s] \in {None, answer[d][s]}
    BY <1>0, <2>1
  <2> QED
    BY <1>2, <2>1, <2>2, <2>3, PassOn
<1> QED
  BY <1>3, <1>4, <1>5, <1>6 DEF NginxStep

LEMMA TruthfulStep == Typed /\ Truthful /\ [Next]_vars => Truthful'
<1> SUFFICES ASSUME Typed, Truthful, [Next]_vars PROVE Truthful'
  OBVIOUS
<1>0. /\ answer \in [Calls -> [Replicas -> Response \cup {None}]]
      /\ \A d \in Operations : d \in Calls
  BY OperationTypes DEF Typed, TypeOK, DirectTypeOK
<1>1. CASE RunnerStep \/ RunnerFault
  <2>1. UNCHANGED <<boxOffice, reply, answer>> /\ Next
    BY <1>1 DEF Next, RunnerStep, RunnerFault, Send, Receive, WriteSummary,
                WriteResults, RequestFails, ClientCloses, Interrupt, apiVars,
                directVars, nginxVars
  <2> QED
    BY <2>1, PassOn
<1>2. CASE DirectAlone
  <2>1. UNCHANGED runnerVars /\ Next
    BY <1>2 DEF DirectAlone, runnerVars, Next
  <2>2. ASSUME NEW r \in Replicas, FailTimeout(r) \/ Crash(r) \/ Restart(r)
        PROVE  Truthful'
    <3>1. UNCHANGED <<boxOffice, reply>>
      BY <2>2 DEF FailTimeout, Crash, Restart, nginxVars
    <3>2. \A d \in Operations, s \in Replicas :
            answer'[d][s] \in {None, answer[d][s]}
      BY <1>0, <2>2 DEF FailTimeout, Crash, Restart, apiVars
    <3> QED
      BY <2>1, <3>1, <3>2, PassOn
  <2> QED
    BY <1>2, <2>1, <2>2, HandlerTruth, NginxTruth
       DEF DirectAlone, DirectStep, DirectFault
<1>3. CASE Finished \/ UNCHANGED vars
  <2>1. UNCHANGED <<file, boxOffice, reply, answer>>
    BY <1>3 DEF Finished, vars, directVars, nginxVars, apiVars
  <2> QED
    BY <2>1, BoxOfficeUnchanged, TruthCarries
<1> QED
  BY <1>1, <1>2, <1>3 DEF Next

(* Whatever fails and however many replicas work on a purchase, what its   *)
(* client is told is true of the sales on record.                          *)
THEOREM NobodyIsToldLies == Spec => []RepliesTrue
<1>1. Spec => []Typed
  BY TypedInit, TypedStep, PTL DEF Spec
<1>2. Spec => []Truthful
  BY <1>1, TruthfulInit, TruthfulStep, PTL DEF Spec
<1> QED
  BY <1>1, <1>2, TruthfulReplies, PTL

----------------------------------------------------------------------------
(* Refusals.                                                               *)

(* A call that nginx has not abandoned is served by one replica at a time, *)
(* by none that nginx has turned away from, and by none after the reply.   *)
SoleHandler ==
  \A c \in Calls :
    /\ reply[c] # None => upstream[c] = "closed"
    /\ c \notin abandoned =>
         \A r \in Replicas :
           handler[c][r] # "idle" =>
             upstream[c] = r \/ (upstream[c] = "closed" /\ reply[c] = None)

(* Such a call has no sale on record while its handler believes so, or has *)
(* a refusal to deliver.                                                   *)
UnsoldRefused ==
  \A c \in Operations :
    c \notin abandoned /\ ValidInput(file[c]) =>
      /\ reply[c] # None /\ reply[c].code = 409 =>
           ledger[file[c].request_id] = None
      /\ \A r \in Replicas :
           upstream[c] = r =>
             /\ handler[c][r] = "unprocessed" =>
                  ledger[file[c].request_id] = None
             /\ handler[c][r] = "answered" /\ answer[c][r].code = 409 =>
                  ledger[file[c].request_id] = None

Refusals == SoleHandler /\ UnsoldRefused

LEMMA RefusalsInit == BenchmarkInit => Refusals
<1> SUFFICES ASSUME BenchmarkInit PROVE Refusals
  OBVIOUS
<1>1. \A c \in Operations : c \in Calls
  BY TypedInit, OperationTypes DEF Typed
<1> QED
  BY <1>1, DirectAssumption
     DEF Refusals, SoleHandler, UnsoldRefused, BenchmarkInit, DirectInit

(* What the proofs below need to know of types. *)
LEMMA Shapes ==
  ASSUME Typed
  PROVE  /\ upstream \in [Calls -> {"idle", "choosing", "closed"} \cup Replicas]
         /\ reply \in [Calls -> Response \cup {None}]
         /\ handler \in [Calls -> [Replicas -> HandlerPlaces]]
         /\ answer \in [Calls -> [Replicas -> Response \cup {None}]]
         /\ Replicas \cap {"idle", "choosing", "closed"} = {}
         /\ \A c \in Operations : c \in Calls
BY OperationTypes, DirectAssumption DEF Typed, TypeOK, DirectTypeOK

(* One handler goes on, and perhaps sells. *)
LEMMA HandlerRefusals ==
  ASSUME Typed, Refusals, UNCHANGED file,
         NEW c \in Operations, NEW r \in Replicas, NEW place \in HandlerPlaces,
         handler[c][r] # "idle", AtReplica(c, r, place),
         \A d \in Operations, s \in Replicas :
           d # c \/ s # r => answer'[d][s] = answer[d][s],
         \A d \in Operations : d # c /\ ValidInput(file[d]) =>
           ledger'[file[d].request_id] = ledger[file[d].request_id],
         place = "unprocessed" => ledger'[file[c].request_id] = None,
         /\ c \notin abandoned /\ upstream[c] = r /\ ValidInput(file[c])
         /\ place = "answered" /\ answer'[c][r].code = 409
         => ledger'[file[c].request_id] = None
  PROVE  Refusals'
<1> USE Shapes DEF AtReplica, nginxVars
<1>1. /\ \A d \in Calls, s \in Replicas :
           d # c \/ s # r => handler'[d][s] = handler[d][s]
      /\ handler'[c][r] = place
  OBVIOUS
<1>2. SoleHandler'
  BY <1>1 DEF Refusals, SoleHandler
<1>3. ASSUME NEW d \in Operations, d \notin abandoned, ValidInput(file[d])
      PROVE  /\ reply[d] # None /\ reply[d].code = 409 =>
                  ledger'[file[d].request_id] = None
             /\ \A s \in Replicas :
                  upstream[d] = s =>
                    /\ handler'[d][s] = "unprocessed" =>
                         ledger'[file[d].request_id] = None
                    /\ handler'[d][s] = "answered" /\ answer'[d][s].code = 409 =>
                         ledger'[file[d].request_id] = None
  <2>1. CASE d # c
    BY <1>1, <1>3, <2>1 DEF Refusals, UnsoldRefused
  <2>2. CASE d = c
    <3>1. upstream[c] = r \/ upstream[c] = "closed"
      BY <1>3, <2>2 DEF Refusals, SoleHandler
    <3>2. reply[c] = None
      BY <1>3, <2>2 DEF Refusals, SoleHandler
    <3> QED
      BY <1>1, <1>3, <2>2, <3>1, <3>2
  <2> QED
    BY <2>1, <2>2
<1>4. UnsoldRefused'
  BY <1>3 DEF UnsoldRefused, Operations
<1> QED
  BY <1>2, <1>4 DEF Refusals

LEMMA HandlerStepRefusals ==
  ASSUME Typed, Refusals, UNCHANGED runnerVars,
         NEW c \in Calls, NEW r \in Replicas,
         HandlerStep(c, r) \/ SaleUnanswered(c, r) \/ RedisFails(c, r)
  PROVE  Refusals'
<1> DEFINE id == file[c].request_id
<1>0. UNCHANGED file /\ handler[c][r] # "idle"
  BY DEF HandlerStep, SaleUnanswered, RedisFails, InvalidInput, runnerVars,
         AlreadyProcessed, NotProcessed, Buy, WatchError, AnswerDropped
<1>1. /\ c \in Operations
      /\ purchase[c] = file[c]
      /\ handler[c][r] = "unprocessed" => ValidInput(file[c])
  BY <1>0, ServedOperation
<1>2. ledger \in [RequestIds -> PurchaseResult \cup {None}]
  BY DEF Typed, TypeOK, DirectTypeOK
<1>3. ASSUME NEW response, answer' = [answer EXCEPT ![c][r] = response]
      PROVE  /\ \A d \in Operations, s \in Replicas :
                  d # c \/ s # r => answer'[d][s] = answer[d][s]
             /\ answer'[c][r] = response
  BY <1>1, <1>3, Shapes
<1>4. ASSUME ValidInput(file[c]), NEW result, Sell(file[c], result)
      PROVE  /\ \A d \in Operations : d # c /\ ValidInput(file[d]) =>
                  ledger'[file[d].request_id] = ledger[file[d].request_id]
             /\ PurchaseResponse(result).code = 200
  <2>1. /\ ledger' = [ledger EXCEPT ![id] = result]
        /\ result.status = "ACCEPTED"
    BY <1>4 DEF Sell, SellTicket, SellSeat, accepted
  <2>2. \A d \in Operations : d # c /\ ValidInput(file[d]) =>
          file[d].request_id # id /\ file[d].request_id \in RequestIds
    BY <1>1, OperationTypes, ValidOperation DEF Typed
  <2> QED
    BY <1>2, <2>1, <2>2 DEF PurchaseResponse, status_code_from_result
<1>5. CASE AlreadyProcessed(c, r)
  <2>1. PICK result :
          /\ Repeat(file[c], result)
          /\ Answers(c, r, PurchaseResponse(result))
          /\ ValidInput(file[c])
    BY <1>1, <1>5 DEF AlreadyProcessed
  <2>2. result.duplicate = TRUE
    <3>1. ledger[id] \in PurchaseResult
      BY <1>1, <1>2, <2>1, ValidOperation DEF Repeat, Typed
    <3> QED
      BY <2>1, <3>1 DEF Repeat, Replayed, PurchaseResult
  <2> DEFINE response == PurchaseResponse(result)
  <2>3. Answers(c, r, response) /\ response.code = 200
    BY <2>1, <2>2 DEF PurchaseResponse, status_code_from_result
  <2> HIDE DEF response
  <2>4. /\ \A d \in Operations, s \in Replicas :
             d # c \/ s # r => answer'[d][s] = answer[d][s]
        /\ answer'[c][r].code = 200
        /\ AtReplica(c, r, "answered")
    BY <1>1, <2>3, Shapes DEF Answers
  <2> QED
    BY <1>0, <1>1, <2>1, <2>4, HandlerRefusals
       DEF Repeat, boxOffice, HandlerPlaces
<1>6. CASE Buy(c, r)
  <2>1. PICK result \in ResultsFor(file[c]) :
          /\ Sell(file[c], result) \/ Refuse(file[c], result)
          /\ Answers(c, r, PurchaseResponse(result))
          /\ ValidInput(file[c])
    BY <1>1, <1>6 DEF Buy
  <2> DEFINE response == PurchaseResponse(result)
  <2>5. Answers(c, r, response)
    BY <2>1
  <2> HIDE DEF response
  <2>4. /\ \A d \in Operations, s \in Replicas :
             d # c \/ s # r => answer'[d][s] = answer[d][s]
        /\ answer'[c][r] = response
        /\ AtReplica(c, r, "answered")
    BY <1>1, <2>5, Shapes DEF Answers
  <2>2. CASE Sell(file[c], result)
    <3>1. /\ \A d \in Operations : d # c /\ ValidInput(file[d]) =>
               ledger'[file[d].request_id] = ledger[file[d].request_id]
          /\ response.code = 200
      BY <1>4, <2>1, <2>2 DEF response
    <3> QED
      BY <1>0, <1>1, <2>4, <3>1, HandlerRefusals DEF HandlerPlaces
  <2>3. CASE Refuse(file[c], result)
    <3>1. c \notin abandoned /\ upstream[c] = r => ledger[id] = None
      BY <1>1, <1>6, <2>1 DEF Buy, Refusals, UnsoldRefused
    <3>2. UNCHANGED ledger
      BY <2>3 DEF Refuse, boxOffice
    <3> QED
      BY <1>0, <1>1, <2>4, <3>1, <3>2, HandlerRefusals DEF HandlerPlaces
  <2> QED
    BY <2>1, <2>2, <2>3
<1>7. CASE SaleUnanswered(c, r)
  <2>1. PICK result : /\ Sell(file[c], result)
                      /\ ValidInput(file[c])
                      /\ AtReplica(c, r, "received")
                      /\ UNCHANGED answer
    BY <1>1, <1>7 DEF SaleUnanswered
  <2> QED
    BY <1>0, <1>1, <1>4, <2>1, HandlerRefusals DEF HandlerPlaces
<1>8. CASE InvalidInput(c, r) \/ RedisFails(c, r)
  <2>1. PICK code \in {400, 500} :
          Answers(c, r, Status(code)) /\ UNCHANGED boxOffice
    BY <1>8 DEF InvalidInput, RedisFails
  <2> DEFINE response == Status(code)
  <2>2. Answers(c, r, response) /\ response.code # 409
    BY <2>1 DEF Status
  <2> HIDE DEF response
  <2>3. /\ \A d \in Operations, s \in Replicas :
             d # c \/ s # r => answer'[d][s] = answer[d][s]
        /\ answer'[c][r].code # 409
        /\ AtReplica(c, r, "answered")
    BY <1>1, <2>2, Shapes DEF Answers
  <2> QED
    BY <1>0, <1>1, <2>1, <2>3, HandlerRefusals DEF boxOffice, HandlerPlaces
<1>9. CASE NotProcessed(c, r)
  <2>1. /\ AtReplica(c, r, "unprocessed")
        /\ ledger[id] = None
        /\ UNCHANGED <<boxOffice, answer>>
    BY <1>1, <1>9 DEF NotProcessed
  <2> QED
    BY <1>0, <1>1, <2>1, HandlerRefusals DEF boxOffice, HandlerPlaces
<1>10. CASE WatchError(c, r)
  <2>1. AtReplica(c, r, "received") /\ UNCHANGED <<boxOffice, answer>>
    BY <1>10 DEF WatchError
  <2> QED
    BY <1>0, <1>1, <2>1, HandlerRefusals DEF boxOffice, HandlerPlaces
<1>11. CASE AnswerDropped(c, r)
  <2>1. /\ AtReplica(c, r, "idle")
        /\ answer' = [answer EXCEPT ![c][r] = None]
        /\ UNCHANGED boxOffice
    BY <1>11 DEF AnswerDropped
  <2> QED
    BY <1>0, <1>1, <1>3, <2>1, HandlerRefusals DEF boxOffice, HandlerPlaces
<1> QED
  BY <1>5, <1>6, <1>7, <1>8, <1>9, <1>10, <1>11 DEF HandlerStep
(* A step of nginx concerns one call, and sells nothing. *)
LEMMA OneCallRefusals ==
  ASSUME Typed, Refusals, UNCHANGED <<file, ledger>>, NEW c \in Calls,
         \A d \in Calls : d # c =>
           /\ upstream'[d] = upstream[d]
           /\ reply'[d] = reply[d]
           /\ d \notin abandoned' => d \notin abandoned
           /\ \A s \in Replicas : handler'[d][s] = handler[d][s]
           /\ \A s \in Replicas : answer'[d][s] = answer[d][s],
         reply'[c] # None =>
           /\ upstream'[c] = "closed"
           /\ c \in Operations /\ c \notin abandoned' /\ ValidInput(file[c])
              /\ reply'[c].code = 409
              => ledger[file[c].request_id] = None,
         c \notin abandoned' =>
           \A s \in Replicas : handler'[c][s] # "idle" =>
             handler'[c][s] = "received" /\ upstream'[c] = s
  PROVE  Refusals'
<1>1. SoleHandler'
  BY DEF Refusals, SoleHandler
<1>2. ASSUME NEW d \in Operations, d \notin abandoned', ValidInput(file[d])
      PROVE  /\ reply'[d] # None /\ reply'[d].code = 409 =>
                  ledger[file[d].request_id] = None
             /\ \A s \in Replicas :
                  upstream'[d] = s =>
                    /\ handler'[d][s] = "unprocessed" =>
                         ledger[file[d].request_id] = None
                    /\ handler'[d][s] = "answered" /\ answer'[d][s].code = 409 =>
                         ledger[file[d].request_id] = None
  <2>1. d \in Calls
    BY Shapes
  <2>2. CASE d # c
    BY <1>2, <2>1, <2>2 DEF Refusals, UnsoldRefused
  <2>3. CASE d = c
    BY <1>2, <2>3
  <2> QED
    BY <2>2, <2>3
<1>3. UnsoldRefused'
  BY <1>2 DEF UnsoldRefused, Operations
<1> QED
  BY <1>1, <1>3 DEF Refusals

LEMMA NginxRefusals ==
  ASSUME Typed, Refusals, UNCHANGED runnerVars, NEW c \in Calls,
         NginxStep(c) \/ UpstreamLost(c)
  PROVE  Refusals'
<1>1. UNCHANGED <<file, ledger>>
  BY DEF runnerVars, NginxStep, UpstreamLost, Forward, ConnectionRefused,
         NoLiveUpstreams, UpstreamError, UpstreamAnswers, NextUpstream,
         boxOffice
<1>2. \A code \in {502, 504} : Status(code).code # 409
  BY DEF Status
<1>3. ASSUME upstream[c] = "choosing", c \notin abandoned
      PROVE  \A s \in Replicas : handler[c][s] = "idle"
  BY <1>3, Shapes DEF Refusals, SoleHandler
<1>4. CASE Forward(c)
  <2>1. PICK r \in Replicas :
          /\ upstream[c] = "choosing"
          /\ upstream' = [upstream EXCEPT ![c] = r]
          /\ handler' = [handler EXCEPT ![c][r] = "received"]
          /\ UNCHANGED <<reply, answer, abandoned>>
    BY <1>4 DEF Forward, LeastConnected, Available
  <2>2. reply[c] = None
    BY <2>1 DEF Refusals, SoleHandler
  <2> QED
    BY <1>1, <1>3, <2>1, <2>2, Shapes, OneCallRefusals
<1>5. CASE ConnectionRefused(c) \/ UpstreamError(c) \/ UpstreamLost(c)
  <2>1. PICK r \in Replicas, code \in {502, 504} :
          /\ NextUpstream(c, r, code)
          /\ \/ upstream[c] = "choosing"
             \/ upstream[c] = r /\ handler[c][r] = "idle"
             \/ c \in abandoned'
          /\ abandoned \subseteq abandoned'
          /\ \A d \in Calls : d # c /\ d \notin abandoned' => d \notin abandoned
    BY <1>5 DEF ConnectionRefused, UpstreamError, UpstreamLost, LeastConnected,
                Available
  <2>2. UNCHANGED <<handler, answer>>
    BY <2>1 DEF NextUpstream, apiVars
  <2>3. c \notin abandoned' => \A s \in Replicas : handler[c][s] = "idle"
    BY <1>3, <2>1, Shapes DEF Refusals, SoleHandler
  <2>4. /\ \A d \in Calls : d # c => /\ upstream'[d] = upstream[d]
                                     /\ reply'[d] = reply[d]
        /\ \/ UNCHANGED reply
           \/ upstream'[c] = "closed" /\ reply'[c] = Status(code)
    BY <2>1, Shapes DEF NextUpstream, Respond
  <2>5. \/ upstream[c] \in Replicas \cup {"choosing"}
        \/ UpstreamLost(c)
    BY <1>5 DEF ConnectionRefused, UpstreamError
  <2>6. upstream[c] # "closed"
    BY <2>5, Shapes DEF UpstreamLost
  <2>7. reply[c] = None
    BY <2>6 DEF Refusals, SoleHandler
  <2> QED
    BY <1>1, <1>2, <2>1, <2>2, <2>3, <2>4, <2>7, OneCallRefusals
<1>6. CASE NoLiveUpstreams(c)
  <2>1. /\ upstream[c] = "choosing"
        /\ upstream' = [upstream EXCEPT ![c] = "closed"]
        /\ reply' = [reply EXCEPT ![c] = Status(502)]
        /\ UNCHANGED <<handler, answer, abandoned>>
    BY <1>6 DEF NoLiveUpstreams, Respond, apiVars
  <2> QED
    BY <1>1, <1>2, <1>3, <2>1, Shapes, OneCallRefusals
<1>7. CASE UpstreamAnswers(c)
  <2>1. PICK r \in Replicas :
          /\ upstream[c] = r
          /\ handler[c][r] = "answered"
          /\ upstream' = [upstream EXCEPT ![c] = "closed"]
          /\ reply' = [reply EXCEPT ![c] = answer[c][r]]
          /\ handler' = [handler EXCEPT ![c][r] = "idle"]
          /\ answer' = [answer EXCEPT ![c][r] = None]
          /\ UNCHANGED abandoned
    BY <1>7 DEF UpstreamAnswers, Respond
  <2>2. c \in Operations /\ c \notin abandoned /\ ValidInput(file[c])
        /\ answer[c][r].code = 409
        => ledger[file[c].request_id] = None
    BY <2>1 DEF Refusals, UnsoldRefused
  <2>3. c \notin abandoned =>
          \A s \in Replicas : s # r => handler[c][s] = "idle"
    BY <2>1, Shapes DEF Refusals, SoleHandler
  <2> QED
    BY <1>1, <2>1, <2>2, <2>3, Shapes, OneCallRefusals
<1> QED
  BY <1>4, <1>5, <1>6, <1>7 DEF NginxStep

(* A replica that dies takes its handlers with it. *)
LEMMA ReplicaRefusals ==
  ASSUME Typed, Refusals, UNCHANGED runnerVars, NEW r \in Replicas,
         FailTimeout(r) \/ Crash(r) \/ Restart(r)
  PROVE  Refusals'
<1>1. UNCHANGED <<file, ledger, upstream, reply, abandoned>>
  BY DEF runnerVars, FailTimeout, Crash, Restart, nginxVars, boxOffice
<1>2. \A d \in Calls, s \in Replicas :
        \/ handler'[d][s] = "idle"
        \/ handler'[d][s] = handler[d][s] /\ answer'[d][s] = answer[d][s]
  BY Shapes DEF FailTimeout, Crash, Restart, apiVars
<1>3. SoleHandler'
  BY <1>1, <1>2 DEF Refusals, SoleHandler
<1>4. UnsoldRefused'
  BY <1>1, <1>2, Shapes DEF Refusals, UnsoldRefused, Operations
<1> QED
  BY <1>3, <1>4 DEF Refusals

(* The runner opens connections and closes them. *)
LEMMA RunnerRefusals ==
  ASSUME Typed, Refusals, RunnerStep \/ RunnerFault
  PROVE  Refusals'
<1>1. UNCHANGED <<file, ledger, reply, handler, answer, abandoned>>
  BY DEF RunnerStep, RunnerFault, Send, Receive, WriteSummary, WriteResults,
         RequestFails, Interrupt, directVars, nginxVars, apiVars, boxOffice
<1>2. \A d \in Calls :
        \/ upstream'[d] = upstream[d]
        \/ upstream'[d] = "closed"
        \/ upstream[d] = "idle" /\ upstream'[d] = "choosing"
  <2>1. ASSUME NEW c \in Calls, Send(c)
        PROVE  /\ upstream[c] = "idle"
               /\ upstream' = [upstream EXCEPT ![c] = "choosing"]
    BY <2>1 DEF Send, Pending
  <2>2. ASSUME NEW c \in Calls, RequestFails(c)
        PROVE  upstream' = [upstream EXCEPT ![c] = "closed"]
    BY <2>2 DEF RequestFails, ClientCloses
  <2>3. CASE Interrupt
    BY <2>3 DEF Interrupt
  <2>4. CASE WriteSummary \/ WriteResults \/ \E c \in Calls : Receive(c)
    BY <2>4 DEF WriteSummary, WriteResults, Receive, directVars, nginxVars
  <2> QED
    BY <2>1, <2>2, <2>3, <2>4, Shapes DEF RunnerStep, RunnerFault
<1>3. SoleHandler'
  BY <1>1, <1>2, Shapes DEF Refusals, SoleHandler
<1>4. \A d \in Calls, s \in Replicas : upstream'[d] = s => upstream[d] = s
  BY <1>2, Shapes
<1>5. UnsoldRefused'
  BY <1>1, <1>4, Shapes DEF Refusals, UnsoldRefused, Operations
<1> QED
  BY <1>3, <1>5 DEF Refusals

LEMMA RefusalsStep == Typed /\ Refusals /\ [Next]_vars => Refusals'
<1> SUFFICES ASSUME Typed, Refusals, [Next]_vars PROVE Refusals'
  OBVIOUS
<1>1. CASE DirectAlone
  <2>1. UNCHANGED runnerVars
    BY <1>1 DEF DirectAlone, runnerVars
  <2> QED
    BY <1>1, <2>1, HandlerStepRefusals, NginxRefusals, ReplicaRefusals
       DEF DirectAlone, DirectStep, DirectFault
<1>2. CASE Finished \/ UNCHANGED vars
  <2>1. UNCHANGED <<file, ledger, upstream, reply, handler, answer, abandoned>>
    BY <1>2 DEF Finished, vars, directVars, nginxVars, apiVars, boxOffice
  <2> QED
    BY <2>1 DEF Refusals, SoleHandler, UnsoldRefused, Operations
<1> QED
  BY <1>1, <1>2, RunnerRefusals DEF Next

(* A purchase that its client was refused has not been sold, as long as    *)
(* nginx has not left a replica working on it for another one: crashes,    *)
(* retries and lost answers to an EXEC do not turn a sale into a refusal.  *)
THEOREM RefusedStaysUnsold == Spec => []RefusedMeansUnsold
<1>1. Spec => []Typed
  BY TypedInit, TypedStep, PTL DEF Spec
<1>2. Spec => []Refusals
  BY <1>1, RefusalsInit, RefusalsStep, PTL DEF Spec
<1>3. Refusals => RefusedMeansUnsold
  BY DEF Refusals, UnsoldRefused, RefusedMeansUnsold, Sold
<1> QED
  BY <1>2, <1>3, PTL

----------------------------------------------------------------------------
(* The accounts of the benchmark.                                          *)

(* The file is finite, and so is everything that is counted in it. *)
LEMMA FiniteOperations ==
  ASSUME Requests
  PROVE  IsFiniteSet(Operations)
<1>1. file \in Seq(Ops \cup {Comment, Garbage})
  BY BenchmarkAssumption DEF Requests
<1>2. DOMAIN file = 1..Len(file) /\ Len(file) \in Nat
  BY <1>1
<1>3. IsFiniteSet(DOMAIN file)
  BY <1>2, FS_Interval
<1>4. Operations \subseteq DOMAIN file
  BY DEF Operations, OperationLines
<1> QED
  BY <1>3, <1>4, FS_Subset

(* No step changes the box office except by a sale to one operation. *)
LEMMA StepSells ==
  ASSUME Typed, [Next]_vars
  PROVE  /\ UNCHANGED file
         /\ \/ UNCHANGED boxOffice
            \/ \E c \in Operations :
                 /\ upstream[c] # "idle"
                 /\ ValidInput(file[c])
                 /\ \E result \in PurchaseResult : Sell(file[c], result)
<1>1. ASSUME NEW c \in Calls, NEW r \in Replicas,
             HandlerStep(c, r) \/ SaleUnanswered(c, r) \/ RedisFails(c, r)
      PROVE  \/ UNCHANGED boxOffice
             \/ \E d \in Operations :
                  /\ upstream[d] # "idle"
                  /\ ValidInput(file[d])
                  /\ \E result \in PurchaseResult : Sell(file[d], result)
  <2>1. CASE InvalidInput(c, r) \/ NotProcessed(c, r) \/ WatchError(c, r)
             \/ AnswerDropped(c, r) \/ RedisFails(c, r)
    BY <2>1 DEF InvalidInput, NotProcessed, WatchError, AnswerDropped,
                RedisFails
  <2>2. CASE AlreadyProcessed(c, r)
    BY <2>2 DEF AlreadyProcessed, Repeat
  <2>3. CASE Buy(c, r) \/ SaleUnanswered(c, r)
    <3>1. handler[c][r] = "unprocessed"
      BY <2>3 DEF Buy, SaleUnanswered
    <3>2. /\ c \in Operations /\ purchase[c] = file[c] /\ ValidInput(file[c])
          /\ upstream[c] # "idle"
      BY <3>1, ServedOperation DEF Typed, Requests
    <3>3. PICK result \in ResultsFor(file[c]) :
            Sell(file[c], result) \/ Refuse(file[c], result)
      BY <2>3, <3>2 DEF Buy, SaleUnanswered
    <3>4. result \in PurchaseResult
      BY <3>2, ResultTypes
    <3> QED
      BY <3>2, <3>3, <3>4 DEF Refuse
  <2> QED
    BY <1>1, <2>1, <2>2, <2>3 DEF HandlerStep
<1>2. ASSUME NEW c \in Calls, NginxStep(c) \/ UpstreamLost(c)
      PROVE  UNCHANGED boxOffice
  BY <1>2 DEF NginxStep, Forward, ConnectionRefused, NoLiveUpstreams,
              UpstreamError, UpstreamAnswers, UpstreamLost, NextUpstream
<1>3. ASSUME NEW r \in Replicas, FailTimeout(r) \/ Crash(r) \/ Restart(r)
      PROVE  UNCHANGED boxOffice
  BY <1>3 DEF FailTimeout, Crash, Restart
<1>4. CASE DirectAlone
  BY <1>1, <1>2, <1>3, <1>4 DEF DirectAlone, DirectStep, DirectFault
<1>5. CASE RunnerStep \/ RunnerFault
  BY <1>5 DEF RunnerStep, RunnerFault, Send, Receive, WriteSummary,
              WriteResults, RequestFails, Interrupt, directVars
<1>6. CASE Finished \/ UNCHANGED vars
  BY <1>6 DEF Finished, vars, directVars
<1> QED
  BY <1>4, <1>5, <1>6 DEF Next

(* What operations have been sold, by type, and what is left.              *)
SoldAs(type) == {c \in Sold : file[c].ticket_type = type}
FreeSeats == {s \in Offered : owner[s] = None}

(* Every ticket and every seat is either left or sold to one operation,    *)
(* whose sale is on record with its client.                                *)
Counted ==
  /\ stock + Cardinality(SoldAs("unnumbered")) = SeededTickets
  /\ Cardinality(FreeSeats) + Cardinality(SoldAs("numbered")) = SeededTickets
  /\ \A c \in Sold :
       /\ ledger[file[c].request_id].status = "ACCEPTED"
       /\ ledger[file[c].request_id].reason = "ok"
       /\ ledger[file[c].request_id].client_id = file[c].client_id

LEMMA FiniteSales ==
  ASSUME Requests
  PROVE  /\ IsFiniteSet(Sold)
         /\ \A type : IsFiniteSet(SoldAs(type))
         /\ Cardinality(Sold) \in Nat
         /\ \A type : Cardinality(SoldAs(type)) \in Nat
<1>1. Sold \subseteq Operations /\ \A type : SoldAs(type) \subseteq Operations
  BY DEF Sold, SoldAs
<1> QED
  BY <1>1, FiniteOperations, FS_Subset, FS_CardinalityType

LEMMA FiniteSeats ==
  /\ IsFiniteSet(Offered)
  /\ Cardinality(Offered) = SeededTickets
  /\ IsFiniteSet(FreeSeats)
  /\ Cardinality(FreeSeats) \in Nat
<1>1. SeededTickets \in Nat
  BY BenchmarkAssumption, DomainAssumption
<1>2. IsFiniteSet(Offered) /\ Cardinality(Offered) = SeededTickets
  BY <1>1, FS_Interval DEF Offered
<1>3. FreeSeats \subseteq Offered
  BY DEF FreeSeats
<1> QED
  BY <1>2, <1>3, FS_Subset, FS_CardinalityType

LEMMA CountedInit == BenchmarkInit => Counted
<1> SUFFICES ASSUME BenchmarkInit PROVE Counted
  OBVIOUS
<1>1. Typed
  BY TypedInit
<1>2. Sold = {} /\ \A type : SoldAs(type) = {}
  <2>1. \A c \in Operations : ValidInput(file[c]) =>
          ledger[file[c].request_id] = None
    BY <1>1, ValidOperation DEF Typed, BenchmarkInit, DirectInit, BoxOfficeInit
  <2> QED
    BY <2>1 DEF Sold, SoldAs
<1>3. FreeSeats = Offered
  BY DEF FreeSeats, BenchmarkInit, DirectInit, BoxOfficeInit
<1>4. stock = SeededTickets /\ SeededTickets \in Nat
  BY BenchmarkAssumption, DomainAssumption
     DEF BenchmarkInit, DirectInit, BoxOfficeInit
<1> QED
  BY <1>2, <1>3, <1>4, FiniteSeats, FS_EmptySet DEF Counted

(* A sale moves one ticket, or one seat, from what is left to its          *)
(* operation, which had none.                                              *)
LEMMA SaleCounts ==
  ASSUME Typed, Counted, UNCHANGED file, NEW d \in Operations,
         ValidInput(file[d]), NEW result \in PurchaseResult,
         Sell(file[d], result)
  PROVE  Counted'
<1> DEFINE o == file[d]
<1>1. /\ ledger \in [RequestIds -> PurchaseResult \cup {None}]
      /\ owner \in [Offered -> ClientIds \cup {None}]
      /\ stock \in Nat
      /\ o.request_id \in RequestIds
      /\ o.client_id \in ClientIds
      /\ None \notin ClientIds /\ None \notin PurchaseResult
      /\ SeededTickets \in Nat
  BY ValidOperation, BenchmarkAssumption, DomainAssumption
     DEF Typed, TypeOK, DirectTypeOK
<1>2. /\ ledger[o.request_id] = None
      /\ ledger' = [ledger EXCEPT ![o.request_id] = result]
      /\ result.status = "ACCEPTED" /\ result.reason = "ok"
      /\ result.client_id = o.client_id
  BY DEF Sell, SellTicket, SellSeat, accepted
<1>3. \A c \in Operations : c # d /\ ValidInput(file[c]) =>
        ledger'[file[c].request_id] = ledger[file[c].request_id]
  <2>1. \A c \in Operations : c # d => file[c].request_id # o.request_id
    BY OperationTypes DEF Typed
  <2>2. \A c \in Operations : ValidInput(file[c]) =>
          file[c].request_id \in RequestIds
    BY ValidOperation DEF Typed
  <2> QED
    BY <1>1, <1>2, <2>1, <2>2
<1>4. ledger'[o.request_id] = result /\ result # None
  BY <1>1, <1>2
<1>5. Operations' = Operations
  BY DEF Operations
<1>6. d \notin Sold /\ Sold' = Sold \cup {d}
  BY <1>2, <1>3, <1>4, <1>5 DEF Sold
<1>7. \A c \in Sold' :
        /\ ledger'[file[c].request_id].status = "ACCEPTED"
        /\ ledger'[file[c].request_id].reason = "ok"
        /\ ledger'[file[c].request_id].client_id = file[c].client_id
  BY <1>2, <1>3, <1>4, <1>6 DEF Counted, Sold
<1>8. /\ d \notin SoldAs(o.ticket_type)
      /\ SoldAs(o.ticket_type)' = SoldAs(o.ticket_type) \cup {d}
      /\ \A type : type # o.ticket_type => SoldAs(type)' = SoldAs(type)
  BY <1>6 DEF SoldAs
<1>9. \A type : /\ IsFiniteSet(SoldAs(type))
                /\ Cardinality(SoldAs(type)) \in Nat
  BY FiniteSales DEF Typed
<1>10. Cardinality(SoldAs(o.ticket_type)')
         = Cardinality(SoldAs(o.ticket_type)) + 1
  <2> DEFINE S == SoldAs(o.ticket_type)
  <2>1. d \notin S /\ IsFiniteSet(S)
    BY <1>8, <1>9
  <2>2. Cardinality(S \cup {d}) = Cardinality(S) + 1
    <3> HIDE DEF S
    <3> QED
      BY <2>1, FS_AddElement
  <2> QED
    BY <1>8, <2>2
<1>11. CASE SellTicket(o, result)
  <2>1. /\ o.ticket_type = "unnumbered" /\ stock' = stock - 1
        /\ owner' = owner
    BY <1>11 DEF SellTicket, Unnumbered
  <2>2. FreeSeats' = FreeSeats
    BY <2>1 DEF FreeSeats
  <2>3. Cardinality(SoldAs("unnumbered")') = Cardinality(SoldAs("unnumbered")) + 1
    BY <1>10, <2>1
  <2>4. SoldAs("numbered")' = SoldAs("numbered")
    BY <1>8, <2>1
  <2>5. stock' + Cardinality(SoldAs("unnumbered")') = SeededTickets
    BY <1>1, <1>9, <2>1, <2>3 DEF Counted
  <2>6. Cardinality(FreeSeats') + Cardinality(SoldAs("numbered")') = SeededTickets
    BY <2>2, <2>4 DEF Counted
  <2> QED
    BY <1>7, <2>5, <2>6 DEF Counted
<1>12. CASE SellSeat(o, result)
  <2>1. /\ o.ticket_type = "numbered" /\ stock' = stock
        /\ o.seat_id \in Offered /\ owner[o.seat_id] = None
        /\ owner' = [owner EXCEPT ![o.seat_id] = o.client_id]
    BY <1>12 DEF SellSeat, Numbered
  <2>2. o.seat_id \in FreeSeats /\ FreeSeats' = FreeSeats \ {o.seat_id}
    BY <1>1, <2>1 DEF FreeSeats
  <2>3. Cardinality(FreeSeats') = Cardinality(FreeSeats) - 1
    <3> DEFINE S == FreeSeats
               s == o.seat_id
    <3>1. s \in S /\ IsFiniteSet(S) /\ Cardinality(S) \in Nat
      BY <2>2, FiniteSeats
    <3>2. Cardinality(S \ {s}) = Cardinality(S) - 1
      <4> HIDE DEF S, s
      <4> QED
        BY <3>1, FS_RemoveElement
    <3> QED
      BY <2>2, <3>2
  <2>4. Cardinality(SoldAs("numbered")') = Cardinality(SoldAs("numbered")) + 1
    BY <1>10, <2>1
  <2>5. SoldAs("unnumbered")' = SoldAs("unnumbered")
    BY <1>8, <2>1
  <2>6. stock' + Cardinality(SoldAs("unnumbered")') = SeededTickets
    BY <2>1, <2>5 DEF Counted
  <2>7. Cardinality(FreeSeats') + Cardinality(SoldAs("numbered")') = SeededTickets
    BY <1>1, <1>9, <2>3, <2>4, FiniteSeats DEF Counted
  <2> QED
    BY <1>7, <2>6, <2>7 DEF Counted
<1> QED
  BY <1>11, <1>12 DEF Sell

LEMMA CountedStep == Typed /\ Counted /\ [Next]_vars => Counted'
<1> SUFFICES ASSUME Typed, Counted, [Next]_vars PROVE Counted'
  OBVIOUS
<1>1. CASE UNCHANGED <<file, boxOffice>>
  <2>1. /\ Sold' = Sold
        /\ FreeSeats' = FreeSeats
        /\ stock' = stock /\ ledger' = ledger
    BY <1>1 DEF Sold, FreeSeats, Operations, boxOffice
  <2>2. \A type : SoldAs(type)' = SoldAs(type)
    BY <1>1, <2>1 DEF SoldAs
  <2> QED
    BY <1>1, <2>1, <2>2 DEF Counted
<1>2. CASE UNCHANGED file /\ \E c \in Operations :
             /\ ValidInput(file[c])
             /\ \E result \in PurchaseResult : Sell(file[c], result)
  BY <1>2, SaleCounts
<1> QED
  BY <1>1, <1>2, StepSells

(* An answer with a result is of the operation, and is a sale or the       *)
(* refusal for its ticket type, by its code and by its status alike.       *)
Verdict(o, response) ==
  response # None /\ response.body # None =>
    /\ response.body.request_id = o.request_id
    /\ \/ /\ response.code = 200
          /\ response.body.status = "ACCEPTED"
          /\ response.body.reason = "ok"
       \/ /\ response.code = 409
          /\ response.body = rejected(o, IF Unnumbered(o) THEN "sold_out"
                                         ELSE "seat_already_sold")

Verdicts ==
  /\ \A c \in Operations : Verdict(file[c], reply[c])
  /\ \A c \in Operations, r \in Replicas : Verdict(file[c], answer[c][r])

(* A valid purchase is never told that its seat does not exist, for the    *)
(* whole venue is on sale.                                                 *)
LEMMA PurchaseVerdict ==
  ASSUME Typed, Counted, NEW c \in Operations, ValidInput(file[c]),
         NEW result \in PurchaseResult,
         \/ Sell(file[c], result)
         \/ Refuse(file[c], result)
         \/ Repeat(file[c], result)
  PROVE  Verdict(file[c], PurchaseResponse(result))
<1> DEFINE o == file[c]
<1>1. CASE Sell(o, result)
  <2>1. /\ result.status = "ACCEPTED" /\ result.reason = "ok"
        /\ result.request_id = o.request_id
    BY <1>1 DEF Sell, SellTicket, SellSeat, accepted
  <2> QED
    BY <2>1 DEF Verdict, PurchaseResponse, status_code_from_result
<1>2. CASE Refuse(o, result)
  <2>1. ~(Numbered(o) /\ o.seat_id \notin Offered)
    BY ValidOperation, BenchmarkAssumption DEF Typed, Offered, SeatIds
  <2>2. result = rejected(o, IF Unnumbered(o) THEN "sold_out"
                             ELSE "seat_already_sold")
    BY <1>2, <2>1 DEF Refuse, Unnumbered, Numbered
  <2>3. /\ result.status = "REJECTED" /\ result.duplicate = FALSE
        /\ result.reason \in {"sold_out", "seat_already_sold"}
        /\ result.request_id = o.request_id
    BY <2>2 DEF rejected
  <2> QED
    BY <2>2, <2>3 DEF Verdict, PurchaseResponse, status_code_from_result
<1>3. CASE Repeat(o, result)
  <2>1. /\ c \in Sold
        /\ ledger[o.request_id] \in PurchaseResult
        /\ result = Replayed(o, ledger[o.request_id])
    BY <1>3, ValidOperation DEF Repeat, Sold, Typed, TypeOK, DirectTypeOK
  <2>2. /\ ledger[o.request_id].status = "ACCEPTED"
        /\ ledger[o.request_id].reason = "ok"
    BY <2>1 DEF Counted
  <2>3. /\ result.status = "ACCEPTED" /\ result.reason = "ok"
        /\ result.request_id = o.request_id
    BY <2>1, <2>2 DEF Replayed, PurchaseResult
  <2> QED
    BY <2>3 DEF Verdict, PurchaseResponse, status_code_from_result
<1> QED
  BY <1>1, <1>2, <1>3

(* What a step does to the answer of a handler: it goes, or a new one is a *)
(* verdict.                                                                *)
LEMMA HandlerVerdicts ==
  ASSUME Typed, Counted, Verdicts, NEW c \in Calls, NEW r \in Replicas,
         HandlerStep(c, r) \/ SaleUnanswered(c, r) \/ RedisFails(c, r)
  PROVE  /\ UNCHANGED reply
         /\ \A d \in Operations, s \in Replicas : Verdict(file[d], answer'[d][s])
<1>0. answer \in [Calls -> [Replicas -> Response \cup {None}]]
  BY Shapes
<1>1. /\ UNCHANGED reply
      /\ handler[c][r] # "idle"
  BY DEF HandlerStep, SaleUnanswered, RedisFails, InvalidInput,
         AlreadyProcessed, NotProcessed, Buy, WatchError, AnswerDropped,
         Answers, AtReplica, nginxVars
<1>2. /\ c \in Operations
      /\ purchase[c] = file[c]
      /\ handler[c][r] = "unprocessed" => ValidInput(file[c])
  BY <1>1, ServedOperation
<1>3. ASSUME NEW response, Verdict(file[c], response),
             answer' = [answer EXCEPT ![c][r] = response]
      PROVE  \A d \in Operations, s \in Replicas : Verdict(file[d], answer'[d][s])
  <2> SUFFICES ASSUME NEW d \in Operations, NEW s \in Replicas
               PROVE  Verdict(file[d], answer'[d][s])
    OBVIOUS
  <2>1. d \in Calls
    BY Shapes
  <2>2. answer'[d][s] = IF d = c /\ s = r THEN response ELSE answer[d][s]
    BY <1>0, <1>3, <2>1
  <2> QED
    BY <1>3, <2>2 DEF Verdicts
<1>4. ASSUME NEW result \in ResultsFor(file[c]), ValidInput(file[c]),
             \/ Sell(file[c], result)
             \/ Refuse(file[c], result)
             \/ Repeat(file[c], result),
             Answers(c, r, PurchaseResponse(result))
      PROVE  \A d \in Operations, s \in Replicas : Verdict(file[d], answer'[d][s])
  <2>1. result \in PurchaseResult
    BY <1>2, <1>4, ResultTypes
  <2>2. Verdict(file[c], PurchaseResponse(result))
    BY <1>2, <1>4, <2>1, PurchaseVerdict
  <2> QED
    BY <1>3, <1>4, <2>2 DEF Answers
<1>5. CASE AlreadyProcessed(c, r) \/ Buy(c, r)
  <2>1. PICK result \in ResultsFor(file[c]) :
          /\ ValidInput(file[c])
          /\ \/ Sell(file[c], result)
             \/ Refuse(file[c], result)
             \/ Repeat(file[c], result)
          /\ Answers(c, r, PurchaseResponse(result))
    BY <1>2, <1>5 DEF AlreadyProcessed, Buy
  <2> QED
    BY <1>1, <1>4, <2>1
<1>6. CASE InvalidInput(c, r) \/ RedisFails(c, r)
  <2>1. PICK code : Answers(c, r, Status(code))
    BY <1>6 DEF InvalidInput, RedisFails
  <2>2. \A o : Verdict(o, Status(code))
    BY DEF Verdict, Status
  <2> QED
    BY <1>1, <1>3, <2>1, <2>2 DEF Answers
<1>7. CASE AnswerDropped(c, r)
  <2>1. \A o : Verdict(o, None)
    BY DEF Verdict
  <2> QED
    BY <1>1, <1>3, <1>7, <2>1 DEF AnswerDropped
<1>8. CASE NotProcessed(c, r) \/ WatchError(c, r) \/ SaleUnanswered(c, r)
  <2>1. answer' = answer
    BY <1>8 DEF NotProcessed, WatchError, SaleUnanswered
  <2> QED
    BY <1>1, <2>1 DEF Verdicts
<1> QED
  BY <1>1, <1>5, <1>6, <1>7, <1>8 DEF HandlerStep

(* A step of nginx passes on an answer or has none of its own. *)
LEMMA NginxVerdicts ==
  ASSUME Typed, Verdicts, NEW c \in Calls, NginxStep(c) \/ UpstreamLost(c)
  PROVE  /\ \A d \in Operations : Verdict(file[d], reply'[d])
         /\ \A d \in Operations, s \in Replicas : Verdict(file[d], answer'[d][s])
<1>0. /\ answer \in [Calls -> [Replicas -> Response \cup {None}]]
      /\ reply \in [Calls -> Response \cup {None}]
      /\ \A d \in Operations : d \in Calls
  BY Shapes
<1>1. \A code, o : Verdict(o, Status(code))
  BY DEF Verdict, Status
<1>2. \A o : Verdict(o, None)
  BY DEF Verdict
<1>3. CASE Forward(c)
  BY <1>3 DEF Forward, Verdicts
<1>4. CASE ConnectionRefused(c) \/ UpstreamError(c) \/ UpstreamLost(c)
  <2>1. PICK r, code : NextUpstream(c, r, code)
    BY <1>4 DEF ConnectionRefused, UpstreamError, UpstreamLost
  <2>2. \A d \in Operations : reply'[d] = reply[d] \/ reply'[d] = Status(code)
    BY <1>0, <2>1 DEF NextUpstream, Respond
  <2>3. answer' = answer
    BY <2>1 DEF NextUpstream, apiVars
  <2> QED
    BY <1>1, <2>2, <2>3 DEF Verdicts
<1>5. CASE NoLiveUpstreams(c)
  <2>1. \A d \in Operations : reply'[d] = reply[d] \/ reply'[d] = Status(502)
    BY <1>0, <1>5 DEF NoLiveUpstreams, Respond
  <2>2. answer' = answer
    BY <1>5 DEF NoLiveUpstreams, apiVars
  <2> QED
    BY <1>1, <2>1, <2>2 DEF Verdicts
<1>6. CASE UpstreamAnswers(c)
  <2>1. PICK r \in Replicas :
          /\ reply' = [reply EXCEPT ![c] = answer[c][r]]
          /\ answer' = [answer EXCEPT ![c][r] = None]
    BY <1>6 DEF UpstreamAnswers, Respond
  <2>2. \A d \in Operations : reply'[d] = reply[d] \/ (d = c /\ reply'[d] = answer[d][r])
    BY <1>0, <2>1
  <2>3. \A d \in Operations, s \in Replicas :
          answer'[d][s] \in {None, answer[d][s]}
    BY <1>0, <2>1
  <2> QED
    BY <1>2, <2>2, <2>3 DEF Verdicts
<1> QED
  BY <1>3, <1>4, <1>5, <1>6 DEF NginxStep

LEMMA VerdictsInit == BenchmarkInit => Verdicts
<1> SUFFICES ASSUME BenchmarkInit PROVE Verdicts
  OBVIOUS
<1>1. \A c \in Operations : c \in Calls
  BY TypedInit, Shapes
<1> QED
  BY <1>1 DEF Verdicts, Verdict, BenchmarkInit, DirectInit

LEMMA VerdictsStep == Typed /\ Counted /\ Verdicts /\ [Next]_vars => Verdicts'
<1> SUFFICES ASSUME Typed, Counted, Verdicts, [Next]_vars PROVE Verdicts'
  OBVIOUS
<1>0. Operations' = Operations
  BY StepSells DEF Operations
<1>1. ASSUME \A d \in Operations : Verdict(file[d], reply'[d]),
             \A d \in Operations, s \in Replicas : Verdict(file[d], answer'[d][s])
      PROVE  Verdicts'
  BY <1>0, <1>1, StepSells DEF Verdicts, Verdict
<1>2. ASSUME NEW c \in Calls, NEW r \in Replicas,
             HandlerStep(c, r) \/ SaleUnanswered(c, r) \/ RedisFails(c, r)
      PROVE  Verdicts'
  <2>1. /\ reply' = reply
        /\ \A d \in Operations, s \in Replicas : Verdict(file[d], answer'[d][s])
    BY <1>2, HandlerVerdicts
  <2> QED
    BY <1>1, <2>1 DEF Verdicts
<1>3. ASSUME NEW c \in Calls, NginxStep(c) \/ UpstreamLost(c) PROVE Verdicts'
  BY <1>1, <1>3, NginxVerdicts
<1>4. ASSUME NEW r \in Replicas, FailTimeout(r) \/ Crash(r) \/ Restart(r)
      PROVE  Verdicts'
  <2>1. reply' = reply
    BY <1>4 DEF FailTimeout, Crash, Restart, nginxVars
  <2>2. \A d \in Operations, s \in Replicas :
          answer'[d][s] \in {None, answer[d][s]}
    BY <1>4, Shapes DEF FailTimeout, Crash, Restart, apiVars
  <2>3. \A o : Verdict(o, None)
    BY DEF Verdict
  <2> QED
    BY <1>1, <2>1, <2>2, <2>3 DEF Verdicts
<1>5. ASSUME UNCHANGED <<reply, answer>> PROVE Verdicts'
  BY <1>1, <1>5 DEF Verdicts
<1>6. CASE DirectAlone
  BY <1>2, <1>3, <1>4, <1>6 DEF DirectAlone, DirectStep, DirectFault
<1>7. CASE RunnerStep \/ RunnerFault
  BY <1>5, <1>7 DEF RunnerStep, RunnerFault, Send, Receive, WriteSummary,
       WriteResults, RequestFails, Interrupt, directVars, nginxVars, apiVars
<1>8. CASE Finished \/ UNCHANGED vars
  BY <1>5, <1>8 DEF Finished, vars, directVars, nginxVars, apiVars
<1> QED
  BY <1>6, <1>7, <1>8 DEF Next

(* What has been recorded of an operation is what nginx answered, or that  *)
(* there was no answer; either way its connection is closed.               *)
Outcomes ==
  \A c \in Calls : results[c] # None =>
    /\ c \in Operations
    /\ upstream[c] = "closed"
    /\ results[c].seat_id = file[c].seat_id
    /\ \/ results[c].response_body = None
       \/ reply[c] # None /\ results[c].response_body = reply[c].body

(* The files hold what has been recorded when the last operation ended.    *)
FilesKept ==
  /\ summary_file # None =>
       /\ runner # "running"
       /\ summary_file = build_summary
       /\ \A c \in Operations : results[c] # None
  /\ results_file # None => runner = "done" /\ results_file = Records

Recorded == Outcomes /\ FilesKept /\ abandoned \subseteq Operations

LEMMA RecordedInit == BenchmarkInit => Recorded
BY DEF BenchmarkInit, DirectInit, Recorded, Outcomes, FilesKept

(* A closed connection stays closed, and its reply is final. *)
LEMMA ClosedIsFinal ==
  ASSUME Typed, [Next]_vars, NEW c \in Calls, upstream[c] = "closed"
  PROVE  upstream'[c] = "closed" /\ reply'[c] = reply[c]
<1> USE Shapes
<1>1. ASSUME NEW d \in Calls, NginxStep(d) \/ UpstreamLost(d)
      PROVE  upstream'[c] = "closed" /\ reply'[c] = reply[c]
  <2>1. CASE Forward(d)
    BY <2>1 DEF Forward
  <2>2. CASE ConnectionRefused(d) \/ UpstreamError(d) \/ UpstreamLost(d)
    <3>1. d # c
      BY <2>2 DEF ConnectionRefused, UpstreamError, UpstreamLost
    <3>2. PICK r, code : NextUpstream(d, r, code)
      BY <2>2 DEF ConnectionRefused, UpstreamError, UpstreamLost
    <3> QED
      BY <3>1, <3>2 DEF NextUpstream, Respond
  <2>3. CASE NoLiveUpstreams(d) \/ UpstreamAnswers(d)
    <3>1. d # c
      BY <2>3 DEF NoLiveUpstreams, UpstreamAnswers
    <3>2. PICK response : Respond(d, response)
      BY <2>3 DEF NoLiveUpstreams, UpstreamAnswers
    <3> QED
      BY <3>1, <3>2 DEF Respond
  <2> QED
    BY <1>1, <2>1, <2>2, <2>3 DEF NginxStep
<1>2. ASSUME NEW d \in Calls, NEW r \in Replicas,
             HandlerStep(d, r) \/ SaleUnanswered(d, r) \/ RedisFails(d, r)
      PROVE  upstream'[c] = "closed" /\ reply'[c] = reply[c]
  BY <1>2 DEF HandlerStep, SaleUnanswered, RedisFails, InvalidInput,
       AlreadyProcessed, NotProcessed, Buy, WatchError, AnswerDropped,
       Answers, AtReplica, nginxVars
<1>3. ASSUME NEW r \in Replicas, FailTimeout(r) \/ Crash(r) \/ Restart(r)
      PROVE  upstream'[c] = "closed" /\ reply'[c] = reply[c]
  BY <1>3 DEF FailTimeout, Crash, Restart, nginxVars
<1>4. CASE DirectAlone
  BY <1>1, <1>2, <1>3, <1>4 DEF DirectAlone, DirectStep, DirectFault
<1>5. CASE \E d \in Calls : Send(d) \/ RequestFails(d)
  BY <1>5 DEF Send, Pending, RequestFails, ClientCloses
<1>6. CASE Interrupt
  BY <1>6 DEF Interrupt
<1>7. CASE (\E d \in Calls : Receive(d)) \/ WriteSummary \/ WriteResults
  BY <1>7 DEF Receive, WriteSummary, WriteResults, directVars, nginxVars
<1>8. CASE Finished \/ UNCHANGED vars
  BY <1>8 DEF Finished, vars, directVars, nginxVars
<1> QED
  BY <1>4, <1>5, <1>6, <1>7, <1>8 DEF Next, RunnerStep, RunnerFault

(* Only operations that are in the file are left to a replica. *)
LEMMA AbandonedStep ==
  ASSUME Typed, abandoned \subseteq Operations, [Next]_vars
  PROVE  abandoned' \subseteq Operations
<1>1. ASSUME NEW c \in Calls, NginxStep(c) \/ UpstreamLost(c)
      PROVE  abandoned' \subseteq Operations
  <2>1. CASE UpstreamLost(c)
    <3>1. \E r \in Replicas : handler[c][r] # "idle"
      BY <2>1 DEF UpstreamLost
    <3>2. c \in Operations
      BY <3>1, ServedOperation
    <3> QED
      BY <2>1, <3>2 DEF UpstreamLost
  <2>2. CASE NginxStep(c)
    BY <2>2 DEF NginxStep, Forward, ConnectionRefused, NoLiveUpstreams,
                UpstreamError, UpstreamAnswers
  <2> QED
    BY <1>1, <2>1, <2>2
<1>2. ASSUME NEW d \in Calls, NEW r \in Replicas,
             HandlerStep(d, r) \/ SaleUnanswered(d, r) \/ RedisFails(d, r)
      PROVE  abandoned' = abandoned
  BY <1>2 DEF HandlerStep, SaleUnanswered, RedisFails, InvalidInput,
       AlreadyProcessed, NotProcessed, Buy, WatchError, AnswerDropped,
       Answers, AtReplica
<1>3. ASSUME NEW r \in Replicas, FailTimeout(r) \/ Crash(r) \/ Restart(r)
      PROVE  abandoned' = abandoned
  BY <1>3 DEF FailTimeout, Crash, Restart
<1>4. CASE DirectAlone
  BY <1>1, <1>2, <1>3, <1>4 DEF DirectAlone, DirectStep, DirectFault
<1>5. CASE RunnerStep \/ RunnerFault
  BY <1>5 DEF RunnerStep, RunnerFault, Send, Receive, WriteSummary,
              WriteResults, RequestFails, Interrupt, directVars
<1>6. CASE Finished \/ UNCHANGED vars
  BY <1>6 DEF Finished, vars, directVars
<1> QED
  BY <1>4, <1>5, <1>6 DEF Next

(* A step leaves the records and the files alone, or is the runner's. *)
LEMMA StepRecords ==
  ASSUME [Next]_vars
  PROVE  \/ UNCHANGED <<runner, results, summary_file, results_file>>
         \/ RunnerStep
         \/ RunnerFault
BY DEF Next, DirectAlone, Finished, vars

LEMMA OutcomesStep ==
  ASSUME Typed, SoleHandler, Outcomes, [Next]_vars
  PROVE  Outcomes'
<1>0. file' = file /\ Operations' = Operations
  BY StepSells DEF Operations
<1>1. results \in [Calls -> BenchmarkRequestResult \cup {None}]
  BY DEF Typed, TypeOK
<1>2. ASSUME NEW c \in Operations, NEW new,
             results' = [results EXCEPT ![c] = new],
             upstream'[c] = "closed",
             new.seat_id = file[c].seat_id,
             \/ new.response_body = None
             \/ reply'[c] # None /\ new.response_body = reply'[c].body
      PROVE  Outcomes'
  <2> SUFFICES ASSUME NEW d \in Calls, results'[d] # None
               PROVE  /\ d \in Operations
                      /\ upstream'[d] = "closed"
                      /\ results'[d].seat_id = file[d].seat_id
                      /\ \/ results'[d].response_body = None
                         \/ /\ reply'[d] # None
                            /\ results'[d].response_body = reply'[d].body
    BY <1>0 DEF Outcomes
  <2>1. c \in Calls
    BY Shapes
  <2>2. CASE d = c
    BY <1>1, <1>2, <2>1, <2>2
  <2>3. CASE d # c
    <3>1. results'[d] = results[d]
      BY <1>1, <1>2, <2>1, <2>3
    <3> QED
      BY <3>1, ClosedIsFinal DEF Outcomes
  <2> QED
    BY <2>2, <2>3
<1>3. ASSUME NEW c \in Calls, Receive(c) PROVE Outcomes'
  <2>1. /\ c \in Operations
        /\ purchase[c] = file[c]
        /\ reply[c] # None
        /\ upstream' = upstream
        /\ reply' = reply
    BY <1>3, OperationTypes
       DEF Receive, InFlight, Typed, directVars, nginxVars
  <2>2. upstream[c] = "closed"
    BY <2>1 DEF SoleHandler
  <2> DEFINE new == [request_id |-> purchase[c].request_id,
                     seat_id |-> purchase[c].seat_id,
                     ticket_type |-> purchase[c].ticket_type,
                     http_status |-> reply[c].code, response_body |-> reply[c].body,
                     error |-> FALSE]
  <2>3. results' = [results EXCEPT ![c] = new]
    BY <1>3 DEF Receive, Record
  <2>4. new.seat_id = file[c].seat_id /\ new.response_body = reply[c].body
    BY <2>1
  <2> HIDE DEF new
  <2> QED
    BY <1>2, <2>1, <2>2, <2>3, <2>4
<1>4. ASSUME NEW c \in Calls, RequestFails(c) PROVE Outcomes'
  <2>1. /\ c \in Operations
        /\ purchase[c] = file[c]
        /\ upstream'[c] = "closed"
    BY <1>4, OperationTypes, Shapes
       DEF RequestFails, InFlight, Typed, ClientCloses
  <2> DEFINE new == [request_id |-> purchase[c].request_id,
                     seat_id |-> purchase[c].seat_id,
                     ticket_type |-> purchase[c].ticket_type,
                     http_status |-> 0, response_body |-> None,
                     error |-> TRUE]
  <2>2. results' = [results EXCEPT ![c] = new]
    BY <1>4 DEF RequestFails, Record
  <2>3. new.seat_id = file[c].seat_id /\ new.response_body = None
    BY <2>1
  <2> HIDE DEF new
  <2> QED
    BY <1>2, <2>1, <2>2, <2>3
<1>5. CASE results' = results
  BY <1>0, <1>5, ClosedIsFinal DEF Outcomes
<1>6. \/ results' = results
      \/ \E c \in Calls : Receive(c) \/ RequestFails(c)
  BY StepRecords DEF RunnerStep, RunnerFault, Send, WriteSummary, WriteResults,
                     Interrupt
<1> QED
  BY <1>3, <1>4, <1>5, <1>6

LEMMA FilesStep ==
  ASSUME Typed, FilesKept, [Next]_vars
  PROVE  FilesKept'
<1>0. file' = file /\ Operations' = Operations
  BY StepSells DEF Operations
<1>1. ASSUME results' = results
      PROVE  /\ Records' = Records
             /\ build_summary' = build_summary
  <2>1. Records' = Records
    BY <1>0, <1>1 DEF Records
  <2> QED
    BY <2>1 DEF build_summary
<1>2. CASE UNCHANGED <<runner, results, summary_file, results_file>>
  BY <1>0, <1>1, <1>2 DEF FilesKept
<1>3. CASE \E c \in Calls : Send(c) \/ Receive(c) \/ RequestFails(c)
  <2>1. summary_file' = None /\ results_file' = None
    BY <1>3 DEF Send, Receive, RequestFails, FilesKept
  <2> QED
    BY <2>1 DEF FilesKept
<1>4. CASE WriteSummary
  <2>1. /\ summary_file' = build_summary
        /\ results' = results
        /\ runner' = "writing"
        /\ results_file' = None
    BY <1>4 DEF WriteSummary, FilesKept
  <2>2. \A c \in Operations : results[c] # None
    BY <1>4 DEF WriteSummary, InFlight
  <2> QED
    BY <1>0, <1>1, <2>1, <2>2 DEF FilesKept
<1>5. CASE WriteResults
  BY <1>0, <1>1, <1>5 DEF WriteResults, FilesKept
<1>6. CASE Interrupt
  BY <1>0, <1>1, <1>6 DEF Interrupt, FilesKept
<1> QED
  BY <1>2, <1>3, <1>4, <1>5, <1>6, StepRecords DEF RunnerStep, RunnerFault

LEMMA RecordedStep == Typed /\ Refusals /\ Recorded /\ [Next]_vars => Recorded'
<1> SUFFICES ASSUME Typed, Refusals, Recorded, [Next]_vars PROVE Recorded'
  OBVIOUS
<1>1. Operations' = Operations
  BY StepSells DEF Operations
<1> QED
  BY <1>1, AbandonedStep, OutcomesStep, FilesStep DEF Recorded, Refusals

Accounts == Truthful /\ Refusals /\ Counted /\ Verdicts /\ Recorded

(* Whom the runner has recorded as sold, or as refused. *)
Told(status) ==
  {c \in Operations : /\ results[c].response_body # None
                      /\ results[c].response_body.status = status}

LEMMA FiniteTold ==
  ASSUME Requests, NEW status
  PROVE  IsFiniteSet(Told(status)) /\ Cardinality(Told(status)) \in Nat
BY FiniteOperations, FS_Subset, FS_CardinalityType DEF Told

(* The measures count as this module does. *)
LEMMA SameCount == \A S : Measures!Cardinality(S) = Cardinality(S)
BY DEF Cardinality, Measures!Cardinality

(* The numbers of the summary. *)
LEMMA SummaryCounts ==
  /\ build_summary.total_operations = Cardinality(Operations)
  /\ build_summary.accepted = Cardinality(Told("ACCEPTED"))
  /\ build_summary.rejected = Cardinality(Told("REJECTED"))
<1>1. DOMAIN Records = Operations /\ \A c \in Operations : Records[c] = results[c]
  BY DEF Records
<1>2. \A status \in PurchaseStatus : \A c \in Operations :
        Measures!StatusOf(Records[c]) = status <=> c \in Told(status)
  BY <1>1, DomainAssumption DEF Measures!StatusOf, Told
<1>3. ASSUME NEW status \in PurchaseStatus
      PROVE  {c \in DOMAIN Records : Measures!StatusOf(Records[c]) = status}
               = Told(status)
  BY <1>1, <1>2 DEF Told
<1>4. build_summary.accepted =
        Cardinality({c \in DOMAIN Records :
                       Measures!StatusOf(Records[c]) = "ACCEPTED"})
  BY SameCount DEF build_summary, Measures!Counts, Measures!Count
<1>5. build_summary.rejected =
        Cardinality({c \in DOMAIN Records :
                       Measures!StatusOf(Records[c]) = "REJECTED"})
  BY SameCount DEF build_summary, Measures!Counts, Measures!Count
<1>6. build_summary.total_operations = Cardinality(DOMAIN Records)
  BY SameCount DEF build_summary, Measures!Counts
<1> QED
  BY <1>1, <1>3, <1>4, <1>5, <1>6 DEF PurchaseStatus

(* Who has been recorded as sold has been sold, and has the seat. *)
LEMMA ToldSold ==
  ASSUME Typed, Accounts, NEW c \in Told("ACCEPTED"), results[c] # None
  PROVE  /\ c \in Sold
         /\ Numbered(file[c]) => owner[file[c].seat_id] = file[c].client_id
<1> DEFINE sale == ledger[file[c].request_id]
<1>1. c \in Operations /\ c \in Calls
  BY Shapes DEF Told
<1>2. reply[c] # None /\ reply[c].body = results[c].response_body
  BY <1>1 DEF Told, Accounts, Recorded, Outcomes
<1>3. reply[c].body # None /\ reply[c].body.status = "ACCEPTED"
  BY <1>2 DEF Told
<1>4. reply[c].code = 200
  <2>1. \A why : rejected(file[c], why).status # "ACCEPTED"
    BY DEF rejected
  <2>2. Verdict(file[c], reply[c])
    BY <1>1 DEF Accounts, Verdicts
  <2> QED
    BY <1>2, <1>3, <2>1, <2>2 DEF Verdict
<1>5. /\ ValidInput(file[c])
      /\ TrueAt(file[c], reply[c], ledger, owner, stock)
  BY <1>1, <1>2, <1>3 DEF Accounts, Truthful, TrueTo
<1>6. /\ sale # None
      /\ reply[c].body.client_id = sale.client_id
      /\ Numbered(file[c]) => owner[file[c].seat_id] = reply[c].body.client_id
  BY <1>4, <1>5 DEF TrueAt
<1>7. c \in Sold
  BY <1>1, <1>5, <1>6 DEF Sold
<1>8. sale.client_id = file[c].client_id
  BY <1>7 DEF Accounts, Counted
<1> QED
  BY <1>6, <1>7, <1>8

(* Who has been recorded as refused and was sold all the same has been     *)
(* left to a replica.                                                      *)
LEMMA ToldRefused ==
  ASSUME Typed, Accounts, NEW c \in Told("REJECTED"), results[c] # None,
         c \in Sold
  PROVE  c \in abandoned
<1>1. c \in Operations /\ c \in Calls
  BY Shapes DEF Told
<1>2. reply[c] # None /\ reply[c].body = results[c].response_body
  BY <1>1 DEF Told, Accounts, Recorded, Outcomes
<1>3. reply[c].body # None /\ reply[c].body.status = "REJECTED"
  BY <1>2 DEF Told
<1>4. reply[c].code = 409
  BY <1>1, <1>2, <1>3 DEF Accounts, Verdicts, Verdict
<1> QED
  BY <1>1, <1>2, <1>4 DEF Accounts, Refusals, UnsoldRefused, Sold

LEMMA AccountsBalance == Typed /\ Accounts => SalesAccounted
<1> SUFFICES ASSUME Typed, Accounts, summary_file # None
             PROVE  /\ summary_file.accepted <= Cardinality(Sold)
                    /\ Cardinality(Sold) + summary_file.rejected
                         <= summary_file.total_operations
                              + Cardinality(abandoned)
  BY DEF SalesAccounted
<1>1. /\ summary_file = build_summary
      /\ \A c \in Operations : results[c] # None
      /\ abandoned \subseteq Operations
      /\ Requests
  BY DEF Typed, Accounts, Recorded, FilesKept
<1>2. /\ summary_file.total_operations = Cardinality(Operations)
      /\ summary_file.accepted = Cardinality(Told("ACCEPTED"))
      /\ summary_file.rejected = Cardinality(Told("REJECTED"))
  BY <1>1, SummaryCounts
<1> DEFINE A == Told("ACCEPTED")
           R == Told("REJECTED")
<1>3. A \subseteq Sold
  BY <1>1, ToldSold DEF Told
<1>4. Sold \cap R \subseteq abandoned
  BY <1>1, ToldRefused DEF Told
<1>5. Sold \cup R \subseteq Operations
  BY DEF Sold, Told
<1>6. IsFiniteSet(Sold) /\ IsFiniteSet(R) /\ IsFiniteSet(Operations)
  BY <1>1, FiniteSales, FiniteTold, FiniteOperations
<1>7. IsFiniteSet(abandoned)
  BY <1>1, <1>6, FS_Subset
<1> HIDE DEF A, R
<1>8. Cardinality(A) <= Cardinality(Sold)
  BY <1>3, <1>6, FS_Subset
<1>9. Cardinality(Sold \cup R) <= Cardinality(Operations)
  BY <1>5, <1>6, FS_Subset
<1>10. Cardinality(Sold \cap R) <= Cardinality(abandoned)
  BY <1>4, <1>7, FS_Subset
<1>11. Cardinality(Sold \cup R)
         = Cardinality(Sold) + Cardinality(R) - Cardinality(Sold \cap R)
  BY <1>6, FS_Union
<1>12. /\ Cardinality(Sold) \in Nat /\ Cardinality(R) \in Nat
       /\ Cardinality(Sold \cap R) \in Nat /\ Cardinality(Operations) \in Nat
       /\ Cardinality(abandoned) \in Nat
  BY <1>6, <1>7, FS_Intersection, FS_CardinalityType
<1>13. Cardinality(Sold) + Cardinality(R)
         <= Cardinality(Operations) + Cardinality(abandoned)
  BY <1>9, <1>10, <1>11, <1>12
<1> QED
  BY <1>2, <1>8, <1>13 DEF A, R

(* A file of one type sells tickets or seats. *)
LEMMA OneType ==
  ASSUME NEW type, FileTypes = {type}
  PROVE  Sold = SoldAs(type)
BY DEF FileTypes, SoldAs, Sold

LEMMA VerdictIsWorth == Typed /\ Accounts => VerifiedMeansSold
<1> SUFFICES ASSUME Typed, Accounts, Verified
             PROVE  /\ FileTypes = {"unnumbered"} =>
                         /\ SeededTickets - get_available_count("unnumbered")
                              = expected
                         /\ Cardinality(Sold) = expected
                    /\ FileTypes = {"numbered"} =>
                         SeededTickets - get_available_count("numbered")
                           = Cardinality(Sold)
                    /\ \A c \in accepted_seats :
                         get_seat_status(results_file[c].seat_id).owner
                           = file[c].client_id
  BY DEF VerifiedMeansSold
<1>1. /\ summary_file # None
      /\ "unnumbered" \in FileTypes => summary_file.accepted = expected
  BY DEF Verified
<1>2. /\ summary_file = build_summary
      /\ \A c \in Operations : results[c] # None
      /\ results_file # None => results_file = Records
      /\ Requests
  BY <1>1 DEF Typed, Accounts, Recorded, FilesKept
<1>3. /\ SeededTickets \in Nat
      /\ TOTAL_TICKETS = SeededTickets
      /\ stock \in Nat
      /\ Cardinality(Sold) \in Nat
  BY <1>2, FiniteSales, BenchmarkAssumption, DomainAssumption
     DEF Typed, TypeOK, DirectTypeOK
<1>4. ASSUME FileTypes = {"unnumbered"}
      PROVE  /\ SeededTickets - get_available_count("unnumbered") = expected
             /\ Cardinality(Sold) = expected
  <2>1. stock + Cardinality(Sold) = SeededTickets
    BY <1>4, OneType DEF Accounts, Counted
  <2>2. summary_file.accepted = Cardinality(Told("ACCEPTED"))
    BY <1>2, SummaryCounts
  <2>3. Told("ACCEPTED") \subseteq Sold /\ Sold \subseteq Operations
    BY <1>2, ToldSold DEF Told, Sold
  <2>4. /\ Cardinality(Told("ACCEPTED")) <= Cardinality(Sold)
        /\ Cardinality(Sold) <= Cardinality(Operations)
        /\ Cardinality(Told("ACCEPTED")) \in Nat
        /\ Cardinality(Operations) \in Nat
    BY <1>2, <2>3, FiniteSales, FiniteOperations, FiniteTold, FS_Subset,
       FS_CardinalityType
  <2>5. expected = IF Cardinality(Operations) < SeededTickets
                     THEN Cardinality(Operations) ELSE SeededTickets
    BY <1>2, <1>3, SummaryCounts DEF expected
  <2>6. expected = Cardinality(Told("ACCEPTED"))
    BY <1>1, <1>4, <2>2
  <2>7. Cardinality(Sold) = expected
    BY <1>3, <2>1, <2>4, <2>5, <2>6
  <2> QED
    BY <1>3, <2>1, <2>7 DEF get_available_count
<1>5. ASSUME FileTypes = {"numbered"}
      PROVE  SeededTickets - get_available_count("numbered") = Cardinality(Sold)
  <2>1. Cardinality(FreeSeats) + Cardinality(Sold) = SeededTickets
    BY <1>5, OneType DEF Accounts, Counted
  <2>2. get_available_count("numbered") = Cardinality(FreeSeats)
    BY DEF get_available_count, FreeSeats
  <2> QED
    BY <1>3, <2>1, <2>2, FiniteSeats
<1>6. ASSUME NEW c \in accepted_seats
      PROVE  get_seat_status(results_file[c].seat_id).owner = file[c].client_id
  <2>1. /\ results_file # None
        /\ c \in Operations
        /\ results_file[c].seat_id # None
        /\ StatusOf(results_file[c]) = "ACCEPTED"
    BY DEF accepted_seats
  <2>2. results_file[c] = results[c] /\ results[c] # None /\ c \in Calls
    BY <1>2, <2>1, Shapes DEF Records
  <2>3. results[c].seat_id = file[c].seat_id
    BY <2>2 DEF Accounts, Recorded, Outcomes
  <2>4. c \in Told("ACCEPTED")
    BY <2>1, <2>2, DomainAssumption
       DEF StatusOf, Measures!StatusOf, Told, PurchaseStatus
  <2>5. Numbered(file[c])
    <3>1. file[c] \in Ops /\ file[c] \in Operation
      BY <1>2, <2>1, OperationTypes
    <3> QED
      BY <2>1, <2>2, <2>3, <3>1, DomainAssumption
         DEF Operation, TicketType, Unnumbered, Numbered
  <2>6. owner[file[c].seat_id] = file[c].client_id
    BY <2>2, <2>4, <2>5, ToldSold
  <2> QED
    BY <2>2, <2>3, <2>6 DEF get_seat_status
<1> QED
  BY <1>4, <1>5, <1>6

LEMMA AccountsInvariant == Spec => [](Typed /\ Accounts)
<1>1. Spec => []Typed
  BY TypedInit, TypedStep, PTL DEF Spec
<1>2. BenchmarkInit => Accounts
  BY TruthfulInit, RefusalsInit, CountedInit, VerdictsInit, RecordedInit
     DEF Accounts
<1>3. Typed /\ Accounts /\ [Next]_vars => Accounts'
  BY TruthfulStep, RefusalsStep, CountedStep, VerdictsStep, RecordedStep
     DEF Accounts
<1> QED
  BY <1>1, <1>2, <1>3, PTL DEF Spec

(* The summary of a benchmark never counts a ticket as accepted that was   *)
(* not sold, and leaves out a sale only where the client got no verdict or *)
(* nginx left a replica to itself.                                         *)
THEOREM SummaryIsAccountable == Spec => []SalesAccounted
BY AccountsInvariant, AccountsBalance, PTL

(* When verify_correctness.sh finds no fault, the box office has sold what *)
(* the benchmark could buy, and to those who were told so.                 *)
THEOREM VerificationIsSound == Spec => []VerifiedMeansSold
BY AccountsInvariant, VerdictIsWorth, PTL

----------------------------------------------------------------------------
(* The shop that the clients of nginx see.                                 *)

AskedFor == {purchase[c] : c \in {d \in Calls : upstream[d] # "idle"}}
Answered == {d \in Calls : reply[d] # None /\ reply[d].body # None}
Delivered == {[op |-> purchase[c], result |-> reply[c].body] : c \in Answered}

(* The shop speaks of the same purchases and sales. *)
LEMMA SameShop ==
  /\ Shop!Offered = Offered
  /\ Shop!boxOffice = boxOffice
  /\ \A o : Shop!ValidInput(o) <=> ValidInput(o)
  /\ \A o, result : Shop!Sell(o, result) <=> Sell(o, result)
  /\ \A o : Shop!ResultsFor(o) = ResultsFor(o)
<1>1. Shop!Offered = Offered /\ Shop!SeatIds = SeatIds
  BY DEF Offered, Shop!Offered, SeatIds, Shop!SeatIds
<1>2. ASSUME NEW o
      PROVE  /\ Shop!Unnumbered(o) <=> Unnumbered(o)
             /\ Shop!Numbered(o) <=> Numbered(o)
             /\ Shop!ValidInput(o) <=> ValidInput(o)
             /\ \A left : Shop!accepted(o, left) = accepted(o, left)
             /\ \A why : Shop!rejected(o, why) = rejected(o, why)
             /\ \A stored : Shop!Replayed(o, stored) = Replayed(o, stored)
             /\ Shop!NoResult(o) = NoResult(o)
  BY <1>1 DEF Shop!Unnumbered, Unnumbered, Shop!Numbered, Numbered,
       Shop!ValidInput, ValidInput, Shop!validate_common_input,
       validate_common_input, Shop!validate_seat_id, validate_seat_id,
       Shop!accepted, accepted, Shop!rejected, rejected, Shop!Replayed,
       Replayed, Shop!NoResult, NoResult
<1>3. ASSUME NEW o, NEW result
      PROVE  Shop!Sell(o, result) <=> Sell(o, result)
  BY <1>1, <1>2 DEF Shop!Sell, Sell, Shop!SellTicket, SellTicket,
       Shop!SellSeat, SellSeat
<1>4. ASSUME NEW o PROVE Shop!ResultsFor(o) = ResultsFor(o)
  BY <1>2 DEF Shop!ResultsFor, ResultsFor
<1> QED
  BY <1>1, <1>2, <1>3, <1>4 DEF Shop!boxOffice, boxOffice

LEMMA ShopInit == BenchmarkInit => Shop!Init
<1> SUFFICES ASSUME BenchmarkInit PROVE Shop!Init
  OBVIOUS
<1>1. Shop!BoxOfficeInit
  BY SameShop DEF Shop!BoxOfficeInit, BenchmarkInit, DirectInit, BoxOfficeInit
<1>2. /\ {d \in Calls : upstream[d] # "idle"} = {}
      /\ {d \in Calls : reply[d] # None /\ reply[d].body # None} = {}
  BY DEF BenchmarkInit, DirectInit
<1> QED
  BY <1>1, <1>2 DEF Shop!Init

(* What has been answered was asked for, and is true. *)
Deliveries ==
  \A c \in Answered :
    /\ purchase[c] \in AskedFor
    /\ Shop!Holds(purchase[c], reply[c].body)

LEMMA TruthDelivered == Typed /\ Accounts => Deliveries
<1> SUFFICES ASSUME Typed, Accounts, NEW c \in Answered
             PROVE  /\ purchase[c] \in AskedFor
                    /\ Shop!Holds(purchase[c], reply[c].body)
  BY DEF Deliveries
<1> DEFINE o == file[c]
           result == reply[c].body
           sale == ledger[o.request_id]
<1>1. c \in Calls /\ reply[c] # None /\ result # None
  BY DEF Answered
<1>2. upstream[c] = "closed"
  BY <1>1 DEF Accounts, Refusals, SoleHandler
<1>3. c \in Operations /\ purchase[c] = o
  BY <1>1, <1>2, OperationTypes DEF Typed, Requests
<1>4. /\ ValidInput(o)
      /\ TrueAt(o, reply[c], ledger, owner, stock)
      /\ Verdict(o, reply[c])
  BY <1>1, <1>3 DEF Accounts, Truthful, TrueTo, Verdicts
<1>5. /\ o.ticket_type \in TicketType
      /\ Numbered(o) => o.seat_id \in Offered
  BY <1>3, <1>4, ValidOperation, BenchmarkAssumption
     DEF Typed, Offered, SeatIds
<1>6. result.request_id = o.request_id
  BY <1>1, <1>4 DEF Verdict
<1>7. purchase[c] \in AskedFor
  BY <1>1, <1>2 DEF AskedFor
<1>8. CASE reply[c].code = 200
  <2>1. /\ sale # None
        /\ result \in {sale, Replayed(o, sale)}
        /\ result.client_id = sale.client_id
    BY <1>4, <1>8 DEF TrueAt
  <2>2. sale \in PurchaseResult
    BY <1>3, <1>4, <2>1, ValidOperation DEF Typed, TypeOK, DirectTypeOK
  <2>3. /\ result.ticket_type = sale.ticket_type
        /\ result.seat_id \in {sale.seat_id, None}
        /\ result.remaining \in {sale.remaining, None}
    BY <2>1, <2>2 DEF Replayed, PurchaseResult
  <2>4. result.reason = "ok"
    BY <1>1, <1>4, <1>8 DEF Verdict
  <2> QED
    BY <1>3, <1>6, <1>7, <2>1, <2>3, <2>4 DEF Shop!Holds
<1>9. CASE reply[c].code = 409
  <2>1. result = rejected(o, IF Unnumbered(o) THEN "sold_out"
                             ELSE "seat_already_sold")
    BY <1>1, <1>4, <1>9 DEF Verdict
  <2>2. /\ result.status = "REJECTED"
        /\ result.seat_id = o.seat_id
        /\ result.reason = IF Unnumbered(o) THEN "sold_out"
                           ELSE "seat_already_sold"
    BY <2>1 DEF rejected
  <2>3. IF Numbered(o) THEN owner[o.seat_id] # None ELSE stock = 0
    BY <1>4, <1>9 DEF TrueAt
  <2>4. Numbered(o) <=> ~Unnumbered(o)
    BY <1>5 DEF TicketType, Numbered, Unnumbered
  <2> QED
    BY <1>3, <1>5, <1>6, <1>7, <2>2, <2>3, <2>4, SameShop DEF Shop!Holds
<1> QED
  BY <1>1, <1>4, <1>8, <1>9 DEF Verdict

(* A step is of the replicas, or sends or ends calls, or is of nginx and   *)
(* answers a call.                                                         *)
LEMMA StepServes ==
  ASSUME Typed, [Next]_vars
  PROVE  /\ UNCHANGED purchase
         /\ \/ UNCHANGED <<upstream, reply>>
            \/ /\ UNCHANGED <<boxOffice, reply>>
               /\ \A c \in Calls : upstream[c] # "idle" => upstream'[c] # "idle"
            \/ /\ UNCHANGED boxOffice
               /\ \A c \in Calls : upstream[c] # "idle" <=> upstream'[c] # "idle"
<1> USE Shapes
<1>1. ASSUME NEW d \in Calls, NginxStep(d) \/ UpstreamLost(d)
      PROVE  /\ UNCHANGED <<boxOffice, purchase>>
             /\ \A c \in Calls : upstream[c] # "idle" <=> upstream'[c] # "idle"
  <2>1. CASE Forward(d)
    <3>1. PICK r \in Replicas : upstream' = [upstream EXCEPT ![d] = r]
      BY <2>1 DEF Forward, LeastConnected, Available
    <3> QED
      BY <2>1, <3>1 DEF Forward
  <2>2. CASE ConnectionRefused(d) \/ UpstreamError(d) \/ UpstreamLost(d)
    <3>1. upstream[d] # "idle"
      BY <2>2 DEF ConnectionRefused, UpstreamError, UpstreamLost
    <3>2. PICK r, code : NextUpstream(d, r, code)
      BY <2>2 DEF ConnectionRefused, UpstreamError, UpstreamLost
    <3> QED
      BY <3>1, <3>2 DEF NextUpstream, Respond
  <2>3. CASE NoLiveUpstreams(d) \/ UpstreamAnswers(d)
    <3>1. upstream[d] # "idle" /\ UNCHANGED <<boxOffice, purchase>>
      BY <2>3 DEF NoLiveUpstreams, UpstreamAnswers
    <3>2. PICK response : Respond(d, response)
      BY <2>3 DEF NoLiveUpstreams, UpstreamAnswers
    <3> QED
      BY <3>1, <3>2 DEF Respond
  <2> QED
    BY <1>1, <2>1, <2>2, <2>3 DEF NginxStep
<1>2. ASSUME NEW d \in Calls, NEW r \in Replicas,
             HandlerStep(d, r) \/ SaleUnanswered(d, r) \/ RedisFails(d, r)
      PROVE  UNCHANGED <<purchase, upstream, reply>>
  BY <1>2 DEF HandlerStep, SaleUnanswered, RedisFails, InvalidInput,
       AlreadyProcessed, NotProcessed, Buy, WatchError, AnswerDropped,
       Answers, AtReplica, nginxVars
<1>3. ASSUME NEW r \in Replicas, FailTimeout(r) \/ Crash(r) \/ Restart(r)
      PROVE  UNCHANGED <<purchase, upstream, reply>>
  BY <1>3 DEF FailTimeout, Crash, Restart, nginxVars
<1>4. CASE DirectAlone
  BY <1>1, <1>2, <1>3, <1>4 DEF DirectAlone, DirectStep, DirectFault
<1>5. CASE \E d \in Calls : Send(d) \/ RequestFails(d)
  BY <1>5 DEF Send, RequestFails, ClientCloses
<1>6. CASE Interrupt
  BY <1>6 DEF Interrupt
<1>7. CASE (\E d \in Calls : Receive(d)) \/ WriteSummary \/ WriteResults
  BY <1>7 DEF Receive, WriteSummary, WriteResults, directVars, nginxVars
<1>8. CASE Finished \/ UNCHANGED vars
  BY <1>8 DEF Finished, vars, directVars, nginxVars
<1> QED
  BY <1>4, <1>5, <1>6, <1>7, <1>8 DEF Next, RunnerStep, RunnerFault

LEMMA StepIsOfTheShop ==
  ASSUME Typed, Accounts, Typed', Deliveries', [Next]_vars
  PROVE  [Shop!Next]_Shop!shopVars
<1> USE DEF AskedFor, Delivered
<1>1. UNCHANGED purchase
  BY StepServes
<1>2. CASE UNCHANGED <<upstream, reply>>
  <2>1. AskedFor' = AskedFor /\ Delivered' = Delivered
    BY <1>1, <1>2 DEF Answered
  <2>2. CASE UNCHANGED boxOffice
    BY <2>1, <2>2, SameShop DEF Shop!shopVars, Shop!boxOffice, Answered, boxOffice
  <2>3. CASE \E c \in Operations :
               /\ upstream[c] # "idle"
               /\ ValidInput(file[c])
               /\ \E result \in PurchaseResult : Sell(file[c], result)
    <3>1. PICK c \in Operations, result \in PurchaseResult :
            /\ upstream[c] # "idle"
            /\ ValidInput(file[c])
            /\ Sell(file[c], result)
      BY <2>3
    <3>2. c \in Calls /\ purchase[c] = file[c]
      BY OperationTypes DEF Typed
    <3>3. file[c] \in AskedFor
      BY <3>1, <3>2
    <3>4. result \in ResultsFor(file[c])
      BY <3>1 DEF Sell, SellTicket, SellSeat, ResultsFor
    <3>5. Shop!Serve
      BY <2>1, <3>1, <3>3, <3>4, SameShop DEF Shop!Serve, Answered
    <3> QED
      BY <3>5 DEF Shop!Next
  <2> QED
    BY <2>2, <2>3, StepSells
<1>3. CASE /\ UNCHANGED <<boxOffice, reply>>
           /\ \A c \in Calls : upstream[c] # "idle" => upstream'[c] # "idle"
  <2>1. AskedFor \subseteq AskedFor' /\ Delivered' = Delivered
    BY <1>1, <1>3 DEF Answered
  <2>2. AskedFor' \subseteq Ops
    <3> SUFFICES ASSUME NEW c \in Calls, upstream'[c] # "idle"
                 PROVE  purchase'[c] \in Ops
      OBVIOUS
    <3>1. c \in Operations' /\ file' = file /\ Operations' = Operations
      BY StepSells DEF Typed, Requests, Operations
    <3> QED
      BY <1>1, <3>1, OperationTypes DEF Typed
  <2>3. Shop!Ask
    BY <1>3, <2>1, <2>2 DEF Shop!Ask, Answered, Shop!boxOffice, boxOffice
  <2> QED
    BY <2>3 DEF Shop!Next
<1>4. CASE /\ UNCHANGED boxOffice
           /\ \A c \in Calls : upstream[c] # "idle" <=> upstream'[c] # "idle"
  <2>1. AskedFor' = AskedFor
    BY <1>1, <1>4
  <2>2. \A c \in Answered : c \in Answered' /\ reply'[c] = reply[c]
    <3> SUFFICES ASSUME NEW c \in Answered
                 PROVE  c \in Answered' /\ reply'[c] = reply[c]
      OBVIOUS
    <3>1. c \in Calls /\ upstream[c] = "closed"
      BY DEF Answered, Accounts, Refusals, SoleHandler
    <3>2. reply'[c] = reply[c]
      BY <3>1, ClosedIsFinal
    <3> QED
      BY <3>2 DEF Answered
  <2>3. Delivered \subseteq Delivered'
    BY <1>1, <2>2
  <2>4. ASSUME NEW x \in Delivered'
        PROVE  x.op \in AskedFor /\ Shop!Holds(x.op, x.result)
    <3>1. PICK c \in Answered' :
            x = [op |-> purchase'[c], result |-> reply'[c].body]
      OBVIOUS
    <3>2. purchase'[c] \in AskedFor' /\ Shop!Holds(purchase[c], reply[c].body)'
      BY DEF Deliveries
    <3>3. Shop!Holds(purchase'[c], reply'[c].body)
      BY <1>4, <3>2 DEF Shop!Holds, boxOffice
    <3> QED
      BY <2>1, <3>1, <3>2, <3>3
  <2>5. Shop!Tell
    BY <1>4, <2>1, <2>3, <2>4
       DEF Shop!Tell, Answered, Shop!boxOffice, boxOffice
  <2> QED
    BY <2>5 DEF Shop!Next
<1> QED
  BY <1>2, <1>3, <1>4, StepServes

(* nginx, its replicas and their threads are one shop to their clients:    *)
(* only what was sent is sold, an answer repeats what is on record or      *)
(* tells what cannot be had any more, and it is final.                     *)
THEOREM ReplicasAreOneShop == Spec => PromiseKept
<1>1. Spec => [](Typed /\ Accounts /\ Deliveries)
  BY AccountsInvariant, TruthDelivered, PTL
<1>2. /\ Typed /\ Accounts /\ Deliveries
      /\ (Typed /\ Accounts /\ Deliveries)'
      /\ [Next]_vars
      => [Shop!Next]_Shop!shopVars
  BY StepIsOfTheShop
<1> QED
  BY <1>1, <1>2, ShopInit, PTL DEF Spec, PromiseKept, Shop!Spec
=============================================================================
