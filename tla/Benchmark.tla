------------------------------ MODULE Benchmark -------------------------------
(***************************************************************************)
(* The benchmark runner (apps/benchmark_runner) as the client of the       *)
(* direct architecture: it sends the purchases of a file with bounded      *)
(* concurrency and its own timeout, counts the answers and writes two      *)
(* files, from which verify_correctness.sh gives its verdict.              *)
(***************************************************************************)
EXTENDS DirectSystem, SequencesExt

CONSTANTS
  Files,         \* the benchmark files: sequences of lines
  Comment,       \* a line that is blank or starts with #
  Garbage,       \* a line no pattern matches
  CONCURRENCY    \* --concurrency

VARIABLES
  file,          \* the file given with --benchmark
  runner,        \* where main() is
  results,       \* results[c]: the BenchmarkRequestResult of line c, or None
  summary_file,  \* <name>_summary.json, or None
  results_file   \* <name>_results.jsonl, or None

vars == <<directVars, file, runner, results, summary_file, results_file>>

(* parse_benchmark_file: the numbers of the lines that hold an operation.  *)
OperationLines(f) == {i \in DOMAIN f : f[i] \notin {Comment, Garbage}}
Parses(f) == Garbage \notin Range(f)

Operations == OperationLines(file)
Pending == {c \in Operations : upstream[c] = "idle"}
InFlight == {c \in Operations \ Pending : results[c] = None}

BenchmarkInit ==
  /\ DirectInit
  /\ file \in Files
  /\ purchase = [c \in Calls |-> IF c \in OperationLines(file) THEN file[c]
                                                               ELSE None]
  /\ runner = IF Parses(file) THEN "running" ELSE "failed"
  /\ results = [c \in Calls |-> None]
  /\ summary_file = None
  /\ results_file = None

----------------------------------------------------------------------------
(* run_operation.  The semaphore serves its waiters in the order of the    *)
(* tasks, which is that of the file.                                       *)

Send(c) ==
  /\ runner = "running"
  /\ c \in Pending
  /\ \A d \in Pending : c <= d
  /\ Cardinality(InFlight) < CONCURRENCY
  /\ upstream' = [upstream EXCEPT ![c] = "choosing"]
  /\ UNCHANGED <<boxOffice, purchase, tried, reply, fails, apiVars, abandoned,
                 faults, file, runner, results, summary_file, results_file>>

BenchmarkRequestResult ==
  [request_id : RequestIds \cup {Blank}, seat_id : Int \cup {None},
   ticket_type : TicketType, http_status : {0, 200, 400, 409, 500, 502, 504},
   response_body : PurchaseResult \cup {None}, error : BOOLEAN]

Record(c, status, body, failed) ==
  results' = [results EXCEPT ![c] =
    [request_id |-> purchase[c].request_id, seat_id |-> purchase[c].seat_id,
     ticket_type |-> purchase[c].ticket_type,
     http_status |-> status, response_body |-> body, error |-> failed]]

(* A page that is not JSON becomes a body without the fields of a result.  *)
Receive(c) ==
  /\ runner = "running"
  /\ c \in InFlight
  /\ reply[c] # None
  /\ Record(c, reply[c].code, reply[c].body, FALSE)
  /\ UNCHANGED <<directVars, file, runner, summary_file, results_file>>

(* Mutant of RequestFails: the exception ends the task without a result.   *)
RequestVanishes(c) ==
  /\ runner = "running"
  /\ Fault
  /\ c \in InFlight
  /\ ClientCloses(c)
  /\ UNCHANGED <<boxOffice, purchase, tried, reply, fails, apiVars, abandoned,
                 file, runner, results, summary_file, results_file>>

(* httpx raises: --timeout, or the connection to nginx is lost. *)
RequestFails(c) ==
  /\ runner = "running"
  /\ Fault
  /\ c \in InFlight
  /\ Record(c, 0, None, TRUE)
  /\ ClientCloses(c)
  /\ UNCHANGED <<boxOffice, purchase, tried, reply, fails, apiVars, abandoned,
                 file, runner, summary_file, results_file>>

----------------------------------------------------------------------------
(* main: the summary, then the results                                     *)

Measures == INSTANCE Metrics

StatusOf(r) == Measures!StatusOf(r)
Duplicate(r) == Measures!Duplicate(r)

Records == [c \in Operations |-> results[c]]

(* Mutant of build_summary: what is not rejected has been accepted.        *)
summary_of_the_rest ==
  [Measures!Counts(Records) EXCEPT
     !.accepted = Measures!Count(Records,
                                 LAMBDA r : ~r.error /\ StatusOf(r) # "REJECTED")]

build_summary == Measures!Counts(Records)

WriteSummary ==
  /\ runner = "running"
  /\ Pending \cup InFlight = {}
  /\ summary_file' = build_summary
  /\ runner' = "writing"
  /\ UNCHANGED <<directVars, file, results, results_file>>

WriteResults ==
  /\ runner = "writing"
  /\ results_file' = Records
  /\ runner' = "done"
  /\ UNCHANGED <<directVars, file, results, summary_file>>

(* Somebody interrupts the runner; its connections close. *)
Interrupt ==
  /\ runner \in {"running", "writing"}
  /\ Fault
  /\ runner' = "failed"
  /\ upstream' = [c \in Calls |-> IF upstream[c] = "idle" THEN "idle"
                                                          ELSE "closed"]
  /\ UNCHANGED <<boxOffice, purchase, tried, reply, fails, apiVars, abandoned,
                 file, results, summary_file, results_file>>

(* Everything has come to rest. *)
Finished ==
  /\ runner \in {"done", "failed"}
  /\ \A c \in Calls : /\ upstream[c] \in {"idle", "closed"}
                      /\ \A r \in Replicas : handler[c][r] = "idle"
  /\ UNCHANGED vars

RunnerStep == \/ \E c \in Calls : Send(c) \/ Receive(c)
              \/ WriteSummary
              \/ WriteResults

RunnerFault == (\E c \in Calls : RequestFails(c)) \/ Interrupt

DirectAlone ==
  DirectStep /\ UNCHANGED <<file, runner, results, summary_file, results_file>>

Next == RunnerStep \/ RunnerFault \/ DirectAlone \/ Finished

Spec == BenchmarkInit /\ [][Next]_vars
----------------------------------------------------------------------------
(* verify_correctness.sh.  The files are named after their ticket type.    *)

FileTypes == {file[c].ticket_type : c \in Operations}

accepted_seats ==
  IF results_file = None THEN {}
  ELSE {c \in Operations : /\ results_file[c].seat_id # None
                           /\ StatusOf(results_file[c]) = "ACCEPTED"
                           /\ ~Duplicate(results_file[c])}

expected == IF summary_file.total_operations < TOTAL_TICKETS
              THEN summary_file.total_operations ELSE TOTAL_TICKETS

(* "Correctitud verificada sin fallos." *)
Verified ==
  /\ summary_file # None
  /\ summary_file.transport_errors = 0
  /\ "unnumbered" \in FileTypes => summary_file.accepted = expected
  /\ \A c, d \in accepted_seats :
       c # d => results_file[c].seat_id # results_file[d].seat_id

----------------------------------------------------------------------------
(* Properties.                                                             *)

TypeOK ==
  /\ DirectTypeOK
  /\ runner \in {"running", "writing", "done", "failed"}
  /\ results \in [Calls -> BenchmarkRequestResult \cup {None}]
  /\ \A c \in Calls : results[c] # None =>
       (results[c].error <=> results[c].http_status = 0)

Sold == {c \in Operations : /\ ValidInput(file[c])
                            /\ ledger[file[c].request_id] # None}

(* A response speaks the truth about operation c.                          *)
TrueOf(c, response) ==
  LET result == response.body
      sale == get_request_result(file[c].request_id)
  IN CASE response.code = 200 ->
            /\ sale.found
            /\ result \in {sale.result, Replayed(file[c], sale.result)}
            /\ sale.result \in get_client_purchases(result.client_id)
            /\ Numbered(file[c]) =>
                 get_seat_status(file[c].seat_id).owner = result.client_id
       [] response.code = 409 ->
            IF Numbered(file[c])
              THEN get_seat_status(file[c].seat_id).status = "SOLD"
              ELSE get_available_count("unnumbered") = 0
       [] OTHER -> result.reason = "invalid_seat"

(* What a client is told is true of the sales on record, whichever replica *)
(* answered and however often nginx sent the purchase: after 200 the       *)
(* queries find the sale, its seat and its client; 409 means that nothing  *)
(* is left to sell (routes.py, _status_code_from_result and the queries).  *)
RepliesTrue ==
  \A c \in Operations :
    reply[c] # None /\ reply[c].body # None => TrueOf(c, reply[c])

(* A purchase that was refused has not been sold, unless nginx left a      *)
(* replica working on it and asked another one: a crash, an error answer   *)
(* or a lost EXEC reply alone never turn a sale into a refusal.            *)
RefusedMeansUnsold ==
  \A c \in Operations \ abandoned :
    reply[c] # None /\ reply[c].code = 409 => c \notin Sold

(* The summary against the box office: everything counted as accepted is   *)
(* sold, and all that was sold but not counted is an operation without a   *)
(* verdict (no answer, or an error page) or one that nginx abandoned       *)
(* (reporting.py, build_summary).                                          *)
SalesAccounted ==
  summary_file # None =>
    /\ summary_file.accepted <= Cardinality(Sold)
    /\ Cardinality(Sold) + summary_file.rejected
         <= summary_file.total_operations + Cardinality(abandoned)

(* What the verdict is worth: if verify_correctness.sh finds no fault, then *)
(* the available counts have gone down by as many tickets as the file could *)
(* buy, or by as many seats as requests were sold one, and every seat       *)
(* reported as sold belongs to the client it was reported to.               *)
VerifiedMeansSold ==
  Verified =>
    /\ FileTypes = {"unnumbered"} =>
         /\ SeededTickets - get_available_count("unnumbered") = expected
         /\ Cardinality(Sold) = expected
    /\ FileTypes = {"numbered"} =>
         SeededTickets - get_available_count("numbered") = Cardinality(Sold)
    /\ \A c \in accepted_seats :
         get_seat_status(results_file[c].seat_id).owner = file[c].client_id

(* From the clients' side the replicas behind nginx are one shop: sales are *)
(* of purchases that were sent, responses are final and true, whoever was   *)
(* asked how often and whoever has stopped waiting.                         *)
Shop ==
  INSTANCE TicketShop WITH
    asked <- {purchase[c] : c \in {d \in Calls : upstream[d] # "idle"}},
    told  <- {[op |-> purchase[c], result |-> reply[c].body] :
                c \in {d \in Calls : reply[d] # None /\ reply[d].body # None}}

PromiseKept == Shop!Spec

(* nginx answers every call, although it stops trying replicas that fail   *)
(* and nobody restarts them: with a replica's answer or with an error page *)
(* (the client never has to rely on its own timeout).                      *)
NginxAnswers ==
  \A c \in Calls : upstream[c] # "idle" ~> upstream[c] = "closed"

(* Every handler comes to its end, whoever still waits for it: the retries *)
(* of a purchase stop, for one of them finds the sale.                     *)
HandlersEnd ==
  \A c \in Calls, r \in Replicas :
    handler[c][r] # "idle" ~> handler[c][r] = "idle"

(* The runner comes to its end whatever happens to the calls: an operation *)
(* that fails gives its place to the next and still has a result           *)
(* (main.py, run_operation's finally of the semaphore and its except).     *)
RunnerEnds == <>(runner \in {"done", "failed"})

(* Threads and event loops run.  Faults, restarts, fail_timeout and the    *)
(* client's own timeout may never come.                                    *)
Fairness ==
  /\ \A c \in Calls : WF_vars(NginxStep(c) /\ UNCHANGED
                        <<file, runner, results, summary_file, results_file>>)
  /\ \A c \in Calls, r \in Replicas : WF_vars(HandlerStep(c, r) /\ UNCHANGED
                        <<file, runner, results, summary_file, results_file>>)
  /\ WF_vars(RunnerStep)

FairSpec == Spec /\ Fairness

(* Files hold purchases; every request is sent once and everything is on   *)
(* sale when the benchmark starts.                                         *)
ASSUME BenchmarkAssumption ==
  /\ SeededTickets = TOTAL_TICKETS
  /\ CONCURRENCY \in Nat \ {0}
  /\ \A f \in Files :
       /\ f \in Seq(Ops \cup {Comment, Garbage})
       /\ DOMAIN f \subseteq Calls
       /\ \A i, j \in OperationLines(f) :
            i # j => f[i].request_id # f[j].request_id
=============================================================================
