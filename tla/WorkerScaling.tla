---------------------------- MODULE WorkerScaling ----------------------------
(***************************************************************************)
(* The scripts that start, scale and stop the workers of one machine, and  *)
(* the pid files they know them by (scripts/_common.sh, start_all.sh,      *)
(* scale_workers_up.sh, scale_workers_down.sh, reset_state.sh).  Workers   *)
(* are numbered by how many there are, and may die at any time.            *)
(***************************************************************************)
EXTENDS Integers, FiniteSets

CONSTANTS
  MaxWorkers,     \* worker names are worker_0 .. worker_(MaxWorkers - 1)
  Pids,           \* process ids, none of them used twice: bounds the starts
  MaxDeaths,      \* bound on the workers that die by themselves
  WAITS,          \* how often stop_process looks whether a worker has gone
  NoPid           \* there is no pid file

ASSUME ScalingAssumption ==
  /\ MaxWorkers \in Nat \ {0}
  /\ MaxDeaths \in Nat
  /\ WAITS \in Nat \ {0}
  /\ IsFiniteSet(Pids)
  /\ NoPid \notin Pids

VARIABLES
  pid_file,       \* pid_file[i]: what worker_i.pid holds, or NoPid
  running,        \* the worker processes
  used,           \* every process there has been
  script,         \* the script in progress, or the last one and its end
  i,              \* its loop variable, a global one
  target_count,   \* its target
  worker_names,   \* the workers reset_state.sh has stopped and starts again
  deaths,         \* workers that died so far
  deaths_before,  \* those of them that died before the script counted
  early_exits     \* workers that ended while stop_process waited for them

vars == <<pid_file, running, used, script, i, target_count, worker_names,
          deaths, deaths_before, early_exits>>

Names   == 0..(MaxWorkers - 1)
Resting ==
  {"started", "up_done", "down_done", "reset_done", "reset_failed"}

(* start_all.sh with WORKER_COUNT workers on a clean machine. *)
Init ==
  \E WORKER_COUNT \in 0..MaxWorkers :
  \E first \in [0..(WORKER_COUNT - 1) -> Pids] :
    /\ \A j, k \in DOMAIN first : first[j] = first[k] => j = k
    /\ pid_file =
         [n \in Names |-> IF n < WORKER_COUNT THEN first[n] ELSE NoPid]
    /\ running = {first[n] : n \in DOMAIN first}
    /\ used = running
    /\ script = "started"
    /\ i = 0
    /\ target_count = WORKER_COUNT
    /\ worker_names = {}
    /\ deaths = 0
    /\ deaths_before = 0
    /\ early_exits = 0

get_pid(n) == IF n \in Names THEN pid_file[n] ELSE NoPid

is_running(pid) == pid \in running

(* Mutant of current_workers: a pid file is as good as a process. *)
all_pid_files == {n \in Names : pid_file[n] # NoPid}

current_workers == {n \in Names : is_running(pid_file[n])}

current_count == Cardinality(current_workers)

(* The first loop of the scaling scripts: pid files of dead processes go. *)
PruneStale ==
  pid_file' = [n \in Names |->
                 IF n \in current_workers THEN pid_file[n] ELSE NoPid]

Count(target) ==
  /\ script \in Resting
  /\ PruneStale
  /\ target_count' = target
  /\ deaths_before' = deaths
  /\ UNCHANGED <<running, used, worker_names, deaths, early_exits>>

ScaleUp(target) ==
  /\ target > current_count
  /\ target - current_count <= Cardinality(Pids \ used)
  /\ Count(target)
  /\ script' = "up"
  /\ i' = current_count

ScaleDown(target) ==
  /\ target < current_count
  /\ Count(target)
  /\ script' = "down"
  /\ i' = current_count - 1

(* Nothing to scale: only the stale pid files are gone. *)
NothingToScale ==
  /\ script \in Resting
  /\ PruneStale
  /\ UNCHANGED <<running, used, script, i, target_count,
                 worker_names, deaths, deaths_before, early_exits>>

(* run_python_bg writes the pid file, whatever was in it. *)
run_python_bg(n) ==
  \E pid \in Pids \ used :
    /\ pid_file' = [pid_file EXCEPT ![n] = pid]
    /\ running' = running \cup {pid}
    /\ used' = used \cup {pid}

RunWorker ==
  /\ script = "up"
  /\ run_python_bg(i)
  /\ i' = i + 1
  /\ script' = IF i' = target_count THEN "up_done" ELSE "up"
  /\ UNCHANGED <<target_count, worker_names, deaths, deaths_before,
                 early_exits>>

(* stop_process("worker_i") and the caller's i--.  A worker that runs is    *)
(* killed; the wait for its end is a loop over the same i, which stands at *)
(* WAITS when the worker had to be killed -9, and at the number of looks   *)
(* when it ended before.  The pid file goes in any case.                   *)
stop_process ==
  /\ \/ /\ ~is_running(get_pid(i))
        /\ i' = i - 1
        /\ UNCHANGED early_exits
     \/ /\ is_running(get_pid(i))
        /\ i' = WAITS - 1
        /\ UNCHANGED early_exits
     \/ /\ is_running(get_pid(i))
        /\ \E looks \in 1..WAITS : i' = looks - 1
        /\ early_exits' = early_exits + 1
  /\ running' = running \ {get_pid(i)}
  /\ pid_file' = [n \in Names |-> IF n = i THEN NoPid ELSE pid_file[n]]

(* Mutant of StopWorker: the loop's i > target. *)
StopOneLess ==
  /\ script = "down"
  /\ IF i > target_count
       THEN stop_process /\ UNCHANGED script
       ELSE /\ script' = "down_done"
            /\ UNCHANGED <<running, pid_file, i, early_exits>>
  /\ UNCHANGED <<used, target_count, worker_names, deaths, deaths_before>>

StopWorker ==
  /\ script = "down"
  /\ stop_process
  /\ script' = IF i' < target_count THEN "down_done" ELSE "down"
  /\ UNCHANGED <<used, target_count, worker_names, deaths, deaths_before>>

(* reset_state.sh stops the workers it finds, cleans Redis and RabbitMQ ... *)
ResetStops ==
  /\ script \in Resting
  /\ current_count <= Cardinality(Pids \ used)
  /\ worker_names' = current_workers
  /\ running' = running \ {pid_file[n] : n \in current_workers}
  /\ pid_file' = [n \in Names |->
                    IF n \in current_workers THEN NoPid ELSE pid_file[n]]
  /\ script' = "cleaning"
  /\ deaths_before' = deaths
  /\ UNCHANGED <<used, i, target_count, deaths, early_exits>>

(* ... and ends there when a service does not answer or Redis cannot be    *)
(* flushed or filled: set -e, and the exit 1 of the FLUSHALL ...            *)
ResetFails ==
  /\ script = "cleaning"
  /\ script' = "reset_failed"
  /\ worker_names' = {}
  /\ UNCHANGED <<pid_file, running, used, i, target_count, deaths,
                 deaths_before, early_exits>>

(* ... or starts them again under their names. *)
ResetStarts ==
  /\ script \in {"cleaning", "restarting"}
  /\ IF worker_names = {}
       THEN /\ script' = "reset_done"
            /\ UNCHANGED <<pid_file, running, used, worker_names>>
       ELSE /\ \E n \in worker_names :
                 run_python_bg(n) /\ worker_names' = worker_names \ {n}
            /\ script' = "restarting"
  /\ UNCHANGED <<i, target_count, deaths, deaths_before, early_exits>>

WorkerDies ==
  /\ deaths < MaxDeaths
  /\ deaths' = deaths + 1
  /\ \E pid \in running : running' = running \ {pid}
  /\ UNCHANGED <<pid_file, used, script, i, target_count, worker_names,
                 deaths_before, early_exits>>

Next ==
  \/ \E target \in 0..MaxWorkers : ScaleUp(target) \/ ScaleDown(target)
  \/ NothingToScale
  \/ RunWorker
  \/ StopWorker
  \/ ResetStops
  \/ ResetFails
  \/ ResetStarts
  \/ WorkerDies

Spec == Init /\ [][Next]_vars

----------------------------------------------------------------------------
(* Properties.                                                             *)

Registered == {pid_file[n] : n \in Names} \ {NoPid}

(* As long as no worker ends by itself, neither unasked nor while           *)
(* stop_process waits for it, the index arithmetic is right: the pid files *)
(* name exactly the running workers, the names have no gap, and scaling     *)
(* ends with as many as it was asked for, although stop_process moves the  *)
(* index it is called with (scale_workers_up.sh line 33,                    *)
(* scale_workers_down.sh line 37, _common.sh line 117).                     *)
CountsExact ==
  deaths = 0 /\ early_exits = 0 /\ script \in Resting =>
    /\ running = Registered
    /\ current_workers = 0..(current_count - 1)
    /\ script \in {"up_done", "down_done"} => current_count = target_count

(* Whatever gaps deaths and earlier scaling left in the names, scaling up   *)
(* does not end with fewer workers than asked for, unless one dies on the   *)
(* way (scale_workers_up.sh lines 7-36).                                    *)
NeverTooFew ==
  deaths = deaths_before /\ script = "up_done" =>
    Cardinality(running) >= target_count
=============================================================================
