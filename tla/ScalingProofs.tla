----------------------------- MODULE ScalingProofs -----------------------------
(***************************************************************************)
(* The index arithmetic of the scaling scripts, for any number of workers  *)
(* and processes: as long as no worker ends by itself, names and processes *)
(* agree; and whoever dies, scaling up does not end with too few.          *)
(***************************************************************************)
EXTENDS WorkerScaling, FiniteSetTheorems, TLAPS

Typed ==
  /\ pid_file \in [Names -> Pids \cup {NoPid}]
  /\ running \subseteq used
  /\ used \subseteq Pids
  /\ script \in Resting \cup {"up", "down", "cleaning", "restarting"}
  /\ target_count \in 0..MaxWorkers
  /\ worker_names \subseteq Names
  /\ deaths \in Nat
  /\ early_exits \in Nat

Named == {n \in Names : pid_file[n] # NoPid}

(* A process has one pid file, and a pid file names a process.             *)
OneFileEach ==
  /\ running = Registered
  /\ \A m, n \in Named : pid_file[m] = pid_file[n] => m = n

(* Which names are taken while a script is at work, and when none is.  A   *)
(* scale-down in progress has the highest taken name still before it,      *)
(* wherever stop_process has put its index.                                *)
NoGaps ==
  /\ script \in Resting =>
       \E count \in 0..MaxWorkers :
         /\ Named = 0..(count - 1)
         /\ script \in {"up_done", "down_done"} => count = target_count
  /\ script = "up" => i \in 0..(target_count - 1) /\ Named = 0..(i - 1)
  /\ script = "down" =>
       /\ i \in Int /\ i >= target_count
       /\ \E count \in target_count..MaxWorkers :
            Named = 0..(count - 1) /\ count - 1 <= i
  /\ script \in {"cleaning", "restarting"} =>
       /\ Named \cap worker_names = {}
       /\ \E count \in 0..MaxWorkers :
            Named \cup worker_names = 0..(count - 1)
  /\ script = "cleaning" => Named = {}

Undisturbed == deaths = 0 /\ early_exits = 0

(* The index that stop_process leaves behind is not below the next name.   *)
FewNames == MaxWorkers <= WAITS + 1

Inv == Typed /\ (FewNames /\ Undisturbed => OneFileEach /\ NoGaps)

LEMMA InitInv == Init => Inv /\ OneFileEach
<1> SUFFICES ASSUME Init PROVE Inv /\ OneFileEach
  OBVIOUS
<1>1. PICK WORKER_COUNT \in 0..MaxWorkers :
      \E first \in [0..(WORKER_COUNT - 1) -> Pids] :
        /\ \A j, k \in DOMAIN first : first[j] = first[k] => j = k
        /\ pid_file =
             [n \in Names |-> IF n < WORKER_COUNT THEN first[n] ELSE NoPid]
        /\ running = {first[n] : n \in DOMAIN first}
        /\ target_count = WORKER_COUNT
  BY DEF Init
<1>2. PICK first \in [0..(WORKER_COUNT - 1) -> Pids] :
        /\ \A j, k \in DOMAIN first : first[j] = first[k] => j = k
        /\ pid_file =
             [n \in Names |-> IF n < WORKER_COUNT THEN first[n] ELSE NoPid]
        /\ running = {first[n] : n \in DOMAIN first}
        /\ target_count = WORKER_COUNT
  BY <1>1
<1>3. /\ used = running
      /\ script = "started"
      /\ worker_names = {}
      /\ deaths = 0
      /\ early_exits = 0
  BY DEF Init
<1>4. 0..(WORKER_COUNT - 1) \subseteq Names /\ NoPid \notin Pids
  BY ScalingAssumption DEF Names
<1>5. Named = 0..(WORKER_COUNT - 1)
  BY <1>2, <1>4 DEF Named, Names
<1>6. Typed
  BY <1>2, <1>3, <1>4 DEF Typed, Resting, Names
<1>7. OneFileEach
  <2>1. running = Registered
    BY <1>2, <1>4 DEF Registered, Names
  <2>2. \A m \in Named : pid_file[m] = first[m] /\ m \in DOMAIN first
    BY <1>2, <1>4, <1>5 DEF Names
  <2> QED
    BY <1>2, <2>1, <2>2 DEF OneFileEach
<1>8. NoGaps
  BY <1>3, <1>5 DEF NoGaps, Resting
<1> QED
  BY <1>6, <1>7, <1>8 DEF Inv

(* While the files are exact, what the scripts count is what there is.     *)
LEMMA Counted ==
  ASSUME Typed, OneFileEach
  PROVE  /\ current_workers = Named
         /\ \A count \in 0..MaxWorkers :
              Named = 0..(count - 1) => current_count = count
<1>1. current_workers = Named
  BY ScalingAssumption
     DEF Typed, OneFileEach, current_workers, is_running, Named, Registered
<1>2. ASSUME NEW count \in 0..MaxWorkers, Named = 0..(count - 1)
      PROVE  current_count = count
  <2>1. Cardinality(0..(count - 1)) = count
    BY FS_Interval, ScalingAssumption
  <2> QED
    BY <1>1, <1>2, <2>1 DEF current_count
<1> QED
  BY <1>1, <1>2

LEMMA Pruned ==
  ASSUME Typed, OneFileEach, PruneStale
  PROVE  UNCHANGED pid_file
<1>1. \A n \in Names : pid_file'[n] = pid_file[n]
  BY Counted DEF PruneStale, Named
<1> QED
  BY <1>1 DEF PruneStale, Typed

(* A new worker takes a name that nobody has.                              *)
LEMMA Started ==
  ASSUME Typed, OneFileEach, NEW n \in Names \ Named, run_python_bg(n)
  PROVE  OneFileEach' /\ Named' = Named \cup {n}
<1>1. PICK pid \in Pids \ used :
        /\ pid_file' = [pid_file EXCEPT ![n] = pid]
        /\ running' = running \cup {pid}
  BY DEF run_python_bg
<1>2. Named' = Named \cup {n}
  BY <1>1, ScalingAssumption DEF Named, Typed
<1>3. \A m \in Named : pid_file'[m] = pid_file[m] /\ pid_file[m] # pid
  BY <1>1 DEF Named, Typed, OneFileEach, Registered
<1>4. running' = Registered'
  BY <1>1, ScalingAssumption
     DEF Named, Typed, OneFileEach, Registered
<1> QED
  BY <1>1, <1>2, <1>3, <1>4 DEF OneFileEach, Typed

LEMMA NextTyped == Inv /\ [Next]_vars => Typed'
<1> SUFFICES ASSUME Inv, [Next]_vars PROVE Typed'
  OBVIOUS
<1> USE ScalingAssumption DEF Inv, Typed
<1>1. PruneStale => pid_file' \in [Names -> Pids \cup {NoPid}]
  BY DEF PruneStale, current_workers
<1>2. ASSUME NEW n \in Names, run_python_bg(n)
      PROVE  /\ pid_file' \in [Names -> Pids \cup {NoPid}]
             /\ running' \subseteq used'
             /\ used' \subseteq Pids
  BY <1>2 DEF run_python_bg
<1>3. ASSUME NEW target \in 0..MaxWorkers, ScaleUp(target) \/ ScaleDown(target)
      PROVE  Typed'
  BY <1>1, <1>3 DEF ScaleUp, ScaleDown, Count
<1>4. CASE NothingToScale
  BY <1>1, <1>4 DEF NothingToScale
<1>5. CASE RunWorker
  <2>1. run_python_bg(i)
    BY <1>5 DEF RunWorker
  <2>2. CASE i \in Names
    BY <1>2, <1>5, <2>1, <2>2 DEF RunWorker, Resting
  <2>3. CASE i \notin Names
    <3>1. pid_file' = pid_file /\ running' \subseteq used' /\ used' \subseteq Pids
      BY <2>1, <2>3 DEF run_python_bg
    <3> QED
      BY <1>5, <3>1 DEF RunWorker, Resting
  <2> QED
    BY <2>2, <2>3
<1>6. CASE StopWorker
  BY <1>6 DEF StopWorker, stop_process, Resting
<1>7. CASE ResetStops
  BY <1>7 DEF ResetStops, Resting, current_workers
<1>8. CASE ResetStarts
  BY <1>2, <1>8 DEF ResetStarts, Resting
<1>11. CASE ResetFails
  BY <1>11 DEF ResetFails, Resting
<1>9. CASE WorkerDies
  BY <1>9 DEF WorkerDies
<1>10. CASE UNCHANGED vars
  BY <1>10 DEF vars
<1> QED
  BY <1>3, <1>4, <1>5, <1>6, <1>7, <1>8, <1>9, <1>10, <1>11 DEF Next

LEMMA NextExact ==
  ASSUME Inv, [Next]_vars, FewNames, Undisturbed'
  PROVE  OneFileEach' /\ NoGaps'
<1>1. Undisturbed
  BY DEF Inv, Typed, Undisturbed, Next, ScaleUp, ScaleDown, Count,
         NothingToScale, RunWorker, StopWorker, stop_process, ResetStops,
         ResetFails, ResetStarts, WorkerDies, vars
<1>2. Typed /\ OneFileEach /\ NoGaps
  BY <1>1 DEF Inv
<1> USE ScalingAssumption
<1>3. ASSUME UNCHANGED <<pid_file, running>>
      PROVE  OneFileEach' /\ Named' = Named
  BY <1>2, <1>3 DEF OneFileEach, Registered, Named
<1>4. ASSUME script \in Resting
      PROVE  \E count \in 0..MaxWorkers :
               Named = 0..(count - 1) /\ current_count = count
  BY <1>2, <1>4, Counted DEF NoGaps
<1>5. ASSUME NEW target \in 0..MaxWorkers, ScaleUp(target) \/ ScaleDown(target)
      PROVE  OneFileEach' /\ NoGaps'
  <2>1. /\ script \in Resting
        /\ UNCHANGED running
        /\ target_count' = target
        /\ PruneStale
    BY <1>5 DEF ScaleUp, ScaleDown, Count
  <2>2. OneFileEach' /\ Named' = Named
    BY <1>2, <1>3, <2>1, Pruned
  <2>3. PICK count \in 0..MaxWorkers :
          Named = 0..(count - 1) /\ current_count = count
    BY <1>4, <2>1
  <2>4. \/ script' = "up" /\ i' = count /\ target > count
        \/ script' = "down" /\ i' = count - 1 /\ target < count
    BY <1>5, <2>3 DEF ScaleUp, ScaleDown
  <2>5. NoGaps'
    BY <2>1, <2>2, <2>3, <2>4 DEF NoGaps, Resting
  <2> QED
    BY <2>2, <2>5
<1>6. CASE NothingToScale
  <2>1. UNCHANGED <<pid_file, running, script, i, target_count, worker_names>>
    BY <1>2, <1>6, Pruned DEF NothingToScale
  <2> QED
    BY <1>2, <1>3, <2>1 DEF NoGaps
<1>7. CASE RunWorker
  <2>1. /\ script = "up" /\ run_python_bg(i) /\ i' = i + 1
        /\ script' = IF i' = target_count THEN "up_done" ELSE "up"
        /\ UNCHANGED target_count
    BY <1>7 DEF RunWorker
  <2>2. i \in 0..(target_count - 1) /\ Named = 0..(i - 1)
    BY <1>2, <2>1 DEF NoGaps
  <2>3. target_count \in 0..MaxWorkers
    BY <1>2 DEF Typed
  <2>4. i \in Names \ Named
    BY <2>2, <2>3 DEF Names
  <2>5. OneFileEach' /\ Named' = Named \cup {i}
    BY <1>2, <2>1, <2>4, Started
  <2>6. Named' = 0..i
    BY <2>2, <2>5
  <2>7. NoGaps'
    BY <2>1, <2>2, <2>3, <2>6 DEF NoGaps, Resting
  <2> QED
    BY <2>5, <2>7
<1>8. CASE StopWorker
  <2>1. /\ script = "down"
        /\ stop_process
        /\ running' = running \ {get_pid(i)}
        /\ pid_file' = [n \in Names |-> IF n = i THEN NoPid ELSE pid_file[n]]
        /\ script' = IF i' < target_count THEN "down_done" ELSE "down"
        /\ UNCHANGED target_count
    BY <1>8 DEF StopWorker, stop_process
  <2>2. i \in Int /\ i >= target_count /\ target_count \in 0..MaxWorkers
    BY <1>2, <2>1 DEF NoGaps, Typed
  <2>3. PICK count \in target_count..MaxWorkers :
          Named = 0..(count - 1) /\ count - 1 <= i
    BY <1>2, <2>1 DEF NoGaps
  <2>4. OneFileEach'
    <3>1. Named' = Named \ {i} /\ \A m \in Named' : pid_file'[m] = pid_file[m]
      BY <1>2, <2>1 DEF Named, Typed
    <3>2. running' = Registered'
      BY <1>2, <2>1
         DEF OneFileEach, Registered, Named, Typed, get_pid
    <3> QED
      BY <1>2, <3>1, <3>2 DEF OneFileEach
  <2>5. CASE i >= count
    <3>1. ~is_running(get_pid(i))
      BY <1>2, <2>2, <2>3, <2>5
         DEF is_running, get_pid, Named, Typed
    <3>2. i' = i - 1 /\ Named' = Named
      BY <1>2, <2>1, <2>2, <2>3, <2>5, <3>1 DEF stop_process, Named, Typed
    <3>3. NoGaps'
      BY <2>1, <2>2, <2>3, <2>5, <3>2 DEF NoGaps, Resting
    <3> QED
      BY <2>4, <3>3
  <2>6. CASE i < count
    <3>1. i = count - 1 /\ i \in Named
      BY <2>2, <2>3, <2>6
    <3>2. is_running(get_pid(i))
      BY <1>2, <3>1 DEF OneFileEach, Registered, Named, is_running, get_pid
    <3>3. i' = WAITS - 1
      BY <1>1, <2>1, <3>2 DEF stop_process, Undisturbed
    <3>4. Named' = 0..(count - 2)
      BY <1>2, <2>1, <2>2, <2>3, <3>1 DEF Named, Typed
    <3>5. count - 2 <= i' /\ i' \in Int
      BY <2>2, <2>3, <3>3 DEF FewNames
    <3>6. NoGaps'
      BY <2>1, <2>2, <2>3, <3>1, <3>4, <3>5 DEF NoGaps, Resting
    <3> QED
      BY <2>4, <3>6
  <2> QED
    BY <2>2, <2>3, <2>5, <2>6
<1>9. CASE ResetStops
  <2>1. current_workers = Named
    BY <1>2, Counted
  <2>2. /\ script \in Resting
        /\ script' = "cleaning"
        /\ worker_names' = Named
        /\ running' = running \ {pid_file[n] : n \in Named}
        /\ pid_file' = [n \in Names |-> IF n \in Named THEN NoPid ELSE pid_file[n]]
    BY <1>9, <2>1 DEF ResetStops
  <2>3. \A n \in Names : pid_file'[n] = NoPid
    BY <2>2 DEF Named
  <2>4. running' = {}
    BY <1>2, <2>2 DEF OneFileEach, Registered, Named
  <2>5. Named' = {} /\ OneFileEach'
    BY <2>3, <2>4 DEF Named, OneFileEach, Registered
  <2>6. NoGaps'
    BY <1>4, <2>2, <2>5 DEF NoGaps, Resting
  <2> QED
    BY <2>5, <2>6
<1>10. CASE ResetStarts
  <2>1. script \in {"cleaning", "restarting"}
    BY <1>10 DEF ResetStarts
  <2>2. PICK count \in 0..MaxWorkers : Named \cup worker_names = 0..(count - 1)
    BY <1>2, <2>1 DEF NoGaps
  <2>3. CASE worker_names = {}
    <3>1. script' = "reset_done" /\ UNCHANGED <<pid_file, running>>
      BY <1>10, <2>3 DEF ResetStarts
    <3> QED
      BY <1>3, <2>2, <2>3, <3>1 DEF NoGaps, Resting
  <2>4. CASE worker_names # {}
    <3>1. PICK n \in worker_names :
            run_python_bg(n) /\ worker_names' = worker_names \ {n}
      BY <1>10, <2>4 DEF ResetStarts
    <3>2. n \in Names \ Named
      BY <1>2, <2>1 DEF NoGaps, Typed
    <3>3. OneFileEach' /\ Named' = Named \cup {n}
      BY <1>2, <3>1, <3>2, Started
    <3>4. script' = "restarting"
      BY <1>10, <2>1, <2>4 DEF ResetStarts
    <3>5. NoGaps'
      BY <1>2, <2>1, <2>2, <3>1, <3>3, <3>4 DEF NoGaps, Resting
    <3> QED
      BY <3>3, <3>5
  <2> QED
    BY <2>3, <2>4
<1>13. CASE ResetFails
  <2>1. script = "cleaning" /\ script' = "reset_failed"
        /\ UNCHANGED <<pid_file, running>>
    BY <1>13 DEF ResetFails
  <2>2. OneFileEach' /\ Named' = {}
    BY <1>2, <1>3, <2>1 DEF NoGaps
  <2>3. 0 \in 0..MaxWorkers /\ 0..(0 - 1) = {}
    OBVIOUS
  <2> QED
    BY <2>1, <2>2, <2>3 DEF NoGaps, Resting
<1>11. ~WorkerDies
  BY <1>1, <1>2 DEF WorkerDies, Undisturbed, Typed
<1>12. CASE UNCHANGED vars
  BY <1>2, <1>3, <1>12 DEF vars, NoGaps
<1> QED
  BY <1>5, <1>6, <1>7, <1>8, <1>9, <1>10, <1>11, <1>12,
     <1>13 DEF Next

(* Started, scaled up and down and reset in any order, the workers on      *)
(* record are the workers there are, their names have no gap, and a        *)
(* scaling script ends with as many as it was asked for: as long as no     *)
(* worker ends by itself, and there are no more names than stop_process    *)
(* takes looks, and one.                                                   *)
THEOREM ScalingExact ==
  ASSUME MaxWorkers <= WAITS + 1
  PROVE  Spec => []CountsExact
<1>0. FewNames
  BY DEF FewNames
<1>1. Inv /\ [Next]_vars => Inv'
  BY NextTyped, NextExact DEF Inv
<1>2. Inv => CountsExact
  <2> SUFFICES ASSUME Inv, Undisturbed, script \in Resting
               PROVE  /\ running = Registered
                      /\ current_workers = 0..(current_count - 1)
                      /\ script \in {"up_done", "down_done"} =>
                           current_count = target_count
    BY DEF CountsExact, Undisturbed
  <2>1. Typed /\ OneFileEach /\ NoGaps
    BY <1>0 DEF Inv
  <2>2. PICK count \in 0..MaxWorkers :
          /\ Named = 0..(count - 1)
          /\ script \in {"up_done", "down_done"} => count = target_count
    BY <2>1 DEF NoGaps
  <2>3. current_workers = Named /\ current_count = count
    BY <2>1, <2>2, Counted
  <2> QED
    BY <2>1, <2>2, <2>3 DEF OneFileEach
<1> QED
  BY <1>1, <1>2, InitInv, PTL DEF Spec

----------------------------------------------------------------------------
(* When workers die                                                        *)

(* No process has two pid files, although some may have none.              *)
FilesDiffer ==
  /\ \A n \in Named : pid_file[n] \in used
  /\ \A m, n \in Named : pid_file[m] = pid_file[n] => m = n

(* Unless one has died since it counted, a scale-up at work has as many    *)
(* workers as its loop variable says.                                      *)
Enough ==
  deaths = deaths_before =>
    /\ script = "up" => Cardinality(running) >= i
    /\ script = "up_done" => Cardinality(running) >= target_count

Surviving == /\ i \in Int
             /\ deaths_before \in 0..deaths
             /\ FilesDiffer
             /\ Enough

LEMMA SurvivingInit == Init => Surviving
<1> SUFFICES ASSUME Init PROVE Surviving
  OBVIOUS
<1>1. Typed /\ OneFileEach
  BY InitInv DEF Init, Inv
<1>2. script = "started" /\ i = 0 /\ deaths = 0 /\ deaths_before = 0
      /\ used = running
  BY DEF Init
<1>3. FilesDiffer
  BY <1>1, <1>2 DEF OneFileEach, FilesDiffer, Named, Registered
<1> QED
  BY <1>2, <1>3 DEF Surviving, Enough

(* There are at least as many workers as the scripts count. *)
LEMMA CountedAreRunning ==
  ASSUME Typed, FilesDiffer
  PROVE  /\ IsFiniteSet(running)
         /\ Cardinality(running) \in Nat
         /\ current_count \in Nat
         /\ current_count <= Cardinality(running)
<1>1. IsFiniteSet(running) /\ Cardinality(running) \in Nat
  BY FS_Subset, FS_CardinalityType, ScalingAssumption DEF Typed
<1> DEFINE file == [n \in current_workers |-> pid_file[n]]
<1>2. \A n \in current_workers : n \in Named /\ pid_file[n] \in running
  BY ScalingAssumption DEF current_workers, is_running, Named, Typed
<1>3. file \in [current_workers -> running]
  BY <1>2
<1>4. \A m, n \in current_workers : file[m] = file[n] => m = n
  BY <1>2 DEF FilesDiffer
<1>5. file \in Injection(current_workers, running)
  BY <1>3, <1>4 DEF Injection, IsInjective
<1> HIDE DEF file
<1>6. /\ IsFiniteSet(current_workers)
      /\ Cardinality(current_workers) <= Cardinality(running)
  BY <1>1, <1>5, FS_Injection
<1> QED
  BY <1>1, <1>6, FS_CardinalityType DEF current_count

(* What happens to the pid files *)
LEMMA FilesStayDifferent ==
  ASSUME Typed, FilesDiffer
  PROVE  /\ PruneStale /\ UNCHANGED used => FilesDiffer'
         /\ \A n : run_python_bg(n) => FilesDiffer'
         /\ UNCHANGED <<pid_file, used>> => FilesDiffer'
         /\ \A N \in SUBSET Names :
              /\ pid_file' = [n \in Names |->
                                IF n \in N THEN NoPid ELSE pid_file[n]]
              /\ UNCHANGED used
              => FilesDiffer'
<1> USE ScalingAssumption DEF FilesDiffer, Named, Typed
<1>1. ASSUME PruneStale, UNCHANGED used PROVE FilesDiffer'
  BY <1>1 DEF PruneStale
<1>2. ASSUME NEW n, run_python_bg(n) PROVE FilesDiffer'
  <2>1. PICK pid \in Pids \ used : /\ pid_file' = [pid_file EXCEPT ![n] = pid]
                                  /\ used' = used \cup {pid}
    BY <1>2 DEF run_python_bg
  <2>2. \A m \in Names : \/ m = n /\ pid_file'[m] = pid
                         \/ m # n /\ pid_file'[m] = pid_file[m]
    BY <2>1
  <2> QED
    BY <2>1, <2>2
<1>3. UNCHANGED <<pid_file, used>> => FilesDiffer'
  OBVIOUS
<1>4. ASSUME NEW N \in SUBSET Names, UNCHANGED used,
             pid_file' = [n \in Names |->
                            IF n \in N THEN NoPid ELSE pid_file[n]]
      PROVE  FilesDiffer'
  BY <1>4
<1> QED
  BY <1>1, <1>2, <1>3, <1>4

LEMMA SurvivingStep == Inv /\ Surviving /\ [Next]_vars => Surviving'
<1> SUFFICES ASSUME Inv, Surviving, [Next]_vars PROVE Surviving'
  OBVIOUS
<1>0. Typed /\ FilesDiffer /\ Enough /\ i \in Int /\ deaths_before \in 0..deaths
      /\ deaths \in Nat /\ target_count \in 0..MaxWorkers
  BY DEF Inv, Surviving, Typed
<1>1. /\ IsFiniteSet(running) /\ Cardinality(running) \in Nat
      /\ current_count \in Nat /\ current_count <= Cardinality(running)
  BY <1>0, CountedAreRunning
<1> USE ScalingAssumption
<1>2. ASSUME NEW target \in 0..MaxWorkers, ScaleUp(target) \/ ScaleDown(target)
      PROVE  Surviving'
  <2>1. FilesDiffer'
    BY <1>0, <1>2, FilesStayDifferent DEF ScaleUp, ScaleDown, Count
  <2>2. /\ UNCHANGED <<running, deaths>>
        /\ deaths_before' = deaths
        /\ target_count' = target
        /\ \/ script' = "up" /\ i' = current_count
           \/ script' = "down" /\ i' = current_count - 1 /\ target < current_count
    BY <1>2 DEF ScaleUp, ScaleDown, Count
  <2> QED
    BY <1>0, <1>1, <2>1, <2>2 DEF Surviving, Enough
<1>3. CASE NothingToScale
  <2>1. FilesDiffer'
    BY <1>0, <1>3, FilesStayDifferent DEF NothingToScale
  <2> QED
    BY <1>0, <1>3, <2>1 DEF NothingToScale, Surviving, Enough
<1>4. CASE RunWorker
  <2>1. FilesDiffer'
    BY <1>0, <1>4, FilesStayDifferent DEF RunWorker
  <2>2. PICK pid \in Pids \ used : running' = running \cup {pid}
    BY <1>4 DEF RunWorker, run_python_bg
  <2>3. Cardinality(running') = Cardinality(running) + 1
    BY <1>0, <1>1, <2>2, FS_AddElement DEF Typed
  <2>4. /\ script = "up" /\ i' = i + 1
        /\ script' = IF i' = target_count THEN "up_done" ELSE "up"
        /\ UNCHANGED <<target_count, deaths, deaths_before>>
    BY <1>4 DEF RunWorker
  <2> QED
    BY <1>0, <1>1, <2>1, <2>3, <2>4 DEF Surviving, Enough
<1>5. CASE StopWorker
  <2>1. /\ script' \in {"down_done", "down"} /\ i' \in Int
        /\ pid_file' = [n \in Names |-> IF n = i THEN NoPid ELSE pid_file[n]]
        /\ UNCHANGED <<used, deaths, deaths_before>>
    BY <1>0, <1>5 DEF StopWorker, stop_process
  <2>2. FilesDiffer'
    BY <1>0, <2>1 DEF FilesDiffer, Named, Typed
  <2> QED
    BY <1>0, <2>1, <2>2 DEF Surviving, Enough
<1>6. CASE ResetStops
  <2>1. FilesDiffer'
    BY <1>0, <1>6, FilesStayDifferent DEF ResetStops, current_workers
  <2> QED
    BY <1>0, <1>6, <2>1 DEF ResetStops, Surviving, Enough
<1>7. CASE ResetStarts
  <2>1. FilesDiffer'
    BY <1>0, <1>7, FilesStayDifferent DEF ResetStarts
  <2>2. script' \in {"restarting", "reset_done"}
        /\ UNCHANGED <<i, deaths, deaths_before>>
    BY <1>7 DEF ResetStarts
  <2> QED
    BY <1>0, <2>1, <2>2 DEF Surviving, Enough
<1>10. CASE ResetFails
  <2>1. FilesDiffer'
    BY <1>0, <1>10, FilesStayDifferent DEF ResetFails
  <2> QED
    BY <1>0, <1>10, <2>1 DEF ResetFails, Surviving, Enough
<1>8. CASE WorkerDies
  <2>1. FilesDiffer'
    BY <1>0, <1>8, FilesStayDifferent DEF WorkerDies
  <2>2. deaths' = deaths + 1 /\ UNCHANGED <<i, deaths_before>>
    BY <1>8 DEF WorkerDies
  <2> QED
    BY <1>0, <2>1, <2>2 DEF Surviving, Enough
<1>9. CASE UNCHANGED vars
  <2>1. FilesDiffer'
    BY <1>0, <1>9, FilesStayDifferent DEF vars
  <2> QED
    BY <1>0, <1>9, <2>1 DEF vars, Surviving, Enough
<1> QED
  BY <1>2, <1>3, <1>4, <1>5, <1>6, <1>7, <1>8, <1>9, <1>10 DEF Next

(* Deaths leave gaps among the names and files of processes that are gone, *)
(* a scale-down may skip names or stop more than it should, and a new      *)
(* worker may take over the pid file of one that runs: all the same, a     *)
(* scale-up on whose way nobody dies leaves at least as many workers as it *)
(* was asked for, however many names there are.                            *)
THEOREM ScalingSuffices == Spec => []NeverTooFew
<1>1. Inv /\ [Next]_vars => Inv'
  BY NextTyped, NextExact DEF Inv
<1>2. Surviving => NeverTooFew
  BY DEF Surviving, Enough, NeverTooFew
<1>3. Spec => []Inv
  BY <1>1, InitInv, PTL DEF Spec
<1>4. Spec => []Surviving
  BY <1>3, SurvivingInit, SurvivingStep, PTL DEF Spec
<1> QED
  BY <1>2, <1>4, PTL
=============================================================================
