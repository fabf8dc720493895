-------------------------- MODULE MCWorkerScaling ---------------------------
(***************************************************************************)
(* Three worker names and seven processes.                                 *)
(***************************************************************************)
EXTENDS WorkerScaling, TLC

CONSTANTS p1, p2, p3, p4, p5, p6, p7

MCPids == {p1, p2, p3, p4, p5, p6, p7}

PidSymmetry == Permutations(Pids)
=============================================================================
