---------------------------- MODULE MCWorkerPool ----------------------------
(* An instance of WorkerPool for TLC: named jobs spread over the reactors. *)
EXTENDS WorkerPool

CONSTANTS r1, r2, j1, j2, j3

\* Reactor r2 owns one job, r1 the others, so that one channel holds several.
MCReactorOf == [j \in Jobs |-> IF j = j2 THEN r2 ELSE r1]
=============================================================================
