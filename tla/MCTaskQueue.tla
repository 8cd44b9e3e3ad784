---------------------------- MODULE MCTaskQueue ----------------------------
(* Model checking of TaskQueue: threads and tasks are interchangeable. *)
EXTENDS TaskQueue, TLC

Symmetry == Permutations(Threads) \cup Permutations(Tasks)
=============================================================================
