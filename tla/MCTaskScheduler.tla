-------------------------- MODULE MCTaskScheduler --------------------------
(* Two Tasks, one daily and one every second day, on half-day ticks.         *)
EXTENDS TaskScheduler, TLC

CONSTANTS p1, p2, c1, c2

MCTasks    == {1, 2}
MCInterval == 1 :> 1 @@ 2 :> 2
MCDaily    == 1 :> 1

Symmetry == Permutations(Processes) \cup Permutations(Clients)
=============================================================================
