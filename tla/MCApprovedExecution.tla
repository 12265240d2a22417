------------------------ MODULE MCApprovedExecution ------------------------
(* Two approved plans written for the same installed version, of two Tasks,  *)
(* and two run-due processes.  Repeated checks of one unresolved release ask *)
(* for plans with one target (MCSameRelease).                                *)
EXTENDS ApprovedExecution, TLC

CONSTANTS p1, p2, t1, t2, v1, v2, v3

MCDecisions == {1, 2}
MCTaskOf    == 1 :> t1 @@ 2 :> t2
MCOld       == 1 :> v1 @@ 2 :> v1
MCTarget    == 1 :> v2 @@ 2 :> v3
MCSameRelease == 1 :> v2 @@ 2 :> v2
Passes      == Permutations({p1, p2})
=============================================================================
