---------------------- MODULE ApprovedExecution_proofs ----------------------
(***************************************************************************)
(* What is proved of ApprovedExecution for every set of Decisions, Tasks,    *)
(* processes and versions and for every bound on crashes, drifts and edits.  *)
(* The inductive invariant IInv adds to the type invariant what the protocol *)
(* relies on without saying so: who is inside the pass, which durable phase  *)
(* each place of the code works under, and which package permits that phase  *)
(* still leaves unspent.  OrderInv adds in which order plans are claimed,    *)
(* TruthInv what phases and checkpointed outcomes say of the host; from both *)
(* follows, step by step, that the protocol implements PlanContract.         *)
(***************************************************************************)
EXTENDS ApprovedExecution, TLAPS

Inside  == Locations \ {"idle", "waiting"}
Working == Inside \ {"claiming"}

(* Only the holder of the execution lock is past the lock.                   *)
LockHeld == \A p \in Processes : pc[p] \in Inside <=> lock = p

(* The place a process has reached and the recovery row of its Decision.     *)
PlaceAgrees(p) ==
    /\ pc[p] \in Working => cur[p] \in Decisions /\ phase[cur[p]] \in Phases
    /\ pc[p] = "precondition" => phase[cur[p]] = "execution-started"
    /\ pc[p] \in {"target-install", "target-install-returned",
                  "target-install-raised", "reconciling"} =>
           phase[cur[p]] = "target-install-started"
    /\ pc[p] = "begin-rollback" =>
           phase[cur[p]] \in {"target-install-started", "target-installed"}
    /\ pc[p] = "start-rollback" => phase[cur[p]] = "rollback-required"
    /\ pc[p] \in {"old-install", "old-install-returned"} =>
           phase[cur[p]] = "rollback-install-started"
    /\ pc[p] \in {"metadata", "restart", "validation"} =>
           phase[cur[p]] \in {"target-installed", "rollback-installed"}
    /\ pc[p] \in {"checkpoint", "complete"} => result[p] \in Outcomes

(* What is still unspent: nothing before the target installation is          *)
(* announced, the rollback permit until the rollback is announced, and a     *)
(* permit whose call is the very next step.                                  *)
PermitsLeft ==
    /\ \A d \in Decisions :
         /\ run[d] \in {"none", "claimed"} \/ phase[d] = "execution-started" =>
                installs[d] = [permit \in Permits |-> 0]
         /\ phase[d] \in {"target-install-started", "target-installed",
                          "rollback-required"} =>
                installs[d]["reinstall-old"] = 0
    /\ \A p \in Processes :
         /\ pc[p] = "target-install" => installs[cur[p]]["install-target"] = 0
         /\ pc[p] = "old-install" => installs[cur[p]]["reinstall-old"] = 0

IInv ==
    /\ TypeOK
    /\ LockHeld
    /\ \A p \in Processes : PlaceAgrees(p)
    /\ PermitsLeft
    /\ InstallsAtMostOnce
    /\ RowsAgree

(* The versions of a plan are versions.                                      *)
LEMMA PlanVersions ==
    \A d \in Decisions : OldVersion[d] \in Versions /\ TargetVersion[d] \in Versions
  BY ConstantsAssumption

(* A stored outcome is one of the five.                                      *)
LEMMA PendingOutcome ==
    ASSUME TypeOK, NEW d \in Decisions, pending[d] # None
    PROVE  pending[d] \in Outcomes
  BY DEF TypeOK

(* Spending a permit that was never used.                                    *)
LEMMA Spending ==
    ASSUME NEW f \in [Decisions -> [Permits -> Nat]], NEW d \in Decisions,
           NEW permit \in Permits, f[d][permit] = 0
    PROVE  LET g == [f EXCEPT ![d][permit] = @ + 1]
           IN  /\ g \in [Decisions -> [Permits -> Nat]]
               /\ g[d][permit] = 1
               /\ \A other \in Permits \ {permit} : g[d][other] = f[d][other]
               /\ \A e \in Decisions \ {d} : g[e] = f[e]
  OBVIOUS

(* A step of a pass that stores no outcome and calls no installer keeps the  *)
(* types.                                                                    *)
LEMMA PassTypes ==
    ASSUME TypeOK, NEW p \in Processes,
           UNCHANGED <<run, pending, outcome, handler, removed, due, package, lock, cur,
                       installs, returned, overtaken, crashes, drifts, edits>>,
           serving' \in {serving, package},
           \/ phase' = phase
           \/ \E next \in Phases : phase' = [phase EXCEPT ![cur[p]] = next],
           \E place \in Locations : pc' = [pc EXCEPT ![p] = place],
           \/ result' = result
           \/ \E status \in Outcomes \cup {None} : result' = [result EXCEPT ![p] = status]
    PROVE  TypeOK'
<1>1. phase' \in [Decisions -> Phases \cup {None}]
  BY DEF TypeOK
<1>2. pc' \in [Processes -> Locations] /\ result' \in [Processes -> Outcomes \cup {None}]
  BY DEF TypeOK
<1>3. package' \in Versions \cup {Unreadable} /\ serving' \in Versions \cup {Unreadable}
  BY DEF TypeOK
<1> QED
  BY <1>1, <1>2, <1>3 DEF TypeOK

LEMMA IInvInit == Init => IInv
  BY ConstantsAssumption DEF Init, TypeOK, RunStatuses, Phases, Outcomes, Handlers, Locations, Permits, IInv, LockHeld, PlaceAgrees, PermitsLeft, InstallsAtMostOnce, RowsAgree, Inside, Working

LEMMA IInvStep == IInv /\ [Next]_vars => IInv'
<1> SUFFICES ASSUME IInv, [Next]_vars PROVE IInv'
  OBVIOUS
<1> USE ConstantsAssumption
<1> USE DEF TypeOK, RunStatuses, Phases, Outcomes, Handlers, Locations, Permits, IInv, LockHeld, PlaceAgrees, PermitsLeft, InstallsAtMostOnce, RowsAgree, Inside, Working, database, host, process, environment
<1>1. ASSUME NEW p \in Processes, StartRunDue(p) PROVE IInv'
  BY <1>1 DEF StartRunDue, GoTo
<1>2. ASSUME NEW p \in Processes, AcquireLock(p) PROVE IInv'
  BY <1>2 DEF AcquireLock, GoTo
<1>3. ASSUME NEW p \in Processes, NEW d \in Decisions, ClaimPlan(p, d) PROVE IInv'
  <2>1. TypeOK'
    BY <1>3 DEF ClaimPlan, IsOldest, Claimable, UnderWay, GoTo
  <2>2. LockHeld'
    BY <1>3 DEF ClaimPlan, IsOldest, Claimable, UnderWay, GoTo
  <2>3. \A q \in Processes : PlaceAgrees(q)'
    BY <1>3 DEF ClaimPlan, IsOldest, Claimable, UnderWay, GoTo
  <2>4. PermitsLeft'
    BY <1>3 DEF ClaimPlan, IsOldest, Claimable, UnderWay, GoTo
  <2>5. InstallsAtMostOnce' /\ RowsAgree'
    BY <1>3 DEF ClaimPlan, IsOldest, Claimable, UnderWay, GoTo
  <2> QED
    BY <2>1, <2>2, <2>3, <2>4, <2>5
<1>4. ASSUME NEW p \in Processes, NEW d \in Decisions, RejectClaim(p, d) PROVE IInv'
  BY <1>4 DEF RejectClaim, IsOldest, Claimable
<1>5. ASSUME NEW p \in Processes, NEW d \in Decisions, ClaimInterrupted(p, d) PROVE IInv'
  BY <1>5 DEF ClaimInterrupted, IsOldest, Claimable, GoTo
<1>6. ASSUME NEW p \in Processes, EndPass(p) PROVE IInv'
  BY <1>6 DEF EndPass, GoTo
<1>7. ASSUME NEW p \in Processes, Resume(p) PROVE IInv'
  <2>1. cur[p] \in Decisions /\ phase[cur[p]] \in Phases
    BY <1>7 DEF Resume
  <2>2. CASE pending[cur[p]] # None
    <3>1. Decide(p, "complete", pending[cur[p]])
      BY <1>7, <2>2 DEF Resume
    <3>2. pending[cur[p]] \in Outcomes
      BY <2>1, <2>2, PendingOutcome
    <3> QED
      BY <1>7, <2>1, <3>1, <3>2 DEF Resume, Decide, Move, GoTo
  <2>3. CASE pending[cur[p]] = None
    <3> DEFINE place == EntryOf(phase[cur[p]])
               status == IF phase[cur[p]] = "rollback-install-started"
                         THEN "rollback-failed" ELSE None
    <3>1. Decide(p, place, status)
      BY <1>7, <2>3 DEF Resume
    <3>2. /\ place \in {"precondition", "reconciling", "start-rollback",
                        "metadata", "checkpoint"}
          /\ place = "precondition" => phase[cur[p]] = "execution-started"
          /\ place = "reconciling" => phase[cur[p]] = "target-install-started"
          /\ place = "start-rollback" => phase[cur[p]] = "rollback-required"
          /\ place = "metadata" =>
                 phase[cur[p]] \in {"target-installed", "rollback-installed"}
          /\ place = "checkpoint" => status = "rollback-failed"
          /\ status \in Outcomes \cup {None}
      BY <2>1 DEF EntryOf
    <3> HIDE DEF place, status
    <3>3. /\ pc' = [pc EXCEPT ![p] = place] /\ result' = [result EXCEPT ![p] = status]
          /\ pc[p] = "resuming"
          /\ UNCHANGED <<run, phase, pending, outcome, handler, removed, due, package,
                         serving, lock, cur, installs, returned, overtaken, crashes, drifts,
                         edits>>
      BY <1>7, <3>1 DEF Resume, Decide, Move, GoTo
    <3>4. TypeOK'
      BY <3>2, <3>3
    <3>5. LockHeld'
      BY <3>2, <3>3
    <3>6. \A q \in Processes : PlaceAgrees(q)'
      BY <2>1, <3>2, <3>3
    <3>7. PermitsLeft'
      BY <3>2, <3>3
    <3>8. InstallsAtMostOnce' /\ RowsAgree'
      BY <3>3
    <3> HIDE DEF IInv
    <3> QED
      BY <3>4, <3>5, <3>6, <3>7, <3>8 DEF IInv
  <2> QED
    BY <2>2, <2>3
<1>8. ASSUME NEW p \in Processes, CheckOldVersion(p) PROVE IInv'
  <2>1. ASSUME NEW status \in {"failed", "superseded"}, Decide(p, "checkpoint", status)
        PROVE  IInv'
    <3>1. /\ pc' = [pc EXCEPT ![p] = "checkpoint"] /\ result' = [result EXCEPT ![p] = status]
          /\ pc[p] = "precondition"
          /\ UNCHANGED <<run, phase, pending, outcome, handler, removed, due, package,
                         serving, lock, cur, installs, returned, overtaken, crashes, drifts,
                         edits>>
      BY <1>8, <2>1 DEF CheckOldVersion, Decide, Move, GoTo
    <3>2. TypeOK' /\ LockHeld'
      BY <3>1
    <3>3. \A q \in Processes : PlaceAgrees(q)'
      BY <3>1
    <3>4. PermitsLeft' /\ InstallsAtMostOnce' /\ RowsAgree'
      BY <3>1
    <3> QED
      BY <3>2, <3>3, <3>4
  <2>2. CASE SetPhase(p, "target-install-started", "target-install")
    <3>1. /\ cur[p] \in Decisions /\ phase[cur[p]] = "execution-started"
          /\ installs[cur[p]] = [permit \in Permits |-> 0]
      BY <1>8 DEF CheckOldVersion
    <3>2. installs[cur[p]]["install-target"] = 0 /\ installs[cur[p]]["reinstall-old"] = 0
      BY <3>1
    <3> QED
      BY <1>8, <2>2, <3>1, <3>2 DEF CheckOldVersion, SetPhase, GoTo
  <2> QED
    BY <1>8, <2>1, <2>2 DEF CheckOldVersion
<1>9. ASSUME NEW p \in Processes, InstallTarget(p) PROVE IInv'
  <2> DEFINE d == cur[p]
  <2>1. /\ d \in Decisions /\ phase[d] = "target-install-started"
        /\ installs[d]["install-target"] = 0
    BY <1>9 DEF InstallTarget
  <2>2. TargetVersion[d] \in Versions
    BY <2>1, PlanVersions
  <2>a. installs' = [installs EXCEPT ![d]["install-target"] = @ + 1]
    BY <1>9 DEF InstallTarget, Install
  <2>b. installs \in [Decisions -> [Permits -> Nat]] /\ "install-target" \in Permits
    OBVIOUS
  <2> HIDE DEF d, TypeOK, IInv
  <2>3. /\ installs' \in [Decisions -> [Permits -> Nat]]
        /\ installs'[d]["install-target"] = 1
        /\ installs'[d]["reinstall-old"] = installs[d]["reinstall-old"]
        /\ \A e \in Decisions \ {d} : installs'[e] = installs[e]
    BY <2>1, <2>a, <2>b, Spending
  <2> USE DEF TypeOK, IInv
  <2>4. TypeOK'
    BY <1>9, <2>2, <2>3 DEF InstallTarget, Install, AfterInstall, GoTo, d
  <2>5. LockHeld' /\ (\A q \in Processes : PlaceAgrees(q)')
    BY <1>9, <2>1 DEF InstallTarget, Install, GoTo, d
  <2>6. InstallsAtMostOnce' /\ RowsAgree'
    BY <1>9, <2>1, <2>3 DEF InstallTarget, Install
  <2>7. PermitsLeft'
    BY <1>9, <2>1, <2>3 DEF InstallTarget, Install, GoTo, d
  <2> QED
    BY <2>4, <2>5, <2>6, <2>7
<1>10. ASSUME NEW p \in Processes, RecordTarget(p) PROVE IInv'
  BY <1>10 DEF RecordTarget, SetPhase, GoTo
<1>11. ASSUME NEW p \in Processes, ObserveFailedInstall(p) PROVE IInv'
  <2>1. TypeOK'
    <3> HIDE DEF TypeOK, Locations, Phases, Outcomes
    <3> QED
      BY <1>11, PassTypes DEF ObserveFailedInstall, Readings, Decide, Move, GoTo, Locations, Phases, Outcomes
  <2>2. LockHeld'
    BY <1>11 DEF ObserveFailedInstall, Readings, Decide, Move, GoTo
  <2>3. \A q \in Processes : PlaceAgrees(q)'
    BY <1>11 DEF ObserveFailedInstall, Readings, Decide, Move, GoTo
  <2>4. PermitsLeft'
    BY <1>11 DEF ObserveFailedInstall, Readings, Decide, Move, GoTo
  <2>5. InstallsAtMostOnce' /\ RowsAgree'
    BY <1>11 DEF ObserveFailedInstall, Readings, Decide, Move, GoTo
  <2> QED
    BY <2>1, <2>2, <2>3, <2>4, <2>5
<1>12. ASSUME NEW p \in Processes, Reconcile(p) PROVE IInv'
  <2>1. TypeOK'
    <3> HIDE DEF TypeOK, Locations, Phases, Outcomes
    <3> QED
      BY <1>12, PassTypes DEF Reconcile, Readings, Decide, Move, SetPhase, GoTo, Locations, Phases, Outcomes
  <2>2. LockHeld'
    BY <1>12 DEF Reconcile, Readings, Decide, Move, SetPhase, GoTo
  <2>3. \A q \in Processes : PlaceAgrees(q)'
    BY <1>12 DEF Reconcile, Readings, Decide, Move, SetPhase, GoTo
  <2>4. PermitsLeft'
    BY <1>12 DEF Reconcile, Readings, Decide, Move, SetPhase, GoTo
  <2>5. InstallsAtMostOnce' /\ RowsAgree'
    BY <1>12 DEF Reconcile, Readings, Decide, Move, SetPhase, GoTo
  <2> QED
    BY <2>1, <2>2, <2>3, <2>4, <2>5
<1>13. ASSUME NEW p \in Processes, VerifyMetadata(p) PROVE IInv'
  <2>1. TypeOK'
    <3> HIDE DEF TypeOK, Locations, Phases, Outcomes
    <3> QED
      BY <1>13, PassTypes DEF VerifyMetadata, Readings, CheckFailed, RollingBack,
         ExpectedVersion, Move, GoTo, Locations, Phases, Outcomes
  <2>2. LockHeld'
    BY <1>13 DEF VerifyMetadata, Readings, CheckFailed, RollingBack,
       ExpectedVersion, Move, GoTo
  <2>3. \A q \in Processes : PlaceAgrees(q)'
    BY <1>13 DEF VerifyMetadata, Readings, CheckFailed, RollingBack,
       ExpectedVersion, Move, GoTo
  <2>4. PermitsLeft'
    BY <1>13 DEF VerifyMetadata, Readings, CheckFailed, RollingBack,
       ExpectedVersion, Move, GoTo
  <2>5. InstallsAtMostOnce' /\ RowsAgree'
    BY <1>13 DEF VerifyMetadata, Readings, CheckFailed, RollingBack,
       ExpectedVersion, Move, GoTo
  <2> QED
    BY <2>1, <2>2, <2>3, <2>4, <2>5
<1>14. ASSUME NEW p \in Processes, RestartService(p) PROVE IInv'
  <2>1. TypeOK'
    <3> HIDE DEF TypeOK, Locations, Phases, Outcomes
    <3> QED
      BY <1>14, PassTypes DEF RestartService, CheckFailed, RollingBack, Move, GoTo, Locations, Phases, Outcomes
  <2>2. LockHeld'
    BY <1>14 DEF RestartService, CheckFailed, RollingBack, Move, GoTo
  <2>3. \A q \in Processes : PlaceAgrees(q)'
    BY <1>14 DEF RestartService, CheckFailed, RollingBack, Move, GoTo
  <2>4. PermitsLeft'
    BY <1>14 DEF RestartService, CheckFailed, RollingBack, Move, GoTo
  <2>5. InstallsAtMostOnce' /\ RowsAgree'
    BY <1>14 DEF RestartService, CheckFailed, RollingBack, Move, GoTo
  <2> QED
    BY <2>1, <2>2, <2>3, <2>4, <2>5
<1>15. ASSUME NEW p \in Processes, Validate(p) PROVE IInv'
  <2>1. TypeOK'
    <3> HIDE DEF TypeOK, Locations, Phases, Outcomes
    <3> QED
      BY <1>15, PassTypes DEF Validate, CheckFailed, RollingBack, Move, GoTo, Locations, Phases, Outcomes
  <2>2. LockHeld'
    BY <1>15 DEF Validate, CheckFailed, RollingBack, Move, GoTo
  <2>3. \A q \in Processes : PlaceAgrees(q)'
    BY <1>15 DEF Validate, CheckFailed, RollingBack, Move, GoTo
  <2>4. PermitsLeft'
    BY <1>15 DEF Validate, CheckFailed, RollingBack, Move, GoTo
  <2>5. InstallsAtMostOnce' /\ RowsAgree'
    BY <1>15 DEF Validate, CheckFailed, RollingBack, Move, GoTo
  <2> QED
    BY <2>1, <2>2, <2>3, <2>4, <2>5
<1>16. ASSUME NEW p \in Processes, BeginRollback(p) PROVE IInv'
  BY <1>16 DEF BeginRollback, SetPhase, GoTo
<1>17. ASSUME NEW p \in Processes, StartRollbackInstall(p) PROVE IInv'
  <2>1. /\ cur[p] \in Decisions /\ phase[cur[p]] = "rollback-required"
        /\ installs[cur[p]]["reinstall-old"] = 0
    BY <1>17 DEF StartRollbackInstall
  <2>2. TypeOK' /\ InstallsAtMostOnce' /\ RowsAgree'
    BY <1>17, <2>1 DEF StartRollbackInstall, SetPhase, GoTo
  <2>3. LockHeld' /\ (\A q \in Processes : PlaceAgrees(q)')
    BY <1>17, <2>1 DEF StartRollbackInstall, SetPhase, GoTo
  <2>4. PermitsLeft'
    BY <1>17, <2>1 DEF StartRollbackInstall, SetPhase, GoTo
  <2> QED
    BY <2>2, <2>3, <2>4
<1>18. ASSUME NEW p \in Processes, ReinstallOld(p) PROVE IInv'
  <2> DEFINE d == cur[p]
  <2>1. /\ d \in Decisions /\ phase[d] = "rollback-install-started"
        /\ installs[d]["reinstall-old"] = 0
    BY <1>18 DEF ReinstallOld
  <2>2. OldVersion[d] \in Versions
    BY <2>1, PlanVersions
  <2>a. installs' = [installs EXCEPT ![d]["reinstall-old"] = @ + 1]
    BY <1>18 DEF ReinstallOld, Install
  <2>b. installs \in [Decisions -> [Permits -> Nat]] /\ "reinstall-old" \in Permits
    OBVIOUS
  <2> HIDE DEF d, TypeOK, IInv
  <2>3. /\ installs' \in [Decisions -> [Permits -> Nat]]
        /\ installs'[d]["reinstall-old"] = 1
        /\ installs'[d]["install-target"] = installs[d]["install-target"]
        /\ \A e \in Decisions \ {d} : installs'[e] = installs[e]
    BY <2>1, <2>a, <2>b, Spending
  <2> USE DEF TypeOK, IInv
  <2>4. TypeOK'
    BY <1>18, <2>2, <2>3 DEF ReinstallOld, Install, AfterInstall, GoTo, d
  <2>5. LockHeld' /\ (\A q \in Processes : PlaceAgrees(q)')
    BY <1>18, <2>1 DEF ReinstallOld, Install, GoTo, d
  <2>6. InstallsAtMostOnce' /\ RowsAgree'
    BY <1>18, <2>1, <2>3 DEF ReinstallOld, Install
  <2>7. PermitsLeft'
    BY <1>18, <2>1, <2>3 DEF ReinstallOld, Install, GoTo, d
  <2> QED
    BY <2>4, <2>5, <2>6, <2>7
<1>19. ASSUME NEW p \in Processes, RecordRestored(p) PROVE IInv'
  BY <1>19 DEF RecordRestored, SetPhase, GoTo
<1>20. ASSUME NEW p \in Processes, Checkpoint(p) PROVE IInv'
  BY <1>20 DEF Checkpoint, GoTo
<1>21. ASSUME NEW p \in Processes, Complete(p) PROVE IInv'
  BY <1>21 DEF Complete, RunStatusOf, GoTo
<1>22. ASSUME NEW p \in Processes, Crash(p) PROVE IInv'
  BY <1>22 DEF Crash, GoTo
<1>23. ASSUME NEW d \in Decisions, Approve(d) PROVE IInv'
  BY <1>23 DEF Approve
<1>24. ASSUME NEW t \in Tasks, UpdateTask(t) PROVE IInv'
  BY <1>24 DEF UpdateTask
<1>25. ASSUME NEW t \in Tasks, RemoveTask(t) PROVE IInv'
  BY <1>25 DEF RemoveTask
<1>26. ASSUME PackageDrift PROVE IInv'
  BY <1>26 DEF PackageDrift
<1>27. ASSUME UNCHANGED vars PROVE IInv'
  BY <1>27 DEF vars
<1> QED
  BY <1>1, <1>2, <1>3, <1>4, <1>5, <1>6, <1>7, <1>8, <1>9, <1>10, <1>11,
     <1>12, <1>13, <1>14, <1>15, <1>16, <1>17, <1>18, <1>19, <1>20, <1>21,
     <1>22, <1>23, <1>24, <1>25, <1>26, <1>27 DEF Next, Step, Claim,
     Surroundings

(* The strengthened invariant holds in every reachable state.                *)
LEMMA IInvHolds == Spec => []IInv
<1> QED
  BY IInvInit, IInvStep, PTL DEF Spec

(* Type correctness of the execution protocol.                               *)
THEOREM TypeCorrect == Spec => []TypeOK
<1>1. IInv => TypeOK
  BY DEF IInv
<1> QED
  BY <1>1, IInvHolds, PTL

(* No approved plan installs its target twice or re-installs its old version *)
(* twice, whatever crashes, restarts and competing run-due processes do to   *)
(* _execute_plan_uncheckpointed.                                             *)
THEOREM AtMostOnceInstalled == Spec => []InstallsAtMostOnce
<1>1. IInv => InstallsAtMostOnce
  BY DEF IInv
<1> QED
  BY <1>1, IInvHolds, PTL

(* The rows that _claim_next_approved_plan, _checkpoint_execution_outcome    *)
(* and _complete_execution leave in runs, pi_mcp_execution_recovery and      *)
(* decision_execution_outcomes always agree.                                 *)
THEOREM RowsAlwaysAgree == Spec => []RowsAgree
<1>1. IInv => RowsAgree
  BY DEF IInv
<1> QED
  BY <1>1, IInvHolds, PTL

(* Only the two installations and a change made outside RunTasks touch the   *)
(* package.                                                                  *)
LEMMA QuietSteps ==
    ASSUME NEW p \in Processes, Step(p) \/ Crash(p),
           ~InstallTarget(p), ~ReinstallOld(p)
    PROVE  package' = package
<1> USE DEF database, host, process, environment
<1>1. CASE StartRunDue(p) \/ AcquireLock(p) \/ Claim(p) \/ EndPass(p) \/ Crash(p)
  BY <1>1 DEF StartRunDue, AcquireLock, Claim, ClaimPlan, RejectClaim,
     ClaimInterrupted, EndPass, Crash
<1>2. CASE Resume(p) \/ CheckOldVersion(p) \/ ObserveFailedInstall(p) \/ Reconcile(p)
  BY <1>2 DEF Resume, CheckOldVersion, ObserveFailedInstall, Reconcile, Decide, Move,
     SetPhase
<1>3. CASE VerifyMetadata(p) \/ RestartService(p) \/ Validate(p)
  BY <1>3 DEF VerifyMetadata, RestartService, Validate, CheckFailed, Move
<1>4. CASE \/ RecordTarget(p) \/ BeginRollback(p) \/ StartRollbackInstall(p)
           \/ RecordRestored(p) \/ Checkpoint(p) \/ Complete(p)
  BY <1>4 DEF RecordTarget, BeginRollback, StartRollbackInstall, RecordRestored,
     SetPhase, Checkpoint, Complete
<1> QED
  BY <1>1, <1>2, <1>3, <1>4 DEF Step

(* While an approved plan is under way the package changes only to the       *)
(* version whose installation its recovery row had announced beforehand.     *)
THEOREM WriteAhead == Spec => PackageWriteAhead
<1> DEFINE Announced ==
      package' # package /\ UnderWay # {}
          => \E d \in Decisions : AnnouncedChange(d)
<1>1. IInv /\ [Next]_vars => [Announced]_vars
  <2> SUFFICES ASSUME IInv, Next PROVE Announced
    BY DEF vars
  <2>1. ASSUME NEW p \in Processes, InstallTarget(p) PROVE Announced
    <3>1. cur[p] \in Decisions /\ phase[cur[p]] = "target-install-started"
      BY <2>1 DEF InstallTarget, IInv, PlaceAgrees, Working, Inside, Locations
    <3>2. package' \in {package, TargetVersion[cur[p]], Unreadable}
      BY <2>1 DEF InstallTarget, Install, AfterInstall
    <3> QED
      BY <3>1, <3>2 DEF AnnouncedChange
  <2>2. ASSUME NEW p \in Processes, ReinstallOld(p) PROVE Announced
    <3>1. cur[p] \in Decisions /\ phase[cur[p]] = "rollback-install-started"
      BY <2>2 DEF ReinstallOld, IInv, PlaceAgrees, Working, Inside, Locations
    <3>2. package' \in {package, OldVersion[cur[p]], Unreadable}
      BY <2>2 DEF ReinstallOld, Install, AfterInstall
    <3> QED
      BY <3>1, <3>2 DEF AnnouncedChange
  <2>3. ASSUME NEW p \in Processes, Step(p) \/ Crash(p) PROVE Announced
    BY <2>1, <2>2, <2>3, QuietSteps
  <2>4. CASE Surroundings
    BY <2>4 DEF Surroundings, Approve, UpdateTask, RemoveTask, PackageDrift, host
  <2> QED
    BY <2>3, <2>4 DEF Next
<1> QED
  BY <1>1, IInvHolds, PTL DEF Spec, PackageWriteAhead
-----------------------------------------------------------------------------
(***************************************************************************)
(* The order in which plans are claimed.                                     *)
(***************************************************************************)
(* An approval that a younger plan under way has passed over belongs to      *)
(* another Task, which is at another handler or was moved back since.        *)
PassedOver ==
    \A e \in UnderWay, d \in Decisions :
        run[d] = "claimed" /\ d < e =>
            /\ TaskOf[d] # TaskOf[e]
            /\ handler[TaskOf[d]] = "other" \/ TaskOf[d] \in returned

(* A pass works on the oldest plan under way.                                *)
OldestFirst ==
    \A p \in Processes : pc[p] \in Working => \A e \in UnderWay : cur[p] <= e

(* Of two plans under way the older one was claimed later.                   *)
YoungerIsOvertaken == \A d, e \in UnderWay : d < e => e \in overtaken

OrderInv == PassedOver /\ OldestFirst /\ OverlapNeedsReturn /\ YoungerIsOvertaken

LEMMA OrderInit == Init => OrderInv
  BY DEF Init, OrderInv, PassedOver, OldestFirst, OverlapNeedsReturn, YoungerIsOvertaken,
     UnderWay, Working, Inside

(* Steps that claim nothing, edit no Task and approve nothing.               *)
LEMMA OrderKept ==
    ASSUME IInv, OrderInv, IInv',
           UNCHANGED <<handler, returned, overtaken>>,
           \A d \in Decisions : phase'[d] # None => phase[d] # None,
           \A d \in Decisions : run'[d] = "claimed" => run[d] = "claimed",
           \A p \in Processes : pc'[p] \in Working =>
               pc[p] \in Working /\ cur'[p] = cur[p]
    PROVE  OrderInv'
<1>1. UnderWay' \subseteq UnderWay
  BY DEF UnderWay
<1> QED
  BY <1>1 DEF OrderInv, PassedOver, OldestFirst, OverlapNeedsReturn, YoungerIsOvertaken

(* The steps of a pass on the Decision it has claimed, up to its completion. *)
Work(p) ==
    \/ Resume(p) \/ CheckOldVersion(p) \/ InstallTarget(p) \/ RecordTarget(p)
    \/ ObserveFailedInstall(p) \/ Reconcile(p) \/ VerifyMetadata(p)
    \/ RestartService(p) \/ Validate(p) \/ BeginRollback(p)
    \/ StartRollbackInstall(p) \/ ReinstallOld(p) \/ RecordRestored(p) \/ Checkpoint(p)

LEMMA WorkLeaves ==
    ASSUME TypeOK, NEW p \in Processes, Work(p)
    PROVE  /\ pc[p] \in Working
           /\ UNCHANGED <<run, outcome, handler, removed, due, lock, cur, returned,
                          overtaken>>
           /\ \A q \in Processes \ {p} : pc'[q] = pc[q] /\ result'[q] = result[q]
           /\ \A d \in Decisions \ {cur[p]} :
                  phase'[d] = phase[d] /\ pending'[d] = pending[d] /\ installs'[d] = installs[d]
           /\ \A d \in Decisions : phase[d] = None => phase'[d] = None
<1> USE DEF TypeOK, Working, Inside, Locations, database, host, process, environment, GoTo
<1>1. CASE Resume(p)
  BY <1>1 DEF Resume, Decide, Move
<1>2. CASE CheckOldVersion(p)
  BY <1>2 DEF CheckOldVersion, Decide, Move, SetPhase
<1>3. CASE InstallTarget(p)
  BY <1>3 DEF InstallTarget, Install
<1>4. CASE RecordTarget(p) \/ BeginRollback(p) \/ StartRollbackInstall(p) \/ RecordRestored(p)
  BY <1>4 DEF RecordTarget, BeginRollback, StartRollbackInstall, RecordRestored, SetPhase
<1>5. CASE ObserveFailedInstall(p) \/ Reconcile(p)
  BY <1>5 DEF ObserveFailedInstall, Reconcile, Decide, Move, SetPhase
<1>6. CASE VerifyMetadata(p) \/ RestartService(p) \/ Validate(p)
  BY <1>6 DEF VerifyMetadata, RestartService, Validate, CheckFailed, Move
<1>7. CASE ReinstallOld(p)
  BY <1>7 DEF ReinstallOld, Install
<1>8. CASE Checkpoint(p)
  BY <1>8 DEF Checkpoint
<1> QED
  BY <1>1, <1>2, <1>3, <1>4, <1>5, <1>6, <1>7, <1>8 DEF Work

LEMMA OrderStep == IInv /\ OrderInv /\ [Next]_vars /\ IInv' => OrderInv'
<1> SUFFICES ASSUME IInv, OrderInv, [Next]_vars, IInv' PROVE OrderInv'
  OBVIOUS
<1>a. TypeOK /\ RowsAgree /\ TypeOK' /\ LockHeld /\ LockHeld'
  BY DEF IInv
<1>b. Decisions \subseteq Nat /\ TaskOf \in [Decisions -> Tasks] /\ None \notin Processes
  BY ConstantsAssumption
<1>1. ASSUME NEW p \in Processes, StartRunDue(p) \/ AcquireLock(p) \/ EndPass(p)
      PROVE  OrderInv'
  BY <1>1, <1>a, OrderKept
     DEF StartRunDue, AcquireLock, EndPass, GoTo, TypeOK, Working, Inside, database, environment
<1>2. ASSUME NEW p \in Processes, NEW d \in Decisions, ClaimPlan(p, d) PROVE OrderInv'
  <2>1. /\ d \in Claimable /\ (\A e \in Claimable : d <= e)
        /\ run[d] = "claimed" /\ run' = [run EXCEPT ![d] = "running"]
        /\ phase' = [phase EXCEPT ![d] = "execution-started"]
        /\ handler[TaskOf[d]] = "pi_mcp_adapter"
        /\ cur' = [cur EXCEPT ![p] = d] /\ pc' = [pc EXCEPT ![p] = "resuming"]
        /\ overtaken' = overtaken \cup UnderWay
        /\ UNCHANGED <<handler, returned>> /\ pc[p] = "claiming"
    BY <1>2 DEF ClaimPlan, IsOldest, PlanAccepted, GoTo
  <2>2. \A e \in UnderWay : d < e
    BY <2>1, <1>a, <1>b DEF UnderWay, Claimable, RowsAgree
  <2>3. UnderWay' = UnderWay \cup {d}
    BY <2>1, <1>a, ConstantsAssumption DEF UnderWay, TypeOK, Phases
  <2>4. \A e \in Decisions : run[e] = "claimed" /\ e < d => handler[TaskOf[e]] = "other"
    BY <2>1, <1>a, <1>b DEF Claimable, TypeOK, Handlers
  <2>5. PassedOver'
    BY <2>1, <2>3, <2>4, <1>a, <1>b DEF PassedOver, OrderInv, TypeOK
  <2>6. \A q \in Processes : pc'[q] \in Working => cur'[q] = d
    BY <2>1, <1>a, <1>b DEF LockHeld, Working, Inside, Locations, TypeOK
  <2>7. OldestFirst'
    BY <2>2, <2>3, <2>6, <1>b DEF OldestFirst, UnderWay
  <2>8. OverlapNeedsReturn'
    <3> SUFFICES ASSUME NEW x \in UnderWay', NEW y \in UnderWay', x < y
                 PROVE  TaskOf[x] \in returned /\ TaskOf[x] # TaskOf[y]
      BY <2>1 DEF OverlapNeedsReturn
    <3>1. UnderWay \subseteq Nat /\ d \in Nat
      BY <1>b DEF UnderWay
    <3>2. x # y /\ y # d
      BY <2>2, <2>3, <3>1
    <3>3. CASE x = d
      BY <2>1, <2>3, <3>2, <3>3 DEF OrderInv, PassedOver
    <3>4. CASE x \in UnderWay
      BY <2>3, <3>2, <3>4 DEF OrderInv, OverlapNeedsReturn
    <3> QED
      BY <2>3, <3>3, <3>4
  <2>9. YoungerIsOvertaken'
    <3> SUFFICES ASSUME NEW x \in UnderWay', NEW y \in UnderWay', x < y
                 PROVE  y \in overtaken'
      BY DEF YoungerIsOvertaken
    <3>1. y \in UnderWay
      BY <2>2, <2>3, <1>b DEF UnderWay
    <3> QED
      BY <2>1, <3>1
  <2> QED
    BY <2>5, <2>7, <2>8, <2>9 DEF OrderInv
<1>3. ASSUME NEW p \in Processes, NEW d \in Decisions, RejectClaim(p, d) PROVE OrderInv'
  BY <1>3, <1>a, OrderKept DEF RejectClaim, TypeOK, process, environment
<1>4. ASSUME NEW p \in Processes, NEW d \in Decisions, ClaimInterrupted(p, d)
      PROVE  OrderInv'
  <2>1. /\ \A e \in Claimable : d <= e
        /\ cur' = [cur EXCEPT ![p] = d] /\ pc' = [pc EXCEPT ![p] = "resuming"]
        /\ UNCHANGED <<run, phase, handler, returned, overtaken>> /\ pc[p] = "claiming"
    BY <1>4 DEF ClaimInterrupted, IsOldest, GoTo, environment, database
  <2>2. \A e \in UnderWay : d <= e
    BY <2>1, <1>a DEF UnderWay, Claimable, RowsAgree
  <2>3. \A q \in Processes : pc'[q] \in Working => cur'[q] = d
    BY <2>1, <1>a, <1>b DEF LockHeld, Working, Inside, Locations, TypeOK
  <2> QED
    BY <2>1, <2>2, <2>3
       DEF OrderInv, PassedOver, OldestFirst, OverlapNeedsReturn, YoungerIsOvertaken, UnderWay
<1>5. ASSUME NEW p \in Processes, Work(p) PROVE OrderInv'
  BY <1>5, <1>a, WorkLeaves, OrderKept
<1>6. ASSUME NEW p \in Processes, Complete(p) \/ Crash(p) PROVE OrderInv'
  BY <1>6, <1>a, OrderKept
     DEF Complete, Crash, RunStatusOf, GoTo, TypeOK, Working, Inside, database, environment
<1>7. ASSUME NEW d \in Decisions, Approve(d) PROVE OrderInv'
  BY <1>7, <1>a, <1>b
     DEF Approve, OrderInv, PassedOver, OldestFirst, OverlapNeedsReturn, YoungerIsOvertaken,
         UnderWay, RowsAgree, TypeOK, process, environment
<1>8. ASSUME NEW t \in Tasks, UpdateTask(t) PROVE OrderInv'
  BY <1>8, <1>a, <1>b
     DEF UpdateTask, OrderInv, PassedOver, OldestFirst, OverlapNeedsReturn,
         YoungerIsOvertaken, UnderWay, TypeOK, Handlers, process
<1>9. ASSUME NEW t \in Tasks, RemoveTask(t) PROVE OrderInv'
  BY <1>9, <1>a, OrderKept DEF RemoveTask, process, environment
<1>10. CASE PackageDrift \/ UNCHANGED vars
  BY <1>10, <1>a, OrderKept DEF PackageDrift, vars, database, process
<1> QED
  BY <1>1, <1>2, <1>3, <1>4, <1>5, <1>6, <1>7, <1>8, <1>9, <1>10
     DEF Next, Step, Claim, Surroundings, Work

LEMMA OrderHolds == Spec => [](IInv /\ OrderInv)
<1> QED
  BY IInvInit, IInvStep, OrderInit, OrderStep, PTL DEF Spec

(* Plans of one Task never overlap, and plans of two Tasks overlap only      *)
(* after the older one's Task came back: _claim_next_approved_plan keeps the *)
(* order whatever dies and whoever edits a Task.                             *)
THEOREM PlansOverlapOnlyByReturn == Spec => []OverlapNeedsReturn
<1>1. OrderInv => OverlapNeedsReturn
  BY DEF OrderInv
<1> QED
  BY <1>1, OrderHolds, PTL
-----------------------------------------------------------------------------
(***************************************************************************)
(* What a stored phase and a checkpointed outcome say of the host.           *)
(***************************************************************************)
(* Another plan has made an installation.                                    *)
OthersInstalled(d) ==
    \E other \in Decisions \ {d}, permit \in Permits : installs[other][permit] > 0

TargetReached(d) == installs[d]["install-target"] = 1 \/ OthersInstalled(d)

PhaseIsTrue(d) ==
    /\ phase[d] # None => d \notin ManualOnly
    /\ phase[d] = "target-install-started" /\ installs[d]["install-target"] = 0 =>
           package = OldVersion[d] \/ OthersInstalled(d)
    /\ phase[d] = "target-installed" => TargetReached(d)
    /\ phase[d] = "rollback-installed" => installs[d]["reinstall-old"] = 1

(* What an outcome must have spent.                                          *)
Earned(d, status) ==
    /\ status = "completed" => installs[d]["reinstall-old"] = 0 /\ TargetReached(d)
    /\ status = "rolled-back" => installs[d]["reinstall-old"] = 1
    /\ status \in {"failed", "superseded"} => installs[d] = [permit \in Permits |-> 0]

(* What it says of the host.                                                 *)
Shown(d, status) ==
    /\ status = "completed" => ServedAt(TargetVersion[d])
    /\ status = "rolled-back" => ServedAt(OldVersion[d])

PlaceIsTrue(p) ==
    /\ pc[p] \in Working \ {"resuming", "complete"} => pending[cur[p]] = None
    /\ pc[p] = "complete" => pending[cur[p]] = result[p]
    /\ pc[p] = "target-install-returned" => installs[cur[p]]["install-target"] = 1
    /\ pc[p] = "old-install-returned" => installs[cur[p]]["reinstall-old"] = 1
    /\ pc[p] = "restart" => package = ExpectedVersion(p)
    /\ pc[p] = "validation" => ServedAt(ExpectedVersion(p))
    /\ pc[p] = "checkpoint" => Earned(cur[p], result[p]) /\ Shown(cur[p], result[p])

DecisionIsTrue(d) ==
    /\ PhaseIsTrue(d)
    /\ Earned(d, pending[d])
    /\ Shown(d, pending[d]) \/ d \in overtaken

TruthInv ==
    /\ \A d \in Decisions : DecisionIsTrue(d)
    /\ \A p \in Processes : PlaceIsTrue(p)

LEMMA TruthInit == Init => TruthInv
<1> SUFFICES ASSUME Init PROVE TruthInv
  OBVIOUS
<1>1. None \notin Outcomes /\ None \notin Phases
  BY ConstantsAssumption
<1>2. \A d \in Decisions : DecisionIsTrue(d)
  BY <1>1 DEF Init, DecisionIsTrue, PhaseIsTrue, Earned, Shown, Outcomes, Phases
<1>3. \A p \in Processes : PlaceIsTrue(p)
  BY DEF Init, PlaceIsTrue, Working, Inside
<1> QED
  BY <1>2, <1>3 DEF TruthInv

(* Steps away from the host: the rows of a plan stay or go, a plan begins,   *)
(* and no process goes on inside its execution.                              *)
LEMMA TruthAway ==
    ASSUME TruthInv,
           UNCHANGED <<package, serving, installs>>, overtaken \subseteq overtaken',
           \A d \in Decisions :
             /\ phase'[d] = "execution-started" => d \notin ManualOnly
             /\ phase'[d] \in {phase[d], None, "execution-started"}
             /\ pending'[d] \in {pending[d], None},
           \A p \in Processes : pc'[p] \in Working =>
             \/ pc'[p] = "resuming"
             \/ /\ pc'[p] = pc[p] /\ cur'[p] = cur[p] /\ result'[p] = result[p]
                /\ phase'[cur[p]] = phase[cur[p]] /\ pending'[cur[p]] = pending[cur[p]]
    PROVE  TruthInv'
<1>0. None \notin Outcomes /\ None \notin Phases
  BY ConstantsAssumption
<1>1. ASSUME NEW d \in Decisions PROVE DecisionIsTrue(d)'
  <2>1. DecisionIsTrue(d)
    BY DEF TruthInv
  <2>2. PhaseIsTrue(d)'
    BY <1>0, <2>1 DEF DecisionIsTrue, PhaseIsTrue, TargetReached, OthersInstalled, Phases
  <2>3. Earned(d, pending[d])'
    BY <1>0, <2>1 DEF DecisionIsTrue, Earned, TargetReached, OthersInstalled, Outcomes
  <2>4. Shown(d, pending[d])' \/ d \in overtaken'
    <3>1. CASE d \in overtaken
      BY <3>1
    <3>2. CASE Shown(d, pending[d])
      BY <1>0, <3>2 DEF Shown, ServedAt, Outcomes
    <3> QED
      BY <2>1, <3>1, <3>2 DEF DecisionIsTrue
  <2> QED
    BY <2>2, <2>3, <2>4 DEF DecisionIsTrue
<1>2. ASSUME NEW p \in Processes PROVE PlaceIsTrue(p)'
  <2>1. CASE pc'[p] \notin Working \ {"resuming"}
    BY <2>1 DEF PlaceIsTrue, Working, Inside, Locations
  <2>2. CASE pc'[p] \in Working \ {"resuming"}
    <3>1. /\ pc'[p] = pc[p] /\ cur'[p] = cur[p] /\ result'[p] = result[p]
          /\ phase'[cur[p]] = phase[cur[p]] /\ pending'[cur[p]] = pending[cur[p]]
      BY <2>2
    <3>2. PlaceIsTrue(p)
      BY DEF TruthInv
    <3> QED
      BY <3>1, <3>2 DEF PlaceIsTrue, ExpectedVersion, RollingBack, ServedAt, Earned, Shown,
         TargetReached, OthersInstalled
  <2> QED
    BY <2>1, <2>2
<1> QED
  BY <1>1, <1>2 DEF TruthInv

(* During a step of p nobody else is inside, and what p works on is a row.   *)
LEMMA AtWork ==
    ASSUME IInv, OrderInv, NEW p \in Processes, Work(p)
    PROVE  /\ cur[p] \in Decisions /\ phase[cur[p]] \in Phases /\ cur[p] \in UnderWay
           /\ run[cur[p]] = "running"
           /\ \A q \in Processes \ {p} : pc'[q] \notin Working
           /\ \A e \in UnderWay \ {cur[p]} : cur[p] < e /\ e \in overtaken
<1>1. TypeOK /\ LockHeld /\ PlaceAgrees(p) /\ RowsAgree
  BY DEF IInv
<1>2. None \notin Phases /\ Decisions \subseteq Nat /\ None \notin Processes
  BY ConstantsAssumption
<1>3. pc[p] \in Working /\ (\A q \in Processes \ {p} : pc'[q] = pc[q])
  BY <1>1, WorkLeaves
<1>4. cur[p] \in Decisions /\ phase[cur[p]] \in Phases /\ cur[p] \in UnderWay
  BY <1>1, <1>2, <1>3 DEF PlaceAgrees, UnderWay
<1>5. run[cur[p]] = "running"
  BY <1>1, <1>4 DEF RowsAgree, UnderWay
<1>6. \A q \in Processes \ {p} : pc'[q] \notin Working
  BY <1>1, <1>2, <1>3 DEF LockHeld, Working, Inside, Locations
<1>7. ASSUME NEW e \in UnderWay \ {cur[p]} PROVE cur[p] < e /\ e \in overtaken
  <2>1. cur[p] <= e
    BY <1>3 DEF OrderInv, OldestFirst
  <2>2. cur[p] \in Nat /\ e \in Nat /\ cur[p] # e
    BY <1>2, <1>4 DEF UnderWay
  <2>3. cur[p] < e
    BY <2>1, <2>2
  <2> QED
    BY <1>4, <2>3 DEF OrderInv, YoungerIsOvertaken
<1> QED
  BY <1>4, <1>5, <1>6, <1>7

(* Only an installation changes the package and only a restart what is       *)
(* served; each of them spends or has spent a permit of the plan at work.    *)
LEMMA WorkOnHost ==
    ASSUME IInv, IInv', NEW p \in Processes, Work(p)
    PROVE  /\ \A d \in Decisions, permit \in Permits :
                 /\ installs[d][permit] > 0 => installs'[d][permit] > 0
                 /\ installs[d][permit] = 1 => installs'[d][permit] = 1
           /\ package' # package => \E permit \in Permits : installs'[cur[p]][permit] > 0
           /\ package' # package \/ serving' # serving =>
                 pc[p] \in {"target-install", "old-install", "restart"}
<1>1. TypeOK /\ TypeOK' /\ InstallsAtMostOnce' /\ PlaceAgrees(p) /\ PermitsLeft
  BY DEF IInv
<1>2. CASE InstallTarget(p)
  <2>1. /\ cur[p] \in Decisions /\ pc[p] = "target-install"
        /\ installs' = [installs EXCEPT ![cur[p]]["install-target"] = @ + 1]
        /\ installs[cur[p]]["install-target"] = 0
    BY <1>1, <1>2
       DEF InstallTarget, Install, PlaceAgrees, PermitsLeft, Working, Inside, Locations
  <2>2. /\ installs' \in [Decisions -> [Permits -> Nat]]
        /\ installs'[cur[p]]["install-target"] = 1
        /\ installs'[cur[p]]["reinstall-old"] = installs[cur[p]]["reinstall-old"]
        /\ \A e \in Decisions \ {cur[p]} : installs'[e] = installs[e]
    BY <1>1, <2>1, Spending DEF TypeOK, Permits
  <2> QED
    BY <2>1, <2>2 DEF Permits
<1>3. CASE ReinstallOld(p)
  <2>1. /\ cur[p] \in Decisions /\ pc[p] = "old-install"
        /\ installs' = [installs EXCEPT ![cur[p]]["reinstall-old"] = @ + 1]
        /\ installs[cur[p]]["reinstall-old"] = 0
    BY <1>1, <1>3
       DEF ReinstallOld, Install, PlaceAgrees, PermitsLeft, Working, Inside, Locations
  <2>2. /\ installs' \in [Decisions -> [Permits -> Nat]]
        /\ installs'[cur[p]]["reinstall-old"] = 1
        /\ installs'[cur[p]]["install-target"] = installs[cur[p]]["install-target"]
        /\ \A e \in Decisions \ {cur[p]} : installs'[e] = installs[e]
    BY <1>1, <2>1, Spending DEF TypeOK, Permits
  <2> QED
    BY <2>1, <2>2 DEF Permits
<1>4. CASE RestartService(p)
  BY <1>4 DEF RestartService, CheckFailed, Move
<1>5. CASE Resume(p) \/ CheckOldVersion(p) \/ ObserveFailedInstall(p) \/ Reconcile(p)
  BY <1>5 DEF Resume, CheckOldVersion, ObserveFailedInstall, Reconcile, Decide, Move,
     SetPhase, host
<1>6. CASE VerifyMetadata(p) \/ Validate(p)
  BY <1>6 DEF VerifyMetadata, Validate, CheckFailed, Move
<1>7. CASE \/ RecordTarget(p) \/ BeginRollback(p) \/ StartRollbackInstall(p)
           \/ RecordRestored(p) \/ Checkpoint(p)
  BY <1>7 DEF RecordTarget, BeginRollback, StartRollbackInstall, RecordRestored,
     SetPhase, Checkpoint, host
<1> QED
  BY <1>2, <1>3, <1>4, <1>5, <1>6, <1>7 DEF Work

(* What is true of the other plans under way.                                *)
LEMMA WorkBesideOthers ==
    ASSUME IInv, IInv', OrderInv, TruthInv, NEW p \in Processes, Work(p),
           NEW d \in Decisions, d # cur[p]
    PROVE  DecisionIsTrue(d)'
<1>1. /\ phase'[d] = phase[d] /\ pending'[d] = pending[d] /\ installs'[d] = installs[d]
      /\ overtaken' = overtaken
  BY WorkLeaves DEF IInv
<1>2. DecisionIsTrue(d) /\ RowsAgree /\ cur[p] \in Decisions
  BY AtWork DEF TruthInv, IInv
<1>3. OthersInstalled(d) => OthersInstalled(d)'
  BY WorkOnHost DEF OthersInstalled
<1>4. package' # package => OthersInstalled(d)'
  BY <1>2, WorkOnHost DEF OthersInstalled
<1>5. PhaseIsTrue(d)'
  BY <1>1, <1>2, <1>3, <1>4 DEF DecisionIsTrue, PhaseIsTrue, TargetReached
<1>6. Earned(d, pending[d])'
  BY <1>1, <1>2, <1>3 DEF DecisionIsTrue, Earned, TargetReached
<1>7. Shown(d, pending[d])' \/ d \in overtaken'
  <2>1. CASE d \in UnderWay
    BY <1>1, <2>1, AtWork
  <2>2. CASE d \notin UnderWay
    <3>1. pending[d] = None
      BY <1>2, <2>2 DEF RowsAgree, UnderWay
    <3>2. None \notin Outcomes
      BY ConstantsAssumption
    <3> QED
      BY <1>1, <3>1, <3>2 DEF Shown, Outcomes
  <2> QED
    BY <2>1, <2>2
<1> QED
  BY <1>5, <1>6, <1>7 DEF DecisionIsTrue

(* What a step does not store stays true of the plan at work: its rows are   *)
(* as they were and nothing was checkpointed.                                *)
LEMMA OwnRowsStay ==
    ASSUME NEW d \in Decisions, DecisionIsTrue(d), pending[d] = None,
           UNCHANGED <<phase, pending, installs, package>>
    PROVE  DecisionIsTrue(d)'
<1>1. None \notin Outcomes
  BY ConstantsAssumption
<1> QED
  BY <1>1 DEF DecisionIsTrue, PhaseIsTrue, Earned, Shown, TargetReached, OthersInstalled, Outcomes

LEMMA OwnPlace ==
    ASSUME IInv, IInv', OrderInv, TruthInv, NEW p \in Processes, Work(p),
           NEW d \in Decisions, d = cur[p]
    PROVE  DecisionIsTrue(d)' /\ PlaceIsTrue(p)'
<1>0. d = cur[p]
  OBVIOUS
<1>1. /\ TypeOK /\ TypeOK' /\ PlaceAgrees(p) /\ PermitsLeft /\ InstallsAtMostOnce'
      /\ installs \in [Decisions -> [Permits -> Nat]]
  BY DEF IInv, TypeOK
<1>2. /\ d \in Decisions /\ phase[d] \in Phases /\ DecisionIsTrue(d) /\ PlaceIsTrue(p)
      /\ cur' = cur /\ cur'[p] = d /\ pc[p] \in Working
  BY <1>0, <1>1, AtWork, WorkLeaves DEF TruthInv
<1>3. /\ None \notin Outcomes /\ None \notin Phases
      /\ OldVersion[d] \in Versions /\ TargetVersion[d] \in Versions
      /\ Unreadable \notin Versions
      /\ d \notin ManualOnly /\ OldVersion[d] # TargetVersion[d]
  BY <1>2, ConstantsAssumption, PlanVersions DEF DecisionIsTrue, PhaseIsTrue
<1>a. pc \in [Processes -> Locations] /\ result \in [Processes -> Outcomes \cup {None}]
      /\ phase \in [Decisions -> Phases \cup {None}]
      /\ pending \in [Decisions -> Outcomes \cup {None}]
  BY <1>1 DEF TypeOK
<1>4. CASE Resume(p)
  <2>1. /\ pc[p] = "resuming" /\ UNCHANGED <<phase, pending, installs, package, serving>>
    BY <1>4 DEF Resume, Decide, Move, database
  <2>2. DecisionIsTrue(d)'
    <3>1. UNCHANGED overtaken
      BY <1>1, WorkLeaves
    <3> QED
      BY <1>2, <2>1, <3>1 DEF DecisionIsTrue, PhaseIsTrue, Earned, Shown, TargetReached,
         OthersInstalled, ServedAt
  <2>3. CASE pending[d] # None
    <3>1. pc'[p] = "complete" /\ result'[p] = pending[d]
      BY <1>4, <1>a, <2>3 DEF Resume, Decide, Move, GoTo
    <3>2. PlaceIsTrue(p)'
      BY <1>2, <2>1, <3>1 DEF PlaceIsTrue
    <3> QED
      BY <2>2, <3>2
  <2>4. CASE pending[d] = None
    <3>1. /\ pc'[p] = EntryOf(phase[d])
          /\ result'[p] = IF phase[d] = "rollback-install-started"
                          THEN "rollback-failed" ELSE None
      BY <1>4, <1>a, <2>4 DEF Resume, Decide, Move, GoTo
    <3>2. /\ pc'[p] \in {"precondition", "reconciling", "start-rollback", "metadata",
                         "checkpoint"}
          /\ pc'[p] = "checkpoint" => result'[p] = "rollback-failed"
      BY <1>2, <3>1 DEF EntryOf, Phases
    <3>3. PlaceIsTrue(p)'
      BY <1>2, <2>1, <2>4, <3>2 DEF PlaceIsTrue, Earned, Shown
    <3> QED
      BY <2>2, <3>3
  <2> QED
    BY <2>3, <2>4
<1>b. CASE ~Resume(p)
  <2>1. pc[p] # "resuming" /\ pc[p] # "complete"
    BY <1>b, <1>1
       DEF Work, CheckOldVersion, InstallTarget, RecordTarget, ObserveFailedInstall,
           Reconcile, VerifyMetadata, RestartService, Validate, BeginRollback,
           StartRollbackInstall, ReinstallOld, RecordRestored, Checkpoint
  <2>2. pending[d] = None
    BY <1>2, <2>1 DEF PlaceIsTrue
  <2>3. CASE CheckOldVersion(p)
    <3>0. installs[d] = [permit \in Permits |-> 0]
      BY <1>1, <1>2, <2>3 DEF CheckOldVersion, PlaceAgrees, PermitsLeft
    <3>1. UNCHANGED <<pending, installs, package>>
      BY <2>3 DEF CheckOldVersion, Decide, Move, SetPhase, database, host
    <3>2. ASSUME NEW status \in {"failed", "superseded"}, Decide(p, "checkpoint", status)
          PROVE  DecisionIsTrue(d)' /\ PlaceIsTrue(p)'
      <4>1. /\ pc'[p] = "checkpoint" /\ result'[p] = status /\ phase' = phase
        BY <1>a, <3>2 DEF Decide, Move, GoTo, database
      <4>2. PlaceIsTrue(p)'
        BY <1>2, <2>2, <3>0, <3>1, <4>1 DEF PlaceIsTrue, Earned, Shown
      <4>3. DecisionIsTrue(d)'
        BY <1>2, <2>2, <3>1, <4>1, OwnRowsStay
      <4> QED
        BY <4>2, <4>3
    <3>3. CASE SetPhase(p, "target-install-started", "target-install")
               /\ OldVersion[d] \in Readings
      <4>1. pc'[p] = "target-install" /\ phase'[d] = "target-install-started"
        BY <1>a, <1>2, <3>3 DEF SetPhase, GoTo
      <4>2. package = OldVersion[d]
        BY <1>3, <3>3 DEF Readings
      <4>3. PlaceIsTrue(p)'
        BY <1>2, <2>2, <3>1, <4>1 DEF PlaceIsTrue
      <4>4. DecisionIsTrue(d)'
        BY <1>2, <1>3, <2>2, <3>1, <4>1, <4>2
           DEF DecisionIsTrue, PhaseIsTrue, Earned, Shown, Outcomes
      <4> QED
        BY <4>3, <4>4
    <3>4. QED
      BY <2>3, <3>2, <3>3 DEF CheckOldVersion
  <2>4. CASE InstallTarget(p)
    <3>1. /\ installs' = [installs EXCEPT ![d]["install-target"] = @ + 1]
          /\ installs[d]["install-target"] = 0 /\ phase[d] = "target-install-started"
          /\ UNCHANGED <<phase, pending>>
          /\ pc'[p] \in {"target-install-returned", "target-install-raised"}
      BY <1>1, <1>a, <1>2, <2>4
         DEF InstallTarget, Install, GoTo, PermitsLeft, PlaceAgrees, database
    <3>2. installs'[d]["install-target"] = 1
      BY <1>1, <1>2, <3>1, Spending DEF Permits
    <3>3. PlaceIsTrue(p)'
      BY <1>2, <2>2, <3>1, <3>2 DEF PlaceIsTrue
    <3>4. DecisionIsTrue(d)'
      BY <1>2, <1>3, <2>2, <3>1, <3>2
         DEF DecisionIsTrue, PhaseIsTrue, Earned, Shown, Outcomes
    <3> QED
      BY <3>3, <3>4
  <2>5. CASE RecordTarget(p)
    <3>1. /\ installs[d]["install-target"] = 1 /\ phase'[d] = "target-installed"
          /\ pc'[p] = "metadata" /\ UNCHANGED <<pending, installs, package>>
      BY <1>2, <1>a, <2>5 DEF RecordTarget, SetPhase, GoTo, PlaceIsTrue, host
    <3>2. PlaceIsTrue(p)'
      BY <1>2, <2>2, <3>1 DEF PlaceIsTrue
    <3>3. DecisionIsTrue(d)'
      BY <1>2, <1>3, <2>2, <3>1
         DEF DecisionIsTrue, PhaseIsTrue, TargetReached, Earned, Shown, Outcomes
    <3> QED
      BY <3>2, <3>3
  <2>6. CASE ObserveFailedInstall(p) \/ Reconcile(p)
    <3>1. UNCHANGED <<pending, installs, package>>
      BY <2>6 DEF ObserveFailedInstall, Reconcile, Decide, Move, SetPhase, database, host
    <3>2. CASE Decide(p, "checkpoint", "rollback-failed") \/ Decide(p, "begin-rollback", None)
      <4>1. /\ pc'[p] \in {"checkpoint", "begin-rollback"} /\ phase' = phase
            /\ pc'[p] = "checkpoint" => result'[p] = "rollback-failed"
        BY <1>a, <3>2 DEF Decide, Move, GoTo, database
      <4>2. PlaceIsTrue(p)'
        BY <1>2, <2>2, <3>1, <4>1 DEF PlaceIsTrue, Earned, Shown
      <4> QED
        BY <1>2, <2>2, <3>1, <4>1, <4>2, OwnRowsStay
    <3>3. CASE /\ Reconcile(p) /\ SetPhase(p, "target-installed", "metadata")
               /\ TargetVersion[d] \in Readings
      <4>1. pc'[p] = "metadata" /\ phase'[d] = "target-installed"
        BY <1>a, <1>2, <3>3 DEF SetPhase, GoTo
      <4>2. /\ package = TargetVersion[d] /\ phase[d] = "target-install-started"
            /\ installs[d]["install-target"] \in {0, 1}
        BY <1>1, <1>2, <1>3, <3>1, <3>3
           DEF Readings, Reconcile, PlaceAgrees, InstallsAtMostOnce, Permits
      <4>3. TargetReached(d)
        BY <1>2, <1>3, <4>2 DEF DecisionIsTrue, PhaseIsTrue, TargetReached
      <4>4. PlaceIsTrue(p)'
        BY <1>2, <2>2, <3>1, <4>1 DEF PlaceIsTrue
      <4>5. DecisionIsTrue(d)'
        BY <1>2, <1>3, <2>2, <3>1, <4>1, <4>3
           DEF DecisionIsTrue, PhaseIsTrue, TargetReached, OthersInstalled, Earned, Shown, Outcomes
      <4> QED
        BY <4>4, <4>5
    <3> QED
      BY <2>6, <3>2, <3>3 DEF ObserveFailedInstall, Reconcile
  <2>7. CASE VerifyMetadata(p) \/ RestartService(p) \/ Validate(p)
    <3>1. UNCHANGED <<phase, pending, installs, package>>
      BY <2>7 DEF VerifyMetadata, RestartService, Validate, CheckFailed, Move, database
    <3>2. DecisionIsTrue(d)'
      BY <1>2, <2>2, <3>1, OwnRowsStay
    <3>3. phase[d] \in {"target-installed", "rollback-installed"}
      BY <1>1, <2>7 DEF VerifyMetadata, RestartService, Validate, PlaceAgrees
    <3>4. CASE CheckFailed(p)
      <4>1. /\ pc'[p] \in {"checkpoint", "begin-rollback"}
            /\ pc'[p] = "checkpoint" => result'[p] = "rollback-failed"
        BY <1>a, <3>4 DEF CheckFailed, Move, GoTo
      <4>2. PlaceIsTrue(p)'
        BY <1>2, <2>2, <3>1, <4>1 DEF PlaceIsTrue, Earned, Shown
      <4> QED
        BY <3>2, <4>2
    <3>5. CASE VerifyMetadata(p) /\ ~CheckFailed(p)
      <4>1. pc'[p] = "restart" /\ ExpectedVersion(p) \in Readings
        BY <1>a, <3>5 DEF VerifyMetadata, Move, GoTo
      <4>2. package = ExpectedVersion(p)
        BY <1>3, <4>1 DEF Readings, ExpectedVersion
      <4>3. PlaceIsTrue(p)'
        BY <1>2, <2>2, <3>1, <4>1, <4>2 DEF PlaceIsTrue, ExpectedVersion, RollingBack
      <4> QED
        BY <3>2, <4>3
    <3>6. CASE RestartService(p) /\ ~CheckFailed(p)
      <4>1. pc'[p] = "validation" /\ serving' = package /\ package = ExpectedVersion(p)
        BY <1>a, <1>2, <3>6 DEF RestartService, Move, GoTo, PlaceIsTrue
      <4>2. PlaceIsTrue(p)'
        BY <1>2, <2>2, <3>1, <4>1 DEF PlaceIsTrue, ExpectedVersion, RollingBack, ServedAt
      <4> QED
        BY <3>2, <4>2
    <3>7. CASE Validate(p) /\ ~CheckFailed(p)
      <4>1. /\ pc'[p] = "checkpoint" /\ serving' = serving
            /\ result'[p] = IF RollingBack(p) THEN "rolled-back" ELSE "completed"
            /\ ServedAt(ExpectedVersion(p))
        BY <1>a, <1>2, <3>7 DEF Validate, Move, GoTo, PlaceIsTrue
      <4>2. CASE RollingBack(p)
        <5>1. result'[p] = "rolled-back" /\ installs[d]["reinstall-old"] = 1 /\ ServedAt(OldVersion[d])
          BY <1>2, <4>1, <4>2 DEF RollingBack, DecisionIsTrue, PhaseIsTrue, ExpectedVersion
        <5>2. PlaceIsTrue(p)'
          BY <1>2, <2>2, <3>1, <4>1, <5>1 DEF PlaceIsTrue, Earned, Shown, ServedAt
        <5> QED
          BY <3>2, <5>2
      <4>3. CASE ~RollingBack(p)
        <5>1. /\ phase[d] = "target-installed" /\ result'[p] = "completed"
              /\ ServedAt(TargetVersion[d])
          BY <3>3, <4>1, <4>3 DEF RollingBack, ExpectedVersion
        <5>2. installs[d]["reinstall-old"] = 0 /\ TargetReached(d)
          BY <1>1, <1>2, <5>1 DEF PermitsLeft, DecisionIsTrue, PhaseIsTrue
        <5>3. PlaceIsTrue(p)'
          BY <1>2, <2>2, <3>1, <4>1, <5>1, <5>2
             DEF PlaceIsTrue, Earned, Shown, ServedAt, TargetReached, OthersInstalled
        <5> QED
          BY <3>2, <5>3
      <4> QED
        BY <4>2, <4>3
    <3> QED
      BY <2>7, <3>4, <3>5, <3>6, <3>7
  <2>8. CASE BeginRollback(p) \/ StartRollbackInstall(p)
    <3>1. /\ phase'[d] \in {"rollback-required", "rollback-install-started"}
          /\ pc'[p] \in {"start-rollback", "old-install"}
          /\ UNCHANGED <<pending, installs, package>>
      BY <1>2, <1>a, <2>8 DEF BeginRollback, StartRollbackInstall, SetPhase, GoTo, host
    <3>2. PlaceIsTrue(p)'
      BY <1>2, <2>2, <3>1 DEF PlaceIsTrue
    <3>3. DecisionIsTrue(d)'
      BY <1>2, <1>3, <2>2, <3>1 DEF DecisionIsTrue, PhaseIsTrue, Earned, Shown, Outcomes
    <3> QED
      BY <3>2, <3>3
  <2>9. CASE ReinstallOld(p)
    <3>1. /\ installs' = [installs EXCEPT ![d]["reinstall-old"] = @ + 1]
          /\ installs[d]["reinstall-old"] = 0 /\ phase[d] = "rollback-install-started"
          /\ UNCHANGED <<phase, pending>>
          /\ pc'[p] \in {"old-install-returned", "checkpoint"}
          /\ pc'[p] = "checkpoint" => result'[p] = "rollback-failed"
      BY <1>1, <1>a, <1>2, <2>9
         DEF ReinstallOld, Install, GoTo, PermitsLeft, PlaceAgrees, database
    <3>2. installs'[d]["reinstall-old"] = 1
      BY <1>1, <1>2, <3>1, Spending DEF Permits
    <3>3. PlaceIsTrue(p)'
      BY <1>2, <2>2, <3>1, <3>2 DEF PlaceIsTrue, Earned, Shown
    <3>4. DecisionIsTrue(d)'
      BY <1>2, <1>3, <2>2, <3>1, <3>2
         DEF DecisionIsTrue, PhaseIsTrue, Earned, Shown, Outcomes
    <3> QED
      BY <3>3, <3>4
  <2>10. CASE RecordRestored(p)
    <3>1. /\ installs[d]["reinstall-old"] = 1 /\ phase'[d] = "rollback-installed"
          /\ pc'[p] = "metadata" /\ UNCHANGED <<pending, installs, package>>
      BY <1>2, <1>a, <2>10 DEF RecordRestored, SetPhase, GoTo, PlaceIsTrue, host
    <3>2. PlaceIsTrue(p)'
      BY <1>2, <2>2, <3>1 DEF PlaceIsTrue
    <3>3. DecisionIsTrue(d)'
      BY <1>2, <1>3, <2>2, <3>1 DEF DecisionIsTrue, PhaseIsTrue, Earned, Shown, Outcomes
    <3> QED
      BY <3>2, <3>3
  <2>11. CASE Checkpoint(p)
    <3>1. /\ pc[p] = "checkpoint" /\ pc'[p] = "complete" /\ result' = result
          /\ pending'[d] = result[p]
          /\ UNCHANGED <<phase, installs, package, serving>>
      BY <1>2, <1>a, <2>11 DEF Checkpoint, GoTo, host
    <3>2. Earned(d, result[p]) /\ Shown(d, result[p])
      BY <1>2, <3>1 DEF PlaceIsTrue
    <3>3. PlaceIsTrue(p)'
      BY <1>2, <3>1 DEF PlaceIsTrue
    <3>4. DecisionIsTrue(d)'
      BY <1>2, <3>1, <3>2
         DEF DecisionIsTrue, PhaseIsTrue, Earned, Shown, ServedAt, TargetReached, OthersInstalled
    <3> QED
      BY <3>3, <3>4
  <2> QED
    BY <1>b, <2>3, <2>4, <2>5, <2>6, <2>7, <2>8, <2>9, <2>10, <2>11 DEF Work
<1> QED
  BY <1>4, <1>b

LEMMA TruthStep == IInv /\ OrderInv /\ TruthInv /\ [Next]_vars /\ IInv' => TruthInv'
<1> SUFFICES ASSUME IInv, OrderInv, TruthInv, [Next]_vars, IInv' PROVE TruthInv'
  OBVIOUS
<1>a. /\ TypeOK /\ LockHeld /\ LockHeld' /\ (\A p \in Processes : PlaceAgrees(p)) /\ RowsAgree
      /\ pc \in [Processes -> Locations] /\ cur \in [Processes -> Decisions \cup {None}]
      /\ result \in [Processes -> Outcomes \cup {None}]
      /\ run \in [Decisions -> RunStatuses]
      /\ phase \in [Decisions -> Phases \cup {None}]
      /\ pending \in [Decisions -> Outcomes \cup {None}]
  BY DEF IInv, TypeOK
<1>b. None \notin Processes /\ None \notin Phases \cup Outcomes /\ None # "execution-started"
  BY ConstantsAssumption DEF Phases
<1>c. \A e \in Decisions : phase[e] = "execution-started" => e \notin ManualOnly
  BY <1>b DEF TruthInv, DecisionIsTrue, PhaseIsTrue
<1> DEFINE RowsStay ==
      \A e \in Decisions :
        /\ phase'[e] = "execution-started" => e \notin ManualOnly
        /\ phase'[e] \in {phase[e], None, "execution-started"}
        /\ pending'[e] \in {pending[e], None}
    NoneGoesOn == \A q \in Processes : pc'[q] \in Working => pc'[q] = "resuming"
    AllStay == /\ UNCHANGED <<phase, pending, pc, cur, result>>
    HostStays == UNCHANGED <<package, serving, installs>> /\ overtaken \subseteq overtaken'
<1>d. HostStays /\ RowsStay /\ NoneGoesOn => TruthInv'
  BY TruthAway
<1>e. HostStays /\ RowsStay /\ AllStay => TruthInv'
  BY TruthAway
<1>1. ASSUME NEW p \in Processes, StartRunDue(p) \/ AcquireLock(p) \/ EndPass(p)
      PROVE  TruthInv'
  <2>1. HostStays /\ UNCHANGED <<phase, pending, run, cur, result>>
    BY <1>1 DEF StartRunDue, AcquireLock, EndPass, database, host, environment
  <2>2. RowsStay
    BY <1>c, <2>1
  <2>3. \A q \in Processes : pc'[q] \in Working => pc'[q] = pc[q]
    BY <1>1, <1>a DEF StartRunDue, AcquireLock, EndPass, GoTo, Working, Inside
  <2> QED
    BY <2>1, <2>2, <2>3, TruthAway
<1>2. ASSUME NEW p \in Processes, NEW d \in Decisions, ClaimPlan(p, d) PROVE TruthInv'
  <2>1. /\ d \notin ManualOnly /\ phase' = [phase EXCEPT ![d] = "execution-started"]
        /\ run' = [run EXCEPT ![d] = "running"] /\ pc' = [pc EXCEPT ![p] = "resuming"]
        /\ pc[p] = "claiming"
        /\ run[d] = "claimed" /\ UNCHANGED pending /\ HostStays
    BY <1>2 DEF ClaimPlan, PlanAccepted, GoTo, host, environment
  <2>2. RowsStay
    BY <1>a, <1>c, <2>1
  <2>3. NoneGoesOn
    BY <1>a, <1>b, <2>1 DEF LockHeld, Working, Inside, Locations
  <2> QED
    BY <1>d, <2>1, <2>2, <2>3
<1>3. ASSUME NEW p \in Processes, NEW d \in Decisions,
             RejectClaim(p, d) \/ ClaimInterrupted(p, d)
      PROVE  TruthInv'
  <2>1. /\ pc[p] = "claiming" /\ pc' \in {pc, [pc EXCEPT ![p] = "resuming"]}
        /\ phase' \in {phase, [phase EXCEPT ![d] = None]}
        /\ run' \in {run, [run EXCEPT ![d] = "failed"]}
        /\ UNCHANGED pending /\ HostStays
    BY <1>3 DEF RejectClaim, ClaimInterrupted, GoTo, database, host, process, environment
  <2>2. RowsStay
    BY <1>a, <1>b, <1>c, <2>1
  <2>3. NoneGoesOn
    BY <1>a, <1>b, <2>1 DEF LockHeld, Working, Inside, Locations
  <2> QED
    BY <1>d, <2>1, <2>2, <2>3
<1>4. ASSUME NEW p \in Processes, Work(p) PROVE TruthInv'
  <2>1. \A d \in Decisions : DecisionIsTrue(d)'
    BY <1>4, AtWork, OwnPlace, WorkBesideOthers
  <2>2. \A q \in Processes : PlaceIsTrue(q)'
    <3>1. \A q \in Processes \ {p} : pc'[q] \notin Working
      BY <1>4, AtWork
    <3>2. \A q \in Processes \ {p} : PlaceIsTrue(q)'
      BY <3>1 DEF PlaceIsTrue, Working, Inside, Locations
    <3> QED
      BY <1>4, <3>2, AtWork, OwnPlace
  <2> QED
    BY <2>1, <2>2 DEF TruthInv
<1>5. ASSUME NEW p \in Processes, Complete(p) PROVE TruthInv'
  <2>1. /\ pc[p] = "complete" /\ pc' = [pc EXCEPT ![p] = "claiming"]
        /\ phase' = [phase EXCEPT ![cur[p]] = None]
        /\ pending' = [pending EXCEPT ![cur[p]] = None]
        /\ run' = [run EXCEPT ![cur[p]] = RunStatusOf(result[p])]
        /\ HostStays
    BY <1>5 DEF Complete, GoTo, host, environment
  <2>2. cur[p] \in Decisions /\ RunStatusOf(result[p]) \notin {"none", "claimed"}
    BY <1>a, <2>1 DEF PlaceAgrees, Working, Inside, Locations, RunStatusOf
  <2>3. RowsStay
    BY <1>a, <1>b, <1>c, <2>1, <2>2
  <2>4. NoneGoesOn
    BY <1>a, <1>b, <2>1 DEF LockHeld, Working, Inside, Locations
  <2> QED
    BY <1>d, <2>1, <2>3, <2>4
<1>6. ASSUME NEW p \in Processes, Crash(p) PROVE TruthInv'
  <2>1. /\ HostStays /\ UNCHANGED <<run, phase, pending>>
        /\ \A q \in Processes : pc'[q] \in Working =>
             pc'[q] = pc[q] /\ cur'[q] = cur[q] /\ result'[q] = result[q]
    BY <1>6, <1>a DEF Crash, GoTo, Working, Inside, database, host
  <2>2. RowsStay
    BY <1>c, <2>1
  <2> QED
    BY <2>1, <2>2, TruthAway
<1>7. CASE (\E d \in Decisions : Approve(d)) \/ UNCHANGED vars
  <2>1. HostStays /\ AllStay
    BY <1>7 DEF Approve, vars, host, process, environment
  <2>2. RowsStay
    BY <1>7, <1>a, <1>c, <2>1 DEF Approve, vars
  <2> QED
    BY <1>e, <2>1, <2>2
<1>8. ASSUME NEW t \in Tasks, UpdateTask(t) \/ RemoveTask(t) PROVE TruthInv'
  <2>1. HostStays /\ AllStay /\ UNCHANGED run
    BY <1>8 DEF UpdateTask, RemoveTask, host, process, environment
  <2>2. RowsStay
    BY <1>c, <2>1
  <2> QED
    BY <1>e, <2>1, <2>2
<1>9. CASE PackageDrift
  <2>1. \A d \in Decisions : phase[d] = None /\ pending[d] = None
    BY <1>9, <1>a DEF PackageDrift, UnderWay, RowsAgree
  <2>2. \A p \in Processes : pc[p] \notin Working
    BY <1>a, <1>b, <2>1 DEF PlaceAgrees
  <2>3. UNCHANGED <<phase, pending, pc>>
    BY <1>9 DEF PackageDrift, database, process
  <2>4. \A d \in Decisions : DecisionIsTrue(d)'
    BY <1>b, <2>1, <2>3 DEF DecisionIsTrue, PhaseIsTrue, Earned, Shown, Outcomes, Phases
  <2>5. \A p \in Processes : PlaceIsTrue(p)'
    BY <2>2, <2>3 DEF PlaceIsTrue, Working, Inside, Locations
  <2> QED
    BY <2>4, <2>5 DEF TruthInv
<1> QED
  BY <1>1, <1>2, <1>3, <1>4, <1>5, <1>6, <1>7, <1>8, <1>9
     DEF Next, Step, Claim, Surroundings, Work

LEMMA TruthHolds == Spec => [](IInv /\ OrderInv /\ TruthInv)
<1> QED
  BY IInvInit, IInvStep, OrderInit, OrderStep, TruthInit, TruthStep, PTL DEF Spec

(* What _checkpoint_execution_outcome stored is still true of the host when  *)
(* a later pass publishes it, unless an older plan was let in between.       *)
THEOREM CheckpointsAreTrue == Spec => []CheckpointIsTrue
<1>1. TruthInv => CheckpointIsTrue
  BY DEF TruthInv, DecisionIsTrue, Earned, Shown, CheckpointIsTrue
<1> QED
  BY <1>1, TruthHolds, PTL
-----------------------------------------------------------------------------
(***************************************************************************)
(* Refinement of PlanContract.                                               *)
(***************************************************************************)
PlanStates == [d \in Decisions |-> PlanState(d)]

LEMMA ContractInit == Init => Contract!Init
  BY DEF Init, PlanState, Contract!Init, Contract!Unused, Contract!Permits, Permits

(* The contract only sees the Runs and the stored outcomes.                  *)
LEMMA PlanStatesStay == UNCHANGED <<run, outcome>> => UNCHANGED PlanStates
  BY DEF PlanStates, PlanState

LEMMA OnePlanMoves ==
    ASSUME NEW d \in Decisions,
           \A e \in Decisions \ {d} : run'[e] = run[e] /\ outcome'[e] = outcome[e]
    PROVE  PlanStates' = [PlanStates EXCEPT ![d] = PlanState(d)']
<1>1. \A e \in Decisions \ {d} : PlanState(e)' = PlanState(e)
  BY DEF PlanState
<1> QED
  BY <1>1 DEF PlanStates

(* A permit that is left is spent once, and by a plan that executes.         *)
LEMMA OnePermitSpent ==
    ASSUME IInv, IInv', NEW d \in Decisions, NEW permit \in Permits, phase[d] # None,
           installs[d][permit] = 0,
           permit = "install-target" => installs[d]["reinstall-old"] = 0,
           installs' = [installs EXCEPT ![d][permit] = @ + 1],
           UNCHANGED <<run, outcome>>
    PROVE  Contract!Next
<1>1. run[d] = "running" /\ installs \in [Decisions -> [Permits -> Nat]]
  BY DEF IInv, TypeOK, RowsAgree
<1>2. PlanStates[d] = "executing"
  BY <1>1 DEF PlanStates, PlanState
<1>3. installs' = [installs EXCEPT ![d][permit] = 1]
  BY <1>1
<1>4. Contract!Spend(d, permit)
  BY <1>2, <1>3, PlanStatesStay DEF Contract!Spend, PlanStates
<1> QED
  BY <1>4 DEF Contract!Next, Contract!Permits, Permits

(* The steps of a pass on its Decision spend a permit or change nothing the  *)
(* contract sees.                                                            *)
LEMMA WorkKeepsContract ==
    ASSUME IInv, IInv', NEW p \in Processes, Work(p)
    PROVE  [Contract!Next]_(Contract!contractVars)
<1>1. CASE InstallTarget(p)
  <2>1. /\ cur[p] \in Decisions /\ phase[cur[p]] = "target-install-started"
        /\ installs[cur[p]]["install-target"] = 0
        /\ installs[cur[p]]["reinstall-old"] = 0
    BY <1>1 DEF InstallTarget, IInv, PlaceAgrees, PermitsLeft, Working, Inside, Locations
  <2>2. /\ UNCHANGED <<run, outcome>>
        /\ installs' = [installs EXCEPT ![cur[p]]["install-target"] = @ + 1]
    BY <1>1 DEF InstallTarget, Install, database
  <2> QED
    BY <2>1, <2>2, OnePermitSpent, ConstantsAssumption DEF Permits, Phases
<1>2. CASE ReinstallOld(p)
  <2>1. /\ cur[p] \in Decisions /\ phase[cur[p]] = "rollback-install-started"
        /\ installs[cur[p]]["reinstall-old"] = 0
    BY <1>2 DEF ReinstallOld, IInv, PlaceAgrees, PermitsLeft, Working, Inside, Locations
  <2>2. /\ UNCHANGED <<run, outcome>>
        /\ installs' = [installs EXCEPT ![cur[p]]["reinstall-old"] = @ + 1]
    BY <1>2 DEF ReinstallOld, Install, database
  <2> QED
    BY <2>1, <2>2, OnePermitSpent, ConstantsAssumption DEF Permits, Phases
<1>3. ASSUME ~InstallTarget(p), ~ReinstallOld(p) PROVE UNCHANGED <<run, outcome, installs>>
  <2> USE DEF database, environment
  <2>1. CASE Resume(p) \/ CheckOldVersion(p) \/ ObserveFailedInstall(p) \/ Reconcile(p)
    BY <2>1 DEF Resume, CheckOldVersion, ObserveFailedInstall, Reconcile, Decide, Move,
       SetPhase
  <2>2. CASE VerifyMetadata(p) \/ RestartService(p) \/ Validate(p)
    BY <2>2 DEF VerifyMetadata, RestartService, Validate, CheckFailed, Move
  <2>3. CASE \/ RecordTarget(p) \/ BeginRollback(p) \/ StartRollbackInstall(p)
             \/ RecordRestored(p) \/ Checkpoint(p)
    BY <2>3 DEF RecordTarget, BeginRollback, StartRollbackInstall, RecordRestored,
       SetPhase, Checkpoint
  <2> QED
    BY <1>3, <2>1, <2>2, <2>3 DEF Work
<1> QED
  BY <1>1, <1>2, <1>3, PlanStatesStay DEF Contract!contractVars, PlanStates

LEMMA CompleteSettles ==
    ASSUME IInv, TruthInv, NEW p \in Processes, Complete(p) PROVE Contract!Next
<1>1. /\ pc[p] = "complete" /\ UNCHANGED installs
      /\ run[cur[p]] = "running"
      /\ run' = [run EXCEPT ![cur[p]] = RunStatusOf(result[p])]
      /\ outcome' = [outcome EXCEPT ![cur[p]] = result[p]]
  BY DEF Complete
<1>2. PICK d \in Decisions : cur[p] = d
  BY <1>1 DEF IInv, PlaceAgrees, Working, Inside, Locations
<1>3. /\ result[p] \in Outcomes /\ Earned(d, result[p])
      /\ run \in [Decisions -> RunStatuses]
      /\ outcome \in [Decisions -> Outcomes \cup {None}]
  BY <1>1, <1>2 DEF IInv, TypeOK, PlaceAgrees, TruthInv, DecisionIsTrue, PlaceIsTrue
<1>4. PlanStates[d] = "executing" /\ PlanState(d)' = result[p]
  BY <1>1, <1>2, <1>3 DEF PlanStates, PlanState, RunStatusOf
<1>5. PlanStates' = [PlanStates EXCEPT ![d] = result[p]]
  <2>1. \A e \in Decisions \ {d} : run'[e] = run[e] /\ outcome'[e] = outcome[e]
    BY <1>1, <1>2, <1>3
  <2> QED
    BY <1>4, <2>1, OnePlanMoves
<1>6. Contract!JustifiedBy(d, result[p])
  BY <1>3 DEF Earned, TargetReached, OthersInstalled, Contract!JustifiedBy,
     Contract!ChangedByOthers, Contract!Unused, Contract!Permits, Permits
<1>7. Contract!Settle(d, result[p])
  BY <1>1, <1>4, <1>5, <1>6 DEF Contract!Settle, PlanStates
<1> QED
  BY <1>3, <1>7 DEF Contract!Next, Contract!PlanOutcomes, Outcomes

LEMMA ContractStep ==
    IInv /\ TruthInv /\ [Next]_vars /\ IInv' => [Contract!Next]_(Contract!contractVars)
<1> SUFFICES ASSUME IInv, TruthInv, [Next]_vars, IInv'
             PROVE  [Contract!Next]_(Contract!contractVars)
  OBVIOUS
<1>a. run \in [Decisions -> RunStatuses] /\ outcome \in [Decisions -> Outcomes \cup {None}]
  BY DEF IInv, TypeOK
<1>b. UNCHANGED <<run, outcome, installs>> => [Contract!Next]_(Contract!contractVars)
  BY PlanStatesStay DEF Contract!contractVars, PlanStates
<1>1. ASSUME NEW d \in Decisions, Approve(d) PROVE Contract!Next
  <2>1. PlanStates[d] = "unapproved" /\ PlanState(d)' = "approved" /\ UNCHANGED installs
    BY <1>1, <1>a DEF Approve, PlanStates, PlanState
  <2>2. PlanStates' = [PlanStates EXCEPT ![d] = "approved"]
    BY <1>1, <1>a, <2>1, OnePlanMoves DEF Approve
  <2>3. Contract!Authorize(d)
    BY <2>1, <2>2 DEF Contract!Authorize, PlanStates
  <2> QED
    BY <2>3 DEF Contract!Next
<1>2. ASSUME NEW p \in Processes, NEW d \in Decisions, ClaimPlan(p, d) PROVE Contract!Next
  <2>1. PlanStates[d] = "approved" /\ PlanState(d)' = "executing" /\ UNCHANGED installs
    BY <1>2, <1>a DEF ClaimPlan, PlanStates, PlanState
  <2>2. PlanStates' = [PlanStates EXCEPT ![d] = "executing"]
    BY <1>2, <1>a, <2>1, OnePlanMoves DEF ClaimPlan
  <2>3. Contract!Begin(d)
    BY <2>1, <2>2 DEF Contract!Begin, PlanStates
  <2> QED
    BY <2>3 DEF Contract!Next
<1>3. ASSUME NEW p \in Processes, NEW d \in Decisions, RejectClaim(p, d) PROVE Contract!Next
  <2>1. PlanStates[d] = "approved" /\ PlanState(d)' = "failed" /\ UNCHANGED installs
    BY <1>3, <1>a DEF RejectClaim, PlanStates, PlanState
  <2>2. PlanStates' = [PlanStates EXCEPT ![d] = "failed"]
    BY <1>3, <1>a, <2>1, OnePlanMoves DEF RejectClaim
  <2>3. Contract!Refuse(d)
    BY <2>1, <2>2 DEF Contract!Refuse, PlanStates
  <2> QED
    BY <2>3 DEF Contract!Next
<1>4. ASSUME NEW p \in Processes, StartRunDue(p) \/ AcquireLock(p) \/ EndPass(p) \/ Crash(p)
      PROVE  UNCHANGED <<run, outcome, installs>>
  BY <1>4 DEF StartRunDue, AcquireLock, EndPass, Crash, database
<1>5. ASSUME NEW p \in Processes, NEW d \in Decisions, ClaimInterrupted(p, d)
      PROVE  UNCHANGED <<run, outcome, installs>>
  BY <1>5 DEF ClaimInterrupted, database
<1>6. ASSUME NEW t \in Tasks, UpdateTask(t) \/ RemoveTask(t)
      PROVE  UNCHANGED <<run, outcome, installs>>
  BY <1>6 DEF UpdateTask, RemoveTask
<1>7. CASE PackageDrift \/ UNCHANGED vars
  BY <1>7, <1>b DEF PackageDrift, vars, database
<1> QED
  BY <1>1, <1>2, <1>3, <1>4, <1>5, <1>6, <1>7, <1>b, WorkKeepsContract, CompleteSettles
     DEF Next, Step, Claim, Surroundings, Work

(* Whatever dies, overlaps or is edited, pi_mcp_execution.py keeps the       *)
(* promise of an approval: one-time permits, spent while the plan executes,  *)
(* never the target after the rollback began, and one outcome that the       *)
(* permits spent justify.                                                    *)
THEOREM ContractIsKept == Spec => ContractKept
  BY ContractInit, ContractStep, TruthHolds, PTL DEF Spec, ContractKept, Contract!Spec
=============================================================================
