------------------------- MODULE ApprovedExecution -------------------------
(***************************************************************************)
(* pi_mcp_execution.py: how `runtasks run-due` executes approved Pi MCP      *)
(* update plans.  Several run-due processes may be alive; a blocking flock   *)
(* serialises their passes.  Each step below is one SQLite transaction or    *)
(* one call of an external adapter, so a process can die (or abort on a      *)
(* database error, which leaves the same state) between any two of them, and *)
(* the next pass resumes from the recovery row the dead one left behind.     *)
(*                                                                           *)
(* Decisions are numbered in the order of their approval, which is the order *)
(* (created_at, id) in which approval Runs are claimed: responded_at is read *)
(* inside the approving transaction.                                         *)
(***************************************************************************)
EXTENDS Naturals, FiniteSets

CONSTANTS
    Decisions,      \* numbers of the Decisions that may be approved
    Tasks,          \* the Tasks those Decisions belong to
    Processes,      \* run-due invocations that may be alive at once
    Versions,       \* exact stable versions of the package
    TaskOf,         \* TaskOf[d]: the Task of Decision d
    OldVersion,     \* OldVersion[d]: version the plan of d was written for
    TargetVersion,  \* TargetVersion[d]: version the plan of d installs
    ManualOnly,     \* Decisions whose plan is manual-review-only
    Unreadable,     \* package metadata that names no exact stable version
    None,           \* no process, no Decision, no phase, no outcome
    MaxCrashes,     \* bound: process deaths
    MaxDrifts,      \* bound: package changes made outside RunTasks
    MaxEdits        \* bound: `task update` calls that change the handler

Outcomes == {"completed", "rolled-back", "rollback-failed", "failed", "superseded"}
Phases   == {"execution-started", "target-install-started", "target-installed",
             "rollback-required", "rollback-install-started", "rollback-installed"}
RunStatuses == {"none", "claimed", "running", "success", "rolled-back", "failed"}
Locations == {"idle", "waiting", "claiming", "resuming", "precondition",
              "target-install", "target-install-returned", "target-install-raised",
              "reconciling", "begin-rollback", "start-rollback", "old-install",
              "old-install-returned", "metadata", "restart", "validation",
              "checkpoint", "complete"}
Handlers == {"pi_mcp_adapter", "other"}
Permits == {"install-target", "reinstall-old"}

ASSUME ConstantsAssumption ==
    /\ Decisions \subseteq Nat
    /\ TaskOf \in [Decisions -> Tasks]
    /\ OldVersion \in [Decisions -> Versions]
    /\ TargetVersion \in [Decisions -> Versions]
    /\ \A d \in Decisions \ ManualOnly : OldVersion[d] # TargetVersion[d]
    /\ Unreadable \notin Versions
    /\ None \notin Decisions /\ None \notin Processes \cup Versions
    /\ None \notin Phases \cup Outcomes
    /\ MaxCrashes \in Nat /\ MaxDrifts \in Nat /\ MaxEdits \in Nat

VARIABLES
    run,         \* run[d]: status of the approval Run of d, "none" before approval
    phase,       \* phase[d]: recovery row of d, None when there is no row
    pending,     \* pending[d]: pending_outcome_json of the recovery row
    outcome,     \* outcome[d]: decision_execution_outcomes.status
    handler,     \* handler[t]: handler (with its action mode) of the Task's row
    removed,     \* Tasks whose row is a tombstone (removed_at set)
    due,         \* due[t]: next_run_at was set to make the fresh check due
    package,     \* version in the installed package.json, or Unreadable
    serving,     \* version pi-web.service loaded when it was last restarted
    lock,        \* process holding the flock on the execution lock file
    pc,          \* pc[p]: where process p is
    cur,         \* cur[p]: the Decision process p is executing
    result,      \* result[p]: outcome computed by p and not yet stored
    installs,    \* installs[d][permit]: install_exact calls made for d
    returned,    \* Tasks moved back to the handler while a plan was under way
    overtaken,   \* Decisions under way when another plan was claimed
    crashes, drifts, edits

database    == <<run, phase, pending, outcome, handler, removed, due>>
host        == <<package, serving>>
process     == <<lock, pc, cur, result>>
environment == <<returned, overtaken, crashes, drifts, edits>>
vars == <<run, phase, pending, outcome, handler, removed, due, package, serving,
          lock, pc, cur, result, installs, returned, overtaken, crashes, drifts, edits>>

Init ==
    /\ run = [d \in Decisions |-> "none"]
    /\ phase = [d \in Decisions |-> None]
    /\ pending = [d \in Decisions |-> None]
    /\ outcome = [d \in Decisions |-> None]
    /\ handler = [t \in Tasks |-> "pi_mcp_adapter"]
    /\ removed = {}
    /\ due = [t \in Tasks |-> FALSE]
    /\ package \in Versions
    /\ serving = package
    /\ lock = None
    /\ pc = [p \in Processes |-> "idle"]
    /\ cur = [p \in Processes |-> None]
    /\ result = [p \in Processes |-> None]
    /\ installs = [d \in Decisions |-> [permit \in Permits |-> 0]]
    /\ returned = {} /\ overtaken = {}
    /\ crashes = 0 /\ drifts = 0 /\ edits = 0

(***************************************************************************)
(* What surrounds a pass: responders, Task edits, the host.                  *)
(***************************************************************************)
(* Decisions with a recovery row: claimed, and their outcome not yet stored. *)
UnderWay == {d \in Decisions : phase[d] # None}

Approve(d) ==
    /\ run[d] = "none"
    /\ TaskOf[d] \notin removed
    /\ \A e \in Decisions : run[e] # "none" => e < d
    /\ run' = [run EXCEPT ![d] = "claimed"]
    /\ UNCHANGED <<phase, pending, outcome, handler, removed, due, host, process,
                   installs, environment>>

UpdateTask(t) ==
    /\ t \notin removed
    /\ edits < MaxEdits
    /\ edits' = edits + 1
    /\ \E h \in Handlers \ {handler[t]} : handler' = [handler EXCEPT ![t] = h]
    /\ returned' = IF handler[t] = "other" /\ UnderWay # {}
                   THEN returned \cup {t} ELSE returned
    /\ UNCHANGED <<run, phase, pending, outcome, removed, due, host, process,
                   installs, overtaken, crashes, drifts>>

RemoveTask(t) ==
    /\ t \notin removed
    /\ removed' = removed \cup {t}
    /\ UNCHANGED <<run, phase, pending, outcome, handler, due, host, process,
                   installs, environment>>

(* Someone installs another version by hand while no approved plan is under *)
(* way; nothing in the program stops them from doing so at any other time.   *)
PackageDrift ==
    /\ drifts < MaxDrifts
    /\ UnderWay = {}
    /\ drifts' = drifts + 1
    /\ package' \in Versions \ {package}
    /\ UNCHANGED <<database, serving, process, installs, returned, overtaken,
                   crashes, edits>>

(***************************************************************************)
(* Steps shared by the pass: what it can read and what it leaves alone.      *)
(***************************************************************************)
(* installed_version(): the metadata as it is, or an exception.              *)
Readings == {package, Unreadable}

(* `pi install npm:pi-mcp-adapter@v` may succeed, change nothing, or leave   *)
(* metadata nobody can read, whatever it reports.                            *)
AfterInstall(v) == {package, v, Unreadable}

GoTo(p, place) == pc' = [pc EXCEPT ![p] = place]

(* A step that moves p and its local outcome but writes nothing durable.     *)
Move(p, place, status) ==
    /\ GoTo(p, place)
    /\ result' = [result EXCEPT ![p] = status]
    /\ UNCHANGED <<database, package, lock, cur, installs, environment>>

Decide(p, place, status) == Move(p, place, status) /\ UNCHANGED serving

(* _set_recovery_phase: one transaction on the recovery row of cur[p].       *)
SetPhase(p, next, place) ==
    /\ phase[cur[p]] # None
    /\ phase' = [phase EXCEPT ![cur[p]] = next]
    /\ GoTo(p, place)
    /\ UNCHANGED <<run, pending, outcome, handler, removed, due, host, lock, cur,
                   result, installs, environment>>

(***************************************************************************)
(* The pass: take the lock, claim, resume or start, finish.                  *)
(***************************************************************************)
StartRunDue(p) ==
    /\ pc[p] = "idle"
    /\ GoTo(p, "waiting")
    /\ UNCHANGED <<database, host, lock, cur, result, installs, environment>>

AcquireLock(p) ==
    /\ pc[p] = "waiting"
    /\ lock = None
    /\ lock' = p
    /\ GoTo(p, "claiming")
    /\ UNCHANGED <<database, host, cur, result, installs, environment>>

(* Rows selected by _claim_next_approved_plan.  A claimed Run of a Task that *)
(* was moved to another handler is not among them.                           *)
ClaimableAtHandler ==                           \* mutant: the handler counts for recovery too
    {d \in Decisions :
        /\ run[d] = "claimed" \/ phase[d] # None
        /\ handler[TaskOf[d]] = "pi_mcp_adapter"}

Claimable ==
    {d \in Decisions :
        \/ run[d] = "claimed" /\ handler[TaskOf[d]] = "pi_mcp_adapter"
        \/ run[d] = "running" /\ phase[d] # None}

IsAnyClaimable(d) == d \in Claimable            \* mutant: no ORDER BY

IsOldest(d) == d \in Claimable /\ \A e \in Claimable : d <= e

(* _approved_plan_from_row, when the Task must still be registered.          *)
PlanAccepted(d) ==
    /\ handler[TaskOf[d]] = "pi_mcp_adapter"
    /\ TaskOf[d] \notin removed
    /\ d \notin ManualOnly

ClaimPlan(p, d) ==
    /\ pc[p] = "claiming"
    /\ IsOldest(d)
    /\ run[d] = "claimed"
    /\ PlanAccepted(d)
    /\ run' = [run EXCEPT ![d] = "running"]
    /\ phase' = [phase EXCEPT ![d] = "execution-started"]
    /\ overtaken' = overtaken \cup UnderWay
    /\ cur' = [cur EXCEPT ![p] = d]
    /\ GoTo(p, "resuming")
    /\ UNCHANGED <<pending, outcome, handler, removed, due, host, lock, result,
                   installs, returned, crashes, drifts, edits>>

RejectClaimSilently(p, d) ==                    \* mutant: no outcome row
    /\ pc[p] = "claiming" /\ IsOldest(d) /\ run[d] = "claimed" /\ ~PlanAccepted(d)
    /\ run' = [run EXCEPT ![d] = "failed"]
    /\ UNCHANGED <<phase, pending, outcome, handler, removed, due, host, process,
                   installs, environment>>

(* _record_invalid_claim: the Run fails in the claiming transaction.         *)
RejectClaim(p, d) ==
    /\ pc[p] = "claiming"
    /\ IsOldest(d)
    /\ run[d] = "claimed"
    /\ ~PlanAccepted(d)
    /\ run' = [run EXCEPT ![d] = "failed"]
    /\ phase' = [phase EXCEPT ![d] = None]
    /\ outcome' = [outcome EXCEPT ![d] = "failed"]
    /\ UNCHANGED <<pending, handler, removed, due, host, process, installs,
                   environment>>

ClaimInterrupted(p, d) ==
    /\ pc[p] = "claiming"
    /\ IsOldest(d)
    /\ run[d] = "running"
    /\ cur' = [cur EXCEPT ![p] = d]
    /\ GoTo(p, "resuming")
    /\ UNCHANGED <<database, host, lock, result, installs, environment>>

(* No row is left: run-due goes on to the scheduled Tasks and lets go.       *)
EndPass(p) ==
    /\ pc[p] = "claiming"
    /\ Claimable = {}
    /\ lock' = None
    /\ GoTo(p, "idle")
    /\ UNCHANGED <<database, host, cur, result, installs, environment>>

EntryOfRepeating(ph) ==                         \* mutant: the rollback is retried
    CASE ph = "execution-started"        -> "precondition"
      [] ph = "target-install-started"   -> "reconciling"
      [] ph \in {"target-installed", "rollback-installed"} -> "metadata"
      [] OTHER                           -> "start-rollback"

(* Where _execute_plan enters for each durable phase.                        *)
EntryOf(ph) ==
    CASE ph = "execution-started"        -> "precondition"
      [] ph = "target-install-started"   -> "reconciling"
      [] ph = "target-installed"         -> "metadata"
      [] ph = "rollback-required"        -> "start-rollback"
      [] ph = "rollback-install-started" -> "checkpoint"
      [] ph = "rollback-installed"       -> "metadata"

(* A checkpointed outcome is used as it is; a rollback whose installation    *)
(* may have been interrupted is never repeated and ends rollback-failed.     *)
Resume(p) ==
    /\ pc[p] = "resuming"
    /\ LET d == cur[p] IN
       IF pending[d] # None
       THEN Decide(p, "complete", pending[d])
       ELSE Decide(p, EntryOf(phase[d]),
                   IF phase[d] = "rollback-install-started"
                   THEN "rollback-failed" ELSE None)

(***************************************************************************)
(* The update: precondition, installation of the target, verification.       *)
(***************************************************************************)
CheckOldVersionLate(p) ==                       \* mutant: checkpoint after the fact
    /\ pc[p] = "precondition"
    /\ \E observed \in Readings :
         IF observed = OldVersion[cur[p]]
         THEN Decide(p, "target-install", None)
         ELSE Decide(p, "checkpoint", IF observed = Unreadable THEN "failed" ELSE "superseded")

CheckOldVersion(p) ==
    /\ pc[p] = "precondition"
    /\ \E observed \in Readings :
         \/ /\ observed = Unreadable
            /\ Decide(p, "checkpoint", "failed")
         \/ /\ observed \notin {Unreadable, OldVersion[cur[p]]}
            /\ Decide(p, "checkpoint", "superseded")
         \/ /\ observed = OldVersion[cur[p]]
            /\ SetPhase(p, "target-install-started", "target-install")

(* install_exact: the call returns or raises, and either way the package may *)
(* or may not have changed.                                                  *)
Install(p, permit, v) ==
    /\ package' \in AfterInstall(v)
    /\ installs' = [installs EXCEPT ![cur[p]][permit] = @ + 1]
    /\ UNCHANGED <<database, serving, lock, cur, environment>>

InstallTarget(p) ==
    /\ pc[p] = "target-install"
    /\ Install(p, "install-target", TargetVersion[cur[p]])
    /\ \/ GoTo(p, "target-install-returned")
       \/ GoTo(p, "target-install-raised")
    /\ UNCHANGED result

RecordTarget(p) ==
    /\ pc[p] = "target-install-returned"
    /\ SetPhase(p, "target-installed", "metadata")

ObserveFailedInstall(p) ==
    /\ pc[p] = "target-install-raised"
    /\ \E observed \in Readings :
         \/ /\ observed \in {Unreadable, OldVersion[cur[p]]}
            /\ Decide(p, "checkpoint", "rollback-failed")
         \/ /\ observed \notin {Unreadable, OldVersion[cur[p]]}
            /\ Decide(p, "begin-rollback", None)

ReconcileByRetry(p) ==                          \* mutant: install once more
    /\ pc[p] = "reconciling"
    /\ \E observed \in Readings :
         \/ /\ observed = TargetVersion[cur[p]]
            /\ SetPhase(p, "target-installed", "metadata")
         \/ /\ observed = OldVersion[cur[p]]
            /\ Decide(p, "target-install", None)
         \/ /\ observed \notin {OldVersion[cur[p]], TargetVersion[cur[p]]}
            /\ Decide(p, "begin-rollback", None)

(* An execution interrupted around the installation of the target looks at   *)
(* what is installed now.                                                    *)
Reconcile(p) ==
    /\ pc[p] = "reconciling"
    /\ \E observed \in Readings :
         \/ /\ observed = TargetVersion[cur[p]]
            /\ SetPhase(p, "target-installed", "metadata")
         \/ /\ observed = OldVersion[cur[p]]
            /\ Decide(p, "checkpoint", "rollback-failed")
         \/ /\ observed \notin {OldVersion[cur[p]], TargetVersion[cur[p]]}
            /\ Decide(p, "begin-rollback", None)

(***************************************************************************)
(* Verification, of the target after the update and of the old version after *)
(* the rollback: metadata, restart, health and MCP validation, in order.     *)
(***************************************************************************)
RollingBack(p) == phase[cur[p]] = "rollback-installed"

ExpectedVersion(p) ==
    IF RollingBack(p) THEN OldVersion[cur[p]] ELSE TargetVersion[cur[p]]

CheckFailed(p) ==
    IF RollingBack(p) THEN Move(p, "checkpoint", "rollback-failed")
                      ELSE Move(p, "begin-rollback", None)

VerifyMetadataReadable(p) ==                    \* mutant: any version will do
    /\ pc[p] = "metadata"
    /\ \E observed \in Readings :
         IF observed # Unreadable THEN Move(p, "restart", None) ELSE CheckFailed(p)
    /\ UNCHANGED serving

VerifyMetadata(p) ==
    /\ pc[p] = "metadata"
    /\ \E observed \in Readings :
         IF observed = ExpectedVersion(p) THEN Move(p, "restart", None)
                                          ELSE CheckFailed(p)
    /\ UNCHANGED serving

RestartService(p) ==
    /\ pc[p] = "restart"
    /\ \/ serving' = package /\ Move(p, "validation", None)
       \/ serving' \in {serving, package} /\ CheckFailed(p)

(* Health check and fresh MCP validation: two read-only external calls.      *)
Validate(p) ==
    /\ pc[p] = "validation"
    /\ \/ Move(p, "checkpoint",
                IF RollingBack(p) THEN "rolled-back" ELSE "completed")
       \/ CheckFailed(p)
    /\ UNCHANGED serving

(***************************************************************************)
(* The rollback.                                                             *)
(***************************************************************************)
BeginRollback(p) ==
    /\ pc[p] = "begin-rollback"
    /\ SetPhase(p, "rollback-required", "start-rollback")

StartRollbackInstall(p) ==
    /\ pc[p] = "start-rollback"
    /\ SetPhase(p, "rollback-install-started", "old-install")

ReinstallOld(p) ==
    /\ pc[p] = "old-install"
    /\ Install(p, "reinstall-old", OldVersion[cur[p]])
    /\ \/ GoTo(p, "old-install-returned") /\ UNCHANGED result
       \/ /\ GoTo(p, "checkpoint")
          /\ result' = [result EXCEPT ![p] = "rollback-failed"]

RecordRestored(p) ==
    /\ pc[p] = "old-install-returned"
    /\ SetPhase(p, "rollback-installed", "metadata")

(***************************************************************************)
(* Storing the outcome: checkpoint first, then one completing transaction.   *)
(***************************************************************************)
Checkpoint(p) ==
    /\ pc[p] = "checkpoint"
    /\ pending[cur[p]] = None
    /\ pending' = [pending EXCEPT ![cur[p]] = result[p]]
    /\ GoTo(p, "complete")
    /\ UNCHANGED <<run, phase, outcome, handler, removed, due, host, lock, cur,
                   result, installs, environment>>

RunStatusOfDecision(status) == status           \* mutant: the Decision's status

RunStatusOf(status) ==
    CASE status = "completed" -> "success"
      [] status = "rolled-back" -> "rolled-back"
      [] OTHER -> "failed"

Complete(p) ==
    /\ pc[p] = "complete"
    /\ LET d == cur[p] IN
       /\ run[d] = "running"
       /\ outcome[d] = None
       /\ run' = [run EXCEPT ![d] = RunStatusOf(result[p])]
       /\ outcome' = [outcome EXCEPT ![d] = result[p]]
       /\ due' = [due EXCEPT ![TaskOf[d]] =
                     @ \/ (result[p] = "superseded" /\ TaskOf[d] \notin removed)]
       /\ phase' = [phase EXCEPT ![d] = None]
       /\ pending' = [pending EXCEPT ![d] = None]
    /\ cur' = [cur EXCEPT ![p] = None]
    /\ result' = [result EXCEPT ![p] = None]
    /\ GoTo(p, "claiming")
    /\ UNCHANGED <<handler, removed, host, lock, installs, environment>>

(* The process dies, or an exception of its own leaves run_due_tasks; the    *)
(* flock goes with it and everything it held in memory is lost.              *)
Crash(p) ==
    /\ pc[p] # "idle"
    /\ crashes < MaxCrashes
    /\ crashes' = crashes + 1
    /\ GoTo(p, "idle")
    /\ lock' = IF lock = p THEN None ELSE lock
    /\ cur' = [cur EXCEPT ![p] = None]
    /\ result' = [result EXCEPT ![p] = None]
    /\ UNCHANGED <<database, host, installs, returned, overtaken, drifts, edits>>

(***************************************************************************)
(* The specification.                                                        *)
(***************************************************************************)
Claim(p) == \E d \in Decisions :
    ClaimPlan(p, d) \/ RejectClaim(p, d) \/ ClaimInterrupted(p, d)

Step(p) ==
    \/ StartRunDue(p) \/ AcquireLock(p) \/ Claim(p) \/ EndPass(p) \/ Resume(p)
    \/ CheckOldVersion(p) \/ InstallTarget(p) \/ RecordTarget(p)
    \/ ObserveFailedInstall(p) \/ Reconcile(p)
    \/ VerifyMetadata(p) \/ RestartService(p) \/ Validate(p)
    \/ BeginRollback(p) \/ StartRollbackInstall(p) \/ ReinstallOld(p)
    \/ RecordRestored(p) \/ Checkpoint(p) \/ Complete(p)

Surroundings ==
    \/ \E d \in Decisions : Approve(d)
    \/ \E t \in Tasks : UpdateTask(t) \/ RemoveTask(t)
    \/ PackageDrift

Next ==
    \/ \E p \in Processes : Step(p) \/ Crash(p)
    \/ Surroundings

Spec == Init /\ [][Next]_vars

(* The daily timer keeps starting run-due (Persistent=true makes up for a    *)
(* missed wake) and a started process keeps running until it ends or dies.   *)
FairSpec == Spec /\ \A p \in Processes : WF_vars(Step(p))

(***************************************************************************)
(* Properties.                                                               *)
(***************************************************************************)
(* Every variable keeps its type.                                            *)
TypeOK ==
    /\ run \in [Decisions -> RunStatuses]
    /\ phase \in [Decisions -> Phases \cup {None}]
    /\ pending \in [Decisions -> Outcomes \cup {None}]
    /\ outcome \in [Decisions -> Outcomes \cup {None}]
    /\ handler \in [Tasks -> Handlers] /\ removed \subseteq Tasks
    /\ due \in [Tasks -> BOOLEAN]
    /\ package \in Versions \cup {Unreadable}
    /\ serving \in Versions \cup {Unreadable}
    /\ lock \in Processes \cup {None}
    /\ pc \in [Processes -> Locations]
    /\ cur \in [Processes -> Decisions \cup {None}]
    /\ result \in [Processes -> Outcomes \cup {None}]
    /\ installs \in [Decisions -> [Permits -> Nat]]
    /\ returned \subseteq Tasks /\ overtaken \subseteq Decisions
    /\ crashes \in Nat /\ drifts \in Nat /\ edits \in Nat

(* However often run-due is started, killed and started again, install_exact *)
(* is called at most once for the target and at most once for the old        *)
(* version of one Decision: recovery never repeats an installation.          *)
InstallsAtMostOnce ==
    \A d \in Decisions : \A permit \in Permits : installs[d][permit] <= 1

(* The rows of three tables agree after every transaction: an approval Run   *)
(* is running exactly while it has a recovery row to resume from, and is in  *)
(* a terminal status exactly when its one execution outcome is stored.       *)
RowsAgree ==
    \A d \in Decisions :
        /\ run[d] = "running" <=> phase[d] # None
        /\ run[d] \in {"success", "rolled-back", "failed"} <=> outcome[d] # None
        /\ pending[d] # None => phase[d] # None

(* One plan at a time is between its claim and its outcome, and never two of *)
(* one Task.  A claimed Run whose Task was moved to another handler is passed *)
(* over, so an older plan can join one that is under way in one way only: a  *)
(* run-due died on the younger plan and the Task of the older one was moved  *)
(* back before the next pass, which then claims by age.                      *)
OverlapNeedsReturn ==
    \A d, e \in UnderWay :
        d < e => TaskOf[d] \in returned /\ TaskOf[d] # TaskOf[e]

(* A checkpointed outcome that a later pass would publish is still true of   *)
(* the host: "completed" means the package and the restarted service are at  *)
(* the target, "rolled-back" that both are at the old version, and "failed"  *)
(* or "superseded" that no installation was ever attempted for the Decision. *)
(* Only a plan that was claimed before it was published can have changed the *)
(* host.                                                                     *)
ServedAt(v) == package = v /\ serving = v

CheckpointIsTrue ==
    \A d \in Decisions :
        /\ pending[d] = "completed" => ServedAt(TargetVersion[d]) \/ d \in overtaken
        /\ pending[d] = "rolled-back" => ServedAt(OldVersion[d]) \/ d \in overtaken
        /\ pending[d] \in {"failed", "superseded"} =>
               installs[d] = [permit \in Permits |-> 0]

(* Write-ahead: while any plan is under way the package only changes after   *)
(* the durable phase of that plan announced the installation of that version.*)
AnnouncedChange(d) ==
    \/ phase[d] = "target-install-started" /\ package' \in {TargetVersion[d], Unreadable}
    \/ phase[d] = "rollback-install-started" /\ package' \in {OldVersion[d], Unreadable}

PackageWriteAhead ==
    [][package' # package /\ UnderWay # {}
          => \E d \in Decisions : AnnouncedChange(d)]_vars

(* Every approval is settled: once process deaths stop, an approved Decision *)
(* gets an execution outcome, unless its Run waits for ever because its Task *)
(* was moved to another handler and stays there.  A plan that was claimed is *)
(* recovered and settled wherever its Task is moved afterwards.              *)
WaitsForGood(d) == [](run[d] = "claimed" /\ handler[TaskOf[d]] = "other")

EveryApprovalSettles ==
    \A d \in Decisions :
        run[d] = "claimed" ~> (outcome[d] # None \/ WaitsForGood(d))

(* Refinement: this protocol keeps the promise of an approval.               *)
PlanState(d) ==
    CASE run[d] = "none"    -> "unapproved"
      [] run[d] = "claimed" -> "approved"
      [] run[d] = "running" -> "executing"
      [] OTHER              -> outcome[d]

Contract == INSTANCE PlanContract WITH
    plan  <- [d \in Decisions |-> PlanState(d)],
    spent <- installs

ContractKept == Contract!Spec

(* security.md: a failure before mutation performs no rollback, so the old   *)
(* version is only ever re-installed after the target was installed.         *)
NoRollbackBeforeMutation ==
    \A d \in Decisions :
        installs[d]["reinstall-old"] > 0 => installs[d]["install-target"] > 0
=============================================================================
