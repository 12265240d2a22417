---------------------------- MODULE PlanContract ----------------------------
(***************************************************************************)
(* What approving a Pi MCP update plan promises, without processes,         *)
(* checkpoints or crashes.  Approval of a Decision hands out two one-time    *)
(* permits: one installation of the approved target and one re-installation *)
(* of the approved old version.  A permit is spent while the plan is         *)
(* executing and is never handed out again; the plan ends in one of five     *)
(* outcomes, and which permits were spent bounds which outcome it may report.*)
(***************************************************************************)
EXTENDS Naturals, FiniteSets

CONSTANTS Decisions         \* Decisions that carry an update plan

VARIABLES
    plan,    \* plan[d]: where the plan of Decision d stands
    spent    \* spent[d][permit]: how often a package permit of d has been used

contractVars == <<plan, spent>>

PlanOutcomes == {"completed", "rolled-back", "rollback-failed", "failed", "superseded"}
PlanStates   == {"unapproved", "approved", "executing"} \cup PlanOutcomes
Permits      == {"install-target", "reinstall-old"}
Unused       == [permit \in Permits |-> 0]

Init ==
    /\ plan = [d \in Decisions |-> "unapproved"]
    /\ spent = [d \in Decisions |-> Unused]

Authorize(d) ==
    /\ plan[d] = "unapproved"
    /\ plan' = [plan EXCEPT ![d] = "approved"]
    /\ UNCHANGED spent

Begin(d) ==
    /\ plan[d] = "approved"
    /\ plan' = [plan EXCEPT ![d] = "executing"]
    /\ UNCHANGED spent

Refuse(d) ==
    /\ plan[d] = "approved"
    /\ plan' = [plan EXCEPT ![d] = "failed"]
    /\ UNCHANGED spent

(* The old version is only put back while its permit lasts, and the target  *)
(* is never installed once the rollback has begun.                           *)
Spend(d, permit) ==
    /\ plan[d] = "executing"
    /\ spent[d][permit] = 0
    /\ permit = "install-target" => spent[d]["reinstall-old"] = 0
    /\ spent' = [spent EXCEPT ![d][permit] = 1]
    /\ UNCHANGED plan

(* Another plan has used a permit: the package may have come from there.     *)
ChangedByOthers(d) ==
    \E other \in Decisions \ {d}, permit \in Permits : spent[other][permit] > 0

(* Success has spent the target permit and nothing else, unless the target   *)
(* was found installed after another plan; a verified rollback has spent the *)
(* other permit, and an outcome that announces nothing has spent none.       *)
JustifiedBy(d, outcome) ==
    /\ outcome = "completed" =>
           /\ spent[d]["reinstall-old"] = 0
           /\ spent[d]["install-target"] = 1 \/ ChangedByOthers(d)
    /\ outcome = "rolled-back" => spent[d]["reinstall-old"] = 1
    /\ outcome \in {"failed", "superseded"} => spent[d] = Unused

Settle(d, outcome) ==
    /\ plan[d] = "executing"
    /\ JustifiedBy(d, outcome)
    /\ plan' = [plan EXCEPT ![d] = outcome]
    /\ UNCHANGED spent

Next == \E d \in Decisions :
    \/ Authorize(d)
    \/ Begin(d)
    \/ Refuse(d)
    \/ \E permit \in Permits : Spend(d, permit)
    \/ \E outcome \in PlanOutcomes : Settle(d, outcome)

Spec == Init /\ [][Next]_contractVars

TypeOK ==
    /\ plan \in [Decisions -> PlanStates]
    /\ spent \in [Decisions -> [Permits -> {0, 1}]]
=============================================================================
