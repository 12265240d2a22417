------------------------ MODULE OutcomeNotifications ------------------------
(***************************************************************************)
(* pi_mcp_execution.py: how run-due tells the operator how an approved plan  *)
(* ended.  The outcome row carries the state of its notification.  A pass    *)
(* first tries every notification still owed, then executes approved plans,  *)
(* each followed by its own notification.  Before a message is sent its row  *)
(* is claimed ("sending"); the claim of a pass that died expires, because    *)
(* nobody can know whether the message went out.                             *)
(*                                                                           *)
(* Passes are serialised by the execution lock, so one pass is modelled.     *)
(* Decisions are numbered in the order of completed_at.                      *)
(***************************************************************************)
EXTENDS Naturals, FiniteSets

CONSTANTS
    Decisions,     \* numbers of the Decisions with an outcome to report
    Urgency,       \* Urgency[d]: 0 rollback-failed, 1 rolled-back, 2 completed
    ClaimTimeout,  \* _NOTIFICATION_CLAIM_TIMEOUT, in ticks
    None,          \* no Decision
    MaxTime,       \* bound: the clock stops at this tick
    MaxCrashes,    \* bound: deaths of a pass
    MaxFailures    \* bound: send calls that raise

OwedToAll == {"pending", "retryable-failure", "delivered"}    \* mutant: no status filter

Statuses == {"absent", "pending", "sending", "retryable-failure", "delivered"}
Owed     == {"pending", "retryable-failure"}
Places   == {"idle", "delivering", "sending", "sent", "not-sent", "executing"}
Ticks    == 0..MaxTime

ASSUME NotificationAssumption ==
    /\ Decisions \subseteq Nat
    /\ Urgency \in [Decisions -> 0..2]
    /\ ClaimTimeout \in Nat
    /\ None \notin Decisions
    /\ MaxTime \in Nat /\ MaxCrashes \in Nat /\ MaxFailures \in Nat

VARIABLES
    now,
    note,        \* note[d]: notification_status, "absent" before the outcome
    claimedAt,   \* claimedAt[d]: notification_claimed_at, while "sending"
    attempts,    \* attempts[d]: notification_attempts
    pc,          \* where the pass is
    scope,       \* the Decision just executed, None while everything owed is tried
    tried,       \* attempted_decision_ids of this round
    cur,         \* the Decision whose notification it has claimed
    received,    \* received[d]: messages about d that reached the operator
    crashes, failures

rows == <<note, claimedAt, attempts>>
pass == <<pc, scope, tried, cur>>
vars == <<now, note, claimedAt, attempts, pc, scope, tried, cur, received, crashes,
          failures>>

Init ==
    /\ now = 0
    /\ note = [d \in Decisions |-> "absent"]
    /\ claimedAt = [d \in Decisions |-> 0]
    /\ attempts = [d \in Decisions |-> 0]
    /\ pc = "idle" /\ scope = None /\ tried = {} /\ cur = None
    /\ received = [d \in Decisions |-> 0]
    /\ crashes = 0 /\ failures = 0

Tick ==
    /\ now < MaxTime
    /\ now' = now + 1
    /\ UNCHANGED <<rows, pass, received, crashes, failures>>

(* _deliver_pending_execution_notifications(decision_id = d).                *)
Round(d) == pc' = "delivering" /\ scope' = d /\ tried' = {} /\ cur' = None

StartPass ==
    /\ pc = "idle"
    /\ Round(None)
    /\ UNCHANGED <<now, rows, received, crashes, failures>>

(* Claim times have whole seconds and the cutoff has microseconds; as texts  *)
(* an equal time compares greater, so a claim is only released after it.     *)
Expired(d) == note[d] = "sending" /\ claimedAt[d] + ClaimTimeout < now

MoreUrgent(d, e) == Urgency[d] < Urgency[e] \/ (Urgency[d] = Urgency[e] /\ d < e)

InScope(d) == d \notin tried /\ scope \in {None, d}

ClaimNeverReleasing ==                          \* mutant: an interrupted send stays claimed
    /\ pc = "delivering"
    /\ LET claimable == {d \in Decisions : note[d] \in Owed /\ InScope(d)} IN
       \/ /\ claimable = {}
          /\ pc' = "executing" /\ UNCHANGED <<note, claimedAt, cur, tried>>
       \/ \E d \in claimable :
            /\ \A e \in claimable \ {d} : MoreUrgent(d, e)
            /\ note' = [note EXCEPT ![d] = "sending"]
            /\ claimedAt' = [claimedAt EXCEPT ![d] = now]
            /\ cur' = d /\ tried' = tried \cup {d} /\ pc' = "sending"
    /\ UNCHANGED <<now, attempts, scope, received, crashes, failures>>

ReleaseUncounted ==                             \* mutant: the interrupted attempt is not counted
    attempts

(* An interrupted attempt counts as one.                                     *)
Release == [d \in Decisions |-> IF Expired(d) THEN attempts[d] + 1 ELSE attempts[d]]

(* _claim_execution_notification: expired claims are released and the most   *)
(* urgent notification owed is claimed, in one transaction.                  *)
Claim ==
    /\ pc = "delivering"
    /\ attempts' = Release
    /\ LET released  == [d \in Decisions |->
                            IF Expired(d) THEN "retryable-failure" ELSE note[d]]
           claimable == {d \in Decisions : released[d] \in Owed /\ InScope(d)}
       IN
       \/ /\ claimable = {}
          /\ note' = released
          /\ pc' = "executing"
          /\ UNCHANGED <<claimedAt, cur, tried>>
       \/ \E d \in claimable :
            /\ \A e \in claimable \ {d} : MoreUrgent(d, e)
            /\ note' = [released EXCEPT ![d] = "sending"]
            /\ claimedAt' = [claimedAt EXCEPT ![d] = now]
            /\ cur' = d /\ tried' = tried \cup {d}
            /\ pc' = "sending"
    /\ UNCHANGED <<now, scope, received, crashes, failures>>

(* adapter.send returns, or raises although the message may have gone out.   *)
Send ==
    /\ pc = "sending"
    /\ \/ /\ pc' = "sent"
          /\ received' = [received EXCEPT ![cur] = @ + 1]
          /\ UNCHANGED failures
       \/ /\ failures < MaxFailures
          /\ failures' = failures + 1
          /\ pc' = "not-sent"
          /\ received' \in {received, [received EXCEPT ![cur] = @ + 1]}
    /\ UNCHANGED <<now, rows, scope, tried, cur, crashes>>

RecordReopening ==                              \* mutant: success is not recorded
    /\ pc \in {"sent", "not-sent"} /\ note[cur] = "sending"
    /\ note' = [note EXCEPT ![cur] = "retryable-failure"]
    /\ attempts' = [attempts EXCEPT ![cur] = @ + 1]
    /\ pc' = IF scope = None THEN "delivering" ELSE "executing"
    /\ cur' = None
    /\ UNCHANGED <<now, claimedAt, scope, tried, received, crashes, failures>>

ResultOfStep == IF pc = "sent" THEN "success" ELSE "failed"   \* mutant: the step's status

Result == IF pc = "sent" THEN "delivered" ELSE "retryable-failure"

(* _record_execution_notification: the claim must still be there.            *)
Record ==
    /\ pc \in {"sent", "not-sent"}
    /\ note[cur] = "sending"
    /\ note' = [note EXCEPT ![cur] = Result]
    /\ attempts' = [attempts EXCEPT ![cur] = @ + 1]
    /\ pc' = IF scope = None THEN "delivering" ELSE "executing"
    /\ cur' = None
    /\ UNCHANGED <<now, claimedAt, scope, tried, received, crashes, failures>>

(* _complete_execution stores the outcome, then its notification is tried.   *)
CompleteExecution(d) ==
    /\ pc = "executing"
    /\ note[d] = "absent"
    /\ \A e \in Decisions : e < d => note[e] # "absent"
    /\ note' = [note EXCEPT ![d] = "pending"]
    /\ Round(d)
    /\ UNCHANGED <<now, claimedAt, attempts, received, crashes, failures>>

Stop == pc' = "idle" /\ scope' = None /\ tried' = {} /\ cur' = None

EndPass ==
    /\ pc = "executing"
    /\ Stop
    /\ UNCHANGED <<now, rows, received, crashes, failures>>

(* A pass only dies while the bounded clock leaves room for its claim to     *)
(* expire.                                                                   *)
Crash ==
    /\ pc # "idle"
    /\ crashes < MaxCrashes
    /\ now + ClaimTimeout < MaxTime
    /\ crashes' = crashes + 1
    /\ Stop
    /\ UNCHANGED <<now, rows, received, failures>>

Step ==
    \/ StartPass \/ Claim \/ Send \/ Record \/ EndPass
    \/ \E d \in Decisions : CompleteExecution(d)

Next == Tick \/ Step \/ Crash

Spec == Init /\ [][Next]_vars

(* The timer starts run-due again and again and a pass runs to its end; the  *)
(* clock advances past every claim.                                          *)
FairSpec == Spec /\ WF_vars(Tick) /\ WF_vars(Step)

(***************************************************************************)
(* Properties.                                                               *)
(***************************************************************************)
(* Every variable keeps its type.                                            *)
TypeOK ==
    /\ now \in Ticks
    /\ note \in [Decisions -> Statuses]
    /\ claimedAt \in [Decisions -> Ticks]
    /\ attempts \in [Decisions -> Nat]
    /\ pc \in Places
    /\ scope \in Decisions \cup {None} /\ cur \in Decisions \cup {None}
    /\ tried \subseteq Decisions
    /\ received \in [Decisions -> Nat]
    /\ crashes \in Nat /\ failures \in Nat

(* The stored count never falls behind what the operator received: every     *)
(* message is accounted for by a recorded attempt or by a claim that is      *)
(* still open and will be counted when it is recorded or released.           *)
AttemptsAccountForMessages ==
    \A d \in Decisions :
        received[d] <= attempts[d] + (IF note[d] = "sending" THEN 1 ELSE 0)

(* A duplicate costs a fault: the operator hears of one outcome more than    *)
(* once only after a pass died or a send call raised.                        *)
DuplicatesCostFaults ==
    \A d \in Decisions : received[d] <= 1 + crashes + failures

(* What was recorded as delivered is never sent again.                       *)
DeliveredIsFinal ==
    [][\A d \in Decisions : note[d] = "delivered" =>
          note'[d] = "delivered" /\ received'[d] = received[d]]_vars

(* Every outcome is reported in the end, also when the pass that reported    *)
(* it died between sending and recording.                                    *)
EveryOutcomeIsReported ==
    \A d \in Decisions : note[d] # "absent" ~> note[d] = "delivered"
=============================================================================
