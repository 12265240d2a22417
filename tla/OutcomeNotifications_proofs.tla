-------------------- MODULE OutcomeNotifications_proofs --------------------
(***************************************************************************)
(* What is proved of OutcomeNotifications for every number of outcomes, any  *)
(* claim timeout and any number of deaths and failing sends.  The inductive  *)
(* invariant relates the place of the pass to the row it has claimed.        *)
(***************************************************************************)
EXTENDS OutcomeNotifications, TLAPS

(* While the pass is between its claim and its record, the row it claimed is *)
(* "sending", and before the call nothing was received that is not counted.  *)
ClaimHeld ==
    /\ pc \in {"sending", "sent", "not-sent"} =>
           cur \in Decisions /\ note[cur] = "sending"
    /\ pc = "sending" => received[cur] <= attempts[cur]

(* One message about d is not a duplicate: the one recorded as delivered, or *)
(* the one just sent and about to be recorded.                               *)
Wanted(d) == IF note[d] = "delivered" \/ (pc = "sent" /\ cur = d) THEN 1 ELSE 0

(* Every other message about d was paid for by a death or by a failing send. *)
FaultsPayForMessages ==
    \A d \in Decisions : received[d] <= crashes + failures + Wanted(d)

IInv ==
    /\ TypeOK
    /\ ClaimHeld
    /\ AttemptsAccountForMessages
    /\ FaultsPayForMessages

LEMMA IInvInit == Init => IInv
  BY NotificationAssumption
     DEF Init, IInv, TypeOK, Ticks, Statuses, Places, ClaimHeld,
         AttemptsAccountForMessages, FaultsPayForMessages, Wanted

(* Releasing expired claims turns open claims into counted attempts.         *)
LEMMA ReleaseCounts ==
    ASSUME TypeOK, NEW d \in Decisions
    PROVE  /\ Release[d] \in Nat
           /\ Release[d] = IF Expired(d) THEN attempts[d] + 1 ELSE attempts[d]
           /\ Expired(d) => note[d] = "sending"
  BY DEF TypeOK, Release, Expired

LEMMA IInvStep == IInv /\ [Next]_vars => IInv'
<1> SUFFICES ASSUME IInv, [Next]_vars PROVE IInv'
  OBVIOUS
<1> USE NotificationAssumption
<1> USE DEF IInv, TypeOK, Ticks, Statuses, Places, ClaimHeld,
            AttemptsAccountForMessages, FaultsPayForMessages, Wanted
<1>1. CASE Tick
  BY <1>1 DEF Tick, rows, pass
<1>2. CASE StartPass
  BY <1>2 DEF StartPass, Round, rows
<1>3. CASE Claim
  <2> DEFINE released == [d \in Decisions |->
                             IF Expired(d) THEN "retryable-failure" ELSE note[d]]
             claimable == {d \in Decisions : released[d] \in Owed /\ InScope(d)}
  <2>1. /\ pc = "delivering" /\ attempts' = Release
        /\ UNCHANGED <<now, scope, received, crashes, failures>>
    BY <1>3 DEF Claim
  <2>2. \A d \in Decisions :
          /\ Release[d] \in Nat
          /\ Release[d] = IF Expired(d) THEN attempts[d] + 1 ELSE attempts[d]
          /\ Expired(d) => note[d] = "sending"
    BY ReleaseCounts
  <2>3. attempts' \in [Decisions -> Nat]
    BY <2>1, <2>2 DEF Release
  <2>4. released \in [Decisions -> Statuses]
    OBVIOUS
  <2>5. CASE claimable = {} /\ note' = released /\ pc' = "executing"
             /\ UNCHANGED <<claimedAt, cur, tried>>
    BY <2>1, <2>2, <2>3, <2>4, <2>5
  <2>6. ASSUME NEW d \in claimable,
               note' = [released EXCEPT ![d] = "sending"],
               claimedAt' = [claimedAt EXCEPT ![d] = now],
               cur' = d /\ tried' = tried \cup {d} /\ pc' = "sending"
        PROVE  IInv'
    <3>1. d \in Decisions /\ released[d] \in Owed
      OBVIOUS
    <3>2. note[d] # "delivered" /\ (note[d] = "sending" => Expired(d))
      <4>1. released[d] = IF Expired(d) THEN "retryable-failure" ELSE note[d]
        BY <3>1
      <4>2. released[d] \in {"pending", "retryable-failure"}
        BY <3>1 DEF Owed
      <4>3. CASE Expired(d)
        BY <4>3, <2>2, <3>1
      <4>4. CASE ~Expired(d)
        BY <4>1, <4>2, <4>4
      <4> QED
        BY <4>3, <4>4
    <3>3. received[d] <= attempts'[d]
      BY <2>1, <2>2, <3>1, <3>2
    <3>4. TypeOK'
      BY <2>1, <2>3, <2>4, <2>6, <3>1
    <3>5. ClaimHeld'
      BY <2>1, <2>6, <3>1, <3>3, <2>4
    <3>6. AttemptsAccountForMessages'
      BY <2>1, <2>2, <2>4, <2>6, <3>1, <3>3
    <3>7. FaultsPayForMessages'
      BY <2>1, <2>2, <2>4, <2>6, <3>1, <3>2
    <3> QED
      BY <3>4, <3>5, <3>6, <3>7
  <2> QED
    BY <1>3, <2>5, <2>6 DEF Claim
<1>4. CASE Send
  <2>1. pc = "sending" /\ cur \in Decisions /\ note[cur] = "sending"
        /\ received[cur] <= attempts[cur]
    BY <1>4 DEF Send
  <2>2. CASE pc' = "sent" /\ received' = [received EXCEPT ![cur] = @ + 1]
             /\ UNCHANGED failures
    BY <1>4, <2>1, <2>2 DEF Send, rows
  <2>3. CASE failures' = failures + 1 /\ pc' = "not-sent"
             /\ received' \in {received, [received EXCEPT ![cur] = @ + 1]}
    BY <1>4, <2>1, <2>3 DEF Send, rows
  <2> QED
    BY <1>4, <2>2, <2>3 DEF Send
<1>5. CASE Record
  BY <1>5 DEF Record, Result
<1>6. ASSUME NEW d \in Decisions, CompleteExecution(d) PROVE IInv'
  BY <1>6 DEF CompleteExecution, Round
<1>7. CASE EndPass
  BY <1>7 DEF EndPass, Stop, rows
<1>8. CASE Crash
  BY <1>8 DEF Crash, Stop, rows
<1>9. CASE UNCHANGED vars
  BY <1>9 DEF vars
<1> QED
  BY <1>1, <1>2, <1>3, <1>4, <1>5, <1>6, <1>7, <1>8, <1>9 DEF Next, Step

LEMMA IInvHolds == Spec => []IInv
  BY IInvInit, IInvStep, PTL DEF Spec

(* Every variable of the delivery protocol keeps its type.                   *)
THEOREM TypeCorrect == Spec => []TypeOK
  BY IInvHolds, PTL DEF IInv

(* However long claims last and however often passes die, the stored count   *)
(* of attempts accounts for every message the operator received.             *)
THEOREM MessagesAreAccountedFor == Spec => []AttemptsAccountForMessages
  BY IInvHolds, PTL DEF IInv

(* Nobody hears of an outcome twice without a death or a failing send.       *)
THEOREM DuplicatesArePaidFor == Spec => []DuplicatesCostFaults
<1>1. IInv => DuplicatesCostFaults
  BY DEF IInv, TypeOK, FaultsPayForMessages, Wanted, DuplicatesCostFaults
<1> QED
  BY <1>1, IInvHolds, PTL

(* A delivered notification is never claimed, sent or changed again.         *)
THEOREM DeliveryIsFinal == Spec => DeliveredIsFinal
<1> DEFINE Final == \A d \in Decisions : note[d] = "delivered" =>
                        note'[d] = "delivered" /\ received'[d] = received[d]
<1>1. IInv /\ [Next]_vars => [Final]_vars
  <2> SUFFICES ASSUME IInv, Next, NEW d \in Decisions, note[d] = "delivered"
               PROVE  note'[d] = "delivered" /\ received'[d] = received[d]
    BY DEF vars
  <2> USE DEF IInv, TypeOK, ClaimHeld
  <2>1. CASE Claim
    BY <2>1 DEF Claim, Expired, Owed
  <2>2. CASE Send
    BY <2>2 DEF Send, rows
  <2>3. CASE Record
    BY <2>3 DEF Record
  <2>4. ASSUME NEW e \in Decisions, CompleteExecution(e)
        PROVE  note'[d] = "delivered" /\ received'[d] = received[d]
    BY <2>4 DEF CompleteExecution
  <2>5. CASE Tick \/ StartPass \/ EndPass \/ Crash
    BY <2>5 DEF Tick, StartPass, EndPass, Crash, rows
  <2> QED
    BY <2>1, <2>2, <2>3, <2>4, <2>5 DEF Next, Step
<1> QED
  BY <1>1, IInvHolds, PTL DEF Spec, DeliveredIsFinal
=============================================================================
