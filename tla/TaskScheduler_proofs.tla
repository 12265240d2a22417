------------------------ MODULE TaskScheduler_proofs ------------------------
(***************************************************************************)
(* What is proved of TaskScheduler for any number of Tasks, passes, clients, *)
(* commands, deaths and stale plans, whatever the clock does.                *)
(***************************************************************************)
EXTENDS TaskScheduler, FiniteSetTheorems, NaturalsInduction, TLAPS

(***************************************************************************)
(* An occurrence is executed at most once.                                   *)
(***************************************************************************)
(* Before its Run is running the handler has not been called, and a Run is   *)
(* running only once; the unique index keeps a Run from being claimed again. *)
ExecutedAsRun ==
    /\ run \in [Tasks -> [Ticks -> RunStatuses]]
    /\ executed \in [Tasks -> [Ticks -> Nat]]
    /\ \A t \in Tasks, s \in Ticks :
           executed[t][s] <= IF run[t][s] \in {"none", "claimed"} THEN 0 ELSE 1

LEMMA ExecutedInit == Init => ExecutedAsRun
  BY DEF Init, ExecutedAsRun, RunStatuses

(* Only three steps write what the invariant speaks of.                      *)
LEMMA ExecutedStep == ExecutedAsRun /\ [Next]_vars => ExecutedAsRun'
<1> SUFFICES ASSUME ExecutedAsRun, [Next]_vars PROVE ExecutedAsRun'
  OBVIOUS
<1> USE DEF ExecutedAsRun, RunStatuses
<1>1. ASSUME UNCHANGED <<run, executed>> PROVE ExecutedAsRun'
  BY <1>1
<1>2. ASSUME NEW p \in Processes, ClaimOccurrence(p) PROVE ExecutedAsRun'
  BY <1>2 DEF ClaimOccurrence, AdvanceAndInsert
<1>3. ASSUME NEW t, NEW s, run[t][s] = "claimed",
             run' = [run EXCEPT ![t][s] = "running"],
             executed' = [executed EXCEPT ![t][s] = @ + 1]
      PROVE  ExecutedAsRun'
  <2>1. run' \in [Tasks -> [Ticks -> RunStatuses]]
    BY <1>3
  <2>2. executed' \in [Tasks -> [Ticks -> Nat]]
    <3>1. ASSUME NEW u \in Tasks PROVE executed'[u] \in [Ticks -> Nat]
      <4>1. CASE u # t
        BY <1>3, <4>1
      <4>2. CASE u = t
        <5>1. executed'[u] = [executed[u] EXCEPT ![s] = executed[u][s] + 1]
          BY <1>3, <4>2
        <5>2. executed[u] \in [Ticks -> Nat]
          OBVIOUS
        <5>3. s \in Ticks => executed[u][s] + 1 \in Nat
          BY <5>2
        <5> QED
          BY ONLY <5>1, <5>2, <5>3
      <4> QED
        BY <4>1, <4>2
    <3> QED
      BY <1>3, <3>1
  <2>3. ASSUME NEW u \in Tasks, NEW r \in Ticks
        PROVE  executed'[u][r] <= IF run'[u][r] \in {"none", "claimed"} THEN 0 ELSE 1
    <3>1. CASE u = t /\ r = s
      BY <1>3, <3>1
    <3>2. CASE ~(u = t /\ r = s)
      BY <1>3, <3>2
    <3> QED
      BY <3>1, <3>2
  <2> QED
    BY <2>1, <2>2, <2>3
<1>4. ASSUME NEW t, NEW s, run[t][s] = "running", UNCHANGED executed,
             NEW status \in {"finished", "decision-required"},
             run' = [run EXCEPT ![t][s] = status]
      PROVE  ExecutedAsRun'
  BY <1>4
<1>5. ASSUME NEW p \in Processes, Pass(p) PROVE ExecutedAsRun'
  <2>1. CASE BeginRun(p)
    BY <2>1, <1>3 DEF BeginRun
  <2>2. CASE FinishRun(p)
    <3>1. PICK status \in {"finished", "decision-required"} :
            /\ run[Head(claims[p])[1]][Head(claims[p])[2]] = "running"
            /\ run' = [run EXCEPT ![Head(claims[p])[1]][Head(claims[p])[2]] = status]
            /\ UNCHANGED executed
      BY <2>2 DEF FinishRun
    <3> QED
      BY <3>1, <1>4
  <2>3. ASSUME ~ClaimOccurrence(p), ~BeginRun(p), ~FinishRun(p)
        PROVE  UNCHANGED <<run, executed>>
    BY <1>5, <2>3
       DEF Pass, StartRunDue, AcquireLock, SettlePlan, SupersedePlan,
           FinishApprovals, ListDueTasks, SkipClaim, RefuseClaim, FinishClaims, EndPass
  <2> QED
    BY <1>1, <1>2, <2>1, <2>2, <2>3
<1>6. ASSUME NEW c \in Clients, Command(c) PROVE ExecutedAsRun'
  BY <1>1, <1>6
     DEF Command, ReadTask, UpdateTask, SetTaskEnabled, RemoveTask, TaskNotFound,
         AdvanceManualRun
<1> QED
  BY <1>1, <1>5, <1>6 DEF Next, Tick, Crash, ApproveDecision, vars

(* However next_run_at is rewound by concurrent updates and whenever passes  *)
(* die, the handler runs at most once for a scheduled occurrence.            *)
THEOREM ExecutedOnce == Spec => []OccurrenceExecutedOnce
<1>1. ExecutedAsRun => OccurrenceExecutedOnce
  BY DEF ExecutedAsRun, OccurrenceExecutedOnce
<1> QED
  BY <1>1, ExecutedInit, ExecutedStep, PTL DEF Spec

(***************************************************************************)
(* A tombstone is final.                                                     *)
(***************************************************************************)
(* A removed Task is disabled, and clients know only Tasks that exist.       *)
Tombstones ==
    /\ removed \subseteq Tasks
    /\ next = [t \in Tasks |-> next[t]]
    /\ enabled = [t \in Tasks |-> enabled[t]]
    /\ \A t \in removed : ~enabled[t]
    /\ client = [c \in Clients |-> client[c]]
    /\ \A c \in Clients : client[c] # None => client[c].task \in Tasks

(* What a step may do to the registry and to a client.                       *)
RegistryStep ==
    \/ UNCHANGED <<registry, client>>
    \/ /\ UNCHANGED <<enabled, removed, client>>
       /\ \E t, v : t \notin removed /\ next' = [next EXCEPT ![t] = v]
    \/ \E c \in Clients : Command(c)

LEMMA StepsOnRegistry == Tombstones /\ [Next]_vars => RegistryStep
<1> SUFFICES ASSUME Tombstones, [Next]_vars PROVE RegistryStep
  OBVIOUS
<1> USE DEF RegistryStep, registry
<1>1. ASSUME NEW p \in Processes, Pass(p) PROVE RegistryStep
  <2>1. ASSUME NEW t \in Tasks, SupersedePlan(p, t) PROVE RegistryStep
    <3>1. CASE t \in removed
      <4>1. next' = next
        BY <2>1, <3>1 DEF SupersedePlan, Tombstones
      <4> QED
        BY <2>1, <4>1 DEF SupersedePlan
    <3>2. CASE t \notin removed
      <4>1. next' = [next EXCEPT ![t] = seen[p]]
        BY <2>1, <3>2 DEF SupersedePlan
      <4> QED
        BY <2>1, <3>2, <4>1 DEF SupersedePlan
    <3> QED
      BY <3>1, <3>2
  <2>2. CASE ClaimOccurrence(p)
    BY <2>2 DEF ClaimOccurrence, AdvanceAndInsert, IsDue
  <2> QED
    BY <1>1, <2>1, <2>2
       DEF Pass, StartRunDue, AcquireLock, SettlePlan, FinishApprovals, ListDueTasks,
           SkipClaim, RefuseClaim, FinishClaims, BeginRun, FinishRun, EndPass
<1>2. ASSUME NEW p \in Processes, Crash(p) PROVE RegistryStep
  BY <1>2 DEF Crash
<1>3. ASSUME NEW t \in Tasks, ApproveDecision(t) PROVE RegistryStep
  BY <1>3 DEF ApproveDecision
<1> QED
  BY <1>1, <1>2, <1>3 DEF Next, Tick, vars

LEMMA TombstonesInit == Init => Tombstones
  BY DEF Init, Tombstones

LEMMA TombstonesStep == Tombstones /\ [Next]_vars => Tombstones'
<1> SUFFICES ASSUME Tombstones, RegistryStep PROVE Tombstones'
  BY StepsOnRegistry
<1> USE DEF Tombstones
<1>1. CASE UNCHANGED <<registry, client>>
  BY <1>1 DEF registry
<1>2. ASSUME UNCHANGED <<enabled, removed, client>>, NEW t, t \notin removed, NEW v,
             next' = [next EXCEPT ![t] = v]
      PROVE  Tombstones'
  BY <1>2
<1>3. ASSUME NEW c \in Clients, Command(c) PROVE Tombstones'
  <2>1. ASSUME NEW t \in Tasks, NEW command \in AllCommands, ReadTask(c, t, command)
        PROVE  Tombstones'
    BY <2>1 DEF ReadTask, registry
  <2>2. CASE UpdateTask(c)
    BY <2>2 DEF UpdateTask, Done
  <2>3. CASE SetTaskEnabled(c)
    BY <2>3 DEF SetTaskEnabled, Done
  <2>4. CASE RemoveTask(c)
    BY <2>4 DEF RemoveTask, Done
  <2>5. CASE TaskNotFound(c) \/ AdvanceManualRun(c)
    BY <2>5 DEF TaskNotFound, AdvanceManualRun, Done, registry
  <2> QED
    BY <1>3, <2>1, <2>2, <2>3, <2>4, <2>5 DEF Command
<1> QED
  BY <1>1, <1>2, <1>3 DEF RegistryStep

(* No late write of an update, of enable or disable, of a claim or of a      *)
(* fresh check reaches the row of a removed Task.                            *)
THEOREM RemovedIsFinal == Spec => TombstoneIsFinal
<1>1. Tombstones /\ [Next]_vars =>
        [\A t \in removed : t \in removed' /\ next'[t] = next[t] /\ ~enabled'[t]]_vars
  <2> SUFFICES ASSUME Tombstones, RegistryStep, Tombstones', NEW t \in removed
               PROVE  t \in removed' /\ next'[t] = next[t] /\ ~enabled'[t]
    BY StepsOnRegistry, TombstonesStep
  <2>1. t \in removed' /\ next'[t] = next[t]
    BY DEF Tombstones, RegistryStep, registry, Command, ReadTask, UpdateTask,
           SetTaskEnabled, RemoveTask, TaskNotFound, AdvanceManualRun
  <2> QED
    BY <2>1 DEF Tombstones
<1> QED
  BY <1>1, TombstonesInit, TombstonesStep, PTL DEF Spec, TombstoneIsFinal

(***************************************************************************)
(* Listing and advancing.  The two CHOOSEs of TaskScheduler have something   *)
(* to choose: an order of the due Tasks, and a next occurrence.             *)
(***************************************************************************)
IsOrdered(order, due) ==
    \A i, j \in 1..Cardinality(due) : i < j => Before(order[i], order[j])

(* A Task's place in the order is the number of due Tasks before it.         *)
LEMMA OrderExists ==
  ASSUME NEW due \in SUBSET Tasks, next \in [Tasks -> Nat]
  PROVE  \E order \in [1..Cardinality(due) -> due] : IsOrdered(order, due)
<1> DEFINE Below(t) == {u \in due : Before(u, t)}
           Rank == [t \in due |-> Cardinality(Below(t)) + 1]
           n == Cardinality(due)
<1>1. Tasks \subseteq Nat /\ IsFiniteSet(Tasks)
  BY SchedulerAssumption DEF SchedulerAssumption
<1>2. IsFiniteSet(due) /\ n \in Nat
  BY <1>1, FS_Subset, FS_CardinalityType
<1>3. \A t, u \in due : t # u => Before(t, u) \/ Before(u, t)
  BY <1>1 DEF Before
<1>4. \A t, u, v \in due : Before(t, u) /\ Before(u, v) => Before(t, v)
  BY <1>1 DEF Before
<1>5. \A t \in due : ~Before(t, t)
  BY <1>1 DEF Before
<1>6. ASSUME NEW t \in due
      PROVE  IsFiniteSet(Below(t)) /\ Cardinality(Below(t)) \in Nat /\ Rank[t] \in 1..n
  <2>1. Below(t) \in SUBSET due /\ t \notin Below(t)
    BY <1>5
  <2>2. IsFiniteSet(Below(t)) /\ Cardinality(Below(t)) \in Nat
        /\ Cardinality(Below(t)) <= n /\ Cardinality(Below(t)) # n
    <3> HIDE DEF Below
    <3> QED
      BY <1>2, <2>1, FS_Subset, FS_CardinalityType
  <2> QED
    BY <1>2, <2>2
<1>7. ASSUME NEW t \in due, NEW u \in due, Before(t, u) PROVE Rank[t] < Rank[u]
  <2>1. Below(t) \in SUBSET Below(u) /\ t \in Below(u) /\ t \notin Below(t)
    BY <1>4, <1>5, <1>7
  <2>2. Cardinality(Below(t)) <= Cardinality(Below(u))
        /\ Cardinality(Below(t)) # Cardinality(Below(u))
    <3> HIDE DEF Below
    <3> QED
      BY <1>6, <2>1, FS_Subset
  <2> QED
    BY <1>6, <2>2
<1>8. Rank \in Injection(due, 1..n)
  <2>1. Rank \in [due -> 1..n]
    BY <1>6
  <2>2. \A t, u \in due : t # u => Rank[t] # Rank[u]
    <3> HIDE DEF Rank
    <3>1. \A t \in due : Rank[t] \in Nat
      BY <2>1, <1>2
    <3> QED
      BY <1>3, <1>7, <3>1
  <2> QED
    BY <2>1, <2>2 DEF Injection, IsInjective
<1>9. Rank \in Surjection(due, 1..n)
  <2>1. IsFiniteSet(1..n) /\ Cardinality(1..n) = n
    BY <1>2, FS_Interval
  <2> HIDE DEF Rank
  <2> QED
    BY <1>8, <2>1, FS_Injection
<1> DEFINE Order == [i \in 1..n |-> CHOOSE t \in due : Rank[t] = i]
<1>10. \A i \in 1..n : Order[i] \in due /\ Rank[Order[i]] = i
  <2> HIDE DEF Rank
  <2> QED
    BY <1>9 DEF Surjection
<1>11. \A i, j \in 1..n : i < j => Before(Order[i], Order[j])
  <2> SUFFICES ASSUME NEW i \in 1..n, NEW j \in 1..n, i < j PROVE Before(Order[i], Order[j])
    OBVIOUS
  <2> HIDE DEF Rank, Order
  <2>1. Order[i] # Order[j]
    BY <1>10
  <2>2. ~Before(Order[j], Order[i])
    BY <1>7, <1>10, <1>2
  <2> QED
    BY <1>3, <1>10, <2>1, <2>2
<1> QED
  <2>1. Order \in [1..n -> due]
    BY <1>10
  <2> HIDE DEF Rank, Order
  <2> QED
    BY <1>11, <2>1 DEF IsOrdered

LEMMA DueTasksListed ==
  ASSUME next \in [Tasks -> Nat], NEW time \in Nat
  PROVE  DueTasks(time) \in Seq(Tasks)
<1> DEFINE due == {t \in Tasks : IsDue(t, time)}
<1>1. due \in SUBSET Tasks
  OBVIOUS
<1>2. Cardinality(due) \in Nat
  BY <1>1, SchedulerAssumption, FS_Subset, FS_CardinalityType DEF SchedulerAssumption
<1>3. DueTasks(time) = CHOOSE order \in [1..Cardinality(due) -> due] : IsOrdered(order, due)
  BY DEF DueTasks, IsOrdered
<1> HIDE DEF due
<1>4. DueTasks(time) \in [1..Cardinality(due) -> due]
  BY <1>1, <1>3, OrderExists
<1> QED
  BY <1>1, <1>2, <1>4

LEMMA LeastNatural ==
  ASSUME NEW S, S \subseteq Nat, S # {}
  PROVE  \E m \in S : \A x \in S : m <= x
<1> DEFINE R == {ss \in Nat \X Nat : ss[1] < ss[2]}
<1>1. IsWellFoundedOn(R, Nat)
  BY NatLessThanWellFounded DEF OpToRel
<1>2. PICK m \in S : \A x \in S : ~ (<<x, m>> \in R)
  <2> HIDE DEF R
  <2> QED
    BY <1>1, WFMin
<1>3. ASSUME NEW x \in S PROVE m <= x
  <2>1. <<x, m>> \in Nat \X Nat
    OBVIOUS
  <2> QED
    BY <1>2, <2>1
<1> QED
  BY <1>3

(* The next occurrence lies beyond the current time of the pass.             *)
LEMMA NextIsLater ==
  ASSUME next \in [Tasks -> Nat], NEW t \in Tasks, NEW time \in Nat
  PROVE  NextOccurrence(t, time) \in Nat /\ NextOccurrence(t, time) > time
<1> DEFINE Candidate(k) == (next[t] \div Day) * Day + k * Interval[t] * Day
           future == {c \in {Candidate(k) : k \in 1..(time + 1)} : c > time}
<1>1. Day \in Nat \ {0} /\ Interval[t] \in Nat \ {0} /\ next[t] \in Nat
  BY SchedulerAssumption DEF SchedulerAssumption
<1>2. (next[t] \div Day) * Day \in Nat
  BY <1>1
<1>3. Interval[t] * Day \in Nat /\ Interval[t] * Day >= 1
  BY <1>1
<1>4. \A k \in 1..(time + 1) : k * Interval[t] * Day \in Nat
  BY <1>1
<1>5. (time + 1) * Interval[t] * Day >= time + 1
  <2>1. \A a \in Nat, b \in Nat \ {0} : a * b >= a
    OBVIOUS
  <2> QED
    BY <1>1, <2>1
<1>6. Candidate(time + 1) \in future /\ future \subseteq Nat
  BY <1>2, <1>4, <1>5
<1>7. NextOccurrence(t, time) = CHOOSE c \in future : \A other \in future : c <= other
  BY DEF NextOccurrence
<1> HIDE DEF future
<1>8. NextOccurrence(t, time) \in future
  BY <1>6, <1>7, LeastNatural
<1> QED
  BY <1>6, <1>8 DEF future

(***************************************************************************)
(* Types.                                                                    *)
(***************************************************************************)
RowTypes ==
    /\ now \in Ticks
    /\ next \in [Tasks -> Nat]
    /\ enabled \in [Tasks -> BOOLEAN] /\ removed \subseteq Tasks
    /\ run \in [Tasks -> [Ticks -> RunStatuses]]
    /\ plan \in [Tasks -> {None, "pending", "approved"}]

PassTypes ==
    /\ lock \in Processes \cup {None}
    /\ pc \in [Processes -> Places]
    /\ seen \in [Processes -> Ticks]
    /\ todo \in [Processes -> Seq(Tasks)]
    /\ claims \in [Processes -> Seq(Tasks \X Ticks)]

ClientTypes ==
    /\ client \in [Clients -> Snapshots \cup {None}]
    /\ manual \in [Clients -> RunStatuses]

CountTypes ==
    /\ executed \in [Tasks -> [Ticks -> Nat]]
    /\ crashes \in Nat /\ commands \in Nat /\ stale \in Nat

LEMMA TypesAreTypeOK == TypeOK <=> RowTypes /\ PassTypes /\ ClientTypes /\ CountTypes
  BY DEF TypeOK, RowTypes, PassTypes, ClientTypes, CountTypes

LEMMA TypeInit == Init => TypeOK
<1> SUFFICES ASSUME Init PROVE TypeOK
  OBVIOUS
<1>1. MaxTime \in Nat /\ Day \in Nat
  BY SchedulerAssumption DEF SchedulerAssumption
<1> QED
  BY <1>1 DEF Init, TypeOK, Ticks, RunStatuses, Places

LEMMA HeadAndTail ==
  ASSUME NEW S, NEW s \in Seq(S), s # <<>>
  PROVE  /\ Head(s) \in S /\ Tail(s) \in Seq(S)
         /\ Len(s) \in Nat /\ Len(s) > 0 /\ Len(Tail(s)) = Len(s) - 1 /\ Head(s) = s[1]
         /\ \A i \in 1..Len(Tail(s)) : Tail(s)[i] = s[i + 1]
  OBVIOUS

LEMMA ForgetTypes == ASSUME PassTypes, NEW p \in Processes, Forget(p) PROVE PassTypes'
<1>1. 0 \in Ticks
  BY SchedulerAssumption DEF SchedulerAssumption, Ticks
<1> QED
  BY <1>1 DEF PassTypes, Forget, GoTo, Places

LEMMA PassStepTypes ==
  ASSUME TypeOK, NEW p \in Processes, Pass(p) \/ Crash(p)
  PROVE  TypeOK'
<1>0. RowTypes /\ PassTypes /\ ClientTypes /\ CountTypes
  BY TypesAreTypeOK
<1>a. ASSUME RowTypes', PassTypes', ClientTypes', CountTypes' PROVE TypeOK'
  BY <1>a DEF TypeOK, RowTypes, PassTypes, ClientTypes, CountTypes
<1>b. ASSUME UNCHANGED <<now, registry, run, plan>> PROVE RowTypes'
  BY <1>0, <1>b DEF RowTypes, registry
<1>c. ASSUME UNCHANGED <<client, manual>> PROVE ClientTypes'
  BY <1>0, <1>c DEF ClientTypes
<1>d. ASSUME UNCHANGED <<executed, bounds>> PROVE CountTypes'
  BY <1>0, <1>d DEF CountTypes, bounds
<1>1. CASE StartRunDue(p)
  <2>1. PassTypes'
    BY <1>0, <1>1 DEF StartRunDue, GoTo, RowTypes, PassTypes, Places
  <2> QED
    BY <1>1, <2>1, <1>a, <1>b, <1>c, <1>d DEF StartRunDue
<1>2. CASE AcquireLock(p)
  <2>1. PassTypes'
    BY <1>0, <1>2 DEF AcquireLock, GoTo, PassTypes, Places
  <2> QED
    BY <1>2, <2>1, <1>a, <1>b, <1>c, <1>d DEF AcquireLock
<1>3. ASSUME NEW t \in Tasks, SettlePlan(p, t) PROVE TypeOK'
  <2>1. RowTypes' /\ PassTypes'
    BY <1>0, <1>3 DEF SettlePlan, registry, passes, RowTypes, PassTypes
  <2> QED
    BY <1>3, <2>1, <1>a, <1>c, <1>d DEF SettlePlan
<1>4. ASSUME NEW t \in Tasks, SupersedePlan(p, t) PROVE TypeOK'
  <2>1. seen[p] \in Nat /\ next[t] \in Nat
    BY <1>0 DEF PassTypes, RowTypes, Ticks
  <2>2. RowTypes' /\ PassTypes'
    BY <1>0, <1>4, <2>1 DEF SupersedePlan, passes, RowTypes, PassTypes
  <2>3. CountTypes'
    BY <1>0, <1>4 DEF SupersedePlan, CountTypes
  <2> QED
    BY <1>4, <2>2, <2>3, <1>a, <1>c DEF SupersedePlan
<1>5. CASE FinishApprovals(p)
  <2>1. PassTypes'
    BY <1>0, <1>5 DEF FinishApprovals, GoTo, PassTypes, Places
  <2> QED
    BY <1>5, <2>1, <1>a, <1>b, <1>c, <1>d DEF FinishApprovals
<1>6. CASE ListDueTasks(p)
  <2>1. DueTasks(seen[p]) \in Seq(Tasks)
    BY <1>0, DueTasksListed DEF RowTypes, PassTypes, Ticks
  <2>2. PassTypes'
    BY <1>0, <1>6, <2>1 DEF ListDueTasks, GoTo, PassTypes, Places
  <2> QED
    BY <1>6, <2>2, <1>a, <1>b, <1>c, <1>d DEF ListDueTasks
<1>7. CASE SkipClaim(p)
  <2>1. Tail(todo[p]) \in Seq(Tasks)
    BY <1>0, <1>7, HeadAndTail DEF SkipClaim, PassTypes
  <2>2. PassTypes'
    BY <1>0, <1>7, <2>1 DEF SkipClaim, PassTypes
  <2> QED
    BY <1>7, <2>2, <1>a, <1>b, <1>c, <1>d DEF SkipClaim
<1>8. CASE ClaimOccurrence(p)
  <2>1. PICK t : t = Head(todo[p])
    OBVIOUS
  <2>2. t \in Tasks /\ Tail(todo[p]) \in Seq(Tasks)
    BY <1>0, <1>8, <2>1, HeadAndTail DEF ClaimOccurrence, PassTypes
  <2>3. IsDue(t, seen[p]) /\ AdvanceAndInsert(p, t)
    BY <1>8, <2>1 DEF ClaimOccurrence
  <2>4. next[t] \in Ticks /\ NextOccurrence(t, seen[p]) \in Nat
    BY <1>0, <2>2, <2>3, NextIsLater, SchedulerAssumption
       DEF RowTypes, PassTypes, IsDue, Ticks, SchedulerAssumption
  <2>5. RowTypes'
    BY <1>0, <2>2, <2>3, <2>4 DEF AdvanceAndInsert, RowTypes, RunStatuses
  <2>6. Append(claims[p], <<t, next[t]>>) \in Seq(Tasks \X Ticks)
    BY <1>0, <2>2, <2>4 DEF PassTypes
  <2>7. PassTypes'
    BY <1>0, <2>1, <2>2, <2>3, <2>6 DEF AdvanceAndInsert, PassTypes
  <2> QED
    BY <2>3, <2>5, <2>7, <1>a, <1>c, <1>d DEF AdvanceAndInsert
<1>9. CASE RefuseClaim(p)
  BY <1>0, <1>9, ForgetTypes, <1>a, <1>b, <1>c, <1>d DEF RefuseClaim
<1>10. CASE FinishClaims(p)
  <2>1. PassTypes'
    BY <1>0, <1>10 DEF FinishClaims, GoTo, PassTypes, Places
  <2> QED
    BY <1>10, <2>1, <1>a, <1>b, <1>c, <1>d DEF FinishClaims
<1>11. CASE BeginRun(p) \/ FinishRun(p)
  <2>1. PICK t, s : t = Head(claims[p])[1] /\ s = Head(claims[p])[2]
    OBVIOUS
  <2>2. t \in Tasks /\ s \in Ticks /\ Tail(claims[p]) \in Seq(Tasks \X Ticks)
    BY <1>0, <1>11, <2>1, HeadAndTail DEF BeginRun, FinishRun, PassTypes
  <2>3. CASE BeginRun(p)
    <3>1. RowTypes' /\ PassTypes'
      BY <1>0, <2>1, <2>2, <2>3 DEF BeginRun, registry, passes, RowTypes, PassTypes, RunStatuses
    <3>2. executed' \in [Tasks -> [Ticks -> Nat]]
      <4>1. executed' = [executed EXCEPT ![t] = [executed[t] EXCEPT ![s] = executed[t][s] + 1]]
        BY <1>0, <2>1, <2>3 DEF BeginRun, CountTypes
      <4>2. executed[t] \in [Ticks -> Nat] /\ executed[t][s] + 1 \in Nat
        BY <1>0, <2>2 DEF CountTypes
      <4>3. [executed[t] EXCEPT ![s] = executed[t][s] + 1] \in [Ticks -> Nat]
        BY <4>2
      <4> QED
        BY <1>0, <4>1, <4>3 DEF CountTypes
    <3>3. CountTypes'
      BY <1>0, <2>3, <3>2 DEF BeginRun, bounds, CountTypes
    <3> QED
      BY <2>3, <3>1, <3>3, <1>a, <1>c DEF BeginRun
  <2>4. CASE FinishRun(p)
    <3>1. PICK status \in {"finished", "decision-required"} :
            run' = [run EXCEPT ![t][s] = status] /\ Conclude(t, status)
      BY <2>1, <2>4 DEF FinishRun
    <3>2. RowTypes'
      BY <1>0, <2>2, <2>4, <3>1 DEF FinishRun, Conclude, registry, RowTypes, RunStatuses
    <3>3. PassTypes'
      BY <1>0, <2>2, <2>4 DEF FinishRun, PassTypes
    <3> QED
      BY <2>4, <3>2, <3>3, <1>a, <1>c, <1>d DEF FinishRun
  <2> QED
    BY <1>11, <2>3, <2>4
<1>12. CASE EndPass(p)
  BY <1>0, <1>12, ForgetTypes, <1>a, <1>b, <1>c, <1>d DEF EndPass
<1>13. CASE Crash(p)
  <2>1. CountTypes'
    BY <1>0, <1>13 DEF Crash, CountTypes
  <2> QED
    BY <1>0, <1>13, <2>1, ForgetTypes, <1>a, <1>b, <1>c DEF Crash
<1> QED
  BY <1>1, <1>2, <1>3, <1>4, <1>5, <1>6, <1>7, <1>8, <1>9, <1>10, <1>11, <1>12, <1>13 DEF Pass

LEMMA CommandStepTypes ==
  ASSUME TypeOK, NEW c \in Clients, Command(c)
  PROVE  TypeOK'
<1>0. RowTypes /\ PassTypes /\ ClientTypes /\ CountTypes
  BY TypesAreTypeOK
<1>a. ASSUME RowTypes', PassTypes', ClientTypes', CountTypes' PROVE TypeOK'
  BY <1>a DEF TypeOK, RowTypes, PassTypes, ClientTypes, CountTypes
<1>b. ASSUME UNCHANGED passes PROVE PassTypes'
  BY <1>0, <1>b DEF PassTypes, passes
<1>d. ASSUME UNCHANGED <<executed, bounds>> PROVE CountTypes'
  BY <1>0, <1>d DEF CountTypes, bounds
<1>1. ASSUME NEW t \in Tasks, NEW command \in AllCommands, ReadTask(c, t, command) PROVE TypeOK'
  <2>1. [command |-> command, task |-> t, next |-> next[t], enabled |-> enabled[t]] \in Snapshots
    BY <1>0 DEF Snapshots, RowTypes
  <2>2. RowTypes' /\ ClientTypes' /\ CountTypes'
    BY <1>0, <1>1, <2>1 DEF ReadTask, registry, RowTypes, ClientTypes, CountTypes
  <2> QED
    BY <1>1, <2>2, <1>a, <1>b DEF ReadTask
<1>2. Done(c) /\ UNCHANGED manual => ClientTypes'
  BY <1>0 DEF Done, ClientTypes
<1>3. client[c] # None => client[c].task \in Tasks /\ client[c].next \in Nat
                          /\ client[c].enabled \in BOOLEAN
  BY <1>0 DEF ClientTypes, Snapshots
<1>4. CASE UpdateTask(c)
  <2>1. \E v \in Nat : next' = [next EXCEPT ![client[c].task] = v]
    BY <1>3, <1>4 DEF UpdateTask, Ticks
  <2>2. RowTypes'
    BY <1>0, <1>3, <1>4, <2>1 DEF UpdateTask, RowTypes
  <2> QED
    BY <1>4, <1>2, <2>2, <1>a, <1>b, <1>d DEF UpdateTask
<1>5. CASE SetTaskEnabled(c)
  <2>1. (client[c].command = "enable") \in BOOLEAN
    OBVIOUS
  <2>2. enabled' \in [Tasks -> BOOLEAN]
    BY <1>0, <1>5, <2>1 DEF SetTaskEnabled, RowTypes
  <2>3. RowTypes'
    BY <1>0, <1>5, <2>2 DEF SetTaskEnabled, RowTypes
  <2> QED
    BY <1>5, <1>2, <2>3, <1>a, <1>b, <1>d DEF SetTaskEnabled
<1>6. CASE RemoveTask(c)
  <2>1. RowTypes'
    BY <1>0, <1>3, <1>6 DEF RemoveTask, RowTypes
  <2> QED
    BY <1>6, <1>2, <2>1, <1>a, <1>b, <1>d DEF RemoveTask
<1>7. CASE TaskNotFound(c)
  <2>1. RowTypes'
    BY <1>0, <1>7 DEF TaskNotFound, registry, RowTypes
  <2> QED
    BY <1>7, <1>2, <2>1, <1>a, <1>b, <1>d DEF TaskNotFound
<1>8. CASE AdvanceManualRun(c)
  <2>1. RowTypes'
    BY <1>0, <1>3, <1>8 DEF AdvanceManualRun, Conclude, registry, RowTypes
  <2>2. ClientTypes'
    BY <1>0, <1>8 DEF AdvanceManualRun, Done, ClientTypes, RunStatuses
  <2> QED
    BY <1>8, <2>1, <2>2, <1>a, <1>b, <1>d DEF AdvanceManualRun
<1> QED
  BY <1>1, <1>4, <1>5, <1>6, <1>7, <1>8 DEF Command

LEMMA TypeStep == TypeOK /\ [Next]_vars => TypeOK'
<1> SUFFICES ASSUME TypeOK, [Next]_vars PROVE TypeOK'
  OBVIOUS
<1>1. CASE Tick
  BY <1>1, SchedulerAssumption
     DEF Tick, registry, passes, bounds, TypeOK, Ticks, SchedulerAssumption
<1>2. ASSUME NEW t \in Tasks, ApproveDecision(t) PROVE TypeOK'
  BY <1>2 DEF ApproveDecision, registry, passes, bounds, TypeOK
<1>3. CASE UNCHANGED vars
  BY <1>3 DEF vars, TypeOK
<1> QED
  BY <1>1, <1>2, <1>3, PassStepTypes, CommandStepTypes DEF Next

(* The types of the registry, of the passes and of the clients.              *)
THEOREM TypeCorrect == Spec => []TypeOK
  BY TypeInit, TypeStep, PTL DEF Spec

(***************************************************************************)
(* Claims.  A pass that is past the lock holds it; the Runs it has claimed   *)
(* are its own and only the first of them can be running.                    *)
(***************************************************************************)
Working == {"approvals", "listing", "claiming", "executing"}

LockHeld == \A p \in Processes : pc[p] \in Working => lock = p

IsClaimed(p, i) == run[claims[p][i][1]][claims[p][i][2]] = "claimed"
IsRunning(p, i) == run[claims[p][i][1]][claims[p][i][2]] = "running"

ClaimInv == TypeOK /\ LockHeld /\ ClaimsAreExclusive

LEMMA ClaimsUnfolded ==
  ClaimsAreExclusive <=>
    /\ \A p \in Processes : \A i \in DOMAIN claims[p] :
           IsClaimed(p, i) \/ (i = 1 /\ IsRunning(p, i))
    /\ \A p, q \in Processes : \A i \in DOMAIN claims[p], j \in DOMAIN claims[q] :
           claims[p][i] = claims[q][j] => p = q /\ i = j
  BY DEF ClaimsAreExclusive, IsClaimed, IsRunning

LEMMA LockStep == TypeOK /\ LockHeld /\ [Next]_vars => LockHeld'
<1> SUFFICES ASSUME TypeOK, LockHeld, [Next]_vars PROVE LockHeld'
  OBVIOUS
<1>0. PassTypes /\ None \notin Processes
  BY TypesAreTypeOK, SchedulerAssumption DEF SchedulerAssumption
<1>1. ASSUME UNCHANGED <<lock, pc>> PROVE LockHeld'
  BY <1>1 DEF LockHeld
<1>2. ASSUME NEW p \in Processes, UNCHANGED lock, pc[p] \in Working, NEW place, GoTo(p, place)
      PROVE  LockHeld'
  BY <1>0, <1>2 DEF LockHeld, GoTo, PassTypes
<1>3. ASSUME NEW p \in Processes, Forget(p) PROVE LockHeld'
  BY <1>0, <1>3 DEF LockHeld, Forget, GoTo, PassTypes, Working
<1>4. ASSUME NEW p \in Processes, StartRunDue(p) \/ AcquireLock(p) PROVE LockHeld'
  BY <1>0, <1>4 DEF LockHeld, StartRunDue, AcquireLock, GoTo, PassTypes, Working
<1>5. ASSUME NEW p \in Processes, FinishApprovals(p) \/ ListDueTasks(p) \/ FinishClaims(p)
      PROVE  LockHeld'
  BY <1>2, <1>5 DEF FinishApprovals, ListDueTasks, FinishClaims, Working
<1>6. ASSUME NEW p \in Processes, RefuseClaim(p) \/ EndPass(p) \/ Crash(p) PROVE LockHeld'
  BY <1>3, <1>6 DEF RefuseClaim, EndPass, Crash
<1>7. ASSUME NEW p \in Processes, Pass(p) PROVE LockHeld'
  BY <1>1, <1>4, <1>5, <1>6, <1>7
     DEF Pass, SettlePlan, SupersedePlan, SkipClaim, ClaimOccurrence, AdvanceAndInsert, BeginRun,
         FinishRun, passes
<1>8. ASSUME NEW c \in Clients, Command(c) PROVE LockHeld'
  BY <1>1, <1>8 DEF Command, ReadTask, UpdateTask, SetTaskEnabled, RemoveTask, TaskNotFound,
                    AdvanceManualRun, passes
<1> QED
  BY <1>1, <1>6, <1>7, <1>8 DEF Next, Tick, ApproveDecision, passes, vars

LEMMA ForgetClaims ==
  ASSUME TypeOK, ClaimsAreExclusive, NEW p \in Processes, Forget(p), UNCHANGED run
  PROVE  ClaimsAreExclusive'
<1>1. claims \in [Processes -> Seq(Tasks \X Ticks)]
  BY DEF TypeOK
<1>2. claims'[p] = <<>> /\ \A q \in Processes : q # p => claims'[q] = claims[q]
  BY <1>1 DEF Forget
<1>3. \A q \in Processes : \A i \in DOMAIN claims'[q] : q # p
  BY <1>2
<1> QED
  BY <1>2, <1>3 DEF ClaimsAreExclusive

(* A claim is of an occurrence that had no Run.                             *)
LEMMA ClaimKeepsClaims ==
  ASSUME TypeOK, ClaimsAreExclusive, NEW p \in Processes, ClaimOccurrence(p)
  PROVE  ClaimsAreExclusive'
<1>1. PICK t : t = Head(todo[p])
  OBVIOUS
<1>2. /\ IsDue(t, seen[p]) /\ run[t][next[t]] = "none" /\ run' = [run EXCEPT ![t][next[t]] = "claimed"]
      /\ claims' = [claims EXCEPT ![p] = Append(claims[p], <<t, next[t]>>)]
      /\ todo[p] # <<>>
  BY <1>1 DEF ClaimOccurrence, AdvanceAndInsert
<1>3. t \in Tasks /\ next[t] \in Ticks
  <2>1. t \in Tasks
    BY <1>1, <1>2, HeadAndTail DEF TypeOK
  <2>2. seen[p] \in Ticks /\ next[t] \in Nat /\ next[t] <= seen[p]
    BY <1>2, <2>1 DEF TypeOK, IsDue
  <2> QED
    BY <2>1, <2>2, SchedulerAssumption DEF Ticks, SchedulerAssumption
<1>4. /\ claims \in [Processes -> Seq(Tasks \X Ticks)]
      /\ run \in [Tasks -> [Ticks -> RunStatuses]]
  BY DEF TypeOK
<1>5. \A q \in Processes : \A i \in DOMAIN claims[q] :
         claims[q][i] # <<t, next[t]>> /\ claims[q][i] \in Tasks \X Ticks
  <2> SUFFICES ASSUME NEW q \in Processes, NEW i \in DOMAIN claims[q]
               PROVE  claims[q][i] # <<t, next[t]>> /\ claims[q][i] \in Tasks \X Ticks
    OBVIOUS
  <2>1. claims[q][i] \in Tasks \X Ticks
    BY <1>4
  <2>2. run[claims[q][i][1]][claims[q][i][2]] # "none"
    BY DEF ClaimsAreExclusive
  <2> QED
    BY <1>2, <2>1, <2>2
<1>6. \A q \in Processes : \A i \in DOMAIN claims[q] :
         run'[claims[q][i][1]][claims[q][i][2]] = run[claims[q][i][1]][claims[q][i][2]]
  BY <1>2, <1>3, <1>4, <1>5
<1>7. run'[t][next[t]] = "claimed"
  BY <1>2, <1>3, <1>4
<1> DEFINE n == Len(claims[p])
<1>8. /\ n \in Nat /\ DOMAIN claims[p] = 1..n /\ DOMAIN claims'[p] = 1..(n + 1)
      /\ claims'[p][n + 1] = <<t, next[t]>> /\ \A i \in 1..n : claims'[p][i] = claims[p][i]
      /\ \A q \in Processes : q # p => claims'[q] = claims[q]
  <2>1. <<t, next[t]>> \in Tasks \X Ticks /\ claims[p] \in Seq(Tasks \X Ticks)
    BY <1>3, <1>4
  <2>2. claims'[p] = Append(claims[p], <<t, next[t]>>)
        /\ \A q \in Processes : q # p => claims'[q] = claims[q]
    BY <1>2, <1>4
  <2> QED
    BY <2>1, <2>2
<1> HIDE DEF n
<1>9. \A q \in Processes : \A i \in DOMAIN claims'[q] :
         \/ i \in DOMAIN claims[q] /\ claims'[q][i] = claims[q][i]
         \/ q = p /\ i = n + 1 /\ claims'[q][i] = <<t, next[t]>>
  BY <1>8
<1>10. \A q \in Processes : \A i \in DOMAIN claims'[q] :
          LET u == claims'[q][i][1]
              s == claims'[q][i][2]
          IN  run'[u][s] = "claimed" \/ (i = 1 /\ run'[u][s] = "running")
  <2> SUFFICES ASSUME NEW q \in Processes, NEW i \in DOMAIN claims'[q]
               PROVE  LET u == claims'[q][i][1]
                          s == claims'[q][i][2]
                      IN  run'[u][s] = "claimed" \/ (i = 1 /\ run'[u][s] = "running")
    OBVIOUS
  <2>1. CASE i \in DOMAIN claims[q] /\ claims'[q][i] = claims[q][i]
    BY <1>6, <2>1 DEF ClaimsAreExclusive
  <2>2. CASE claims'[q][i] = <<t, next[t]>>
    BY <1>7, <2>2
  <2> QED
    BY <1>9, <2>1, <2>2
<1>11. \A q, r \in Processes : \A i \in DOMAIN claims'[q], j \in DOMAIN claims'[r] :
          claims'[q][i] = claims'[r][j] => q = r /\ i = j
  BY <1>5, <1>9 DEF ClaimsAreExclusive
<1> QED
  BY <1>10, <1>11 DEF ClaimsAreExclusive

LEMMA RunKeepsClaims ==
  ASSUME TypeOK, ClaimsAreExclusive, NEW p \in Processes, BeginRun(p) \/ FinishRun(p)
  PROVE  ClaimsAreExclusive'
<1>1. claims[p] # <<>> /\ claims[p] \in Seq(Tasks \X Ticks)
  BY DEF BeginRun, FinishRun, TypeOK
<1>2. PICK t \in Tasks, s \in Ticks : Head(claims[p]) = <<t, s>>
  BY <1>1, HeadAndTail
<1> DEFINE n == Len(claims[p])
<1>3. /\ n \in Nat /\ n > 0 /\ DOMAIN claims[p] = 1..n /\ claims[p][1] = <<t, s>>
  BY <1>1, <1>2, HeadAndTail
<1>4. run \in [Tasks -> [Ticks -> RunStatuses]] /\ claims \in [Processes -> Seq(Tasks \X Ticks)]
  BY DEF TypeOK
<1>5. \A q \in Processes : \A i \in DOMAIN claims[q] :
         claims[q][i] \in Tasks \X Ticks /\ (claims[q][i] = <<t, s>> => q = p /\ i = 1)
  <2> SUFFICES ASSUME NEW q \in Processes, NEW i \in DOMAIN claims[q]
               PROVE  claims[q][i] \in Tasks \X Ticks /\ (claims[q][i] = <<t, s>> => q = p /\ i = 1)
    OBVIOUS
  <2>1. claims[q] \in Seq(Tasks \X Ticks)
    BY <1>4
  <2>2. claims[q][i] \in Tasks \X Ticks
    BY <2>1
  <2>3. 1 \in DOMAIN claims[p]
    BY <1>3
  <2>4. claims[q][i] = claims[p][1] => q = p /\ i = 1
    BY <2>3 DEF ClaimsAreExclusive
  <2> QED
    BY <1>3, <2>2, <2>4
<1>6. ASSUME NEW status, run' = [run EXCEPT ![t][s] = status]
      PROVE  /\ run'[t][s] = status
             /\ \A q \in Processes : \A i \in DOMAIN claims[q] :
                  ~(q = p /\ i = 1) =>
                  run'[claims[q][i][1]][claims[q][i][2]] = run[claims[q][i][1]][claims[q][i][2]]
  <2>1. run'[t][s] = status
    BY <1>4, <1>6
  <2>2. ASSUME NEW u \in Tasks, NEW r \in Ticks, <<u, r>> # <<t, s>> PROVE run'[u][r] = run[u][r]
    BY <1>4, <1>6, <2>2
  <2>3. ASSUME NEW q \in Processes, NEW i \in DOMAIN claims[q], ~(q = p /\ i = 1)
        PROVE  run'[claims[q][i][1]][claims[q][i][2]] = run[claims[q][i][1]][claims[q][i][2]]
    <3>1. PICK u \in Tasks, r \in Ticks : claims[q][i] = <<u, r>>
      BY <1>5
    <3>2. <<u, r>> # <<t, s>>
      BY <1>5, <2>3, <3>1
    <3> QED
      BY <2>2, <3>1, <3>2
  <2> QED
    BY <2>1, <2>3
<1>7. Head(claims[p])[1] = t /\ Head(claims[p])[2] = s
  BY <1>2
<1> HIDE DEF n
<1>8. CASE BeginRun(p)
  <2>1. run' = [run EXCEPT ![t][s] = "running"] /\ claims' = claims
    BY <1>7, <1>8 DEF BeginRun, passes
  <2>2. ASSUME NEW q \in Processes, NEW i \in DOMAIN claims[q]
        PROVE  LET u == claims[q][i][1]
                   r == claims[q][i][2]
               IN  run'[u][r] = "claimed" \/ (i = 1 /\ run'[u][r] = "running")
    <3>1. CASE q = p /\ i = 1
      <4>1. run'[t][s] = "running"
        BY <1>6, <2>1
      <4> QED
        BY <1>3, <3>1, <4>1
    <3>2. CASE ~(q = p /\ i = 1)
      <4>1. run'[claims[q][i][1]][claims[q][i][2]] = run[claims[q][i][1]][claims[q][i][2]]
        BY <1>6, <2>1, <3>2
      <4> QED
        BY <4>1 DEF ClaimsAreExclusive
    <3> QED
      BY <3>1, <3>2
  <2> QED
    BY <2>1, <2>2 DEF ClaimsAreExclusive
<1>9. CASE FinishRun(p)
  <2>1. PICK status : run' = [run EXCEPT ![t][s] = status]
    BY <1>7, <1>9 DEF FinishRun
  <2>2. claims' = [claims EXCEPT ![p] = Tail(claims[p])]
    BY <1>9 DEF FinishRun
  <2>3. /\ DOMAIN claims'[p] = 1..(n - 1) /\ \A i \in 1..(n - 1) : claims'[p][i] = claims[p][i + 1]
        /\ \A q \in Processes : q # p => claims'[q] = claims[q]
    BY <1>1, <1>4, <2>2, HeadAndTail DEF n
  <2>4. \A q \in Processes : \A i \in DOMAIN claims'[q] :
          \E k \in DOMAIN claims[q] : /\ claims'[q][i] = claims[q][k] /\ ~(q = p /\ k = 1)
                                      /\ IF q = p THEN k = i + 1 ELSE k = i
    BY <1>3, <2>3
  <2>5. \A q \in Processes : \A i \in DOMAIN claims'[q] :
          LET u == claims'[q][i][1]
              r == claims'[q][i][2]
          IN  run'[u][r] = "claimed" \/ (i = 1 /\ run'[u][r] = "running")
    <3> SUFFICES ASSUME NEW q \in Processes, NEW i \in DOMAIN claims'[q]
                 PROVE  LET u == claims'[q][i][1]
                            r == claims'[q][i][2]
                        IN  run'[u][r] = "claimed" \/ (i = 1 /\ run'[u][r] = "running")
      OBVIOUS
    <3>1. PICK k \in DOMAIN claims[q] : /\ claims'[q][i] = claims[q][k] /\ ~(q = p /\ k = 1)
                                        /\ IF q = p THEN k = i + 1 ELSE k = i
      BY <2>4
    <3>2. run'[claims[q][k][1]][claims[q][k][2]] = run[claims[q][k][1]][claims[q][k][2]]
      BY <1>6, <2>1, <3>1
    <3>3. k = 1 => i = 1
      BY <3>1
    <3> QED
      BY <3>1, <3>2, <3>3 DEF ClaimsAreExclusive
  <2>6. \A q, r \in Processes : \A i \in DOMAIN claims'[q], j \in DOMAIN claims'[r] :
          claims'[q][i] = claims'[r][j] => q = r /\ i = j
    <3> SUFFICES ASSUME NEW q \in Processes, NEW r \in Processes, NEW i \in DOMAIN claims'[q],
                        NEW j \in DOMAIN claims'[r], claims'[q][i] = claims'[r][j]
                 PROVE  q = r /\ i = j
      OBVIOUS
    <3>1. PICK k \in DOMAIN claims[q] : /\ claims'[q][i] = claims[q][k] /\ ~(q = p /\ k = 1)
                                        /\ IF q = p THEN k = i + 1 ELSE k = i
      BY <2>4
    <3>2. PICK l \in DOMAIN claims[r] : /\ claims'[r][j] = claims[r][l] /\ ~(r = p /\ l = 1)
                                        /\ IF r = p THEN l = j + 1 ELSE l = j
      BY <2>4
    <3>3. q = r /\ k = l
      <4>1. claims[q][k] = claims[r][l]
        BY <3>1, <3>2
      <4> QED
        BY <4>1 DEF ClaimsAreExclusive
    <3>4. i \in Int /\ j \in Int
      <4>1. DOMAIN claims'[q] \subseteq Int
        <5>1. CASE q = p
          BY <1>3, <2>3, <5>1
        <5>2. CASE q # p
          <6>1. claims'[q] \in Seq(Tasks \X Ticks)
            BY <1>4, <2>3, <5>2
          <6> QED
            BY <6>1
        <5> QED
          BY <5>1, <5>2
      <4> QED
        BY <3>3, <4>1
    <3> QED
      BY <3>1, <3>2, <3>3, <3>4
  <2> QED
    BY <2>5, <2>6 DEF ClaimsAreExclusive
<1> QED
  BY <1>8, <1>9

LEMMA ClaimInit == Init => ClaimInv
  BY TypeInit DEF Init, ClaimInv, LockHeld, Working, ClaimsAreExclusive

LEMMA ClaimStep == ClaimInv /\ [Next]_vars => ClaimInv'
<1> SUFFICES ASSUME TypeOK, LockHeld, ClaimsAreExclusive, [Next]_vars
             PROVE  ClaimsAreExclusive'
  BY TypeStep, LockStep DEF ClaimInv
<1>1. ASSUME UNCHANGED <<run, claims>> PROVE ClaimsAreExclusive'
  BY <1>1 DEF ClaimsAreExclusive
<1>2. ASSUME NEW p \in Processes, RefuseClaim(p) \/ EndPass(p) \/ Crash(p)
      PROVE  ClaimsAreExclusive'
  BY <1>2, ForgetClaims DEF RefuseClaim, EndPass, Crash
<1>3. ASSUME NEW p \in Processes, Pass(p) PROVE ClaimsAreExclusive'
  BY <1>1, <1>2, <1>3, ClaimKeepsClaims, RunKeepsClaims
     DEF Pass, StartRunDue, AcquireLock, SettlePlan, SupersedePlan, FinishApprovals, ListDueTasks,
         SkipClaim, FinishClaims, passes
<1>4. ASSUME NEW c \in Clients, Command(c) PROVE ClaimsAreExclusive'
  BY <1>1, <1>4 DEF Command, ReadTask, UpdateTask, SetTaskEnabled, RemoveTask, TaskNotFound,
                    AdvanceManualRun, passes
<1> QED
  BY <1>1, <1>2, <1>3, <1>4 DEF Next, Tick, ApproveDecision, passes, vars

(* runs.py: a Run that a live pass has still to execute is claimed, belongs  *)
(* to that pass only, and nothing else moves it.                            *)
THEOREM ClaimsBelongToOnePass == Spec => []ClaimsAreExclusive
  BY ClaimInit, ClaimStep, PTL DEF Spec, ClaimInv

(* runs.py: a claim is made from the row as it is, by the pass that holds    *)
(* the lock, and moves the Task beyond the current time of that pass.        *)
THEOREM ClaimsAreCurrent == Spec => ClaimIsCurrent
<1> DEFINE Current == \A t \in Tasks, s \in Ticks : IsClaim(t, s) =>
             /\ enabled[t] /\ t \notin removed /\ s = next[t]
             /\ \E p \in Processes : lock = p /\ s <= seen[p] /\ next'[t] > seen[p]
<1>1. ClaimInv /\ [Next]_vars => [Current]_vars
  <2> SUFFICES ASSUME TypeOK, LockHeld, [Next]_vars, NEW t \in Tasks, NEW s \in Ticks, IsClaim(t, s)
               PROVE  /\ enabled[t] /\ t \notin removed /\ s = next[t]
                      /\ \E p \in Processes : lock = p /\ s <= seen[p] /\ next'[t] > seen[p]
    BY DEF ClaimInv
  <2>1. run \in [Tasks -> [Ticks -> RunStatuses]]
    BY DEF TypeOK
  <2>2. \E p \in Processes : ClaimOccurrence(p)
    <3>1. ASSUME NEW p \in Processes, BeginRun(p) \/ FinishRun(p) PROVE FALSE
      <4>2. CASE BeginRun(p)
        BY <2>1, <4>2 DEF BeginRun, IsClaim
      <4>3. CASE FinishRun(p)
        <5>1. PICK u, r : u = Head(claims[p])[1] /\ r = Head(claims[p])[2]
          OBVIOUS
        <5>2. run[u][r] = "running"
          BY <4>3, <5>1 DEF FinishRun
        <5>3. PICK status : run' = [run EXCEPT ![u][r] = status]
          BY <4>3, <5>1 DEF FinishRun
        <5>4. run[u][r] \in {"claimed", "running"}
          BY <5>2
        <5> QED
          BY <2>1, <5>3, <5>4 DEF IsClaim
      <4> QED
        BY <3>1, <4>2, <4>3
    <3>2. ASSUME NEW p \in Processes, Pass(p), ~ClaimOccurrence(p) PROVE FALSE
      BY <3>1, <3>2
         DEF IsClaim, Pass, StartRunDue, AcquireLock, SettlePlan, SupersedePlan, FinishApprovals,
             ListDueTasks, SkipClaim, RefuseClaim, FinishClaims, EndPass
    <3>3. ASSUME NEW c \in Clients, Command(c) PROVE FALSE
      BY <3>3 DEF IsClaim, Command, ReadTask, UpdateTask, SetTaskEnabled, RemoveTask, TaskNotFound,
                  AdvanceManualRun
    <3> QED
      BY <3>2, <3>3 DEF IsClaim, Next, Tick, Crash, ApproveDecision, vars
  <2>3. PICK p \in Processes : ClaimOccurrence(p)
    BY <2>2
  <2>4. PICK u : u = Head(todo[p])
    OBVIOUS
  <2>5. /\ pc[p] = "claiming" /\ IsDue(u, seen[p]) /\ todo[p] # <<>>
        /\ run' = [run EXCEPT ![u][next[u]] = "claimed"]
        /\ next' = [next EXCEPT ![u] = NextOccurrence(u, seen[p])]
    BY <2>3, <2>4 DEF ClaimOccurrence, AdvanceAndInsert
  <2>6. u \in Tasks /\ seen[p] \in Nat /\ next \in [Tasks -> Nat]
    BY <2>4, <2>5, HeadAndTail DEF TypeOK, Ticks
  <2>7. t = u /\ s = next[u]
    BY <2>1, <2>5, <2>6 DEF IsClaim
  <2>8. next'[u] > seen[p]
    BY <2>5, <2>6, NextIsLater
  <2>9. lock = p
    BY <2>5 DEF LockHeld, Working
  <2> QED
    BY <2>5, <2>7, <2>8, <2>9 DEF IsDue
<1>2. Spec => [][Current]_vars
  <2> HIDE DEF Current
  <2> QED
    BY ClaimInit, ClaimStep, <1>1, PTL DEF Spec
<1> QED
  BY <1>2, PTL DEF ClaimIsCurrent
=============================================================================
