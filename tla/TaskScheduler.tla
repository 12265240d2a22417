--------------------------- MODULE TaskScheduler ---------------------------
(***************************************************************************)
(* scheduler.py, runs.py and the lifecycle half of tasks.py: run-due passes  *)
(* that select due Tasks, claim their occurrences and execute the claims,    *)
(* beside command-line clients that edit the same rows.  A pass is           *)
(* serialised by the execution lock; a client is not, and `task update`,     *)
(* `enable` and `disable` read the row in one connection and write it in     *)
(* another.                                                                  *)
(*                                                                           *)
(* Time is counted in ticks, Day ticks to a local calendar day; every Task's *)
(* schedule time is the first tick of a day.  Tasks are numbers, which order *)
(* as their ids do.                                                          *)
(***************************************************************************)
EXTENDS Naturals, Sequences, FiniteSets

CONSTANTS
    Tasks,        \* Task ids
    Processes,    \* run-due invocations that may be alive at once
    Clients,      \* command-line invocations that may be alive at once
    Day,          \* ticks in a calendar day
    Interval,     \* Interval[t]: days between occurrences of t (daily: 1)
    None,         \* no process, no snapshot, no plan
    MaxTime,      \* bound: the clock stops at this tick
    MaxCrashes,   \* bound: process deaths
    Commands,     \* bound: which client commands are issued
    MaxCommands,  \* bound: how many client commands are issued
    MaxStale      \* bound: approved plans found stale

RunStatuses == {"none", "claimed", "running", "finished", "decision-required"}
Places == {"idle", "waiting", "approvals", "listing", "claiming", "executing"}
AllCommands == {"rename", "reschedule", "enable", "disable", "remove", "run"}
Ticks == 0..MaxTime

ASSUME SchedulerAssumption ==
    /\ Tasks \subseteq Nat /\ IsFiniteSet(Tasks)
    /\ Day \in Nat \ {0}
    /\ Interval \in [Tasks -> Nat \ {0}]
    /\ None \notin Processes \cup Clients
    /\ MaxTime \in Nat /\ MaxCrashes \in Nat /\ MaxCommands \in Nat /\ MaxStale \in Nat
    /\ Commands \subseteq AllCommands

VARIABLES
    now,       \* the clock
    next,      \* next[t]: tasks.next_run_at
    enabled,   \* enabled[t]: tasks.enabled
    removed,   \* Tasks whose removed_at is set
    run,       \* run[t][s]: status of the scheduled Run of t with scheduled_for = s
    plan,      \* plan[t]: a Decision of t, None, "pending" or "approved"
    lock,      \* process holding the execution lock
    pc,        \* pc[p]: where run-due process p is
    seen,      \* seen[p]: its current_time, read before the lock is taken
    todo,      \* todo[p]: due Tasks it has listed and not yet claimed
    claims,    \* claims[p]: <<task, scheduled_for>> it claimed and has to execute
    client,    \* client[c]: the row a client has read and what it wants, or None
    manual,    \* manual[c]: status of the manual Run of client c
    executed,  \* executed[t][s]: how often the handler ran for that occurrence
    crashes, commands, stale

registry == <<next, enabled, removed>>
passes   == <<lock, pc, seen, todo, claims>>
bounds   == <<crashes, commands, stale>>
vars == <<now, next, enabled, removed, run, plan, lock, pc, seen, todo, claims,
          client, manual, executed, crashes, commands, stale>>

Init ==
    /\ now = 0
    /\ next \in [Tasks -> {0, Day}]
    /\ enabled = [t \in Tasks |-> TRUE]
    /\ removed = {}
    /\ run = [t \in Tasks |-> [s \in Ticks |-> "none"]]
    /\ plan = [t \in Tasks |-> None]
    /\ lock = None
    /\ pc = [p \in Processes |-> "idle"]
    /\ seen = [p \in Processes |-> 0]
    /\ todo = [p \in Processes |-> <<>>]
    /\ claims = [p \in Processes |-> <<>>]
    /\ client = [c \in Clients |-> None]
    /\ manual = [c \in Clients |-> "none"]
    /\ executed = [t \in Tasks |-> [s \in Ticks |-> 0]]
    /\ crashes = 0 /\ commands = 0 /\ stale = 0

Tick ==
    /\ now < MaxTime
    /\ now' = now + 1
    /\ UNCHANGED <<registry, run, plan, passes, client, manual, executed, bounds>>

(***************************************************************************)
(* Which Tasks are due, in which order, and when they are due next.          *)
(***************************************************************************)
IsDue(t, time) == enabled[t] /\ t \notin removed /\ next[t] <= time

Before(a, b) == next[a] < next[b] \/ (next[a] = next[b] /\ a < b)

DueTasksStrictly(time) ==                       \* mutant: next_run_at < ?
    LET due == {t \in Tasks : IsDue(t, time) /\ next[t] < time} IN
    CHOOSE order \in [1..Cardinality(due) -> due] :
        \A i, j \in 1..Cardinality(due) : i < j => Before(order[i], order[j])

(* list_due_tasks: ORDER BY next_run_at, id.                                 *)
DueTasks(time) ==
    LET due == {t \in Tasks : IsDue(t, time)} IN
    CHOOSE order \in [1..Cardinality(due) -> due] :
        \A i, j \in 1..Cardinality(due) : i < j => Before(order[i], order[j])

(* next_scheduled_occurrence: from the local date of the claimed occurrence, *)
(* whole intervals at the schedule time, until one lies in the future.       *)
NextOccurrence(t, time) ==
    LET candidates == {(next[t] \div Day) * Day + k * Interval[t] * Day :
                           k \in 1..(time + 1)}
        future == {c \in candidates : c > time}
    IN  CHOOSE c \in future : \A other \in future : c <= other

(***************************************************************************)
(* The run-due pass.                                                         *)
(***************************************************************************)
GoTo(p, place) == pc' = [pc EXCEPT ![p] = place]

Forget(p) ==
    /\ GoTo(p, "idle")
    /\ lock' = IF lock = p THEN None ELSE lock
    /\ seen' = [seen EXCEPT ![p] = 0]
    /\ todo' = [todo EXCEPT ![p] = <<>>]
    /\ claims' = [claims EXCEPT ![p] = <<>>]

StartRunDue(p) ==
    /\ pc[p] = "idle"
    /\ seen' = [seen EXCEPT ![p] = now]
    /\ GoTo(p, "waiting")
    /\ UNCHANGED <<now, registry, run, plan, lock, todo, claims, client, manual,
                   executed, bounds>>

AcquireLock(p) ==
    /\ pc[p] = "waiting"
    /\ lock = None
    /\ lock' = p
    /\ GoTo(p, "approvals")
    /\ UNCHANGED <<now, registry, run, plan, seen, todo, claims, client, manual,
                   executed, bounds>>

(* Approved plans come first.  One that is settled without a fresh check     *)
(* leaves the registry alone ...                                             *)
SettlePlan(p, t) ==
    /\ pc[p] = "approvals"
    /\ plan[t] = "approved"
    /\ plan' = [plan EXCEPT ![t] = None]
    /\ UNCHANGED <<now, registry, run, passes, client, manual, executed, bounds>>

(* ... and one found stale makes its Task due at fresh_check_at, the pass's  *)
(* current_time, unless the Task was removed.                                *)
SupersedePlan(p, t) ==
    /\ pc[p] = "approvals"
    /\ plan[t] = "approved"
    /\ stale < MaxStale
    /\ stale' = stale + 1
    /\ plan' = [plan EXCEPT ![t] = None]
    /\ next' = [next EXCEPT ![t] = IF t \in removed THEN @ ELSE seen[p]]
    /\ UNCHANGED <<now, enabled, removed, run, passes, client, manual, executed,
                   crashes, commands>>

FinishApprovals(p) ==
    /\ pc[p] = "approvals"
    /\ \A t \in Tasks : plan[t] # "approved"
    /\ GoTo(p, "listing")
    /\ UNCHANGED <<now, registry, run, plan, lock, seen, todo, claims, client,
                   manual, executed, bounds>>

ListDueTasks(p) ==
    /\ pc[p] = "listing"
    /\ todo' = [todo EXCEPT ![p] = DueTasks(seen[p])]
    /\ GoTo(p, "claiming")
    /\ UNCHANGED <<now, registry, run, plan, lock, seen, claims, client, manual,
                   executed, bounds>>

(* claim_scheduled_run re-reads the row inside its transaction, so an        *)
(* occurrence listed a moment ago may be gone by now ...                     *)
SkipClaim(p) ==
    /\ pc[p] = "claiming"
    /\ todo[p] # <<>>
    /\ ~IsDue(Head(todo[p]), seen[p])
    /\ todo' = [todo EXCEPT ![p] = Tail(@)]
    /\ UNCHANGED <<now, registry, run, plan, lock, pc, seen, claims, client,
                   manual, executed, bounds>>

AdvanceAndInsert(p, t) ==
    /\ next' = [next EXCEPT ![t] = NextOccurrence(t, seen[p])]
    /\ run' = [run EXCEPT ![t][next[t]] = "claimed"]
    /\ claims' = [claims EXCEPT ![p] = Append(@, <<t, next[t]>>)]
    /\ todo' = [todo EXCEPT ![p] = Tail(@)]
    /\ UNCHANGED <<now, enabled, removed, plan, lock, pc, seen, client, manual,
                   executed, bounds>>

ClaimWithoutIndex(p) ==                         \* mutant: no unique index
    /\ pc[p] = "claiming" /\ todo[p] # <<>>
    /\ IsDue(Head(todo[p]), seen[p])
    /\ AdvanceAndInsert(p, Head(todo[p]))

ClaimAsListed(p) ==                             \* mutant: the listing is trusted
    /\ pc[p] = "claiming" /\ todo[p] # <<>>
    /\ LET t == Head(todo[p]) IN
       next[t] \in Ticks /\ run[t][next[t]] = "none" /\ AdvanceAndInsert(p, t)

(* ... and otherwise next_run_at advances and the Run is inserted together.  *)
ClaimOccurrence(p) ==
    /\ pc[p] = "claiming"
    /\ todo[p] # <<>>
    /\ LET t == Head(todo[p]) IN
       /\ IsDue(t, seen[p])
       /\ run[t][next[t]] = "none"
       /\ AdvanceAndInsert(p, t)

(* The unique index on (task_id, scheduled_for) refuses a second Run for an  *)
(* occurrence: the RunError leaves run_due_tasks and the process ends with   *)
(* the claims it has already made.                                           *)
RefuseClaim(p) ==
    /\ pc[p] = "claiming"
    /\ todo[p] # <<>>
    /\ LET t == Head(todo[p]) IN IsDue(t, seen[p]) /\ run[t][next[t]] # "none"
    /\ Forget(p)
    /\ UNCHANGED <<now, registry, run, plan, client, manual, executed, bounds>>

FinishClaims(p) ==
    /\ pc[p] = "claiming"
    /\ todo[p] = <<>>
    /\ GoTo(p, "executing")
    /\ UNCHANGED <<now, registry, run, plan, lock, seen, todo, claims, client,
                   manual, executed, bounds>>

(* _execute_claimed_run: the Run is running before its handler is called.    *)
BeginRun(p) ==
    /\ pc[p] = "executing"
    /\ claims[p] # <<>>
    /\ LET t == Head(claims[p])[1]
           s == Head(claims[p])[2]
       IN  /\ run[t][s] = "claimed"
           /\ run' = [run EXCEPT ![t][s] = "running"]
           /\ executed' = [executed EXCEPT ![t][s] = @ + 1]
    /\ UNCHANGED <<now, registry, plan, passes, client, manual, bounds>>

(* A Decision request and the end of its Run are one transaction; the model  *)
(* follows one Decision of a Task at a time.                                 *)
Conclude(t, status) ==
    plan' = IF status = "decision-required" /\ plan[t] = None
            THEN [plan EXCEPT ![t] = "pending"] ELSE plan

FinishRunKeepingClaim(p) ==                     \* mutant: the claim is kept
    /\ pc[p] = "executing"
    /\ claims[p] # <<>>
    /\ LET t == Head(claims[p])[1]
           s == Head(claims[p])[2]
       IN  run[t][s] = "running" /\ run' = [run EXCEPT ![t][s] = "finished"]
    /\ UNCHANGED <<now, registry, plan, passes, client, manual, executed, bounds>>

FinishRun(p) ==
    /\ pc[p] = "executing"
    /\ claims[p] # <<>>
    /\ LET t == Head(claims[p])[1]
           s == Head(claims[p])[2]
       IN  /\ run[t][s] = "running"
           /\ \E status \in {"finished", "decision-required"} :
                 /\ run' = [run EXCEPT ![t][s] = status]
                 /\ Conclude(t, status)
    /\ claims' = [claims EXCEPT ![p] = Tail(@)]
    /\ UNCHANGED <<now, registry, lock, pc, seen, todo, client, manual, executed,
                   bounds>>

EndPass(p) ==
    /\ pc[p] = "executing"
    /\ claims[p] = <<>>
    /\ Forget(p)
    /\ UNCHANGED <<now, registry, run, plan, client, manual, executed, bounds>>

Crash(p) ==
    /\ pc[p] # "idle"
    /\ crashes < MaxCrashes
    /\ crashes' = crashes + 1
    /\ Forget(p)
    /\ UNCHANGED <<now, registry, run, plan, client, manual, executed, commands, stale>>

(***************************************************************************)
(* Command-line clients.                                                     *)
(***************************************************************************)
(* get_task: the row as `task update`, `enable`, `disable`, `remove` and     *)
(* `run` first read it; a removed Task is not found.  parse_task_update_json *)
(* accepts an update only if the next_run_at it merged lies on the schedule  *)
(* time, and enable or disable end here when there is nothing to change.     *)
ReadTask(c, t, command) ==
    /\ client[c] = None
    /\ commands < MaxCommands
    /\ command \in Commands
    /\ t \notin removed
    /\ command = "rename" => next[t] % Day = 0
    /\ command = "enable" => ~enabled[t]
    /\ command = "disable" => enabled[t]
    /\ client' = [client EXCEPT ![c] =
           [command |-> command, task |-> t, next |-> next[t], enabled |-> enabled[t]]]
    /\ commands' = commands + 1
    /\ UNCHANGED <<now, registry, run, plan, passes, manual, executed, crashes, stale>>

Done(c) == client' = [client EXCEPT ![c] = None]

UpdateAnyTask(c) ==                             \* mutant: no WHERE removed_at IS NULL
    /\ client[c] # None
    /\ LET row == client[c] IN
       /\ row.command = "rename"
       /\ next' = [next EXCEPT ![row.task] = row.next]
       /\ enabled' = [enabled EXCEPT ![row.task] = row.enabled]
    /\ Done(c)
    /\ UNCHANGED <<now, removed, run, plan, passes, manual, executed, bounds>>

(* update_task writes every column: what the update supplied and, for the    *)
(* rest, what was read.  "rename" supplies a column the scheduler ignores,   *)
(* "reschedule" a new next_run_at.                                           *)
UpdateTask(c) ==
    /\ client[c] # None
    /\ LET row == client[c] IN
       /\ row.command \in {"rename", "reschedule"}
       /\ row.task \notin removed
       /\ \/ row.command = "rename" /\ next' = [next EXCEPT ![row.task] = row.next]
          \/ /\ row.command = "reschedule"
             /\ \E time \in {s \in Ticks : s % Day = 0} :
                    next' = [next EXCEPT ![row.task] = time]
       /\ enabled' = [enabled EXCEPT ![row.task] = row.enabled]
    /\ Done(c)
    /\ UNCHANGED <<now, removed, run, plan, passes, manual, executed, bounds>>

SetTaskEnabled(c) ==
    /\ client[c] # None
    /\ LET row == client[c] IN
       /\ row.command \in {"enable", "disable"}
       /\ row.task \notin removed
       /\ enabled' = [enabled EXCEPT ![row.task] = row.command = "enable"]
    /\ Done(c)
    /\ UNCHANGED <<now, next, removed, run, plan, passes, manual, executed, bounds>>

RemoveTask(c) ==
    /\ client[c] # None
    /\ LET row == client[c] IN
       /\ row.command = "remove"
       /\ row.task \notin removed
       /\ removed' = removed \cup {row.task}
       /\ enabled' = [enabled EXCEPT ![row.task] = FALSE]
    /\ Done(c)
    /\ UNCHANGED <<now, next, run, plan, passes, manual, executed, bounds>>

(* Every write of a client says WHERE removed_at IS NULL.                    *)
TaskNotFound(c) ==
    /\ client[c] # None
    /\ client[c].command # "run"
    /\ client[c].task \in removed
    /\ Done(c)
    /\ UNCHANGED <<now, registry, run, plan, passes, manual, executed, bounds>>

(* execute_manual_run: no lock, no due time, enabled or not.                 *)
AdvanceManualRun(c) ==
    /\ client[c] # None
    /\ client[c].command = "run"
    /\ \/ manual[c] = "none" /\ manual' = [manual EXCEPT ![c] = "claimed"]
          /\ UNCHANGED <<plan, client>>
       \/ manual[c] = "claimed" /\ manual' = [manual EXCEPT ![c] = "running"]
          /\ UNCHANGED <<plan, client>>
       \/ /\ manual[c] = "running"
          /\ \E status \in {"finished", "decision-required"} :
                Conclude(client[c].task, status)
          /\ manual' = [manual EXCEPT ![c] = "none"]
          /\ Done(c)
    /\ UNCHANGED <<now, registry, run, passes, executed, bounds>>

ApproveByAction(t) ==                           \* mutant: stores the action
    /\ plan[t] = "pending" /\ t \notin removed
    /\ plan' = [plan EXCEPT ![t] = "approve"]
    /\ UNCHANGED <<now, registry, run, passes, client, manual, executed, bounds>>

(* transition_decision refuses to approve once the Task is removed.          *)
ApproveDecision(t) ==
    /\ plan[t] = "pending"
    /\ t \notin removed
    /\ plan' = [plan EXCEPT ![t] = "approved"]
    /\ UNCHANGED <<now, registry, run, passes, client, manual, executed, bounds>>

(***************************************************************************)
(* The specification.                                                        *)
(***************************************************************************)
Pass(p) ==
    \/ StartRunDue(p) \/ AcquireLock(p)
    \/ \E t \in Tasks : SettlePlan(p, t) \/ SupersedePlan(p, t)
    \/ FinishApprovals(p) \/ ListDueTasks(p)
    \/ SkipClaim(p) \/ ClaimOccurrence(p) \/ RefuseClaim(p) \/ FinishClaims(p)
    \/ BeginRun(p) \/ FinishRun(p) \/ EndPass(p)

Command(c) ==
    \/ \E t \in Tasks, command \in AllCommands : ReadTask(c, t, command)
    \/ UpdateTask(c) \/ SetTaskEnabled(c) \/ RemoveTask(c) \/ TaskNotFound(c)
    \/ AdvanceManualRun(c)

Next ==
    \/ Tick
    \/ \E p \in Processes : Pass(p) \/ Crash(p)
    \/ \E c \in Clients : Command(c)
    \/ \E t \in Tasks : ApproveDecision(t)

Spec == Init /\ [][Next]_vars

(* The timer keeps starting run-due, a pass that was started goes on until   *)
(* it ends or dies, and the clock advances.                                  *)
FairSpec == Spec /\ WF_vars(Tick) /\ \A p \in Processes : WF_vars(Pass(p))

(***************************************************************************)
(* Properties.                                                               *)
(***************************************************************************)
(* Every variable keeps its type.                                            *)
Snapshots == [command : AllCommands, task : Tasks, next : Nat, enabled : BOOLEAN]

TypeOK ==
    /\ now \in Ticks
    /\ next \in [Tasks -> Nat]
    /\ enabled \in [Tasks -> BOOLEAN] /\ removed \subseteq Tasks
    /\ run \in [Tasks -> [Ticks -> RunStatuses]]
    /\ plan \in [Tasks -> {None, "pending", "approved"}]
    /\ lock \in Processes \cup {None}
    /\ pc \in [Processes -> Places]
    /\ seen \in [Processes -> Ticks]
    /\ todo \in [Processes -> Seq(Tasks)]
    /\ claims \in [Processes -> Seq(Tasks \X Ticks)]
    /\ client \in [Clients -> Snapshots \cup {None}]
    /\ manual \in [Clients -> RunStatuses]
    /\ executed \in [Tasks -> [Ticks -> Nat]]
    /\ crashes \in Nat /\ commands \in Nat /\ stale \in Nat

(* The handler runs at most once for one scheduled occurrence, although      *)
(* next_run_at can be written back to an earlier occurrence by a concurrent  *)
(* update and passes can die anywhere.                                       *)
OccurrenceExecutedOnce ==
    \A t \in Tasks, s \in Ticks : executed[t][s] <= 1

(* A Run that a live pass still has to execute is in the state execution     *)
(* expects, and no other pass has it too: nothing else moves a claimed Run.  *)
ClaimsAreExclusive ==
    /\ \A p \in Processes : \A i \in DOMAIN claims[p] :
           LET t == claims[p][i][1]
               s == claims[p][i][2]
           IN  run[t][s] = "claimed" \/ (i = 1 /\ run[t][s] = "running")
    /\ \A p, q \in Processes : \A i \in DOMAIN claims[p], j \in DOMAIN claims[q] :
           claims[p][i] = claims[q][j] => p = q /\ i = j

(* A claim made from a listing that is no longer true never starts a Task    *)
(* that was disabled, removed or rescheduled meanwhile, and one catch-up Run *)
(* moves the Task beyond the current time of the pass.                       *)
IsClaim(t, s) == run[t][s] = "none" /\ run'[t][s] # "none"

ClaimIsCurrent ==
    [][\A t \in Tasks, s \in Ticks : IsClaim(t, s) =>
          /\ enabled[t] /\ t \notin removed /\ s = next[t]
          /\ \E p \in Processes : lock = p /\ s <= seen[p] /\ next'[t] > seen[p]]_vars

(* A tombstone is final: no late write of an update, of enable or disable or *)
(* of a fresh check reaches the row of a removed Task.                       *)
TombstoneIsFinal ==
    [][\A t \in removed : t \in removed' /\ next'[t] = next[t] /\ ~enabled'[t]]_vars

(* Every due Task is claimed or stops being due.                             *)
DueTasksAreClaimed ==
    \A t \in Tasks : IsDue(t, now) ~> ~IsDue(t, now)

(* operator-guide.md: Task intervals are independent, so a Task no client    *)
(* touches is claimed when due whatever happens to the others.               *)
TasksAreIndependent ==
    \A t \in Tasks :
        [](\A c \in Clients : client[c] # None => client[c].task # t)
            => (IsDue(t, now) ~> ~IsDue(t, now))
=============================================================================
