# RunTasks in TLA+

RunTasks keeps a registry of recurring Tasks in one SQLite database. A systemd
timer starts `runtasks run-due` once a day; a long-running Telegram listener and
the command line work on the same database. A Task's handler may ask for a
*Decision*; an approved Decision authorises one exact package update, which the
next `run-due` executes, verifies and, if need be, rolls back.

None of this is hard to test step by step. What is hard to test is what lies
between the steps: every process can die between two transactions or in the
middle of an external call, passes wait for each other on file locks, commands
read a row in one connection and write it in another, Telegram delivers updates
again, and a service manager merges start requests. The modules here model those
interleavings.

## The system

| component | state | operations | interacts with |
|---|---|---|---|
| approved execution (`pi_mcp_execution.py`, `pi_mcp_execution_adapters.py`) | approval Run, recovery row with phase and pending outcome, execution outcome; the installed package and `pi-web.service` outside | claim, resume, precondition, install, verify, roll back, checkpoint, complete | scheduler calls it first in every pass; reads Decisions and Tasks; makes a Task due again |
| outcome notifications (same file) | `notification_*` columns of the outcome row | release expired claims, claim, send, record | called at the start of a pass and after every announced outcome |
| scheduler (`scheduler.py`) | the pass: current time, due list, claims | read clock, take execution lock, approvals, list, claim, execute | execution, runs, tasks, handlers |
| runs (`runs.py`) | `runs` rows, unique (task, scheduled_for) | scheduled claim, manual Run, begin, finish | tasks (advances `next_run_at`), decisions |
| task registry (`tasks.py`) | `tasks` rows with tombstones | add, update, enable, disable, remove, list due | command line, scheduler, execution |
| next-occurrence calendar (`tasks.py`) | none | `next_scheduled_occurrence` | runs, validation of updates |
| decisions (`decisions.py`) | `decisions`, `approval_run_trigger_requests` | record pending, respond, list and mark wake requests | runs, listener, command line |
| Telegram listener (`telegram_decisions.py`) | polling offset in memory, message map and delivery rows | poll, callbacks, announcements, wake requests | decisions, one-shot trigger, Telegram |
| one-shot trigger (`one_shot.py`) | state of the systemd unit | wait while active, start | scheduler unit |
| Telegram transport, updates, setup, configuration | configuration files | get updates, send, answer; setup | Telegram |
| Telegram poller guard (`telegram_lock.py`) | a lock on the file at a path all homes share | enter, exit | listener, setup; uninstallation deletes what lies around the file |
| database (`database.py`) | schema version, shared/exclusive access guard | connect, initialize, migrate, verify | everything |
| backups (`backups.py`) | pairs of a database and its metadata, staged files | create, publish, describe, retain; restore behind a safety backup; clean up after failures | database guard, other backups |
| installation (`installation.py`) | unit files, systemd's view of them, skill entries with sidecars, services marker, data directory | install, uninstall, roll back | systemd, timer, listener, the operator's own files |
| handlers and release assessment (`handlers.py`, `pi_mcp_releases.py`, adapters) | what a Run has read | detect, look up, collect, evaluate, conclude, request a Decision | runs, decisions |
| redaction, secrets, paths, output, release checks, skills | none | text and paths | - |

What makes each of them correct:

- *execution*: an installation is never repeated, whatever dies when; published
  outcomes are true of the host; rows agree after every transaction; plans are
  under way one at a time, oldest approval first, unless a Task is moved away and
  back; every approval is settled.
- *notifications*: nothing owed is forgotten, nothing delivered is sent again,
  duplicates cost a fault and are accounted for.
- *scheduler, runs, tasks*: an occurrence is executed at most once; a claim is
  made from a current row; a removed Task is never written; due Tasks are claimed.
- *decisions, listener, trigger*: one response per Decision for ever; answers
  are true; callbacks are answered; wake requests are accepted; pending Decisions
  are announced.
- *calendar*: a Task falls due at its own wall time on the dates of its interval,
  each date is a Run or counted as missed, whatever the zone's clock does.
- *release check*: a Run is quiet only when all evidence was there; a plan never
  names an older version.
- *backups and database guard*: whatever fails or dies, a connection sees one
  database, a restore puts the state in place that it chose or changes nothing, and a
  day keeps a verified pair.
- *installation, poller guard*: success means whole or gone, what runs can be
  uninstalled, the operator's files are kept, one process polls.

`PROJECT.json` lists the hazards with the line where each one bites and the
property that watches it.

## Modules

| module | models | state and actions in the code |
|---|---|---|
| `PlanContract` | what an approval promises, abstractly | a plan has two permits, to install the target and to reinstall the old version, each spent at most once; the outcome must be justified by what was spent |
| `ApprovedExecution` | `pi_mcp_execution.py` | `run`, `phase`, `pending`, `outcome` are the rows; `package` and `serving` the host; `pc`, `cur`, `result` what a process holds in memory. One action per transaction or adapter call, named after what `_execute_plan_uncheckpointed` and its helpers do |
| `OutcomeNotifications` | the delivery of outcome notifications | `note`, `claimedAt`, `attempts` are the columns; `received` counts messages that reached the operator, also when the send raised |
| `TaskScheduler` | `scheduler.py`, `runs.py`, `tasks.py` | the row fields scheduling reads; passes with `seen` (current time), `todo` (due list), `claims`; clients with the row they have read |
| `TelegramListener` | `telegram_decisions.py`, `decisions.py`, `one_shot.py` | the response and trigger rows, Telegram's queue of updates, the listener's offset and batch, the oneshot unit |
| `Calendar` | `next_scheduled_occurrence` (`tasks.py`) | operators only: a zone is a first offset and its later shifts; `Turns` is the loop of the function, `Exists` its round trip through UTC |
| `ReleaseCheck` | scheduled claims (`runs.py`) over `Calendar`, `pi_mcp_releases.py`, `handlers.py` | `next`, `claims`, `missed` are the schedule; `seen` what a Run has read, `result` the `ReleaseCheckResult`, `status` and `decision` what the handler recorded. One action per external answer |
| `LiveDatabase` | what a database file promises, abstractly | one content, who is connected to it, the contents it ever had, and what each restore has chosen to put in place |
| `Backups` | `backups.py`, the guard and initialization of `database.py` | `live` is the main file and its write-ahead log, `readers` and `writer` the guard, `files` and `metas` the pairs; `pc`, `snap`, `staged`, `unread`, `found`, `keep`, `victims` are a command's locals. One action per file operation, lock or transaction |
| `PollerGuard` | `telegram_lock.py` | the file at the path, and the file each poller has locked |
| `Installation` | `installation.py`, with `PollerGuard` instantiated | `unit`, `loaded`, `enabled`, `active` are systemd; `entry`, `sidecar`, `owner` the skill destinations; `pc`, `at`, `mode`, `fresh`, `aside`, `chosen` the running command; `dataAt` says how the data directory lies to the poller locks |
| `..._proofs` | the theorems about the module they are named after | |
| `MC...` | constants of the TLC runs | |

An action is one transaction, one external call, or one step between two of them
that another process could observe. A process death is a separate action enabled
at every step, so no step is assumed to be atomic with the next. A database error
raised out of a pass leaves the same state as a death and is not modelled twice.

Definitions marked `mutant` in a comment are plausible mistakes in the code they
stand beside; replacing the definition by its mutant must break a property. They
take no part in the specifications.

### ApprovedExecution

Two `run-due` processes (the timer and a wake request) share a blocking `flock`.
`ClaimPlan` inserts the recovery row with the transition to `running`;
`Resume` enters the code where the durable phase says; `Reconcile` looks at the
installed version after an interrupted installation. `Install` may succeed,
change nothing or leave unreadable metadata, *and independently* return or raise,
because `pi install` is an external process. Readings may fail at any time.
`PackageDrift` is somebody installing a version by hand while no plan is under way;
drifting during an execution would make any statement about the host void.

Two variables only remember. `returned` has the Tasks that were moved back to the
handler while a plan was under way, `overtaken` the Decisions that were under way
when another plan was claimed; no action reads either. `_claim_next_approved_plan`
passes over a waiting approval whose Task has another handler. When a younger plan
is claimed, `run-due` dies on it and the Task is moved back, the next pass claims the
older plan while the younger is under way. `OverlapNeedsReturn` says that this is the
only way in which two plans are between claim and outcome together, and that they are
never plans of one Task. `CheckpointIsTrue` excuses an outcome only if its plan was
overtaken so after it began.

The refinement `ContractKept` maps Run statuses and outcomes to plan states and
the installer calls to spent permits. A plan may end `completed` without having spent
its permit when another plan has (`ChangedByOthers`): interrupted between announcing
the installation and making it, it can find its target installed by the plan that
overtook it.

### OutcomeNotifications

One pass at a time delivers (the lock is above). `Claim` releases expired claims
and claims the most urgent notification in one transaction. The comparison in
`Expired` is strict because claim times are whole seconds and the cutoff text has
microseconds: `...:00Z` sorts after `...:00.000000Z`.

### TaskScheduler

Time is in ticks, `Day` ticks to a day; schedule times are the first tick of a
day. A client reads (`ReadTask`) and writes (`UpdateTask`, `SetTaskEnabled`,
`RemoveTask`) in different steps, as the command line does. `RefuseClaim` is the
unique index on `(task_id, scheduled_for)` ending the pass.

### TelegramListener

The listener is one loop; `pc` is its place. A batch is a pair of update numbers;
`confirmed` is what Telegram has dropped because of an offset above it.
`Press(d, action, known)` presses a button of a recorded message, or of one that
was sent but whose recording was lost. `Expire` makes Telegram refuse the answer
to a callback. The unit is `activating` while its process runs, never `active`,
because it is installed as `Type=oneshot`.

### Calendar and ReleaseCheck

`ClaimScheduledRun` takes the occurrence and moves `next` in one transaction, at any
time from the last current time on, so claims can be late by any number of dates. A
`manual_notification` Task is then done; for a `pi_mcp_adapter` Task the check asks
for the installed package, the registry, each release source and the evaluator. Every
answer may be missing or malformed; a version is its precedence and whether it
carries build metadata. `Interrupt` is the end of the process, or a failing
transaction outside the handler's `try`: nothing takes the Run up again.
`RefuseRequest` is a Task that may not ask, or a plan that is too long or holds what
the redactor hides. Manual Runs and edits of `next_run_at` are in `TaskScheduler`.

### LiveDatabase and Backups

A connection holds the shared guard; `restore` and the second half of `init` hold the
exclusive one, and `lock` waits while there are readers. A commit goes to a log that
belongs to the main file it was written over; `View` is what a new connection would
read, so a restore that replaced the main file under an old log would show as `Torn`.
`Snapshot`, `Publish` (rename), `Describe` (metadata), `List`, `Verify`, `Probe`,
`Retain`, `Prune`, `Take`, `Unlink` are the steps of a backup and its retention;
`BeginSafetyBackup`, `Checkpoint`, `RemoveSidecars`, `Replace` those of a restore, which
runs the backup steps in between. Retention reads the pairs one by one, in an order
(`Listed`) that is any in the theorems: `Verify` is the check of metadata, checksum and
contents, `Probe` the second connection of `validate_database`, which may write and so
makes an empty file (`Blank`) when another command has deleted the pair in between.
`initialize_database` looks for the file (`BeginInit`), looks again (`Look`, `Inspect`)
and opens it (`Create`) in three steps, without a guard over them when the file was not
there at first.

`Fail...` are failing file operations with the cleanup the code does for each, `Die` a
death anywhere. `MaxFailures` bounds the commands that fail or die; an error of the
cleanup that follows a failure is part of it, and a failure that another command caused
(a busy guard, a pair that vanished) is not counted. `undeleted` remembers the pairs
of which the deletion or cleanup itself failed half way; no action reads it.

The refinement `LiveDatabaseKept` maps `content` to `View`, the connections to the
readers and the choice of a restore to its staging file. The contract lets a restore
replace the contents only by what it chose, when it completes; so a restore that lost a
commit and then failed or died would break it.

### PollerGuard and Installation

`Begin...`, one action per unit, skill or systemd call, and `Failing` alternatives
with the rollback of `_install_services`. `StartScheduler` lets the timer or the
listener start the scheduler at any moment, also while an uninstallation is stopping
units; `Restart` is a restart of the machine, which starts what is enabled;
`EditSkill` and `EditUnit` are the operator replacing a skill entry or putting a unit
file in place, between commands or while an installation is past its checks and
initializes the database. `owner` remembers who made an entry and `late` which unit
files came after the check of the installation that runs: the code cannot see either,
and the property about the operator's files needs them.

`RemoveData` is the end of an uninstallation, under pollers of other homes. The data
directory lies `"apart"` from the directory of the poller locks, is that directory
(`"locks"`), or is a `"link"` at its path. In the first two cases the lock files stay;
the link is removed itself, and the next poller makes a new directory and a new file.
`unlinked` remembers that, and `OnePoller` excuses what follows from it and nothing
else.

## Runs

Each passing run takes from half a minute to three minutes on two workers. A run
under `FairSpec` checks safety and liveness together.

| run | shows | bounds |
|---|---|---|
| `execution` | TypeOK, InstallsAtMostOnce, CheckpointIsTrue, RowsAgree, OverlapNeedsReturn, PackageWriteAhead, ContractKept | 2 Decisions of one release (2 versions), 2 Tasks, 2 processes, 2 deaths, 1 drift, 2 edits |
| `execution_live` | EveryApprovalSettles: an approval gets its outcome, unless its Run stays claimed for ever because its Task stays at another handler | the same with 1 death and no drift |
| `scheduler` | TypeOK, ClaimsAreExclusive, DueTasksAreClaimed | 2 Tasks (daily, every second day), 2 passes, 1 death, 1 Task removed |
| `registry` | OccurrenceExecutedOnce, ClaimIsCurrent, TombstoneIsFinal | 1 Task, 2 passes, 2 clients, 2 commands of any kind, 1 stale plan; no deaths (they are in `scheduler`, and the theorems hold for any number) |
| `listener` | TypeOK, AnswersAreTrue, ResponseIsFinal, WakeIsAccepted, PendingIsAnnounced, PressesAreAnswered | 1 Decision, 2 presses, 1 fault, 1 expired query |
| `notifications` | TypeOK, AttemptsAccountForMessages, DuplicatesCostFaults, DeliveredIsFinal, EveryOutcomeIsReported | 3 outcomes, 2 deaths, 1 failing send, 5 ticks |
| `read_only_check` | TypeOK, CalendarKept, MissedAreCounted, QuietIsJustified, PlansNeverGoBack | 4 instants to a day, instants to 23, 3 claims; 5 zones (an hour forward, back, both; a day skipped, a day repeated), intervals 1 to 3, any first date; 3 versions, 2 sources, 3 of 4 longest notes too many |
| `backups` | TypeOK, PairsAreTrue, LiveDatabaseKept, DayKeepsAPair | 2 commands, 1 other connection, 1 transaction, 4 creation times on 3 days of which 2 are kept, 1 command that fails or dies, pairs listed newest first |
| `installation` | TypeOK, RunningIsReachable, InstalledIsWhole, UninstalledIsGone, OnePoller, OperatorsFilesKept | 2 roots, 1 agent, 2 pollers, 2 lock files, 3 places of the data directory, and one death, restart, failing call or edit in a behaviour |

Why the bounds are enough: two Decisions of one release are the fewest that can
disagree about the installed version, and each can find the other's work; plans of
different targets are left to the theorems. Two processes are the fewest that
contend for the lock, and two deaths let a recovery be interrupted in turn. Two
edits are the fewest that move a Task away and back, without which plans never
overlap; the processes are interchangeable and declared symmetric in `execution`,
which checks no liveness. Two Tasks of different intervals show an order in the due
list; two clients on one Task show lost updates and late writes; two presses of one
Decision show conflict, repetition and redelivery; three outcomes show urgency
against age. Two backup commands are the fewest whose retentions and restores meet,
on three days of which two are kept so that a day can be outlived; a zone with two
shifts shows a date that is moved and moved back, an interval of three steps over a
whole shift; two roots show an installation over another's remains, two lock files a
poller that holds a deleted one. One command that fails or dies beside one that goes
on shows each half-done protocol to the other, cleanup included; one disturbance at any
step of an installation shows every remnant to the commands that follow it. More of
them are left to the theorems, which hold for any number.

`CHECK_DEADLOCK FALSE` is set in the runs whose counters bound everything: a system
in which every Decision is settled and every claim, press and command of the bound is
used up has nothing left to do. `backups` and `installation` are checked for deadlock:
connections, pollers and the operator's commands can always go on.

`DueTasksAreClaimed` is checked without renames and reschedules, because with them
it is false; that is the run `independence` below. `PressesAreAnswered` excuses
presses once a query has expired, for the reason the run `expired_callback` shows.

## Where the code and its documents differ

Each of these is a run that TLC finds violated; `PROJECT.json` has the quotes.

| run | what happens |
|---|---|
| `rollback_before_mutation` | an execution that dies after announcing the installation and before making it, and finds the metadata unreadable on recovery, reinstalls the old version although nothing was installed |
| `independence` | `task update` writes back fields it did not supply, as it read them before a pass advanced them; the rewound `next_run_at` names an occurrence that has a Run, every later pass aborts there, and Tasks nobody touched are never claimed again |
| `expired_callback` | a callback Telegram accepts no answer to ends the listener again and again, and no other callback is answered |

## Other observations

Met while modelling; the models contain the behaviour, and the properties are stated
so that they say what does hold.

Execution and scheduling:

- When a Task is moved to another handler and back, an older waiting approval can
  overtake an interrupted execution of another Task. The two plans then share one
  package: an outcome that was checkpointed before may be published although the older
  plan has changed the package since; a plan may find its target installed without
  having installed it; and the rollback of the younger undoes a completed update of the
  older. No document promises more: the repository only excludes overlapping execution
  of the same Task, which `OverlapNeedsReturn` confirms.
- Approvals are executed in the order of `responded_at`, which is the wall clock (or the
  Decision's creation time, if that is later); a clock set back between two responses
  changes the order. The models number Decisions in the order of that text.
- The `next_run_at` a superseded plan stores is the pass's current time. It lies off
  the schedule time, so partial updates of that Task are refused until it is claimed
  (the first conjuncts of `ReadTask`); and if the Task has a Run for that very second,
  the unique index refuses the fresh check that README.md:274 speaks of.
- A wake request while the oneshot is activating merges with the running job and is
  recorded as accepted; the comment at one_shot.py:33 and
  tests/test_execution_contracts.py:67 expect a job of its own.

Backups:

- Two backups at once can fail each other: one lists a pair and the other deletes it
  before it is read.
- A retention that fails after it deleted a pair of its own day takes the day's new
  pair away as well; `DayKeepsAPair` names the case.
- The retention of another command may delete a restore's safety backup before the
  replacement, so that the backup README.md:336 and operator-guide.md:163 promise
  exists when it is made and not when it may be wanted.
- A `DatabaseError` (a guard that is busy for five seconds) is not caught in
  `_create_backup`, and its temporary file stays. A death between the rename of the
  database and its metadata leaves a database without metadata, which nothing removes.
- Retention verifies a pair through a connection that may write (backups.py:282). When
  another command deletes the pair (backups.py:391) after the other checks, the
  connection makes an empty database file of that name, which has no metadata and which
  nothing removes. A pair of schema 1, which has no full-text tables, even counts as
  verified then. `PairsAreTrue` lets a file be empty, and only one without metadata.
- A restore takes the database guard and not the execution lock: it may replace the
  database between two transactions of a pass.

Installation:

- After a death between a link and its sidecar RunTasks takes its own link for
  somebody else's, for good; half-deleted copies likewise become unmanaged. Hence the
  condition on deaths and faults in `UninstalledIsGone`.
- An uninstallation cut off after the removal of the unit files does not reload
  systemd when it is repeated, because it finds no unit files any more.
- Unit files are checked at the start of an installation (installation.py:177) and
  written after the probes and the initialization of the database without another look
  (installation.py:198-199). One that the operator puts in place meanwhile is overwritten
  without a report, although README.md:56 says that an unmanaged conflicting unit is
  reported before anything is enabled; the exception in `OperatorsFilesKept`.
- `uninstall --remove-data` unlinks a data directory that is a symbolic link at the path
  of the poller locks (installation.py:1110-1112), and the path to the lock files with
  it. README.md:70 says that the lock files are never removed, which is true of the
  files; but the next poller makes a new one and polls beside a listener that holds the
  old, against operator-guide.md:133. It is the exception in `OnePoller`.
- A timer that was enabled and not started is not rolled back; an upgrade does not
  restart a listener that runs; and a sidecar that stayed behind claims the operator's
  link to the same source, the exception in `OperatorsFilesKept`.

Release check:

- An uncertain assessment still records an installable plan when both versions are
  known. Every check of the same unresolved release asks for another Decision.
- A package with build metadata and the precedence of the latest version has nothing
  intervening, and becomes an uncertain result with an installable plan.
- The evidence limit counts characters and the plan limit bytes, so notes that are not
  ASCII can fail the Run instead of asking; a Task of mode `check` that would need a
  Decision fails; an error while the Decision is recorded leaves the Run `running`.

## Fairness

- *A pass goes on* (`WF` of a process's steps, and of its start): the timer is
  `Persistent=true` and fires daily, and a started process runs until it ends or
  dies. Deaths are bounded in the liveness runs: the properties are about a system
  whose processes eventually stop dying.
- *The clock advances* (`WF(Tick)`).
- *The listener goes on*: the unit has `Restart=on-failure`, and faults are bounded.
- Nothing is assumed of operators: no press, response or command is fair; neither is
  the timer in `TelegramListener`, where the passes that matter are those the
  trigger starts.

## What is proved

TLAPS checks these for every value of the constants: any number of Decisions,
Tasks, processes, clients, presses, versions, sources, roots and pairs, any zone, any
claim timeout, and any number of deaths, failures, drifts and edits. They rest on the
named assumptions of each module (`ConstantsAssumption`, `NotificationAssumption`,
`SchedulerAssumption`, `ListenerAssumption`, `CalendarAssumption`,
`TasksAssumption`, `BoundsAssumption`, `HorizonAssumption`, `BackupsAssumption`,
`InstallationAssumption`), which TLC evaluates in the runs.

**ApprovedExecution_proofs**: `TypeCorrect`, `AtMostOnceInstalled`,
`RowsAlwaysAgree`, `WriteAhead`, `PlansOverlapOnlyByReturn`, `CheckpointsAreTrue` and
`ContractIsKept`, the refinement of `PlanContract`. `InstallsAtMostOnce` is not inductive: nothing in it
keeps a process from being at `target-install` twice for one Decision. The inductive
invariant `IInv` adds three parts. `LockHeld`: a process is past the lock exactly while
it holds it. `PlaceAgrees`: a process that is working has a Decision whose durable
phase agrees with the place it has reached. `PermitsLeft`: how often `install_exact` was called is
bounded by that phase, so an installation is still to be made exactly where the
phase says it was announced and not begun. With them each action preserves the
whole, and `WriteAhead` follows from `PlaceAgrees` at the two actions that change
the package.

`OrderInv` is about claims: an approval that a plan under way has passed over belongs to
another Task, which is at another handler or was moved back since (`PassedOver`); a pass
works on the oldest plan under way (`OldestFirst`); of two plans under way the younger
was overtaken (`YoungerIsOvertaken`). A claim takes the oldest row that can be claimed,
interrupted ones included, so that what it passes over cannot be at the handler.

`TruthInv` is about the host: what each durable phase says of installations made
(`PhaseIsTrue`), what an outcome must have spent (`Earned`) and what it says of package
and service (`Shown`), at each place of the code and for each stored outcome. The work
of one plan disturbs these facts of another only if that was overtaken
(`WorkBesideOthers`); the package changes only through a permit (`WorkOnHost`); and the
places between the checks follow from what was read there (`OwnPlace`).

`ContractStep` then maps every step: the four that change the status of a Run to
`Authorize`, `Begin`, `Refuse` and `Settle`, the two installer calls to `Spend`, all
others to a stutter. `Settle` needs `Earned` of the outcome that is published, so the
refinement rests on all three invariants.

**OutcomeNotifications_proofs**: `TypeCorrect`, `MessagesAreAccountedFor`,
`DuplicatesArePaidFor`, `DeliveryIsFinal`. The strengthening is `ClaimHeld` (between
claim and record the row is `sending`, so nothing else can release it) and
`FaultsPayForMessages` (every message but the recorded one was paid for by a death
or a failing send). The proof that `Claim` preserves them uses that a claim is
released only when it expired, and that releasing counts the interrupted attempt.

**TaskScheduler_proofs**: `TypeCorrect`, `ClaimsBelongToOnePass`,
`ClaimsAreCurrent`, `ExecutedOnce`, `RemovedIsFinal`. `ExecutedAsRun` ties the number
of handler calls to the status of the Run; only a claim, the start and the end of a
Run write either. `Tombstones` says that removed Tasks are disabled, and
`RegistryStep` sums up what any step may write: nothing, one `next_run_at` of a Task
that is not removed, or a client's write. `ClaimInv` adds to the types that a working
pass holds the lock and that a claimed Run is in one pass's list, once. Two facts about
data carry the rest: any nonempty set of naturals has a least element
(`LeastNatural`), so that the next occurrence is later than the current time
(`NextIsLater`); and any finite set of Tasks can be listed in the order of their due
times, by counting for each how many come before it (`OrderExists`), so that the due
list is a sequence without repetition (`DueTasksListed`).

**TelegramListener_proofs**: `TypeCorrect`, `FirstResponseIsFinal`,
`OnlyTheTruthIsTold`. `PlaceInv`: the listener looks only at updates that Telegram
delivered, and its offset never passes them. `StatusInv`: a Decision waits for a
response exactly as long as none is stored, and a wake request exists exactly for
approvals. `StepsOnResponses` reduces every step to the four ways in which it can
touch these rows. `AnswersAreTrue` then needs `ReplyInv` (the answer about to be given
is true when it is chosen, although the row may have changed since the first read),
`ShownInv` (controls exist only for Decisions that exist, so that "no longer pending"
means "responded to") and `TrueStaysTrue` (what is true of a Decision stays true).

**ReleaseCheck_proofs**: `QuietOnlyWhenJustified` and `PlansGoForward` from
`CheckInv`: at each step, what was read before it has been checked, and the result
that is about to be recorded is justified by it. `NoDateIsLost` and `DueDatesAreKept`
from `CalendarInv`: the next occurrence is on the date number "claims plus missed" of
the interval, every claim is on an earlier date of it, and every date passed over was
overdue or lacked the time. Between them: the search returns its first success
(`FirstTurn`, from the least element of a set of naturals), a date that exists is the date of
its instant, and instants of later dates are later. The zone is any sequence of shifts;
`HorizonAssumption` says that each search ends. `TypeCorrect` needs both invariants: that
an interval of a Task leads to a later instant, and that each function of the check is
called only when what it takes has been read (`ReviewIsAhead`, `EvidenceCovers`).

**Backups_proofs**: `DatabaseKeepsItsContract`, the refinement of `LiveDatabase`;
`TypeCorrect`, `PairsStayTrue` and `RetentionKeepsDays`.
`DatabaseInv` says that the log lies over the file it belongs to, that what is live and
what is in every pair that is not empty was live before, that the exclusive guard
excludes readers, that a command that restores holds it, and that there is no log left
when it removes the sidecars and replaces the file; each step is then mapped to its
abstract step or to a stutter. That the log was checkpointed before it goes is what
makes `RemoveSidecars` a stutter.

`PairInv` is about the backup directory. Creation times are given once and suffice for
the commands that may still need one (`PairTypes`, `StampsAreOwn`). A command that has
not written its metadata owns a time no metadata and no other command's victim has
(`OwnPair`, `VictimsAreDescribed`), so nothing deletes a database that is about to be
described; of two commands that delete, at most one has taken the metadata of a pair
(`OneUnlinks`), so a database that is deleted after its metadata was not verified any
more. What a command knows of the pairs it has listed, verified or is to delete is one
set (`Seen`). `NoBareMetadata` follows, for all pairs but those whose own deletion or
cleanup failed (`undeleted`), whatever else failed or died.
`DaysAreKept` says of every victim that its day has a pair among those kept or is
outlived. It is established by `RetentionSparesDays`, the lemma about `Retained`: either
a pair of the victim's day is kept, or pairs of exactly `Keep` days are, each but the new
one later. It needs that the k latest days of a set of more than k are k
(`NewestAreAsMany`, by the least k for which it would fail), and that the latest pair of
a set is of its latest day (`LatestDay`). `RetentionStep` then goes through the steps
that can lose a verified pair: `Take`, `Unlink` without metadata, and the two cleanups.

**Installation_proofs**: `InstallationTypes`; `OneProcessPolls`, from `LockIsAtPath`:
until a link was removed, a lock that is held is on the file at the path, because the
other branches of `RemoveData` keep that file; `RunningStaysReachable`, from `UnitInv`:
unit files are removed only after timer, listener and scheduler were stopped in this
order, so that nothing of RunTasks' is left to start the scheduler again;
`OperatorsKeepTheirFiles`, from `SkillInv`: an entry is deleted only
while a command is at it and it is missing, ours, or named by its sidecar;
`InstallationsAreWhole`, from `WholeInv`; `UninstallationsAreComplete`, from `CleanInv`,
which holds as long as nothing died or failed.

## What is only model-checked

- Liveness under fairness (`EveryApprovalSettles`, `DueTasksAreClaimed`,
  `WakeIsAccepted`, `PendingIsAnnounced`, `PressesAreAnswered`,
  `EveryOutcomeIsReported`): outside what the prover handles.

Every invariant and action property of the passing runs, and both refinements, are
theorems as well. The runs still check them, because there a mistake in a definition
shows as a behaviour, and because their mutants do.

## Not modelled, and why

- *Text*: names, plans, summaries, redaction, JSON and terminal output, message
  formatting. Plans appear as their old and target version.
- *Migrations*: one transaction that raises the schema version; what each of them does
  to a table, and the health report, are left out. A restore between two transactions
  of a pass is in no module: `Backups` knows connections and not what they are for.
- *Creation and search of Tasks, listing of Runs and Decisions*: reads, and one insert
  guarded by a unique key.
- *Telegram setup and configuration*: an interactive, sequential dialogue over
  configuration files. Its one interaction, reading updates with offset -1 while the
  listener is stopped, is listed as a hazard without a property.
- *systemd's own work*: a call succeeds, fails, or succeeds before the command dies.
- *Time in the listener*: the 600 second wait of a wake request is one step that
  succeeds or is refused.

## Plan

What is left, in this order:

1. A composition of `TelegramListener`, `TaskScheduler` and `ApprovedExecution` over
   the shared Decision rows, replacing the abstract runner of the listener, and of
   `Backups` with a pass, to show what a restore in the middle of one does.
2. Setup discovery in `TelegramListener`: callbacks that an offset of -1 confirms.
3. Two Tasks in `ReleaseCheck`, with manual Runs and edits of `next_run_at`.
4. `HorizonAssumption` as a lemma: beyond the last shift of a zone every date has the
   time, so that the search of a next date is bounded by the shifts.
