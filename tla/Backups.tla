------------------------------ MODULE Backups ------------------------------
(***************************************************************************)
(* backups.py and the access guard of database.py: `runtasks backup`,      *)
(* `runtasks restore` and `runtasks init` beside the connections of other  *)
(* commands.  Each step is one file operation, one lock operation or one   *)
(* transaction; a process may die between any two.  A pair is a database   *)
(* file and its metadata file in the backup directory, known by its        *)
(* creation time; creation times are distinct (microseconds in the name).  *)
(* Temporary and staging files have names of their own, are read by nobody *)
(* else and are abstracted to the contents their process holds.            *)
(***************************************************************************)
EXTENDS Naturals, FiniteSets

CONSTANTS
  Processes,   \* invocations of backup, restore and init
  Clients,     \* other commands and services with connections
  Latest,      \* LATEST_SCHEMA_VERSION
  FirstFts,    \* the first schema version that has full-text tables (2)
  Keep,        \* daily artifacts kept (14)
  Day,         \* Day[t]: the UTC day of creation time t
  Seeds,       \* creation times of pairs made earlier, by an older release
  Listed(_),   \* the pair a listing of the directory names first
  Blank,       \* a database file without a byte
  None,
  MaxCommits, MaxFailures   \* bounds: transactions; commands that fail or die

Times    == DOMAIN Day
Contents == [commit : Nat, schema : 0..Latest]
Torn     == [commit |-> 0, schema |-> Latest + 1]   \* a log over a foreign file
Upgraded(c) == [c EXCEPT !.schema = Latest]

ASSUME BackupsAssumption ==
  /\ Latest \in Nat \ {0} /\ FirstFts \in Nat /\ Keep \in Nat \ {0}
  /\ IsFiniteSet(Processes) /\ IsFiniteSet(Times)
  /\ Times = 1..Cardinality(Times)
  /\ Day \in [Times -> Nat]
  /\ \A t, u \in Times : t <= u => Day[t] <= Day[u]
  /\ Seeds \subseteq Times /\ \A s \in Seeds, t \in Times : t <= s => t \in Seeds
  /\ Processes \cap Clients = {}
  /\ \A S \in SUBSET Times \ {{}} : Listed(S) \in S
  /\ Blank \notin Contents \cup {None}
  /\ None \notin Contents \cup Processes \cup Clients \cup Times \cup {Torn}
  /\ None \notin [base : Contents, top : Contents] \cup {"backup", "restore", "init"}
  /\ {MaxCommits, MaxFailures} \subseteq Nat

VARIABLES
  live,        \* the live database: main file, and its write-ahead log
  readers,     \* holders of the shared guard, one open connection each
  writer,      \* the holder of the exclusive guard
  files,       \* files[t]: the database file of pair t
  metas,       \* creation times whose metadata file exists
  clock,       \* the latest creation time
  kind, pc,    \* the command of each process, and where it is
  stamp,       \* created_at of the pair a process creates
  snap,        \* the contents of its temporary file
  staged,      \* the contents of its restore staging file
  unread, found,  \* the pairs retention has yet to verify, and those it verified
  keep, victims,  \* the pairs it keeps, and those it has yet to delete
  history,     \* every contents that was live or backed up
  undeleted,   \* pairs of which a deletion failed half way
  commits,     \* transactions so far
  failures     \* commands so far that failed or died

store   == <<live, readers, writer>>
pairs   == <<files, metas>>
search  == <<unread, found, keep, victims>>
local   == <<kind, pc, stamp, snap, staged, search>>
past    == <<history, undeleted>>
bounds  == <<commits, failures>>
vars    == <<store, pairs, clock, local, past, bounds>>

(* What a connection reads: the main file with its log applied.            *)
View ==
  IF live.wal = None THEN live.main
  ELSE IF live.wal.base = live.main THEN live.wal.top ELSE Torn

(* The last connection to close checkpoints and deletes the log.           *)
Folded == [main |-> View, wal |-> None]
Logged(c) == [live EXCEPT !.wal = [base |-> live.main, top |-> c]]

(* validate_database: integrity, foreign keys, a supported schema.         *)
Valid(c) == c # Torn

Whole(t) == files[t] \notin {None, Blank}
Verified == {t \in metas : Whole(t)}
Latter(S) == CHOOSE t \in S : \A u \in S : u <= t

SeedContent(s) == [commit |-> 0, schema |-> Latest - 1]

Init ==
  /\ live \in {[main |-> m, wal |-> None] :
                 m \in {None} \cup {[commit |-> 0, schema |-> v] : v \in {Latest - 1, Latest}}}
  /\ readers = {} /\ writer = None
  /\ files = [t \in Times |-> IF t \in Seeds THEN SeedContent(t) ELSE None]
  /\ metas = Seeds
  /\ clock = Cardinality(Seeds)
  /\ kind = [p \in Processes |-> None]
  /\ pc = [p \in Processes |-> "idle"]
  /\ stamp = [p \in Processes |-> None]
  /\ snap = [p \in Processes |-> None]
  /\ staged = [p \in Processes |-> None]
  /\ unread = [p \in Processes |-> {}] /\ found = [p \in Processes |-> {}]
  /\ keep = [p \in Processes |-> {}] /\ victims = [p \in Processes |-> {}]
  /\ history = {SeedContent(s) : s \in Seeds} \cup ({live.main} \ {None})
  /\ undeleted = {}
  /\ commits = 0 /\ failures = 0

Goto(p, label) == pc' = [pc EXCEPT ![p] = label]

(* The process ends: the guards it holds go, and what it held in memory.   *)
Ended(p) ==
  /\ Goto(p, "idle")
  /\ kind' = [kind EXCEPT ![p] = None]
  /\ stamp' = [stamp EXCEPT ![p] = None]
  /\ snap' = [snap EXCEPT ![p] = None]
  /\ staged' = [staged EXCEPT ![p] = None]
  /\ unread' = [unread EXCEPT ![p] = {}] /\ found' = [found EXCEPT ![p] = {}]
  /\ keep' = [keep EXCEPT ![p] = {}] /\ victims' = [victims EXCEPT ![p] = {}]
  /\ readers' = readers \ {p}
  /\ writer' = IF writer = p THEN None ELSE writer

-----------------------------------------------------------------------------
(* Connections of other commands: the shared guard lasts as long as the    *)
(* connection does.                                                        *)

Connect(c) ==
  /\ c \notin readers
  /\ writer = None /\ live.main # None
  /\ readers' = readers \cup {c}
  /\ UNCHANGED <<live, writer, pairs, clock, local, past, bounds>>

Commit(c) ==
  /\ c \in readers
  /\ View.schema = Latest
  /\ commits < MaxCommits
  /\ commits' = commits + 1
  /\ LET new == [commit |-> commits + 1, schema |-> Latest]
     IN live' = Logged(new) /\ history' = history \cup {new}
  /\ UNCHANGED <<readers, writer, pairs, clock, local, undeleted, failures>>

(* Closed, or its process died; the log of a dead one stays.               *)
Disconnect(c) ==
  /\ c \in readers
  /\ readers' = readers \ {c}
  /\ \/ UNCHANGED live
     \/ readers = {c} /\ live' = Folded
  /\ UNCHANGED <<writer, pairs, clock, local, past, bounds>>

-----------------------------------------------------------------------------
(* _create_backup, called by backup, by restore and by init.               *)

(* The bound on commands: each may still make a pair.                      *)
Unstamped == {p \in Processes : kind[p] # None /\ stamp[p] = None}
MayBegin(p) ==
  /\ pc[p] = "idle"
  /\ clock + Cardinality(Unstamped) < Cardinality(Times)

(* created_at is the time _create_backup was entered at.                   *)
Stamped(p) ==
  /\ clock' = clock + 1
  /\ stamp' = [stamp EXCEPT ![p] = clock + 1]
  /\ Goto(p, "snapshot")

BeginBackup(p) ==
  /\ MayBegin(p)
  /\ live.main # None
  /\ Stamped(p)
  /\ kind' = [kind EXCEPT ![p] = "backup"]
  /\ UNCHANGED <<store, pairs, snap, staged, search, past, bounds>>

(* One read transaction copies everything; it takes the shared guard       *)
(* unless the caller holds the exclusive one.                              *)
Snapshot(p) ==
  /\ pc[p] = "snapshot"
  /\ kind[p] = "backup" => writer = None
  /\ snap' = [snap EXCEPT ![p] = View]
  /\ Goto(p, "publish")
  /\ UNCHANGED <<store, pairs, clock, kind, stamp, staged, search, past, bounds>>

(* Validated, and moved to its name by os.replace.                         *)
Publish(p) ==
  /\ pc[p] = "publish"
  /\ Valid(snap[p])
  /\ files' = [files EXCEPT ![stamp[p]] = snap[p]]
  /\ snap' = [snap EXCEPT ![p] = None]
  /\ Goto(p, "describe")
  /\ UNCHANGED <<store, metas, clock, kind, stamp, staged, search, past, bounds>>

Describe(p) ==
  /\ pc[p] = "describe"
  /\ metas' = metas \cup {stamp[p]}
  /\ Goto(p, "list")
  /\ UNCHANGED <<store, files, clock, kind, stamp, snap, staged, search, past, bounds>>

(* What the caller of _create_backup does next.                            *)
AfterBackup(p) ==
  CASE kind[p] = "backup"  -> "done"
    [] kind[p] = "restore" -> "checkpoint"
    [] kind[p] = "init"    -> "migrate"

(* The days kept: the day of the new pair, then the newest other days.     *)
KeptDays(managed, pinned) ==
  LET others == {Day[t] : t \in managed} \ {Day[pinned]}
  IN {Day[pinned]} \cup {d \in others : Cardinality({e \in others : e > d}) < Keep - 1}

\* mutant: the day of the new pair is not counted
RetainedUncounted(managed, pinned) ==
  {pinned} \cup
  {t \in managed : /\ Cardinality({Day[u] : u \in {v \in managed : Day[v] > Day[t]}}) < Keep - 1
                   /\ \A u \in managed : Day[u] = Day[t] => u <= t}

(* The new pair stands for its day, the newest pair for any other.         *)
Retained(managed, pinned) ==
  {pinned} \cup
  {t \in managed : /\ Day[t] \in KeptDays(managed, pinned) \ {Day[pinned]}
                   /\ \A u \in managed : Day[u] = Day[t] => u <= t}

(* _apply_retention: the metadata files there are.                         *)
List(p) ==
  /\ pc[p] = "list"
  /\ unread' = [unread EXCEPT ![p] = metas]
  /\ found' = [found EXCEPT ![p] = {}]
  /\ Goto(p, "verify")
  /\ UNCHANGED <<store, pairs, clock, kind, stamp, snap, staged, keep, victims, past, bounds>>

(* The pair that retention verifies, and how it goes on to the next.       *)
Current(p) == Listed(unread[p])
Skipped(p) == unread' = [unread EXCEPT ![p] = @ \ {Current(p)}]

(* _read_verified_retention_backup: the metadata, the checksum and the     *)
(* contents.  Another process may delete the pair before the next step.    *)
Verify(p) ==
  /\ pc[p] = "verify" /\ unread[p] # {}
  /\ IF Current(p) \in Verified
     THEN /\ Goto(p, IF files[Current(p)].schema >= FirstFts THEN "probe" ELSE "probe-bare")
          /\ UNCHANGED unread
     ELSE Skipped(p) /\ UNCHANGED pc
  /\ UNCHANGED <<store, pairs, clock, kind, stamp, snap, staged, found, keep, victims, past,
                 bounds>>

(* The connection that verifies the full-text tables may write, so it makes *)
(* a file where none is left.  That one fails unless the pair is of a       *)
(* schema without such tables.                                             *)
Probe(p) ==
  /\ pc[p] \in {"probe", "probe-bare"}
  /\ LET t == Current(p)
     IN /\ files' = [files EXCEPT ![t] = IF @ = None THEN Blank ELSE @]
        /\ found' = IF Whole(t) \/ pc[p] = "probe-bare"
                    THEN [found EXCEPT ![p] = @ \cup {t}] ELSE found
  /\ Skipped(p)
  /\ Goto(p, "verify")
  /\ UNCHANGED <<store, metas, clock, kind, stamp, snap, staged, keep, victims, past, bounds>>

(* All pairs are read, the new one among them.                             *)
Retain(p) ==
  /\ pc[p] = "verify" /\ unread[p] = {}
  /\ stamp[p] \in found[p]
  /\ keep' = [keep EXCEPT ![p] = Retained(found[p], stamp[p])]
  /\ victims' = [victims EXCEPT ![p] = found[p] \ Retained(found[p], stamp[p])]
  /\ found' = [found EXCEPT ![p] = {}]
  /\ Goto(p, "prune")
  /\ UNCHANGED <<store, pairs, clock, kind, stamp, snap, staged, unread, past, bounds>>

(* _delete_artifact_pair, newest victim first: does its metadata exist?    *)
Prune(p) ==
  /\ pc[p] = "prune" /\ victims[p] # {}
  /\ Goto(p, IF Latter(victims[p]) \in metas THEN "take" ELSE "unlink-bare")
  /\ UNCHANGED <<store, pairs, clock, kind, stamp, snap, staged, search, past, bounds>>

(* It is read and deleted, unless another process was faster;              *)
Take(p) ==
  /\ pc[p] = "take"
  /\ LET v == Latter(victims[p])
     IN /\ metas' = metas \ {v}
        /\ Goto(p, IF v \in metas THEN "unlink" ELSE "clean-metadata")
  /\ UNCHANGED <<store, files, clock, kind, stamp, snap, staged, search, past, bounds>>

(* then its database file, if that still exists.                           *)
Unlink(p) ==
  /\ pc[p] \in {"unlink", "unlink-bare"}
  /\ LET v == Latter(victims[p])
     IN /\ files' = [files EXCEPT ![v] = None]
        /\ victims' = [victims EXCEPT ![p] = @ \ {v}]
  /\ Goto(p, "prune")
  /\ UNCHANGED <<store, metas, clock, kind, stamp, snap, staged, unread, found, keep, past,
                 bounds>>

Pruned(p) ==
  /\ pc[p] = "prune" /\ victims[p] = {}
  /\ keep' = [keep EXCEPT ![p] = {}]
  /\ Goto(p, AfterBackup(p))
  /\ UNCHANGED <<store, pairs, clock, kind, stamp, snap, staged, unread, found, victims,
                 past, bounds>>

FinishBackup(p) ==
  /\ pc[p] = "done"
  /\ Ended(p)
  /\ UNCHANGED <<live, pairs, clock, past, bounds>>

-----------------------------------------------------------------------------
(* restore_backup: the artifact is copied beside the live database, checked *)
(* and migrated there; only then is the exclusive guard taken.             *)
BeginRestore(p, source) ==
  /\ MayBegin(p)
  /\ source \in Verified
  /\ kind' = [kind EXCEPT ![p] = "restore"]
  /\ staged' = [staged EXCEPT ![p] = Upgraded(files[source])]
  /\ Goto(p, "guard")
  /\ UNCHANGED <<store, pairs, clock, stamp, snap, search, past, bounds>>

(* initialize_database looks for the file before it takes any guard.       *)
BeginInit(p) ==
  /\ MayBegin(p)
  /\ kind' = [kind EXCEPT ![p] = "init"]
  /\ Goto(p, IF live.main # None THEN "guard" ELSE "look")
  /\ UNCHANGED <<store, pairs, clock, stamp, snap, staged, search, past, bounds>>

\* mutant: open connections do not refuse the exclusive guard
LockBesideReaders(p) ==
  /\ pc[p] = "guard"
  /\ writer = None
  /\ writer' = p
  /\ Goto(p, IF kind[p] = "init" THEN "inspect"
             ELSE IF live.main # None THEN "safety" ELSE "replace")
  /\ UNCHANGED <<live, readers, pairs, clock, kind, stamp, snap, staged, search,
                 past, bounds>>

(* database_access_guard(exclusive=True).                                  *)
Lock(p) ==
  /\ pc[p] = "guard"
  /\ writer = None /\ readers = {}
  /\ writer' = p
  /\ Goto(p, IF kind[p] = "init" THEN "inspect"
             ELSE IF live.main # None THEN "safety" ELSE "replace")
  /\ UNCHANGED <<live, readers, pairs, clock, kind, stamp, snap, staged, search,
                 past, bounds>>

(* The safety backup of the locked live state.                             *)
BeginSafetyBackup(p) ==
  /\ pc[p] = "safety"
  /\ Stamped(p)
  /\ UNCHANGED <<store, pairs, kind, snap, staged, search, past, bounds>>

\* mutant: the log is not checkpointed before it is removed
CheckpointSkipped(p) ==
  /\ pc[p] = "checkpoint"
  /\ Goto(p, "sidecars")
  /\ UNCHANGED <<store, pairs, clock, kind, stamp, snap, staged, search, past, bounds>>

(* wal_checkpoint(TRUNCATE).                                               *)
Checkpoint(p) ==
  /\ pc[p] = "checkpoint"
  /\ live' = Folded
  /\ Goto(p, "sidecars")
  /\ UNCHANGED <<readers, writer, pairs, clock, kind, stamp, snap, staged, search,
                 past, bounds>>

RemoveSidecars(p) ==
  /\ pc[p] = "sidecars"
  /\ live' = [live EXCEPT !.wal = None]
  /\ Goto(p, "replace")
  /\ UNCHANGED <<readers, writer, pairs, clock, kind, stamp, snap, staged, search,
                 past, bounds>>

(* os.replace of the staging file; whatever log is there stays.            *)
Replace(p) ==
  /\ pc[p] = "replace"
  /\ live' = [live EXCEPT !.main = staged[p]]
  /\ history' = history \cup {staged[p]}
  /\ Ended(p)
  /\ UNCHANGED <<pairs, clock, undeleted, bounds>>

-----------------------------------------------------------------------------
(* initialize_database, under the exclusive guard when the file was there. *)

(* _initialize_database looks again: there is still none.                  *)
Look(p) ==
  /\ pc[p] = "look" /\ live.main = None
  /\ Goto(p, "open")
  /\ UNCHANGED <<store, pairs, clock, kind, stamp, snap, staged, search, past, bounds>>

(* _existing_database_requires_change, and the backup before the change.   *)
Inspect(p) ==
  /\ \/ pc[p] = "inspect"
     \/ pc[p] = "look" /\ live.main # None /\ writer = None
  /\ IF View.schema < Latest
     THEN /\ Goto(p, "safety")
          /\ UNCHANGED <<readers, writer, kind, stamp, snap, staged, search>>
     ELSE Ended(p)
  /\ UNCHANGED <<live, pairs, clock, past, bounds>>

(* The connection makes a file, empty until it is migrated, if there is     *)
(* still none; a file that is there now it uses without inspection.        *)
Create(p) ==
  /\ pc[p] = "open" /\ writer = None
  /\ IF live.main = None
     THEN LET empty == [commit |-> 0, schema |-> 0]
          IN /\ live' = [main |-> empty, wal |-> None]
             /\ history' = history \cup {empty}
     ELSE UNCHANGED <<live, history>>
  /\ readers' = readers \cup {p}
  /\ Goto(p, "migrate")
  /\ UNCHANGED <<writer, pairs, clock, kind, stamp, snap, staged, search, undeleted, bounds>>

(* _apply_migrations: one transaction, empty when another process was      *)
(* faster.                                                                 *)
Migrate(p) ==
  /\ pc[p] = "migrate"
  /\ writer \in {p, None}
  /\ IF View.schema < Latest
     THEN live' = Logged(Upgraded(View)) /\ history' = history \cup {Upgraded(View)}
     ELSE UNCHANGED <<live, history>>
  /\ Ended(p)
  /\ UNCHANGED <<pairs, clock, undeleted, bounds>>

-----------------------------------------------------------------------------
(* Failures.  An error of a cleanup belongs to the failure it cleans up.   *)
Failing == failures < MaxFailures /\ failures' = failures + 1

(* _acquire_database_lock polls a guard held by others for five seconds.   *)
GiveUp(p) ==
  /\ \/ pc[p] = "guard" /\ (writer # None \/ readers # {})
     \/ pc[p] = "snapshot" /\ kind[p] = "backup" /\ writer # None
     \/ pc[p] \in {"look", "open", "migrate"} /\ writer \notin {p, None}
  /\ Ended(p)
  /\ UNCHANGED <<live, pairs, clock, past, bounds>>

(* An OSError or a failed check.  Nothing has been published or replaced:  *)
(* the command ends.                                                       *)
Fail(p) ==
  /\ pc[p] \in {"guard", "inspect", "look", "open", "safety", "snapshot", "publish",
                "checkpoint", "sidecars", "replace", "migrate"}
  /\ Failing
  /\ Ended(p)
  /\ UNCHANGED <<live, pairs, clock, past, commits>>

(* A pair that cannot be read is passed over, without an error.            *)
FailVerify(p) ==
  /\ pc[p] \in {"verify", "probe", "probe-bare"} /\ unread[p] # {}
  /\ Failing
  /\ Skipped(p)
  /\ Goto(p, "verify")
  /\ UNCHANGED <<store, pairs, clock, kind, stamp, snap, staged, found, keep, victims, past,
                 commits>>

(* The pair is published, in part or whole: it is removed again.  Retention *)
(* may also have verified all pairs but the new one.                       *)
FailBackup(p) ==
  /\ \/ pc[p] \in {"describe", "list", "prune", "take", "unlink-bare"}
        /\ Failing
     \/ pc[p] = "verify" /\ unread[p] = {} /\ stamp[p] \notin found[p]
        /\ UNCHANGED failures
  /\ Goto(p, IF pc[p] = "describe" THEN "clean-file" ELSE "clean-metadata")
  /\ UNCHANGED <<store, pairs, clock, kind, stamp, snap, staged, search, past, commits>>

(* A victim's database cannot be deleted: its metadata is written back, if *)
(* that works.                                                             *)
FailUnlink(p) ==
  /\ pc[p] = "unlink"
  /\ Failing
  /\ metas' \in {metas \cup {Latter(victims[p])}, metas}
  /\ undeleted' = undeleted \cup {Latter(victims[p])}
  /\ Goto(p, "clean-metadata")
  /\ UNCHANGED <<store, files, clock, kind, stamp, snap, staged, search, history, commits>>

\* mutant: a failed backup leaves its metadata
CleanMetadataSkipped(p) ==
  /\ pc[p] = "clean-metadata"
  /\ Goto(p, "clean-file")
  /\ UNCHANGED <<store, pairs, clock, kind, stamp, snap, staged, search, past, bounds>>

(* _cleanup_failed_backup; an error is ignored.                            *)
CleanMetadata(p) ==
  /\ pc[p] = "clean-metadata"
  /\ \/ metas' = metas \ {stamp[p]} /\ UNCHANGED undeleted
     \/ undeleted' = undeleted \cup {stamp[p]} /\ UNCHANGED metas
  /\ Goto(p, "clean-file")
  /\ UNCHANGED <<store, files, clock, kind, stamp, snap, staged, search, history, bounds>>

CleanFile(p) ==
  /\ pc[p] = "clean-file"
  /\ files' = [files EXCEPT ![stamp[p]] = None] \/ UNCHANGED files
  /\ Ended(p)
  /\ UNCHANGED <<live, metas, clock, past, bounds>>

Die(p) ==
  /\ pc[p] # "idle"
  /\ Failing
  /\ Ended(p)
  /\ UNCHANGED <<live, pairs, clock, past, commits>>

-----------------------------------------------------------------------------
BackupStep(p) ==
  \/ BeginBackup(p) \/ Snapshot(p) \/ Publish(p) \/ Describe(p) \/ List(p)
  \/ Verify(p) \/ Probe(p) \/ Retain(p) \/ Prune(p) \/ Take(p) \/ Unlink(p) \/ Pruned(p) \/ FinishBackup(p)

RestoreStep(p) ==
  \/ \E s \in Times : BeginRestore(p, s)
  \/ Lock(p) \/ BeginSafetyBackup(p) \/ Checkpoint(p) \/ RemoveSidecars(p) \/ Replace(p)

InitStep(p) == BeginInit(p) \/ Look(p) \/ Inspect(p) \/ Create(p) \/ Migrate(p)

FailureStep(p) ==
  \/ GiveUp(p) \/ Fail(p) \/ FailVerify(p) \/ FailBackup(p) \/ FailUnlink(p)
  \/ CleanMetadata(p) \/ CleanFile(p) \/ Die(p)

Next ==
  \/ \E p \in Processes : BackupStep(p) \/ RestoreStep(p) \/ InitStep(p) \/ FailureStep(p)
  \/ \E c \in Clients : Connect(c) \/ Commit(c) \/ Disconnect(c)

Spec == Init /\ [][Next]_vars

-----------------------------------------------------------------------------
BackupLabels == {"snapshot", "publish", "describe", "list", "verify", "probe", "probe-bare",
                 "prune", "take", "unlink", "unlink-bare", "clean-metadata", "clean-file"}
Labels == BackupLabels \cup {"idle", "guard", "inspect", "look", "open", "safety", "done",
                            "checkpoint", "sidecars", "replace", "migrate"}

(* The types of the variables; a creation time from the moment a backup    *)
(* begins until its command ends; and nobody is connected beside the       *)
(* exclusive guard.                                                        *)
TypeOK ==
  /\ live \in [main : Contents \cup {None},
              wal : [base : Contents, top : Contents] \cup {None}]
  /\ readers \subseteq Processes \cup Clients
  /\ writer \in Processes \cup {None}
  /\ files \in [Times -> Contents \cup {None, Blank}]
  /\ metas \subseteq Times
  /\ clock \in 0..Cardinality(Times)
  /\ kind \in [Processes -> {"backup", "restore", "init", None}]
  /\ pc \in [Processes -> Labels]
  /\ stamp \in [Processes -> Times \cup {None}]
  /\ snap \in [Processes -> Contents \cup {None}]
  /\ staged \in [Processes -> Contents \cup {None}]
  /\ unread \in [Processes -> SUBSET Times] /\ found \in [Processes -> SUBSET Times]
  /\ keep \in [Processes -> SUBSET Times] /\ victims \in [Processes -> SUBSET Times]
  /\ history \subseteq Contents /\ undeleted \subseteq Times
  /\ commits \in Nat /\ failures \in Nat
  /\ \A p \in Processes : pc[p] \in BackupLabels => stamp[p] \in Times
  /\ writer # None => readers = {}

(* A connection sees one database for as long as it is open; no failure,   *)
(* death or order of steps loses a committed state or leaves a mixture; a  *)
(* restore puts in place what it chose, a state there once was, and leaves *)
(* the contents as they are until then, and when it fails.                 *)
Contract ==
  INSTANCE LiveDatabase WITH Users <- Processes \cup Clients, content <- View,
                             connected <- readers, Restorers <- Processes, chosen <- staged
LiveDatabaseKept == Contract!Spec

(* Deaths and failures at any step leave no metadata that names a missing or *)
(* an empty database, unless the deletion of that very pair failed; and     *)
(* every database in the directory is a state that was live, or empty: what *)
(* retention made anew as it verified a pair that was being deleted.        *)
PairsAreTrue ==
  /\ \A t \in metas : Whole(t) \/ t \in undeleted
  /\ \A t \in Times : Whole(t) => files[t] \in history

(* A day loses its last verified pair in three ways only: retention keeps  *)
(* pairs of Keep days, each but its own later than that day; a pair it     *)
(* relied on was removed by another process in the meantime; or a backup   *)
(* that failed removes its own pair.                                       *)
DayOutlived(p, d) ==
  /\ Cardinality({Day[t] : t \in keep[p]}) = Keep
  /\ \A t \in keep[p] \ {stamp[p]} : Day[t] > d
DayKeepsAPair ==
  [][\A d \in {Day[t] : t \in Verified} \ {Day[t] : t \in Verified'} :
       \E p \in Processes :
         \/ pc[p] \in {"take", "unlink-bare"} /\ (DayOutlived(p, d) \/ ~(keep[p] \subseteq Verified))
         \/ pc[p] \in {"clean-metadata", "clean-file"} /\ Day[stamp[p]] = d
    ]_vars
=============================================================================
