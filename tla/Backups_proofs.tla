--------------------------- MODULE Backups_proofs ---------------------------
(***************************************************************************)
(* What is proved of Backups for any number of processes, connections,      *)
(* transactions, deaths and failures.  DatabaseInv is about the live         *)
(* database and its guard; PairInv about the pairs, what a command knows of  *)
(* its own pair and of the one it deletes, and the days retention keeps.     *)
(***************************************************************************)
EXTENDS Backups, TLAPS, FiniteSetTheorems, WellFoundedInduction

Logs == [base : Contents, top : Contents]

(* The database, its guard, and what was ever in it.                       *)
StoreInv ==
  /\ live \in [main : Contents \cup {None}, wal : Logs \cup {None}]
  /\ readers \subseteq Processes \cup Clients
  /\ writer \in Processes \cup {None}
  /\ writer # None => readers = {}
  /\ readers # {} => live.main # None
  /\ commits \in Nat
  /\ history \subseteq Contents
  /\ \A h \in history : h.commit <= commits

(* The log belongs to the file it lies beside.                             *)
LogIsWhole ==
  /\ live.wal # None => live.wal.base = live.main
  /\ View # None => View \in history

FilesAreHistory ==
  /\ files \in [Times -> Contents \cup {None, Blank}]
  /\ \A t \in Times : Whole(t) => files[t] \in history

LocalType ==
  /\ pc \in [Processes -> Labels]
  /\ kind \in [Processes -> {"backup", "restore", "init", None}]
  /\ snap \in [Processes -> Contents \cup {None}]
  /\ staged \in [Processes -> Contents \cup {None}]

(* A command is at a step of its own.                                      *)
StepOfCommand(p) ==
  /\ pc[p] = "idle" <=> kind[p] = None
  /\ pc[p] \in {"guard", "safety"} => kind[p] \in {"restore", "init"}
  /\ pc[p] \in {"inspect", "look", "open", "migrate"} => kind[p] = "init"
  /\ pc[p] \in {"checkpoint", "sidecars", "replace"} => kind[p] = "restore"
  /\ pc[p] = "done" => kind[p] = "backup"
  /\ staged[p] # None => kind[p] = "restore"

(* A restore works on the database under the exclusive guard only; an      *)
(* initialization that found a database works on one.                      *)
GuardIsHeld(p) ==
  /\ kind[p] = "restore" /\ pc[p] # "guard" => writer = p
  /\ kind[p] = "restore" => \E c \in history : staged[p] = Upgraded(c)
  /\ kind[p] = "init" /\ pc[p] \notin {"look", "open"} => live.main # None
  /\ pc[p] \in {"sidecars", "replace"} => live.wal = None
  /\ snap[p] # None => snap[p] \in history

CommandInv(p) == StepOfCommand(p) /\ GuardIsHeld(p)

DatabaseInv ==
  /\ StoreInv /\ LogIsWhole /\ FilesAreHistory /\ LocalType
  /\ \A p \in Processes : CommandInv(p)

LEMMA Constants ==
  /\ Latest \in Nat \ {0}
  /\ None \notin Contents /\ None \notin Processes /\ None \notin Clients
  /\ None \notin Logs /\ Torn \notin Contents
  /\ None \notin {"backup", "restore", "init"}
  /\ Blank \notin Contents /\ Blank # None
  /\ \A p \in Processes : p \notin Clients
<1>1. Latest \in Nat \ {0}
  BY BackupsAssumption DEF BackupsAssumption
<1>2. Torn \notin Contents
  BY <1>1 DEF Torn, Contents
<1> QED
  BY <1>1, <1>2, BackupsAssumption DEF BackupsAssumption, Logs

LEMMA ContentsFacts ==
  ASSUME NEW c \in Contents
  PROVE  /\ c # None /\ c # Torn
         /\ c.commit \in Nat /\ c.schema \in 0..Latest
         /\ Upgraded(c) \in Contents
         /\ Upgraded(c).commit = c.commit /\ Upgraded(c).schema = Latest
  BY Constants DEF Contents, Upgraded, Torn

LEMMA ViewIs ==
  ASSUME StoreInv, LogIsWhole
  PROVE  /\ View = (IF live.wal = None THEN live.main ELSE live.wal.top)
         /\ View \in Contents \cup {None}
         /\ live.main # None => View # None
         /\ live.main = None => live.wal = None
  BY Constants DEF StoreInv, LogIsWhole, View, Logs

LEMMA DatabaseInit == Init => DatabaseInv
<1> SUFFICES ASSUME Init PROVE DatabaseInv
  OBVIOUS
<1>1. /\ Latest \in Nat \ {0} /\ Seeds \subseteq Times
      /\ \A s \in Seeds : SeedContent(s) \in Contents /\ SeedContent(s).commit = 0
  BY BackupsAssumption DEF BackupsAssumption, SeedContent, Contents
<1>2. PICK m \in {None} \cup {[commit |-> 0, schema |-> v] : v \in {Latest - 1, Latest}} :
        live = [main |-> m, wal |-> None]
  BY DEF Init
<1>3. m \in Contents \cup {None} /\ (m # None => m.commit = 0)
  BY <1>1, <1>2 DEF Contents
<1>4. /\ live.main = m /\ live.wal = None /\ View = m
      /\ live \in [main : Contents \cup {None}, wal : Logs \cup {None}]
  BY <1>2, <1>3 DEF View
<1>5. history = {SeedContent(s) : s \in Seeds} \cup ({m} \ {None})
  BY <1>4 DEF Init
<1>6. \A h \in history : h \in Contents /\ h.commit = 0
  BY <1>1, <1>3, <1>5
<1>7. StoreInv
  BY <1>4, <1>6 DEF Init, StoreInv
<1>8. LogIsWhole
  BY <1>4, <1>5 DEF LogIsWhole
<1>9. FilesAreHistory
  BY <1>1, <1>5 DEF Init, FilesAreHistory, Whole
<1>10. LocalType
  BY DEF Init, LocalType, Labels
<1>11. \A p \in Processes : CommandInv(p)
  BY Constants DEF Init, CommandInv, StepOfCommand, GuardIsHeld
<1> QED
  BY <1>7, <1>8, <1>9, <1>10, <1>11 DEF DatabaseInv
-----------------------------------------------------------------------------
(***************************************************************************)
(* Steps that leave the database as it is.                                  *)
(***************************************************************************)
Only(p) ==
  \A q \in Processes \ {p} :
    pc'[q] = pc[q] /\ kind'[q] = kind[q] /\ snap'[q] = snap[q] /\ staged'[q] = staged[q]

LEMMA OtherCommand ==
  ASSUME NEW q \in Processes, CommandInv(q),
         pc'[q] = pc[q] /\ kind'[q] = kind[q] /\ snap'[q] = snap[q] /\ staged'[q] = staged[q],
         history \subseteq history',
         writer = q => writer' = q /\ (live.wal = None => live'.wal = None),
         live.main # None => live'.main # None
  PROVE  CommandInv(q)'
<1>1. StepOfCommand(q)'
  BY DEF CommandInv, StepOfCommand
<1>2. GuardIsHeld(q)'
  BY Constants DEF CommandInv, StepOfCommand, GuardIsHeld
<1> QED
  BY <1>1, <1>2 DEF CommandInv

LEMMA QuietStep ==
  ASSUME DatabaseInv, NEW p \in Processes, Only(p),
         UNCHANGED <<live, readers, history, commits>>,
         writer' = writer \/ (writer = None /\ writer' = p /\ readers = {}),
         FilesAreHistory', LocalType', CommandInv(p)'
  PROVE  DatabaseInv'
<1>1. StoreInv'
  BY DEF DatabaseInv, StoreInv
<1>2. LogIsWhole'
  BY DEF DatabaseInv, LogIsWhole, View
<1>3. \A q \in Processes \ {p} : CommandInv(q)'
  <2> SUFFICES ASSUME NEW q \in Processes \ {p} PROVE CommandInv(q)'
    OBVIOUS
  <2>1. writer = q => writer' = q
    BY Constants
  <2> QED
    BY <2>1, OtherCommand DEF DatabaseInv, Only
<1> QED
  BY <1>1, <1>2, <1>3 DEF DatabaseInv

LEMMA EndedStep ==
  ASSUME DatabaseInv, NEW p \in Processes, Ended(p),
         StoreInv', LogIsWhole', FilesAreHistory',
         history \subseteq history',
         live.main # None => live'.main # None,
         writer \in {p, None} \/ live' = live
  PROVE  DatabaseInv'
<1>1. LocalType'
  BY DEF DatabaseInv, LocalType, Ended, Goto, Labels
<1>2. Only(p)
  BY DEF DatabaseInv, LocalType, Ended, Goto, Only
<1>3. \A q \in Processes \ {p} : CommandInv(q)'
  <2> SUFFICES ASSUME NEW q \in Processes \ {p} PROVE CommandInv(q)'
    OBVIOUS
  <2>1. writer = q => writer' = q /\ live' = live
    BY Constants DEF Ended
  <2> QED
    BY <1>2, <2>1, OtherCommand DEF DatabaseInv, Only
<1>4. pc'[p] = "idle" /\ kind'[p] = None /\ snap'[p] = None /\ staged'[p] = None
  BY DEF DatabaseInv, LocalType, Ended, Goto
<1>5. CommandInv(p)'
  BY <1>4, Constants DEF CommandInv, StepOfCommand, GuardIsHeld
<1> QED
  BY <1>1, <1>3, <1>5 DEF DatabaseInv

LEMMA EndedQuietly ==
  ASSUME DatabaseInv, NEW p \in Processes, Ended(p),
         UNCHANGED <<live, history, commits>>, FilesAreHistory'
  PROVE  DatabaseInv'
<1>1. StoreInv'
  BY DEF DatabaseInv, StoreInv, Ended
<1>2. LogIsWhole'
  BY DEF DatabaseInv, LogIsWhole, View
<1> QED
  BY <1>1, <1>2, EndedStep

(* The database is as it was; and so it is when a process lets its guards go *)
(* and gives up what it chose.                                             *)
Untouched == View' = View /\ UNCHANGED <<readers, history, staged>>
Leaves(u) ==
  /\ View' = View /\ history' = history
  /\ readers' = readers \ {u}
  /\ staged' = [v \in Processes |-> IF v = u THEN None ELSE staged[v]]

LEMMA EndedLeaves ==
  ASSUME LocalType, NEW p \in Processes, Ended(p), UNCHANGED <<live, history>>
  PROVE  Leaves(p)
  BY DEF LocalType, Ended, Leaves, View

LEMMA BackupKeeps ==
  ASSUME DatabaseInv, NEW p \in Processes,
         \/ BeginBackup(p) \/ Snapshot(p) \/ Publish(p) \/ Describe(p) \/ List(p)
         \/ Verify(p) \/ Probe(p) \/ Retain(p) \/ Prune(p) \/ Take(p) \/ Unlink(p)
         \/ Pruned(p)
  PROVE  DatabaseInv'
<1>1. CommandInv(p) /\ FilesAreHistory /\ LocalType /\ StoreInv /\ LogIsWhole
  BY DEF DatabaseInv
<1>2. UNCHANGED <<live, readers, writer, history, commits, staged>>
  BY DEF BeginBackup, Snapshot, Publish, Describe, List, Verify, Probe, Retain, Prune, Take,
         Unlink, Pruned, store, past, bounds
<1>3. CASE BeginBackup(p)
  <2>1. LocalType' /\ Only(p)
    BY <1>1, <1>3 DEF BeginBackup, Stamped, Goto, LocalType, Labels, BackupLabels, Only
  <2>2. CommandInv(p)'
    BY <1>1, <1>2, <1>3, Constants
       DEF BeginBackup, MayBegin, Stamped, Goto, LocalType, CommandInv, StepOfCommand, GuardIsHeld
  <2>3. FilesAreHistory'
    BY <1>1, <1>2, <1>3 DEF BeginBackup, FilesAreHistory, Whole, pairs
  <2> QED
    BY <1>2, <2>1, <2>2, <2>3, QuietStep
<1>4. CASE Snapshot(p)
  <2>1. View \in Contents \cup {None} /\ (View # None => View \in history)
    BY <1>1, ViewIs DEF LogIsWhole
  <2>2. LocalType' /\ Only(p)
    BY <1>1, <1>4, <2>1 DEF Snapshot, Goto, LocalType, Labels, BackupLabels, Only
  <2>3. CommandInv(p)'
    BY <1>1, <1>2, <1>4, <2>1, Constants
       DEF Snapshot, Goto, LocalType, CommandInv, StepOfCommand, GuardIsHeld
  <2>4. FilesAreHistory'
    BY <1>1, <1>2, <1>4 DEF Snapshot, FilesAreHistory, Whole, pairs
  <2> QED
    BY <1>2, <2>2, <2>3, <2>4, QuietStep
<1>5. CASE \/ Publish(p) \/ Describe(p) \/ List(p) \/ Verify(p) \/ Probe(p) \/ Retain(p)
           \/ Prune(p) \/ Take(p) \/ Unlink(p)
  <2>1. /\ kind' = kind /\ pc[p] \in BackupLabels
        /\ snap' \in {snap, [snap EXCEPT ![p] = None]}
    BY <1>5 DEF Publish, Describe, List, Verify, Probe, Retain, Prune, Take, Unlink, BackupLabels
  <2>2. PICK label \in BackupLabels : pc' = [pc EXCEPT ![p] = label]
    <3>1. CASE Verify(p) /\ UNCHANGED pc
      BY <1>1, <2>1, <3>1 DEF LocalType
    <3> QED
      BY <1>5, <3>1 DEF Publish, Describe, List, Verify, Probe, Retain, Prune, Take, Unlink, Goto,
                        BackupLabels
  <2>3. LocalType' /\ Only(p)
    BY <1>1, <1>2, <2>1, <2>2 DEF LocalType, Labels, Only
  <2>4. pc'[p] = label /\ snap'[p] \in {snap[p], None}
    BY <1>1, <2>1, <2>2 DEF LocalType
  <2>5. CommandInv(p)'
    BY <1>1, <1>2, <2>1, <2>2, <2>4, Constants
       DEF CommandInv, StepOfCommand, GuardIsHeld, BackupLabels
  <2>6. FilesAreHistory'
    <3>1. CASE Publish(p)
      BY <1>1, <1>2, <3>1, Constants
         DEF Publish, FilesAreHistory, Whole, LocalType, CommandInv, GuardIsHeld
    <3>2. CASE Unlink(p)
      BY <1>1, <1>2, <3>2 DEF Unlink, FilesAreHistory, Whole
    <3>3. CASE Probe(p)
      BY <1>1, <1>2, <3>3 DEF Probe, FilesAreHistory, Whole
    <3>4. CASE UNCHANGED files
      BY <1>1, <1>2, <3>4 DEF FilesAreHistory, Whole
    <3> QED
      BY <1>5, <3>1, <3>2, <3>3, <3>4 DEF Describe, List, Verify, Retain, Prune, Take, pairs
  <2> QED
    BY <1>2, <2>3, <2>5, <2>6, QuietStep
<1>6. CASE Pruned(p)
  <2>1. UNCHANGED <<kind, snap, files>> /\ pc[p] = "prune"
    BY <1>6 DEF Pruned, pairs
  <2>2. pc' = [pc EXCEPT ![p] = AfterBackup(p)]
    BY <1>6 DEF Pruned, Goto
  <2>3. /\ kind[p] = "backup" => AfterBackup(p) = "done"
        /\ kind[p] = "restore" => AfterBackup(p) = "checkpoint"
        /\ kind[p] = "init" => AfterBackup(p) = "migrate"
        /\ kind[p] \in {"backup", "restore", "init"}
    BY <1>1, <2>1, Constants DEF AfterBackup, CommandInv, StepOfCommand, LocalType
  <2>4. LocalType' /\ Only(p) /\ pc'[p] = AfterBackup(p)
    BY <1>1, <1>2, <2>1, <2>2, <2>3 DEF LocalType, Labels, Only
  <2>5. CommandInv(p)'
    BY <1>1, <1>2, <2>1, <2>3, <2>4, Constants DEF CommandInv, StepOfCommand, GuardIsHeld
  <2>6. FilesAreHistory'
    BY <1>1, <1>2, <2>1 DEF FilesAreHistory, Whole
  <2> QED
    BY <1>2, <2>4, <2>5, <2>6, QuietStep
<1> QED
  BY <1>3, <1>4, <1>5, <1>6

LEMMA CommandKeeps ==
  ASSUME DatabaseInv, NEW p \in Processes,
         \/ \E t \in Times : BeginRestore(p, t)
         \/ BeginInit(p) \/ Look(p) \/ Lock(p) \/ BeginSafetyBackup(p)
  PROVE  DatabaseInv'
<1>1. CommandInv(p) /\ FilesAreHistory /\ LocalType /\ StoreInv /\ LogIsWhole
  BY DEF DatabaseInv
<1>2. UNCHANGED <<live, readers, history, commits, snap, files>>
  BY DEF BeginRestore, BeginInit, Look, Lock, BeginSafetyBackup, store, pairs, past, bounds
<1>3. FilesAreHistory'
  BY <1>1, <1>2 DEF FilesAreHistory, Whole
<1>4. ASSUME NEW t \in Times, BeginRestore(p, t) PROVE DatabaseInv'
  <2>1. files[t] \in Contents /\ files[t] \in history
    BY <1>1, <1>4 DEF BeginRestore, Verified, FilesAreHistory, Whole
  <2>2. Upgraded(files[t]) \in Contents
    BY <2>1, ContentsFacts
  <2>3. LocalType' /\ Only(p)
    BY <1>1, <1>4, <2>2 DEF BeginRestore, Goto, LocalType, Labels, Only
  <2>4. CommandInv(p)'
    BY <1>1, <1>2, <1>4, <2>1, Constants
       DEF BeginRestore, Goto, LocalType, CommandInv, StepOfCommand, GuardIsHeld
  <2>5. writer' = writer
    BY <1>4 DEF BeginRestore, store
  <2> QED
    BY <1>2, <1>3, <2>3, <2>4, <2>5, QuietStep
<1>5. CASE BeginInit(p) \/ Look(p)
  <2>1. LocalType' /\ Only(p)
    BY <1>1, <1>5 DEF BeginInit, Look, Goto, LocalType, Labels, Only
  <2>2. CommandInv(p)'
    BY <1>1, <1>2, <1>5, Constants
       DEF BeginInit, Look, MayBegin, Goto, LocalType, CommandInv, StepOfCommand, GuardIsHeld
  <2>3. writer' = writer
    BY <1>5 DEF BeginInit, Look, store
  <2> QED
    BY <1>2, <1>3, <2>1, <2>2, <2>3, QuietStep
<1>6. CASE Lock(p)
  <2>1. live.main = None => live.wal = None
    BY <1>1, ViewIs
  <2>2. LocalType' /\ Only(p)
    BY <1>1, <1>6 DEF Lock, Goto, LocalType, Labels, Only
  <2>3. pc[p] = "guard" /\ writer' = p /\ kind' = kind /\ staged' = staged
    BY <1>6 DEF Lock
  <2>4. pc'[p] = IF kind[p] = "init" THEN "inspect"
                 ELSE IF live.main # None THEN "safety" ELSE "replace"
    BY <1>1, <1>6 DEF Lock, Goto, LocalType
  <2>5. CommandInv(p)'
    BY <1>1, <1>2, <2>1, <2>3, <2>4, Constants DEF CommandInv, StepOfCommand, GuardIsHeld
  <2>6. writer = None /\ writer' = p /\ readers = {}
    BY <1>6 DEF Lock
  <2> QED
    BY <1>2, <1>3, <2>2, <2>5, <2>6, QuietStep
<1>7. CASE BeginSafetyBackup(p)
  <2>1. LocalType' /\ Only(p)
    BY <1>1, <1>7 DEF BeginSafetyBackup, Stamped, Goto, LocalType, Labels, BackupLabels, Only
  <2>2. writer' = writer
    BY <1>7 DEF BeginSafetyBackup, store
  <2>3. CommandInv(p)'
    BY <1>1, <1>2, <1>7, <2>2, Constants
       DEF BeginSafetyBackup, Stamped, Goto, LocalType, CommandInv, StepOfCommand, GuardIsHeld
  <2> QED
    BY <1>2, <1>3, <2>1, <2>2, <2>3, QuietStep
<1> QED
  BY <1>4, <1>5, <1>6, <1>7

(* Every failure leaves the database alone and lets the guards go.         *)
LEMMA FailureKeeps ==
  ASSUME DatabaseInv, NEW p \in Processes, FailureStep(p) \/ FinishBackup(p)
  PROVE  DatabaseInv' /\ (Untouched \/ Leaves(p))
<1>1. CommandInv(p) /\ FilesAreHistory /\ LocalType
  BY DEF DatabaseInv
<1>2. CASE FinishBackup(p) \/ GiveUp(p) \/ Fail(p) \/ Die(p)
  <2>1. UNCHANGED <<live, history, commits, files>> /\ Ended(p)
    BY <1>2 DEF FinishBackup, GiveUp, Fail, Die, pairs, past, bounds
  <2>2. FilesAreHistory'
    BY <1>1, <2>1 DEF FilesAreHistory, Whole
  <2> QED
    BY <1>1, <2>1, <2>2, EndedQuietly, EndedLeaves
<1>3. CASE FailVerify(p) \/ FailBackup(p) \/ FailUnlink(p) \/ CleanMetadata(p)
  <2>1. /\ UNCHANGED <<live, readers, writer, history, commits, files, kind, snap, staged>>
        /\ pc[p] \in BackupLabels
    BY <1>3 DEF FailVerify, FailBackup, FailUnlink, CleanMetadata, store, pairs, past, bounds,
                BackupLabels
  <2>2. PICK label \in BackupLabels : pc' = [pc EXCEPT ![p] = label]
    BY <1>3 DEF FailVerify, FailBackup, FailUnlink, CleanMetadata, Goto, BackupLabels
  <2>3. LocalType' /\ Only(p) /\ pc'[p] = label
    BY <1>1, <2>1, <2>2 DEF LocalType, Labels, Only
  <2>4. CommandInv(p)'
    BY <1>1, <2>1, <2>3, Constants DEF CommandInv, StepOfCommand, GuardIsHeld, BackupLabels
  <2>5. FilesAreHistory' /\ Untouched
    BY <1>1, <2>1 DEF FilesAreHistory, Whole, Untouched, View
  <2> QED
    BY <2>1, <2>3, <2>4, <2>5, QuietStep
<1>4. CASE CleanFile(p)
  <2>1. UNCHANGED <<live, history, commits>> /\ Ended(p)
    BY <1>4 DEF CleanFile, past, bounds
  <2>2. FilesAreHistory'
    BY <1>1, <1>4 DEF CleanFile, FilesAreHistory, Whole, past
  <2> QED
    BY <1>1, <2>1, <2>2, EndedQuietly, EndedLeaves
<1> QED
  BY <1>2, <1>3, <1>4 DEF FailureStep

-----------------------------------------------------------------------------
(***************************************************************************)
(* Steps that change the database.                                          *)
(***************************************************************************)

(* Another connection works beside commands that do not hold the guard.    *)
LEMMA ConnectionKeeps ==
  ASSUME DatabaseInv, NEW c \in Clients, Connect(c) \/ Commit(c) \/ Disconnect(c)
  PROVE  /\ DatabaseInv' /\ staged' = staged
         /\ \/ Connect(c) /\ View' = View
            \/ Disconnect(c) /\ View' = View
            \/ /\ Commit(c) /\ View # None /\ View' # None /\ View'.schema = Latest
               /\ View' \notin history /\ history' = history \cup {View'}
<1>1. StoreInv /\ LogIsWhole /\ FilesAreHistory /\ LocalType
      /\ \A p \in Processes : CommandInv(p)
  BY DEF DatabaseInv
<1>2. /\ View = (IF live.wal = None THEN live.main ELSE live.wal.top)
      /\ View \in Contents \cup {None}
      /\ live.main # None => View # None
      /\ live.main = None => live.wal = None
  BY <1>1, ViewIs
<1>3. UNCHANGED <<files, pc, kind, snap, staged, writer>>
  BY DEF Connect, Commit, Disconnect, pairs, local
<1>4. FilesAreHistory' /\ LocalType'
  <2>1. history \subseteq history'
    BY DEF Connect, Commit, Disconnect, past
  <2> QED
    BY <1>1, <1>3, <2>1 DEF FilesAreHistory, Whole, LocalType
<1>5. ASSUME history \subseteq history', live.main # None => live'.main # None,
             writer # None => live' = live
      PROVE  \A p \in Processes : CommandInv(p)'
  <2> SUFFICES ASSUME NEW p \in Processes PROVE CommandInv(p)'
    OBVIOUS
  <2>1. writer = p => writer' = p /\ live' = live
    BY <1>3, <1>5, Constants
  <2> QED
    BY <1>1, <1>3, <1>5, <2>1, OtherCommand
<1>6. CASE Connect(c)
  <2>1. StoreInv'
    BY <1>1, <1>3, <1>6 DEF Connect, StoreInv, past, bounds
  <2>2. UNCHANGED <<live, history>> /\ View' = View
    BY <1>6 DEF Connect, View, past
  <2>3. LogIsWhole'
    BY <1>1, <2>2 DEF LogIsWhole
  <2> QED
    BY <1>3, <1>4, <1>5, <1>6, <2>1, <2>2, <2>3 DEF DatabaseInv
<1>7. CASE Commit(c)
  <2> DEFINE new == [commit |-> commits + 1, schema |-> Latest]
  <2>1. /\ c \in readers /\ live.main # None /\ writer = None
        /\ commits' = commits + 1 /\ UNCHANGED readers
        /\ live' = [live EXCEPT !.wal = [base |-> live.main, top |-> new]]
        /\ history' = history \cup {new}
    BY <1>1, <1>7 DEF Commit, Logged, StoreInv
  <2>2. new \in Contents /\ new.commit = commits + 1 /\ new.schema = Latest /\ new # None
    BY <1>1, Constants DEF Contents, StoreInv
  <2> HIDE DEF new
  <2>3. new \notin history
    BY <1>1, <2>2 DEF StoreInv
  <2>4. live.main \in Contents
    BY <1>1, <2>1 DEF StoreInv
  <2>5. [base |-> live.main, top |-> new] \in Logs
    BY <2>2, <2>4 DEF Logs
  <2>6. /\ live'.main = live.main /\ live'.wal = [base |-> live.main, top |-> new]
        /\ live' \in [main : Contents \cup {None}, wal : Logs \cup {None}]
    BY <1>1, <2>1, <2>5 DEF StoreInv
  <2>7. View' = new
    BY <2>5, <2>6, Constants DEF View
  <2>8. \A h \in history' : h \in Contents /\ h.commit <= commits'
    BY <1>1, <2>1, <2>2, ContentsFacts DEF StoreInv
  <2>9. StoreInv'
    BY <1>1, <1>3, <2>1, <2>6, <2>8 DEF StoreInv
  <2>10. LogIsWhole'
    BY <2>1, <2>6, <2>7 DEF LogIsWhole
  <2> QED
    BY <1>2, <1>3, <1>4, <1>5, <1>7, <2>1, <2>2, <2>3, <2>6, <2>7, <2>9, <2>10 DEF DatabaseInv
<1>8. CASE Disconnect(c)
  <2>1. /\ UNCHANGED <<history, commits>> /\ readers' = readers \ {c} /\ c \in readers
        /\ live' = live \/ live' = Folded
    BY <1>8 DEF Disconnect, past, bounds
  <2>2. writer = None /\ live.main # None
    BY <1>1, <2>1 DEF StoreInv
  <2>3. View' = View /\ live' \in [main : Contents \cup {None}, wal : Logs \cup {None}]
        /\ live'.main # None /\ (live'.wal # None => live'.wal.base = live'.main)
    <3>1. CASE live' = live
      BY <1>1, <2>2, <3>1 DEF View, StoreInv, LogIsWhole
    <3>2. CASE live' = Folded
      BY <1>2, <2>2, <3>2 DEF View, Folded
    <3> QED
      BY <2>1, <3>1, <3>2
  <2>4. StoreInv'
    BY <1>1, <1>3, <2>1, <2>3 DEF StoreInv
  <2>5. LogIsWhole'
    BY <1>1, <2>1, <2>3 DEF LogIsWhole
  <2> QED
    BY <1>3, <1>4, <1>5, <1>8, <2>1, <2>2, <2>3, <2>4, <2>5 DEF DatabaseInv
<1> QED
  BY <1>6, <1>7, <1>8

(* A restore: the log goes into the file it belongs to, then the file is    *)
(* replaced, and nobody is connected.                                       *)
LEMMA RestoreKeeps ==
  ASSUME DatabaseInv, NEW p \in Processes,
         Checkpoint(p) \/ RemoveSidecars(p) \/ Replace(p)
  PROVE  /\ DatabaseInv'
         /\ \/ Untouched
            \/ /\ readers = {} /\ readers' = {}
               /\ staged[p] # None /\ View' = staged[p]
               /\ staged' = [staged EXCEPT ![p] = None]
               /\ history' = history \cup {View'}
<1>1. StoreInv /\ LogIsWhole /\ FilesAreHistory /\ LocalType
      /\ \A q \in Processes : CommandInv(q)
  BY DEF DatabaseInv
<1>2. /\ View = (IF live.wal = None THEN live.main ELSE live.wal.top)
      /\ View \in Contents \cup {None}
      /\ live.main # None => View # None
      /\ live.main = None => live.wal = None
  BY <1>1, ViewIs
<1>3. kind[p] = "restore" /\ writer = p /\ readers = {}
  <2>1. pc[p] \in {"checkpoint", "sidecars", "replace"}
    BY DEF Checkpoint, RemoveSidecars, Replace
  <2> QED
    BY <1>1, <2>1, Constants DEF CommandInv, StepOfCommand, GuardIsHeld, StoreInv
<1>4. CASE Checkpoint(p)
  <2>1. /\ UNCHANGED <<readers, writer, files, history, commits, kind, snap, staged>>
        /\ live' = Folded /\ pc' = [pc EXCEPT ![p] = "sidecars"]
    BY <1>4 DEF Checkpoint, Goto, pairs, past, bounds
  <2>2. /\ live'.main = View /\ live'.wal = None /\ View' = View
        /\ live' \in [main : Contents \cup {None}, wal : Logs \cup {None}]
    BY <1>2, <2>1 DEF Folded, View
  <2>3. StoreInv' /\ LogIsWhole' /\ FilesAreHistory'
    BY <1>1, <1>3, <2>1, <2>2 DEF StoreInv, LogIsWhole, FilesAreHistory, Whole
  <2>4. LocalType' /\ Only(p) /\ pc'[p] = "sidecars"
    BY <1>1, <2>1 DEF LocalType, Labels, Only
  <2>5. CommandInv(p)'
    BY <1>1, <1>3, <2>1, <2>2, <2>4, Constants DEF CommandInv, StepOfCommand, GuardIsHeld
  <2>6. \A q \in Processes \ {p} : CommandInv(q)'
    BY <1>1, <1>2, <1>3, <2>1, <2>2, <2>4, OtherCommand DEF Only
  <2> QED
    BY <1>3, <2>1, <2>2, <2>3, <2>4, <2>5, <2>6 DEF DatabaseInv, Untouched
<1>5. CASE RemoveSidecars(p)
  <2>1. /\ UNCHANGED <<readers, writer, files, history, commits, kind, snap, staged>>
        /\ live' = [live EXCEPT !.wal = None] /\ pc' = [pc EXCEPT ![p] = "replace"]
        /\ pc[p] = "sidecars"
    BY <1>5 DEF RemoveSidecars, Goto, pairs, past, bounds
  <2>2. live.wal = None
    BY <1>1, <2>1 DEF CommandInv, GuardIsHeld
  <2>3. live'.main = live.main /\ live'.wal = None /\ View' = View
        /\ live' \in [main : Contents \cup {None}, wal : Logs \cup {None}]
    BY <1>1, <2>1, <2>2 DEF View, StoreInv
  <2>4. StoreInv' /\ LogIsWhole' /\ FilesAreHistory'
    BY <1>1, <1>3, <2>1, <2>3 DEF StoreInv, LogIsWhole, FilesAreHistory, Whole
  <2>5. LocalType' /\ Only(p) /\ pc'[p] = "replace"
    BY <1>1, <2>1 DEF LocalType, Labels, Only
  <2>6. CommandInv(p)'
    BY <1>1, <1>3, <2>1, <2>3, <2>5, Constants DEF CommandInv, StepOfCommand, GuardIsHeld
  <2>7. \A q \in Processes \ {p} : CommandInv(q)'
    BY <1>1, <1>3, <2>1, <2>3, <2>5, OtherCommand DEF Only
  <2> QED
    BY <1>3, <2>1, <2>3, <2>4, <2>5, <2>6, <2>7 DEF DatabaseInv, Untouched
<1>6. CASE Replace(p)
  <2>1. /\ UNCHANGED <<files, commits>> /\ Ended(p) /\ pc[p] = "replace"
        /\ live' = [live EXCEPT !.main = staged[p]]
        /\ history' = history \cup {staged[p]}
    BY <1>6 DEF Replace, pairs, bounds
  <2>2. PICK c \in history : staged[p] = Upgraded(c)
    BY <1>1, <1>3 DEF CommandInv, GuardIsHeld
  <2>3. staged[p] \in Contents /\ staged[p] # None /\ staged[p].commit <= commits
    BY <1>1, <2>2, ContentsFacts DEF StoreInv
  <2>4. live.wal = None
    BY <1>1, <2>1 DEF CommandInv, GuardIsHeld
  <2>5. live'.main = staged[p] /\ live'.wal = None /\ View' = staged[p]
        /\ live' \in [main : Contents \cup {None}, wal : Logs \cup {None}]
    BY <1>1, <2>1, <2>3, <2>4 DEF View, StoreInv
  <2>6. readers' = {} /\ writer' = None
    BY <1>3, <2>1 DEF Ended
  <2>7. StoreInv'
    BY <1>1, <2>1, <2>3, <2>5, <2>6 DEF StoreInv
  <2>8. LogIsWhole' /\ FilesAreHistory'
    BY <1>1, <2>1, <2>5 DEF LogIsWhole, FilesAreHistory, Whole
  <2>9. DatabaseInv'
    BY <1>3, <2>1, <2>3, <2>5, <2>7, <2>8, EndedStep
  <2> QED
    BY <1>3, <2>1, <2>3, <2>5, <2>6, <2>9 DEF Ended
<1> QED
  BY <1>4, <1>5, <1>6

(* An initialization makes the file or migrates what is there.             *)
LEMMA InitializationKeeps ==
  ASSUME DatabaseInv, NEW p \in Processes, Inspect(p) \/ Create(p) \/ Migrate(p)
  PROVE  /\ DatabaseInv'
         /\ \/ Untouched \/ Leaves(p)
            \/ /\ UNCHANGED <<history, staged>> /\ View' = View
               /\ readers' = readers \cup {p}
            \/ /\ View = None /\ View' # None /\ staged' = staged
               /\ readers' = readers \cup {p} /\ history' = history \cup {View'}
            \/ /\ View # None /\ View' = Upgraded(View) /\ staged' = staged
               /\ readers' = readers \ {p} /\ history' = history \cup {View'}
<1>1. StoreInv /\ LogIsWhole /\ FilesAreHistory /\ LocalType
      /\ \A q \in Processes : CommandInv(q)
  BY DEF DatabaseInv
<1>2. /\ View = (IF live.wal = None THEN live.main ELSE live.wal.top)
      /\ View \in Contents \cup {None}
      /\ live.main # None => View # None
      /\ live.main = None => live.wal = None
  BY <1>1, ViewIs
<1>3. CASE Ended(p) /\ UNCHANGED <<live, history, commits, files>>
  <2>1. FilesAreHistory'
    BY <1>1, <1>3 DEF FilesAreHistory, Whole
  <2> QED
    BY <1>1, <1>3, <2>1, EndedQuietly, EndedLeaves
<1>4. CASE Inspect(p) /\ ~ Ended(p)
  <2>1. /\ UNCHANGED <<live, readers, writer, files, history, commits, kind, snap, staged>>
        /\ pc' = [pc EXCEPT ![p] = "safety"]
        /\ pc[p] = "inspect" \/ (live.main # None /\ pc[p] = "look")
    BY <1>4 DEF Inspect, Goto, pairs, past, bounds
  <2>2. LocalType' /\ Only(p) /\ pc'[p] = "safety"
    BY <1>1, <2>1 DEF LocalType, Labels, Only
  <2>3. CommandInv(p)'
    BY <1>1, <2>1, <2>2, Constants DEF CommandInv, StepOfCommand, GuardIsHeld
  <2>4. FilesAreHistory' /\ View' = View
    BY <1>1, <2>1 DEF FilesAreHistory, Whole, View
  <2> QED
    BY <2>1, <2>2, <2>3, <2>4, QuietStep DEF Untouched
<1>5. CASE Create(p) /\ live.main = None
  <2> DEFINE empty == [commit |-> 0, schema |-> 0]
  <2>1. /\ UNCHANGED <<writer, files, commits, kind, snap, staged>>
        /\ pc[p] = "open" /\ live.main = None /\ writer = None
        /\ live' = [main |-> empty, wal |-> None]
        /\ history' = history \cup {empty}
        /\ readers' = readers \cup {p}
        /\ pc' = [pc EXCEPT ![p] = "migrate"]
    BY <1>5 DEF Create, Goto, pairs, bounds
  <2>2. empty \in Contents /\ empty # None /\ empty.commit = 0
    BY Constants DEF Contents
  <2> HIDE DEF empty
  <2>3. /\ live'.main = empty /\ live'.wal = None /\ View' = empty /\ View = None
        /\ live' \in [main : Contents \cup {None}, wal : Logs \cup {None}]
    BY <1>2, <2>1, <2>2 DEF View
  <2>4. StoreInv'
    BY <1>1, <2>1, <2>2, <2>3 DEF StoreInv
  <2>5. LogIsWhole' /\ FilesAreHistory'
    BY <1>1, <2>1, <2>3 DEF LogIsWhole, FilesAreHistory, Whole
  <2>6. LocalType' /\ Only(p) /\ pc'[p] = "migrate"
    BY <1>1, <2>1 DEF LocalType, Labels, Only
  <2>7. CommandInv(p)'
    BY <1>1, <2>1, <2>2, <2>3, <2>6, Constants DEF CommandInv, StepOfCommand, GuardIsHeld
  <2>8. \A q \in Processes \ {p} : CommandInv(q)'
    BY <1>1, <2>1, <2>3, <2>6, OtherCommand, Constants DEF Only
  <2> QED
    BY <2>1, <2>2, <2>3, <2>4, <2>5, <2>6, <2>7, <2>8 DEF DatabaseInv
<1>6. CASE Create(p) /\ live.main # None
  <2>1. /\ UNCHANGED <<live, writer, files, commits, history, kind, snap, staged>>
        /\ pc[p] = "open" /\ writer = None
        /\ readers' = readers \cup {p}
        /\ pc' = [pc EXCEPT ![p] = "migrate"]
    BY <1>6 DEF Create, Goto, pairs, bounds
  <2>2. StoreInv' /\ LogIsWhole' /\ FilesAreHistory' /\ View' = View
    BY <1>1, <1>6, <2>1 DEF StoreInv, LogIsWhole, FilesAreHistory, Whole, View
  <2>3. LocalType' /\ Only(p) /\ pc'[p] = "migrate"
    BY <1>1, <2>1 DEF LocalType, Labels, Only
  <2>4. CommandInv(p)'
    BY <1>1, <1>6, <2>1, <2>3, Constants DEF CommandInv, StepOfCommand, GuardIsHeld
  <2>5. \A q \in Processes \ {p} : CommandInv(q)'
    BY <1>1, <2>1, <2>3, OtherCommand, Constants DEF Only
  <2> QED
    BY <2>1, <2>2, <2>3, <2>4, <2>5 DEF DatabaseInv
<1>7. CASE Migrate(p) /\ View.schema < Latest
  <2>1. /\ UNCHANGED <<files, commits>> /\ Ended(p) /\ writer \in {p, None}
        /\ pc[p] = "migrate"
        /\ live' = [live EXCEPT !.wal = [base |-> live.main, top |-> Upgraded(View)]]
        /\ history' = history \cup {Upgraded(View)}
    BY <1>7 DEF Migrate, Logged, pairs, bounds
  <2>2. live.main # None /\ live.main \in Contents
    BY <1>1, <2>1 DEF CommandInv, StepOfCommand, GuardIsHeld, StoreInv
  <2>3. View \in Contents /\ View \in history /\ View.commit <= commits
    BY <1>1, <1>2, <2>2 DEF LogIsWhole, StoreInv
  <2> DEFINE new == Upgraded(View)
  <2>4. new \in Contents /\ new # None /\ new.commit <= commits
    BY <2>3, ContentsFacts
  <2> HIDE DEF new
  <2>5. [base |-> live.main, top |-> new] \in Logs
    BY <2>2, <2>4 DEF Logs
  <2>6. /\ live'.main = live.main /\ live'.wal = [base |-> live.main, top |-> new]
        /\ live' \in [main : Contents \cup {None}, wal : Logs \cup {None}]
    BY <1>1, <2>1, <2>5 DEF StoreInv, new
  <2>7. View' = new
    BY <2>5, <2>6, Constants DEF View
  <2>8. /\ readers' = readers \ {p} /\ writer' = None
    BY <2>1 DEF Ended
  <2>9. history' = history \cup {new}
    BY <2>1 DEF new
  <2>10. StoreInv'
    BY <1>1, <2>1, <2>2, <2>4, <2>6, <2>8, <2>9 DEF StoreInv
  <2>11. LogIsWhole' /\ FilesAreHistory'
    BY <1>1, <2>1, <2>6, <2>7, <2>9 DEF LogIsWhole, FilesAreHistory, Whole
  <2>12. DatabaseInv'
    BY <2>1, <2>2, <2>6, <2>9, <2>10, <2>11, EndedStep
  <2>13. View # None /\ View' = Upgraded(View)
    BY <1>2, <2>2, <2>7 DEF new
  <2>14. staged' = staged
    <3>1. staged[p] = None
      BY <1>1, <2>1, Constants DEF CommandInv, StepOfCommand
    <3> QED
      BY <1>1, <2>1, <3>1 DEF Ended, LocalType
  <2> QED
    BY <2>7, <2>8, <2>9, <2>12, <2>13, <2>14
<1> QED
  BY <1>3, <1>4, <1>5, <1>6, <1>7 DEF Inspect, Migrate, pairs, past, bounds

LEMMA DatabaseStep == DatabaseInv /\ [Next]_vars => DatabaseInv'
<1> SUFFICES ASSUME DatabaseInv, [Next]_vars PROVE DatabaseInv'
  OBVIOUS
<1>1. ASSUME NEW p \in Processes, BackupStep(p) PROVE DatabaseInv'
  BY <1>1, BackupKeeps, FailureKeeps DEF BackupStep
<1>2. ASSUME NEW p \in Processes, RestoreStep(p) PROVE DatabaseInv'
  BY <1>2, CommandKeeps, RestoreKeeps DEF RestoreStep
<1>3. ASSUME NEW p \in Processes, InitStep(p) PROVE DatabaseInv'
  BY <1>3, CommandKeeps, InitializationKeeps DEF InitStep
<1>4. ASSUME NEW p \in Processes, FailureStep(p) PROVE DatabaseInv'
  BY <1>4, FailureKeeps
<1>5. ASSUME NEW c \in Clients, Connect(c) \/ Commit(c) \/ Disconnect(c) PROVE DatabaseInv'
  BY <1>5, ConnectionKeeps
<1>6. CASE UNCHANGED vars
  BY <1>6 DEF vars, store, pairs, local, past, bounds, DatabaseInv, StoreInv, LogIsWhole, View,
              FilesAreHistory, Whole, LocalType, CommandInv, StepOfCommand, GuardIsHeld
<1> QED
  BY <1>1, <1>2, <1>3, <1>4, <1>5, <1>6 DEF Next

-----------------------------------------------------------------------------
(***************************************************************************)
(* The refinement.                                                         *)
(***************************************************************************)
LEMMA ContractStep == DatabaseInv /\ [Next]_vars => [Contract!Next]_(Contract!lvars)
<1> SUFFICES ASSUME DatabaseInv, [Next]_vars PROVE [Contract!Next]_(Contract!lvars)
  OBVIOUS
<1> DEFINE Users == Processes \cup Clients
<1>1. ASSUME Untouched PROVE [Contract!Next]_(Contract!lvars)
  BY <1>1 DEF Contract!lvars, Untouched
<1>2. ASSUME NEW u \in Users, Leaves(u) PROVE [Contract!Next]_(Contract!lvars)
  <2>1. Contract!Leave(u)
    BY <1>2 DEF Contract!Leave, Leaves
  <2> QED
    BY <2>1 DEF Contract!Next
<1>3. ASSUME NEW p \in Processes, FailureStep(p) \/ FinishBackup(p)
      PROVE  [Contract!Next]_(Contract!lvars)
  BY <1>1, <1>2, <1>3, FailureKeeps
<1>4. ASSUME NEW p \in Processes,
             \/ BeginBackup(p) \/ Snapshot(p) \/ Publish(p) \/ Describe(p) \/ List(p)
             \/ Verify(p) \/ Probe(p) \/ Retain(p) \/ Prune(p) \/ Take(p) \/ Unlink(p)
             \/ Pruned(p) \/ BeginInit(p) \/ Look(p) \/ Lock(p) \/ BeginSafetyBackup(p)
      PROVE  [Contract!Next]_(Contract!lvars)
  <2>1. UNCHANGED <<live, readers, history, staged>>
    BY <1>4 DEF BeginBackup, Snapshot, Publish, Describe, List, Verify, Probe, Retain, Prune, Take,
                Unlink, Pruned, BeginInit, Look, Lock, BeginSafetyBackup, store, past
  <2> QED
    BY <1>1, <2>1 DEF Untouched, View
<1>5. ASSUME NEW p \in Processes, NEW t \in Times, BeginRestore(p, t)
      PROVE  [Contract!Next]_(Contract!lvars)
  <2>1. files[t] \in history
    BY <1>5 DEF BeginRestore, Verified, DatabaseInv, FilesAreHistory
  <2>2. staged[p] = None
    BY <1>5, Constants DEF BeginRestore, MayBegin, DatabaseInv, CommandInv, StepOfCommand
  <2>3. /\ UNCHANGED <<live, readers, history>> /\ View' = View
        /\ staged' = [staged EXCEPT ![p] = Upgraded(files[t])]
    BY <1>5 DEF BeginRestore, store, past, View
  <2>4. Contract!Choose(p)
    BY <2>1, <2>2, <2>3 DEF Contract!Choose, Contract!Current, Upgraded
  <2> QED
    BY <2>4 DEF Contract!Next
<1>6. ASSUME NEW p \in Processes, Checkpoint(p) \/ RemoveSidecars(p) \/ Replace(p)
      PROVE  [Contract!Next]_(Contract!lvars)
  <2>1. \/ Untouched
        \/ /\ readers = {} /\ readers' = {}
           /\ staged[p] # None /\ View' = staged[p]
           /\ staged' = [staged EXCEPT ![p] = None]
           /\ history' = history \cup {View'}
    BY <1>6, RestoreKeeps
  <2>2. CASE /\ readers = {} /\ readers' = {}
             /\ staged[p] # None /\ View' = staged[p]
             /\ staged' = [staged EXCEPT ![p] = None]
             /\ history' = history \cup {View'}
    <3>1. Contract!Replace(p)
      BY <2>2 DEF Contract!Replace
    <3> QED
      BY <3>1 DEF Contract!Next
  <2> QED
    BY <1>1, <2>1, <2>2
<1>7. ASSUME NEW p \in Processes, Inspect(p) \/ Create(p) \/ Migrate(p)
      PROVE  [Contract!Next]_(Contract!lvars)
  <2>1. \/ Untouched \/ Leaves(p)
        \/ /\ UNCHANGED <<history, staged>> /\ View' = View
           /\ readers' = readers \cup {p}
        \/ /\ View = None /\ View' # None /\ staged' = staged
           /\ readers' = readers \cup {p} /\ history' = history \cup {View'}
        \/ /\ View # None /\ View' = Upgraded(View) /\ staged' = staged
           /\ readers' = readers \ {p} /\ history' = history \cup {View'}
    BY <1>7, InitializationKeeps
  <2>2. CASE /\ UNCHANGED <<history, staged>> /\ View' = View
             /\ readers' = readers \cup {p}
    <3>1. CASE p \in readers
      BY <1>1, <2>2, <3>1 DEF Untouched
    <3>2. CASE p \notin readers
      <4>1. Contract!Open(p)
        BY <2>2, <3>2 DEF Contract!Open
      <4> QED
        BY <4>1 DEF Contract!Next
    <3> QED
      BY <3>1, <3>2
  <2>3. CASE /\ View = None /\ View' # None /\ staged' = staged
             /\ readers' = readers \cup {p} /\ history' = history \cup {View'}
    <3>1. Contract!Create(p)
      BY <2>3 DEF Contract!Create
    <3> QED
      BY <3>1 DEF Contract!Next
  <2>4. CASE /\ View # None /\ View' = Upgraded(View) /\ staged' = staged
             /\ readers' = readers \ {p} /\ history' = history \cup {View'}
    <3>1. Contract!Migrate(p)
      BY <2>4 DEF Contract!Migrate, Contract!Current, Upgraded
    <3> QED
      BY <3>1 DEF Contract!Next
  <2> QED
    BY <1>1, <1>2, <2>1, <2>2, <2>3, <2>4
<1>8. ASSUME NEW c \in Clients, Connect(c) \/ Commit(c) \/ Disconnect(c)
      PROVE  [Contract!Next]_(Contract!lvars)
  <2>1. /\ staged' = staged
        /\ \/ Connect(c) /\ View' = View
           \/ Disconnect(c) /\ View' = View
           \/ /\ Commit(c) /\ View # None /\ View' # None /\ View'.schema = Latest
              /\ View' \notin history /\ history' = history \cup {View'}
    BY <1>8, ConnectionKeeps
  <2>2. CASE Connect(c) /\ View' = View
    <3>1. Contract!Open(c)
      BY <2>1, <2>2 DEF Connect, Contract!Open, past
    <3> QED
      BY <3>1 DEF Contract!Next
  <2>3. CASE Disconnect(c) /\ View' = View
    <3>1. Leaves(c)
      BY <2>1, <2>3, Constants DEF Disconnect, Leaves, DatabaseInv, LocalType, past
    <3> QED
      BY <1>2, <3>1
  <2>4. CASE /\ Commit(c) /\ View # None /\ View' # None /\ View'.schema = Latest
             /\ View' \notin history /\ history' = history \cup {View'}
    <3>1. Contract!Commit(c)
      BY <2>1, <2>4 DEF Commit, Contract!Commit
    <3> QED
      BY <3>1 DEF Contract!Next
  <2> QED
    BY <2>1, <2>2, <2>3, <2>4
<1>9. CASE UNCHANGED vars
  BY <1>1, <1>9 DEF vars, store, local, past, Untouched, View
<1> QED
  BY <1>3, <1>4, <1>5, <1>6, <1>7, <1>8, <1>9
     DEF Next, BackupStep, RestoreStep, InitStep

(* database.py and backups.py keep the promise of LiveDatabase with any      *)
(* number of commands, connections, deaths and failing calls, in any order:  *)
(* no committed state is lost, no log is read over a foreign file, a restore  *)
(* puts in place the state it chose, at the current schema, and leaves the    *)
(* contents alone until it does, or when it fails.                           *)
THEOREM DatabaseKeepsItsContract == Spec => LiveDatabaseKept
<1>1. Init => Contract!Init
  <2>1. Init => DatabaseInv
    BY DatabaseInit
  <2> QED
    BY <2>1 DEF Init, Contract!Init, DatabaseInv, LogIsWhole
<1> QED
  BY DatabaseInit, DatabaseStep, ContractStep, <1>1, PTL
     DEF Spec, LiveDatabaseKept, Contract!Spec

-----------------------------------------------------------------------------
(***************************************************************************)
(* Creation times and days.                                                 *)
(***************************************************************************)
LEMMA Least ==
  ASSUME NEW S, S \subseteq Nat, S # {}
  PROVE  \E m \in S : \A x \in S : m <= x
<1> DEFINE R == {ss \in Nat \X Nat : ss[1] < ss[2]}
<1>1. IsWellFoundedOn(R, Nat)
  BY NatLessThanWellFounded DEF OpToRel
<1>2. PICK m \in S : \A x \in S : ~ (<<x, m>> \in R)
  <2> HIDE DEF R
  <2> QED
    BY <1>1, WFMin
<1>3. ASSUME NEW x \in S PROVE m <= x
  <2>1. <<x, m>> \in Nat \X Nat
    OBVIOUS
  <2> QED
    BY <1>2, <2>1
<1> QED
  BY <1>3

LEMMA TimeFacts ==
  /\ Cardinality(Times) \in Nat /\ Times = 1..Cardinality(Times) /\ IsFiniteSet(Times)
  /\ \A t \in Times : t \in Nat \ {0} /\ Day[t] \in Nat
  /\ \A t, u \in Times : t <= u => Day[t] <= Day[u]
<1>1. Times = 1..Cardinality(Times) /\ IsFiniteSet(Times) /\ Day \in [Times -> Nat]
      /\ \A t, u \in Times : t <= u => Day[t] <= Day[u]
  BY BackupsAssumption DEF BackupsAssumption
<1>2. Cardinality(Times) \in Nat
  BY <1>1, FS_CardinalityType
<1> HIDE DEF Times
<1> QED
  BY <1>1, <1>2

LEMMA LatterIs ==
  ASSUME NEW S, S \subseteq Times, S # {}
  PROVE  Latter(S) \in S /\ \A u \in S : u <= Latter(S)
<1> DEFINE n == Cardinality(Times)
           T == {n - x : x \in S}
<1>1. n \in Nat /\ S \subseteq 1..n
  BY TimeFacts
<1> HIDE DEF n
<1>2. T \subseteq Nat /\ T # {}
  <2>1. ASSUME NEW x \in S PROVE n - x \in Nat
    <3>1. x \in 1..n
      BY <1>1
    <3> QED
      BY <1>1, <3>1
  <2> QED
    BY <2>1
<1>3. PICK m \in T : \A y \in T : m <= y
  BY <1>2, Least
<1>4. PICK x \in S : m = n - x
  BY <1>3
<1>5. \A y \in S : y <= x
  <2> SUFFICES ASSUME NEW y \in S PROVE y <= x
    OBVIOUS
  <2>1. n - x <= n - y
    BY <1>3, <1>4
  <2> QED
    BY <1>1, <2>1
<1> QED
  BY <1>5 DEF Latter

(* The latest pair of a set of pairs is of its latest day.                 *)
LEMMA LatestDay ==
  ASSUME NEW M, M \subseteq Times, NEW O, O # {}, O \subseteq {Day[t] : t \in M}
  PROVE  \E m \in O : \A x \in O : x <= m
<1> DEFINE S == {t \in M : Day[t] \in O}
<1>1. S \subseteq Times /\ S # {}
  OBVIOUS
<1>2. Latter(S) \in S /\ \A u \in S : u <= Latter(S)
  BY <1>1, LatterIs
<1>3. \A x \in O : x <= Day[Latter(S)]
  <2> SUFFICES ASSUME NEW x \in O PROVE x <= Day[Latter(S)]
    OBVIOUS
  <2>1. PICK t \in S : x = Day[t]
    OBVIOUS
  <2> QED
    BY <1>1, <1>2, <2>1, TimeFacts
<1> QED
  BY <1>2, <1>3

LEMMA DaysAreFinite ==
  ASSUME NEW M, M \subseteq Times, NEW O, O \subseteq {Day[t] : t \in M}
  PROVE  IsFiniteSet(O) /\ Cardinality(O) \in Nat /\ O \subseteq Nat
<1> DEFINE D == {Day[t] : t \in M}
<1>1. IsFiniteSet(M)
  BY TimeFacts, FS_Subset
<1>2. [t \in M |-> Day[t]] \in Surjection(M, D)
  BY DEF Surjection
<1>3. IsFiniteSet(D)
  BY <1>1, <1>2, FS_Surjection
<1>4. IsFiniteSet(O)
  BY <1>3, FS_Subset
<1>5. O \subseteq Nat
  BY TimeFacts
<1> QED
  BY <1>4, <1>5, FS_CardinalityType

(* The days of O after which fewer than k others come.                     *)
Newest(O, k) == {d \in O : Cardinality({e \in O : e > d}) < k}

LEMMA NextNewest ==
  ASSUME NEW M, M \subseteq Times, NEW O, O \subseteq {Day[t] : t \in M},
         NEW k \in Nat, k < Cardinality(O), Cardinality(Newest(O, k)) = k
  PROVE  Cardinality(Newest(O, k + 1)) = k + 1
<1> DEFINE After(d) == {e \in O : e > d}
           N == Newest(O, k)
<1>1. /\ IsFiniteSet(O) /\ N \subseteq O /\ \A d \in O : d \in Nat
      /\ \A d \in O : d \in N <=> Cardinality(After(d)) < k
      /\ \A d \in O : After(d) \subseteq O /\ \A e \in O : e \in After(d) <=> e > d
  BY DaysAreFinite DEF Newest
<1>2. /\ \A d \in O : IsFiniteSet(After(d)) /\ Cardinality(After(d)) \in Nat
      /\ IsFiniteSet(N) /\ Cardinality(N) = k
  BY <1>1, FS_Subset, FS_CardinalityType
<1>3. /\ Newest(O, k + 1) \subseteq O
      /\ \A d \in O : d \in Newest(O, k + 1) <=> Cardinality(After(d)) < k + 1
  BY DEF Newest
<1>4. O \ N # {}
  BY <1>1
<1>5. PICK m \in O \ N : \A x \in O \ N : x <= m
  <2> HIDE DEF N
  <2> QED
    BY <1>4, LatestDay
<1> HIDE DEF After, N
<1>6. ASSUME NEW d \in O, NEW e \in O, d < e
      PROVE  Cardinality(After(e)) <= Cardinality(After(d))
  <2>1. After(e) \subseteq After(d)
    BY <1>1, <1>6
  <2> QED
    BY <1>2, <2>1, FS_Subset
<1>7. After(m) = N
  <2>1. ASSUME NEW t \in N PROVE t > m
    <3>1. Cardinality(After(t)) < k /\ ~ (Cardinality(After(m)) < k) /\ t \in O /\ t # m
      BY <1>1
    <3>2. ~ (t < m)
      BY <1>2, <1>6, <3>1
    <3> QED
      BY <1>1, <3>1, <3>2
  <2>2. ASSUME NEW e \in After(m) PROVE e \in N
    <3>1. e \in O /\ e > m
      BY <1>1
    <3> QED
      BY <1>1, <1>5, <3>1
  <2> QED
    BY <1>1, <2>1, <2>2
<1>8. ASSUME NEW x \in O \ N, x # m PROVE Cardinality(After(x)) >= k + 1
  <2>1. x < m
    BY <1>1, <1>5, <1>8
  <2>2. N \cup {m} \subseteq After(x)
    BY <1>1, <1>7, <2>1
  <2>3. Cardinality(N \cup {m}) = k + 1
    BY <1>2, FS_AddElement
  <2> QED
    BY <1>2, <2>2, <2>3, FS_Subset
<1>9. Newest(O, k + 1) = N \cup {m}
  <2>1. ASSUME NEW d \in O PROVE Cardinality(After(d)) < k + 1 <=> d \in N \cup {m}
    BY <1>1, <1>2, <1>7, <1>8
  <2> QED
    BY <1>1, <1>3, <2>1
<1> QED
  BY <1>2, <1>9, FS_AddElement

LEMMA NewestAreAsMany ==
  ASSUME NEW M, M \subseteq Times, NEW O, O \subseteq {Day[t] : t \in M},
         NEW k \in Nat, k <= Cardinality(O)
  PROVE  Cardinality(Newest(O, k)) = k
<1> DEFINE Bad == {n \in Nat : n <= Cardinality(O) /\ Cardinality(Newest(O, n)) # n}
<1>1. IsFiniteSet(O) /\ Cardinality(O) \in Nat
  BY DaysAreFinite
<1>2. Bad = {}
  <2> SUFFICES ASSUME Bad # {} PROVE FALSE
    OBVIOUS
  <2>1. PICK n \in Bad : \A x \in Bad : n <= x
    BY Least
  <2>2. n # 0
    <3>1. \A d \in O : Cardinality({e \in O : e > d}) \in Nat
      BY <1>1, FS_Subset, FS_CardinalityType
    <3>2. Newest(O, 0) = {}
      BY <3>1 DEF Newest
    <3> QED
      BY <3>2, FS_EmptySet
  <2>3. n - 1 \in Nat /\ n - 1 < Cardinality(O) /\ n - 1 \notin Bad
    BY <1>1, <2>1, <2>2
  <2>4. Cardinality(Newest(O, n - 1)) = n - 1
    BY <1>1, <2>3
  <2>5. Cardinality(Newest(O, (n - 1) + 1)) = (n - 1) + 1
    BY <2>3, <2>4, NextNewest
  <2> QED
    BY <2>3, <2>5
<1> QED
  BY <1>2

(* The pairs that retention keeps are one of each day kept.                *)
LEMMA RetainedDays ==
  ASSUME NEW V, V \subseteq Times, NEW s \in V
  PROVE  {Day[t] : t \in Retained(V, s)} = KeptDays(V, s)
<1>1. \A t \in Retained(V, s) : Day[t] \in KeptDays(V, s)
  BY DEF Retained, KeptDays
<1>2. ASSUME NEW d \in KeptDays(V, s) PROVE \E t \in Retained(V, s) : Day[t] = d
  <2>1. CASE d = Day[s]
    BY <2>1 DEF Retained
  <2>2. CASE d # Day[s]
    <3> DEFINE S == {t \in V : Day[t] = d}
    <3>1. S \subseteq Times /\ S # {}
      BY <1>2, <2>2 DEF KeptDays
    <3>2. Latter(S) \in S /\ \A u \in S : u <= Latter(S)
      BY <3>1, LatterIs
    <3>3. Latter(S) \in Retained(V, s)
      BY <1>2, <2>2, <3>2 DEF Retained
    <3> QED
      BY <3>2, <3>3
  <2> QED
    BY <2>1, <2>2
<1> QED
  BY <1>1, <1>2

(* A day that loses its pairs is followed by as many kept days as there can *)
(* be beside the new pair's own.                                           *)
LEMMA RetentionSparesDays ==
  ASSUME NEW V, V \subseteq Times, NEW s \in V, NEW v \in V
  PROVE  \/ \E t \in Retained(V, s) : Day[t] = Day[v]
         \/ /\ Cardinality({Day[t] : t \in Retained(V, s)}) = Keep
            /\ \A t \in Retained(V, s) \ {s} : Day[t] > Day[v]
<1> DEFINE O == {Day[t] : t \in V} \ {Day[s]}
           After(d) == {e \in O : e > d}
<1>1. Keep \in Nat /\ Keep - 1 \in Nat
  BY BackupsAssumption DEF BackupsAssumption
<1>2. KeptDays(V, s) = {Day[s]} \cup Newest(O, Keep - 1)
  BY DEF KeptDays, Newest
<1>3. IsFiniteSet(O) /\ Cardinality(O) \in Nat /\ O \subseteq Nat
  BY DaysAreFinite
<1> HIDE DEF O
<1>4. \A d \in O : /\ d \in Nat
                  /\ IsFiniteSet(After(d)) /\ Cardinality(After(d)) \in Nat
                  /\ After(d) \subseteq O /\ \A e \in O : e \in After(d) <=> e > d
  BY <1>3, FS_Subset, FS_CardinalityType
<1>a. \A d \in O : d \in Newest(O, Keep - 1) <=> Cardinality(After(d)) < Keep - 1
  BY DEF Newest
<1> HIDE DEF After
<1> SUFFICES ASSUME \A t \in Retained(V, s) : Day[t] # Day[v]
             PROVE  /\ Cardinality({Day[t] : t \in Retained(V, s)}) = Keep
                    /\ \A t \in Retained(V, s) \ {s} : Day[t] > Day[v]
  OBVIOUS
<1>5. Day[v] \notin KeptDays(V, s)
  BY RetainedDays
<1>6. Day[v] \in O /\ ~ (Cardinality(After(Day[v])) < Keep - 1)
  <2>1. Day[v] \in O
    BY <1>2, <1>5 DEF O
  <2> QED
    BY <1>2, <1>5, <1>a, <2>1
<1>b. Keep - 1 <= Cardinality(After(Day[v])) /\ Cardinality(After(Day[v])) \in Nat
  <2>1. Cardinality(After(Day[v])) \in Nat
    BY <1>4, <1>6
  <2> QED
    BY <1>1, <1>6, <2>1
<1>7. Cardinality({Day[t] : t \in Retained(V, s)}) = Keep
  <2>1. Keep - 1 <= Cardinality(O)
    <3>1. Cardinality(After(Day[v])) <= Cardinality(O)
      BY <1>3, <1>4, <1>6, FS_Subset
    <3> QED
      BY <1>1, <1>3, <1>b, <3>1
  <2>2. Cardinality(Newest(O, Keep - 1)) = Keep - 1
    BY <1>1, <2>1, NewestAreAsMany DEF O
  <2>3. Newest(O, Keep - 1) \subseteq O /\ Day[s] \notin Newest(O, Keep - 1)
    BY DEF O, Newest
  <2>4. IsFiniteSet(Newest(O, Keep - 1))
    BY <1>3, <2>3, FS_Subset
  <2>5. Cardinality({Day[s]} \cup Newest(O, Keep - 1)) = (Keep - 1) + 1
    <3>1. Newest(O, Keep - 1) \cup {Day[s]} = {Day[s]} \cup Newest(O, Keep - 1)
      OBVIOUS
    <3> QED
      BY <2>2, <2>3, <2>4, <3>1, FS_AddElement
  <2>6. Cardinality(KeptDays(V, s)) = Keep
    BY <1>1, <1>2, <2>5
  <2> QED
    BY <2>6, RetainedDays
<1>8. ASSUME NEW t \in Retained(V, s) \ {s} PROVE Day[t] > Day[v]
  <2>1. Day[t] \in KeptDays(V, s) \ {Day[s]}
    BY <1>8 DEF Retained
  <2>2. Day[t] \in O /\ Cardinality(After(Day[t])) < Keep - 1
    <3>1. Day[t] \in Newest(O, Keep - 1)
      BY <1>2, <2>1
    <3> QED
      BY <1>a, <3>1 DEF Newest
  <2>3. Day[t] # Day[v]
    BY <1>5, <2>1
  <2>4. ASSUME Day[t] < Day[v] PROVE FALSE
    <3>1. After(Day[v]) \subseteq After(Day[t])
      <4> SUFFICES ASSUME NEW e \in After(Day[v]) PROVE e \in After(Day[t])
        OBVIOUS
      <4>1. e \in O /\ e \in Nat /\ Day[v] \in Nat /\ Day[t] \in Nat /\ e > Day[v]
        BY <1>4, <1>6, <2>2
      <4>2. e > Day[t]
        BY <2>4, <4>1
      <4> QED
        BY <1>4, <2>2, <4>1, <4>2
    <3>2. Cardinality(After(Day[v])) <= Cardinality(After(Day[t]))
      BY <1>3, <1>4, <2>2, <3>1, FS_Subset
    <3> QED
      <4>1. Cardinality(After(Day[t])) \in Nat
        BY <1>4, <2>2
      <4> QED
        BY <1>1, <1>b, <2>2, <3>2, <4>1
  <2>5. Day[t] \in Nat /\ Day[v] \in Nat
    BY <1>4, <1>6, <2>2
  <2> QED
    BY <2>3, <2>4, <2>5
<1> QED
  BY <1>7, <1>8
-----------------------------------------------------------------------------
(***************************************************************************)
(* What the commands know of the pairs.                                     *)
(***************************************************************************)
(* A pair whose metadata is still to be written.                           *)
Describing == {"snapshot", "publish", "describe"}

PairTypes ==
  /\ metas \subseteq Times
  /\ clock \in Nat
  /\ clock + Cardinality(Unstamped) <= Cardinality(Times)
  /\ stamp \in [Processes -> Times \cup {None}]
  /\ unread \in [Processes -> SUBSET Times] /\ found \in [Processes -> SUBSET Times]
  /\ keep \in [Processes -> SUBSET Times] /\ victims \in [Processes -> SUBSET Times]
  /\ undeleted \subseteq Times /\ failures \in Nat

(* A creation time is given once, to one command.                          *)
StampsAreOwn ==
  /\ \A t \in metas : t <= clock
  /\ \A p \in Processes : stamp[p] # None => stamp[p] <= clock
  /\ \A p, q \in Processes : stamp[p] # None /\ stamp[p] = stamp[q] => p = q

(* The pairs a command has seen the metadata of.                           *)
Seen(p) == unread[p] \cup found[p] \cup victims[p]

(* What a command knows of its own pair and of the one it deletes.         *)
OwnPair(p) ==
  /\ pc[p] \in BackupLabels => stamp[p] # None
  /\ pc[p] \in {"idle", "guard", "inspect", "look", "open", "safety"} => stamp[p] = None
  /\ pc[p] \in {"safety", "snapshot"} => live.main # None
  /\ pc[p] \in Describing => stamp[p] \notin metas
  /\ pc[p] = "publish" => snap[p] # None
  /\ pc[p] = "describe" => Whole(stamp[p])
  /\ pc[p] \in {"probe", "probe-bare"} => unread[p] # {}
  /\ pc[p] \in {"take", "unlink", "unlink-bare"} => victims[p] # {}
  /\ pc[p] = "unlink" => Latter(victims[p]) \notin metas
  /\ stamp[p] = None => Seen(p) = {}

(* Retention only deletes pairs that were described, and a pair whose       *)
(* metadata was taken is deleted by the command that took it.              *)
VictimsAreDescribed ==
  \A p \in Processes : \A v \in Seen(p) :
    /\ v <= clock
    /\ \A q \in Processes : pc[q] \in Describing => stamp[q] # v

OneUnlinks ==
  \A p, q \in Processes :
    pc[p] = "unlink" /\ pc[q] = "unlink" /\ p # q =>
      Latter(victims[p]) # Latter(victims[q])

(* A day of a victim has another pair among those kept, or is outlived.    *)
DaysAreKept(p) ==
  \A v \in victims[p] :
    /\ v \notin keep[p]
    /\ (\E t \in keep[p] : Day[t] = Day[v]) \/ DayOutlived(p, Day[v])

(* Where no deletion failed, no metadata outlives its database.            *)
Bare(t) == t \notin metas \/ t \in undeleted
NoBareMetadata ==
  /\ \A t \in metas : Whole(t) \/ t \in undeleted
  /\ \A p \in Processes :
       /\ pc[p] = "unlink-bare" => Bare(Latter(victims[p]))
       /\ pc[p] = "clean-file" => Bare(stamp[p])

PairInv ==
  /\ PairTypes /\ StampsAreOwn
  /\ \A p \in Processes : OwnPair(p) /\ DaysAreKept(p)
  /\ VictimsAreDescribed /\ OneUnlinks /\ NoBareMetadata

LEMMA UnstampedFacts ==
  /\ Unstamped \subseteq Processes
  /\ IsFiniteSet(Unstamped) /\ Cardinality(Unstamped) \in Nat
<1>1. IsFiniteSet(Processes)
  BY BackupsAssumption DEF BackupsAssumption
<1> QED
  BY <1>1, FS_Subset, FS_CardinalityType DEF Unstamped

LEMMA PairInit == Init => PairInv
<1> SUFFICES ASSUME Init PROVE PairInv
  OBVIOUS
<1>1. /\ Seeds \subseteq Times /\ IsFiniteSet(Seeds) /\ Cardinality(Seeds) \in Nat
      /\ Cardinality(Seeds) <= Cardinality(Times)
      /\ \A s \in Seeds, t \in Times : t <= s => t \in Seeds
  BY TimeFacts, FS_Subset, FS_CardinalityType, BackupsAssumption DEF BackupsAssumption
<1>2. \A s \in Seeds : s <= Cardinality(Seeds)
  <2> SUFFICES ASSUME NEW s \in Seeds PROVE s <= Cardinality(Seeds)
    OBVIOUS
  <2>1. s \in Nat \ {0} /\ s \in 1..Cardinality(Times)
    BY <1>1, TimeFacts
  <2>2. 1..s \subseteq Seeds
    <3> SUFFICES ASSUME NEW t \in 1..s PROVE t \in Seeds
      OBVIOUS
    <3>1. t \in 1..Cardinality(Times) /\ t <= s
      BY <2>1, TimeFacts
    <3> QED
      BY <1>1, <3>1, TimeFacts
  <2>3. Cardinality(1..s) = s
    BY <2>1, FS_Interval
  <2>4. Cardinality(1..s) <= Cardinality(Seeds)
    BY <1>1, <2>2, FS_Subset
  <2> QED
    BY <2>3, <2>4
<1>3. Unstamped = {}
  BY DEF Init, Unstamped
<1>4. Cardinality(Unstamped) = 0
  BY <1>3, FS_EmptySet
<1>5. PairTypes
  BY <1>1, <1>4, TimeFacts DEF Init, PairTypes
<1>6. StampsAreOwn
  BY <1>2 DEF Init, StampsAreOwn
<1>7. \A p \in Processes : OwnPair(p) /\ DaysAreKept(p)
  BY DEF Init, OwnPair, Seen, DaysAreKept, BackupLabels, Describing
<1>8. VictimsAreDescribed /\ OneUnlinks
  BY DEF Init, VictimsAreDescribed, Seen, OneUnlinks
<1>9. NoBareMetadata
  <2>1. \A t \in Seeds : SeedContent(t) \in Contents
    BY Constants DEF SeedContent, Contents
  <2> QED
    BY <1>1, <2>1, Constants DEF Init, NoBareMetadata, Whole
<1> QED
  BY <1>5, <1>6, <1>7, <1>8, <1>9 DEF PairInv

-----------------------------------------------------------------------------
(***************************************************************************)
(* Steps that leave the pairs as they are.                                  *)
(***************************************************************************)
OthersKeep(p) ==
  \A q \in Processes \ {p} :
    /\ pc'[q] = pc[q] /\ kind'[q] = kind[q] /\ snap'[q] = snap[q]
    /\ stamp'[q] = stamp[q] /\ unread'[q] = unread[q] /\ found'[q] = found[q]
    /\ keep'[q] = keep[q] /\ victims'[q] = victims[q]

(* Another command's knowledge stands while no metadata appears under it    *)
(* and no database it is about to describe goes.                           *)
LEMMA OtherPair ==
  ASSUME NEW q \in Processes, OwnPair(q), DaysAreKept(q),
         /\ pc'[q] = pc[q] /\ kind'[q] = kind[q] /\ snap'[q] = snap[q]
         /\ stamp'[q] = stamp[q] /\ unread'[q] = unread[q] /\ found'[q] = found[q]
         /\ keep'[q] = keep[q] /\ victims'[q] = victims[q],
         live.main # None => live'.main # None,
         pc[q] \in Describing => stamp[q] \notin metas' \ metas,
         pc[q] = "unlink" => Latter(victims[q]) \notin metas' \ metas,
         pc[q] = "describe" /\ Whole(stamp[q]) => Whole(stamp[q])'
  PROVE  OwnPair(q)' /\ DaysAreKept(q)'
<1>1. Latter(victims'[q]) = Latter(victims[q])
  OBVIOUS
<1>2. OwnPair(q)'
  BY <1>1 DEF OwnPair, Seen, Whole, Describing
<1>3. DaysAreKept(q)'
  BY DEF DaysAreKept, DayOutlived
<1> QED
  BY <1>2, <1>3

(* A command moves on without touching a pair.                             *)
LEMMA MovedPairs ==
  ASSUME PairInv, NEW p \in Processes, OthersKeep(p), failures' \in Nat,
         UNCHANGED <<pairs, clock, stamp, unread, found, victims, undeleted>>,
         keep' \in [Processes -> SUBSET Times], keep' = keep \/ victims[p] = {},
         live.main # None => live'.main # None,
         clock + Cardinality(Unstamped') <= Cardinality(Times),
         OwnPair(p)', pc'[p] # "unlink",
         pc'[p] \in Describing => pc[p] \in Describing,
         pc'[p] = "unlink-bare" => Latter(victims[p]) \notin metas,
         pc'[p] = "clean-file" => stamp[p] \notin metas
  PROVE  PairInv'
<1>1. UNCHANGED <<files, metas, clock, stamp, unread, found, victims, undeleted>>
  BY DEF pairs
<1>2. PairTypes'
  BY <1>1 DEF PairInv, PairTypes
<1>3. StampsAreOwn'
  BY <1>1 DEF PairInv, StampsAreOwn
<1>4. \A q \in Processes \ {p} : OwnPair(q)' /\ DaysAreKept(q)'
  BY <1>1, OtherPair DEF PairInv, OthersKeep, Whole
<1>5. DaysAreKept(p)'
  BY <1>1 DEF PairInv, DaysAreKept, DayOutlived
<1>6. VictimsAreDescribed'
  BY <1>1 DEF PairInv, VictimsAreDescribed, Seen, OthersKeep, Describing
<1>7. OneUnlinks'
  BY <1>1 DEF PairInv, OneUnlinks, OthersKeep
<1>8. NoBareMetadata'
  BY <1>1 DEF PairInv, NoBareMetadata, Bare, Whole, OthersKeep
<1> QED
  BY <1>2, <1>3, <1>4, <1>5, <1>6, <1>7, <1>8 DEF PairInv

(* A command ends, and may have removed the database of a pair that has no  *)
(* metadata.                                                               *)
LEMMA EndedPairs ==
  ASSUME PairInv, LocalType, NEW p \in Processes, Ended(p), failures' \in Nat,
         UNCHANGED <<metas, clock, undeleted>>,
         live.main # None => live'.main # None,
         \A t \in Times : files'[t] # files[t] => t = stamp[p] /\ pc[p] = "clean-file"
  PROVE  PairInv'
<1>1. /\ stamp \in [Processes -> Times \cup {None}]
      /\ unread \in [Processes -> SUBSET Times] /\ found \in [Processes -> SUBSET Times]
      /\ keep \in [Processes -> SUBSET Times] /\ victims \in [Processes -> SUBSET Times]
      /\ None \notin Times
  <2>1. None \notin Times
    BY BackupsAssumption DEF BackupsAssumption
  <2> QED
    BY <2>1 DEF PairInv, PairTypes
<1>2. OthersKeep(p)
  BY <1>1 DEF OthersKeep, Ended, Goto, LocalType
<1>3. /\ pc'[p] = "idle" /\ kind'[p] = None /\ stamp'[p] = None
      /\ unread'[p] = {} /\ found'[p] = {} /\ victims'[p] = {}
      /\ stamp' = [stamp EXCEPT ![p] = None]
      /\ unread' = [unread EXCEPT ![p] = {}] /\ found' = [found EXCEPT ![p] = {}]
      /\ keep' = [keep EXCEPT ![p] = {}] /\ victims' = [victims EXCEPT ![p] = {}]
  BY <1>1 DEF Ended, Goto, LocalType
<1>4. Cardinality(Unstamped') <= Cardinality(Unstamped)
  <2>1. Unstamped' \subseteq Unstamped
    BY <1>2, <1>3 DEF Unstamped, OthersKeep
  <2> QED
    BY <2>1, UnstampedFacts, FS_Subset
<1>5. PairTypes'
  <2>1. Unstamped' \subseteq Unstamped
    BY <1>2, <1>3 DEF Unstamped, OthersKeep
  <2>2. Cardinality(Unstamped') \in Nat
    BY <2>1, UnstampedFacts, FS_Subset, FS_CardinalityType
  <2>3. clock' + Cardinality(Unstamped') <= Cardinality(Times)
    BY <1>4, <2>2, UnstampedFacts, TimeFacts DEF PairInv, PairTypes
  <2> QED
    BY <1>1, <1>3, <2>3 DEF PairInv, PairTypes
<1>6. StampsAreOwn'
  BY <1>2, <1>3 DEF PairInv, StampsAreOwn, OthersKeep
<1>7. \A q \in Processes \ {p} : OwnPair(q)' /\ DaysAreKept(q)'
  <2> SUFFICES ASSUME NEW q \in Processes \ {p} PROVE OwnPair(q)' /\ DaysAreKept(q)'
    OBVIOUS
  <2>1. pc[q] = "describe" => files'[stamp[q]] = files[stamp[q]]
    BY <1>1 DEF PairInv, StampsAreOwn, OwnPair, BackupLabels
  <2>2. pc[q] = "describe" /\ Whole(stamp[q]) => Whole(stamp[q])'
    BY <1>2, <2>1 DEF Whole, OthersKeep
  <2> QED
    BY <1>2, <2>2, OtherPair DEF PairInv, OthersKeep
<1>8. OwnPair(p)' /\ DaysAreKept(p)'
  BY <1>3 DEF OwnPair, Seen, DaysAreKept, BackupLabels, Describing
<1>9. VictimsAreDescribed'
  BY <1>2, <1>3 DEF PairInv, VictimsAreDescribed, Seen, OthersKeep, Describing
<1>10. OneUnlinks'
  BY <1>2, <1>3 DEF PairInv, OneUnlinks, OthersKeep
<1>11. NoBareMetadata'
  BY <1>2, <1>3 DEF PairInv, PairTypes, NoBareMetadata, Bare, Whole, OthersKeep
<1> QED
  BY <1>5, <1>6, <1>7, <1>8, <1>9, <1>10, <1>11 DEF PairInv
-----------------------------------------------------------------------------
(***************************************************************************)
(* Steps that change the pairs.                                             *)
(***************************************************************************)
LEMMA NoneIsNoTime == None \notin Times
  BY BackupsAssumption DEF BackupsAssumption

(* A backup takes the next creation time.                                  *)
LEMMA StampedPairs ==
  ASSUME PairInv, LocalType, NEW p \in Processes, Stamped(p), OthersKeep(p),
         stamp[p] = None, clock + Cardinality(Unstamped') < Cardinality(Times),
         UNCHANGED <<live, pairs, search, undeleted, bounds>>, live.main # None
  PROVE  PairInv'
<1>1. /\ clock' = clock + 1 /\ stamp' = [stamp EXCEPT ![p] = clock + 1] /\ pc'[p] = "snapshot"
      /\ UNCHANGED <<live, files, metas, unread, found, keep, victims, undeleted, failures>>
  BY DEF Stamped, Goto, LocalType, pairs, search, bounds
<1>2. /\ clock \in Nat /\ clock + 1 \in Times /\ clock + 1 # None
      /\ clock' + Cardinality(Unstamped') <= Cardinality(Times)
      /\ Cardinality(Unstamped') \in Nat
  <2>1. Unstamped' \subseteq Processes /\ IsFiniteSet(Processes)
    BY BackupsAssumption DEF BackupsAssumption, Unstamped
  <2>2. Cardinality(Unstamped') \in Nat /\ clock \in Nat
    BY <2>1, FS_Subset, FS_CardinalityType DEF PairInv, PairTypes
  <2>3. clock + 1 \in 1..Cardinality(Times)
    BY <2>2, TimeFacts
  <2>4. clock + 1 \in Times
    BY <2>3, TimeFacts
  <2> QED
    BY <1>1, <2>2, <2>4, NoneIsNoTime, TimeFacts
<1>3. stamp'[p] = clock + 1 /\ \A q \in Processes \ {p} : stamp'[q] = stamp[q]
  BY <1>1 DEF PairInv, PairTypes
<1>4. \A t \in metas : t \in Nat /\ t # clock + 1
  BY <1>2, TimeFacts DEF PairInv, PairTypes, StampsAreOwn
<1>5. \A q \in Processes : stamp[q] # None => stamp[q] \in Nat /\ stamp[q] # clock + 1
  BY <1>2, TimeFacts DEF PairInv, PairTypes, StampsAreOwn
<1>6. \A q \in Processes : \A v \in Seen(q) : v \in Nat /\ v <= clock /\ v # clock + 1
  <2> SUFFICES ASSUME NEW q \in Processes, NEW v \in Seen(q)
               PROVE  v \in Nat /\ v <= clock /\ v # clock + 1
    OBVIOUS
  <2>1. v \in Times /\ v <= clock
    BY DEF PairInv, PairTypes, VictimsAreDescribed, Seen
  <2> QED
    BY <1>2, <2>1, TimeFacts
<1>7. PairTypes'
  BY <1>1, <1>2 DEF PairInv, PairTypes
<1>8. StampsAreOwn'
  <2>1. \A t \in metas' : t <= clock'
    BY <1>1, <1>2, <1>4 DEF PairInv, StampsAreOwn
  <2>2. \A q \in Processes : stamp'[q] # None => stamp'[q] <= clock'
    BY <1>1, <1>2, <1>3, <1>5 DEF PairInv, StampsAreOwn
  <2>3. \A q, r \in Processes : stamp'[q] # None /\ stamp'[q] = stamp'[r] => q = r
    BY <1>3, <1>5, <1>2 DEF PairInv, StampsAreOwn
  <2> QED
    BY <2>1, <2>2, <2>3 DEF StampsAreOwn
<1>9. \A q \in Processes \ {p} : OwnPair(q)' /\ DaysAreKept(q)'
  BY <1>1, OtherPair DEF PairInv, OthersKeep, Whole
<1>10. Seen(p) = {} /\ victims'[p] = {}
  BY <1>1 DEF PairInv, OwnPair, Seen
<1>11. OwnPair(p)' /\ DaysAreKept(p)'
  BY <1>1, <1>2, <1>3, <1>4, <1>10 DEF OwnPair, Seen, DaysAreKept, Describing, BackupLabels
<1>12. VictimsAreDescribed'
  <2> SUFFICES ASSUME NEW r \in Processes, NEW v \in Seen(r),
                      NEW q \in Processes, pc'[q] \in Describing
               PROVE  v <= clock' /\ stamp'[q] # v
    BY <1>1, <1>2, <1>6 DEF VictimsAreDescribed, Seen
  <2>1. v <= clock'
    BY <1>1, <1>2, <1>6
  <2>2. CASE q = p
    BY <1>3, <1>6, <2>1, <2>2
  <2>3. CASE q # p
    BY <1>3, <2>1, <2>3 DEF PairInv, VictimsAreDescribed, OthersKeep
  <2> QED
    BY <2>2, <2>3
<1>13. OneUnlinks'
  BY <1>1 DEF PairInv, OneUnlinks, OthersKeep
<1>14. NoBareMetadata'
  BY <1>1, <1>3 DEF PairInv, NoBareMetadata, Bare, Whole, OthersKeep
<1> QED
  BY <1>7, <1>8, <1>9, <1>11, <1>12, <1>13, <1>14 DEF PairInv

LEMMA PublishPairs ==
  ASSUME PairInv, LocalType, FilesAreHistory, NEW p \in Processes, Publish(p)
  PROVE  PairInv'
<1>1. /\ pc[p] = "publish" /\ pc'[p] = "describe" /\ \A q \in Processes \ {p} : pc'[q] = pc[q]
      /\ files' = [files EXCEPT ![stamp[p]] = snap[p]]
      /\ \A q \in Processes \ {p} : snap'[q] = snap[q]
      /\ UNCHANGED <<live, metas, clock, kind, stamp, unread, found, keep, victims>>
      /\ UNCHANGED <<undeleted, failures>>
  BY DEF Publish, Goto, LocalType, store, search, past, bounds
<1>2. snap[p] \in Contents /\ stamp[p] # None /\ stamp[p] \notin metas
  BY <1>1 DEF PairInv, OwnPair, Describing, BackupLabels, LocalType
<1>3. PairTypes' /\ StampsAreOwn'
  BY <1>1 DEF PairInv, PairTypes, StampsAreOwn, Unstamped
<1>4. \A q \in Processes \ {p} : OwnPair(q)' /\ DaysAreKept(q)'
  <2> SUFFICES ASSUME NEW q \in Processes \ {p} PROVE OwnPair(q)' /\ DaysAreKept(q)'
    OBVIOUS
  <2>1. stamp[q] # stamp[p]
    BY <1>2 DEF PairInv, StampsAreOwn
  <2>2. files'[stamp[q]] = files[stamp[q]]
    BY <1>1, <2>1
  <2>3. Whole(stamp[q]) => Whole(stamp[q])'
    BY <1>1, <2>2 DEF Whole
  <2> QED
    BY <1>1, <2>3, OtherPair DEF PairInv
<1>5. OwnPair(p)' /\ DaysAreKept(p)'
  <2>1. stamp[p] \in Times => files'[stamp[p]] = snap[p]
    BY <1>1 DEF FilesAreHistory
  <2> QED
    BY <1>1, <1>2, <2>1, Constants
       DEF PairInv, PairTypes, OwnPair, Seen, Whole, DaysAreKept, DayOutlived, Describing
<1>6. VictimsAreDescribed'
  BY <1>1 DEF PairInv, VictimsAreDescribed, Seen, Describing
<1>7. OneUnlinks'
  BY <1>1 DEF PairInv, OneUnlinks
<1>8. NoBareMetadata'
  BY <1>1, <1>2 DEF PairInv, PairTypes, NoBareMetadata, Bare, Whole
<1> QED
  BY <1>3, <1>4, <1>5, <1>6, <1>7, <1>8 DEF PairInv

LEMMA DescribePairs ==
  ASSUME PairInv, LocalType, NEW p \in Processes, Describe(p)
  PROVE  PairInv'
<1>1. /\ pc[p] = "describe" /\ pc'[p] = "list" /\ \A q \in Processes \ {p} : pc'[q] = pc[q]
      /\ metas' = metas \cup {stamp[p]}
      /\ UNCHANGED <<live, files, clock, kind, stamp, snap, unread, found, keep, victims>>
      /\ UNCHANGED <<undeleted, failures>>
  BY DEF Describe, Goto, LocalType, store, search, past, bounds
<1>2. /\ stamp[p] \in Times /\ stamp[p] # None /\ stamp[p] <= clock /\ Whole(stamp[p])
      /\ \A q \in Processes \ {p} : stamp[q] # stamp[p]
      /\ \A q \in Processes : stamp[p] \notin victims[q]
  BY <1>1 DEF PairInv, PairTypes, OwnPair, StampsAreOwn, VictimsAreDescribed, Seen, Describing,
     BackupLabels
<1>3. PairTypes' /\ StampsAreOwn'
  BY <1>1, <1>2 DEF PairInv, PairTypes, StampsAreOwn, Unstamped
<1>4. \A q \in Processes : pc[q] \in {"unlink", "unlink-bare"} => Latter(victims[q]) # stamp[p]
  BY <1>2, LatterIs DEF PairInv, PairTypes, OwnPair
<1>5. \A q \in Processes \ {p} : OwnPair(q)' /\ DaysAreKept(q)'
  <2> SUFFICES ASSUME NEW q \in Processes \ {p} PROVE OwnPair(q)' /\ DaysAreKept(q)'
    OBVIOUS
  <2>1. metas' \ metas \subseteq {stamp[p]}
    BY <1>1
  <2> QED
    BY <1>1, <1>2, <1>4, <2>1, OtherPair DEF PairInv, Whole
<1>6. OwnPair(p)' /\ DaysAreKept(p)'
  BY <1>1, <1>2 DEF PairInv, OwnPair, Seen, DaysAreKept, DayOutlived, Describing
<1>7. VictimsAreDescribed'
  BY <1>1 DEF PairInv, VictimsAreDescribed, Seen, Describing
<1>8. OneUnlinks'
  BY <1>1 DEF PairInv, OneUnlinks
<1>9. NoBareMetadata'
  <2>1. \A q \in Processes : Latter(victims'[q]) = Latter(victims[q])
    BY <1>1
  <2>2. \A q \in Processes : pc'[q] = "clean-file" =>
          pc[q] = "clean-file" /\ stamp[q] # stamp[p]
    BY <1>1, <1>2
  <2> QED
    BY <1>1, <1>2, <1>4, <2>1, <2>2 DEF PairInv, NoBareMetadata, Bare, Whole
<1> QED
  BY <1>3, <1>5, <1>6, <1>7, <1>8, <1>9 DEF PairInv

(* The pair retention verifies is one of those it has yet to verify.       *)
LEMMA CurrentIs ==
  ASSUME NEW p \in Processes, unread[p] \subseteq Times, unread[p] # {}
  PROVE  Current(p) \in unread[p]
  BY BackupsAssumption DEF BackupsAssumption, Current

(* Retention reads on: it makes a file only where there was none.          *)
LEMMA SearchPairs ==
  ASSUME PairInv, LocalType, NEW p \in Processes,
         pc[p] \in {"list", "verify", "probe", "probe-bare"},
         NEW label \in {"verify", "probe", "probe-bare"}, pc' = [pc EXCEPT ![p] = label],
         label # "verify" => unread'[p] # {},
         UNCHANGED <<live, metas, clock, kind, stamp, snap, keep, victims, undeleted>>,
         failures' \in Nat,
         \A t \in Times : Whole(t) => files'[t] = files[t],
         NEW U, U \subseteq unread[p] \cup metas, unread' = [unread EXCEPT ![p] = U],
         NEW F, F \subseteq unread[p] \cup found[p], found' = [found EXCEPT ![p] = F]
  PROVE  PairInv'
<1>1. /\ pc'[p] = label /\ unread'[p] = U /\ found'[p] = F
      /\ \A q \in Processes \ {p} :
           pc'[q] = pc[q] /\ unread'[q] = unread[q] /\ found'[q] = found[q]
      /\ U \subseteq Times /\ F \subseteq Times /\ stamp[p] # None
  BY DEF LocalType, PairInv, PairTypes, OwnPair, BackupLabels
<1>2. \A t \in Times : Whole(t) => Whole(t)'
  BY DEF Whole
<1>3. PairTypes' /\ StampsAreOwn'
  BY <1>1 DEF PairInv, PairTypes, StampsAreOwn, Unstamped
<1>4. \A q \in Processes \ {p} : OwnPair(q)' /\ DaysAreKept(q)'
  <2> SUFFICES ASSUME NEW q \in Processes \ {p} PROVE OwnPair(q)' /\ DaysAreKept(q)'
    OBVIOUS
  <2>1. pc[q] = "describe" => stamp[q] \in Times
    BY DEF PairInv, PairTypes, OwnPair, BackupLabels
  <2>2. pc[q] = "describe" /\ Whole(stamp[q]) => Whole(stamp[q])'
    BY <1>2, <2>1 DEF Whole
  <2> QED
    BY <1>1, <2>2, OtherPair DEF PairInv
<1>5. OwnPair(p)'
  BY <1>1 DEF PairInv, OwnPair, Describing, BackupLabels
<1>6. DaysAreKept(p)'
  BY DEF PairInv, DaysAreKept, DayOutlived
<1>7. VictimsAreDescribed'
  <2>1. \A v \in metas : /\ v <= clock
                         /\ \A q \in Processes : pc[q] \in Describing => stamp[q] # v
    BY DEF PairInv, StampsAreOwn, OwnPair
  <2>2. \A q \in Processes \ {p} : Seen(q)' = Seen(q)
    BY <1>1 DEF Seen
  <2>3. Seen(p)' \subseteq Seen(p) \cup metas
    BY <1>1 DEF Seen
  <2>4. \A q \in Processes : pc'[q] \in Describing => pc[q] \in Describing
    BY <1>1 DEF Describing
  <2>5. \A r \in Processes : \A v \in Seen(r)' :
          /\ v <= clock
          /\ \A q \in Processes : pc[q] \in Describing => stamp[q] # v
    <3> SUFFICES ASSUME NEW r \in Processes, NEW v \in Seen(r)'
                 PROVE  /\ v <= clock
                        /\ \A q \in Processes : pc[q] \in Describing => stamp[q] # v
      OBVIOUS
    <3>1. v \in Seen(r) \cup metas
      BY <2>2, <2>3
    <3> QED
      BY <2>1, <3>1 DEF PairInv, VictimsAreDescribed
  <2> QED
    BY <2>4, <2>5 DEF VictimsAreDescribed
<1>8. OneUnlinks'
  BY <1>1 DEF PairInv, OneUnlinks
<1>9. NoBareMetadata'
  <2>1. \A t \in metas : Whole(t)' \/ t \in undeleted
    BY <1>2 DEF PairInv, PairTypes, NoBareMetadata
  <2> QED
    BY <1>1, <2>1 DEF PairInv, NoBareMetadata, Bare
<1> QED
  BY <1>3, <1>4, <1>5, <1>6, <1>7, <1>8, <1>9 DEF PairInv

LEMMA ReadPairs ==
  ASSUME PairInv, LocalType, NEW p \in Processes,
         List(p) \/ Verify(p) \/ Probe(p) \/ FailVerify(p)
  PROVE  PairInv'
<1>1. /\ UNCHANGED <<live, metas, clock, kind, stamp, snap, keep, victims, undeleted>>
      /\ failures' \in Nat
  BY DEF List, Verify, Probe, FailVerify, Failing, store, pairs, past, bounds, PairInv, PairTypes
<1>2. unread \in [Processes -> SUBSET Times] /\ found \in [Processes -> SUBSET Times]
      /\ metas \subseteq Times /\ pc \in [Processes -> Labels]
  BY DEF PairInv, PairTypes, LocalType
<1>3. CASE List(p)
  <2>1. /\ pc[p] = "list" /\ pc' = [pc EXCEPT ![p] = "verify"] /\ files' = files
        /\ unread' = [unread EXCEPT ![p] = metas] /\ found' = [found EXCEPT ![p] = {}]
    BY <1>3 DEF List, Goto, pairs
  <2> QED
    BY <1>1, <2>1, SearchPairs
<1>4. CASE Verify(p) /\ Current(p) \in Verified
  <2>1. PICK label \in {"probe", "probe-bare"} : pc' = [pc EXCEPT ![p] = label]
    BY <1>4 DEF Verify, Goto
  <2>2. /\ pc[p] = "verify" /\ UNCHANGED <<files, unread, found>> /\ unread[p] # {}
    BY <1>4 DEF Verify, pairs
  <2>3. unread' = [unread EXCEPT ![p] = unread[p]] /\ found' = [found EXCEPT ![p] = found[p]]
    BY <1>2, <2>2
  <2> QED
    BY <1>1, <2>1, <2>2, <2>3, SearchPairs
<1>5. CASE Verify(p) /\ Current(p) \notin Verified
  <2>1. /\ pc[p] = "verify" /\ UNCHANGED <<files, found, pc>>
        /\ unread' = [unread EXCEPT ![p] = unread[p] \ {Current(p)}]
    BY <1>5 DEF Verify, Skipped, pairs
  <2>2. pc' = [pc EXCEPT ![p] = "verify"] /\ found' = [found EXCEPT ![p] = found[p]]
    BY <1>2, <2>1
  <2> QED
    BY <1>1, <2>1, <2>2, SearchPairs
<1>6. CASE Probe(p)
  <2>1. /\ pc[p] \in {"probe", "probe-bare"} /\ pc' = [pc EXCEPT ![p] = "verify"]
        /\ unread' = [unread EXCEPT ![p] = unread[p] \ {Current(p)}]
        /\ files' = [files EXCEPT ![Current(p)] = IF @ = None THEN Blank ELSE @]
        /\ found' = [found EXCEPT ![p] = @ \cup {Current(p)}] \/ found' = found
    BY <1>6 DEF Probe, Skipped, Goto
  <2>2. Current(p) \in unread[p]
    BY <1>2, <2>1, CurrentIs DEF PairInv, OwnPair
  <2>3. \A t \in Times : Whole(t) => files'[t] = files[t]
    BY <2>1 DEF Whole
  <2>4. PICK F \in {found[p], found[p] \cup {Current(p)}} : found' = [found EXCEPT ![p] = F]
    BY <1>2, <2>1
  <2> QED
    BY <1>1, <2>1, <2>2, <2>3, <2>4, SearchPairs
<1>7. CASE FailVerify(p)
  <2>1. /\ pc[p] \in {"verify", "probe", "probe-bare"} /\ pc' = [pc EXCEPT ![p] = "verify"]
        /\ unread' = [unread EXCEPT ![p] = unread[p] \ {Current(p)}]
        /\ UNCHANGED <<files, found>>
    BY <1>7 DEF FailVerify, Skipped, Goto, pairs
  <2>2. found' = [found EXCEPT ![p] = found[p]]
    BY <1>2, <2>1
  <2> QED
    BY <1>1, <2>1, <2>2, SearchPairs
<1> QED
  BY <1>3, <1>4, <1>5, <1>6, <1>7

LEMMA RetainPairs ==
  ASSUME PairInv, LocalType, NEW p \in Processes, Retain(p)
  PROVE  PairInv'
<1> DEFINE kept == Retained(found[p], stamp[p])
<1>1. /\ pc[p] = "verify" /\ pc'[p] = "prune" /\ \A q \in Processes \ {p} : pc'[q] = pc[q]
      /\ stamp[p] \in found[p] /\ found' = [found EXCEPT ![p] = {}]
      /\ keep' = [keep EXCEPT ![p] = kept] /\ victims' = [victims EXCEPT ![p] = found[p] \ kept]
      /\ UNCHANGED <<live, files, metas, clock, kind, stamp, snap, unread, undeleted, failures>>
  BY DEF Retain, Goto, LocalType, store, pairs, past, bounds
<1>2. found[p] \subseteq Times /\ kept \subseteq Times /\ stamp[p] # None
  BY <1>1, NoneIsNoTime DEF PairInv, PairTypes, Retained
<1>3. ASSUME NEW v \in found[p] \ kept
      PROVE  (\E t \in kept : Day[t] = Day[v])
             \/ (/\ Cardinality({Day[t] : t \in kept}) = Keep
                 /\ \A t \in kept \ {stamp[p]} : Day[t] > Day[v])
  BY <1>1, <1>2, <1>3, RetentionSparesDays
<1> HIDE DEF kept
<1>4. /\ keep'[p] = kept /\ victims'[p] = found[p] \ kept /\ found'[p] = {}
      /\ \A q \in Processes \ {p} :
           keep'[q] = keep[q] /\ victims'[q] = victims[q] /\ found'[q] = found[q]
  BY <1>1 DEF PairInv, PairTypes
<1>5. PairTypes' /\ StampsAreOwn'
  BY <1>1, <1>2 DEF PairInv, PairTypes, StampsAreOwn, Unstamped
<1>6. \A q \in Processes \ {p} : OwnPair(q)' /\ DaysAreKept(q)'
  BY <1>1, <1>4, OtherPair DEF PairInv, Whole
<1>7. OwnPair(p)'
  BY <1>1, <1>2 DEF PairInv, OwnPair, Describing
<1>8. DaysAreKept(p)'
  BY <1>1, <1>3, <1>4 DEF DaysAreKept, DayOutlived
<1>9. VictimsAreDescribed'
  <2>1. \A q \in Processes : Seen(q)' \subseteq Seen(q)
    BY <1>1, <1>4 DEF Seen
  <2>2. \A q \in Processes : pc'[q] \in Describing => pc[q] \in Describing
    BY <1>1 DEF Describing
  <2> QED
    BY <1>1, <2>1, <2>2 DEF PairInv, VictimsAreDescribed
<1>10. OneUnlinks'
  BY <1>1, <1>4 DEF PairInv, OneUnlinks
<1>11. NoBareMetadata'
  BY <1>1, <1>4 DEF PairInv, NoBareMetadata, Bare, Whole
<1> QED
  BY <1>5, <1>6, <1>7, <1>8, <1>9, <1>10, <1>11 DEF PairInv

(* The pair a command deletes.                                             *)
LEMMA VictimIs ==
  ASSUME PairInv, NEW p \in Processes, pc[p] \in {"take", "unlink", "unlink-bare"}
  PROVE  /\ Latter(victims[p]) \in victims[p] /\ Latter(victims[p]) \in Times
         /\ Latter(victims[p]) <= clock
         /\ \A q \in Processes : pc[q] \in Describing => stamp[q] # Latter(victims[p])
<1>1. victims[p] \subseteq Times /\ victims[p] # {}
  BY DEF PairInv, PairTypes, OwnPair
<1>2. Latter(victims[p]) \in victims[p]
  BY <1>1, LatterIs
<1> QED
  BY <1>1, <1>2 DEF PairInv, VictimsAreDescribed, Seen

LEMMA TakePairs ==
  ASSUME PairInv, LocalType, NEW p \in Processes, Take(p)
  PROVE  PairInv'
<1> DEFINE v == Latter(victims[p])
<1>1. /\ pc[p] = "take" /\ \A q \in Processes \ {p} : pc'[q] = pc[q]
      /\ pc'[p] = (IF v \in metas THEN "unlink" ELSE "clean-metadata")
      /\ metas' = metas \ {v}
      /\ UNCHANGED <<live, files, clock, kind, stamp, snap, unread, found, keep, victims>>
      /\ UNCHANGED <<undeleted, failures>>
  BY DEF Take, Goto, LocalType, store, search, past, bounds
<1>2. v \in victims[p] /\ Latter(victims'[p]) = v
  BY <1>1, VictimIs
<1> HIDE DEF v
<1>3. PairTypes' /\ StampsAreOwn'
  BY <1>1 DEF PairInv, PairTypes, StampsAreOwn, Unstamped
<1>4. \A q \in Processes \ {p} : OwnPair(q)' /\ DaysAreKept(q)'
  BY <1>1, OtherPair DEF PairInv, Whole
<1>5. OwnPair(p)' /\ DaysAreKept(p)'
  BY <1>1, <1>2 DEF PairInv, OwnPair, Seen, DaysAreKept, DayOutlived, Describing, BackupLabels
<1>6. VictimsAreDescribed'
  BY <1>1 DEF PairInv, VictimsAreDescribed, Seen, Describing
<1>7. OneUnlinks'
  <2>1. \A q \in Processes : Latter(victims'[q]) = Latter(victims[q])
    BY <1>1
  <2>2. \A q \in Processes : pc[q] = "unlink" => Latter(victims[q]) \notin metas
    BY DEF PairInv, OwnPair
  <2> QED
    BY <1>1, <1>2, <2>1, <2>2 DEF PairInv, OneUnlinks
<1>8. NoBareMetadata'
  <2>1. \A q \in Processes : Latter(victims'[q]) = Latter(victims[q])
    BY <1>1
  <2> QED
    BY <1>1, <2>1 DEF PairInv, NoBareMetadata, Bare, Whole
<1> QED
  BY <1>3, <1>4, <1>5, <1>6, <1>7, <1>8 DEF PairInv

LEMMA UnlinkPairs ==
  ASSUME PairInv, LocalType, NEW p \in Processes, Unlink(p)
  PROVE  PairInv'
<1> DEFINE v == Latter(victims[p])
<1>1. /\ pc[p] \in {"unlink", "unlink-bare"} /\ pc'[p] = "prune"
      /\ \A q \in Processes \ {p} : pc'[q] = pc[q]
      /\ files' = [files EXCEPT ![v] = None]
      /\ victims' = [victims EXCEPT ![p] = @ \ {v}]
      /\ UNCHANGED <<live, metas, clock, kind, stamp, snap, unread, found, keep>>
      /\ UNCHANGED <<undeleted, failures>>
  BY DEF Unlink, Goto, LocalType, store, past, bounds
<1>2. \A q \in Processes : pc[q] = "describe" => stamp[q] # v
  BY <1>1, VictimIs DEF Describing
<1>3. v \notin metas \/ v \in undeleted
  BY <1>1 DEF PairInv, OwnPair, NoBareMetadata, Bare
<1> HIDE DEF v
<1>4. /\ victims'[p] \subseteq victims[p] /\ victims'[p] \subseteq Times
      /\ \A q \in Processes \ {p} : victims'[q] = victims[q]
  BY <1>1 DEF PairInv, PairTypes
<1>5. PairTypes' /\ StampsAreOwn'
  BY <1>1, <1>4 DEF PairInv, PairTypes, StampsAreOwn, Unstamped
<1>6. \A q \in Processes \ {p} : OwnPair(q)' /\ DaysAreKept(q)'
  <2> SUFFICES ASSUME NEW q \in Processes \ {p} PROVE OwnPair(q)' /\ DaysAreKept(q)'
    OBVIOUS
  <2>1. pc[q] = "describe" => files'[stamp[q]] = files[stamp[q]]
    BY <1>1, <1>2
  <2>2. pc[q] = "describe" /\ Whole(stamp[q]) => Whole(stamp[q])'
    BY <1>1, <2>1 DEF Whole
  <2> QED
    BY <1>1, <1>4, <2>2, OtherPair DEF PairInv
<1>7. OwnPair(p)'
  BY <1>1, <1>4 DEF PairInv, OwnPair, Seen, Describing, BackupLabels
<1>8. DaysAreKept(p)'
  BY <1>1, <1>4 DEF PairInv, DaysAreKept, DayOutlived
<1>9. VictimsAreDescribed'
  BY <1>1, <1>4 DEF PairInv, VictimsAreDescribed, Seen, Describing
<1>10. OneUnlinks'
  BY <1>1, <1>4 DEF PairInv, OneUnlinks
<1>11. NoBareMetadata'
  BY <1>1, <1>3, <1>4 DEF PairInv, PairTypes, NoBareMetadata, Bare, Whole
<1> QED
  BY <1>5, <1>6, <1>7, <1>8, <1>9, <1>10, <1>11 DEF PairInv

LEMMA FailUnlinkPairs ==
  ASSUME PairInv, LocalType, NEW p \in Processes, FailUnlink(p)
  PROVE  PairInv'
<1> DEFINE v == Latter(victims[p])
<1>1. /\ pc[p] = "unlink" /\ pc'[p] = "clean-metadata"
      /\ \A q \in Processes \ {p} : pc'[q] = pc[q]
      /\ metas \subseteq metas' /\ metas' \subseteq metas \cup {v}
      /\ undeleted' = undeleted \cup {v} /\ failures' = failures + 1
      /\ UNCHANGED <<live, files, clock, kind, stamp, snap, unread, found, keep, victims>>
  BY DEF FailUnlink, Failing, Goto, LocalType, store, search
<1>2. /\ v \in Times /\ v <= clock
      /\ \A q \in Processes : pc[q] \in Describing => stamp[q] # v
  BY <1>1, VictimIs
<1>3. \A q \in Processes \ {p} : pc[q] = "unlink" => Latter(victims[q]) # v
  BY <1>1 DEF PairInv, OneUnlinks
<1> HIDE DEF v
<1>4. failures' \in Nat
  BY <1>1 DEF PairInv, PairTypes
<1>5. PairTypes' /\ StampsAreOwn'
  BY <1>1, <1>2, <1>4 DEF PairInv, PairTypes, StampsAreOwn, Unstamped
<1>6. \A q \in Processes \ {p} : OwnPair(q)' /\ DaysAreKept(q)'
  <2> SUFFICES ASSUME NEW q \in Processes \ {p} PROVE OwnPair(q)' /\ DaysAreKept(q)'
    OBVIOUS
  <2>1. metas' \ metas \subseteq {v}
    BY <1>1
  <2> QED
    BY <1>1, <1>2, <1>3, <2>1, OtherPair DEF PairInv, Whole
<1>7. OwnPair(p)' /\ DaysAreKept(p)'
  BY <1>1 DEF PairInv, OwnPair, Seen, DaysAreKept, DayOutlived, Describing, BackupLabels
<1>8. VictimsAreDescribed'
  BY <1>1 DEF PairInv, VictimsAreDescribed, Seen, Describing
<1>9. OneUnlinks'
  BY <1>1 DEF PairInv, OneUnlinks
<1>10. NoBareMetadata'
  <2>1. \A q \in Processes : Latter(victims'[q]) = Latter(victims[q])
    BY <1>1
  <2>2. \A t : Bare(t) => Bare(t)'
    BY <1>1 DEF Bare
  <2> QED
    BY <1>1, <2>1, <2>2 DEF PairInv, NoBareMetadata, Whole
<1> QED
  BY <1>5, <1>6, <1>7, <1>8, <1>9, <1>10 DEF PairInv

LEMMA CleanMetadataPairs ==
  ASSUME PairInv, LocalType, NEW p \in Processes, CleanMetadata(p)
  PROVE  PairInv'
<1>1. /\ pc[p] = "clean-metadata" /\ pc'[p] = "clean-file"
      /\ \A q \in Processes \ {p} : pc'[q] = pc[q]
      /\ metas' \subseteq metas
      /\ undeleted \subseteq undeleted' /\ undeleted' \subseteq undeleted \cup {stamp[p]}
      /\ stamp[p] \notin metas' \/ stamp[p] \in undeleted'
      /\ UNCHANGED <<live, files, clock, kind, stamp, snap, unread, found, keep, victims, failures>>
  BY DEF CleanMetadata, Goto, LocalType, store, search, bounds
<1>a. stamp[p] \in Times
  BY <1>1 DEF PairInv, PairTypes, OwnPair, BackupLabels
<1>2. PairTypes' /\ StampsAreOwn'
  BY <1>1, <1>a DEF PairInv, PairTypes, StampsAreOwn, Unstamped
<1>3. \A q \in Processes \ {p} : OwnPair(q)' /\ DaysAreKept(q)'
  BY <1>1, OtherPair DEF PairInv, Whole
<1>4. OwnPair(p)' /\ DaysAreKept(p)'
  BY <1>1 DEF PairInv, OwnPair, Seen, DaysAreKept, DayOutlived, Describing, BackupLabels
<1>5. VictimsAreDescribed'
  BY <1>1 DEF PairInv, VictimsAreDescribed, Seen, Describing
<1>6. OneUnlinks'
  BY <1>1 DEF PairInv, OneUnlinks
<1>7. NoBareMetadata'
  <2>1. \A q \in Processes : Latter(victims'[q]) = Latter(victims[q])
    BY <1>1
  <2>2. \A t : Bare(t) => Bare(t)'
    BY <1>1 DEF Bare
  <2>3. Bare(stamp[p])'
    BY <1>1 DEF Bare
  <2>4. \A t \in metas' : Whole(t)' \/ t \in undeleted'
    BY <1>1 DEF PairInv, NoBareMetadata, Whole
  <2>5. \A q \in Processes : pc'[q] = "clean-file" => Bare(stamp[q])'
    BY <1>1, <2>2, <2>3 DEF PairInv, NoBareMetadata, Bare
  <2>6. \A q \in Processes : pc'[q] = "unlink-bare" => Bare(Latter(victims[q]))'
    BY <1>1, <2>1, <2>2 DEF PairInv, NoBareMetadata, Bare
  <2> QED
    BY <2>4, <2>5, <2>6 DEF NoBareMetadata
<1> QED
  BY <1>2, <1>3, <1>4, <1>5, <1>6, <1>7 DEF PairInv
-----------------------------------------------------------------------------
(***************************************************************************)
(* The steps of the commands.                                               *)
(***************************************************************************)
LEMMA FileStays ==
  ASSUME DatabaseInv, live' \in {live, Folded} \/ \E c \in Contents : live' = Logged(c)
  PROVE  live.main # None => live'.main # None
<1>1. StoreInv /\ LogIsWhole
  BY DEF DatabaseInv
<1>2. live.main # None => View # None
  BY <1>1, ViewIs
<1>3. live \in [main : Contents \cup {None}, wal : Logs \cup {None}]
  BY <1>1 DEF StoreInv
<1> QED
  BY <1>2, <1>3 DEF Folded, Logged

(* Commands that make no pair wait for a creation time or have had one.    *)
LEMMA BeginPairs ==
  ASSUME DatabaseInv, PairInv, NEW p \in Processes,
         BeginInit(p) \/ \E s \in Times : BeginRestore(p, s)
  PROVE  PairInv'
<1>1. /\ pc[p] = "idle" /\ clock + Cardinality(Unstamped) < Cardinality(Times)
      /\ UNCHANGED <<live, pairs, clock, stamp, snap, unread, found, keep, victims>>
      /\ UNCHANGED <<undeleted, failures>>
      /\ \/ kind' = [kind EXCEPT ![p] = "init"] /\ pc' \in {[pc EXCEPT ![p] = "guard"],
                                                            [pc EXCEPT ![p] = "look"]}
         \/ kind' = [kind EXCEPT ![p] = "restore"] /\ pc' = [pc EXCEPT ![p] = "guard"]
  BY DEF BeginInit, BeginRestore, MayBegin, Goto, store, search, past, bounds
<1>2. LocalType /\ kind[p] = None /\ stamp[p] = None /\ Seen(p) = {}
  BY <1>1 DEF DatabaseInv, CommandInv, StepOfCommand, PairInv, OwnPair
<1>3. /\ OthersKeep(p) /\ failures' \in Nat /\ pc'[p] \in {"guard", "look"}
      /\ kind'[p] \in {"restore", "init"}
      /\ keep' = keep /\ keep \in [Processes -> SUBSET Times]
  BY <1>1, <1>2 DEF OthersKeep, LocalType, PairInv, PairTypes
<1>4. Unstamped' = Unstamped \cup {p} /\ p \notin Unstamped
  BY <1>1, <1>2, <1>3, Constants DEF Unstamped, OthersKeep
<1>5. Cardinality(Unstamped') = Cardinality(Unstamped) + 1
  BY <1>4, UnstampedFacts, FS_AddElement
<1>6. clock + Cardinality(Unstamped') <= Cardinality(Times)
  BY <1>1, <1>5, UnstampedFacts, TimeFacts DEF PairInv, PairTypes
<1>7. OwnPair(p)'
  BY <1>1, <1>2, <1>3 DEF OwnPair, Seen, BackupLabels, Describing
<1> QED
  BY <1>1, <1>3, <1>6, <1>7, MovedPairs DEF Describing

LEMMA NewStampPairs ==
  ASSUME DatabaseInv, PairInv, NEW p \in Processes, BeginBackup(p) \/ BeginSafetyBackup(p)
  PROVE  PairInv'
<1>1. LocalType
  BY DEF DatabaseInv
<1>2. /\ Stamped(p) /\ UNCHANGED <<live, pairs, search, undeleted, bounds>> /\ UNCHANGED snap
      /\ stamp' = [stamp EXCEPT ![p] = clock + 1] /\ stamp[p] = None
      /\ stamp \in [Processes -> Times \cup {None}]
  BY DEF BeginBackup, BeginSafetyBackup, MayBegin, Stamped, store, past, PairInv, PairTypes,
         OwnPair
<1>3. stamp'[p] # None
  <2>1. clock \in Nat
    BY DEF PairInv, PairTypes
  <2>2. clock < Cardinality(Times)
    <3>1. CASE BeginBackup(p)
      BY <3>1, <2>1, UnstampedFacts, TimeFacts DEF BeginBackup, MayBegin
    <3>2. CASE BeginSafetyBackup(p)
      <4>1. p \in Unstamped
        BY <1>2, <3>2 DEF BeginSafetyBackup, Unstamped, DatabaseInv, CommandInv, StepOfCommand
      <4>2. Cardinality(Unstamped) # 0
        BY <4>1, UnstampedFacts, FS_EmptySet
      <4> QED
        BY <2>1, <4>2, UnstampedFacts, TimeFacts DEF PairInv, PairTypes
    <3> QED
      BY <3>1, <3>2
  <2>3. clock + 1 \in 1..Cardinality(Times)
    BY <2>1, <2>2, TimeFacts
  <2> QED
    BY <1>2, <2>3, NoneIsNoTime, TimeFacts
<1>4. CASE BeginBackup(p)
  <2>1. /\ kind' = [kind EXCEPT ![p] = "backup"] /\ kind[p] = None /\ live.main # None
        /\ clock + Cardinality(Unstamped) < Cardinality(Times)
    BY <1>4 DEF BeginBackup, MayBegin, DatabaseInv, CommandInv, StepOfCommand
  <2>2. OthersKeep(p)
    BY <1>1, <1>2, <2>1 DEF OthersKeep, LocalType, Stamped, Goto, search
  <2>3. Unstamped' = Unstamped
    BY <1>3, <2>1, <2>2 DEF Unstamped, OthersKeep
  <2> QED
    BY <1>1, <1>2, <2>1, <2>2, <2>3, StampedPairs
<1>5. CASE BeginSafetyBackup(p)
  <2>1. kind' = kind /\ pc[p] = "safety" /\ kind[p] # None /\ live.main # None
    BY <1>5, Constants DEF BeginSafetyBackup, DatabaseInv, CommandInv, StepOfCommand, PairInv,
       OwnPair
  <2>2. OthersKeep(p)
    BY <1>1, <1>2, <2>1 DEF OthersKeep, LocalType, Stamped, Goto, search
  <2>3. p \in Unstamped /\ Unstamped' = Unstamped \ {p}
    BY <1>2, <1>3, <2>1, <2>2 DEF Unstamped, OthersKeep
  <2>4. Cardinality(Unstamped') = Cardinality(Unstamped) - 1
    BY <2>3, UnstampedFacts, FS_RemoveElement
  <2>5. clock + Cardinality(Unstamped') < Cardinality(Times)
    BY <2>4, UnstampedFacts, TimeFacts DEF PairInv, PairTypes
  <2> QED
    BY <1>1, <1>2, <2>1, <2>2, <2>5, StampedPairs
<1> QED
  BY <1>4, <1>5

LEMMA MovesPairs ==
  ASSUME DatabaseInv, PairInv, NEW p \in Processes,
         \/ Snapshot(p) \/ Prune(p) \/ Pruned(p) \/ Lock(p) \/ Checkpoint(p)
         \/ RemoveSidecars(p) \/ Look(p) \/ Create(p) \/ FailBackup(p)
         \/ Inspect(p) /\ ~ Ended(p)
  PROVE  PairInv'
<1> DEFINE Quietly ==
      /\ UNCHANGED <<pairs, clock, kind, stamp, unread, found, victims, undeleted>>
      /\ keep' \in {keep, [keep EXCEPT ![p] = {}]} /\ (keep' = keep \/ victims[p] = {})
      /\ \E label \in Labels : pc' = [pc EXCEPT ![p] = label]
      /\ snap' = [snap EXCEPT ![p] = snap'[p]]
      /\ live.main # None => live'.main # None
      /\ failures' \in Nat
<1>1. /\ StoreInv /\ LogIsWhole /\ LocalType /\ CommandInv(p)
      /\ OwnPair(p) /\ failures \in Nat /\ keep \in [Processes -> SUBSET Times]
      /\ pc \in [Processes -> Labels] /\ snap \in [Processes -> Contents \cup {None}]
  BY DEF DatabaseInv, LocalType, PairInv, PairTypes
<1>2. ASSUME Quietly, OwnPair(p)', pc'[p] # "unlink",
             pc'[p] \in Describing => pc[p] \in Describing,
             pc'[p] = "unlink-bare" => Latter(victims[p]) \notin metas,
             pc'[p] = "clean-file" => stamp[p] \notin metas
      PROVE  PairInv'
  <2>1. OthersKeep(p)
    BY <1>1, <1>2 DEF OthersKeep
  <2>2. Unstamped' = Unstamped
    BY <1>2 DEF Unstamped
  <2>3. clock + Cardinality(Unstamped') <= Cardinality(Times)
    BY <2>2 DEF PairInv, PairTypes
  <2>4. keep' \in [Processes -> SUBSET Times]
    BY <1>1, <1>2
  <2> QED
    BY <1>2, <2>1, <2>3, <2>4, MovedPairs
<1> HIDE DEF Quietly
<1>3. CASE Snapshot(p)
  <2>1. /\ pc[p] = "snapshot" /\ pc'[p] = "publish" /\ snap'[p] = View
        /\ UNCHANGED <<live, files, metas, stamp, unread, found, victims>>
    BY <1>1, <1>3 DEF Snapshot, Goto, store, pairs, search
  <2>2. Quietly
    BY <1>1, <1>3 DEF Quietly, Snapshot, Goto, store, search, past, bounds, Labels, BackupLabels
  <2>3. View # None
    BY <1>1, <2>1, ViewIs DEF OwnPair
  <2>4. OwnPair(p)'
    BY <1>1, <2>1, <2>3 DEF OwnPair, Seen, Whole, BackupLabels, Describing
  <2> QED
    BY <1>2, <2>1, <2>2, <2>4 DEF Describing
<1>4. CASE Prune(p) \/ Pruned(p)
  <2>1. /\ pc[p] = "prune"
        /\ UNCHANGED <<live, files, metas, stamp, unread, found, victims, snap>>
        /\ \/ pc'[p] = "take" /\ victims[p] # {}
           \/ pc'[p] = "unlink-bare" /\ victims[p] # {} /\ Latter(victims[p]) \notin metas
           \/ pc'[p] \in {"done", "checkpoint", "migrate"}
    <3>1. pc[p] = "prune" => kind[p] \in {"backup", "restore", "init"}
      BY <1>1, Constants DEF CommandInv, StepOfCommand, LocalType
    <3> QED
      BY <1>1, <1>4, <3>1 DEF Prune, Pruned, AfterBackup, Goto, store, pairs, search
  <2>2. Quietly
    <3>1. \E label \in Labels : pc' = [pc EXCEPT ![p] = label]
      <4>1. pc' = [pc EXCEPT ![p] = pc'[p]]
        BY <1>1, <1>4 DEF Prune, Pruned, Goto
      <4> QED
        BY <2>1, <4>1 DEF Labels, BackupLabels
    <3> QED
      BY <1>1, <1>4, <3>1 DEF Quietly, Prune, Pruned, store, search, past, bounds
  <2>3. OwnPair(p)'
    BY <1>1, <2>1 DEF OwnPair, Seen, Whole, BackupLabels, Describing
  <2> QED
    BY <1>2, <2>1, <2>2, <2>3 DEF Describing
<1>5. CASE Lock(p) \/ Checkpoint(p) \/ RemoveSidecars(p)
  <2>1. /\ UNCHANGED <<files, metas, stamp, unread, found, victims, snap>>
        /\ live.main # None => live'.main # None
        /\ \/ pc[p] = "guard" /\ pc'[p] \in {"inspect", "replace"}
           \/ pc[p] = "guard" /\ pc'[p] = "safety" /\ live.main # None
           \/ pc[p] \in {"checkpoint", "sidecars"} /\ pc'[p] \in {"sidecars", "replace"}
    <3>1. live' \in {live, Folded, [live EXCEPT !.wal = None]}
      BY <1>5 DEF Lock, Checkpoint, RemoveSidecars
    <3>2. live.main # None => live'.main # None
      BY <1>1, <3>1, FileStays DEF StoreInv
    <3> QED
      BY <1>1, <1>5, <3>2 DEF Lock, Checkpoint, RemoveSidecars, Goto, pairs, search
  <2>2. Quietly
    <3>1. \E label \in Labels : pc' = [pc EXCEPT ![p] = label]
      <4>1. pc' = [pc EXCEPT ![p] = pc'[p]]
        BY <1>1, <1>5 DEF Lock, Checkpoint, RemoveSidecars, Goto
      <4> QED
        BY <2>1, <4>1 DEF Labels, BackupLabels
    <3> QED
      BY <1>1, <1>5, <2>1, <3>1
         DEF Quietly, Lock, Checkpoint, RemoveSidecars, search, past, bounds
  <2>3. OwnPair(p)'
    BY <1>1, <2>1 DEF OwnPair, Seen, Whole, BackupLabels, Describing
  <2> QED
    BY <1>2, <2>1, <2>2, <2>3 DEF Describing
<1>6. CASE Look(p) \/ Create(p) \/ (Inspect(p) /\ ~ Ended(p))
  <2>1. /\ UNCHANGED <<files, metas, stamp, unread, found, victims, snap>>
        /\ live.main # None => live'.main # None
        /\ \/ pc[p] \in {"look", "open"} /\ pc'[p] \in {"open", "migrate"} /\ stamp[p] = None
           \/ pc[p] \in {"inspect", "look"} /\ pc'[p] = "safety" /\ live'.main # None
    <3>1. pc[p] = "inspect" => live.main # None
      BY <1>1 DEF CommandInv, StepOfCommand, GuardIsHeld
    <3> QED
      BY <1>1, <1>6, <3>1 DEF Look, Create, Inspect, Goto, OwnPair, store, pairs, search
  <2>2. Quietly
    <3>1. \E label \in Labels : pc' = [pc EXCEPT ![p] = label]
      <4>1. pc' = [pc EXCEPT ![p] = pc'[p]]
        BY <1>1, <1>6, <2>1 DEF Look, Create, Inspect, Ended, Goto
      <4> QED
        BY <2>1, <4>1 DEF Labels, BackupLabels
    <3> QED
      BY <1>1, <1>6, <2>1, <3>1
         DEF Quietly, Look, Create, Inspect, store, search, past, bounds
  <2>3. OwnPair(p)'
    BY <1>1, <2>1 DEF OwnPair, Seen, Whole, BackupLabels, Describing
  <2> QED
    BY <1>2, <2>1, <2>2, <2>3 DEF Describing
<1>7. CASE FailBackup(p)
  <2>1. /\ UNCHANGED <<live, files, metas, stamp, unread, found, victims, snap>>
        /\ pc[p] \in BackupLabels
        /\ \/ pc'[p] = "clean-metadata"
           \/ pc'[p] = "clean-file" /\ stamp[p] \notin metas
    BY <1>1, <1>7 DEF FailBackup, Goto, store, pairs, search, BackupLabels, OwnPair, Describing
  <2>2. Quietly
    <3>1. \E label \in Labels : pc' = [pc EXCEPT ![p] = label]
      BY <1>7 DEF FailBackup, Goto, Labels, BackupLabels
    <3>2. failures' \in Nat
      BY <1>1, <1>7 DEF FailBackup, Failing
    <3> QED
      BY <1>1, <1>7, <2>1, <3>1, <3>2 DEF Quietly, FailBackup, search, past
  <2>3. OwnPair(p)'
    BY <1>1, <2>1 DEF OwnPair, Seen, Whole, BackupLabels, Describing
  <2> QED
    BY <1>2, <2>1, <2>2, <2>3 DEF Describing
<1> QED
  BY <1>3, <1>4, <1>5, <1>6, <1>7

LEMMA EndsPairs ==
  ASSUME DatabaseInv, PairInv, NEW p \in Processes, Ended(p),
         \/ FinishBackup(p) \/ Replace(p) \/ Inspect(p) \/ Migrate(p) \/ GiveUp(p)
         \/ Fail(p) \/ CleanFile(p) \/ Die(p)
  PROVE  PairInv'
<1>1. StoreInv /\ LogIsWhole /\ FilesAreHistory /\ LocalType /\ CommandInv(p) /\ PairTypes
  BY DEF DatabaseInv, PairInv
<1>2. UNCHANGED <<metas, clock, undeleted>> /\ failures' \in Nat
  BY <1>1 DEF FinishBackup, Replace, Inspect, Migrate, GiveUp, Fail, CleanFile, Die, Failing,
     pairs, past, bounds, PairTypes
<1>3. \A t \in Times : files'[t] # files[t] => t = stamp[p] /\ pc[p] = "clean-file"
  BY <1>1 DEF FinishBackup, Replace, Inspect, Migrate, GiveUp, Fail, CleanFile, Die, pairs,
     FilesAreHistory
<1>4. live.main # None => live'.main # None
  <2>1. CASE Replace(p)
    <3>1. PICK c \in history : staged[p] = Upgraded(c)
      BY <1>1, <2>1 DEF Replace, CommandInv, StepOfCommand, GuardIsHeld
    <3>2. staged[p] # None
      BY <1>1, <3>1, ContentsFacts DEF StoreInv
    <3> QED
      BY <1>1, <2>1, <3>2 DEF Replace, StoreInv
  <2>2. CASE Migrate(p)
    BY <1>1, <2>2 DEF Migrate, Logged, StoreInv
  <2>3. CASE live' = live
    BY <2>3
  <2> QED
    BY <2>1, <2>2, <2>3 DEF FinishBackup, Inspect, GiveUp, Fail, CleanFile, Die
<1> QED
  BY <1>1, <1>2, <1>3, <1>4, EndedPairs

LEMMA ConnectionPairs ==
  ASSUME DatabaseInv, PairInv,
         \/ UNCHANGED vars
         \/ \E c \in Clients : Connect(c) \/ Commit(c) \/ Disconnect(c)
  PROVE  PairInv'
<1>1. /\ UNCHANGED <<files, metas, clock, kind, pc, stamp, snap, unread, found, keep, victims>>
      /\ UNCHANGED <<undeleted, failures>>
  BY DEF vars, pairs, local, search, past, bounds, Connect, Commit, Disconnect
<1>2. live.main # None => live'.main # None
  <2>1. \/ live' \in {live, Folded}
        \/ \E new : live' = Logged(new)
    BY DEF vars, store, Connect, Commit, Disconnect
  <2>2. live \in [main : Contents \cup {None}, wal : Logs \cup {None}]
    BY DEF DatabaseInv, StoreInv
  <2>3. (\E new : live' = Logged(new)) => live'.main = live.main
    BY <2>2 DEF Logged
  <2> QED
    BY <2>1, <2>3, FileStays
<1>3. PairTypes' /\ StampsAreOwn'
  BY <1>1 DEF PairInv, PairTypes, StampsAreOwn, Unstamped
<1>4. \A q \in Processes : OwnPair(q)' /\ DaysAreKept(q)'
  BY <1>1, <1>2, OtherPair DEF PairInv, Whole
<1>5. VictimsAreDescribed' /\ OneUnlinks' /\ NoBareMetadata'
  BY <1>1 DEF PairInv, VictimsAreDescribed, Seen, OneUnlinks, NoBareMetadata, Bare, Whole,
              Describing
<1> QED
  BY <1>3, <1>4, <1>5 DEF PairInv

LEMMA PairStep == DatabaseInv /\ PairInv /\ [Next]_vars => PairInv'
<1> SUFFICES ASSUME DatabaseInv, PairInv, [Next]_vars PROVE PairInv'
  OBVIOUS
<1>a. LocalType /\ FilesAreHistory
  BY DEF DatabaseInv
<1>1. ASSUME NEW p \in Processes, BackupStep(p) PROVE PairInv'
  BY <1>a, <1>1, NewStampPairs, MovesPairs, PublishPairs, DescribePairs, ReadPairs,
     RetainPairs, TakePairs, UnlinkPairs, EndsPairs DEF BackupStep, FinishBackup
<1>2. ASSUME NEW p \in Processes, RestoreStep(p) PROVE PairInv'
  BY <1>2, BeginPairs, NewStampPairs, MovesPairs, EndsPairs DEF RestoreStep, Replace
<1>3. ASSUME NEW p \in Processes, InitStep(p) PROVE PairInv'
  BY <1>3, BeginPairs, MovesPairs, EndsPairs DEF InitStep, Migrate
<1>4. ASSUME NEW p \in Processes, FailureStep(p) PROVE PairInv'
  BY <1>a, <1>4, MovesPairs, EndsPairs, ReadPairs, FailUnlinkPairs, CleanMetadataPairs
     DEF FailureStep, GiveUp, Fail, CleanFile, Die
<1> QED
  BY <1>1, <1>2, <1>3, <1>4, ConnectionPairs DEF Next

LEMMA PairsHold == Spec => [](DatabaseInv /\ PairInv)
<1> QED
  BY DatabaseInit, DatabaseStep, PairInit, PairStep, PTL DEF Spec

-----------------------------------------------------------------------------
(***************************************************************************)
(* What follows of the pairs.                                               *)
(***************************************************************************)
(* Types: in particular there is a creation time for every pair a command  *)
(* makes, and every step that names its pair has one.                      *)
THEOREM TypeCorrect == Spec => []TypeOK
<1>1. ASSUME DatabaseInv, PairInv PROVE TypeOK
  <2>1. StoreInv /\ FilesAreHistory /\ LocalType /\ PairTypes
    BY <1>1 DEF DatabaseInv, PairInv
  <2>2. clock \in 0..Cardinality(Times)
    BY <2>1, UnstampedFacts, TimeFacts DEF PairTypes
  <2>3. \A p \in Processes : pc[p] \in BackupLabels => stamp[p] \in Times
    <3> SUFFICES ASSUME NEW p \in Processes, pc[p] \in BackupLabels
                 PROVE  stamp[p] \in Times
      OBVIOUS
    <3>1. stamp[p] # None
      BY <1>1 DEF PairInv, OwnPair
    <3> QED
      BY <2>1, <3>1 DEF PairTypes
  <2> QED
    BY <2>1, <2>2, <2>3
       DEF TypeOK, StoreInv, FilesAreHistory, LocalType, PairTypes, Logs
<1> QED
  BY <1>1, PairsHold, PTL

(* A crash or a failure between any two file operations leaves no metadata  *)
(* without its database, but of a pair whose own deletion failed; and what *)
(* is in the directory was the live database once, or is empty.            *)
THEOREM PairsStayTrue == Spec => []PairsAreTrue
<1>1. ASSUME DatabaseInv, PairInv PROVE PairsAreTrue
  BY <1>1 DEF DatabaseInv, PairInv, FilesAreHistory, NoBareMetadata, PairsAreTrue
<1> QED
  BY <1>1, PairsHold, PTL

(* How a step may make a day lose its last pair.                           *)
LostRightly(p, d) ==
  \/ /\ pc[p] \in {"take", "unlink-bare"}
     /\ DayOutlived(p, d) \/ ~ (keep[p] \subseteq Verified)
  \/ pc[p] \in {"clean-metadata", "clean-file"} /\ Day[stamp[p]] = d

LostDays == {Day[t] : t \in Verified} \ {Day[t] : t \in Verified'}

(* A victim's day is lost only where retention meant it to be.             *)
LEMMA VictimsDayIsLost ==
  ASSUME PairInv, NEW p \in Processes, pc[p] \in {"take", "unlink-bare"},
         NEW v, v = Latter(victims[p]), Verified \ {v} \subseteq Verified',
         NEW d \in LostDays
  PROVE  LostRightly(p, d)
<1>1. d = Day[v] /\ \A t \in Verified : Day[t] = d => t = v
  BY DEF LostDays
<1>2. v \in victims[p]
  BY VictimIs
<1>3. /\ v \notin keep[p]
      /\ (\E t \in keep[p] : Day[t] = d) \/ DayOutlived(p, d)
  BY <1>1, <1>2 DEF PairInv, DaysAreKept
<1>4. keep[p] \subseteq Verified => DayOutlived(p, d)
  BY <1>1, <1>3
<1> QED
  BY <1>4 DEF LostRightly

(* Without its metadata a pair was not verified before its database went.   *)
LEMMA UnlinkLosesDays ==
  ASSUME DatabaseInv, PairInv, NEW p \in Processes, Unlink(p), NEW d \in LostDays
  PROVE  LostRightly(p, d)
<1> DEFINE v == Latter(victims[p])
<1>1. /\ pc[p] \in {"unlink", "unlink-bare"}
      /\ metas' = metas /\ files' = [files EXCEPT ![v] = None]
      /\ pc[p] = "unlink" => v \notin metas
      /\ metas \subseteq Times /\ files \in [Times -> Contents \cup {None, Blank}]
  BY DEF Unlink, PairInv, PairTypes, OwnPair, DatabaseInv, FilesAreHistory
<1> HIDE DEF v
<1>2. Verified \ {v} \subseteq Verified'
  BY <1>1 DEF Verified, Whole
<1>3. CASE pc[p] = "unlink"
  <2>1. Verified \subseteq Verified'
    BY <1>1, <1>2, <1>3 DEF Verified, Whole
  <2> QED
    BY <2>1 DEF LostDays
<1>4. CASE pc[p] = "unlink-bare"
  BY <1>2, <1>4, VictimsDayIsLost DEF v
<1> QED
  BY <1>1, <1>3, <1>4

LEMMA TakeLosesDays ==
  ASSUME PairInv, NEW p \in Processes, Take(p), NEW d \in LostDays
  PROVE  LostRightly(p, d)
<1>1. /\ pc[p] = "take"
      /\ metas' = metas \ {Latter(victims[p])} /\ files' = files
  BY DEF Take
<1>2. Verified \ {Latter(victims[p])} \subseteq Verified'
  BY <1>1 DEF Verified, Whole
<1> QED
  BY <1>1, <1>2, VictimsDayIsLost

(* A failed backup removes its own pair.                                   *)
LEMMA CleaningLosesDays ==
  ASSUME DatabaseInv, PairInv, NEW p \in Processes, CleanMetadata(p) \/ CleanFile(p),
         NEW d \in LostDays
  PROVE  LostRightly(p, d)
<1>1. /\ pc[p] \in {"clean-metadata", "clean-file"}
      /\ \/ metas' = metas \/ metas' = metas \ {stamp[p]}
      /\ \/ files' = files \/ files' = [files EXCEPT ![stamp[p]] = None]
  BY DEF CleanMetadata, CleanFile
<1>2. metas \subseteq Times /\ files \in [Times -> Contents \cup {None, Blank}]
  BY DEF PairInv, PairTypes, DatabaseInv, FilesAreHistory
<1>3. Verified \ {stamp[p]} \subseteq Verified'
  BY <1>1, <1>2 DEF Verified, Whole
<1>4. d = Day[stamp[p]]
  BY <1>3 DEF LostDays
<1> QED
  BY <1>1, <1>4 DEF LostRightly

(* Every other step leaves the verified pairs verified.                    *)
LEMMA PairsStayVerified ==
  ASSUME FilesAreHistory, metas \subseteq Times, metas \subseteq metas',
         \/ files' = files
         \/ \E t \in Times : \E c : c \notin {None, Blank} /\ files' = [files EXCEPT ![t] = c]
         \/ \A t \in Times : Whole(t) => files'[t] = files[t]
  PROVE  LostDays = {}
<1>1. \A t \in Times : Whole(t) => Whole(t)'
  BY DEF FilesAreHistory, Whole
<1>2. Verified \subseteq Verified'
  BY <1>1 DEF Verified
<1> QED
  BY <1>2 DEF LostDays

LEMMA OthersLoseNoDay ==
  ASSUME DatabaseInv, PairInv, NEW p \in Processes,
         BackupStep(p) \/ RestoreStep(p) \/ InitStep(p) \/ FailureStep(p),
         ~ Take(p), ~ Unlink(p), ~ CleanMetadata(p), ~ CleanFile(p)
  PROVE  LostDays = {}
<1>1. FilesAreHistory /\ metas \subseteq Times
  BY DEF DatabaseInv, PairInv, PairTypes
<1>2. CASE Publish(p)
  <2>1. snap[p] \notin {None, Blank} /\ stamp[p] \in Times
    BY <1>2, Constants
       DEF Publish, PairInv, PairTypes, OwnPair, BackupLabels, DatabaseInv, LocalType
  <2>2. metas' = metas /\ files' = [files EXCEPT ![stamp[p]] = snap[p]]
    BY <1>2 DEF Publish
  <2> QED
    BY <1>1, <2>1, <2>2, PairsStayVerified
<1>3. CASE Probe(p)
  <2>1. metas' = metas
    BY <1>3 DEF Probe
  <2>2. \A t \in Times : Whole(t) => files'[t] = files[t]
    BY <1>1, <1>3 DEF Probe, FilesAreHistory, Whole
  <2> QED
    BY <1>1, <2>1, <2>2, PairsStayVerified
<1>4. CASE ~ Publish(p) /\ ~ Probe(p)
  <2>1. metas \subseteq metas' /\ files' = files
    <3>1. CASE BackupStep(p)
      BY <1>4, <3>1 DEF BackupStep, BeginBackup, Snapshot, Describe, List, Verify, Retain, Prune,
         Pruned, FinishBackup, pairs
    <3>2. CASE RestoreStep(p)
      BY <3>2 DEF RestoreStep, BeginRestore, Lock, BeginSafetyBackup, Checkpoint,
         RemoveSidecars, Replace, pairs
    <3>3. CASE InitStep(p)
      BY <3>3 DEF InitStep, BeginInit, Look, Inspect, Create, Migrate, pairs
    <3>4. CASE FailureStep(p)
      BY <3>4 DEF FailureStep, GiveUp, Fail, FailVerify, FailBackup, FailUnlink, Die, pairs
    <3> QED
      BY <3>1, <3>2, <3>3, <3>4
  <2> QED
    BY <1>1, <2>1, PairsStayVerified
<1> QED
  BY <1>2, <1>3, <1>4

LEMMA RetentionStep ==
  DatabaseInv /\ PairInv /\ [Next]_vars =>
    \A d \in LostDays : \E p \in Processes : LostRightly(p, d)
<1> SUFFICES ASSUME DatabaseInv, PairInv, [Next]_vars, NEW d \in LostDays
             PROVE  \E p \in Processes : LostRightly(p, d)
  OBVIOUS
<1>1. ASSUME NEW p \in Processes,
             BackupStep(p) \/ RestoreStep(p) \/ InitStep(p) \/ FailureStep(p)
      PROVE  \E q \in Processes : LostRightly(q, d)
  BY <1>1, TakeLosesDays, UnlinkLosesDays, CleaningLosesDays, OthersLoseNoDay
<1>2. CASE UNCHANGED vars \/ \E c \in Clients : Connect(c) \/ Commit(c) \/ Disconnect(c)
  <2>1. metas' = metas /\ files' = files
    BY <1>2 DEF vars, pairs, Connect, Commit, Disconnect
  <2>2. LostDays = {}
    BY <2>1, PairsStayVerified DEF DatabaseInv, PairInv, PairTypes
  <2> QED
    BY <2>2
<1> QED
  BY <1>1, <1>2 DEF Next

(* Whatever commands run beside each other, die or fail: a day's last       *)
(* verified pair goes only when retention has pairs of enough later days,  *)
(* when a pair it counted on was gone already, or with a failed backup.    *)
THEOREM RetentionKeepsDays == Spec => DayKeepsAPair
<1>1. DatabaseInv /\ PairInv /\ [Next]_vars =>
        [\A d \in {Day[t] : t \in Verified} \ {Day[t] : t \in Verified'} :
           \E p \in Processes :
             \/ pc[p] \in {"take", "unlink-bare"}
                /\ (DayOutlived(p, d) \/ ~(keep[p] \subseteq Verified))
             \/ pc[p] \in {"clean-metadata", "clean-file"} /\ Day[stamp[p]] = d
        ]_vars
  BY RetentionStep DEF LostDays, LostRightly
<1> QED
  BY <1>1, PairsHold, PTL DEF Spec, DayKeepsAPair
=============================================================================
