---------------------------- MODULE Installation ----------------------------
(***************************************************************************)
(* installation.py: `runtasks install` and `runtasks uninstall` over the    *)
(* user's unit files, the systemd user manager and the two skill            *)
(* directories, with deaths, failing calls and restarts of the machine      *)
(* between any two steps.  The operator runs one command at a time; the     *)
(* timer, the listener and the scheduler run beside it.  A root is an       *)
(* application root: the directory RunTasks is installed from, which its    *)
(* unit files, links, copies and sidecars name.                             *)
(***************************************************************************)
EXTENDS Naturals, Sequences

CONSTANTS
  Roots,            \* application roots
  SharedAgents,     \* installed agents that read the common directory
  Pollers, MaxFiles,  \* see PollerGuard
  MaxDeaths, MaxFaults, MaxEdits,  \* bounds, of each and of all together
  MaxDisturbances

Units     == <<"scheduler", "timer", "listener">>   \* MANAGED_UNIT_NAMES
UnitNames == {"scheduler", "timer", "listener"}
Skills    == <<"common", "claude">>
SkillDirs == {"common", "claude"}
\* mutant: the scheduler is stopped before what starts it
StopOrderReversed == <<"scheduler", "timer", "listener">>
StopOrder == <<"timer", "listener", "scheduler">>
EnabledUnits == {"timer", "listener"}

Missing == [is |-> "missing"]
Foreign == [is |-> "foreign"]     \* a file, a directory, a link elsewhere
Remnant == [is |-> "remnant"]     \* a copy half deleted, its marker gone
Link(r) == [is |-> "link", source |-> r]
Copy(r) == [is |-> "copy", source |-> r]
Managed == {Link(r) : r \in Roots} \cup {Copy(r) : r \in Roots}
Entries == {Missing, Foreign, Remnant} \cup Managed

ASSUME InstallationAssumption ==
  /\ {"none", "foreign"} \cap Roots = {}
  /\ {MaxDeaths, MaxFaults, MaxEdits, MaxDisturbances, MaxFiles} \subseteq Nat

VARIABLES
  unit,      \* unit[u]: unit file: "none", "foreign", or the root it runs
  loaded,    \* loaded[u]: the definition systemd has read
  enabled,   \* units started at login
  active,    \* units that run now; a waiting timer is active
  marker,    \* the services marker file exists
  entry,     \* entry[d]: what is at skill destination d
  sidecar,   \* sidecar[d]: the root its sidecar file names, or "none"
  owner,     \* owner[d]: who made the entry, "runtasks" or "operator"
  pc, at,    \* where the command is, and at which unit or skill
  root,      \* the root it runs from
  mode,      \* mode[d]: "link" or "copy", what the agents discover
  fresh,     \* rollback_activation_on_failure
  aside,     \* the entry that a copy replaces, moved aside
  chosen,    \* units that were managed when the uninstallation began
  late,      \* unit files the operator put in place during the installation
  outcome,   \* how the last command ended
  lockFile, made, holds,       \* see PollerGuard
  dataAt,    \* where the data directory is: "apart" from the poller locks,
             \* their directory ("locks"), or a "link" at that directory's path
  unlinked,  \* such a link was removed
  deaths, faults, edits

systemd == <<unit, loaded, enabled, active, marker>>
skills  == <<entry, sidecar, owner>>
command == <<pc, at, root, mode, fresh, aside, chosen, late, outcome>>
layout  == <<dataAt, unlinked>>
guard   == <<lockFile, made, holds, layout>>
bounds  == <<deaths, faults, edits>>
vars    == <<systemd, skills, command, guard, bounds>>

Guard == INSTANCE PollerGuard

Dir == Skills[at]      \* the skill destination a command is at
Nothing == [entry |-> Missing, owner |-> "operator"]

Init ==
  /\ unit \in {[u \in UnitNames |-> "none"],
               [u \in UnitNames |-> IF u = "listener" THEN "foreign" ELSE "none"]}
  /\ loaded = unit
  /\ enabled = {} /\ active = {} /\ marker = FALSE
  /\ entry \in [SkillDirs -> {Missing} \cup {Link(r) : r \in Roots}]
  /\ sidecar = [d \in SkillDirs |-> "none"]
  /\ owner = [d \in SkillDirs |-> "operator"]
  /\ pc = "idle" /\ at = 1 /\ root \in Roots /\ fresh = TRUE
  /\ mode = [d \in SkillDirs |-> "link"]
  /\ aside = Nothing /\ chosen = {} /\ late = {} /\ outcome = "none"
  /\ Guard!GuardInit
  /\ dataAt \in {"apart", "locks", "link"} /\ unlinked = FALSE
  /\ deaths = 0 /\ faults = 0 /\ edits = 0


-----------------------------------------------------------------------------
(* What RunTasks takes for its own.                                        *)

MarkerIsManaged == marker /\ \A u \in UnitNames : unit[u] \in Roots

(* The sidecar names the very source of what is there.                     *)
SidecarIsManaged(s) == entry[s] \in Managed /\ entry[s].source = sidecar[s]

\* mutant: a link to the canonical skill is always taken for RunTasks' own
KindByTarget(s, r) ==
  CASE entry[s] = Missing            -> "missing"
    [] entry[s] \in {Foreign, Remnant} -> "unmanaged"
    [] entry[s].is = "link" -> IF SidecarIsManaged(s) \/ entry[s].source = r
                               THEN "link" ELSE "unmanaged"
    [] entry[s].is = "copy" -> IF SidecarIsManaged(s) \/ entry[s].source = r
                               THEN "copy" ELSE "unmanaged"

(* _managed_skill_kind.                                                    *)
Kind(s, r) ==
  CASE entry[s] = Missing            -> "missing"
    [] entry[s] \in {Foreign, Remnant} -> "unmanaged"
    [] entry[s].is = "link" -> IF SidecarIsManaged(s) THEN "link"
                               ELSE IF entry[s].source = r THEN "matching" ELSE "unmanaged"
    [] entry[s].is = "copy" -> IF SidecarIsManaged(s) \/ entry[s].source = r
                               THEN "copy" ELSE "unmanaged"

(* _validate_skill_destination.                                            *)
MayManage(s, r, m) ==
  /\ Kind(s, r) # "unmanaged"
  /\ Kind(s, r) = "matching" => m = "link"

(* Agents that do not follow a link get a copy, all that share a directory *)
(* together; an agent that discovers neither refuses the installation.     *)
LinkDiscoveries == SUBSET (SharedAgents \cup {"claude"})   \* what the probes may find
ModeFor(agents, follows) == IF agents \subseteq follows THEN "link" ELSE "copy"

-----------------------------------------------------------------------------
Disturbed       == deaths + faults + edits < MaxDisturbances
Goto(label)     == pc' = label
Stay            == UNCHANGED <<root, mode, fresh, aside, chosen, late, outcome>>
Ended(how) ==
  /\ Goto("idle") /\ at' = 1 /\ outcome' = how
  /\ aside' = Nothing /\ chosen' = {} /\ late' = {}
  /\ mode' = [s \in SkillDirs |-> "link"] /\ fresh' = TRUE
  /\ UNCHANGED root

(* On to the next of n units or skills, or to what follows them.           *)
Advance(n, label) ==
  IF at < n THEN at' = at + 1 /\ UNCHANGED pc ELSE at' = 1 /\ Goto(label)
NextSkill(label, after) ==
  IF at < Len(Skills) THEN at' = at + 1 /\ Goto(label) ELSE at' = 1 /\ Goto(after)

(* Everything is validated before anything changes.                        *)
BeginInstall(r) ==
  /\ pc = "idle"
  /\ \A u \in UnitNames : unit[u] # "foreign"
  /\ \E follows \in LinkDiscoveries :
       mode' = [s \in SkillDirs |->
                  ModeFor(IF s = "common" THEN SharedAgents ELSE {"claude"}, follows)]
  /\ \A s \in SkillDirs : MayManage(s, r, mode'[s])
  /\ root' = r
  /\ fresh' = ~MarkerIsManaged
  /\ outcome' = "none"
  /\ Goto("runtime")
  /\ UNCHANGED <<systemd, skills, guard, bounds, at, aside, chosen, late>>

(* Layout, configuration and database; see Backups for the database.       *)
InitializeRuntime ==
  /\ pc = "runtime"
  /\ Goto("skill")
  /\ UNCHANGED <<systemd, skills, guard, bounds, at>> /\ Stay

(* _manage_skill_destination validates once more and branches.             *)
ManageSkill ==
  /\ pc = "skill"
  /\ MayManage(Dir, root, mode[Dir])
  /\ CASE Kind(Dir, root) = "matching" -> NextSkill("skill", "units")
       [] mode[Dir] = "copy" ->
            Goto(IF entry[Dir] = Missing THEN "place" ELSE "set-aside") /\ UNCHANGED at
       [] mode[Dir] = "link" /\ Kind(Dir, root) = "copy" -> Goto("rmtree") /\ UNCHANGED at
       [] mode[Dir] = "link" /\ Kind(Dir, root) \in {"missing", "link"} ->
            Goto(IF entry[Dir] = Link(root) THEN "sidecar" ELSE "place") /\ UNCHANGED at
  /\ UNCHANGED <<systemd, skills, guard, bounds>> /\ Stay

(* rmtree of a managed copy that becomes a link is not atomic.             *)
RemoveTree ==
  /\ pc \in {"rmtree", "rmtree-rest"}
  /\ entry' = [entry EXCEPT ![Dir] = IF pc = "rmtree" THEN Remnant ELSE Missing]
  /\ Goto(IF pc = "rmtree" THEN "rmtree-rest" ELSE "place")
  /\ UNCHANGED <<systemd, sidecar, owner, guard, bounds, at>> /\ Stay

SetAside ==
  /\ pc = "set-aside"
  /\ aside' = [entry |-> entry[Dir], owner |-> owner[Dir]]
  /\ entry' = [entry EXCEPT ![Dir] = Missing]
  /\ Goto("place")
  /\ UNCHANGED <<systemd, sidecar, owner, guard, bounds, at, root, mode, fresh, chosen,
                 late, outcome>>

(* os.replace of a link, or of a finished copy with its marker.            *)
Place ==
  /\ pc = "place"
  /\ entry' = [entry EXCEPT ![Dir] = IF mode[Dir] = "link" THEN Link(root) ELSE Copy(root)]
  /\ owner' = [owner EXCEPT ![Dir] = "runtasks"]
  /\ Goto("sidecar")
  /\ UNCHANGED <<systemd, sidecar, guard, bounds, at>> /\ Stay

WriteSidecar ==
  /\ pc = "sidecar"
  /\ sidecar' = [sidecar EXCEPT ![Dir] = root]
  /\ aside' = Nothing
  /\ NextSkill("skill", "units")
  /\ UNCHANGED <<systemd, entry, owner, guard, bounds, root, mode, fresh, chosen,
                 late, outcome>>

WriteUnit ==
  /\ pc = "units"
  /\ unit' = [unit EXCEPT ![Units[at]] = root]
  /\ Advance(Len(Units), "reload")
  /\ UNCHANGED <<loaded, enabled, active, marker, skills, guard, bounds>> /\ Stay

\* mutant: systemd is not told of the new unit files
ReloadSkipped ==
  /\ pc = "reload"
  /\ Goto("enable-timer")
  /\ UNCHANGED <<systemd, skills, guard, bounds, at>> /\ Stay

Reload ==
  /\ pc = "reload"
  /\ loaded' = unit
  /\ Goto("enable-timer")
  /\ UNCHANGED <<unit, enabled, active, marker, skills, guard, bounds, at>> /\ Stay

\* mutant: the one-shot service is enabled as well
EnableWithService(u) ==
  /\ pc = IF u = "timer" THEN "enable-timer" ELSE "enable-listener"
  /\ enabled' = enabled \cup {u, "scheduler"}
  /\ active' = active \cup {u}
  /\ Goto(IF u = "timer" THEN "enable-listener" ELSE "marker")
  /\ UNCHANGED <<unit, loaded, marker, skills, guard, bounds, at>> /\ Stay

(* systemctl enable --now, the timer first.                                *)
Enable(u) ==
  /\ pc = IF u = "timer" THEN "enable-timer" ELSE "enable-listener"
  /\ enabled' = enabled \cup {u}
  /\ active' = active \cup {u}
  /\ Goto(IF u = "timer" THEN "enable-listener" ELSE "marker")
  /\ UNCHANGED <<unit, loaded, marker, skills, guard, bounds, at>> /\ Stay

WriteMarker ==
  /\ pc = "marker"
  /\ marker' = TRUE
  /\ Ended("installed")
  /\ UNCHANGED <<unit, loaded, enabled, active, skills, guard, bounds>>

-----------------------------------------------------------------------------
(* uninstall_user_environment.                                             *)

BeginUninstall(r) ==
  /\ pc = "idle"
  /\ root' = r
  /\ chosen' = {u \in UnitNames : unit[u] \in Roots}
  /\ outcome' = "none"
  /\ Goto("stop")
  /\ UNCHANGED <<systemd, skills, guard, bounds, at, mode, fresh, aside, late>>

\* mutant: disabled without --now
StopUnitLater ==
  /\ pc = "stop"
  /\ enabled' = IF StopOrder[at] \in chosen THEN enabled \ {StopOrder[at]} ELSE enabled
  /\ Advance(Len(StopOrder), "remove-units")
  /\ UNCHANGED <<unit, loaded, active, marker, skills, guard, bounds>> /\ Stay

(* disable --now of the timer and of the listener, then stop of the         *)
(* scheduler, which each of them may have started.                         *)
StopUnit ==
  /\ pc = "stop"
  /\ LET u == StopOrder[at]
     IN IF u \in chosen
        THEN enabled' = enabled \ {u} /\ active' = active \ {u}
        ELSE UNCHANGED <<enabled, active>>
  /\ Advance(Len(StopOrder), "remove-units")
  /\ UNCHANGED <<unit, loaded, marker, skills, guard, bounds>> /\ Stay

(* Each unit file that carries the header; removed_services is chosen' of   *)
(* this command, empty when an earlier one removed them all.               *)
RemoveUnit ==
  /\ pc = "remove-units"
  /\ IF unit[Units[at]] \in Roots
     THEN unit' = [unit EXCEPT ![Units[at]] = "none"]
     ELSE UNCHANGED unit
  /\ Advance(Len(Units), "remove-skill")
  /\ UNCHANGED <<loaded, enabled, active, marker, skills, guard, bounds>> /\ Stay

(* _remove_managed_skill: the entry, then the sidecar if it named it.      *)
RemoveSkill ==
  /\ pc = "remove-skill"
  /\ LET kind == Kind(Dir, root)
         next == IF SidecarIsManaged(Dir) THEN "remove-sidecar" ELSE "next-skill"
         tree == IF SidecarIsManaged(Dir) THEN "rmtree-remove-sidecar"
                 ELSE "rmtree-next-skill"
     IN CASE kind = "link" -> /\ entry' = [entry EXCEPT ![Dir] = Missing]
                              /\ Goto(next)
          [] kind = "copy" -> /\ entry' = [entry EXCEPT ![Dir] = Remnant]
                              /\ Goto(tree)
          [] OTHER         -> UNCHANGED entry /\ Goto(next)
  /\ UNCHANGED <<systemd, sidecar, owner, guard, bounds, at>> /\ Stay

RemoveSkillTree ==
  /\ pc \in {"rmtree-remove-sidecar", "rmtree-next-skill"}
  /\ entry' = [entry EXCEPT ![Dir] = Missing]
  /\ Goto(IF pc = "rmtree-remove-sidecar" THEN "remove-sidecar" ELSE "next-skill")
  /\ UNCHANGED <<systemd, sidecar, owner, guard, bounds, at>> /\ Stay

RemoveSidecar ==
  /\ pc \in {"remove-sidecar", "next-skill"}
  /\ IF pc = "remove-sidecar"
     THEN sidecar' = [sidecar EXCEPT ![Dir] = "none"]
     ELSE UNCHANGED sidecar
  /\ NextSkill("remove-skill", "reload-removed")
  /\ UNCHANGED <<systemd, entry, owner, guard, bounds>> /\ Stay

(* daemon-reload, if this command removed a unit file.                     *)
ReloadRemoved ==
  /\ pc = "reload-removed"
  /\ loaded' = IF chosen # {} THEN unit ELSE loaded
  /\ Goto("remove-marker")
  /\ UNCHANGED <<unit, enabled, active, marker, skills, guard, bounds, at>> /\ Stay

RemoveMarker ==
  /\ pc = "remove-marker"
  /\ marker' = FALSE
  /\ \/ Goto("data") /\ UNCHANGED at /\ Stay      \* --remove-data was given
     \/ Ended("uninstalled")
  /\ UNCHANGED <<unit, loaded, enabled, active, skills, guard, bounds>>

\* mutant: the data directory goes with the poller locks in it
RemoveDataWhole ==
  /\ pc = "data"
  /\ lockFile' = IF dataAt = "apart" THEN lockFile ELSE 0
  /\ dataAt' = IF dataAt = "link" THEN "locks" ELSE dataAt
  /\ unlinked' = (unlinked \/ dataAt = "link")
  /\ Ended("uninstalled")
  /\ UNCHANGED <<systemd, skills, made, holds, bounds>>

(* _remove_runtime_data deletes everything but the poller locks, which all  *)
(* runtime homes of the account share; but a link at the path of the lock   *)
(* directory is itself removed, and the next poller makes a new directory.  *)
RemoveData ==
  /\ pc = "data"
  /\ IF dataAt = "link"
     THEN lockFile' = 0 /\ dataAt' = "locks" /\ unlinked' = TRUE
     ELSE UNCHANGED <<lockFile, layout>>
  /\ Ended("uninstalled")
  /\ UNCHANGED <<systemd, skills, made, holds, bounds>>

-----------------------------------------------------------------------------
(* Failures.                                                               *)

Failing ==
  /\ Disturbed /\ faults < MaxFaults
  /\ faults' = faults + 1
  /\ UNCHANGED <<deaths, edits>>

(* A destination is no longer RunTasks'; nothing failed.                   *)
RefuseSkill ==
  /\ pc = "skill" /\ ~MayManage(Dir, root, mode[Dir])
  /\ Ended("failed")
  /\ UNCHANGED <<systemd, skills, guard, bounds>>

(* A file operation or a systemctl call fails without any effect and ends   *)
(* the command where it is.                                                *)
Fail ==
  /\ pc \notin {"idle", "enable-listener", "rollback-timer", "rollback-listener"}
  /\ ~(pc \in {"place", "sidecar"} /\ mode[Dir] = "copy")
  /\ Failing
  /\ Ended("failed")
  /\ UNCHANGED <<systemd, skills, guard>>

(* A copy that cannot be put in place gives way to what was there.         *)
FailCopy ==
  /\ pc \in {"place", "sidecar"} /\ mode[Dir] = "copy"
  /\ Failing
  /\ entry' = [entry EXCEPT ![Dir] = aside.entry]
  /\ owner' = [owner EXCEPT ![Dir] = aside.owner]
  /\ Ended("failed")
  /\ UNCHANGED <<systemd, sidecar, guard>>

(* systemctl takes a unit half way: enabled but not started, disabled but   *)
(* not stopped.                                                            *)
FailHalfway ==
  /\ \/ pc = "enable-timer" /\ enabled' = enabled \cup {"timer"}
     \/ pc = "stop" /\ StopOrder[at] \in chosen \cap EnabledUnits
        /\ enabled' = enabled \ {StopOrder[at]}
  /\ Failing
  /\ Ended("failed")
  /\ UNCHANGED <<unit, loaded, active, marker, skills, guard>>

(* The listener cannot be enabled: a first installation takes the timer     *)
(* and the listener back, as best it can.                                  *)
FailListener ==
  /\ pc = "enable-listener"
  /\ Failing
  /\ enabled' \in {enabled, enabled \cup {"listener"}}
  /\ IF fresh THEN Goto("rollback-timer") /\ UNCHANGED at /\ Stay ELSE Ended("failed")
  /\ UNCHANGED <<unit, loaded, active, marker, skills, guard>>

RollBack(u) ==
  /\ pc = IF u = "timer" THEN "rollback-timer" ELSE "rollback-listener"
  /\ \/ /\ enabled' = enabled \ {u} /\ active' = active \ {u}
        /\ UNCHANGED bounds
     \/ Failing /\ UNCHANGED <<enabled, active>>
  /\ IF u = "timer" THEN Goto("rollback-listener") /\ UNCHANGED at /\ Stay
     ELSE Ended("failed")
  /\ UNCHANGED <<unit, loaded, marker, skills, guard>>

(* The command dies; what it changed stays, and a copy set aside is lost.  *)
Die ==
  /\ pc # "idle"
  /\ Disturbed /\ deaths < MaxDeaths /\ deaths' = deaths + 1
  /\ Ended("failed")
  /\ UNCHANGED <<systemd, skills, guard, faults, edits>>

-----------------------------------------------------------------------------
(* systemd, the pollers and the operator.                                  *)

(* The timer elapses, or the listener asks for a pass.                     *)
StartScheduler ==
  /\ active \cap {"timer", "listener"} # {}
  /\ loaded["scheduler"] # "none"
  /\ active' = active \cup {"scheduler"}
  /\ UNCHANGED <<unit, loaded, enabled, marker, skills, command, guard, bounds>>

SchedulerEnds ==
  /\ "scheduler" \in active
  /\ active' = active \ {"scheduler"}
  /\ UNCHANGED <<unit, loaded, enabled, marker, skills, command, guard, bounds>>

(* The machine restarts: systemd reads the unit files anew and starts what  *)
(* is enabled.                                                             *)
Restart ==
  /\ Disturbed /\ deaths < MaxDeaths /\ deaths' = deaths + 1
  /\ loaded' = unit
  /\ active' = {u \in enabled : unit[u] # "none"}
  /\ holds' = [p \in Pollers |-> 0]
  /\ IF pc = "idle" THEN UNCHANGED command ELSE Ended("failed")
  /\ UNCHANGED <<unit, enabled, marker, skills, lockFile, made, layout, faults, edits>>

Poll(p) ==
  /\ Guard!Enter(p) \/ Guard!Exit(p)
  /\ UNCHANGED <<systemd, skills, command, layout, bounds>>

(* The operator changes a skill destination by hand, between commands or    *)
(* while an installation initializes the database.                         *)
EditSkill(s) ==
  /\ pc \in {"idle", "runtime"}
  /\ Disturbed /\ edits < MaxEdits /\ edits' = edits + 1
  /\ \E e \in {Missing, Foreign} \cup {Link(r) : r \in Roots} :
       entry' = [entry EXCEPT ![s] = e]
  /\ owner' = [owner EXCEPT ![s] = "operator"]
  /\ outcome' = "none"
  /\ UNCHANGED <<systemd, sidecar, guard, pc, at, root, mode, fresh, aside, chosen, late,
                 deaths, faults>>

(* The operator puts a unit file of their own in place, then as well.       *)
EditUnit(u) ==
  /\ pc \in {"idle", "runtime"}
  /\ Disturbed /\ edits < MaxEdits /\ edits' = edits + 1
  /\ unit' = [unit EXCEPT ![u] = "foreign"]
  /\ late' = IF pc = "runtime" THEN late \cup {u} ELSE late
  /\ outcome' = "none"
  /\ UNCHANGED <<loaded, enabled, active, marker, skills, guard, pc, at, root, mode, fresh,
                 aside, chosen, deaths, faults>>

-----------------------------------------------------------------------------
InstallStep ==
  \/ \E r \in Roots : BeginInstall(r)
  \/ InitializeRuntime \/ ManageSkill \/ RemoveTree \/ SetAside \/ Place \/ WriteSidecar
  \/ WriteUnit \/ Reload \/ (\E u \in EnabledUnits : Enable(u)) \/ WriteMarker

UninstallStep ==
  \/ \E r \in Roots : BeginUninstall(r)
  \/ StopUnit \/ RemoveUnit \/ RemoveSkill \/ RemoveSkillTree \/ RemoveSidecar
  \/ ReloadRemoved \/ RemoveMarker \/ RemoveData

FailureStep ==
  \/ RefuseSkill \/ Fail \/ FailCopy \/ FailHalfway \/ FailListener
  \/ (\E u \in EnabledUnits : RollBack(u)) \/ Die

Environment ==
  \/ StartScheduler \/ SchedulerEnds \/ Restart
  \/ (\E p \in Pollers : Poll(p)) \/ (\E s \in SkillDirs : EditSkill(s))
  \/ (\E u \in UnitNames : EditUnit(u))

Next == InstallStep \/ UninstallStep \/ FailureStep \/ Environment

Spec == Init /\ [][Next]_vars

-----------------------------------------------------------------------------
Labels == {"idle", "runtime", "skill", "rmtree", "rmtree-rest", "set-aside", "place",
           "sidecar", "units", "reload", "enable-timer", "enable-listener", "marker",
           "rollback-timer", "rollback-listener", "stop", "remove-units", "remove-skill",
           "rmtree-remove-sidecar", "rmtree-next-skill", "remove-sidecar", "next-skill",
           "reload-removed", "remove-marker", "data"}
Outcomes == {"none", "installed", "uninstalled", "failed"}

(* The types of the variables.                                             *)
TypeOK ==
  /\ unit \in [UnitNames -> Roots \cup {"none", "foreign"}]
  /\ loaded \in [UnitNames -> Roots \cup {"none", "foreign"}]
  /\ enabled \subseteq EnabledUnits /\ active \subseteq UnitNames
  /\ marker \in BOOLEAN
  /\ entry \in [SkillDirs -> Entries]
  /\ sidecar \in [SkillDirs -> Roots \cup {"none"}]
  /\ owner \in [SkillDirs -> {"runtasks", "operator"}]
  /\ pc \in Labels /\ at \in 1..3 /\ root \in Roots
  /\ mode \in [SkillDirs -> {"link", "copy"}]
  /\ fresh \in BOOLEAN
  /\ aside \in [entry : Entries, owner : {"runtasks", "operator"}]
  /\ chosen \subseteq UnitNames /\ late \subseteq UnitNames /\ outcome \in Outcomes
  /\ dataAt \in {"apart", "locks", "link"} /\ unlinked \in BOOLEAN
  /\ lockFile \in Nat /\ made \in Nat /\ holds \in [Pollers -> Nat]
  /\ deaths \in Nat /\ faults \in Nat /\ edits \in Nat

(* A unit that the operator's own timer or listener may have started.       *)
StartedByOperators(u) ==
  u = "scheduler" /\ \E v \in active \cap EnabledUnits : unit[v] = "foreign"

(* Whatever step a command stopped at, a unit that runs or starts at login  *)
(* has its unit file: another uninstallation, which looks for unit files    *)
(* only, will stop it.  What the operator replaced is the operator's to     *)
(* stop, and so is a scheduler that it started.                            *)
RunningIsReachable ==
  \A u \in active \cup enabled : unit[u] # "none" \/ StartedByOperators(u)

(* An installation that reports success is whole, whatever was left of      *)
(* earlier ones: systemd runs the definitions of this root, and both skill   *)
(* directories lead to it.                                                 *)
InstalledIsWhole ==
  outcome = "installed" =>
    /\ \A u \in UnitNames : unit[u] = root /\ loaded[u] = root
    /\ enabled = EnabledUnits /\ MarkerIsManaged
    /\ \A s \in SkillDirs : entry[s] \in {Link(root), Copy(root)}

(* An uninstallation that reports success has stopped everything but what    *)
(* the operator replaced, although the timer and the listener start the      *)
(* scheduler while it works.  When no command was cut short, nothing         *)
(* RunTasks made is left and systemd knows none of its units.               *)
UninstalledIsGone ==
  outcome = "uninstalled" =>
    /\ \A u \in active \cup enabled : unit[u] = "foreign" \/ StartedByOperators(u)
    /\ \A u \in UnitNames : unit[u] \notin Roots
    /\ deaths + faults = 0 =>
         /\ \A u \in UnitNames : unit[u] = "none" => loaded[u] = "none"
         /\ \A s \in SkillDirs : owner[s] = "runtasks" => entry[s] = Missing

(* RunTasks leaves alone what the operator made, unless a sidecar of its own *)
(* still names the source of the operator's link.  A unit file that is not   *)
(* its own is never deleted, and written over in one case only: it came      *)
(* after the installation that writes over it had looked for such files.     *)
OperatorsFilesKept ==
  [][/\ \A u \in UnitNames : unit[u] = "foreign" =>
          \/ unit'[u] = "foreign"
          \/ u \in late /\ unit'[u] = root
     /\ \A s \in SkillDirs :
          owner[s] = "operator" /\ entry[s] # Missing /\ entry'[s] # entry[s]
          => edits' # edits \/ sidecar[s] = entry[s].source]_vars

(* One process polls the bot token although uninstallation deletes the data  *)
(* directory around the locks that all runtime homes share, as long as that  *)
(* directory was no link that the uninstallation removed.                  *)
OnePoller == unlinked \/ Guard!OnePoller
=============================================================================
