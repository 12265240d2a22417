------------------------ MODULE Installation_proofs ------------------------
(***************************************************************************)
(* What is proved of Installation for any application roots, agents and     *)
(* pollers, and any number of deaths, failures and edits.                   *)
(***************************************************************************)
EXTENDS Installation, TLAPS

LEMMA Places ==
  /\ Len(Skills) = 2 /\ Skills[1] = "common" /\ Skills[2] = "claude"
  /\ Len(Units) = 3
  /\ Units[1] = "scheduler" /\ Units[2] = "timer" /\ Units[3] = "listener"
  /\ Len(StopOrder) = 3
  /\ StopOrder[1] = "timer" /\ StopOrder[2] = "listener" /\ StopOrder[3] = "scheduler"
  BY DEF Skills, Units, StopOrder

LEMMA EntryFacts ==
  /\ Missing \in Entries /\ Foreign \in Entries /\ Remnant \in Entries
  /\ Missing.is = "missing" /\ Foreign.is = "foreign" /\ Remnant.is = "remnant"
  /\ \A r \in Roots : /\ Link(r) \in Entries /\ Copy(r) \in Entries
                      /\ Link(r).is = "link" /\ Copy(r).is = "copy"
                      /\ Link(r).source = r /\ Copy(r).source = r
  /\ \A e \in Entries : \/ e \in {Missing, Foreign, Remnant}
                        \/ \E r \in Roots : e = Link(r) \/ e = Copy(r)
  BY DEF Entries, Managed, Missing, Foreign, Remnant, Link, Copy

(***************************************************************************)
(* One process polls: until a link is removed, a lock that is held is on the *)
(* file at the path.                                                       *)
(***************************************************************************)
LockIsAtPath ==
  /\ holds \in [Pollers -> Nat]
  /\ ~unlinked => /\ \A p \in Pollers : holds[p] # 0 => holds[p] = lockFile
                  /\ \A p, q \in Pollers : holds[p] # 0 /\ holds[q] # 0 => p = q

LEMMA LockInit == Init => LockIsAtPath
  BY DEF Init, Guard!GuardInit, LockIsAtPath

LEMMA LockStep == LockIsAtPath /\ lockFile \in Nat /\ made \in Nat /\ [Next]_vars => LockIsAtPath'
<1> SUFFICES ASSUME LockIsAtPath, lockFile \in Nat, made \in Nat, [Next]_vars
             PROVE  LockIsAtPath'
  OBVIOUS
<1>1. ASSUME NEW p \in Pollers, Guard!Enter(p), UNCHANGED layout PROVE LockIsAtPath'
  BY <1>1 DEF Guard!Enter, layout, LockIsAtPath
<1>2. ASSUME NEW p \in Pollers, Guard!Exit(p), UNCHANGED layout PROVE LockIsAtPath'
  BY <1>2 DEF Guard!Exit, layout, LockIsAtPath
<1>3. CASE UNCHANGED guard
  BY <1>3 DEF guard, layout, LockIsAtPath
<1>4. CASE Restart
  BY <1>4 DEF Restart, layout, LockIsAtPath
<1>5. InstallStep => UNCHANGED guard
  BY DEF InstallStep, BeginInstall, InitializeRuntime, ManageSkill, RemoveTree, SetAside, Place,
         WriteSidecar, WriteUnit, Reload, Enable, WriteMarker
<1>6. UninstallStep => UNCHANGED guard \/ RemoveData
  BY DEF UninstallStep, BeginUninstall, StopUnit, RemoveUnit, RemoveSkill, RemoveSkillTree,
         RemoveSidecar, ReloadRemoved, RemoveMarker
<1>7. FailureStep => UNCHANGED guard
  BY DEF FailureStep, RefuseSkill, Fail, FailCopy, FailHalfway, FailListener, RollBack, Die
<1>8. Environment => \/ UNCHANGED guard
                     \/ Restart
                     \/ \E p \in Pollers : (Guard!Enter(p) \/ Guard!Exit(p)) /\ UNCHANGED layout
  BY DEF Environment, StartScheduler, SchedulerEnds, Poll, EditSkill, EditUnit
<1>9. CASE RemoveData
  BY <1>9 DEF RemoveData, layout, LockIsAtPath
<1> QED
  BY <1>1, <1>2, <1>3, <1>4, <1>5, <1>6, <1>7, <1>8, <1>9 DEF Next, vars
-----------------------------------------------------------------------------
(***************************************************************************)
(* Types.  A command is at one of two skill directories, at one of three     *)
(* units, or at no place in particular.                                     *)
(***************************************************************************)
SkillLabels == {"skill", "rmtree", "rmtree-rest", "set-aside", "place", "sidecar",
                "remove-skill", "rmtree-remove-sidecar", "rmtree-next-skill",
                "remove-sidecar", "next-skill"}

SingleLabels == {"idle", "runtime", "reload", "enable-timer", "enable-listener", "marker",
                 "rollback-timer", "rollback-listener", "reload-removed", "remove-marker",
                 "data"}

SystemdType ==
  /\ unit \in [UnitNames -> Roots \cup {"none", "foreign"}]
  /\ loaded \in [UnitNames -> Roots \cup {"none", "foreign"}]
  /\ enabled \subseteq EnabledUnits /\ active \subseteq UnitNames
  /\ marker \in BOOLEAN

SkillsType ==
  /\ entry \in [SkillDirs -> Entries]
  /\ sidecar \in [SkillDirs -> Roots \cup {"none"}]
  /\ owner \in [SkillDirs -> {"runtasks", "operator"}]

CommandType ==
  /\ pc \in Labels /\ at \in 1..3 /\ root \in Roots
  /\ pc \in SkillLabels => at \in 1..2
  /\ pc \in SingleLabels => at = 1
  /\ mode \in [SkillDirs -> {"link", "copy"}]
  /\ fresh \in BOOLEAN
  /\ aside \in [entry : Entries, owner : {"runtasks", "operator"}]
  /\ chosen \subseteq UnitNames /\ late \subseteq UnitNames /\ outcome \in Outcomes

BoundsType ==
  /\ dataAt \in {"apart", "locks", "link"} /\ unlinked \in BOOLEAN
  /\ lockFile \in Nat /\ made \in Nat /\ holds \in [Pollers -> Nat]
  /\ deaths \in Nat /\ faults \in Nat /\ edits \in Nat

TypeInv == SystemdType /\ SkillsType /\ CommandType /\ BoundsType

LEMMA TypeInit == Init => TypeInv
<1> SUFFICES ASSUME Init PROVE TypeInv
  OBVIOUS
<1>1. SystemdType
  BY DEF Init, SystemdType
<1>2. SkillsType
  BY EntryFacts DEF Init, SkillsType
<1>3. CommandType
  BY EntryFacts DEF Init, CommandType, Labels, SkillLabels, SingleLabels, Outcomes, Nothing
<1>4. BoundsType
  BY DEF Init, Guard!GuardInit, BoundsType
<1> QED
  BY <1>1, <1>2, <1>3, <1>4 DEF TypeInv

LEMMA KindFacts ==
  ASSUME SkillsType, NEW s \in SkillDirs, NEW r \in Roots
  PROVE  /\ Kind(s, r) \in {"missing", "unmanaged", "link", "matching", "copy"}
         /\ Kind(s, r) = "missing" <=> entry[s] = Missing
         /\ Kind(s, r) = "link" => entry[s].is = "link" /\ entry[s].source = sidecar[s]
         /\ Kind(s, r) = "matching" => entry[s] = Link(r)
         /\ Kind(s, r) = "copy" => entry[s].is = "copy"
<1>1. PICK e \in Entries : e = entry[s]
  BY DEF SkillsType
<1>2. CASE e = Missing
  BY <1>1, <1>2, EntryFacts DEF Kind
<1>3. CASE e \in {Foreign, Remnant}
  BY <1>1, <1>3, EntryFacts DEF Kind
<1>4. ASSUME NEW q \in Roots, e = Link(q)
      PROVE  /\ Kind(s, r) \in {"link", "matching", "unmanaged"}
             /\ Kind(s, r) = "link" => sidecar[s] = q
             /\ Kind(s, r) = "matching" => q = r
  BY <1>1, <1>4, EntryFacts DEF Kind, SidecarIsManaged
<1>5. ASSUME NEW q \in Roots, e = Copy(q)
      PROVE  Kind(s, r) \in {"copy", "unmanaged"}
  BY <1>1, <1>5, EntryFacts DEF Kind, SidecarIsManaged
<1> QED
  BY <1>1, <1>2, <1>3, <1>4, <1>5, EntryFacts
(* A step of a command goes to a label at a place.                         *)
Arrives(label) ==
  /\ pc' = label /\ at' \in 1..3
  /\ label \in SkillLabels => at' \in 1..2
  /\ label \in SingleLabels => at' = 1

LEMMA EndedType ==
  ASSUME CommandType, NEW how \in Outcomes, Ended(how)
  PROVE  CommandType'
  BY EntryFacts DEF CommandType, Ended, Goto, Labels, SkillLabels, SingleLabels, Nothing

LEMMA StayType ==
  ASSUME CommandType, Stay, NEW label \in Labels, Arrives(label)
  PROVE  CommandType'
  BY DEF CommandType, Stay, Arrives

LEMMA GotoArrives ==
  ASSUME CommandType, NEW label \in Labels, Goto(label), UNCHANGED at,
         \/ pc \in SkillLabels /\ label \in SkillLabels
         \/ pc \in SingleLabels
  PROVE  Arrives(label)
<1>1. pc' = label /\ at' = at /\ at \in 1..3
  BY DEF Goto, CommandType
<1>2. CASE pc \in SkillLabels /\ label \in SkillLabels
  <2>1. label \notin SingleLabels
    BY <1>2 DEF SkillLabels, SingleLabels
  <2> QED
    BY <1>1, <1>2, <2>1 DEF Arrives, CommandType
<1>3. CASE pc \in SingleLabels
  BY <1>1, <1>3 DEF Arrives, CommandType
<1> QED
  BY <1>2, <1>3

LEMMA NextSkillArrives ==
  ASSUME CommandType, pc \in SkillLabels, NEW label, NEW after, NextSkill(label, after),
         label \in SkillLabels, label \notin SingleLabels
  PROVE  Arrives(label) \/ Arrives(after)
  BY Places DEF CommandType, NextSkill, Goto, Arrives

LEMMA AdvanceArrives ==
  ASSUME CommandType, pc \in {"units", "stop", "remove-units"}, NEW label,
         Advance(3, label)
  PROVE  Arrives(pc) \/ Arrives(label)
  BY DEF CommandType, Advance, Goto, Arrives, SkillLabels, SingleLabels

LEMMA Unmoved ==
  ASSUME TypeInv, CommandType'
  PROVE  UNCHANGED <<systemd, skills, guard, bounds>> => TypeInv'
  BY DEF systemd, skills, guard, layout, bounds, TypeInv, SystemdType, SkillsType, BoundsType

LEMMA InstallType == TypeInv /\ InstallStep => TypeInv'
<1> SUFFICES ASSUME TypeInv, InstallStep PROVE TypeInv'
  OBVIOUS
<1>0. SystemdType /\ SkillsType /\ CommandType /\ BoundsType
  BY DEF TypeInv
<1>1. ASSUME NEW r \in Roots, BeginInstall(r) PROVE TypeInv'
  <2>1. \A agents, follows : ModeFor(agents, follows) \in {"link", "copy"}
    BY DEF ModeFor
  <2>2. mode' \in [SkillDirs -> {"link", "copy"}] /\ pc' = "runtime" /\ at' = 1
    BY <1>0, <1>1, <2>1 DEF BeginInstall, Goto, CommandType, SingleLabels
  <2>3. CommandType'
    BY <1>0, <1>1, <2>2
       DEF BeginInstall, CommandType, Labels, SkillLabels, SingleLabels, Outcomes, MarkerIsManaged
  <2> QED
    BY <1>1, <2>3, Unmoved DEF BeginInstall
<1>2. CASE InitializeRuntime
  <2>1. Arrives("skill") /\ "skill" \in Labels
    BY <1>0, <1>2 DEF InitializeRuntime, Goto, Arrives, CommandType, Labels, SkillLabels, SingleLabels
  <2> QED
    BY <1>0, <1>2, <2>1, StayType, Unmoved DEF InitializeRuntime
<1>3. CASE ManageSkill
  <2>1. pc \in SkillLabels /\ {"skill", "place", "set-aside", "rmtree", "sidecar"} \subseteq SkillLabels
        /\ "skill" \notin SingleLabels
    BY <1>3 DEF ManageSkill, SkillLabels, SingleLabels
  <2>2. {"skill", "place", "set-aside", "rmtree", "sidecar", "units"} \subseteq Labels
    BY DEF Labels
  <2>3. Dir \in SkillDirs /\ mode[Dir] \in {"link", "copy"} /\ root \in Roots
    BY <1>0, <2>1, Places DEF Dir, SkillDirs, CommandType
  <2>4. Kind(Dir, root) \in {"missing", "link", "matching", "copy"}
    BY <1>0, <1>3, <2>3, KindFacts DEF ManageSkill, MayManage
  <2>5. \/ NextSkill("skill", "units")
        \/ \E l \in {"place", "set-aside", "rmtree", "sidecar"} : Goto(l) /\ UNCHANGED at
    BY <1>3, <2>3, <2>4 DEF ManageSkill
  <2>6. \E l \in Labels : Arrives(l)
    BY <1>0, <2>1, <2>2, <2>5, NextSkillArrives, GotoArrives
  <2> QED
    BY <1>0, <1>3, <2>6, StayType, Unmoved DEF ManageSkill
<1>4. CASE RemoveTree
  <2>1. \E l \in SkillLabels \cap Labels : Goto(l) /\ UNCHANGED at
    BY <1>4 DEF RemoveTree, SkillLabels, Labels
  <2>2. CommandType'
    BY <1>0, <1>4, <2>1, GotoArrives, StayType DEF RemoveTree, SkillLabels
  <2> QED
    BY <1>0, <1>4, <2>2, EntryFacts
       DEF RemoveTree, TypeInv, systemd, guard, layout, bounds, SystemdType, SkillsType, BoundsType
<1>5. CASE SetAside
  <2>1. Dir \in SkillDirs
    BY <1>0, <1>5, Places DEF SetAside, Dir, SkillDirs, CommandType, SkillLabels
  <2>2. CommandType'
    BY <1>0, <1>5, <2>1
       DEF SetAside, Goto, CommandType, Labels, SkillLabels, SingleLabels, SkillsType
  <2> QED
    BY <1>0, <1>5, <2>2, EntryFacts
       DEF SetAside, TypeInv, systemd, guard, layout, bounds, SystemdType, SkillsType, BoundsType
<1>6. CASE Place
  <2>1. CommandType'
    <3>1. Arrives("sidecar") /\ "sidecar" \in Labels
      BY <1>0, <1>6 DEF Place, Goto, Arrives, CommandType, SkillLabels, SingleLabels, Labels
    <3> QED
      BY <1>0, <1>6, <3>1, StayType DEF Place
  <2> QED
    BY <1>0, <1>6, <2>1, EntryFacts
       DEF Place, TypeInv, systemd, guard, layout, bounds, SystemdType, SkillsType, BoundsType, CommandType
<1>7. CASE WriteSidecar
  <2>1. Arrives("skill") \/ Arrives("units")
    BY <1>0, <1>7, NextSkillArrives DEF WriteSidecar, SkillLabels, SingleLabels
  <2>2. CommandType'
    BY <1>0, <1>7, <2>1, EntryFacts DEF WriteSidecar, Arrives, CommandType, Labels, Nothing
  <2> QED
    BY <1>0, <1>7, <2>2
       DEF WriteSidecar, TypeInv, systemd, guard, layout, bounds, SystemdType, SkillsType, BoundsType,
           CommandType
<1>8. CASE WriteUnit
  <2>1. Arrives("units") \/ Arrives("reload")
    BY <1>0, <1>8, AdvanceArrives, Places DEF WriteUnit
  <2>2. CommandType'
    BY <1>0, <1>8, <2>1, StayType DEF WriteUnit, Labels
  <2> QED
    BY <1>0, <1>8, <2>2
       DEF WriteUnit, TypeInv, skills, guard, layout, bounds, SystemdType, SkillsType, BoundsType,
           CommandType
<1>9. CASE Reload
  BY <1>0, <1>9
     DEF Reload, Goto, Stay, TypeInv, CommandType, Labels, SkillLabels, SingleLabels, skills,
         guard, layout, bounds, SystemdType, SkillsType, BoundsType
<1>10. ASSUME NEW u \in EnabledUnits, Enable(u) PROVE TypeInv'
  BY <1>0, <1>10
     DEF Enable, Goto, Stay, TypeInv, CommandType, Labels, SkillLabels, SingleLabels, skills,
         guard, layout, bounds, SystemdType, SkillsType, BoundsType, EnabledUnits, UnitNames
<1>11. CASE WriteMarker
  <2>1. CommandType'
    BY <1>0, <1>11, EndedType DEF WriteMarker, Outcomes
  <2> QED
    BY <1>0, <1>11, <2>1
       DEF WriteMarker, TypeInv, skills, guard, layout, bounds, SystemdType, SkillsType, BoundsType
<1> QED
  BY <1>1, <1>2, <1>3, <1>4, <1>5, <1>6, <1>7, <1>8, <1>9, <1>10, <1>11 DEF InstallStep
LEMMA UninstallType == TypeInv /\ UninstallStep => TypeInv'
<1> SUFFICES ASSUME TypeInv, UninstallStep PROVE TypeInv'
  OBVIOUS
<1>0. SystemdType /\ SkillsType /\ CommandType /\ BoundsType
  BY DEF TypeInv
<1>1. ASSUME NEW r \in Roots, BeginUninstall(r) PROVE TypeInv'
  <2>1. CommandType'
    BY <1>0, <1>1
       DEF BeginUninstall, Goto, CommandType, Labels, SkillLabels, SingleLabels, Outcomes
  <2> QED
    BY <1>1, <2>1, Unmoved DEF BeginUninstall
<1>2. CASE StopUnit
  <2>1. Arrives("stop") \/ Arrives("remove-units")
    BY <1>0, <1>2, AdvanceArrives, Places DEF StopUnit
  <2>2. CommandType'
    BY <1>0, <1>2, <2>1, StayType DEF StopUnit, Labels
  <2> QED
    BY <1>0, <1>2, <2>2
       DEF StopUnit, TypeInv, skills, guard, layout, bounds, SystemdType, SkillsType, BoundsType
<1>3. CASE RemoveUnit
  <2>1. Arrives("remove-units") \/ Arrives("remove-skill")
    BY <1>0, <1>3, AdvanceArrives, Places DEF RemoveUnit
  <2>2. CommandType'
    BY <1>0, <1>3, <2>1, StayType DEF RemoveUnit, Labels
  <2> QED
    BY <1>0, <1>3, <2>2
       DEF RemoveUnit, TypeInv, skills, guard, layout, bounds, SystemdType, SkillsType, BoundsType
<1>4. CASE RemoveSkill
  <2>1. \E l \in {"remove-sidecar", "next-skill", "rmtree-remove-sidecar", "rmtree-next-skill"} :
          /\ Goto(l) /\ UNCHANGED at
          /\ entry' \in {entry, [entry EXCEPT ![Dir] = Missing], [entry EXCEPT ![Dir] = Remnant]}
    BY <1>4 DEF RemoveSkill
  <2>2. pc = "remove-skill" /\ Stay
    BY <1>4 DEF RemoveSkill
  <2>3. CommandType'
    BY <1>0, <2>1, <2>2, GotoArrives, StayType DEF SkillLabels, Labels
  <2> QED
    BY <1>0, <1>4, <2>1, <2>3, EntryFacts
       DEF RemoveSkill, TypeInv, systemd, guard, layout, bounds, SystemdType, SkillsType, BoundsType
<1>5. CASE RemoveSkillTree
  <2>1. \E l \in {"remove-sidecar", "next-skill"} : Goto(l) /\ UNCHANGED at
    BY <1>5 DEF RemoveSkillTree
  <2>2. CommandType'
    BY <1>0, <1>5, <2>1, GotoArrives, StayType DEF RemoveSkillTree, SkillLabels, Labels
  <2> QED
    BY <1>0, <1>5, <2>2, EntryFacts
       DEF RemoveSkillTree, TypeInv, systemd, guard, layout, bounds, SystemdType, SkillsType, BoundsType
<1>6. CASE RemoveSidecar
  <2>1. Arrives("remove-skill") \/ Arrives("reload-removed")
    BY <1>0, <1>6, NextSkillArrives DEF RemoveSidecar, SkillLabels, SingleLabels
  <2>2. CommandType'
    BY <1>0, <1>6, <2>1, StayType DEF RemoveSidecar, Labels
  <2> QED
    BY <1>0, <1>6, <2>2
       DEF RemoveSidecar, TypeInv, systemd, guard, layout, bounds, SystemdType, SkillsType, BoundsType
<1>7. CASE ReloadRemoved
  BY <1>0, <1>7
     DEF ReloadRemoved, Goto, Stay, TypeInv, CommandType, Labels, SkillLabels, SingleLabels, skills,
         guard, layout, bounds, SystemdType, SkillsType, BoundsType
<1>8. CASE RemoveMarker
  <2>1. CASE Goto("data") /\ UNCHANGED at /\ Stay
    <3>1. Arrives("data") /\ "data" \in Labels
      BY <1>0, <1>8, <2>1
         DEF RemoveMarker, Goto, Arrives, CommandType, Labels, SkillLabels, SingleLabels
    <3> QED
      BY <1>0, <1>8, <2>1, <3>1, StayType
         DEF RemoveMarker, TypeInv, skills, guard, layout, bounds, SystemdType, SkillsType, BoundsType
  <2>2. CASE Ended("uninstalled")
    BY <1>0, <1>8, <2>2, EndedType
       DEF RemoveMarker, Outcomes, TypeInv, skills, guard, layout, bounds, SystemdType, SkillsType,
           BoundsType
  <2> QED
    BY <1>8, <2>1, <2>2 DEF RemoveMarker
<1>9. CASE RemoveData
  <2>1. CommandType'
    BY <1>0, <1>9, EndedType DEF RemoveData, Outcomes
  <2>2. /\ UNCHANGED <<systemd, skills, made, holds, bounds>>
        /\ \/ lockFile' = 0 /\ dataAt' = "locks" /\ unlinked' = TRUE
           \/ UNCHANGED <<lockFile, dataAt, unlinked>>
    BY <1>9 DEF RemoveData, layout
  <2>3. /\ lockFile' \in Nat /\ dataAt' \in {"apart", "locks", "link"}
        /\ unlinked' \in BOOLEAN
    <3>1. CASE lockFile' = 0 /\ dataAt' = "locks" /\ unlinked' = TRUE
      <4>1. unlinked' \in BOOLEAN
        BY <3>1, Zenon
      <4> QED
        BY <3>1, <4>1
    <3>2. CASE UNCHANGED <<lockFile, dataAt, unlinked>>
      <4>1. unlinked' \in BOOLEAN
        BY <1>0, <3>2, Zenon DEF BoundsType
      <4> QED
        BY <1>0, <3>2, <4>1 DEF BoundsType
    <3> QED
      BY <2>2, <3>1, <3>2
  <2>4. BoundsType'
    BY <1>0, <2>2, <2>3 DEF bounds, BoundsType
  <2> QED
    BY <1>0, <2>1, <2>2, <2>4 DEF TypeInv, systemd, skills, SystemdType, SkillsType
<1> QED
  BY <1>1, <1>2, <1>3, <1>4, <1>5, <1>6, <1>7, <1>8, <1>9 DEF UninstallStep

LEMMA FailureType == TypeInv /\ FailureStep => TypeInv'
<1> SUFFICES ASSUME TypeInv, FailureStep PROVE TypeInv'
  OBVIOUS
<1>0. SystemdType /\ SkillsType /\ CommandType /\ BoundsType
  BY DEF TypeInv
<1>1. Ended("failed") => CommandType'
  BY <1>0, EndedType DEF Outcomes
<1>2. Failing => faults' \in Nat /\ UNCHANGED <<deaths, edits>>
  BY <1>0 DEF Failing, BoundsType
<1>3. CASE RefuseSkill
  BY <1>1, <1>3, Unmoved DEF RefuseSkill
<1>4. CASE Fail
  BY <1>0, <1>1, <1>2, <1>4
     DEF Fail, TypeInv, systemd, skills, guard, layout, SystemdType, SkillsType, BoundsType
<1>5. CASE FailCopy
  <2>1. aside.entry \in Entries /\ aside.owner \in {"runtasks", "operator"}
    BY <1>0 DEF CommandType
  <2> QED
    BY <1>0, <1>1, <1>2, <1>5, <2>1
       DEF FailCopy, TypeInv, systemd, guard, layout, SystemdType, SkillsType, BoundsType
<1>6. CASE FailHalfway
  BY <1>0, <1>1, <1>2, <1>6
     DEF FailHalfway, TypeInv, skills, guard, layout, SystemdType, SkillsType, BoundsType, EnabledUnits
<1>7. CASE FailListener
  <2>1. CommandType'
    <3>1. CASE Goto("rollback-timer") /\ UNCHANGED at /\ Stay
      <4>1. Arrives("rollback-timer") /\ "rollback-timer" \in Labels
        BY <1>0, <1>7, <3>1
           DEF FailListener, Goto, Arrives, CommandType, Labels, SkillLabels, SingleLabels
      <4> QED
        BY <1>0, <3>1, <4>1, StayType
    <3> QED
      BY <1>1, <1>7, <3>1 DEF FailListener
  <2> QED
    BY <1>0, <1>2, <1>7, <2>1
       DEF FailListener, TypeInv, skills, guard, layout, SystemdType, SkillsType, BoundsType, EnabledUnits
<1>8. ASSUME NEW u \in EnabledUnits, RollBack(u) PROVE TypeInv'
  <2>1. CommandType'
    <3>1. CASE Goto("rollback-listener") /\ UNCHANGED at /\ Stay
      <4>1. Arrives("rollback-listener") /\ "rollback-listener" \in Labels
        BY <1>0, <1>8, <3>1
           DEF RollBack, Goto, Arrives, CommandType, Labels, SkillLabels, SingleLabels
      <4> QED
        BY <1>0, <3>1, <4>1, StayType
    <3> QED
      BY <1>1, <1>8, <3>1 DEF RollBack
  <2>2. BoundsType' /\ SystemdType'
    BY <1>0, <1>2, <1>8
       DEF RollBack, guard, layout, bounds, SystemdType, BoundsType, EnabledUnits, UnitNames
  <2> QED
    BY <1>0, <1>8, <2>1, <2>2 DEF RollBack, TypeInv, skills, SkillsType
<1>9. CASE Die
  BY <1>0, <1>1, <1>9
     DEF Die, TypeInv, systemd, skills, guard, layout, SystemdType, SkillsType, BoundsType
<1> QED
  BY <1>3, <1>4, <1>5, <1>6, <1>7, <1>8, <1>9 DEF FailureStep

LEMMA EnvironmentType == TypeInv /\ Environment => TypeInv'
<1> SUFFICES ASSUME TypeInv, Environment PROVE TypeInv'
  OBVIOUS
<1>0. SystemdType /\ SkillsType /\ CommandType /\ BoundsType
  BY DEF TypeInv
<1>1. UNCHANGED command => CommandType'
  BY <1>0 DEF command, CommandType
<1>2. CASE StartScheduler \/ SchedulerEnds
  BY <1>0, <1>1, <1>2
     DEF StartScheduler, SchedulerEnds, TypeInv, skills, guard, layout, bounds, SystemdType, SkillsType,
         BoundsType, UnitNames
<1>3. CASE Restart
  <2>1. CommandType'
    BY <1>0, <1>1, <1>3, EndedType DEF Restart, Outcomes
  <2>2. SystemdType'
    BY <1>0, <1>3 DEF Restart, SystemdType, EnabledUnits, UnitNames
  <2>3. SkillsType'
    BY <1>0, <1>3 DEF Restart, skills, SkillsType
  <2>4. BoundsType'
    BY <1>0, <1>3 DEF Restart, layout, BoundsType
  <2> QED
    BY <2>1, <2>2, <2>3, <2>4 DEF TypeInv
<1>4. ASSUME NEW p \in Pollers, Poll(p) PROVE TypeInv'
  <2>1. lockFile' \in Nat /\ made' \in Nat /\ holds' \in [Pollers -> Nat]
    BY <1>0, <1>4 DEF Poll, Guard!Enter, Guard!Exit, BoundsType
  <2> QED
    BY <1>0, <1>1, <1>4, <2>1
       DEF Poll, TypeInv, systemd, skills, layout, bounds, SystemdType, SkillsType, BoundsType
<1>5. ASSUME NEW s \in SkillDirs, EditSkill(s) PROVE TypeInv'
  <2>1. CommandType'
    BY <1>0, <1>5 DEF EditSkill, CommandType, Outcomes
  <2>2. SkillsType' /\ edits' \in Nat
    BY <1>0, <1>5, EntryFacts DEF EditSkill, SkillsType, BoundsType
  <2> QED
    BY <1>0, <1>5, <2>1, <2>2 DEF EditSkill, TypeInv, systemd, guard, layout, SystemdType, BoundsType
<1>6. ASSUME NEW u \in UnitNames, EditUnit(u) PROVE TypeInv'
  <2>1. CommandType'
    BY <1>0, <1>6 DEF EditUnit, CommandType, Outcomes
  <2>2. SystemdType' /\ edits' \in Nat
    BY <1>0, <1>6 DEF EditUnit, SystemdType, BoundsType
  <2> QED
    BY <1>0, <1>6, <2>1, <2>2 DEF EditUnit, TypeInv, skills, guard, layout, SkillsType, BoundsType
<1> QED
  BY <1>2, <1>3, <1>4, <1>5, <1>6 DEF Environment

LEMMA TypeStep == TypeInv /\ [Next]_vars => TypeInv'
<1>1. TypeInv /\ UNCHANGED vars => TypeInv'
  BY Unmoved DEF TypeInv, vars, command, CommandType
<1> QED
  BY <1>1, InstallType, UninstallType, FailureType, EnvironmentType DEF Next

(* Installation's state stays in its types, for any roots and agents.       *)
THEOREM InstallationTypes == Spec => []TypeOK
<1>1. TypeInv => TypeOK
  BY DEF TypeInv, SystemdType, SkillsType, CommandType, BoundsType, TypeOK
<1> QED
  BY TypeInit, TypeStep, <1>1, PTL DEF Spec

(* telegram_lock.py and installation.py:1093-1117: one process polls the bot  *)
(* token wherever the data directory is, although an uninstallation deletes  *)
(* it, until a data directory that is a link at the locks' path is removed.  *)
THEOREM OneProcessPolls == Spec => []OnePoller
<1>1. TypeInv => lockFile \in Nat /\ made \in Nat
  BY DEF TypeInv, BoundsType
<1>2. LockIsAtPath => OnePoller
  BY DEF LockIsAtPath, OnePoller, Guard!OnePoller
<1> QED
  BY TypeInit, TypeStep, LockInit, LockStep, <1>1, <1>2, PTL DEF Spec
-----------------------------------------------------------------------------
(***************************************************************************)
(* Units.  A unit file is missing only when the operator's timer or listener *)
(* runs, or nothing does: an uninstallation deletes unit files only after it *)
(* has stopped the timer, then the listener, then the scheduler, each of     *)
(* which had a unit file of RunTasks' when the uninstallation began.         *)
(***************************************************************************)
Running  == active \cup enabled
Starters == {v \in active \cap EnabledUnits : unit[v] = "foreign"}

Reachable ==
  /\ \A u \in Running \ {"scheduler"} : unit[u] # "none"
  /\ unit["scheduler"] = "none" =>
       /\ \A u \in Running \ {"scheduler"} : unit[u] = "foreign"
       /\ "scheduler" \in Running => Starters # {}

(* What is left to run is the operator's.                                  *)
OperatorsOnly ==
  \A u \in Running : unit[u] = "foreign" \/ (u = "scheduler" /\ Starters # {})

ActivationLabels == {"reload", "enable-timer", "enable-listener", "marker",
                     "rollback-timer", "rollback-listener"}

RemovalLabels == {"remove-skill", "rmtree-remove-sidecar", "rmtree-next-skill",
                  "remove-sidecar", "next-skill", "reload-removed", "remove-marker", "data"}

InstallLabels == {"runtime", "skill", "rmtree", "rmtree-rest", "set-aside", "place",
                  "sidecar", "units"}

UnitsWritten ==
  /\ pc \in InstallLabels => \A u \in UnitNames : unit[u] = "foreign" => u \in late
  /\ pc = "units" => \A i \in 1..(at - 1) : unit[Units[i]] = root
  /\ pc \in ActivationLabels => \A u \in UnitNames : unit[u] = root

UnitsStopped ==
  /\ pc = "stop" => /\ chosen = {u \in UnitNames : unit[u] \in Roots}
                    /\ at \in {2, 3} /\ "timer" \in Running => unit["timer"] = "foreign"
                    /\ at = 3 /\ "listener" \in Running => unit["listener"] = "foreign"
  /\ pc = "remove-units" => /\ OperatorsOnly
                            /\ \A i \in 1..(at - 1) : unit[Units[i]] \notin Roots
  /\ pc \in RemovalLabels => OperatorsOnly /\ \A u \in UnitNames : unit[u] \notin Roots
  /\ outcome = "uninstalled" => /\ pc = "idle" /\ OperatorsOnly
                                /\ \A u \in UnitNames : unit[u] \notin Roots

UnitInv == Reachable /\ UnitsWritten /\ UnitsStopped

LEMMA LabelFacts ==
  /\ InstallLabels \cap (ActivationLabels \cup RemovalLabels \cup {"idle", "stop", "remove-units"}) = {}
  /\ ActivationLabels \cap (RemovalLabels \cup {"idle", "stop", "remove-units"}) = {}
  /\ RemovalLabels \cap {"idle", "stop", "remove-units"} = {}
  /\ "units" \in InstallLabels
  BY DEF InstallLabels, ActivationLabels, RemovalLabels

LEMMA UnitFacts ==
  /\ UnitNames = EnabledUnits \cup {"scheduler"} /\ EnabledUnits = {"timer", "listener"}
  /\ "scheduler" \notin EnabledUnits
  /\ SystemdType => Running \subseteq UnitNames /\ "scheduler" \notin enabled
  /\ \A r \in Roots : r \notin {"none", "foreign"}
  BY InstallationAssumption
     DEF UnitNames, EnabledUnits, Running, SystemdType, InstallationAssumption

(* What fewer running units, or unit files for all, mean.                  *)
LEMMA StillReachable ==
  ASSUME Reachable, UNCHANGED unit, Running' \subseteq Running, Starters \subseteq Starters'
  PROVE  Reachable'
  BY DEF Reachable

LEMMA RootedReachable ==
  ASSUME SystemdType', \A u \in UnitNames : unit'[u] \in Roots
  PROVE  Reachable'
<1>1. Running' \subseteq UnitNames
  BY DEF Running, SystemdType, EnabledUnits, UnitNames
<1> QED
  BY <1>1, UnitFacts DEF Reachable

LEMMA UnitInit == Init => UnitInv
<1> SUFFICES ASSUME Init PROVE UnitInv
  OBVIOUS
<1>1. Running = {} /\ pc = "idle" /\ outcome = "none"
  BY DEF Init, Running
<1> QED
  BY <1>1, LabelFacts DEF UnitInv, Reachable, UnitsWritten, UnitsStopped

(* A step of a command that touches no unit.                               *)
LEMMA UnitsUntouched ==
  ASSUME UnitInv, UNCHANGED <<unit, enabled, active, root, chosen, late, outcome>>,
         \/ UNCHANGED <<pc, at>>
         \/ pc \in InstallLabels \ {"units"} /\ pc' \in InstallLabels /\ (pc' = "units" => at' = 1)
         \/ pc \in ActivationLabels /\ pc' \in ActivationLabels
         \/ pc \in RemovalLabels /\ pc' \in RemovalLabels
  PROVE  UnitInv'
<1>0. UNCHANGED <<Running, Starters>>
  BY DEF Running, Starters
<1>1. Reachable'
  BY <1>0, StillReachable DEF UnitInv
<1>2. UNCHANGED OperatorsOnly
  BY <1>0 DEF OperatorsOnly
<1>3. CASE UNCHANGED <<pc, at>>
  BY <1>0, <1>1, <1>2, <1>3 DEF UnitInv, UnitsWritten, UnitsStopped
<1>4. CASE pc \in InstallLabels \ {"units"} /\ pc' \in InstallLabels /\ (pc' = "units" => at' = 1)
  BY <1>1, <1>2, <1>4, LabelFacts DEF UnitInv, UnitsWritten, UnitsStopped
<1>5. CASE pc \in ActivationLabels /\ pc' \in ActivationLabels
  BY <1>1, <1>2, <1>5, LabelFacts DEF UnitInv, UnitsWritten, UnitsStopped
<1>6. CASE pc \in RemovalLabels /\ pc' \in RemovalLabels
  BY <1>1, <1>2, <1>6, LabelFacts DEF UnitInv, UnitsWritten, UnitsStopped
<1> QED
  BY <1>3, <1>4, <1>5, <1>6

(* A command that ends without success.                                    *)
LEMMA UnitsAbandoned ==
  ASSUME UnitInv, Ended("failed"), UNCHANGED unit, Reachable'
  PROVE  UnitInv'
  BY LabelFacts DEF Ended, Goto, UnitInv, UnitsWritten, UnitsStopped

LEMMA InstallUnits == TypeInv /\ UnitInv /\ InstallStep => UnitInv'
<1> SUFFICES ASSUME TypeInv, UnitInv, InstallStep PROVE UnitInv'
  OBVIOUS
<1>0. SystemdType /\ CommandType /\ Reachable /\ UnitsWritten /\ UnitsStopped /\ SystemdType'
  BY InstallType DEF TypeInv, UnitInv
<1>1. ASSUME NEW r \in Roots, BeginInstall(r) PROVE UnitInv'
  <2>1. /\ UNCHANGED <<unit, enabled, active>> /\ pc' = "runtime" /\ outcome' = "none"
        /\ \A u \in UnitNames : unit[u] # "foreign"
    BY <1>1 DEF BeginInstall, Goto, systemd
  <2>2. Reachable'
    BY <1>0, <2>1, StillReachable DEF Running, Starters
  <2> QED
    BY <2>1, <2>2, LabelFacts DEF UnitInv, UnitsWritten, UnitsStopped, InstallLabels
<1>2. CASE InitializeRuntime \/ ManageSkill \/ RemoveTree \/ SetAside \/ Place \/ WriteSidecar
  <2>1. UNCHANGED <<unit, enabled, active, root, chosen, late, outcome>>
    BY <1>2 DEF InitializeRuntime, ManageSkill, RemoveTree, SetAside, Place, WriteSidecar, Stay,
                systemd
  <2>2. pc \in InstallLabels \ {"units"}
    BY <1>2 DEF InitializeRuntime, ManageSkill, RemoveTree, SetAside, Place, WriteSidecar,
                InstallLabels
  <2>3. pc' \in InstallLabels /\ (pc' = "units" => at' = 1)
    <3>1. CASE InitializeRuntime \/ RemoveTree \/ SetAside \/ Place
      BY <3>1 DEF InitializeRuntime, RemoveTree, SetAside, Place, Goto, InstallLabels
    <3>2. CASE WriteSidecar
      BY <3>2 DEF WriteSidecar, NextSkill, Goto, InstallLabels
    <3>3. CASE ManageSkill
      <4>1. Dir \in SkillDirs /\ mode[Dir] \in {"link", "copy"} /\ root \in Roots
        BY <1>0, <3>3, Places DEF ManageSkill, Dir, SkillDirs, CommandType, SkillLabels
      <4>2. Kind(Dir, root) \in {"missing", "link", "matching", "copy"}
        BY <3>3, <4>1, KindFacts DEF ManageSkill, MayManage, TypeInv
      <4>3. \/ NextSkill("skill", "units")
            \/ \E l \in {"place", "set-aside", "rmtree", "sidecar"} : Goto(l)
        BY <3>3, <4>1, <4>2 DEF ManageSkill
      <4> QED
        BY <4>3 DEF NextSkill, Goto, InstallLabels
    <3> QED
      BY <1>2, <3>1, <3>2, <3>3
  <2> QED
    BY <2>1, <2>2, <2>3, UnitsUntouched
<1>3. CASE WriteUnit
  <2>1. /\ unit' = [unit EXCEPT ![Units[at]] = root]
        /\ UNCHANGED <<enabled, active, root, late, outcome>> /\ pc = "units"
        /\ at \in 1..3 /\ root \in Roots
        /\ IF at < 3 THEN at' = at + 1 /\ pc' = pc ELSE at' = 1 /\ pc' = "reload"
    BY <1>0, <1>3, Places DEF WriteUnit, Advance, Goto, Stay, CommandType
  <2>2. Units[at] \in UnitNames /\ unit'[Units[at]] = root
        /\ \A u \in UnitNames : unit'[u] = unit[u] \/ unit'[u] = root
    BY <1>0, <2>1, Places DEF SystemdType, UnitNames
  <2>3. \A i \in 1..at : unit'[Units[i]] = root
    BY <1>0, <2>1, <2>2, Places DEF UnitsWritten, UnitNames
  <2>4. \A u \in UnitNames : unit'[u] = "foreign" => u \in late'
    BY <1>0, <2>1, <2>2, UnitFacts, LabelFacts DEF UnitsWritten
  <2>5. Reachable'
    <3>1. unit'["scheduler"] # "none"
      BY <2>1, <2>3, Places, UnitFacts
    <3>2. \A u \in Running' \ {"scheduler"} : unit'[u] # "none"
      <4>1. Running' = Running /\ Running \subseteq UnitNames
        BY <1>0, <2>1, UnitFacts DEF Running
      <4> QED
        BY <1>0, <2>1, <2>2, <4>1, UnitFacts DEF Reachable
    <3> QED
      BY <3>1, <3>2 DEF Reachable
  <2>6. UnitsWritten'
    <3>1. at = 3 => \A u \in UnitNames : unit'[u] = root
      BY <2>3, Places DEF UnitNames
    <3> QED
      BY <2>1, <2>3, <2>4, <3>1, LabelFacts DEF UnitsWritten, ActivationLabels
  <2>7. UnitsStopped'
    <3>1. pc' \notin RemovalLabels \cup {"stop", "remove-units"} /\ outcome' # "uninstalled"
      BY <1>0, <2>1 DEF UnitsStopped, RemovalLabels
    <3> QED
      BY <3>1 DEF UnitsStopped
  <2> QED
    BY <2>5, <2>6, <2>7 DEF UnitInv
<1>4. CASE Reload
  BY <1>4, UnitsUntouched DEF Reload, Goto, Stay, ActivationLabels
<1>5. ASSUME NEW u \in EnabledUnits, Enable(u) PROVE UnitInv'
  <2>1. /\ UNCHANGED <<unit, root, outcome>>
        /\ pc \in ActivationLabels /\ pc' \in ActivationLabels
    BY <1>5 DEF Enable, Goto, Stay, ActivationLabels
  <2>2. \A v \in UnitNames : unit'[v] = root /\ unit'[v] \in Roots
    BY <1>0, <2>1 DEF UnitsWritten, CommandType
  <2>3. Reachable'
    BY <1>0, <2>2, RootedReachable
  <2>4. UnitsWritten' /\ UnitsStopped'
    BY <1>0, <2>1, <2>2, LabelFacts DEF UnitsWritten, UnitsStopped
  <2> QED
    BY <2>3, <2>4 DEF UnitInv
<1>6. CASE WriteMarker
  <2>1. UNCHANGED <<unit, enabled, active>> /\ pc' = "idle" /\ outcome' = "installed"
    BY <1>6 DEF WriteMarker, Ended, Goto
  <2>2. Reachable'
    BY <1>0, <2>1, StillReachable DEF Running, Starters
  <2> QED
    BY <2>1, <2>2, LabelFacts DEF UnitInv, UnitsWritten, UnitsStopped
<1> QED
  BY <1>1, <1>2, <1>3, <1>4, <1>5, <1>6 DEF InstallStep

LEMMA UninstallUnits == TypeInv /\ UnitInv /\ UninstallStep => UnitInv'
<1> SUFFICES ASSUME TypeInv, UnitInv, UninstallStep PROVE UnitInv'
  OBVIOUS
<1>0. SystemdType /\ CommandType /\ Reachable /\ UnitsWritten /\ UnitsStopped
  BY DEF TypeInv, UnitInv
<1>1. ASSUME NEW r \in Roots, BeginUninstall(r) PROVE UnitInv'
  <2>1. /\ UNCHANGED <<unit, enabled, active>> /\ pc' = "stop" /\ at' = 1 /\ outcome' = "none"
        /\ chosen' = {u \in UnitNames : unit[u] \in Roots}
    BY <1>0, <1>1 DEF BeginUninstall, Goto, systemd, CommandType, SingleLabels
  <2>2. Reachable'
    BY <1>0, <2>1, StillReachable DEF Running, Starters
  <2> QED
    BY <2>1, <2>2, LabelFacts DEF UnitInv, UnitsWritten, UnitsStopped
<1>2. CASE StopUnit
  <2>1. PICK u : u = StopOrder[at]
    OBVIOUS
  <2>2. /\ pc = "stop" /\ UNCHANGED <<unit, chosen, outcome>> /\ at \in 1..3
        /\ IF u \in chosen THEN active' = active \ {u} /\ enabled' = enabled \ {u}
           ELSE UNCHANGED <<active, enabled>>
        /\ IF at < 3 THEN at' = at + 1 /\ pc' = pc ELSE at' = 1 /\ pc' = "remove-units"
    BY <1>0, <1>2, <2>1, Places DEF StopUnit, Advance, Goto, Stay, CommandType
  <2>3. u \in UnitNames /\ chosen = {v \in UnitNames : unit[v] \in Roots}
    BY <1>0, <2>1, <2>2, Places DEF UnitsStopped, UnitNames
  <2>4. Running' \subseteq Running /\ (u \in Running' => unit[u] \notin Roots)
    BY <2>2, <2>3 DEF Running
  <2>5. Starters' = Starters
    BY <2>2, <2>3, UnitFacts DEF Starters
  <2>6. Reachable'
    BY <1>0, <2>2, <2>4, <2>5, StillReachable
  <2>7. u \in Running' => unit[u] = "foreign" \/ (u = "scheduler" /\ Starters # {})
    <3>1. ASSUME u \in Running' PROVE unit[u] \in {"none", "foreign"}
      BY <1>0, <2>3, <2>4, <3>1 DEF SystemdType
    <3> QED
      BY <1>0, <2>4, <3>1 DEF Reachable
  <2>8. at = 3 => OperatorsOnly'
    <3>1. Running' \subseteq {"timer", "listener", "scheduler"}
      BY <1>0, <2>4, UnitFacts
    <3> QED
      BY <1>0, <2>1, <2>2, <2>4, <2>5, <2>7, <3>1, Places DEF UnitsStopped, OperatorsOnly
  <2>9. /\ at \in {1, 2} /\ "timer" \in Running' => unit["timer"] = "foreign"
        /\ at = 2 /\ "listener" \in Running' => unit["listener"] = "foreign"
    BY <1>0, <2>1, <2>2, <2>4, <2>7, Places DEF UnitsStopped
  <2>10. outcome' # "uninstalled" /\ UnitsWritten'
    BY <1>0, <2>2, LabelFacts DEF UnitsStopped, UnitsWritten
  <2>11. UnitsStopped'
    <3>1. CASE at = 3
      BY <2>2, <2>8, <2>10, <3>1, LabelFacts DEF UnitsStopped
    <3>2. CASE at \in {1, 2}
      BY <2>2, <2>3, <2>9, <2>10, <3>2, LabelFacts DEF UnitsStopped
    <3> QED
      BY <2>2, <3>1, <3>2
  <2> QED
    BY <2>6, <2>10, <2>11 DEF UnitInv
<1>3. CASE RemoveUnit
  <2>1. /\ pc = "remove-units" /\ UNCHANGED <<enabled, active, outcome>> /\ at \in 1..3
        /\ IF unit[Units[at]] \in Roots THEN unit' = [unit EXCEPT ![Units[at]] = "none"]
           ELSE unit' = unit
        /\ IF at < 3 THEN at' = at + 1 /\ pc' = pc ELSE at' = 1 /\ pc' = "remove-skill"
    BY <1>0, <1>3, Places DEF RemoveUnit, Advance, Goto, Stay, CommandType
  <2>2. OperatorsOnly /\ outcome' # "uninstalled" /\ Units[at] \in UnitNames
    BY <1>0, <2>1, Places DEF UnitsStopped, UnitNames
  <2>3. \A u \in UnitNames : unit[u] = "foreign" => unit'[u] = "foreign"
    BY <1>0, <2>1, <2>2, UnitFacts DEF SystemdType
  <2>4. OperatorsOnly'
    <3>1. Running' = Running /\ Running \subseteq UnitNames
      BY <1>0, <2>1, UnitFacts DEF Running
    <3>2. Starters \subseteq Starters'
      BY <2>1, <2>3, UnitFacts DEF Starters
    <3> QED
      BY <2>2, <2>3, <3>1, <3>2 DEF OperatorsOnly
  <2>5. \A i \in 1..at : unit'[Units[i]] \notin Roots
    BY <1>0, <2>1, Places, InstallationAssumption
       DEF UnitsStopped, SystemdType, UnitNames, InstallationAssumption
  <2>6. at = 3 => \A u \in UnitNames : unit'[u] \notin Roots
    BY <2>5, Places DEF UnitNames
  <2>7. Reachable'
    BY <2>4 DEF OperatorsOnly, Reachable
  <2>8. UnitsWritten'
    BY <2>1 DEF UnitsWritten, InstallLabels, ActivationLabels
  <2>9. UnitsStopped'
    <3>1. CASE at < 3
      BY <2>1, <2>2, <2>4, <2>5, <3>1, LabelFacts DEF UnitsStopped
    <3>2. CASE at = 3
      BY <2>1, <2>2, <2>4, <2>6, <3>2 DEF UnitsStopped
    <3> QED
      BY <2>1, <3>1, <3>2
  <2> QED
    BY <2>7, <2>8, <2>9 DEF UnitInv
<1>4. CASE RemoveSkill \/ RemoveSkillTree \/ RemoveSidecar
  <2>1. UNCHANGED <<unit, enabled, active, root, chosen, late, outcome>>
    BY <1>4 DEF RemoveSkill, RemoveSkillTree, RemoveSidecar, Stay, systemd
  <2>2. pc \in RemovalLabels /\ pc' \in RemovalLabels
    BY <1>4 DEF RemoveSkill, RemoveSkillTree, RemoveSidecar, NextSkill, Goto, RemovalLabels
  <2> QED
    BY <2>1, <2>2, UnitsUntouched
<1>5. CASE ReloadRemoved
  BY <1>5, UnitsUntouched DEF ReloadRemoved, Goto, Stay, RemovalLabels
<1>6. CASE RemoveMarker \/ RemoveData
  <2>1. /\ UNCHANGED <<unit, enabled, active>> /\ pc \in RemovalLabels
        /\ \/ pc' = "data" /\ outcome' = outcome
           \/ pc' = "idle" /\ outcome' = "uninstalled"
    BY <1>6 DEF RemoveMarker, RemoveData, Ended, Goto, Stay, systemd, RemovalLabels
  <2>2. "data" \in RemovalLabels
    BY DEF RemovalLabels
  <2>3. OperatorsOnly' /\ \A u \in UnitNames : unit'[u] \notin Roots
    BY <1>0, <2>1 DEF UnitsStopped, OperatorsOnly, Running, Starters
  <2>4. Reachable'
    BY <2>3 DEF OperatorsOnly, Reachable
  <2> QED
    BY <1>0, <2>1, <2>2, <2>3, <2>4, LabelFacts DEF UnitInv, UnitsWritten, UnitsStopped
<1> QED
  BY <1>1, <1>2, <1>3, <1>4, <1>5, <1>6 DEF UninstallStep

LEMMA FailureUnits == TypeInv /\ UnitInv /\ FailureStep => UnitInv'
<1> SUFFICES ASSUME TypeInv, UnitInv, FailureStep PROVE UnitInv'
  OBVIOUS
<1>0. /\ SystemdType /\ CommandType /\ Reachable /\ UnitsWritten /\ UnitsStopped
      /\ SystemdType'
  BY FailureType DEF TypeInv, UnitInv
<1>1. CASE RefuseSkill \/ Fail \/ FailCopy \/ Die
  <2>1. UNCHANGED <<unit, enabled, active>> /\ Ended("failed")
    BY <1>1 DEF RefuseSkill, Fail, FailCopy, Die, systemd
  <2>2. Reachable'
    BY <1>0, <2>1, StillReachable DEF Running, Starters
  <2> QED
    BY <2>1, <2>2, UnitsAbandoned
<1>2. ASSUME pc \in ActivationLabels, UNCHANGED unit PROVE Reachable'
  BY <1>0, <1>2, RootedReachable DEF UnitsWritten, CommandType
<1>3. CASE FailHalfway
  <2>1. /\ UNCHANGED <<unit, active>> /\ Ended("failed")
        /\ \/ pc \in ActivationLabels
           \/ enabled' \subseteq enabled
    BY <1>3 DEF FailHalfway, ActivationLabels
  <2>2. Reachable'
    BY <1>0, <1>2, <2>1, StillReachable DEF Running, Starters
  <2> QED
    BY <2>1, <2>2, UnitsAbandoned
<1>4. CASE FailListener \/ \E u \in EnabledUnits : RollBack(u)
  <2>1. /\ UNCHANGED unit /\ pc \in ActivationLabels
        /\ \/ Ended("failed")
           \/ /\ pc' \in {"rollback-timer", "rollback-listener"}
              /\ UNCHANGED <<root, outcome>>
    BY <1>4 DEF FailListener, RollBack, ActivationLabels, Goto, Stay, EnabledUnits
  <2>2. Reachable'
    BY <1>2, <2>1
  <2>3. CASE Ended("failed")
    BY <2>1, <2>2, <2>3, UnitsAbandoned
  <2>4. CASE pc' \in {"rollback-timer", "rollback-listener"} /\ UNCHANGED <<root, outcome>>
    <3>1. pc' \in ActivationLabels
      BY <2>4 DEF ActivationLabels
    <3>2. UnitsWritten'
      BY <1>0, <2>1, <2>4, <3>1, LabelFacts DEF UnitsWritten
    <3>3. UnitsStopped'
      BY <1>0, <2>1, <2>4, <3>1, LabelFacts DEF UnitsStopped
    <3> QED
      BY <2>2, <3>2, <3>3 DEF UnitInv
  <2> QED
    BY <2>1, <2>3, <2>4
<1> QED
  BY <1>1, <1>3, <1>4 DEF FailureStep

LEMMA EnvironmentUnits == TypeInv /\ UnitInv /\ Environment => UnitInv'
<1> SUFFICES ASSUME TypeInv, UnitInv, Environment PROVE UnitInv'
  OBVIOUS
<1>0. SystemdType /\ CommandType /\ Reachable /\ UnitsWritten /\ UnitsStopped
  BY DEF TypeInv, UnitInv
<1>1. ASSUME UNCHANGED <<unit, pc, at, root, chosen, late, outcome>>,
             Running' \ {"scheduler"} \subseteq Running,
             Reachable', OperatorsOnly => OperatorsOnly'
      PROVE  UnitInv'
  BY <1>0, <1>1 DEF UnitInv, UnitsWritten, UnitsStopped
<1>2. CASE StartScheduler
  <2>1. UNCHANGED <<unit, command, enabled>> /\ active' = active \cup {"scheduler"}
    BY <1>2 DEF StartScheduler
  <2>2. Running' = Running \cup {"scheduler"} /\ Starters' = Starters
    BY <2>1, UnitFacts DEF Running, Starters
  <2>3. PICK v \in active \cap EnabledUnits : TRUE
    BY <1>2 DEF StartScheduler, EnabledUnits
  <2>4. unit[v] = "foreign" => Starters # {}
    BY <2>3 DEF Starters
  <2>5. v \in Running \ {"scheduler"}
    BY <2>3, UnitFacts DEF Running
  <2>6. Reachable'
    BY <1>0, <2>1, <2>2, <2>4, <2>5 DEF Reachable
  <2>7. OperatorsOnly => OperatorsOnly'
    BY <2>1, <2>2, <2>4, <2>5 DEF OperatorsOnly
  <2> QED
    BY <1>1, <2>1, <2>2, <2>6, <2>7 DEF command
<1>3. CASE SchedulerEnds
  <2>1. UNCHANGED <<unit, command, enabled>> /\ active' = active \ {"scheduler"}
    BY <1>3 DEF SchedulerEnds
  <2>2. Running' \subseteq Running /\ Starters' = Starters
    BY <2>1, UnitFacts DEF Running, Starters
  <2> QED
    BY <1>0, <1>1, <2>1, <2>2, StillReachable DEF command, OperatorsOnly
<1>4. CASE Restart
  <2>1. UNCHANGED unit /\ Running' \subseteq Running \ {"scheduler"}
    BY <1>0, <1>4, UnitFacts DEF Restart, Running
  <2>2. Reachable'
    BY <1>0, <2>1 DEF Reachable
  <2>3. OperatorsOnly => OperatorsOnly'
    BY <2>1 DEF OperatorsOnly
  <2>4. CASE UNCHANGED command
    BY <1>1, <2>1, <2>2, <2>3, <2>4 DEF command
  <2> QED
    BY <1>4, <2>1, <2>2, <2>4, UnitsAbandoned DEF Restart
<1>5. ASSUME NEW p \in Pollers, Poll(p) PROVE UnitInv'
  <2>1. UNCHANGED <<unit, enabled, active, pc, at, root, chosen, late, outcome>>
    BY <1>5 DEF Poll, systemd, command
  <2> QED
    BY <2>1, UnitsUntouched
<1>6. ASSUME NEW s \in SkillDirs, EditSkill(s) PROVE UnitInv'
  <2>1. UNCHANGED <<unit, enabled, active, pc, at, root, chosen, late>> /\ outcome' = "none"
    BY <1>6 DEF EditSkill, systemd
  <2>2. Reachable' /\ (OperatorsOnly => OperatorsOnly')
    BY <1>0, <2>1, StillReachable DEF Running, Starters, OperatorsOnly
  <2> QED
    BY <1>0, <2>1, <2>2 DEF UnitInv, UnitsWritten, UnitsStopped, Running
<1>7. ASSUME NEW w \in UnitNames, EditUnit(w) PROVE UnitInv'
  <2>1. /\ pc \in {"idle", "runtime"} /\ UNCHANGED <<enabled, active, pc, at>>
        /\ unit' = [unit EXCEPT ![w] = "foreign"] /\ outcome' = "none"
        /\ late' = IF pc = "runtime" THEN late \cup {w} ELSE late
    BY <1>7 DEF EditUnit
  <2>2. Running' = Running /\ Running \subseteq UnitNames
    BY <1>0, <2>1, UnitFacts DEF Running
  <2>3. \A u \in UnitNames : unit'[u] = IF u = w THEN "foreign" ELSE unit[u]
    BY <1>0, <2>1 DEF SystemdType
  <2>4. Starters \subseteq Starters'
    BY <2>1, <2>3, UnitFacts DEF Starters
  <2>5. Reachable'
    BY <1>0, <2>2, <2>3, <2>4, UnitFacts DEF Reachable
  <2>6. UnitsWritten'
    BY <1>0, <2>1, <2>3, LabelFacts DEF UnitsWritten, InstallLabels
  <2>7. UnitsStopped'
    BY <2>1, LabelFacts DEF UnitsStopped, RemovalLabels
  <2> QED
    BY <2>5, <2>6, <2>7 DEF UnitInv
<1> QED
  BY <1>2, <1>3, <1>4, <1>5, <1>6, <1>7 DEF Environment

LEMMA UnitStep == TypeInv /\ UnitInv /\ [Next]_vars => UnitInv'
<1>1. UnitInv /\ UNCHANGED vars => UnitInv'
  BY UnitsUntouched DEF vars, systemd, command
<1> QED
  BY <1>1, InstallUnits, UninstallUnits, FailureUnits, EnvironmentUnits DEF Next

(* installation.py:219-295: whatever step a command died or failed at, a    *)
(* unit that runs or starts at login has its unit file, RunTasks' own or the *)
(* operator's, by which a later uninstallation or the operator finds it.     *)
THEOREM RunningStaysReachable == Spec => []RunningIsReachable
<1>1. TypeInv /\ UnitInv => RunningIsReachable
  BY UnitFacts
     DEF TypeInv, UnitInv, Reachable, Running, Starters, RunningIsReachable, StartedByOperators
<1> QED
  BY TypeInit, TypeStep, UnitInit, UnitStep, <1>1, PTL DEF Spec
-----------------------------------------------------------------------------
(***************************************************************************)
(* Skills.  Only RunTasks makes copies, and a command deletes or replaces    *)
(* an entry only while it is at it: a copy, or a link that its sidecar       *)
(* names.                                                                  *)
(***************************************************************************)
Copied(e) == e.is \in {"copy", "remnant"}

Ours(d) == \/ entry[d] = Missing
           \/ owner[d] = "runtasks"
           \/ entry[d].source = sidecar[d]

CopiesAreOurs ==
  /\ \A d \in SkillDirs : Copied(entry[d]) => owner[d] = "runtasks"
  /\ Copied(aside.entry) => aside.owner = "runtasks"

TreeLabels == {"rmtree", "rmtree-rest", "rmtree-remove-sidecar", "rmtree-next-skill"}

DirIsOurs ==
  /\ pc \in TreeLabels => Copied(entry[Dir])
  /\ pc \in {"set-aside", "place"} => Ours(Dir)
  /\ pc = "sidecar" /\ mode[Dir] = "copy" => owner[Dir] = "runtasks"

SkillInv == CopiesAreOurs /\ DirIsOurs

HeldLabels == TreeLabels \cup {"set-aside", "place", "sidecar"}

LEMMA NotCopied == /\ ~Copied(Missing) /\ ~Copied(Foreign) /\ ~Copied(Nothing.entry)
                   /\ \A r \in Roots : ~Copied(Link(r))
  BY EntryFacts DEF Copied, Nothing

LEMMA SkillInit == Init => SkillInv
<1> SUFFICES ASSUME Init PROVE SkillInv
  OBVIOUS
<1>1. \A d \in SkillDirs : entry[d] \in {Missing} \cup {Link(r) : r \in Roots}
  BY DEF Init
<1>2. CopiesAreOurs
  BY <1>1, NotCopied DEF Init, CopiesAreOurs
<1>3. DirIsOurs
  BY DEF Init, DirIsOurs, TreeLabels
<1> QED
  BY <1>2, <1>3 DEF SkillInv

LEMMA LetGo ==
  ASSUME SkillInv, CopiesAreOurs', pc' \notin HeldLabels
  PROVE  SkillInv'
  BY DEF SkillInv, DirIsOurs, HeldLabels

LEMMA SkillsUnmoved ==
  ASSUME SkillInv, UNCHANGED <<entry, owner>>,
         aside' = aside \/ aside' = Nothing
  PROVE  CopiesAreOurs'
  BY NotCopied DEF SkillInv, CopiesAreOurs

LEMMA SkillLabelPlace == ASSUME CommandType, pc \in SkillLabels PROVE Dir \in SkillDirs
  BY Places DEF CommandType, Dir, SkillDirs

LEMMA InstallSkills == TypeInv /\ SkillInv /\ InstallStep => SkillInv'
<1> SUFFICES ASSUME TypeInv, SkillInv, InstallStep PROVE SkillInv'
  OBVIOUS
<1>0. SkillsType /\ CommandType /\ CopiesAreOurs /\ DirIsOurs
  BY DEF TypeInv, SkillInv
<1>1. CASE \/ \E r \in Roots : BeginInstall(r)
           \/ InitializeRuntime \/ WriteSidecar \/ WriteUnit \/ Reload
           \/ (\E u \in EnabledUnits : Enable(u)) \/ WriteMarker
  <2>1. UNCHANGED <<entry, owner>> /\ (aside' = aside \/ aside' = Nothing)
    BY <1>1 DEF BeginInstall, InitializeRuntime, WriteSidecar, WriteUnit, Reload, Enable,
                WriteMarker, Ended, Stay, skills
  <2>2. pc' \notin HeldLabels
    BY <1>1 DEF BeginInstall, InitializeRuntime, WriteSidecar, WriteUnit, Reload, Enable,
                WriteMarker, Ended, Advance, NextSkill, Goto, HeldLabels, TreeLabels
  <2> QED
    BY <2>1, <2>2, SkillsUnmoved, LetGo
<1>2. CASE ManageSkill
  <2>1. Dir \in SkillDirs /\ mode[Dir] \in {"link", "copy"} /\ root \in Roots
    BY <1>0, <1>2, SkillLabelPlace DEF ManageSkill, SkillLabels, CommandType
  <2>2. /\ Kind(Dir, root) \in {"missing", "link", "matching", "copy"}
        /\ Kind(Dir, root) = "missing" <=> entry[Dir] = Missing
        /\ Kind(Dir, root) = "link" => entry[Dir].source = sidecar[Dir]
        /\ Kind(Dir, root) = "copy" => entry[Dir].is = "copy"
    BY <1>0, <1>2, <2>1, KindFacts DEF ManageSkill, MayManage
  <2>3. UNCHANGED <<entry, owner, sidecar, aside, mode>>
    BY <1>2 DEF ManageSkill, Stay, skills
  <2>4. CopiesAreOurs'
    BY <2>3, SkillsUnmoved
  <2>5. Kind(Dir, root) \in {"missing", "link", "copy"} => Ours(Dir)
    BY <1>0, <2>1, <2>2 DEF CopiesAreOurs, Copied, Ours
  <2>6. CASE Kind(Dir, root) = "matching"
    <3>1. NextSkill("skill", "units")
      BY <1>2, <2>1, <2>6 DEF ManageSkill, MayManage
    <3> QED
      BY <2>4, <3>1, LetGo DEF NextSkill, Goto, HeldLabels, TreeLabels
  <2>7. CASE Kind(Dir, root) # "matching"
    <3>1. \/ pc' \in {"place", "set-aside"} /\ UNCHANGED at
          \/ pc' = "rmtree" /\ Kind(Dir, root) = "copy" /\ UNCHANGED at
          \/ pc' = "sidecar" /\ mode[Dir] = "link" /\ UNCHANGED at
      BY <1>2, <2>1, <2>2, <2>7 DEF ManageSkill, Goto
    <3>2. Dir' = Dir
      BY <3>1 DEF Dir
    <3>3. DirIsOurs'
      BY <2>2, <2>3, <2>5, <2>7, <3>1, <3>2 DEF DirIsOurs, TreeLabels, Ours, Copied
    <3> QED
      BY <2>4, <3>3 DEF SkillInv
  <2> QED
    BY <2>6, <2>7
<1>3. CASE RemoveTree
  <2>1. /\ pc \in TreeLabels \cap SkillLabels /\ UNCHANGED <<owner, aside, at>>
        /\ \/ pc' = "rmtree-rest" /\ entry' = [entry EXCEPT ![Dir] = Remnant]
           \/ pc' = "place" /\ entry' = [entry EXCEPT ![Dir] = Missing]
    BY <1>3 DEF RemoveTree, Goto, Stay, TreeLabels, SkillLabels
  <2>2. Dir \in SkillDirs /\ Dir' = Dir
    BY <1>0, <2>1, SkillLabelPlace DEF Dir
  <2>3. CopiesAreOurs'
    BY <1>0, <2>1, <2>2, NotCopied DEF CopiesAreOurs, DirIsOurs, SkillsType
  <2>4. DirIsOurs'
    BY <1>0, <2>1, <2>2, EntryFacts DEF DirIsOurs, TreeLabels, Ours, Copied, SkillsType
  <2> QED
    BY <2>3, <2>4 DEF SkillInv
<1>4. CASE SetAside
  <2>1. /\ pc \in SkillLabels /\ pc' = "place" /\ UNCHANGED <<owner, at>>
        /\ aside' = [entry |-> entry[Dir], owner |-> owner[Dir]]
        /\ entry' = [entry EXCEPT ![Dir] = Missing]
    BY <1>4 DEF SetAside, Goto, SkillLabels
  <2>2. Dir \in SkillDirs /\ Dir' = Dir
    BY <1>0, <2>1, SkillLabelPlace DEF Dir
  <2>3. CopiesAreOurs'
    BY <1>0, <2>1, <2>2, NotCopied DEF CopiesAreOurs, SkillsType
  <2>4. DirIsOurs'
    BY <1>0, <2>1, <2>2 DEF DirIsOurs, TreeLabels, Ours, SkillsType
  <2> QED
    BY <2>3, <2>4 DEF SkillInv
<1>5. CASE Place
  <2>1. /\ pc \in SkillLabels /\ pc' = "sidecar" /\ UNCHANGED <<aside, at>>
        /\ owner' = [owner EXCEPT ![Dir] = "runtasks"]
        /\ \A d \in SkillDirs : d # Dir => entry'[d] = entry[d]
    BY <1>5 DEF Place, Goto, Stay, SkillLabels
  <2>2. Dir \in SkillDirs /\ Dir' = Dir
    BY <1>0, <2>1, SkillLabelPlace DEF Dir
  <2>3. CopiesAreOurs'
    BY <1>0, <2>1, <2>2 DEF CopiesAreOurs, SkillsType
  <2>4. DirIsOurs'
    BY <1>0, <2>1, <2>2 DEF DirIsOurs, TreeLabels, SkillsType
  <2> QED
    BY <2>3, <2>4 DEF SkillInv
<1> QED
  BY <1>1, <1>2, <1>3, <1>4, <1>5 DEF InstallStep

LEMMA UninstallSkills == TypeInv /\ SkillInv /\ UninstallStep => SkillInv'
<1> SUFFICES ASSUME TypeInv, SkillInv, UninstallStep PROVE SkillInv'
  OBVIOUS
<1>0. SkillsType /\ CommandType /\ CopiesAreOurs /\ DirIsOurs
  BY DEF TypeInv, SkillInv
<1>1. CASE \/ \E r \in Roots : BeginUninstall(r)
           \/ StopUnit \/ RemoveUnit \/ RemoveSidecar \/ ReloadRemoved \/ RemoveMarker
           \/ RemoveData
  <2>1. UNCHANGED <<entry, owner>> /\ (aside' = aside \/ aside' = Nothing)
    BY <1>1 DEF BeginUninstall, StopUnit, RemoveUnit, RemoveSidecar, ReloadRemoved,
                RemoveMarker, RemoveData, Ended, Stay, skills
  <2>2. pc' \notin HeldLabels
    BY <1>1 DEF BeginUninstall, StopUnit, RemoveUnit, RemoveSidecar, ReloadRemoved,
                RemoveMarker, RemoveData, Ended, Advance, NextSkill, Goto, HeldLabels,
                TreeLabels
  <2> QED
    BY <2>1, <2>2, SkillsUnmoved, LetGo
<1>2. CASE RemoveSkill
  <2>1. Dir \in SkillDirs /\ root \in Roots
    BY <1>0, <1>2, SkillLabelPlace DEF RemoveSkill, SkillLabels, CommandType
  <2>2. /\ UNCHANGED <<owner, aside, at>>
        /\ \/ entry' = entry /\ pc' \in {"remove-sidecar", "next-skill"}
           \/ /\ entry' = [entry EXCEPT ![Dir] = Missing]
              /\ pc' \in {"remove-sidecar", "next-skill"}
           \/ /\ Kind(Dir, root) = "copy" /\ entry' = [entry EXCEPT ![Dir] = Remnant]
              /\ pc' \in {"rmtree-remove-sidecar", "rmtree-next-skill"}
    BY <1>2 DEF RemoveSkill, Goto, Stay
  <2>3. Kind(Dir, root) = "copy" => owner[Dir] = "runtasks"
    BY <1>0, <2>1, KindFacts DEF CopiesAreOurs, Copied
  <2>4. CopiesAreOurs'
    BY <1>0, <2>1, <2>2, <2>3, NotCopied DEF CopiesAreOurs, SkillsType
  <2>5. Dir' = Dir
    BY <2>2 DEF Dir
  <2>6. DirIsOurs'
    BY <1>0, <2>1, <2>2, <2>5, EntryFacts DEF DirIsOurs, TreeLabels, Copied, SkillsType
  <2> QED
    BY <2>4, <2>6 DEF SkillInv
<1>3. CASE RemoveSkillTree
  <2>1. /\ pc \in SkillLabels /\ pc' \in {"remove-sidecar", "next-skill"}
        /\ UNCHANGED <<owner, aside>> /\ entry' = [entry EXCEPT ![Dir] = Missing]
    BY <1>3 DEF RemoveSkillTree, Goto, Stay, SkillLabels
  <2>2. CopiesAreOurs'
    BY <1>0, <2>1, SkillLabelPlace, NotCopied DEF CopiesAreOurs, SkillsType
  <2> QED
    BY <2>1, <2>2, LetGo DEF HeldLabels, TreeLabels
<1> QED
  BY <1>1, <1>2, <1>3 DEF UninstallStep

LEMMA OtherSkills == TypeInv /\ SkillInv /\ (FailureStep \/ Environment) => SkillInv'
<1> SUFFICES ASSUME TypeInv, SkillInv, FailureStep \/ Environment PROVE SkillInv'
  OBVIOUS
<1>0. SkillsType /\ CommandType /\ CopiesAreOurs /\ DirIsOurs
  BY DEF TypeInv, SkillInv
<1>1. ASSUME Ended("failed"), UNCHANGED <<entry, owner>> PROVE SkillInv'
  BY <1>1, SkillsUnmoved, LetGo DEF Ended, Goto, HeldLabels, TreeLabels
<1>2. ASSUME UNCHANGED <<entry, owner, sidecar, pc, at, mode, aside>> PROVE SkillInv'
  BY <1>0, <1>2 DEF SkillInv, CopiesAreOurs, DirIsOurs, Ours, Dir
<1>3. CASE RefuseSkill \/ Fail \/ FailHalfway \/ Die
  BY <1>1, <1>3 DEF RefuseSkill, Fail, FailHalfway, Die, skills
<1>4. CASE FailCopy
  <2>1. /\ pc \in SkillLabels /\ pc' = "idle" /\ aside' = Nothing
        /\ entry' = [entry EXCEPT ![Dir] = aside.entry]
        /\ owner' = [owner EXCEPT ![Dir] = aside.owner]
    BY <1>4 DEF FailCopy, Ended, Goto, SkillLabels
  <2>2. Dir \in SkillDirs
    BY <1>0, <2>1, SkillLabelPlace
  <2>3. CopiesAreOurs'
    BY <1>0, <2>1, <2>2, NotCopied DEF CopiesAreOurs, SkillsType
  <2> QED
    BY <2>1, <2>3, LetGo DEF HeldLabels, TreeLabels
<1>5. CASE FailListener \/ \E u \in EnabledUnits : RollBack(u)
  <2>1. /\ UNCHANGED <<entry, owner>>
        /\ \/ Ended("failed")
           \/ pc' \in {"rollback-timer", "rollback-listener"} /\ aside' = aside
    BY <1>5 DEF FailListener, RollBack, Goto, Stay, skills
  <2>2. CASE pc' \in {"rollback-timer", "rollback-listener"} /\ aside' = aside
    BY <2>1, <2>2, SkillsUnmoved, LetGo DEF HeldLabels, TreeLabels
  <2> QED
    BY <1>1, <2>1, <2>2
<1>6. CASE \/ StartScheduler \/ SchedulerEnds \/ (\E p \in Pollers : Poll(p))
           \/ (\E u \in UnitNames : EditUnit(u))
  BY <1>2, <1>6 DEF StartScheduler, SchedulerEnds, Poll, EditUnit, skills, command
<1>7. CASE Restart
  BY <1>1, <1>2, <1>7 DEF Restart, skills, command
<1>8. ASSUME NEW d \in SkillDirs, EditSkill(d) PROVE SkillInv'
  <2>1. PICK e \in {Missing, Foreign} \cup {Link(r) : r \in Roots} :
          entry' = [entry EXCEPT ![d] = e]
    BY <1>8 DEF EditSkill
  <2>2. ~Copied(e)
    BY <2>1, NotCopied
  <2>3. UNCHANGED aside /\ pc' \in {"idle", "runtime"} /\ owner' = [owner EXCEPT ![d] = "operator"]
    BY <1>8 DEF EditSkill
  <2>4. CopiesAreOurs'
    BY <1>0, <1>8, <2>1, <2>2, <2>3 DEF CopiesAreOurs, SkillsType
  <2> QED
    BY <2>3, <2>4, LetGo DEF HeldLabels, TreeLabels
<1> QED
  BY <1>3, <1>4, <1>5, <1>6, <1>7, <1>8 DEF FailureStep, Environment

LEMMA SkillStep == TypeInv /\ SkillInv /\ [Next]_vars => SkillInv'
<1>1. SkillInv /\ UNCHANGED vars => SkillInv'
  BY DEF vars, skills, command, SkillInv, CopiesAreOurs, DirIsOurs, Ours, Dir
<1> QED
  BY <1>1, InstallSkills, UninstallSkills, OtherSkills DEF Next

(* What a step takes away from a skill destination, by what the command had *)
(* made sure of.                                                           *)
LEMMA OnlyOursGoes ==
  ASSUME TypeInv, SkillInv, Next, NEW d \in SkillDirs, entry'[d] # entry[d],
         owner[d] = "operator", entry[d] # Missing
  PROVE  edits' # edits \/ sidecar[d] = entry[d].source
<1>0. SkillsType /\ CommandType /\ CopiesAreOurs /\ DirIsOurs
  BY DEF TypeInv, SkillInv
<1>1. ~Copied(entry[d])
  BY <1>0 DEF CopiesAreOurs
<1>2. ASSUME pc \in SkillLabels, NEW e, entry' = [entry EXCEPT ![Dir] = e] PROVE d = Dir
  BY <1>0, <1>2 DEF SkillsType
<1>3. CASE RemoveTree \/ RemoveSkillTree
  <2>1. pc \in TreeLabels /\ d = Dir
    BY <1>2, <1>3 DEF RemoveTree, RemoveSkillTree, TreeLabels, SkillLabels
  <2> QED
    BY <1>0, <1>1, <2>1 DEF DirIsOurs
<1>4. CASE SetAside \/ Place
  <2>1. pc \in {"set-aside", "place"} /\ d = Dir
    BY <1>2, <1>4 DEF SetAside, Place, SkillLabels
  <2> QED
    BY <1>0, <2>1 DEF DirIsOurs, Ours
<1>5. CASE FailCopy
  <2>1. /\ d = Dir /\ pc \in {"place", "sidecar"}
        /\ mode[Dir] = "copy"
    BY <1>2, <1>5 DEF FailCopy, SkillLabels
  <2> QED
    BY <1>0, <2>1 DEF DirIsOurs, Ours
<1>6. CASE RemoveSkill
  <2>1. Kind(Dir, root) \in {"link", "copy"} /\ d = Dir
    BY <1>2, <1>6 DEF RemoveSkill, SkillLabels
  <2>2. Dir \in SkillDirs /\ root \in Roots
    BY <1>0, <2>1 DEF CommandType
  <2> QED
    BY <1>0, <1>1, <2>1, <2>2, KindFacts DEF Copied
<1>7. ASSUME NEW s \in SkillDirs, EditSkill(s) PROVE edits' # edits
  BY <1>7 DEF EditSkill, TypeInv, BoundsType
<1>8. InstallStep => RemoveTree \/ SetAside \/ Place
  BY DEF InstallStep, BeginInstall, InitializeRuntime, ManageSkill, WriteSidecar, WriteUnit, Reload,
         Enable, WriteMarker, skills
<1>9. UninstallStep => RemoveSkill \/ RemoveSkillTree
  BY DEF UninstallStep, BeginUninstall, StopUnit, RemoveUnit, RemoveSidecar, ReloadRemoved,
         RemoveMarker, RemoveData, skills
<1>10. FailureStep => FailCopy
  BY DEF FailureStep, RefuseSkill, Fail, FailHalfway, FailListener, RollBack, Die, skills
<1>11. Environment => \E s \in SkillDirs : EditSkill(s)
  BY DEF Environment, StartScheduler, SchedulerEnds, Restart, Poll, EditUnit, skills
<1> QED
  BY <1>3, <1>4, <1>5, <1>6, <1>7, <1>8, <1>9, <1>10, <1>11 DEF Next

LEMMA ForeignUnitsStay ==
  ASSUME TypeInv, UnitInv, Next, NEW u \in UnitNames, unit[u] = "foreign"
  PROVE  unit'[u] = "foreign" \/ (u \in late /\ unit'[u] = root)
<1>0. SystemdType /\ UnitsWritten
  BY DEF TypeInv, UnitInv
<1>1. CASE WriteUnit
  <2>1. u \in late
    BY <1>0, <1>1, LabelFacts DEF WriteUnit, UnitsWritten
  <2>2. unit'[u] \in {unit[u], root}
    BY <1>0, <1>1 DEF WriteUnit, SystemdType
  <2> QED
    BY <2>1, <2>2
<1>2. CASE RemoveUnit
  BY <1>0, <1>2, InstallationAssumption DEF RemoveUnit, SystemdType, InstallationAssumption
<1>3. InstallStep => WriteUnit \/ UNCHANGED unit
  BY DEF InstallStep, BeginInstall, InitializeRuntime, ManageSkill, RemoveTree, SetAside, Place,
         WriteSidecar, Reload, Enable, WriteMarker, systemd
<1>4. UninstallStep => RemoveUnit \/ UNCHANGED unit
  BY DEF UninstallStep, BeginUninstall, StopUnit, RemoveSkill, RemoveSkillTree, RemoveSidecar,
         ReloadRemoved, RemoveMarker, RemoveData, systemd
<1>5. FailureStep => UNCHANGED unit
  BY DEF FailureStep, RefuseSkill, Fail, FailCopy, FailHalfway, FailListener, RollBack, Die, systemd
<1>6. ASSUME NEW w \in UnitNames, EditUnit(w) PROVE unit'[u] = "foreign"
  BY <1>0, <1>6 DEF EditUnit, SystemdType
<1>7. Environment => UNCHANGED unit \/ \E w \in UnitNames : EditUnit(w)
  BY DEF Environment, StartScheduler, SchedulerEnds, Restart, Poll, EditSkill, systemd
<1> QED
  BY <1>1, <1>2, <1>3, <1>4, <1>5, <1>6, <1>7 DEF Next

(* installation.py:157-295, 502-780: no command, complete or cut short,      *)
(* deletes a unit file that is not RunTasks', or writes over one that was    *)
(* there when it looked; one that comes later is written over.  Nor is a     *)
(* skill that the operator put in place replaced or deleted, unless a       *)
(* sidecar left behind names the operator's link.                           *)
THEOREM OperatorsKeepTheirFiles == Spec => OperatorsFilesKept
<1> DEFINE Kept == /\ \A u \in UnitNames : unit[u] = "foreign" =>
                        \/ unit'[u] = "foreign"
                        \/ u \in late /\ unit'[u] = root
                   /\ \A s \in SkillDirs :
                        owner[s] = "operator" /\ entry[s] # Missing /\ entry'[s] # entry[s]
                        => edits' # edits \/ sidecar[s] = entry[s].source
<1>1. TypeInv /\ UnitInv /\ SkillInv /\ [Next]_vars => [Kept]_vars
  BY OnlyOursGoes, ForeignUnitsStay
<1>2. Spec => [][Kept]_vars
  <2> HIDE DEF Kept
  <2> QED
    BY TypeInit, TypeStep, UnitInit, UnitStep, SkillInit, SkillStep, <1>1, PTL DEF Spec
<1> QED
  BY <1>2, PTL DEF OperatorsFilesKept
-----------------------------------------------------------------------------
(***************************************************************************)
(* A whole installation.  A command that comes to its units has put both     *)
(* skills in place, one that enables them has told systemd of all three.     *)
(***************************************************************************)
Placed(d) == entry[d] \in {Link(root), Copy(root)}

PlacingLabels == {"skill", "rmtree", "rmtree-rest", "set-aside", "place", "sidecar"}

SkillsPlaced ==
  /\ pc \in PlacingLabels /\ at = 2 => Placed("common")
  /\ pc = "sidecar" => Placed(Dir)
  /\ pc \in {"units"} \cup ActivationLabels => Placed("common") /\ Placed("claude")

UnitsEnabled ==
  /\ pc \in ActivationLabels \ {"reload"} => \A u \in UnitNames : loaded[u] = root
  /\ pc = "enable-listener" => "timer" \in enabled
  /\ pc = "marker" => enabled = EnabledUnits

InstalledWhole ==
  outcome = "installed" =>
    /\ pc = "idle"
    /\ \A u \in UnitNames : unit[u] = root /\ loaded[u] = root
    /\ enabled = EnabledUnits /\ marker /\ Placed("common") /\ Placed("claude")

WholeInv == SkillsPlaced /\ UnitsEnabled /\ InstalledWhole

LEMMA WholeInit == Init => WholeInv
  BY DEF Init, WholeInv, SkillsPlaced, UnitsEnabled, InstalledWhole, PlacingLabels,
         ActivationLabels

(* Steps that leave an installation no further than it was.                 *)
WholeLabels == PlacingLabels \cup {"units"} \cup ActivationLabels

LEMMA NotInstalling ==
  ASSUME pc' \notin WholeLabels, outcome' # "installed"
  PROVE  WholeInv'
  BY DEF WholeLabels, WholeInv, SkillsPlaced, UnitsEnabled, InstalledWhole, PlacingLabels,
         ActivationLabels

LEMMA InstallWhole == TypeInv /\ UnitInv /\ WholeInv /\ InstallStep => WholeInv'
<1> SUFFICES ASSUME TypeInv, UnitInv, WholeInv, InstallStep PROVE WholeInv'
  OBVIOUS
<1>0. /\ SystemdType /\ SkillsType /\ CommandType /\ UnitsWritten
      /\ SkillsPlaced /\ UnitsEnabled /\ InstalledWhole
  BY DEF TypeInv, UnitInv, WholeInv
<1>1. ASSUME NEW r \in Roots, BeginInstall(r) PROVE WholeInv'
  BY <1>1, NotInstalling
     DEF BeginInstall, Goto, WholeLabels, PlacingLabels, ActivationLabels
<1>2. ASSUME pc \in PlacingLabels \cup {"runtime"},
             UNCHANGED <<root, outcome, at>>, pc' \in PlacingLabels,
             pc \in PlacingLabels => \A d \in SkillDirs : d # Dir => entry'[d] = entry[d],
             pc' = "sidecar" => entry'[Dir] \in {Link(root), Copy(root)}
      PROVE  WholeInv'
  <2>1. outcome' # "installed" /\ pc' \notin {"units"} \cup ActivationLabels
    BY <1>0, <1>2 DEF InstalledWhole, PlacingLabels, ActivationLabels
  <2>2. at' = 2 => entry'["common"] = entry["common"] /\ pc \in PlacingLabels
    BY <1>0, <1>2, Places DEF Dir, SkillDirs, CommandType, SingleLabels
  <2>3. Dir' = Dir
    BY <1>2 DEF Dir
  <2>4. SkillsPlaced'
    BY <1>0, <1>2, <2>1, <2>2, <2>3 DEF SkillsPlaced, Placed
  <2>5. UnitsEnabled' /\ InstalledWhole'
    BY <2>1 DEF UnitsEnabled, InstalledWhole, ActivationLabels
  <2> QED
    BY <2>4, <2>5 DEF WholeInv
<1>3. ASSUME pc \in PlacingLabels, NextSkill("skill", "units"), Placed(Dir),
             UNCHANGED <<entry, root, outcome>>
      PROVE  WholeInv'
  <2>1. outcome' # "installed" /\ pc' \in {"skill", "units"}
    BY <1>0, <1>3 DEF InstalledWhole, PlacingLabels, NextSkill, Goto
  <2>2. at \in 1..2
    BY <1>0, <1>3 DEF CommandType, PlacingLabels, SkillLabels
  <2>3. CASE at = 1
    BY <1>0, <1>3, <2>1, <2>3, Places DEF NextSkill, Goto, Dir, WholeInv, SkillsPlaced, Placed, UnitsEnabled,
       InstalledWhole, ActivationLabels, PlacingLabels
  <2>4. CASE at = 2
    BY <1>0, <1>3, <2>1, <2>4, Places DEF NextSkill, Goto, Dir, WholeInv, SkillsPlaced, Placed, UnitsEnabled,
       InstalledWhole, ActivationLabels, PlacingLabels
  <2> QED
    BY <2>2, <2>3, <2>4
<1>4. CASE InitializeRuntime
  BY <1>2, <1>4 DEF InitializeRuntime, Goto, Stay, skills, PlacingLabels
<1>5. CASE ManageSkill
  <2>1. /\ pc = "skill" /\ UNCHANGED <<entry, root, outcome>>
        /\ Dir \in SkillDirs /\ mode[Dir] \in {"link", "copy"} /\ root \in Roots
    BY <1>0, <1>5, SkillLabelPlace DEF ManageSkill, Stay, skills, SkillLabels, CommandType
  <2>2. /\ Kind(Dir, root) \in {"missing", "link", "matching", "copy"}
        /\ Kind(Dir, root) = "matching" => entry[Dir] = Link(root) /\ mode[Dir] = "link"
    BY <1>0, <1>5, <2>1, KindFacts DEF ManageSkill, MayManage
  <2>3. CASE Kind(Dir, root) = "matching"
    BY <1>3, <1>5, <2>1, <2>2, <2>3 DEF ManageSkill, Placed, PlacingLabels
  <2>4. CASE Kind(Dir, root) # "matching"
    <3>1. /\ pc' \in PlacingLabels /\ UNCHANGED at
          /\ pc' = "sidecar" => entry[Dir] = Link(root)
      BY <1>5, <2>1, <2>2, <2>4 DEF ManageSkill, Goto, PlacingLabels
    <3> QED
      BY <1>2, <2>1, <3>1 DEF PlacingLabels
  <2> QED
    BY <2>3, <2>4
<1>6. CASE RemoveTree \/ SetAside \/ Place
  <2>1. /\ pc \in PlacingLabels \cap SkillLabels /\ pc' \in PlacingLabels
        /\ UNCHANGED <<root, outcome, at>>
        /\ \E e : entry' = [entry EXCEPT ![Dir] = e]
        /\ pc' = "sidecar" => entry' = [entry EXCEPT ![Dir] = Link(root)]
                              \/ entry' = [entry EXCEPT ![Dir] = Copy(root)]
    BY <1>6 DEF RemoveTree, SetAside, Place, Goto, Stay, PlacingLabels, SkillLabels
  <2>2. Dir \in SkillDirs
    BY <1>0, <2>1, SkillLabelPlace
  <2> QED
    BY <1>0, <1>2, <2>1, <2>2 DEF SkillsType
<1>7. CASE WriteSidecar
  BY <1>0, <1>3, <1>7 DEF WriteSidecar, SkillsPlaced, PlacingLabels
<1>8. CASE WriteUnit
  <2>1. /\ pc = "units" /\ pc' \in {"units", "reload"}
        /\ UNCHANGED <<entry, root, outcome>>
    BY <1>8 DEF WriteUnit, Advance, Goto, Stay, skills
  <2> QED
    BY <1>0, <2>1
       DEF WholeInv, SkillsPlaced, Placed, UnitsEnabled, InstalledWhole, ActivationLabels,
           PlacingLabels
<1>9. CASE Reload
  <2>1. /\ pc = "reload" /\ pc' = "enable-timer" /\ loaded' = unit
        /\ UNCHANGED <<entry, root, outcome>>
    BY <1>9 DEF Reload, Goto, Stay, skills
  <2>2. \A u \in UnitNames : unit[u] = root
    BY <1>0, <2>1 DEF UnitsWritten, ActivationLabels
  <2> QED
    BY <1>0, <2>1, <2>2
       DEF WholeInv, SkillsPlaced, Placed, UnitsEnabled, InstalledWhole, ActivationLabels,
           PlacingLabels
<1>10. ASSUME NEW u \in EnabledUnits, Enable(u) PROVE WholeInv'
  <2>1. /\ UNCHANGED <<loaded, entry, root, outcome>> /\ enabled' = enabled \cup {u}
        /\ \/ u = "timer" /\ pc = "enable-timer" /\ pc' = "enable-listener"
           \/ u = "listener" /\ pc = "enable-listener" /\ pc' = "marker"
    BY <1>10 DEF Enable, Goto, Stay, skills, EnabledUnits
  <2>2. pc' = "marker" => enabled' = EnabledUnits
    BY <1>0, <2>1 DEF UnitsEnabled, SystemdType, EnabledUnits
  <2>3. SkillsPlaced' /\ InstalledWhole'
    BY <1>0, <2>1 DEF SkillsPlaced, Placed, InstalledWhole, ActivationLabels, PlacingLabels
  <2>4. UnitsEnabled'
    BY <1>0, <2>1, <2>2 DEF UnitsEnabled, ActivationLabels
  <2> QED
    BY <2>3, <2>4 DEF WholeInv
<1>11. CASE WriteMarker
  <2>1. /\ pc = "marker" /\ pc' = "idle" /\ marker' = TRUE
        /\ UNCHANGED <<unit, loaded, enabled, entry, root>>
    BY <1>11 DEF WriteMarker, Ended, Goto, skills
  <2>2. \A u \in UnitNames : unit[u] = root /\ loaded[u] = root
    BY <1>0, <2>1 DEF UnitsWritten, UnitsEnabled, ActivationLabels
  <2>3. enabled = EnabledUnits /\ Placed("common") /\ Placed("claude")
    BY <1>0, <2>1 DEF UnitsEnabled, SkillsPlaced, ActivationLabels
  <2> QED
    BY <2>1, <2>2, <2>3
       DEF WholeInv, SkillsPlaced, Placed, UnitsEnabled, InstalledWhole, ActivationLabels,
           PlacingLabels
<1> QED
  BY <1>1, <1>4, <1>5, <1>6, <1>7, <1>8, <1>9, <1>10, <1>11 DEF InstallStep

LEMMA OtherWhole ==
  TypeInv /\ WholeInv /\ (UninstallStep \/ FailureStep \/ Environment) => WholeInv'
<1> SUFFICES ASSUME TypeInv, WholeInv, UninstallStep \/ FailureStep \/ Environment
             PROVE  WholeInv'
  OBVIOUS
<1>0. SystemdType /\ CommandType /\ SkillsPlaced /\ UnitsEnabled /\ InstalledWhole
  BY DEF TypeInv, WholeInv
<1>1. Ended("failed") \/ Ended("uninstalled") => WholeInv'
  BY NotInstalling DEF Ended, Goto, WholeLabels, PlacingLabels, ActivationLabels
<1>2. ASSUME UNCHANGED <<unit, loaded, enabled, marker, entry, command>> PROVE WholeInv'
  BY <1>0, <1>2
     DEF command, WholeInv, SkillsPlaced, Placed, Dir, UnitsEnabled, InstalledWhole
<1>3. ASSUME pc # "idle", outcome' = outcome, pc' \notin WholeLabels PROVE WholeInv'
  BY <1>0, <1>3, NotInstalling DEF InstalledWhole
<1>4. ASSUME NEW r \in Roots, BeginUninstall(r) PROVE WholeInv'
  BY <1>4, NotInstalling
     DEF BeginUninstall, Goto, WholeLabels, PlacingLabels, ActivationLabels
<1>5. CASE StopUnit \/ RemoveUnit \/ RemoveSkill \/ RemoveSkillTree \/ RemoveSidecar \/ ReloadRemoved
  BY <1>3, <1>5
     DEF StopUnit, RemoveUnit, RemoveSkill, RemoveSkillTree, RemoveSidecar, ReloadRemoved, Advance,
         NextSkill, Goto, Stay, WholeLabels, PlacingLabels, ActivationLabels
<1>6. CASE RemoveMarker \/ RemoveData
  BY <1>1, <1>3, <1>6
     DEF RemoveMarker, RemoveData, Goto, Stay, WholeLabels, PlacingLabels, ActivationLabels
<1>7. CASE RefuseSkill \/ Fail \/ FailCopy \/ FailHalfway \/ Die
  BY <1>1, <1>7 DEF RefuseSkill, Fail, FailCopy, FailHalfway, Die
<1>8. CASE FailListener \/ \E u \in EnabledUnits : RollBack(u)
  <2>1. /\ UNCHANGED <<loaded, entry>> /\ pc \in ActivationLabels \ {"reload"}
        /\ \/ Ended("failed")
           \/ /\ pc' \in {"rollback-timer", "rollback-listener"}
              /\ UNCHANGED <<root, outcome>>
    BY <1>8 DEF FailListener, RollBack, Goto, Stay, skills, ActivationLabels
  <2>2. CASE pc' \in {"rollback-timer", "rollback-listener"} /\ UNCHANGED <<root, outcome>>
    <3>1. SkillsPlaced' /\ UnitsEnabled'
      BY <1>0, <2>1, <2>2
         DEF SkillsPlaced, Placed, UnitsEnabled, ActivationLabels, PlacingLabels
    <3>2. InstalledWhole'
      BY <1>0, <2>1, <2>2 DEF InstalledWhole, ActivationLabels
    <3> QED
      BY <3>1, <3>2 DEF WholeInv
  <2> QED
    BY <1>1, <2>1, <2>2
<1>9. CASE StartScheduler \/ SchedulerEnds \/ \E p \in Pollers : Poll(p)
  BY <1>2, <1>9 DEF StartScheduler, SchedulerEnds, Poll, skills, systemd
<1>10. CASE Restart
  <2>1. CASE pc = "idle" /\ UNCHANGED command
    BY <1>0, <1>10, <2>1
       DEF Restart, skills, command, WholeInv, SkillsPlaced, Placed, UnitsEnabled,
           InstalledWhole, PlacingLabels, ActivationLabels
  <2> QED
    BY <1>1, <1>10, <2>1 DEF Restart
<1>11. ASSUME NEW d \in SkillDirs, EditSkill(d) PROVE WholeInv'
  BY <1>11, NotInstalling DEF EditSkill, WholeLabels, PlacingLabels, ActivationLabels
<1>12. ASSUME NEW u \in UnitNames, EditUnit(u) PROVE WholeInv'
  BY <1>12, NotInstalling DEF EditUnit, WholeLabels, PlacingLabels, ActivationLabels
<1> QED
  BY <1>4, <1>5, <1>6, <1>7, <1>8, <1>9, <1>10, <1>11, <1>12 DEF UninstallStep, FailureStep, Environment

(* installation.py:157-217: an installation that reports success left all   *)
(* three units, both skills and the marker to its own root, whatever earlier *)
(* commands that were cut short had left of others.                         *)
THEOREM InstallationsAreWhole == Spec => []InstalledIsWhole
<1>1. WholeInv /\ UNCHANGED vars => WholeInv'
  BY DEF vars, systemd, skills, command, WholeInv, SkillsPlaced, Placed, Dir, UnitsEnabled,
         InstalledWhole
<1>2. TypeInv /\ UnitInv /\ WholeInv /\ [Next]_vars => WholeInv'
  BY <1>1, InstallWhole, OtherWhole DEF Next
<1>3. TypeInv /\ WholeInv => InstalledIsWhole
  BY DEF TypeInv, CommandType, WholeInv, InstalledWhole, InstalledIsWhole, MarkerIsManaged, Placed,
         SkillDirs
<1> QED
  BY TypeInit, TypeStep, UnitInit, UnitStep, WholeInit, <1>2, <1>3, PTL DEF Spec
-----------------------------------------------------------------------------
(***************************************************************************)
(* A clean uninstallation.  As long as no command was cut short, whatever    *)
(* RunTasks made is missing or named by its sidecar, except where a command  *)
(* is at work, and systemd knows no unit whose file is gone.                *)
(***************************************************************************)
Known == \A u \in UnitNames : unit[u] = "none" => loaded[u] = "none"
Clean(d) == owner[d] = "runtasks" => entry[d] = Missing
Tended(d) == owner[d] = "runtasks" => entry[d] = Missing \/ SidecarIsManaged(d)

SkillRemovalLabels == {"remove-skill", "rmtree-remove-sidecar", "rmtree-next-skill",
                       "remove-sidecar", "next-skill"}
UnloadLabels == {"remove-units", "reload-removed"} \cup SkillRemovalLabels
FinishLabels == {"reload-removed", "remove-marker", "data"}

SkillsTended ==
  /\ \A d \in SkillDirs : Tended(d) \/ (pc \in HeldLabels /\ d = Dir)
  /\ pc \in {"remove-sidecar", "next-skill"} => Clean(Dir)
  /\ pc \in SkillRemovalLabels /\ at = 2 => Clean("common")
  /\ pc \in FinishLabels => Clean("common") /\ Clean("claude")

UnitsLoaded ==
  /\ pc \notin UnloadLabels \/ chosen = {} => Known
  /\ pc = "remove-units" => {u \in UnitNames : unit[u] \in Roots} \subseteq chosen

CleanlyGone ==
  outcome = "uninstalled" => Known /\ Clean("common") /\ Clean("claude")

CleanInv == deaths + faults = 0 => SkillsTended /\ UnitsLoaded /\ CleanlyGone

LEMMA ManagedKind ==
  ASSUME SkillsType, NEW d \in SkillDirs, NEW r \in Roots, SidecarIsManaged(d)
  PROVE  Kind(d, r) \in {"link", "copy"}
<1>1. entry[d] \in Managed
  BY DEF SidecarIsManaged
<1>2. PICK q \in Roots : entry[d] = Link(q) \/ entry[d] = Copy(q)
  BY <1>1 DEF Managed
<1>3. entry[d] \notin {Missing, Foreign, Remnant}
  BY <1>2, EntryFacts
<1> QED
  BY <1>2, <1>3, EntryFacts DEF Kind

LEMMA CleanInit == Init => CleanInv
  BY DEF Init, CleanInv, SkillsTended, Tended, Clean, UnitsLoaded, Known, CleanlyGone, HeldLabels,
         TreeLabels, SkillRemovalLabels, UnloadLabels, FinishLabels

LEMMA CleanFaults ==
  ASSUME TypeInv, Failing \/ (deaths' = deaths + 1 /\ UNCHANGED faults)
  PROVE  CleanInv'
  BY DEF Failing, TypeInv, BoundsType, CleanInv

(* A command moves on without touching a skill or a unit.                  *)
FreeLabels == {"idle", "runtime", "skill", "units", "reload", "enable-timer", "enable-listener",
               "marker", "rollback-timer", "rollback-listener", "stop", "remove-units"}

LEMMA FreeSkills ==
  ASSUME \A d \in SkillDirs : Tended(d)', pc' \in FreeLabels
  PROVE  SkillsTended'
  BY DEF SkillsTended, FreeLabels, SkillRemovalLabels, FinishLabels

LEMMA InstallClean ==
  TypeInv /\ UnitInv /\ WholeInv /\ CleanInv /\ InstallStep => CleanInv'
<1> SUFFICES ASSUME TypeInv, UnitInv, WholeInv, CleanInv, InstallStep PROVE CleanInv'
  OBVIOUS
<1>1. SystemdType /\ SkillsType /\ CommandType /\ SkillsPlaced /\ UnitsStopped
  BY DEF TypeInv, WholeInv, UnitInv
<1>2. UNCHANGED bounds
  BY DEF InstallStep, BeginInstall, InitializeRuntime, ManageSkill, RemoveTree, SetAside, Place,
         WriteSidecar, WriteUnit, Reload, Enable, WriteMarker
<1>3. SUFFICES ASSUME deaths + faults = 0 PROVE SkillsTended' /\ UnitsLoaded' /\ CleanlyGone'
  BY <1>2 DEF CleanInv, bounds
<1>4. SkillsTended /\ UnitsLoaded
  BY <1>3 DEF CleanInv
<1>5. outcome' # "uninstalled"
  BY <1>1 DEF InstallStep, BeginInstall, InitializeRuntime, ManageSkill, RemoveTree, SetAside, Place,
         WriteSidecar, WriteUnit, Reload, Enable, WriteMarker, Ended, Stay, UnitsStopped
<1>6. CleanlyGone'
  BY <1>5 DEF CleanlyGone
<1>7. UnitsLoaded'
  <2>1. CASE \/ \E r \in Roots : BeginInstall(r)
             \/ InitializeRuntime \/ RemoveTree \/ SetAside \/ Place
             \/ (\E u \in EnabledUnits : Enable(u)) \/ WriteMarker
    BY <1>4, <2>1
       DEF UnitsLoaded, Known, BeginInstall, InitializeRuntime, RemoveTree, SetAside, Place, Enable,
           WriteMarker, Ended, Goto, systemd, UnloadLabels, SkillRemovalLabels
  <2>2. CASE ManageSkill
    <3>1. Dir \in SkillDirs /\ mode[Dir] \in {"link", "copy"} /\ root \in Roots
      BY <1>1, <2>2, SkillLabelPlace DEF ManageSkill, SkillLabels, CommandType
    <3>2. Kind(Dir, root) \in {"missing", "link", "matching", "copy"}
      BY <1>1, <2>2, <3>1, KindFacts DEF ManageSkill, MayManage
    <3>3. /\ pc = "skill" /\ UNCHANGED <<unit, loaded>>
          /\ pc' \in {"skill", "units", "place", "set-aside", "rmtree", "sidecar"}
      BY <2>2, <3>1, <3>2 DEF ManageSkill, NextSkill, Goto, systemd
    <3> QED
      BY <1>4, <3>3 DEF UnitsLoaded, Known, UnloadLabels, SkillRemovalLabels
  <2>3. CASE WriteSidecar
    BY <1>4, <2>3
       DEF UnitsLoaded, Known, WriteSidecar, NextSkill, Goto, systemd, UnloadLabels, SkillRemovalLabels
  <2>4. CASE Reload
    BY <1>4, <2>4 DEF UnitsLoaded, Known, Reload, Goto, UnloadLabels, SkillRemovalLabels
  <2>5. CASE WriteUnit
    <3>1. /\ pc = "units" /\ pc' \in {"units", "reload"} /\ UNCHANGED loaded
          /\ unit' = [unit EXCEPT ![Units[at]] = root] /\ root # "none"
      BY <1>1, <2>5, UnitFacts DEF WriteUnit, Advance, Goto, CommandType
    <3>2. Known
      BY <1>4, <3>1 DEF UnitsLoaded, UnloadLabels, SkillRemovalLabels
    <3>3. Known'
      BY <1>1, <3>1, <3>2 DEF Known, SystemdType
    <3> QED
      BY <3>1, <3>3 DEF UnitsLoaded, UnloadLabels, SkillRemovalLabels
  <2> QED
    BY <2>1, <2>2, <2>3, <2>4, <2>5 DEF InstallStep
<1>8. SkillsTended'
  <2>1. ASSUME UNCHANGED skills, pc \notin HeldLabels, pc' \in FreeLabels PROVE SkillsTended'
    BY <1>4, <2>1, FreeSkills DEF skills, SkillsTended, Tended, SidecarIsManaged
  <2>2. CASE \/ \E r \in Roots : BeginInstall(r)
             \/ InitializeRuntime \/ WriteUnit \/ Reload \/ (\E u \in EnabledUnits : Enable(u))
             \/ WriteMarker
    BY <2>1, <2>2
       DEF BeginInstall, InitializeRuntime, WriteUnit, Reload, Enable, WriteMarker, Ended, Advance,
           Goto, HeldLabels, TreeLabels, FreeLabels
  <2>3. CASE RemoveTree \/ SetAside \/ Place
    <3>1. /\ pc \in HeldLabels \cap SkillLabels /\ pc' \in HeldLabels \ SkillRemovalLabels
          /\ UNCHANGED <<at, sidecar>>
          /\ \E e : entry' = [entry EXCEPT ![Dir] = e]
          /\ owner' = owner \/ \E o : owner' = [owner EXCEPT ![Dir] = o]
      BY <2>3 DEF RemoveTree, SetAside, Place, Goto, Stay, HeldLabels, TreeLabels, SkillLabels,
                  SkillRemovalLabels
    <3>2. Dir \in SkillDirs /\ Dir' = Dir
      BY <1>1, <3>1, SkillLabelPlace DEF Dir
    <3>3. \A d \in SkillDirs : d # Dir => Tended(d)'
      BY <1>1, <1>4, <3>1, <3>2 DEF SkillsTended, Tended, SidecarIsManaged, SkillsType
    <3> QED
      BY <3>1, <3>2, <3>3 DEF SkillsTended, HeldLabels, TreeLabels, SkillRemovalLabels, FinishLabels
  <2>4. CASE ManageSkill
    <3>1. Dir \in SkillDirs /\ mode[Dir] \in {"link", "copy"} /\ root \in Roots
      BY <1>1, <2>4, SkillLabelPlace DEF ManageSkill, SkillLabels, CommandType
    <3>2. Kind(Dir, root) \in {"missing", "link", "matching", "copy"}
      BY <1>1, <2>4, <3>1, KindFacts DEF ManageSkill, MayManage
    <3>3. /\ pc = "skill" /\ UNCHANGED skills
          /\ pc' \in {"skill", "units", "place", "set-aside", "rmtree", "sidecar"}
      BY <2>4, <3>1, <3>2 DEF ManageSkill, NextSkill, Goto
    <3>4. \A d \in SkillDirs : Tended(d)'
      BY <1>4, <3>3 DEF skills, SkillsTended, Tended, SidecarIsManaged, HeldLabels, TreeLabels
    <3> QED
      BY <3>3, <3>4 DEF SkillsTended, SkillRemovalLabels, FinishLabels
  <2>5. CASE WriteSidecar
    <3>1. /\ pc = "sidecar" /\ UNCHANGED <<entry, owner>> /\ sidecar' = [sidecar EXCEPT ![Dir] = root]
          /\ pc' \in FreeLabels
      BY <2>5 DEF WriteSidecar, NextSkill, Goto, FreeLabels
    <3>2. Dir \in SkillDirs /\ root \in Roots /\ Placed(Dir)
      BY <1>1, <3>1, SkillLabelPlace DEF SkillLabels, CommandType, SkillsPlaced
    <3>3. entry[Dir] \in Managed /\ entry[Dir].source = root
      BY <3>2, EntryFacts DEF Placed, Managed
    <3>4. \A d \in SkillDirs : Tended(d)'
      BY <1>1, <1>4, <3>1, <3>2, <3>3 DEF SkillsTended, Tended, SidecarIsManaged, SkillsType
    <3> QED
      BY <3>1, <3>4, FreeSkills
  <2> QED
    BY <2>2, <2>3, <2>4, <2>5 DEF InstallStep
<1> QED
  BY <1>6, <1>7, <1>8

LEMMA UninstallClean == TypeInv /\ UnitInv /\ CleanInv /\ UninstallStep => CleanInv'
<1> SUFFICES ASSUME TypeInv, UnitInv, CleanInv, UninstallStep PROVE CleanInv'
  OBVIOUS
<1>1. SystemdType /\ SkillsType /\ CommandType /\ UnitsStopped
  BY DEF TypeInv, UnitInv
<1>2. UNCHANGED bounds
  BY DEF UninstallStep, BeginUninstall, StopUnit, RemoveUnit, RemoveSkill, RemoveSkillTree,
         RemoveSidecar, ReloadRemoved, RemoveMarker, RemoveData
<1>3. SUFFICES ASSUME deaths + faults = 0 PROVE SkillsTended' /\ UnitsLoaded' /\ CleanlyGone'
  BY <1>2 DEF CleanInv, bounds
<1>4. SkillsTended /\ UnitsLoaded
  BY <1>3 DEF CleanInv
<1>5. ASSUME pc # "idle", outcome' = outcome PROVE CleanlyGone'
  BY <1>1, <1>5 DEF UnitsStopped, CleanlyGone
<1>6. ASSUME UNCHANGED skills, pc \notin HeldLabels, pc' \in FreeLabels PROVE SkillsTended'
  BY <1>4, <1>6, FreeSkills DEF skills, SkillsTended, Tended, SidecarIsManaged
<1>7. ASSUME NEW r \in Roots, BeginUninstall(r)
      PROVE  SkillsTended' /\ UnitsLoaded' /\ CleanlyGone'
  <2>1. SkillsTended'
    BY <1>6, <1>7 DEF BeginUninstall, Goto, HeldLabels, TreeLabels, FreeLabels
  <2>2. UnitsLoaded' /\ CleanlyGone'
    BY <1>4, <1>7
       DEF BeginUninstall, Goto, systemd, UnitsLoaded, Known, UnloadLabels, SkillRemovalLabels, CleanlyGone
  <2> QED
    BY <2>1, <2>2
<1>8. CASE StopUnit
  <2>1. /\ pc = "stop" /\ pc' \in {"stop", "remove-units"}
        /\ UNCHANGED <<unit, loaded, skills, chosen, outcome>>
    BY <1>8 DEF StopUnit, Advance, Goto, Stay
  <2>2. SkillsTended'
    BY <1>6, <2>1 DEF HeldLabels, TreeLabels, FreeLabels
  <2>3. UnitsLoaded'
    BY <1>1, <1>4, <2>1 DEF UnitsLoaded, Known, UnitsStopped, UnloadLabels, SkillRemovalLabels
  <2> QED
    BY <1>5, <2>1, <2>2, <2>3
<1>9. CASE RemoveUnit
  <2>1. /\ pc = "remove-units" /\ pc' \in {"remove-units", "remove-skill"}
        /\ pc' = "remove-skill" => at' = 1
        /\ UNCHANGED <<loaded, skills, chosen, outcome>>
        /\ IF unit[Units[at]] \in Roots THEN unit' = [unit EXCEPT ![Units[at]] = "none"]
           ELSE unit' = unit
    BY <1>9 DEF RemoveUnit, Advance, Goto, Stay
  <2>2. Units[at] \in UnitNames
    BY <1>1, Places DEF CommandType, UnitNames
  <2>3. SkillsTended'
    BY <1>4, <2>1
       DEF skills, SkillsTended, Tended, SidecarIsManaged, HeldLabels, TreeLabels,
           SkillRemovalLabels, FinishLabels
  <2>4. UnitsLoaded'
    BY <1>1, <1>4, <2>1, <2>2, InstallationAssumption
       DEF UnitsLoaded, Known, UnloadLabels, SkillRemovalLabels, SystemdType, InstallationAssumption
  <2> QED
    BY <1>5, <2>1, <2>3, <2>4
<1>10. ASSUME pc \in SkillRemovalLabels,
              pc' \in SkillRemovalLabels \cup {"reload-removed"},
              UNCHANGED <<unit, loaded, chosen, outcome>>
       PROVE  UnitsLoaded' /\ CleanlyGone'
  <2>1. UnitsLoaded'
    BY <1>4, <1>10 DEF UnitsLoaded, Known, UnloadLabels, SkillRemovalLabels
  <2> QED
    BY <1>5, <1>10, <2>1 DEF SkillRemovalLabels
<1>11. CASE RemoveSkill
  <2>1. /\ pc = "remove-skill" /\ UNCHANGED <<sidecar, owner, at>>
        /\ UNCHANGED <<unit, loaded, chosen, outcome>>
        /\ \/ /\ entry' = entry /\ Kind(Dir, root) \notin {"link", "copy"}
              /\ pc' = IF SidecarIsManaged(Dir) THEN "remove-sidecar" ELSE "next-skill"
           \/ /\ entry' = [entry EXCEPT ![Dir] = Missing]
              /\ pc' \in {"remove-sidecar", "next-skill"}
           \/ /\ entry' = [entry EXCEPT ![Dir] = Remnant]
              /\ pc' \in {"rmtree-remove-sidecar", "rmtree-next-skill"}
    BY <1>11 DEF RemoveSkill, Goto, Stay, systemd
  <2>2. Dir \in SkillDirs /\ Dir' = Dir /\ root \in Roots
    BY <1>1, <2>1, SkillLabelPlace DEF SkillLabels, CommandType, Dir
  <2>3. Tended(Dir) /\ (Kind(Dir, root) \notin {"link", "copy"} => Clean(Dir))
    BY <1>1, <1>4, <2>1, <2>2, ManagedKind
       DEF SkillsTended, Tended, Clean, HeldLabels, TreeLabels
  <2>4. \A d \in SkillDirs : d # Dir => entry'[d] = entry[d] /\ Tended(d)'
    BY <1>1, <1>4, <2>1, <2>2 DEF SkillsTended, Tended, SidecarIsManaged, SkillsType
  <2>5. pc' \in {"remove-sidecar", "next-skill"} => Clean(Dir)'
    BY <1>1, <2>1, <2>2, <2>3 DEF Clean, SkillsType
  <2>6. at = 2 => Clean("common")'
    <3>1. at = 2 => "common" # Dir
      BY Places DEF Dir
    <3> QED
      BY <1>4, <2>1, <2>4, <3>1 DEF SkillsTended, Clean, SkillRemovalLabels, SkillDirs
  <2>7. \A d \in SkillDirs : Tended(d)' \/ (pc' \in HeldLabels /\ d = Dir')
    BY <2>1, <2>2, <2>4, <2>5 DEF Clean, Tended, HeldLabels, TreeLabels
  <2>8. SkillsTended'
    BY <2>1, <2>2, <2>5, <2>6, <2>7 DEF SkillsTended, Clean, FinishLabels
  <2> QED
    BY <1>10, <2>1, <2>8 DEF SkillRemovalLabels
<1>12. CASE RemoveSkillTree
  <2>1. /\ pc \in {"rmtree-remove-sidecar", "rmtree-next-skill"}
        /\ pc' \in {"remove-sidecar", "next-skill"}
        /\ UNCHANGED <<sidecar, owner, at>> /\ entry' = [entry EXCEPT ![Dir] = Missing]
        /\ UNCHANGED <<unit, loaded, chosen, outcome>>
    BY <1>12 DEF RemoveSkillTree, Goto, Stay, systemd
  <2>2. Dir \in SkillDirs /\ Dir' = Dir
    BY <1>1, <2>1, SkillLabelPlace DEF SkillLabels, Dir
  <2>3. Clean(Dir)' /\ Tended(Dir)'
    BY <1>1, <2>1, <2>2 DEF Clean, Tended, SkillsType
  <2>4. \A d \in SkillDirs : d # Dir => entry'[d] = entry[d] /\ Tended(d)'
    BY <1>1, <1>4, <2>1, <2>2 DEF SkillsTended, Tended, SidecarIsManaged, SkillsType
  <2>5. at = 2 => Clean("common")'
    <3>1. at = 2 => "common" # Dir
      BY Places DEF Dir
    <3> QED
      BY <1>4, <2>1, <2>4, <3>1 DEF SkillsTended, Clean, SkillRemovalLabels, SkillDirs
  <2>6. SkillsTended'
    BY <2>1, <2>2, <2>3, <2>4, <2>5 DEF SkillsTended, Clean, FinishLabels
  <2> QED
    BY <1>10, <2>1, <2>6 DEF SkillRemovalLabels
<1>13. CASE RemoveSidecar
  <2>1. /\ pc \in {"remove-sidecar", "next-skill"} /\ UNCHANGED <<entry, owner>>
        /\ sidecar' = sidecar \/ sidecar' = [sidecar EXCEPT ![Dir] = "none"]
        /\ IF at < 2 THEN at' = at + 1 /\ pc' = "remove-skill"
           ELSE at' = 1 /\ pc' = "reload-removed"
        /\ UNCHANGED <<unit, loaded, chosen, outcome>>
    BY <1>13, Places DEF RemoveSidecar, NextSkill, Goto, Stay, systemd
  <2>2. Dir \in SkillDirs /\ Clean(Dir) /\ at \in 1..2
    BY <1>1, <1>4, <2>1, SkillLabelPlace DEF SkillLabels, SkillsTended, CommandType
  <2>3. \A d \in SkillDirs : Tended(d)'
    <3>1. ASSUME NEW d \in SkillDirs, d = Dir PROVE Tended(d)'
      BY <2>1, <2>2, <3>1 DEF Clean, Tended
    <3>2. ASSUME NEW d \in SkillDirs, d # Dir PROVE Tended(d)'
      BY <1>1, <1>4, <2>1, <2>2, <3>2 DEF SkillsTended, Tended, SidecarIsManaged, SkillsType
    <3> QED
      BY <3>1, <3>2
  <2>4. Clean("common")' /\ (at = 2 => Clean("claude")')
    <3>1. CASE at = 1
      BY <2>1, <2>2, <3>1, Places DEF Dir, Clean
    <3>2. CASE at = 2
      BY <1>4, <2>1, <2>2, <3>2, Places DEF Dir, SkillsTended, Clean, SkillRemovalLabels
    <3> QED
      BY <2>2, <3>1, <3>2
  <2>5. SkillsTended'
    BY <2>1, <2>2, <2>3, <2>4 DEF SkillsTended, SkillRemovalLabels, FinishLabels
  <2> QED
    BY <1>10, <2>1, <2>5 DEF SkillRemovalLabels
<1>14. CASE ReloadRemoved \/ RemoveMarker \/ RemoveData
  <2>1. /\ pc \in FinishLabels /\ UNCHANGED <<unit, skills>>
        /\ IF pc = "reload-removed" THEN loaded' = IF chosen # {} THEN unit ELSE loaded
           ELSE loaded' = loaded
        /\ \/ pc' \in {"remove-marker", "data"} /\ outcome' = outcome
           \/ pc # "reload-removed" /\ pc' = "idle"
    BY <1>14 DEF ReloadRemoved, RemoveMarker, RemoveData, Ended, Goto, Stay, systemd, FinishLabels
  <2>2. Known'
    BY <1>4, <2>1 DEF UnitsLoaded, Known, UnloadLabels, SkillRemovalLabels, FinishLabels
  <2>3. Clean("common")' /\ Clean("claude")'
    BY <1>4, <2>1 DEF SkillsTended, Clean, skills
  <2>4. SkillsTended'
    BY <1>4, <2>1, <2>3
       DEF skills, SkillsTended, Tended, SidecarIsManaged, HeldLabels, TreeLabels,
           SkillRemovalLabels, FinishLabels
  <2>5. UnitsLoaded' /\ CleanlyGone'
    BY <2>1, <2>2, <2>3 DEF UnitsLoaded, CleanlyGone, UnloadLabels, SkillRemovalLabels
  <2> QED
    BY <2>4, <2>5
<1> QED
  BY <1>7, <1>8, <1>9, <1>11, <1>12, <1>13, <1>14 DEF UninstallStep

LEMMA OtherClean ==
  TypeInv /\ UnitInv /\ CleanInv /\ (FailureStep \/ Environment) => CleanInv'
<1> SUFFICES ASSUME TypeInv, UnitInv, CleanInv, FailureStep \/ Environment PROVE CleanInv'
  OBVIOUS
<1>1. SystemdType /\ SkillsType /\ CommandType /\ UnitsStopped
  BY DEF TypeInv, UnitInv
<1>2. ASSUME UNCHANGED <<unit, loaded, skills, command, bounds>> PROVE CleanInv'
  BY <1>2 DEF skills, command, bounds, CleanInv, SkillsTended, Tended, Clean, SidecarIsManaged, Dir,
              UnitsLoaded, Known, CleanlyGone
<1>3. CASE StartScheduler \/ SchedulerEnds \/ \E p \in Pollers : Poll(p)
  BY <1>2, <1>3 DEF StartScheduler, SchedulerEnds, Poll, systemd
<1>4. CASE Fail \/ FailCopy \/ FailHalfway \/ FailListener \/ Die \/ Restart
  BY <1>4, CleanFaults DEF Fail, FailCopy, FailHalfway, FailListener, Die, Restart
<1>5. CASE RefuseSkill
  <2>1. /\ pc = "skill" /\ pc' = "idle" /\ outcome' = "failed"
        /\ UNCHANGED <<unit, loaded, skills, bounds>>
    BY <1>5 DEF RefuseSkill, Ended, Goto, systemd
  <2> SUFFICES ASSUME deaths + faults = 0 PROVE SkillsTended' /\ UnitsLoaded' /\ CleanlyGone'
    BY <2>1 DEF CleanInv, bounds
  <2>2. SkillsTended'
    BY <2>1, FreeSkills
       DEF CleanInv, SkillsTended, Tended, SidecarIsManaged, skills, HeldLabels, TreeLabels,
           FreeLabels
  <2> QED
    BY <2>1, <2>2 DEF CleanInv, UnitsLoaded, Known, CleanlyGone, UnloadLabels, SkillRemovalLabels
<1>6. ASSUME NEW u \in EnabledUnits, RollBack(u) PROVE CleanInv'
  <2>1. CASE Failing
    BY <2>1, CleanFaults
  <2>2. CASE UNCHANGED bounds
    <3>1. /\ pc \in {"rollback-timer", "rollback-listener"} /\ UNCHANGED <<unit, loaded, skills>>
          /\ pc' \in {"rollback-listener", "idle"} /\ outcome' \in {outcome, "failed"}
      BY <1>6, <2>2 DEF RollBack, Ended, Goto, Stay, EnabledUnits
    <3> SUFFICES ASSUME deaths + faults = 0 PROVE SkillsTended' /\ UnitsLoaded' /\ CleanlyGone'
      BY <2>2 DEF CleanInv, bounds
    <3>2. SkillsTended'
      BY <3>1, FreeSkills
         DEF CleanInv, SkillsTended, Tended, SidecarIsManaged, skills, HeldLabels, TreeLabels,
             FreeLabels
    <3>3. UnitsLoaded'
      BY <3>1 DEF CleanInv, UnitsLoaded, Known, UnloadLabels, SkillRemovalLabels
    <3> QED
      BY <1>1, <3>1, <3>2, <3>3 DEF UnitsStopped, CleanlyGone
  <2> QED
    BY <1>6, <2>1, <2>2 DEF RollBack
<1>7. ASSUME NEW s \in SkillDirs, EditSkill(s) PROVE CleanInv'
  <2>1. /\ pc \in {"idle", "runtime"} /\ pc' = pc /\ outcome' = "none"
        /\ UNCHANGED <<unit, loaded, sidecar, chosen, deaths, faults>>
        /\ owner' = [owner EXCEPT ![s] = "operator"]
        /\ \E e : entry' = [entry EXCEPT ![s] = e]
    BY <1>7 DEF EditSkill, systemd
  <2> SUFFICES ASSUME deaths + faults = 0 PROVE SkillsTended' /\ UnitsLoaded' /\ CleanlyGone'
    BY <2>1 DEF CleanInv
  <2>2. \A d \in SkillDirs : Tended(d)'
    BY <1>1, <2>1
       DEF CleanInv, SkillsTended, Tended, SidecarIsManaged, HeldLabels, TreeLabels, SkillsType
  <2>3. SkillsTended'
    BY <2>1, <2>2, FreeSkills DEF FreeLabels
  <2> QED
    BY <2>1, <2>3 DEF CleanInv, UnitsLoaded, Known, CleanlyGone, UnloadLabels, SkillRemovalLabels
<1>8. ASSUME NEW u \in UnitNames, EditUnit(u) PROVE CleanInv'
  <2>1. /\ pc \in {"idle", "runtime"} /\ pc' = pc /\ outcome' = "none"
        /\ UNCHANGED <<loaded, skills, chosen, deaths, faults>>
        /\ unit' = [unit EXCEPT ![u] = "foreign"]
    BY <1>8 DEF EditUnit
  <2> SUFFICES ASSUME deaths + faults = 0 PROVE SkillsTended' /\ UnitsLoaded' /\ CleanlyGone'
    BY <2>1 DEF CleanInv
  <2>2. SkillsTended'
    BY <2>1, FreeSkills
       DEF CleanInv, SkillsTended, Tended, SidecarIsManaged, skills, HeldLabels, TreeLabels,
           FreeLabels
  <2>3. Known'
    BY <1>1, <2>1
       DEF CleanInv, UnitsLoaded, Known, UnloadLabels, SkillRemovalLabels, SystemdType
  <2> QED
    BY <2>1, <2>2, <2>3 DEF UnitsLoaded, CleanlyGone, UnloadLabels, SkillRemovalLabels
<1> QED
  BY <1>3, <1>4, <1>5, <1>6, <1>7, <1>8 DEF FailureStep, Environment

(* installation.py:219-295: an uninstallation that reports success has       *)
(* stopped every unit of RunTasks' and deleted its file; when no command was *)
(* ever cut short, it left no skill of RunTasks' and no unit that systemd    *)
(* knows without its file.                                                  *)
THEOREM UninstallationsAreComplete == Spec => []UninstalledIsGone
<1>1. WholeInv /\ UNCHANGED vars => WholeInv'
  BY DEF vars, systemd, skills, command, WholeInv, SkillsPlaced, Placed, Dir, UnitsEnabled,
         InstalledWhole
<1>2. TypeInv /\ UnitInv /\ WholeInv /\ [Next]_vars => WholeInv'
  BY <1>1, InstallWhole, OtherWhole DEF Next
<1>3. CleanInv /\ UNCHANGED vars => CleanInv'
  BY DEF vars, systemd, skills, command, bounds, CleanInv, SkillsTended, Tended, Clean,
         SidecarIsManaged, Dir, UnitsLoaded, Known, CleanlyGone
<1>4. TypeInv /\ UnitInv /\ WholeInv /\ CleanInv /\ [Next]_vars => CleanInv'
  BY <1>3, InstallClean, UninstallClean, OtherClean DEF Next
<1>5. TypeInv /\ UnitInv /\ CleanInv => UninstalledIsGone
  BY DEF UnitInv, UnitsStopped, Running, OperatorsOnly, Starters, StartedByOperators, CleanInv,
         CleanlyGone, Known, Clean, UninstalledIsGone, SkillDirs
<1> QED
  BY TypeInit, TypeStep, UnitInit, UnitStep, WholeInit, CleanInit, <1>2, <1>4, <1>5, PTL DEF Spec
=============================================================================
