---------------------------- MODULE ReleaseCheck ----------------------------
(***************************************************************************)
(* The scheduled Runs of one Task and the two named handlers.  A due        *)
(* occurrence is claimed (runs.py, with the calendar of tasks.py).  A       *)
(* manual_notification Task is done with that; for a pi_mcp_adapter Task    *)
(* the read-only check asks for the installed package, the registry, every  *)
(* release source and the evaluator one after the other                     *)
(* (pi_mcp_releases.py), and the handler turns the result into the Run's    *)
(* status and, where a person must decide, a Decision (handlers.py,         *)
(* decisions.py).  Whatever is read may be missing or malformed, and the    *)
(* process may end at any step.                                             *)
(***************************************************************************)
EXTENDS Calendar

CONSTANTS
  Tasks,         \* the Tasks a behaviour may be about: zone, days, time,
                 \* first next_run_at, handler and action_mode
  Newest,        \* bound: stable versions are 1..Newest
  Sources,       \* release_sources, in order
  MaxLong,       \* notes of the greatest length that the evidence can hold
  MaxTime, MaxClaims,   \* bounds
  None

(* _task_input_from_values: next_run_at is at the schedule's wall time, at   *)
(* its first or a later occurrence on that date.                            *)
ASSUME TasksAssumption == \A t \in Tasks :
  /\ t.zone.base \in Int /\ t.zone.shifts \in Seq([at : Int, offset : Int])
  /\ t.days \in Nat \ {0} /\ t.time \in 0..(DayLength - 1) /\ t.first \in Nat
  /\ WallTime(t, t.first) = t.time
  /\ At(t, Date(t, t.first)) <= t.first

ASSUME BoundsAssumption ==
  /\ Newest \in Nat \ {0} /\ Sources \in Seq(STRING)
  /\ {MaxLong, MaxTime, MaxClaims} \subseteq Nat

(* The bound on the search is none: it ends for every claim there can be.   *)
ASSUME HorizonAssumption ==
  \A t \in Tasks, current \in 0..MaxTime : \A n \in 0..current :
    \E k \in 1..Horizon : Falls(t, n, current, k)

VARIABLES
  task,
  now,             \* the current time of the last pass
  next,            \* tasks.next_run_at
  claims, missed,  \* occurrences claimed and skipped so far
  pc,
  seen,            \* what this Run has read
  result,          \* the ReleaseCheckResult
  status,          \* of the last Run
  decision         \* the plan of the Decision it created, or None

schedule == <<task, now, next, claims, missed>>
vars == <<schedule, pc, seen, result, status, decision>>

(* A version is its precedence, and whether it carries build metadata: the  *)
(* registry's do not, a package installed from elsewhere may.               *)
Versions  == [number : 1..Newest, build : BOOLEAN]
Stable(n) == [number |-> n, build |-> FALSE]

(* A note's body, if it is there and passes _normalize_source_note.         *)
NoteKinds == {"unusable", "short", "long"}

Assessments == [importance : {"non-important", "important", "uncertain"},
                category   : {"routine", "security", "uncertain"},
                confidence : {"low", "medium", "high"}]

Unread == [installed |-> None, pi |-> FALSE, registry |-> None,
           notes |-> <<>>, assessment |-> None]
NoResult == [outcome |-> "none", available |-> None, assessment |-> None]

Init ==
  /\ task \in Tasks
  /\ next = task.first
  /\ now = 0 /\ claims = {} /\ missed = 0
  /\ pc = "idle" /\ seen = Unread /\ result = NoResult
  /\ status = "none" /\ decision = None

(***************************************************************************)
(* The claim: the occurrence is taken and the Task advanced in one          *)
(* transaction.                                                             *)
(***************************************************************************)
ClaimScheduledRun ==
  /\ pc = "idle"
  /\ Cardinality(claims) < MaxClaims
  /\ \E time \in now..MaxTime :
       /\ next <= time
       /\ now' = time
       /\ next' = NextOccurrence(task, next, time)
       /\ missed' = missed + MissedOccurrences(task, next, time)
  /\ claims' = claims \cup {next}
  /\ pc' = "detect" /\ status' = "running"
  /\ seen' = Unread /\ result' = NoResult /\ decision' = None
  /\ UNCHANGED task

ManualNotification ==
  /\ pc = "detect"
  /\ task.handler = "manual_notification"
  /\ pc' = "idle" /\ status' = "manual-action-due"
  /\ UNCHANGED <<schedule, seen, result, decision>>

(***************************************************************************)
(* PiMcpReleaseChecker.check, one external call to a step.                  *)
(***************************************************************************)
Uncertain == [importance |-> "uncertain", category |-> "uncertain",
              confidence |-> "low"]

Answer(outcome, available, assessment) ==
  /\ result' = [outcome |-> outcome, available |-> available,
                assessment |-> assessment]
  /\ pc' = "conclude"

AskAPerson(available) == Answer("decision-required", available, Uncertain)

Continue(step) == pc' = step /\ UNCHANGED result

DetectInstalled ==
  /\ pc = "detect"
  /\ task.handler = "pi_mcp_adapter"
  /\ \E installed \in Versions \cup {None}, pi \in BOOLEAN :
       /\ seen' = [seen EXCEPT !.installed = installed, !.pi = pi]
       /\ IF installed = None THEN AskAPerson(None) ELSE Continue("look-up")
  /\ UNCHANGED <<schedule, status, decision>>

Registry == [latest : 1..Newest, stable : SUBSET (1..Newest)]

AcceptableWithoutOrder(registry) ==     \* mutant: an older latest is accepted
  registry # None /\ registry.latest \in registry.stable

Acceptable(registry) ==
  /\ registry # None
  /\ registry.latest \in registry.stable
  /\ seen.installed.number <= registry.latest

InterveningLatestOnly(registry) ==      \* mutant: only the newest is reviewed
  {registry.latest} \ {seen.installed.number}

Intervening(registry) ==
  {v \in registry.stable :
     seen.installed.number < v /\ v <= registry.latest}

LookUpRegistry ==
  /\ pc = "look-up"
  /\ \E registry \in Registry \cup {None} :
       /\ seen' = [seen EXCEPT !.registry = registry]
       /\ IF ~Acceptable(registry)
          THEN AskAPerson(None)
          ELSE LET latest == Stable(registry.latest)
               IN IF seen.installed = latest
                  THEN Answer("no-change", latest, None)
                  ELSE IF Intervening(registry) = {}
                  THEN AskAPerson(latest)
                  ELSE Continue("collect")
  /\ UNCHANGED <<schedule, status, decision>>

(* A source answers for every version, or not at all: {} stands for a       *)
(* source that is unavailable.                                              *)
CollectNotes ==
  /\ pc = "collect"
  /\ Len(seen.notes) < Len(Sources)
  /\ \E notes \in [Intervening(seen.registry) -> NoteKinds] \cup {<<>>} :
       seen' = [seen EXCEPT !.notes = Append(@, notes)]
  /\ UNCHANGED <<schedule, pc, result, status, decision>>

LacksNoteOnly(notes) ==     \* mutant: a source that fails is passed over
  notes # <<>> /\ \E v \in DOMAIN notes : notes[v] = "unusable"

Lacks(notes) == notes = <<>> \/ \E v \in DOMAIN notes : notes[v] = "unusable"

Oversized ==
  MaxLong < Cardinality({place \in (DOMAIN Sources) \X (1..Newest) :
              /\ place[2] \in DOMAIN seen.notes[place[1]]
              /\ seen.notes[place[1]][place[2]] = "long"})

AssessEvidence ==
  /\ pc = "collect"
  /\ Len(seen.notes) = Len(Sources)
  /\ IF \/ \E s \in DOMAIN Sources : Lacks(seen.notes[s])
        \/ Oversized
        \/ ~seen.pi
     THEN AskAPerson(Stable(seen.registry.latest))
     ELSE Continue("evaluate")
  /\ UNCHANGED <<schedule, seen, status, decision>>

(* _validated_assessment *)
WellFormed(assessment) ==
  /\ assessment.importance = "uncertain" => assessment.category = "uncertain"
  /\ assessment.importance = "non-important" => assessment.category = "routine"
  /\ assessment.importance = "important" =>
       assessment.category \notin {"routine", "uncertain"}

EvaluatorAnswers == Assessments \cup {None}    \* None: failed, or malformed

Evaluate ==
  /\ pc = "evaluate"
  /\ \E assessment \in EvaluatorAnswers :
       LET latest == Stable(seen.registry.latest) IN
       /\ seen' = [seen EXCEPT !.assessment = assessment]
       /\ IF assessment = None \/ ~WellFormed(assessment)
          THEN AskAPerson(latest)
          ELSE IF assessment.importance # "non-important"
          THEN Answer("decision-required", latest, assessment)
          ELSE IF assessment.confidence # "high"
          THEN AskAPerson(latest)
          ELSE Answer("non-important", latest, assessment)
  /\ UNCHANGED <<schedule, status, decision>>

(***************************************************************************)
(* The handler's outcome and its record.                                    *)
(***************************************************************************)
Plan ==
  IF None \in {seen.installed, result.available}
  THEN [operation |-> "manual-review-only",
        old |-> seen.installed, target |-> result.available]
  ELSE [operation |-> "install-exact-version",
        old |-> seen.installed, target |-> result.available]

Conclude ==
  /\ pc = "conclude"
  /\ result.outcome # "decision-required"
  /\ pc' = "idle" /\ status' = result.outcome
  /\ UNCHANGED <<schedule, seen, result, decision>>

RecordPendingDecision ==
  /\ pc = "conclude"
  /\ result.outcome = "decision-required"
  /\ task.mode = "approved-procedure"
  /\ pc' = "idle" /\ status' = "decision-required" /\ decision' = Plan
  /\ UNCHANGED <<schedule, seen, result>>

(* A Task that only checks may not ask, and a plan is refused that is too   *)
(* long or holds what the redactor would hide: the Run fails.               *)
RefuseRequest ==
  /\ pc = "conclude"
  /\ result.outcome = "decision-required"
  /\ pc' = "idle" /\ status' = "failed"
  /\ UNCHANGED <<schedule, seen, result, decision>>

(* The process ends, or the database refuses the last transaction: nothing  *)
(* takes the Run up again.                                                  *)
Interrupt ==
  /\ pc # "idle"
  /\ pc' = "idle"
  /\ UNCHANGED <<schedule, seen, result, status, decision>>

Next ==
  \/ ClaimScheduledRun
  \/ ManualNotification
  \/ DetectInstalled \/ LookUpRegistry \/ CollectNotes \/ AssessEvidence
  \/ Evaluate
  \/ Conclude \/ RecordPendingDecision \/ RefuseRequest
  \/ Interrupt

Spec == Init /\ [][Next]_vars
-----------------------------------------------------------------------------
(* Types, and what each step of the check may rely on: a version is known   *)
(* before the registry is asked, the registry's answer was acceptable       *)
(* before a source is, and nothing was lacking before the evaluator is.     *)
TypeOK ==
  /\ task \in Tasks
  /\ now \in 0..MaxTime /\ next \in Nat /\ missed \in Nat
  /\ claims \subseteq 0..MaxTime
  /\ pc \in {"idle", "detect", "look-up", "collect", "evaluate", "conclude"}
  /\ status \in {"none", "running", "manual-action-due", "no-change",
                 "non-important", "decision-required", "failed"}
  /\ pc \in {"look-up", "collect", "evaluate"} => seen.installed \in Versions
  /\ pc \in {"collect", "evaluate"} =>
       seen.installed.number < seen.registry.latest
  /\ pc = "evaluate" => \A s \in DOMAIN Sources :
       DOMAIN seen.notes[s] = Intervening(seen.registry)
  /\ decision # None => status = "decision-required"

(* README.md:171-173: a Task falls due at its own wall time, on a date of   *)
(* its own interval and on each such date at most once, whatever the zone's *)
(* clock does in between; and no date that has the time is passed over that *)
(* was still ahead at the last claim.                                       *)
CalendarKept ==
  LET first == Min(claims \cup {next})
      dates == {Date(task, c) : c \in claims \cup {next}}
  IN /\ WallTime(task, next) = task.time
     /\ Cardinality(dates) = Cardinality(claims) + 1
     /\ \A date \in dates : (date - Date(task, first)) % task.days = 0
     /\ claims # {} =>
          \A date \in Date(task, first)..(Date(task, next) - 1) :
            /\ (date - Date(task, first)) % task.days = 0
            /\ Exists(task, date)
            => At(task, date) <= now

(* README.md:174-176: every date of the interval is a Run or is counted     *)
(* among the skipped ones, over any sequence of late claims.                *)
MissedAreCounted ==
  (Cardinality(claims) + missed) * task.days =
     Date(task, next) - Date(task, Min(claims \cup {next}))

(* docs/pi-mcp-handler.md:37-41: a Run is quiet only when nothing was       *)
(* missing.  "no-change" means that the installed version was read and is   *)
(* the latest; "non-important" that each source had a usable note for every *)
(* version the registry lists after the installed one, that all of them     *)
(* reached the evaluator, and that it was certain.                          *)
QuietIsJustified ==
  /\ status = "no-change" =>
       seen.registry # None /\ seen.installed = Stable(seen.registry.latest)
  /\ status = "non-important" =>
       /\ seen.pi
       /\ \A v \in seen.registry.stable, s \in DOMAIN Sources :
            seen.installed.number < v /\ v <= seen.registry.latest =>
              /\ v \in DOMAIN seen.notes[s]
              /\ seen.notes[s][v] \in {"short", "long"}
       /\ ~Oversized
       /\ seen.assessment = [importance |-> "non-important",
                             category |-> "routine", confidence |-> "high"]

(* A Decision that authorises an installation names the version that was    *)
(* read as installed, to go back to, and the registry's latest stable       *)
(* version, which is never an older one; a check that could not tell one of *)
(* the two authorises nothing.                                              *)
PlansNeverGoBack ==
  decision # None =>
    IF decision.operation = "install-exact-version"
    THEN /\ decision.old = seen.installed /\ decision.old # None
         /\ decision.target = Stable(seen.registry.latest)
         /\ seen.registry.latest \in seen.registry.stable
         /\ decision.old.number <= decision.target.number
    ELSE None \in {decision.old, decision.target}
=============================================================================
