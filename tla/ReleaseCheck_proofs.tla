------------------------- MODULE ReleaseCheck_proofs -------------------------
(***************************************************************************)
(* What is proved of ReleaseCheck for any set of Tasks and zones, any number *)
(* of versions, sources and claims, and any answers.                        *)
(***************************************************************************)
EXTENDS ReleaseCheck, TLAPS, WellFoundedInduction, FiniteSetTheorems

(***************************************************************************)
(* Quiet Runs and plans.                                                   *)
(***************************************************************************)
NoteMaps == {<<>>} \cup UNION {[S -> NoteKinds] : S \in SUBSET (1..Newest)}

SeenType ==
  seen \in [installed : Versions \cup {None}, pi : BOOLEAN,
            registry : Registry \cup {None}, notes : Seq(NoteMaps),
            assessment : Assessments \cup {None}]

(* What was read has been checked before the next thing is asked for.      *)
InstalledKnown == seen.installed \in Versions

RegistryAccepted ==
  /\ InstalledKnown
  /\ seen.registry \in Registry
  /\ seen.registry.latest \in seen.registry.stable
  /\ seen.installed.number <= seen.registry.latest

NotesCover ==
  \A s \in DOMAIN seen.notes : seen.notes[s] # <<>> =>
    seen.notes[s] \in [Intervening(seen.registry) -> NoteKinds]

EvidenceComplete ==
  /\ seen.pi
  /\ Len(seen.notes) = Len(Sources)
  /\ \A s \in DOMAIN Sources : ~ Lacks(seen.notes[s])
  /\ ~ Oversized

(* What each outcome of the check was concluded from.                      *)
ResultJustified ==
  /\ result.outcome \in {"no-change", "non-important", "decision-required"}
  /\ result.outcome = "no-change" =>
       seen.registry # None /\ seen.installed = Stable(seen.registry.latest)
  /\ result.outcome = "non-important" =>
       /\ RegistryAccepted /\ NotesCover /\ EvidenceComplete
       /\ seen.assessment = [importance |-> "non-important",
                             category |-> "routine", confidence |-> "high"]
  /\ result.outcome = "decision-required" /\ result.available # None =>
       RegistryAccepted /\ result.available = Stable(seen.registry.latest)

CheckInv ==
  /\ SeenType
  /\ pc \in {"idle", "detect", "look-up", "collect", "evaluate", "conclude"}
  /\ pc # "idle" => status = "running" /\ decision = None
  /\ pc \in {"detect", "look-up"} => seen.notes = <<>>
  /\ pc = "look-up" => InstalledKnown
  /\ pc \in {"collect", "evaluate"} => RegistryAccepted /\ NotesCover
  /\ pc = "collect" => Len(seen.notes) <= Len(Sources)
  /\ pc = "evaluate" => EvidenceComplete
  /\ pc = "conclude" => ResultJustified
  /\ QuietIsJustified
  /\ PlansNeverGoBack

LEMMA CheckInit == Init => CheckInv
  BY DEF Init, CheckInv, SeenType, Unread, QuietIsJustified, PlansNeverGoBack, NoteMaps

LEMMA SeenUnchanged ==
  ASSUME seen' = seen
  PROVE  /\ InstalledKnown' <=> InstalledKnown
         /\ RegistryAccepted' <=> RegistryAccepted
         /\ NotesCover' <=> NotesCover
         /\ EvidenceComplete' <=> EvidenceComplete
         /\ Oversized' <=> Oversized
  BY DEF InstalledKnown, RegistryAccepted, NotesCover, EvidenceComplete, Intervening,
         Oversized, Lacks

LEMMA ConclusionUnchanged ==
  ASSUME UNCHANGED <<seen, result, status, decision>>
  PROVE  /\ ResultJustified' <=> ResultJustified
         /\ QuietIsJustified' <=> QuietIsJustified
         /\ PlansNeverGoBack' <=> PlansNeverGoBack
  BY SeenUnchanged DEF ResultJustified, QuietIsJustified, PlansNeverGoBack

LEMMA Answered ==
  ASSUME NEW outcome, NEW available, NEW assessment,
         Answer(outcome, available, assessment)
  PROVE  /\ pc' = "conclude"
         /\ result'.outcome = outcome
         /\ result'.available = available
  BY DEF Answer

(* While a check is under way nothing has been concluded.                  *)
LEMMA Running ==
  ASSUME status' = "running", decision' = None
  PROVE  QuietIsJustified' /\ PlansNeverGoBack'
  BY DEF QuietIsJustified, PlansNeverGoBack

(* A person may be asked whenever the version named is the accepted latest. *)
LEMMA Asked ==
  ASSUME NEW available, AskAPerson(available),
         available # None =>
           RegistryAccepted' /\ available = Stable(seen'.registry.latest)
  PROVE  pc' = "conclude" /\ ResultJustified'
<1>1. /\ pc' = "conclude"
      /\ result'.outcome = "decision-required"
      /\ result'.available = available
  BY Answered DEF AskAPerson
<1> QED
  BY <1>1 DEF ResultJustified

LEMMA CheckStep == CheckInv /\ [Next]_vars => CheckInv'
<1> SUFFICES ASSUME CheckInv, [Next]_vars PROVE CheckInv'
  OBVIOUS
<1>1. CASE ClaimScheduledRun
  BY <1>1 DEF CheckInv, ClaimScheduledRun, Unread, SeenType, NoteMaps, QuietIsJustified,
              PlansNeverGoBack
<1>2. CASE ManualNotification
  BY <1>2 DEF CheckInv, ManualNotification, SeenType, QuietIsJustified, PlansNeverGoBack
<1>3. CASE DetectInstalled
  <2>1. PICK installed \in Versions \cup {None}, pi \in BOOLEAN :
          /\ seen' = [[seen EXCEPT !.installed = installed] EXCEPT !.pi = pi]
          /\ IF installed = None THEN AskAPerson(None) ELSE Continue("look-up")
    BY <1>3 DEF DetectInstalled
  <2>2. /\ SeenType /\ seen.notes = <<>>
        /\ status' = "running" /\ decision' = None
    BY <1>3 DEF CheckInv, DetectInstalled
  <2>3. seen'.installed = installed /\ seen'.notes = <<>> /\ SeenType'
    BY <2>1, <2>2 DEF SeenType
  <2>4. CASE AskAPerson(None)
    BY <2>2, <2>3, <2>4, Asked, Running DEF CheckInv
  <2>5. CASE installed # None /\ Continue("look-up")
    <3>1. pc' = "look-up" /\ InstalledKnown'
      BY <2>1, <2>3, <2>5 DEF Continue, InstalledKnown
    <3> QED
      BY <2>2, <2>3, <3>1, Running DEF CheckInv
  <2> QED
    BY <2>1, <2>4, <2>5
<1>4. CASE LookUpRegistry
  <2>1. PICK registry \in Registry \cup {None} :
          /\ seen' = [seen EXCEPT !.registry = registry]
          /\ IF ~Acceptable(registry)
             THEN AskAPerson(None)
             ELSE LET latest == Stable(registry.latest)
                  IN IF seen.installed = latest
                     THEN Answer("no-change", latest, None)
                     ELSE IF Intervening(registry) = {}
                     THEN AskAPerson(latest)
                     ELSE Continue("collect")
    BY <1>4 DEF LookUpRegistry
  <2>2. /\ SeenType /\ seen.notes = <<>> /\ InstalledKnown
        /\ status' = "running" /\ decision' = None
    BY <1>4 DEF CheckInv, LookUpRegistry
  <2>3. /\ seen'.registry = registry /\ seen'.installed = seen.installed
        /\ seen'.notes = <<>> /\ SeenType'
    BY <2>1, <2>2 DEF SeenType
  <2>4. ASSUME Acceptable(registry) PROVE RegistryAccepted' /\ NotesCover'
    <3>1. registry \in Registry /\ registry # None
      BY <2>1, <2>4 DEF Acceptable
    <3>2. InstalledKnown'
      BY <2>2, <2>3 DEF InstalledKnown
    <3>3. RegistryAccepted'
      BY <2>3, <2>4, <3>1, <3>2 DEF Acceptable, RegistryAccepted
    <3>4. NotesCover'
      BY <2>3 DEF NotesCover
    <3> QED
      BY <3>3, <3>4
  <2>5. CASE \/ AskAPerson(None)
             \/ Acceptable(registry) /\ AskAPerson(Stable(registry.latest))
    <3>1. pc' = "conclude" /\ ResultJustified'
      BY <2>3, <2>4, <2>5, Asked
    <3> QED
      BY <2>2, <2>3, <3>1, Running DEF CheckInv
  <2>6. CASE /\ Acceptable(registry) /\ seen.installed = Stable(registry.latest)
             /\ Answer("no-change", Stable(registry.latest), None)
    <3>1. pc' = "conclude" /\ result'.outcome = "no-change"
      BY <2>6, Answered
    <3>2. ResultJustified'
      BY <2>3, <2>6, <3>1 DEF ResultJustified, Acceptable
    <3> QED
      BY <2>2, <2>3, <3>1, <3>2, Running DEF CheckInv
  <2>7. CASE Acceptable(registry) /\ Continue("collect")
    <3>1. pc' = "collect" /\ RegistryAccepted' /\ NotesCover'
      BY <2>4, <2>7 DEF Continue
    <3>2. Len(seen'.notes) <= Len(Sources)
      BY <2>3, BoundsAssumption DEF BoundsAssumption
    <3> QED
      BY <2>2, <2>3, <3>1, <3>2, Running DEF CheckInv
  <2> QED
    BY <2>1, <2>5, <2>6, <2>7
<1>5. CASE CollectNotes
  <2>1. PICK notes \in [Intervening(seen.registry) -> NoteKinds] \cup {<<>>} :
          seen' = [seen EXCEPT !.notes = Append(@, notes)]
    BY <1>5 DEF CollectNotes
  <2>2. /\ SeenType /\ RegistryAccepted /\ NotesCover
        /\ pc' = "collect" /\ Len(seen.notes) < Len(Sources)
        /\ status' = "running" /\ decision' = None
    BY <1>5 DEF CheckInv, CollectNotes
  <2>3. /\ seen'.notes = Append(seen.notes, notes)
        /\ seen'.registry = seen.registry /\ seen'.installed = seen.installed
    BY <2>1, <2>2 DEF SeenType
  <2>4. Intervening(seen.registry)' = Intervening(seen.registry)
    BY <2>3 DEF Intervening
  <2>5. notes \in NoteMaps
    <3>1. Intervening(seen.registry) \in SUBSET (1..Newest)
      BY <2>2 DEF Intervening, RegistryAccepted, Registry
    <3> QED
      BY <2>1, <3>1 DEF NoteMaps
  <2>6. seen.notes \in Seq(NoteMaps) /\ seen'.notes \in Seq(NoteMaps)
    BY <2>2, <2>3, <2>5 DEF SeenType
  <2>7. SeenType'
    BY <2>1, <2>2, <2>3, <2>6 DEF SeenType
  <2>8. RegistryAccepted'
    BY <2>2, <2>3 DEF RegistryAccepted, InstalledKnown
  <2>9. NotesCover'
    BY <2>1, <2>2, <2>3, <2>4, <2>6 DEF NotesCover
  <2>10. Len(seen'.notes) <= Len(Sources)
    BY <2>2, <2>3, <2>5, <2>6, BoundsAssumption DEF BoundsAssumption
  <2> QED
    BY <2>2, <2>7, <2>8, <2>9, <2>10, Running DEF CheckInv
<1>6. CASE AssessEvidence
  <2>1. /\ SeenType /\ RegistryAccepted /\ NotesCover /\ seen' = seen
        /\ status' = "running" /\ decision' = None
    BY <1>6 DEF CheckInv, AssessEvidence
  <2>2. SeenType' /\ RegistryAccepted' /\ NotesCover'
    BY <2>1, SeenUnchanged DEF SeenType
  <2>3. CASE AskAPerson(Stable(seen.registry.latest))
    <3>1. pc' = "conclude" /\ ResultJustified'
      BY <2>1, <2>2, <2>3, Asked
    <3> QED
      BY <2>1, <2>2, <3>1, Running DEF CheckInv
  <2>4. CASE /\ ~ (\E s \in DOMAIN Sources : Lacks(seen.notes[s]))
             /\ ~ Oversized
             /\ seen.pi
             /\ Continue("evaluate")
    <3>1. EvidenceComplete'
      BY <1>6, <2>1, <2>4, SeenUnchanged DEF AssessEvidence, EvidenceComplete
    <3>2. pc' = "evaluate"
      BY <2>4 DEF Continue
    <3> QED
      BY <2>1, <2>2, <3>1, <3>2, Running DEF CheckInv
  <2> QED
    BY <1>6, <2>3, <2>4 DEF AssessEvidence
<1>7. CASE Evaluate
  <2>1. PICK assessment \in EvaluatorAnswers :
          LET latest == Stable(seen.registry.latest) IN
          /\ seen' = [seen EXCEPT !.assessment = assessment]
          /\ IF assessment = None \/ ~WellFormed(assessment)
             THEN AskAPerson(latest)
             ELSE IF assessment.importance # "non-important"
             THEN Answer("decision-required", latest, assessment)
             ELSE IF assessment.confidence # "high"
             THEN AskAPerson(latest)
             ELSE Answer("non-important", latest, assessment)
    BY <1>7 DEF Evaluate
  <2>2. /\ SeenType /\ RegistryAccepted /\ NotesCover /\ EvidenceComplete
        /\ status' = "running" /\ decision' = None
    BY <1>7 DEF CheckInv, Evaluate
  <2>3. /\ seen'.assessment = assessment /\ seen'.notes = seen.notes /\ seen'.pi = seen.pi
        /\ seen'.registry = seen.registry /\ seen'.installed = seen.installed
        /\ SeenType'
    BY <2>1, <2>2 DEF SeenType, EvaluatorAnswers
  <2>4. RegistryAccepted'
    BY <2>2, <2>3 DEF RegistryAccepted, InstalledKnown
  <2>5. NotesCover'
    BY <2>2, <2>3 DEF NotesCover, Intervening
  <2>6. EvidenceComplete'
    BY <2>2, <2>3 DEF EvidenceComplete, Oversized, Lacks
  <2>7. CASE AskAPerson(Stable(seen.registry.latest))
    <3>1. pc' = "conclude" /\ ResultJustified'
      BY <2>3, <2>4, <2>7, Asked
    <3> QED
      BY <2>2, <2>3, <3>1, Running DEF CheckInv
  <2>8. CASE Answer("decision-required", Stable(seen.registry.latest), assessment)
    <3>1. /\ pc' = "conclude" /\ result'.outcome = "decision-required"
          /\ result'.available = Stable(seen'.registry.latest)
      BY <2>3, <2>8, Answered
    <3>2. ResultJustified'
      BY <2>4, <3>1 DEF ResultJustified
    <3> QED
      BY <2>2, <2>3, <3>1, <3>2, Running DEF CheckInv
  <2>9. CASE /\ WellFormed(assessment) /\ assessment # None
             /\ assessment.importance = "non-important" /\ assessment.confidence = "high"
             /\ Answer("non-important", Stable(seen.registry.latest), assessment)
    <3>1. pc' = "conclude" /\ result'.outcome = "non-important"
      BY <2>9, Answered
    <3>2. assessment = [importance |-> "non-important", category |-> "routine",
                        confidence |-> "high"]
      BY <2>9 DEF WellFormed, EvaluatorAnswers, Assessments
    <3>3. ResultJustified'
      BY <2>3, <2>4, <2>5, <2>6, <3>1, <3>2 DEF ResultJustified
    <3> QED
      BY <2>2, <2>3, <3>1, <3>3, Running DEF CheckInv
  <2> QED
    BY <2>1, <2>7, <2>8, <2>9
<1>8. CASE Conclude
  <2>1. /\ SeenType /\ ResultJustified /\ seen' = seen
        /\ pc' = "idle" /\ status' = result.outcome /\ decision' = None
    BY <1>8 DEF CheckInv, Conclude
  <2>2. CASE result.outcome = "no-change"
    <3>1. QuietIsJustified'
      BY <2>1, <2>2 DEF ResultJustified, QuietIsJustified
    <3> QED
      BY <2>1, <3>1 DEF CheckInv, SeenType, PlansNeverGoBack
  <2>3. CASE result.outcome = "non-important"
    <3>1. /\ RegistryAccepted /\ NotesCover /\ EvidenceComplete
          /\ seen.assessment = [importance |-> "non-important", category |-> "routine",
                                confidence |-> "high"]
      BY <2>1, <2>3 DEF ResultJustified
    <3>2. ASSUME NEW v \in seen.registry.stable, NEW s \in DOMAIN Sources,
                 seen.installed.number < v, v <= seen.registry.latest
          PROVE  /\ v \in DOMAIN seen.notes[s]
                 /\ seen.notes[s][v] \in {"short", "long"}
      <4>1. v \in Intervening(seen.registry)
        BY <3>2 DEF Intervening
      <4>2. ~ Lacks(seen.notes[s]) /\ s \in DOMAIN seen.notes
        BY <2>1, <3>1, BoundsAssumption DEF EvidenceComplete, SeenType, BoundsAssumption
      <4>3. seen.notes[s] \in [Intervening(seen.registry) -> NoteKinds]
        BY <3>1, <4>2 DEF NotesCover, Lacks
      <4> QED
        BY <4>1, <4>2, <4>3 DEF Lacks, NoteKinds
    <3>3. QuietIsJustified'
      BY <2>1, <2>3, <3>1, <3>2, SeenUnchanged DEF EvidenceComplete, QuietIsJustified
    <3> QED
      BY <2>1, <3>3 DEF CheckInv, SeenType, PlansNeverGoBack
  <2> QED
    BY <1>8, <2>1, <2>2, <2>3 DEF Conclude, ResultJustified
<1>9. CASE RecordPendingDecision
  <2>1. /\ SeenType /\ seen' = seen /\ pc' = "idle" /\ status' = "decision-required"
        /\ decision' = Plan
        /\ result.available # None =>
             RegistryAccepted /\ result.available = Stable(seen.registry.latest)
    BY <1>9 DEF CheckInv, RecordPendingDecision, ResultJustified
  <2>2. PlansNeverGoBack'
    BY <2>1 DEF Plan, PlansNeverGoBack, RegistryAccepted, Stable
  <2> QED
    BY <2>1, <2>2 DEF CheckInv, SeenType, QuietIsJustified
<1>10. CASE RefuseRequest \/ Interrupt
  BY <1>10, SeenUnchanged DEF CheckInv, RefuseRequest, Interrupt, SeenType, QuietIsJustified,
                              PlansNeverGoBack
<1>11. CASE UNCHANGED vars
  BY <1>11, SeenUnchanged, ConclusionUnchanged DEF CheckInv, vars, SeenType
<1> QED
  BY <1>1, <1>2, <1>3, <1>4, <1>5, <1>6, <1>7, <1>8, <1>9, <1>10, <1>11 DEF Next

(* docs/pi-mcp-handler.md:37-41: whatever the installation, the registry, any *)
(* number of sources and the evaluator answer or fail to, a Run is quiet     *)
(* only when nothing was missing.                                           *)
THEOREM QuietOnlyWhenJustified == Spec => []QuietIsJustified
<1>1. CheckInv => QuietIsJustified
  BY DEF CheckInv
<1> QED
  BY CheckInit, CheckStep, <1>1, PTL DEF Spec

(* A recorded plan that installs goes from the version read as installed to  *)
(* the registry's latest stable one, which is never older.                  *)
THEOREM PlansGoForward == Spec => []PlansNeverGoBack
<1>1. CheckInv => PlansNeverGoBack
  BY DEF CheckInv
<1> QED
  BY CheckInit, CheckStep, <1>1, PTL DEF Spec
-----------------------------------------------------------------------------
(***************************************************************************)
(* The calendar.                                                           *)
(***************************************************************************)
LEMMA Least ==
  ASSUME NEW S, S \subseteq Nat, S # {}
  PROVE  \E m \in S : \A x \in S : m <= x
<1> DEFINE R == {ss \in Nat \X Nat : ss[1] < ss[2]}
<1>1. IsWellFoundedOn(R, Nat)
  BY NatLessThanWellFounded DEF OpToRel
<1>2. PICK m \in S : \A x \in S : ~ (<<x, m>> \in R)
  <2> HIDE DEF R
  <2> QED
    BY <1>1, WFMin
<1>3. ASSUME NEW x \in S PROVE m <= x
  <2>1. <<x, m>> \in Nat \X Nat
    OBVIOUS
  <2> QED
    BY <1>2, <2>1
<1> QED
  BY <1>3

LEMMA MinOfSet ==
  ASSUME NEW S, S \subseteq Nat, S # {}
  PROVE  Min(S) \in S /\ \A x \in S : Min(S) <= x
  BY Least DEF Min

LEMMA MaxOfSet ==
  ASSUME NEW n \in Nat, NEW S, S \subseteq 0..n, S # {}
  PROVE  Max(S) \in S
<1> DEFINE T == {n - x : x \in S}
<1>1. T \subseteq Nat /\ T # {}
  <2>1. ASSUME NEW x \in S PROVE n - x \in Nat
    <3>1. x \in 0..n
      OBVIOUS
    <3> QED
      BY <3>1
  <2>2. T # {}
    OBVIOUS
  <2> QED
    BY <2>1, <2>2
<1>2. PICK m \in T : \A y \in T : m <= y
  BY <1>1, Least
<1>3. PICK x \in S : m = n - x
  BY <1>2
<1>4. \A y \in S : x >= y
  BY <1>2, <1>3
<1> QED
  BY <1>3, <1>4 DEF Max

LEMMA ElementOfSeq ==
  ASSUME NEW S, NEW s \in Seq(S)
  PROVE  /\ Len(s) \in Nat /\ DOMAIN s = 1..Len(s)
         /\ \A i \in DOMAIN s : s[i] \in S
  OBVIOUS

LEMMA OffsetAfterIsInt ==
  ASSUME NEW zone, NEW k \in Nat,
         zone.base \in Int, k # 0 => zone.shifts[k].offset \in Int
  PROVE  OffsetAfter(zone, k) \in Int
  BY DEF OffsetAfter

(* The offset a zone has at an instant, or reads a wall time with.         *)
LEMMA OffsetIsInt ==
  ASSUME NEW t \in Tasks, NEW S, S \subseteq DOMAIN t.zone.shifts
  PROVE  OffsetAfter(t.zone, Max({0} \cup S)) \in Int
<1> DEFINE Shifts == [at : Int, offset : Int]
<1>1. t.zone.base \in Int
  BY TasksAssumption DEF TasksAssumption
<1>2. PICK shifts \in Seq(Shifts) : shifts = t.zone.shifts
  BY TasksAssumption DEF TasksAssumption
<1>3. ASSUME NEW x \in Shifts PROVE x.offset \in Int
  OBVIOUS
<1> HIDE DEF Shifts
<1>4. /\ Len(shifts) \in Nat /\ DOMAIN shifts = 1..Len(shifts)
      /\ \A i \in DOMAIN shifts : shifts[i] \in Shifts
  BY ElementOfSeq
<1>5. {0} \cup S \subseteq 0..Len(shifts)
  BY <1>2, <1>4
<1>6. PICK k \in {0} \cup S : k = Max({0} \cup S)
  BY <1>4, <1>5, MaxOfSet
<1>7. k \in Nat /\ (k # 0 => t.zone.shifts[k].offset \in Int)
  BY <1>2, <1>3, <1>4, <1>5
<1>8. OffsetAfter(t.zone, k) \in Int
  BY <1>1, <1>7, OffsetAfterIsInt
<1> QED
  BY <1>6, <1>8

LEMMA LocalIsInt ==
  ASSUME NEW t \in Tasks, NEW instant \in Int
  PROVE  Local(t.zone, instant) \in Int
<1> DEFINE S == {k \in DOMAIN t.zone.shifts : t.zone.shifts[k].at <= instant}
<1>1. S \subseteq DOMAIN t.zone.shifts
  OBVIOUS
<1>2. OffsetAfter(t.zone, Max({0} \cup S)) \in Int
  BY <1>1, OffsetIsInt
<1> QED
  BY <1>2 DEF Local, ShiftAt

LEMMA AtIsInt ==
  ASSUME NEW t \in Tasks, NEW date \in Int
  PROVE  At(t, date) \in Int
<1> DEFINE wall == date * DayLength + t.time
           S == {k \in DOMAIN t.zone.shifts : WallShift(t.zone, k) <= wall}
<1>1. wall \in Int
  BY TasksAssumption, CalendarAssumption DEF TasksAssumption, CalendarAssumption
<1>2. S \subseteq DOMAIN t.zone.shifts
  OBVIOUS
<1>3. OffsetAfter(t.zone, Max({0} \cup S)) \in Int
  BY <1>2, OffsetIsInt
<1> QED
  BY <1>1, <1>3 DEF At, Instant

LEMMA DateIsInt ==
  ASSUME NEW t \in Tasks, NEW instant \in Int
  PROVE  Date(t, instant) \in Int
  BY LocalIsInt, CalendarAssumption DEF Date, CalendarAssumption

(* The round trip: a wall time that exists is due on its own date.          *)
LEMMA RoundTrip ==
  ASSUME NEW t \in Tasks, NEW date \in Int, Exists(t, date)
  PROVE  Date(t, At(t, date)) = date /\ WallTime(t, At(t, date)) = t.time
<1>1. DayLength \in Nat \ {0} /\ t.time \in 0..(DayLength - 1)
  BY TasksAssumption, CalendarAssumption DEF TasksAssumption, CalendarAssumption
<1>2. Local(t.zone, At(t, date)) = date * DayLength + t.time
  BY DEF Exists
<1>3. /\ (date * DayLength + t.time) \div DayLength = date
      /\ (date * DayLength + t.time) % DayLength = t.time
  BY <1>1
<1> QED
  BY <1>2, <1>3 DEF Date, WallTime

(* The search stops at the first date that will do.                        *)
LEMMA FirstTurn ==
  ASSUME NEW t \in Tasks, NEW current \in 0..MaxTime, NEW n \in 0..current
  PROVE  /\ Turns(t, n, current) \in Nat \ {0}
         /\ Falls(t, n, current, Turns(t, n, current))
         /\ \A k \in 1..(Turns(t, n, current) - 1) : ~ Falls(t, n, current, k)
<1> DEFINE S == {k \in 1..Horizon : Falls(t, n, current, k)}
<1>1. S \subseteq Nat /\ S # {}
  BY HorizonAssumption, CalendarAssumption DEF HorizonAssumption, CalendarAssumption
<1>2. Min(S) \in S /\ \A x \in S : Min(S) <= x
  BY <1>1, MinOfSet
<1>3. Turns(t, n, current) = Min(S)
  BY DEF Turns
<1>4. /\ Min(S) \in 1..Horizon /\ Horizon \in Nat
      /\ Falls(t, n, current, Min(S))
      /\ \A k \in 1..(Min(S) - 1) : ~ Falls(t, n, current, k)
  BY <1>2, CalendarAssumption DEF CalendarAssumption
<1> QED
  BY <1>3, <1>4
-----------------------------------------------------------------------------
(***************************************************************************)
(* The claims.  The n-th date of the interval, counted from the Task's      *)
(* first, is where the n-th claimed or skipped occurrence is.               *)
(***************************************************************************)
DateOf(n) == Date(task, task.first) + n * task.days

Dates == {Date(task, c) : c \in claims \cup {next}}

ScheduleType ==
  /\ task \in Tasks
  /\ now \in 0..MaxTime /\ next \in Nat /\ missed \in Nat
  /\ claims \subseteq Nat /\ IsFiniteSet(claims)

ClaimsAreEarlier ==
  /\ task.first \in claims \cup {next} /\ task.first <= next
  /\ \A c \in claims :
       /\ task.first <= c /\ c < next
       /\ Date(task, c) < Date(task, next)
       /\ \E n \in Nat : Date(task, c) = DateOf(n)

NextIsDue ==
  /\ WallTime(task, next) = task.time
  /\ At(task, Date(task, next)) <= next
  /\ Date(task, next) = DateOf(Cardinality(claims) + missed)

OneDateEach ==
  IsFiniteSet(Dates) /\ Cardinality(Dates) = Cardinality(claims) + 1

NonePassedOver ==
  \A n \in Nat :
    DateOf(n) < Date(task, next) /\ Exists(task, DateOf(n))
    => At(task, DateOf(n)) <= now

CalendarInv ==
  ScheduleType /\ ClaimsAreEarlier /\ NextIsDue /\ OneDateEach /\ NonePassedOver

LEMMA TaskFacts ==
  ASSUME task \in Tasks
  PROVE  /\ task.days \in Nat \ {0} /\ task.time \in 0..(DayLength - 1)
         /\ task.first \in Nat
         /\ Date(task, task.first) \in Int
         /\ \A n \in Nat : DateOf(n) \in Int
<1>1. /\ task.days \in Nat \ {0} /\ task.time \in 0..(DayLength - 1)
      /\ task.first \in Nat
  BY TasksAssumption DEF TasksAssumption
<1>2. Date(task, task.first) \in Int
  BY <1>1, DateIsInt
<1> QED
  BY <1>1, <1>2 DEF DateOf

LEMMA CalendarInit == Init => CalendarInv
<1> SUFFICES ASSUME Init PROVE CalendarInv
  OBVIOUS
<1>1. /\ task \in Tasks /\ next = task.first /\ now = 0 /\ claims = {} /\ missed = 0
  BY DEF Init
<1>2. /\ task.days \in Nat \ {0} /\ task.first \in Nat
      /\ Date(task, task.first) \in Int
      /\ \A n \in Nat : DateOf(n) \in Int
  BY <1>1, TaskFacts
<1>3. /\ WallTime(task, task.first) = task.time
      /\ At(task, Date(task, task.first)) <= task.first
  BY <1>1, TasksAssumption DEF TasksAssumption
<1>4. IsFiniteSet(claims) /\ Cardinality(claims) = 0
  BY <1>1, FS_EmptySet
<1>5. ScheduleType
  BY <1>1, <1>2, <1>4, BoundsAssumption DEF ScheduleType, BoundsAssumption
<1>6. ClaimsAreEarlier
  BY <1>1, <1>2 DEF ClaimsAreEarlier
<1>7. NextIsDue
  BY <1>1, <1>2, <1>3, <1>4 DEF NextIsDue, DateOf
<1>8. OneDateEach
  <2>1. Dates = {Date(task, next)}
    BY <1>1 DEF Dates
  <2>2. IsFiniteSet({Date(task, next)}) /\ Cardinality({Date(task, next)}) = 1
    BY FS_Singleton
  <2> QED
    BY <1>4, <2>1, <2>2 DEF OneDateEach
<1>9. NonePassedOver
  <2>1. \A n \in Nat : DateOf(n) >= Date(task, next)
    BY <1>1, <1>2 DEF DateOf
  <2> QED
    BY <1>1, <1>2, <2>1 DEF NonePassedOver
<1> QED
  BY <1>5, <1>6, <1>7, <1>8, <1>9 DEF CalendarInv

LEMMA ClaimKeepsCalendar == CalendarInv /\ ClaimScheduledRun => CalendarInv'
<1> SUFFICES ASSUME CalendarInv, ClaimScheduledRun PROVE CalendarInv'
  OBVIOUS
<1>1. /\ ScheduleType /\ ClaimsAreEarlier /\ NextIsDue /\ OneDateEach /\ NonePassedOver
  BY DEF CalendarInv
<1>2. PICK time \in now..MaxTime :
        /\ next <= time
        /\ now' = time
        /\ next' = NextOccurrence(task, next, time)
        /\ missed' = missed + MissedOccurrences(task, next, time)
  BY DEF ClaimScheduledRun
<1>3. claims' = claims \cup {next} /\ task' = task
  BY DEF ClaimScheduledRun
<1>4. /\ task \in Tasks /\ now \in 0..MaxTime /\ next \in Nat /\ missed \in Nat
      /\ claims \subseteq Nat /\ IsFiniteSet(claims)
      /\ Cardinality(claims) \in Nat /\ MaxTime \in Nat
  BY <1>1, FS_CardinalityType, BoundsAssumption DEF ScheduleType, BoundsAssumption
<1>5. /\ task.days \in Nat \ {0} /\ task.first \in Nat
      /\ Date(task, task.first) \in Int
      /\ \A n \in Nat : DateOf(n) \in Int
  BY <1>4, TaskFacts
<1>6. time \in 0..MaxTime /\ next \in 0..time
  BY <1>2, <1>4
<1> DEFINE m == Cardinality(claims) + missed
           k == Turns(task, next, time)
<1>7. m \in Nat /\ Date(task, next) = DateOf(m)
  BY <1>1, <1>4 DEF NextIsDue
<1>8. /\ k \in Nat \ {0} /\ Falls(task, next, time, k)
      /\ \A j \in 1..(k - 1) : ~ Falls(task, next, time, j)
  BY <1>4, <1>6, FirstTurn
<1>9. \A j \in Nat : Date(task, next) + j * task.days = DateOf(m + j)
  BY <1>5, <1>7 DEF DateOf
<1>10. /\ Exists(task, DateOf(m + k)) /\ At(task, DateOf(m + k)) > time
       /\ next' = At(task, DateOf(m + k)) /\ missed' = missed + (k - 1)
  BY <1>2, <1>8, <1>9 DEF Falls, NextOccurrence, MissedOccurrences
<1> HIDE DEF k
<1>11. m + k \in Nat /\ DateOf(m + k) \in Int /\ next' \in Int
  BY <1>4, <1>5, <1>7, <1>8, <1>10, AtIsInt
<1>12. /\ next' \in Nat /\ next < next' /\ missed' \in Nat
  BY <1>4, <1>6, <1>8, <1>10, <1>11
<1>13. Date(task, next') = DateOf(m + k) /\ WallTime(task, next') = task.time
  BY <1>4, <1>10, <1>11, RoundTrip
<1>14. \A n \in Nat : DateOf(n)' = DateOf(n)
  BY <1>3 DEF DateOf
<1>15. Date(task, next) < Date(task, next')
  BY <1>5, <1>7, <1>8, <1>13 DEF DateOf
<1>16. ScheduleType'
  <2>1. IsFiniteSet(claims')
    BY <1>3, <1>4, FS_AddElement
  <2> QED
    BY <1>2, <1>3, <1>4, <1>6, <1>12, <2>1 DEF ScheduleType
<1>17. ClaimsAreEarlier'
  <2>1. task.first \in claims' \cup {next'} /\ task.first <= next'
    BY <1>1, <1>3, <1>4, <1>5, <1>12 DEF ClaimsAreEarlier
  <2>2. ASSUME NEW c \in claims'
        PROVE  /\ task.first <= c /\ c < next'
               /\ Date(task, c) < Date(task, next')
               /\ \E n \in Nat : Date(task, c) = DateOf(n)
    <3>1. CASE c = next
      BY <1>1, <1>7, <1>12, <1>15, <3>1 DEF ClaimsAreEarlier
    <3>2. CASE c \in claims
      <4>1. /\ task.first <= c /\ c < next /\ Date(task, c) < Date(task, next)
            /\ \E n \in Nat : Date(task, c) = DateOf(n)
        BY <1>1, <3>2 DEF ClaimsAreEarlier
      <4>2. Date(task, c) \in Int /\ c \in Nat
        BY <1>4, <1>5, <3>2, <4>1
      <4>3. Date(task, next) \in Int /\ Date(task, next') \in Int
        BY <1>5, <1>7, <1>11, <1>13
      <4> QED
        BY <1>4, <1>12, <1>15, <4>1, <4>2, <4>3
    <3> QED
      BY <1>3, <2>2, <3>1, <3>2
  <2> QED
    BY <1>3, <1>14, <2>1, <2>2 DEF ClaimsAreEarlier
<1>18. Cardinality(claims') = Cardinality(claims) + 1
  <2>1. next \notin claims
    BY <1>1, <1>4 DEF ClaimsAreEarlier
  <2> QED
    BY <1>3, <1>4, <2>1, FS_AddElement
<1>19. NextIsDue'
  <2>1. At(task, Date(task, next')) = next'
    BY <1>10, <1>13
  <2>2. Cardinality(claims') + missed' = m + k
    BY <1>4, <1>8, <1>10, <1>18
  <2> QED
    BY <1>3, <1>11, <1>12, <1>13, <1>14, <2>1, <2>2 DEF NextIsDue
<1>20. OneDateEach'
  <2>1. Dates' = Dates \cup {Date(task, next')}
    BY <1>3 DEF Dates
  <2>2. Date(task, next') \notin Dates
    <3>1. ASSUME NEW c \in claims \cup {next} PROVE Date(task, c) # Date(task, next')
      <4>1. c \in claims'
        BY <1>3
      <4>2. Date(task, c) < Date(task, next') /\ \E n \in Nat : Date(task, c) = DateOf(n)
        BY <1>3, <1>14, <1>17, <4>1 DEF ClaimsAreEarlier
      <4> QED
        BY <1>5, <1>11, <1>13, <4>2
    <3> QED
      BY <3>1 DEF Dates
  <2> QED
    BY <1>1, <1>4, <1>18, <2>1, <2>2, FS_AddElement DEF OneDateEach
<1>21. NonePassedOver'
  <2>1. ASSUME NEW n \in Nat, DateOf(n) < Date(task, next'), Exists(task, DateOf(n))
        PROVE  At(task, DateOf(n)) <= time
    <3>1. At(task, DateOf(n)) \in Int
      BY <1>4, <1>5, AtIsInt
    <3>2. CASE n < m
      <4>1. DateOf(n) < Date(task, next)
        BY <1>5, <1>7, <3>2 DEF DateOf
      <4> QED
        BY <1>1, <1>2, <1>4, <2>1, <3>1, <4>1 DEF NonePassedOver
    <3>3. CASE n = m
      BY <1>1, <1>2, <1>4, <1>7, <3>1, <3>3 DEF NextIsDue
    <3>4. CASE n > m
      <4>1. n < m + k
        BY <1>5, <1>7, <1>8, <1>13, <2>1 DEF DateOf
      <4>2. n - m \in 1..(k - 1) /\ n = m + (n - m)
        BY <1>7, <1>8, <3>4, <4>1
      <4>3. ~ (Exists(task, DateOf(n)) /\ At(task, DateOf(n)) > time)
        BY <1>8, <1>9, <4>2 DEF Falls
      <4> QED
        BY <1>6, <2>1, <3>1, <4>3
    <3> QED
      BY <1>7, <3>2, <3>3, <3>4
  <2> QED
    BY <1>2, <1>3, <1>14, <2>1 DEF NonePassedOver
<1> QED
  BY <1>16, <1>17, <1>19, <1>20, <1>21 DEF CalendarInv
LEMMA CalendarStep == CalendarInv /\ [Next]_vars => CalendarInv'
<1> SUFFICES ASSUME CalendarInv, [Next]_vars PROVE CalendarInv'
  OBVIOUS
<1>1. CASE ClaimScheduledRun
  BY <1>1, ClaimKeepsCalendar
<1>2. CASE UNCHANGED schedule
  BY <1>2 DEF schedule, CalendarInv, ScheduleType, ClaimsAreEarlier, NextIsDue, OneDateEach,
              NonePassedOver, DateOf, Dates
<1>3. ClaimScheduledRun \/ UNCHANGED schedule
  BY DEF Next, vars, ManualNotification, DetectInstalled, LookUpRegistry, CollectNotes,
         AssessEvidence, Evaluate, Conclude, RecordPendingDecision, RefuseRequest, Interrupt
<1> QED
  BY <1>1, <1>2, <1>3

LEMMA FirstClaim == CalendarInv => Min(claims \cup {next}) = task.first
<1> SUFFICES ASSUME CalendarInv PROVE Min(claims \cup {next}) = task.first
  OBVIOUS
<1> DEFINE S == claims \cup {next}
<1>1. S \subseteq Nat /\ S # {} /\ task.first \in S /\ \A c \in S : task.first <= c
  BY DEF CalendarInv, ScheduleType, ClaimsAreEarlier
<1>2. Min(S) \in S /\ \A x \in S : Min(S) <= x
  BY <1>1, MinOfSet
<1> QED
  BY <1>1, <1>2

LEMMA CountHolds == CalendarInv => MissedAreCounted
<1> SUFFICES ASSUME CalendarInv PROVE MissedAreCounted
  OBVIOUS
<1>1. /\ Date(task, next) = Date(task, task.first) + (Cardinality(claims) + missed) * task.days
      /\ task \in Tasks /\ Cardinality(claims) \in Nat /\ missed \in Nat
  BY FS_CardinalityType DEF CalendarInv, NextIsDue, ScheduleType, DateOf
<1>2. task.days \in Nat \ {0} /\ Date(task, task.first) \in Int
  BY <1>1, TaskFacts
<1> QED
  BY <1>1, <1>2, FirstClaim DEF MissedAreCounted

LEMMA Multiples ==
  ASSUME NEW d \in Nat \ {0}
  PROVE  /\ \A n \in Nat : (n * d) % d = 0
         /\ \A x \in Nat : x % d = 0 => x = (x \div d) * d /\ x \div d \in Nat
  OBVIOUS

LEMMA DatesHold == CalendarInv => CalendarKept
<1> SUFFICES ASSUME CalendarInv PROVE CalendarKept
  OBVIOUS
<1>1. ScheduleType /\ ClaimsAreEarlier /\ NextIsDue /\ OneDateEach /\ NonePassedOver
  BY DEF CalendarInv
<1>2. /\ task \in Tasks /\ Cardinality(claims) + missed \in Nat
  BY <1>1, FS_CardinalityType DEF ScheduleType
<1>3. /\ task.days \in Nat \ {0} /\ Date(task, task.first) \in Int
      /\ \A n \in Nat : DateOf(n) \in Int
  BY <1>2, TaskFacts
<1>4. Min(claims \cup {next}) = task.first
  BY FirstClaim
<1>5. ASSUME NEW c \in claims \cup {next}
      PROVE  (Date(task, c) - Date(task, task.first)) % task.days = 0
  <2>1. PICK n \in Nat : Date(task, c) = DateOf(n)
    BY <1>1, <1>2 DEF ClaimsAreEarlier, NextIsDue
  <2>2. Date(task, c) - Date(task, task.first) = n * task.days
    BY <1>3, <2>1 DEF DateOf
  <2> QED
    BY <1>3, <2>2, Multiples
<1>6. ASSUME NEW date \in Date(task, task.first)..(Date(task, next) - 1),
             (date - Date(task, task.first)) % task.days = 0, Exists(task, date)
      PROVE  At(task, date) <= now
  <2>1. Date(task, next) \in Int
    BY <1>1, <1>2, <1>3 DEF NextIsDue
  <2>2. date - Date(task, task.first) \in Nat /\ date < Date(task, next) /\ date \in Int
    BY <1>3, <2>1
  <2>3. PICK n \in Nat : date - Date(task, task.first) = n * task.days
    BY <1>3, <1>6, <2>2, Multiples
  <2>4. date = DateOf(n)
    BY <1>3, <2>2, <2>3 DEF DateOf
  <2> QED
    BY <1>1, <1>6, <2>2, <2>4 DEF NonePassedOver
<1>7. WallTime(task, next) = task.time
  BY <1>1 DEF NextIsDue
<1>8. Cardinality({Date(task, c) : c \in claims \cup {next}}) = Cardinality(claims) + 1
  BY <1>1 DEF OneDateEach, Dates
<1> QED
  BY <1>4, <1>5, <1>6, <1>7, <1>8 DEF CalendarKept

(* README.md:174-176: over any sequence of late claims every date of the      *)
(* interval is a Run or is counted among the skipped ones.                   *)
THEOREM NoDateIsLost == Spec => []MissedAreCounted
  BY CalendarInit, CalendarStep, CountHolds, PTL DEF Spec

(* README.md:171-173: in any zone a Task falls due at its own wall time, once *)
(* on a date of its interval, and passes over no date that has the time and   *)
(* is still ahead.                                                          *)
THEOREM DueDatesAreKept == Spec => []CalendarKept
  BY CalendarInit, CalendarStep, DatesHold, PTL DEF Spec
-----------------------------------------------------------------------------
(***************************************************************************)
(* Types.                                                                  *)
(***************************************************************************)
(* An evaluator is asked about all the versions that are to be reviewed.   *)
EvidenceCovers ==
  pc = "evaluate" => \A s \in DOMAIN Sources :
    DOMAIN seen.notes[s] = Intervening(seen.registry)

LEMMA EvidenceIsCovering == CheckInv => EvidenceCovers
<1> SUFFICES ASSUME CheckInv, pc = "evaluate" PROVE EvidenceCovers
  BY DEF EvidenceCovers
<1>1. NotesCover /\ EvidenceComplete /\ SeenType
  BY DEF CheckInv
<1>2. DOMAIN Sources = 1..Len(Sources) /\ DOMAIN seen.notes = 1..Len(seen.notes)
  BY <1>1, BoundsAssumption DEF SeenType, BoundsAssumption
<1>3. \A s \in DOMAIN Sources : s \in DOMAIN seen.notes /\ seen.notes[s] # <<>>
  BY <1>1, <1>2 DEF EvidenceComplete, Lacks
<1> QED
  BY <1>1, <1>3 DEF NotesCover, EvidenceCovers

(* Sources are only asked when there is a version to review.               *)
LEMMA ReviewIsAhead ==
  ASSUME CheckInv, NEW registry \in Registry, seen.installed \in Versions,
         Intervening(registry) # {}
  PROVE  seen.installed.number < registry.latest
<1>1. PICK v \in registry.stable : seen.installed.number < v /\ v <= registry.latest
  BY DEF Intervening
<1>2. v \in Int /\ registry.latest \in Int /\ seen.installed.number \in Int
  BY BoundsAssumption DEF BoundsAssumption, Registry, Versions
<1> QED
  BY <1>1, <1>2

LEMMA TypeInit == Init => TypeOK
  BY TasksAssumption, BoundsAssumption
     DEF Init, TypeOK, TasksAssumption, BoundsAssumption

LEMMA ClaimKeepsTypes ==
  TypeOK /\ CalendarInv' /\ ClaimScheduledRun => TypeOK'
<1> SUFFICES ASSUME TypeOK, CalendarInv', ClaimScheduledRun PROVE TypeOK'
  OBVIOUS
<1>1. PICK time \in now..MaxTime : next <= time /\ now' = time
  BY DEF ClaimScheduledRun
<1>2. /\ next \in Nat /\ now \in Nat /\ MaxTime \in Nat /\ claims \subseteq 0..MaxTime
  BY BoundsAssumption DEF TypeOK, BoundsAssumption
<1>3. next \in 0..MaxTime
  BY <1>1, <1>2
<1>4. claims' \subseteq 0..MaxTime
  BY <1>2, <1>3 DEF ClaimScheduledRun
<1>5. task' \in Tasks /\ now' \in 0..MaxTime /\ next' \in Nat /\ missed' \in Nat
  BY DEF CalendarInv, ScheduleType
<1>6. pc' = "detect" /\ status' = "running" /\ decision' = None
  BY DEF ClaimScheduledRun
<1> QED
  BY <1>4, <1>5, <1>6 DEF TypeOK

LEMMA TypeStep ==
  TypeOK /\ CheckInv /\ [Next]_vars /\ CheckInv' /\ CalendarInv' => TypeOK'
<1> SUFFICES ASSUME TypeOK, CheckInv, [Next]_vars, CheckInv', CalendarInv',
                    ~ ClaimScheduledRun
             PROVE  TypeOK'
  BY ClaimKeepsTypes
<1>1. UNCHANGED schedule
  BY DEF Next, vars, ManualNotification, DetectInstalled, LookUpRegistry, CollectNotes,
         AssessEvidence, Evaluate, Conclude, RecordPendingDecision, RefuseRequest, Interrupt
<1>2. /\ task' \in Tasks /\ now' \in 0..MaxTime /\ next' \in Nat /\ missed' \in Nat
      /\ claims' \subseteq 0..MaxTime
  BY <1>1 DEF TypeOK, schedule
<1>3. pc' \in {"look-up", "collect", "evaluate"} => seen'.installed \in Versions
  BY DEF CheckInv, RegistryAccepted, InstalledKnown
<1>4. EvidenceCovers'
  BY EvidenceIsCovering, PTL
<1>5. pc' \in {"collect", "evaluate"} => seen'.installed.number < seen'.registry.latest
  <2>1. CASE pc \in {"collect", "evaluate"}
    <3>1. seen.installed.number < seen.registry.latest
      BY <2>1 DEF TypeOK
    <3>2. seen'.installed = seen.installed /\ seen'.registry = seen.registry
      BY <2>1 DEF Next, vars, ManualNotification, DetectInstalled, LookUpRegistry,
         CollectNotes, AssessEvidence, Evaluate, Conclude, RecordPendingDecision,
         RefuseRequest, Interrupt, CheckInv, SeenType
    <3> QED
      BY <3>1, <3>2
  <2>2. CASE pc \notin {"collect", "evaluate"} /\ pc' \in {"collect", "evaluate"}
    <3>1. LookUpRegistry
      BY <2>2 DEF Next, vars, ManualNotification, DetectInstalled, CollectNotes,
         AssessEvidence, Evaluate, Conclude, RecordPendingDecision, RefuseRequest,
         Interrupt, Answer, AskAPerson, Continue
    <3>2. PICK registry \in Registry \cup {None} :
            /\ seen' = [seen EXCEPT !.registry = registry]
            /\ Acceptable(registry) /\ Intervening(registry) # {}
      BY <2>2, <3>1 DEF LookUpRegistry, Answer, AskAPerson
    <3>3. registry \in Registry /\ seen.installed \in Versions
      BY <3>1, <3>2 DEF Acceptable, LookUpRegistry, TypeOK
    <3>4. seen'.installed = seen.installed /\ seen'.registry = registry
      BY <3>2 DEF CheckInv, SeenType
    <3> QED
      BY <3>2, <3>3, <3>4, ReviewIsAhead
  <2> QED
    BY <2>1, <2>2
<1>6. /\ status' \in {"none", "running", "manual-action-due", "no-change",
                      "non-important", "decision-required", "failed"}
      /\ decision' # None => status' = "decision-required"
  <2>1. CASE Conclude
    BY <2>1 DEF Conclude, CheckInv, ResultJustified
  <2>2. CASE ManualNotification \/ RecordPendingDecision \/ RefuseRequest
    BY <2>2 DEF ManualNotification, RecordPendingDecision, RefuseRequest, CheckInv
  <2>3. CASE UNCHANGED <<status, decision>>
    BY <2>3 DEF TypeOK
  <2> QED
    BY <2>1, <2>2, <2>3 DEF Next, vars, DetectInstalled, LookUpRegistry, CollectNotes,
       AssessEvidence, Evaluate, Interrupt
<1> QED
  BY <1>2, <1>3, <1>4, <1>5, <1>6 DEF TypeOK, CheckInv, EvidenceCovers

(* Each call of PiMcpReleaseChecker.check is made with what it needs: the     *)
(* installed version before the registry, a newer accepted one before the     *)
(* sources, and usable notes for every version between before the evaluator.  *)
THEOREM TypeCorrect == Spec => []TypeOK
  BY TypeInit, TypeStep, CheckInit, CheckStep, CalendarInit, CalendarStep, PTL DEF Spec
=============================================================================
