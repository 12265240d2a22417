-------------------------- MODULE TelegramListener --------------------------
(***************************************************************************)
(* telegram_decisions.py, decisions.py and one_shot.py: how a pending        *)
(* Decision reaches the operator's chat, how exactly one response to it is   *)
(* stored although the command line and Telegram callbacks race for it, and  *)
(* how an approval wakes the one-shot run-due unit.                          *)
(*                                                                           *)
(* The listener is one asynchronous loop: each of its steps below is one     *)
(* database transaction, one Telegram call or one systemctl call.  It can    *)
(* exit at any of them; systemd restarts it, and since its polling offset is *)
(* kept in memory only, Telegram then delivers unconfirmed updates again.    *)
(***************************************************************************)
EXTENDS Naturals, Sequences, FiniteSets

CONSTANTS
    Decisions,     \* Decisions that handlers may request
    None,          \* no response, no answer, no offset
    MaxPresses,    \* bound: buttons pressed in the chat
    MaxFaults,     \* bound: exits, kills and failing external calls
    MaxExpired     \* bound: callback queries Telegram stops accepting answers to

Actions   == {"approve", "reject", "details"}
Responses == {"approve", "reject"}
Channels  == {"cli", "telegram"}
Answers   == {"unknown", "already", "out-of-order", "details", "rejected",
              "requested", "queued"}
Places    == {"down", "triggers", "mark", "callbacks", "transition", "details",
              "record-details", "request", "mark-approved", "answer", "sends",
              "record-message", "polling"}

ASSUME ListenerAssumption ==
    /\ None \notin Actions \cup Answers \cup {"wanted", "requested"}
    /\ None \notin Nat \cup (Responses \X Channels)
    /\ MaxPresses \in Nat /\ MaxFaults \in Nat /\ MaxExpired \in Nat

VARIABLES
    \* the database
    status,     \* status[d]: decisions.status, "settled" once an outcome is stored
    response,   \* response[d]: <<response_action, response_channel>> or None
    trigger,    \* trigger[d]: approval_run_trigger_requests row of d
    delivery,   \* delivery[d]: decision_notification_deliveries.status
    mapped,     \* Decisions with a recorded message to press buttons on
    removed,    \* Decisions whose Task has been removed
    \* Telegram
    orphans,    \* Decisions with a message in the chat that was never recorded
    pressed,    \* pressed[u]: the callback of update u
    confirmed,  \* updates Telegram has forgotten, confirmed by a later offset
    expired,    \* updates whose callback query can no longer be answered
    \* the listener
    pc,         \* where the listener is
    offset,     \* offset of the next get_updates, None after a start
    batch,      \* <<first, last>> update of the batch still to be handled
    todo,       \* Decisions of the list it is working through
    subject,    \* the Decision of that list it is working on
    reply,      \* the answer it is about to give
    answer,     \* answer[u]: the last answer given to update u
    \* the scheduler unit
    runner,     \* what the run-due process of the unit is doing
    faults

database == <<status, response, trigger, delivery, mapped, removed>>
telegram == <<orphans, pressed, confirmed, expired>>
work     == <<offset, batch, todo, subject>>
listener == <<pc, offset, batch, todo, subject, reply, answer>>
vars == <<status, response, trigger, delivery, mapped, removed, orphans, pressed,
          confirmed, expired, pc, offset, batch, todo, subject, reply, answer, runner,
          faults>>

NoBatch == <<1, 0>>
Updates == 1..MaxPresses

Init ==
    /\ status = [d \in Decisions |-> "absent"]
    /\ response = [d \in Decisions |-> None]
    /\ trigger = [d \in Decisions |-> None]
    /\ delivery = [d \in Decisions |-> "pending"]
    /\ mapped = {} /\ removed = {}
    /\ orphans = {} /\ pressed = <<>> /\ confirmed = 0 /\ expired = {}
    /\ pc = "down" /\ offset = None /\ batch = NoBatch /\ todo = {}
    /\ subject = None /\ reply = None
    /\ answer = [u \in Updates |-> None]
    /\ runner = "none"
    /\ faults = 0

(***************************************************************************)
(* Decisions, and the one transition that responds to them.                  *)
(***************************************************************************)
RecordPendingDecision(d) ==
    /\ status[d] = "absent"
    /\ d \notin removed
    /\ status' = [status EXCEPT ![d] = "pending"]
    /\ UNCHANGED <<response, trigger, delivery, mapped, removed, telegram, listener,
                   runner, faults>>

RemoveTask(d) ==
    /\ d \notin removed
    /\ removed' = removed \cup {d}
    /\ UNCHANGED <<status, response, trigger, delivery, mapped, telegram, listener,
                   runner, faults>>

MayRespond(d, action) ==
    /\ response[d] = None
    /\ status[d] = "pending"
    /\ action = "approve" => d \notin removed

RespondByAction(d, action, channel) ==          \* mutant: stores the action as status
    /\ response' = [response EXCEPT ![d] = <<action, channel>>]
    /\ status' = [status EXCEPT ![d] = action]
    /\ trigger' = [trigger EXCEPT ![d] = IF action = "approve" THEN "wanted" ELSE @]

(* The accepting half of transition_decision: response, approval Run and     *)
(* trigger request are one transaction.                                      *)
Respond(d, action, channel) ==
    /\ response' = [response EXCEPT ![d] = <<action, channel>>]
    /\ status' = [status EXCEPT ![d] = IF action = "approve" THEN "approved"
                                                              ELSE "rejected"]
    /\ trigger' = [trigger EXCEPT ![d] = IF action = "approve" THEN "wanted" ELSE @]

RespondByCli(d, action) ==
    /\ MayRespond(d, action)
    /\ Respond(d, action, "cli")
    /\ UNCHANGED <<delivery, mapped, removed, telegram, listener, runner, faults>>

(***************************************************************************)
(* The operator and Telegram.                                                *)
(***************************************************************************)
(* A button of a message of d is pressed; the message may be one that was    *)
(* sent but never recorded.                                                  *)
Press(d, action, known) ==
    /\ Len(pressed) < MaxPresses
    /\ d \in IF known THEN mapped ELSE orphans
    /\ pressed' = Append(pressed, [decision |-> d, action |-> action, known |-> known])
    /\ UNCHANGED <<database, orphans, confirmed, expired, listener, runner, faults>>

Expire(u) ==
    /\ Cardinality(expired) < MaxExpired
    /\ u \in (confirmed + 1)..Len(pressed) \ expired
    /\ expired' = expired \cup {u}
    /\ UNCHANGED <<database, orphans, pressed, confirmed, listener, runner, faults>>

(***************************************************************************)
(* The one-shot unit: run-due claims approved plans first, then the Tasks.   *)
(***************************************************************************)
(* The installed unit is Type=oneshot: while its process runs the unit is    *)
(* "activating", never "active".                                             *)
UnitState == IF runner = "none" THEN "inactive" ELSE "activating"

(* `systemctl start --no-block`: a start job for a unit that is already      *)
(* being started merges with the job that runs.                              *)
StartUnit == runner' = IF UnitState = "inactive" THEN "approvals" ELSE runner

TimerElapses ==
    /\ runner = "none"
    /\ runner' = "approvals"
    /\ UNCHANGED <<database, telegram, listener, faults>>

ExecuteApproved(d) ==
    /\ runner = "approvals"
    /\ status[d] = "approved"
    /\ status' = [status EXCEPT ![d] = "settled"]
    /\ UNCHANGED <<response, trigger, delivery, mapped, removed, telegram, listener,
                   runner, faults>>

AdvanceRunner ==
    /\ \/ /\ runner = "approvals"
          /\ \A d \in Decisions : status[d] # "approved"
          /\ runner' = "scheduled"
       \/ runner = "scheduled" /\ runner' = "none"
    /\ UNCHANGED <<database, telegram, listener, faults>>

RunnerDies ==
    /\ runner # "none"
    /\ faults < MaxFaults
    /\ faults' = faults + 1
    /\ runner' = "none"
    /\ UNCHANGED <<database, telegram, listener>>

(***************************************************************************)
(* The listener: requests that are still wanted.                             *)
(***************************************************************************)
Exit ==
    /\ pc' = "down"
    /\ offset' = None /\ batch' = NoBatch /\ todo' = {}
    /\ subject' = None /\ reply' = None
    /\ UNCHANGED answer

(* The callback being handled and its Decision.                              *)
Update  == pressed[batch[1]]
Current == Update.decision

(* A kill, an exception of a Telegram call, a database error.  A message     *)
(* that was sent and not yet recorded stays in the chat.                     *)
ListenerExits ==
    /\ pc # "down"
    /\ faults < MaxFaults
    /\ faults' = faults + 1
    /\ orphans' = CASE pc = "record-message" -> orphans \cup {subject}
                    [] pc = "record-details" -> orphans \cup {Current}
                    [] OTHER                 -> orphans
    /\ Exit
    /\ UNCHANGED <<database, pressed, confirmed, expired, runner>>

WantedOfLiveTasks ==                            \* mutant: removed Tasks are left out
    {d \in Decisions : trigger[d] = "wanted" /\ d \notin removed}

Wanted == {d \in Decisions : trigger[d] = "wanted"}

(* A start, and each return of get_updates, begins with the stored requests. *)
Begin(first, last) ==
    /\ pc' = "triggers"
    /\ todo' = Wanted
    /\ batch' = <<first, last>>

StartListener ==
    /\ pc = "down"
    /\ Begin(1, 0)
    /\ UNCHANGED <<database, telegram, offset, subject, reply, answer, runner, faults>>

PollConfirming ==                               \* mutant: confirms what it returns
    /\ pc = "polling"
    /\ confirmed' = Len(pressed)
    /\ Begin(confirmed + 1, Len(pressed))
    /\ UNCHANGED <<database, orphans, pressed, expired, offset, subject, reply, answer,
                   runner, faults>>

Poll ==
    /\ pc = "polling"
    /\ LET forgotten == IF offset = None THEN confirmed ELSE offset - 1 IN
       /\ confirmed' = forgotten
       /\ Begin(forgotten + 1, Len(pressed))
    /\ UNCHANGED <<database, orphans, pressed, expired, offset, subject, reply, answer,
                   runner, faults>>

MarkRequested(d) ==
    trigger' = [trigger EXCEPT ![d] = IF @ = "wanted" THEN "requested" ELSE @]

RequestRefused ==
    faults < MaxFaults /\ faults' = faults + 1 /\ UNCHANGED runner

(* _request_pending_approval_runs: wait while the unit is active, start it,  *)
(* then mark the request; a refused request stays wanted.                    *)
RequestPending ==
    /\ pc = "triggers"
    /\ todo # {}
    /\ UnitState # "active"
    /\ \E d \in todo :
         /\ todo' = todo \ {d}
         /\ \/ pc' = "mark" /\ subject' = d /\ StartUnit /\ UNCHANGED faults
            \/ RequestRefused /\ UNCHANGED <<pc, subject>>
    /\ UNCHANGED <<database, telegram, offset, batch, reply, answer>>

MarkPending ==
    /\ pc = "mark"
    /\ MarkRequested(subject)
    /\ pc' = "triggers" /\ subject' = None
    /\ UNCHANGED <<status, response, delivery, mapped, removed, telegram, offset, batch,
                   todo, reply, answer, runner, faults>>

FinishTriggers ==
    /\ pc = "triggers"
    /\ todo = {}
    /\ pc' = "callbacks"
    /\ UNCHANGED <<database, telegram, work, reply, answer, runner, faults>>

(***************************************************************************)
(* The listener: one callback after the other.                               *)
(***************************************************************************)
TargetOf(action) == IF action = "approve" THEN "approved" ELSE "rejected"

GoAnswer(text) == pc' = "answer" /\ reply' = text

(* _decision_for_callback and the status it saw: nothing to do, or go on.    *)
ReadDecision ==
    /\ pc = "callbacks"
    /\ batch[1] <= batch[2]
    /\ \/ ~Update.known /\ GoAnswer("unknown")
       \/ /\ Update.known /\ status[Current] # "pending"
          /\ GoAnswer(IF Update.action # "details"
                         /\ status[Current] # TargetOf(Update.action)
                      THEN "out-of-order" ELSE "already")
       \/ /\ Update.known /\ status[Current] = "pending"
          /\ pc' = IF Update.action = "details" THEN "details" ELSE "transition"
          /\ UNCHANGED reply
    /\ UNCHANGED <<database, telegram, work, answer, runner, faults>>

SendDetails ==
    /\ pc = "details"
    /\ pc' = "record-details"
    /\ UNCHANGED <<database, telegram, work, reply, answer, runner,
                   faults>>

(* The new message is mapped: its buttons are those of any other.            *)
RecordDetails ==
    /\ pc = "record-details"
    /\ mapped' = mapped \cup {Current}
    /\ GoAnswer("details")
    /\ UNCHANGED <<status, response, trigger, delivery, removed, telegram, work,
                   answer, runner, faults>>

AfterResponse(action) ==
    IF action = "approve" THEN pc' = "request" /\ UNCHANGED reply ELSE GoAnswer("rejected")

RespondAsRead ==                                \* mutant: the first read is trusted
    /\ pc = "transition"
    /\ Respond(Current, Update.action, "telegram")
    /\ AfterResponse(Update.action)
    /\ UNCHANGED <<delivery, mapped, removed, telegram, work, answer,
                   runner, faults>>

(* transition_decision decides on the row it reads in its own transaction.   *)
RespondByCallback ==
    /\ pc = "transition"
    /\ \/ /\ MayRespond(Current, Update.action)
          /\ Respond(Current, Update.action, "telegram")
          /\ AfterResponse(Update.action)
       \/ /\ ~MayRespond(Current, Update.action)
          /\ GoAnswer(IF response[Current] # None /\ response[Current][1] = Update.action
                      THEN "already" ELSE "out-of-order")
          /\ UNCHANGED <<status, response, trigger>>
    /\ UNCHANGED <<delivery, mapped, removed, telegram, work, answer,
                   runner, faults>>

RequestAssumed ==                               \* mutant: the result is ignored
    /\ pc = "request"
    /\ StartUnit \/ UNCHANGED runner
    /\ GoAnswer("requested")
    /\ UNCHANGED <<database, telegram, work, answer, faults>>

RequestApproved ==
    /\ pc = "request"
    /\ UnitState # "active"
    /\ \/ pc' = "mark-approved" /\ StartUnit /\ UNCHANGED <<reply, faults>>
       \/ RequestRefused /\ GoAnswer("queued")
    /\ UNCHANGED <<database, telegram, work, answer>>

MarkApproved ==
    /\ pc = "mark-approved"
    /\ MarkRequested(Current)
    /\ GoAnswer("requested")
    /\ UNCHANGED <<status, response, delivery, mapped, removed, telegram, work,
                   answer, runner, faults>>

AnswerCallback ==
    /\ pc = "answer"
    /\ batch[1] \notin expired
    /\ answer' = [answer EXCEPT ![batch[1]] = reply]
    /\ batch' = <<batch[1] + 1, batch[2]>>
    /\ pc' = "callbacks"
    /\ reply' = None
    /\ UNCHANGED <<database, telegram, offset, todo, subject, runner, faults>>

(* Telegram refuses the answer to an expired query; the exception ends the   *)
(* listener and nothing of the batch has been confirmed.                     *)
AnswerRefused ==
    /\ pc = "answer"
    /\ batch[1] \in expired
    /\ Exit
    /\ UNCHANGED <<database, telegram, runner, faults>>

(***************************************************************************)
(* The listener: pending Decisions nobody has been told about.               *)
(***************************************************************************)
FinishBatchSendingOnce ==                       \* mutant: a failed send is final
    /\ pc = "callbacks" /\ batch[1] > batch[2]
    /\ offset' = IF batch[2] > confirmed THEN batch[2] + 1 ELSE offset
    /\ batch' = NoBatch /\ pc' = "sends"
    /\ todo' = {d \in Decisions : status[d] = "pending" /\ delivery[d] = "pending"}
    /\ UNCHANGED <<database, telegram, subject, reply, answer, runner, faults>>

(* The offset only moves when the whole batch was handled.                   *)
FinishBatch ==
    /\ pc = "callbacks"
    /\ batch[1] > batch[2]
    /\ offset' = IF batch[2] > confirmed THEN batch[2] + 1 ELSE offset
    /\ batch' = NoBatch
    /\ pc' = "sends"
    /\ todo' = {d \in Decisions : status[d] = "pending"}
    /\ UNCHANGED <<database, telegram, subject, reply, answer, runner, faults>>

SkipMapped ==
    /\ pc = "sends"
    /\ \E d \in todo \cap mapped : todo' = todo \ {d}
    /\ UNCHANGED <<database, telegram, pc, offset, batch, subject, reply, answer, runner,
                   faults>>

(* The message is sent and then recorded, or its delivery is recorded as     *)
(* failed.                                                                   *)
SendMessage ==
    /\ pc = "sends"
    /\ \E d \in todo \ mapped :
         /\ todo' = todo \ {d}
         /\ \/ pc' = "record-message" /\ subject' = d /\ UNCHANGED <<delivery, faults>>
            \/ /\ faults < MaxFaults /\ faults' = faults + 1
               /\ delivery' = [delivery EXCEPT ![d] = "retryable-failure"]
               /\ UNCHANGED <<pc, subject>>
    /\ UNCHANGED <<status, response, trigger, mapped, removed, telegram, offset, batch,
                   reply, answer, runner>>

RecordMessage ==
    /\ pc = "record-message"
    /\ mapped' = mapped \cup {subject}
    /\ delivery' = [delivery EXCEPT ![subject] = "delivered"]
    /\ pc' = "sends" /\ subject' = None
    /\ UNCHANGED <<status, response, trigger, removed, telegram, offset, batch, todo,
                   reply, answer, runner, faults>>

FinishSends ==
    /\ pc = "sends"
    /\ todo = {}
    /\ pc' = "polling"
    /\ UNCHANGED <<database, telegram, work, reply, answer, runner, faults>>

(***************************************************************************)
(* The specification.                                                        *)
(***************************************************************************)
Listen ==
    \/ StartListener \/ Poll
    \/ RequestPending \/ MarkPending \/ FinishTriggers
    \/ ReadDecision \/ SendDetails \/ RecordDetails
    \/ RespondByCallback \/ RequestApproved \/ MarkApproved
    \/ AnswerCallback \/ AnswerRefused \/ FinishBatch
    \/ SkipMapped \/ SendMessage \/ RecordMessage \/ FinishSends

RunUnit == AdvanceRunner \/ \E d \in Decisions : ExecuteApproved(d)

Operator ==
    \/ \E d \in Decisions : \/ RecordPendingDecision(d) \/ RemoveTask(d)
                            \/ \E action \in Responses : RespondByCli(d, action)
                            \/ \E action \in Actions, known \in BOOLEAN :
                                   Press(d, action, known)
    \/ \E u \in Updates : Expire(u)

Next ==
    \/ Listen \/ ListenerExits
    \/ RunUnit \/ TimerElapses \/ RunnerDies
    \/ Operator

Spec == Init /\ [][Next]_vars

(* systemd restarts the listener (Restart=on-failure) and both processes     *)
(* keep running; no button is ever owed a press, nor the timer an elapse.    *)
FairSpec == Spec /\ WF_vars(Listen) /\ WF_vars(RunUnit)

(***************************************************************************)
(* Properties.                                                               *)
(***************************************************************************)
(* Every variable keeps its type.                                            *)
TypeOK ==
    /\ status \in [Decisions -> {"absent", "pending", "approved", "rejected", "settled"}]
    /\ response \in [Decisions -> (Responses \X Channels) \cup {None}]
    /\ trigger \in [Decisions -> {None, "wanted", "requested"}]
    /\ delivery \in [Decisions -> {"pending", "retryable-failure", "delivered"}]
    /\ mapped \subseteq Decisions /\ removed \subseteq Decisions
    /\ orphans \subseteq Decisions
    /\ pressed \in Seq([decision : Decisions, action : Actions, known : BOOLEAN])
    /\ confirmed \in 0..Len(pressed) /\ expired \subseteq DOMAIN pressed
    /\ pc \in Places /\ offset \in Nat \cup {None} /\ batch \in Nat \X Nat
    /\ todo \subseteq Decisions /\ subject \in Decisions \cup {None}
    /\ reply \in Answers \cup {None}
    /\ answer \in [Updates -> Answers \cup {None}]
    /\ runner \in {"none", "approvals", "scheduled"}
    /\ faults \in Nat

(* One response per Decision, ever: whichever of the command line and any    *)
(* number of (redelivered) callbacks comes first is never replaced, and no   *)
(* other response hands out a second approval Run.                           *)
ResponseIsFinal ==
    [][\A d \in Decisions :
          /\ response[d] # None => response'[d] = response[d]
          /\ trigger[d] # trigger'[d] =>
                \/ trigger[d] = None /\ response[d] = None /\ response'[d][1] = "approve"
                \/ trigger[d] = "wanted" /\ trigger'[d] = "requested"]_vars

(* What the operator was told is what was stored, although the status shown  *)
(* by the first read can be overtaken before the response is committed.      *)
AnswersAreTrue ==
    \A u \in DOMAIN pressed :
        LET d == pressed[u].decision IN
        /\ answer[u] = "rejected" => response[d] = <<"reject", "telegram">>
        /\ answer[u] = "queued" => response[d] = <<"approve", "telegram">>
        /\ answer[u] = "requested" =>
               response[d] = <<"approve", "telegram">> /\ trigger[d] = "requested"
        /\ answer[u] = "already" => response[d] # None
        /\ answer[u] = "out-of-order" => response[d] # None \/ d \in removed

(* README.md: the wake request is retained durably and retried after polling *)
(* or restart until the one-shot adapter accepts it.                         *)
WakeIsAccepted ==
    \A d \in Decisions : trigger[d] = "wanted" ~> trigger[d] = "requested"

(* Every pending Decision gets controls in the chat unless it is responded   *)
(* to first.                                                                 *)
PendingIsAnnounced ==
    \A d \in Decisions : status[d] = "pending" ~> (d \in mapped \/ status[d] # "pending")

(* Every press is answered, although the listener can exit at any point of a *)
(* batch and everything after its last offset is delivered again, as long as *)
(* Telegram accepts the answers.                                             *)
PressesAreAnswered ==
    \A u \in Updates : u \in DOMAIN pressed ~> (answer[u] # None \/ expired # {})

(* README.md: repeated, conflicting or expired callbacks receive a response; *)
(* so every callback that can still be answered is.                          *)
CallbacksAreAnswered ==
    \A u \in Updates :
        (u \in DOMAIN pressed /\ u \notin expired) ~> (answer[u] # None \/ u \in expired)
=============================================================================
