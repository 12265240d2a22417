----------------------- MODULE TelegramListener_proofs -----------------------
(***************************************************************************)
(* What is proved of TelegramListener for any number of Decisions, presses,  *)
(* exits, failing calls and expired queries.                                 *)
(***************************************************************************)
EXTENDS TelegramListener, SequenceTheorems, TLAPS

(***************************************************************************)
(* Types.  The listener only looks at an update that Telegram delivered, and *)
(* only at the Decision of a list while it works on that list.               *)
(***************************************************************************)
AtCallback == {"details", "record-details", "transition", "request", "mark-approved", "answer"}

PlaceInv ==
    /\ TypeOK
    /\ Len(pressed) <= MaxPresses
    /\ batch[1] > 0 /\ batch[2] <= Len(pressed)
    /\ offset # None => offset > 0 /\ offset - 1 <= Len(pressed)
    /\ pc \in AtCallback => batch[1] <= batch[2]
    /\ pc = "transition" => Update.action \in Responses
    /\ pc \in {"mark", "record-message"} => subject \in Decisions

LEMMA PlaceInit == Init => PlaceInv
  BY ListenerAssumption
     DEF Init, PlaceInv, TypeOK, NoBatch, AtCallback, Updates, Places

LEMMA PressesAreRecords ==
    ASSUME PlaceInv, NEW u \in DOMAIN pressed
    PROVE  /\ u \in 1..Len(pressed)
           /\ pressed[u] \in [decision : Decisions, action : Actions, known : BOOLEAN]
<1>1. /\ pressed \in Seq([decision : Decisions, action : Actions, known : BOOLEAN])
      /\ DOMAIN pressed = 1..Len(pressed)
  BY DEF PlaceInv, TypeOK
<1> QED
  BY <1>1, ElementOfSeq

(* The callback being handled, and its Decision.                             *)
LEMMA CallbackIsPressed ==
    ASSUME PlaceInv, pc \in AtCallback \/ (pc = "callbacks" /\ batch[1] <= batch[2])
    PROVE  /\ batch[1] \in DOMAIN pressed /\ batch[1] \in Updates
           /\ Update = pressed[batch[1]]
           /\ Update.action \in Actions /\ Current \in Decisions
           /\ pc # "down"
<1>1. batch[1] \in 1..Len(pressed)
  BY DEF PlaceInv, TypeOK
<1>2. Update \in [decision : Decisions, action : Actions, known : BOOLEAN]
  BY <1>1, ElementOfSeq DEF PlaceInv, TypeOK, Update
<1> QED
  BY <1>1, <1>2, ListenerAssumption DEF PlaceInv, TypeOK, Update, Current, Updates, AtCallback

LEMMA PlaceStep == PlaceInv /\ [Next]_vars => PlaceInv'
<1> SUFFICES ASSUME PlaceInv, [Next]_vars PROVE PlaceInv'
  OBVIOUS
<1> USE ListenerAssumption
        DEF PlaceInv, TypeOK, database, telegram, work, listener, Update
<1>1. CASE StartListener
  BY <1>1 DEF StartListener, Begin, Wanted, Places, AtCallback
<1>2. CASE Poll
  BY <1>2 DEF Poll, Begin, Wanted, Places, AtCallback
<1>3. CASE RequestPending
  BY <1>3 DEF RequestPending, StartUnit, RequestRefused, Places, AtCallback
<1>4. CASE MarkPending
  BY <1>4 DEF MarkPending, MarkRequested, Places, AtCallback
<1>5. CASE FinishTriggers
  BY <1>5 DEF FinishTriggers, Places, AtCallback
<1>6. CASE ReadDecision
  <2>1. Update.action \in Actions
    BY <1>6, CallbackIsPressed DEF ReadDecision
  <2> QED
    BY <1>6, <2>1 DEF ReadDecision, GoAnswer, Places, AtCallback, Answers, Actions, Responses
<1>7. CASE SendDetails
  BY <1>7 DEF SendDetails, Places, AtCallback
<1>8. CASE RecordDetails
  BY <1>8, CallbackIsPressed DEF RecordDetails, GoAnswer, Places, AtCallback, Answers
<1>9. CASE RespondByCallback
  <2>1. CASE /\ MayRespond(Current, Update.action)
             /\ Respond(Current, Update.action, "telegram")
             /\ AfterResponse(Update.action)
    <3>1. Update.action \in Actions /\ Current \in Decisions
      BY <1>9, CallbackIsPressed DEF RespondByCallback, AtCallback
    <3>2. Update.action \in Responses
      BY <1>9 DEF RespondByCallback
    <3>3. /\ status' \in [Decisions -> {"absent", "pending", "approved", "rejected", "settled"}]
          /\ trigger' \in [Decisions -> {None, "wanted", "requested"}]
          /\ response' \in [Decisions -> (Responses \X Channels) \cup {None}]
      BY <2>1, <3>1, <3>2 DEF Respond, Actions, Responses, Channels
    <3>4. /\ pc' \in {"request", "answer"} /\ reply' \in Answers \cup {None}
      BY <2>1 DEF AfterResponse, GoAnswer, Answers
    <3> QED
      BY <1>9, <3>3, <3>4 DEF RespondByCallback, Places, AtCallback
  <2>2. CASE UNCHANGED <<status, response, trigger>>
    BY <1>9, <2>2 DEF RespondByCallback, AfterResponse, GoAnswer, Places, AtCallback, Answers
  <2> QED
    BY <1>9, <2>1, <2>2 DEF RespondByCallback
<1>10. CASE RequestApproved
  BY <1>10 DEF RequestApproved, GoAnswer, StartUnit, RequestRefused, Places, AtCallback, Answers
<1>11. CASE MarkApproved
  BY <1>11 DEF MarkApproved, MarkRequested, GoAnswer, Places, AtCallback, Answers
<1>12. CASE AnswerCallback
  <2>1. answer' \in [Updates -> Answers \cup {None}]
    BY <1>12 DEF AnswerCallback
  <2>2. batch[1] \in Nat /\ batch[2] \in Nat
    OBVIOUS
  <2>3. batch' = <<batch[1] + 1, batch[2]>>
    BY <1>12 DEF AnswerCallback
  <2>4. batch' \in Nat \X Nat /\ batch'[1] > 0 /\ batch'[2] <= Len(pressed)
    BY <2>2, <2>3
  <2> QED
    BY <1>12, <2>1, <2>4 DEF AnswerCallback, Places, AtCallback
<1>13. CASE AnswerRefused
  BY <1>13 DEF AnswerRefused, Exit, NoBatch, Places, AtCallback
<1>14. CASE FinishBatch
  BY <1>14 DEF FinishBatch, NoBatch, Places, AtCallback
<1>15. CASE SkipMapped
  BY <1>15 DEF SkipMapped
<1>16. CASE SendMessage
  <2>1. PICK d \in todo \ mapped :
           /\ todo' = todo \ {d}
           /\ \/ pc' = "record-message" /\ subject' = d /\ UNCHANGED delivery
              \/ /\ delivery' = [delivery EXCEPT ![d] = "retryable-failure"]
                 /\ UNCHANGED <<pc, subject>>
    BY <1>16 DEF SendMessage
  <2>2. pc = "sends" /\ faults' \in Nat
    BY <1>16 DEF SendMessage
  <2>3. /\ pc' \in Places \ AtCallback /\ pc' \notin {"mark", "transition"}
        /\ pc' = "record-message" => subject' \in Decisions
        /\ subject' \in Decisions \cup {None} /\ todo' \subseteq Decisions
    BY <2>1, <2>2 DEF Places, AtCallback
  <2>4. delivery' \in [Decisions -> {"pending", "retryable-failure", "delivered"}]
    BY <2>1
  <2> QED
    BY <1>16, <2>2, <2>3, <2>4 DEF SendMessage
<1>17. CASE RecordMessage
  BY <1>17 DEF RecordMessage, Places, AtCallback
<1>18. CASE FinishSends
  BY <1>18 DEF FinishSends, Places, AtCallback
<1>19. CASE ListenerExits
  <2>1. orphans' \subseteq Decisions
    BY <1>19, CallbackIsPressed DEF ListenerExits, AtCallback
  <2> QED
    BY <1>19, <2>1 DEF ListenerExits, Exit, NoBatch, Places, AtCallback
<1>20. CASE RunUnit
  BY <1>20 DEF RunUnit, AdvanceRunner, ExecuteApproved
<1>21. CASE TimerElapses \/ RunnerDies
  BY <1>21 DEF TimerElapses, RunnerDies
<1>22. ASSUME NEW d \in Decisions, RecordPendingDecision(d) \/ RemoveTask(d) PROVE PlaceInv'
  <2>1. CASE RecordPendingDecision(d)
    BY <2>1 DEF RecordPendingDecision
  <2>2. CASE RemoveTask(d)
    BY <2>2 DEF RemoveTask
  <2> QED
    BY <1>22, <2>1, <2>2
<1>23. ASSUME NEW d \in Decisions, NEW action \in Responses, RespondByCli(d, action)
       PROVE  PlaceInv'
  BY <1>23 DEF RespondByCli, Respond, Channels
<1>24. ASSUME NEW d \in Decisions, NEW action \in Actions, NEW known \in BOOLEAN,
              Press(d, action, known)
       PROVE  PlaceInv'
  <2>1. pressed' = Append(pressed, [decision |-> d, action |-> action, known |-> known])
    BY <1>24 DEF Press
  <2>2. /\ Len(pressed') = Len(pressed) + 1
        /\ pressed' \in Seq([decision : Decisions, action : Actions, known : BOOLEAN])
    BY <2>1
  <2>3. pc = "transition" => pressed'[batch[1]] = pressed[batch[1]]
    BY <2>1, CallbackIsPressed DEF AtCallback
  <2>4. /\ confirmed \in 0..Len(pressed') /\ expired \subseteq DOMAIN pressed'
        /\ Len(pressed') <= MaxPresses /\ batch[2] <= Len(pressed')
        /\ offset # None => offset > 0 /\ offset - 1 <= Len(pressed')
    BY <1>24, <2>2 DEF Press
  <2> QED
    BY <1>24, <2>2, <2>3, <2>4 DEF Press
<1>25. ASSUME NEW u \in Updates, Expire(u) PROVE PlaceInv'
  BY <1>25 DEF Expire
<1>26. CASE UNCHANGED vars
  BY <1>26 DEF vars
<1> HIDE DEF PlaceInv, TypeOK, database, telegram, work, listener, Update
<1> QED
  BY <1>1, <1>2, <1>3, <1>4, <1>5, <1>6, <1>7, <1>8, <1>9, <1>10, <1>11, <1>12, <1>13, <1>14,
     <1>15, <1>16, <1>17, <1>18, <1>19, <1>20, <1>21, <1>22, <1>23, <1>24, <1>25, <1>26
     DEF Next, Listen, Operator

(* telegram_decisions.py: every variable keeps its type, whatever is pressed, *)
(* redelivered or cut short.                                                 *)
THEOREM TypeCorrect == Spec => []TypeOK
  BY PlaceInit, PlaceStep, PTL DEF Spec, PlaceInv

(***************************************************************************)
(* Responses.  A Decision waits for one exactly as long as none is stored,   *)
(* and an approval and its wake request are stored together.                 *)
(***************************************************************************)
StatusInv ==
    \A d \in Decisions :
        /\ status[d] \in {"absent", "pending"} <=> response[d] = None
        /\ trigger[d] # None <=> response[d] # None /\ response[d][1] = "approve"

(* The four ways in which a step can touch responses and requests.           *)
Untouched == UNCHANGED <<status, response, trigger>>

StatusMoves ==
    /\ UNCHANGED <<response, trigger>>
    /\ \E d \in Decisions :
           \/ status[d] = "absent" /\ status' = [status EXCEPT ![d] = "pending"]
           \/ status[d] = "approved" /\ status' = [status EXCEPT ![d] = "settled"]

Responds == \E d \in Decisions, action \in Responses, channel \in Channels :
                MayRespond(d, action) /\ Respond(d, action, channel)

Marks == UNCHANGED <<status, response>> /\ \E d : MarkRequested(d)

LEMMA StepsOnResponses ==
    PlaceInv /\ [Next]_vars => Untouched \/ StatusMoves \/ Responds \/ Marks
<1> SUFFICES ASSUME PlaceInv, [Next]_vars PROVE Untouched \/ StatusMoves \/ Responds \/ Marks
  OBVIOUS
<1> USE DEF Untouched, StatusMoves, database
<1>1. CASE RespondByCallback
  <2>1. Current \in Decisions /\ Update.action \in Responses /\ "telegram" \in Channels
    BY <1>1, CallbackIsPressed DEF RespondByCallback, PlaceInv, AtCallback, Channels
  <2> QED
    BY <1>1, <2>1 DEF RespondByCallback, Responds
<1>2. CASE MarkPending \/ MarkApproved
  BY <1>2 DEF MarkPending, MarkApproved, Marks
<1>3. CASE Listen
  BY <1>1, <1>2, <1>3
     DEF Listen, StartListener, Poll, RequestPending, FinishTriggers, ReadDecision,
         SendDetails, RecordDetails, RequestApproved, AnswerCallback, AnswerRefused,
         FinishBatch, SkipMapped, SendMessage, RecordMessage, FinishSends
<1>4. CASE ListenerExits
  BY <1>4 DEF ListenerExits
<1>5. CASE RunUnit
  BY <1>5 DEF RunUnit, AdvanceRunner, ExecuteApproved
<1>6. CASE TimerElapses \/ RunnerDies
  BY <1>6 DEF TimerElapses, RunnerDies
<1>7. CASE Operator
  <2>1. ASSUME NEW d \in Decisions, RecordPendingDecision(d) PROVE StatusMoves
    BY <2>1 DEF RecordPendingDecision
  <2>2. ASSUME NEW d \in Decisions, NEW action \in Responses, RespondByCli(d, action)
        PROVE  Responds
    BY <2>2 DEF RespondByCli, Responds, Channels
  <2> QED
    BY <1>7, <2>1, <2>2 DEF Operator, RemoveTask, Press, Expire
<1> QED
  BY <1>3, <1>4, <1>5, <1>6, <1>7 DEF Next, vars

LEMMA StatusInit == Init => StatusInv
  BY DEF Init, StatusInv

LEMMA RowTypes ==
    ASSUME PlaceInv
    PROVE  /\ status \in [Decisions -> {"absent", "pending", "approved", "rejected", "settled"}]
           /\ trigger \in [Decisions -> {None, "wanted", "requested"}]
           /\ response \in [Decisions -> (Responses \X Channels) \cup {None}]
           /\ None \notin {"wanted", "requested"} \cup (Responses \X Channels)
  BY ListenerAssumption DEF PlaceInv, TypeOK

LEMMA StatusStep == PlaceInv /\ StatusInv /\ [Next]_vars => StatusInv'
<1> SUFFICES ASSUME PlaceInv, StatusInv, Untouched \/ StatusMoves \/ Responds \/ Marks
             PROVE  StatusInv'
  BY StepsOnResponses
<1>1. CASE Untouched
  BY <1>1 DEF Untouched, StatusInv
<1>2. CASE StatusMoves
  BY <1>2, RowTypes DEF StatusMoves, StatusInv
<1>3. CASE Responds
  <2>1. PICK d \in Decisions, action \in Responses, channel \in Channels :
           MayRespond(d, action) /\ Respond(d, action, channel)
    BY <1>3 DEF Responds
  <2>2. <<action, channel>> # None /\ <<action, channel>>[1] = action
    BY RowTypes
  <2> QED
    BY <2>1, <2>2, RowTypes DEF MayRespond, Respond, StatusInv
<1>4. CASE Marks
  BY <1>4, RowTypes DEF Marks, MarkRequested, StatusInv
<1> QED
  BY <1>1, <1>2, <1>3, <1>4

(* Whichever of the command line and any number of redelivered callbacks     *)
(* comes first, the stored response is never replaced and no other response  *)
(* requests a second approval Run.                                           *)
THEOREM FirstResponseIsFinal == Spec => ResponseIsFinal
<1> DEFINE Final(d) ==
      /\ response[d] # None => response'[d] = response[d]
      /\ trigger[d] # trigger'[d] =>
            \/ trigger[d] = None /\ response[d] = None /\ response'[d][1] = "approve"
            \/ trigger[d] = "wanted" /\ trigger'[d] = "requested"
<1>1. PlaceInv /\ StatusInv /\ [Next]_vars => \A d \in Decisions : Final(d)
  <2> SUFFICES ASSUME PlaceInv, StatusInv, NEW d \in Decisions,
                      Untouched \/ StatusMoves \/ Responds \/ Marks
               PROVE  Final(d)
    BY StepsOnResponses
  <2>1. CASE Untouched \/ StatusMoves
    BY <2>1 DEF Untouched, StatusMoves
  <2>2. CASE Responds
    <3>1. PICK e \in Decisions, action \in Responses, channel \in Channels :
             MayRespond(e, action) /\ Respond(e, action, channel)
      BY <2>2 DEF Responds
    <3>2. CASE e # d
      BY <3>1, <3>2, RowTypes DEF Respond
    <3>3. CASE e = d
      <4>1. response[d] = None /\ trigger[d] = None
        BY <3>1, <3>3 DEF MayRespond, StatusInv
      <4>2. response'[d][1] = action /\ (trigger'[d] # trigger[d] => action = "approve")
        BY <3>1, <3>3, RowTypes DEF Respond
      <4> QED
        BY <4>1, <4>2
    <3> QED
      BY <3>2, <3>3
  <2>3. CASE Marks
    BY <2>3, RowTypes DEF Marks, MarkRequested
  <2> QED
    BY <2>1, <2>2, <2>3
<1> QED
  BY <1>1, PlaceInit, PlaceStep, StatusInit, StatusStep, PTL DEF Spec, ResponseIsFinal

(***************************************************************************)
(* Answers.  What was told of a Decision stays true because responses are    *)
(* final, requests stay requested and Tasks stay removed; what remains is    *)
(* that the answer being given is true when it is chosen.                    *)
(***************************************************************************)
TrueOf(d, told) ==
    /\ told = "rejected" => response[d] = <<"reject", "telegram">>
    /\ told = "queued" => response[d] = <<"approve", "telegram">>
    /\ told = "requested" => response[d] = <<"approve", "telegram">> /\ trigger[d] = "requested"
    /\ told = "already" => response[d] # None
    /\ told = "out-of-order" => response[d] # None \/ d \in removed

(* Controls are only shown for, and pressed on, Decisions that exist.        *)
Existing == {d \in Decisions : status[d] # "absent"}

ShownInv ==
    /\ mapped \cup orphans \subseteq Existing
    /\ pc \in {"sends", "record-message"} => todo \subseteq Existing
    /\ pc = "record-message" => subject \in Existing
    /\ \A u \in DOMAIN pressed : pressed[u].decision \in Existing

ReplyInv ==
    /\ pc = "answer" => TrueOf(Current, reply)
    /\ pc \in {"request", "mark-approved"} => response[Current] = <<"approve", "telegram">>

ToldInv ==
    /\ \A u \in DOMAIN pressed : TrueOf(pressed[u].decision, answer[u])
    /\ \A u \in Updates : u > Len(pressed) => answer[u] = None

AnswerInv == PlaceInv /\ StatusInv /\ ShownInv /\ ReplyInv /\ ToldInv

LEMMA AnswerInit == Init => AnswerInv
<1> SUFFICES ASSUME Init PROVE AnswerInv
  OBVIOUS
<1>1. ShownInv /\ ReplyInv /\ ToldInv
  BY DEF Init, ShownInv, ReplyInv, ToldInv
<1> QED
  BY <1>1, PlaceInit, StatusInit DEF AnswerInv

LEMMA RemovedGrows == [Next]_vars => removed \subseteq removed'
<1> SUFFICES ASSUME [Next]_vars PROVE removed \subseteq removed'
  OBVIOUS
<1>1. CASE Listen
  BY <1>1
     DEF Listen, StartListener, Poll, RequestPending, MarkPending, FinishTriggers, ReadDecision,
         SendDetails, RecordDetails, RespondByCallback, RequestApproved, MarkApproved,
         AnswerCallback, AnswerRefused, FinishBatch, SkipMapped, SendMessage, RecordMessage,
         FinishSends, database
<1>2. CASE Operator
  BY <1>2 DEF Operator, RecordPendingDecision, RemoveTask, RespondByCli, Press, Expire, database
<1> QED
  BY <1>1, <1>2
     DEF Next, ListenerExits, RunUnit, AdvanceRunner, ExecuteApproved, TimerElapses, RunnerDies,
         vars, database

(* What is true of a Decision stays true of it, and it goes on to exist.     *)
LEMMA TrueStaysTrue ==
    ASSUME PlaceInv, StatusInv, [Next]_vars, NEW d \in Decisions
    PROVE  /\ d \in Existing => d \in Existing'
           /\ \A told : TrueOf(d, told) => TrueOf(d, told)'
           /\ response[d] # None => response'[d] = response[d]
<1>1. response[d] # None => response'[d] = response[d]
  BY StepsOnResponses, RowTypes
     DEF Untouched, StatusMoves, Responds, MayRespond, Respond, Marks
<1>2. trigger[d] = "requested" => trigger'[d] = "requested"
  BY StepsOnResponses, RowTypes
     DEF Untouched, StatusMoves, Responds, MayRespond, Respond, Marks, MarkRequested, StatusInv
<1>3. status[d] # "absent" => status'[d] # "absent"
  BY StepsOnResponses, RowTypes
     DEF Untouched, StatusMoves, Responds, MayRespond, Respond, Marks
<1>4. None # <<"reject", "telegram">> /\ None # <<"approve", "telegram">>
  BY RowTypes DEF Responses, Channels
<1>5. \A told : TrueOf(d, told) => TrueOf(d, told)'
  BY <1>1, <1>2, <1>4, RemovedGrows DEF TrueOf
<1> QED
  BY <1>1, <1>3, <1>5 DEF Existing

(* A step that leaves the chat and the answers alone keeps what was told.    *)
LEMMA ToldStays ==
    ASSUME PlaceInv, StatusInv, ToldInv, [Next]_vars, UNCHANGED <<pressed, answer>>
    PROVE  ToldInv'
<1>1. ASSUME NEW u \in DOMAIN pressed PROVE TrueOf(pressed[u].decision, answer[u])'
  <2>1. pressed[u].decision \in Decisions
    BY PressesAreRecords
  <2>2. TrueOf(pressed[u].decision, answer[u])
    BY DEF ToldInv
  <2>3. PICK d, told : d = pressed[u].decision /\ told = answer[u]
    OBVIOUS
  <2>4. TrueOf(d, told)'
    BY <2>1, <2>2, <2>3, TrueStaysTrue
  <2>5. d = pressed'[u].decision /\ told = answer'[u]
    BY <2>3
  <2> QED
    BY <2>4, <2>5 DEF TrueOf
<1> QED
  BY <1>1 DEF ToldInv

LEMMA ToldStep == AnswerInv /\ [Next]_vars => ToldInv'
<1> SUFFICES ASSUME PlaceInv, ReplyInv, ToldInv, [Next]_vars, ~ UNCHANGED <<pressed, answer>>
             PROVE  ToldInv'
  BY ToldStays DEF AnswerInv
<1>1. CASE AnswerCallback
  <2>1. /\ answer' = [answer EXCEPT ![batch[1]] = reply]
        /\ UNCHANGED <<response, trigger, removed, pressed>>
    BY <1>1 DEF AnswerCallback, database, telegram
  <2>2. /\ batch[1] \in DOMAIN pressed /\ TrueOf(pressed[batch[1]].decision, reply)
    <3>1. pc = "answer"
      BY <1>1 DEF AnswerCallback
    <3>2. Current = pressed[batch[1]].decision
      BY DEF Current, Update
    <3>3. TrueOf(Current, reply)
      BY <3>1 DEF ReplyInv
    <3>4. TrueOf(pressed[batch[1]].decision, reply)
      BY <3>2, <3>3 DEF TrueOf
    <3> QED
      BY <3>1, <3>4, CallbackIsPressed DEF AtCallback
  <2>3. answer \in [Updates -> Answers \cup {None}] /\ Len(pressed) <= MaxPresses
    BY DEF PlaceInv, TypeOK
  <2>4. ASSUME NEW u \in DOMAIN pressed PROVE TrueOf(pressed[u].decision, answer'[u])
    <3>1. u \in Updates
      BY <2>3, ListenerAssumption DEF PlaceInv, TypeOK, Updates
    <3>2. CASE u = batch[1]
      BY <2>1, <2>2, <2>3, <3>1, <3>2
    <3>3. CASE u # batch[1]
      BY <2>1, <2>3, <3>1, <3>3 DEF ToldInv
    <3> QED
      BY <3>2, <3>3
  <2>5. ASSUME NEW u \in Updates, u > Len(pressed) PROVE answer'[u] = None
    BY <2>1, <2>2, <2>3, <2>5 DEF ToldInv, PlaceInv, TypeOK
  <2> QED
    BY <2>1, <2>4, <2>5 DEF ToldInv, TrueOf
<1>2. ASSUME NEW d \in Decisions, NEW action \in Actions, NEW known \in BOOLEAN,
             Press(d, action, known)
      PROVE  ToldInv'
  <2>1. /\ pressed' = Append(pressed, [decision |-> d, action |-> action, known |-> known])
        /\ Len(pressed) < MaxPresses
        /\ UNCHANGED <<response, trigger, removed, answer>>
    BY <1>2 DEF Press, database, listener
  <2>2. pressed \in Seq([decision : Decisions, action : Actions, known : BOOLEAN])
    BY DEF PlaceInv, TypeOK
  <2>3. /\ DOMAIN pressed' = 1..Len(pressed) + 1 /\ Len(pressed') = Len(pressed) + 1
        /\ Len(pressed) \in Nat
        /\ \A u \in DOMAIN pressed : pressed'[u] = pressed[u]
    BY <2>1, <2>2
  <2>4. answer[Len(pressed) + 1] = None
    BY <2>1, <2>3, ListenerAssumption DEF ToldInv, Updates
  <2>5. \A v : TrueOf(v, None)
    BY ListenerAssumption DEF TrueOf, Answers
  <2>6. ASSUME NEW u \in DOMAIN pressed' PROVE TrueOf(pressed'[u].decision, answer[u])
    <3>1. CASE u = Len(pressed) + 1
      BY <2>4, <2>5, <3>1
    <3>2. CASE u # Len(pressed) + 1
      <4>1. u \in DOMAIN pressed
        BY <2>2, <2>3, <3>2
      <4> QED
        BY <2>3, <4>1 DEF ToldInv
    <3> QED
      BY <3>1, <3>2
  <2>7. ASSUME NEW u \in Updates, u > Len(pressed') PROVE answer[u] = None
    BY <2>3, <2>7 DEF ToldInv, Updates
  <2> QED
    BY <2>1, <2>6, <2>7 DEF ToldInv, TrueOf
<1>3. CASE Listen
  BY <1>1, <1>3
     DEF Listen, StartListener, Poll, RequestPending, MarkPending, FinishTriggers, ReadDecision,
         SendDetails, RecordDetails, RespondByCallback, RequestApproved, MarkApproved,
         AnswerRefused, Exit, FinishBatch, SkipMapped, SendMessage, RecordMessage, FinishSends,
         telegram
<1>4. CASE Operator
  BY <1>2, <1>4
     DEF Operator, RecordPendingDecision, RemoveTask, RespondByCli, Expire, telegram, listener
<1> QED
  BY <1>3, <1>4
     DEF Next, ListenerExits, Exit, RunUnit, AdvanceRunner, ExecuteApproved, TimerElapses,
         RunnerDies, telegram, listener, vars

LEMMA ShownStep == AnswerInv /\ [Next]_vars => ShownInv'
<1> SUFFICES ASSUME PlaceInv, StatusInv, ShownInv, [Next]_vars PROVE ShownInv'
  BY DEF AnswerInv
<1>1. Existing \subseteq Existing'
  BY TrueStaysTrue DEF Existing
<1>2. pc \in AtCallback => Current \in Existing
  BY CallbackIsPressed DEF ShownInv, Current
<1>3. ASSUME UNCHANGED <<mapped, orphans, pressed>>,
             \/ pc' \notin {"sends", "record-message"}
             \/ pc' = pc /\ UNCHANGED <<todo, subject>>
             \/ pc = "sends" /\ pc' = "sends" /\ todo' \subseteq todo
      PROVE  ShownInv'
  BY <1>1, <1>3 DEF ShownInv
<1>4. CASE RecordDetails
  BY <1>1, <1>2, <1>4 DEF RecordDetails, GoAnswer, ShownInv, AtCallback, telegram
<1>5. CASE FinishBatch
  <2>1. {d \in Decisions : status[d] = "pending"} \subseteq Existing
    BY DEF Existing
  <2> QED
    BY <1>1, <1>5, <2>1 DEF FinishBatch, ShownInv, database, telegram
<1>6. CASE SendMessage
  BY <1>1, <1>6 DEF SendMessage, ShownInv, telegram
<1>7. CASE RecordMessage
  BY <1>1, <1>7 DEF RecordMessage, ShownInv, telegram
<1>8. CASE Listen
  BY <1>3, <1>4, <1>5, <1>6, <1>7, <1>8
     DEF Listen, StartListener, Poll, Begin, RequestPending, MarkPending, FinishTriggers,
         ReadDecision, SendDetails, RespondByCallback, AfterResponse, RequestApproved, MarkApproved,
         AnswerCallback, AnswerRefused, Exit, SkipMapped, FinishSends, GoAnswer, database, telegram,
         work
<1>9. CASE ListenerExits
  <2>1. orphans' \subseteq orphans \cup Existing
    BY <1>2, <1>9 DEF ListenerExits, ShownInv, AtCallback
  <2> QED
    BY <1>1, <1>9, <2>1 DEF ListenerExits, Exit, ShownInv, database
<1>10. ASSUME NEW d \in Decisions, NEW action \in Actions, NEW known \in BOOLEAN,
              Press(d, action, known)
       PROVE  ShownInv'
  <2>1. d \in Existing
    BY <1>10 DEF Press, ShownInv
  <2>2. pressed' = Append(pressed, [decision |-> d, action |-> action, known |-> known])
    BY <1>10 DEF Press
  <2>3. pressed \in Seq([decision : Decisions, action : Actions, known : BOOLEAN])
    BY DEF PlaceInv, TypeOK
  <2>4. ASSUME NEW u \in DOMAIN pressed' PROVE pressed'[u].decision \in Existing
    BY <2>1, <2>2, <2>3, <2>4 DEF ShownInv
  <2> QED
    BY <1>1, <1>10, <2>4 DEF Press, ShownInv, database, listener
<1>11. CASE Operator
  BY <1>3, <1>10, <1>11
     DEF Operator, RecordPendingDecision, RemoveTask, RespondByCli, Expire, database, telegram,
         listener
<1> QED
  BY <1>3, <1>8, <1>9, <1>11
     DEF Next, RunUnit, AdvanceRunner, ExecuteApproved, TimerElapses, RunnerDies, database, telegram,
         listener, vars

LEMMA ReplyStep == AnswerInv /\ [Next]_vars => ReplyInv'
<1> SUFFICES ASSUME PlaceInv, StatusInv, ShownInv, ReplyInv, [Next]_vars PROVE ReplyInv'
  BY DEF AnswerInv
<1>1. pc \in AtCallback => Current \in Existing /\ Current \in Decisions
  BY CallbackIsPressed DEF ShownInv, Current
<1>2. None # <<"approve", "telegram">>
  BY RowTypes DEF Responses, Channels
<1>3. ASSUME pc' \notin {"answer", "request", "mark-approved"} PROVE ReplyInv'
  BY <1>3 DEF ReplyInv
<1>4. ASSUME UNCHANGED <<pc, batch, reply>>,
             pc \in AtCallback => pressed'[batch[1]] = pressed[batch[1]]
      PROVE  ReplyInv'
  <2> SUFFICES ASSUME pc \in {"answer", "request", "mark-approved"} PROVE ReplyInv'
    BY <1>3, <1>4
  <2>1. Current' = Current /\ Current \in Decisions
    BY <1>1, <1>4 DEF Current, Update, AtCallback
  <2>2. PICK d, told : d = Current /\ told = reply
    OBVIOUS
  <2>3. /\ TrueOf(d, told) => TrueOf(d, told)'
        /\ response[d] # None => response'[d] = response[d]
    BY <2>1, <2>2, TrueStaysTrue
  <2>4. TrueOf(d, told)' => TrueOf(Current, reply)'
    BY <1>4, <2>1, <2>2 DEF TrueOf
  <2>5. pc = "answer" => TrueOf(d, told)
    BY <2>2 DEF ReplyInv, TrueOf
  <2> QED
    BY <1>2, <1>4, <2>1, <2>2, <2>3, <2>4, <2>5 DEF ReplyInv
<1>5. CASE ReadDecision
  <2>1. batch[1] <= batch[2] /\ UNCHANGED <<response, trigger, removed, pressed, batch>>
    BY <1>5 DEF ReadDecision, database, telegram, work
  <2>2. Current \in Existing /\ Current \in Decisions /\ Current' = Current
    BY <1>5, <2>1, CallbackIsPressed DEF ReadDecision, ShownInv, Current, Update
  <2>3. status[Current] # "pending" => response[Current] # None
    BY <2>2 DEF StatusInv, Existing
  <2>4. /\ pc' \in {"answer", "details", "transition"}
        /\ pc' = "answer" => \/ reply' = "unknown"
                             \/ /\ status[Current] # "pending"
                                /\ reply' \in {"already", "out-of-order"}
    BY <1>5 DEF ReadDecision, GoAnswer
  <2> QED
    BY <2>1, <2>2, <2>3, <2>4 DEF ReplyInv, TrueOf
<1>6. CASE RecordDetails
  BY <1>6 DEF RecordDetails, GoAnswer, ReplyInv, TrueOf
<1>7. CASE RespondByCallback
  <2>1. /\ Current \in Existing /\ Current \in Decisions /\ Current' = Current
        /\ UNCHANGED removed
    BY <1>1, <1>7 DEF RespondByCallback, AtCallback, Current, Update, telegram, work
  <2>2. Update.action \in Responses
    BY <1>7 DEF RespondByCallback, PlaceInv
  <2>3. CASE /\ Respond(Current, Update.action, "telegram")
             /\ AfterResponse(Update.action)
    <3>1. response'[Current] = <<Update.action, "telegram">>
      BY <2>1, <2>3, RowTypes DEF Respond
    <3>2. \/ Update.action = "approve" /\ pc' = "request"
          \/ Update.action = "reject" /\ pc' = "answer" /\ reply' = "rejected"
      BY <2>2, <2>3 DEF AfterResponse, GoAnswer, Responses
    <3> QED
      BY <2>1, <3>1, <3>2 DEF ReplyInv, TrueOf
  <2>4. CASE /\ ~ MayRespond(Current, Update.action)
             /\ GoAnswer(IF response[Current] # None /\ response[Current][1] = Update.action
                         THEN "already" ELSE "out-of-order")
             /\ UNCHANGED <<status, response, trigger>>
    <3>1. response[Current] # None \/ Current \in removed
      BY <2>1, <2>4 DEF MayRespond, StatusInv, Existing
    <3> QED
      BY <2>1, <2>4, <3>1 DEF GoAnswer, ReplyInv, TrueOf
  <2> QED
    BY <1>7, <2>3, <2>4 DEF RespondByCallback
<1>8. CASE RequestApproved
  <2>1. response[Current] = <<"approve", "telegram">> /\ Current' = Current
    BY <1>8 DEF RequestApproved, ReplyInv, Current, Update, telegram, work
  <2> QED
    BY <1>8, <2>1 DEF RequestApproved, GoAnswer, ReplyInv, TrueOf, database
<1>9. CASE MarkApproved
  <2>1. /\ response[Current] = <<"approve", "telegram">> /\ Current' = Current
        /\ Current \in Decisions
    BY <1>1, <1>9 DEF MarkApproved, AtCallback, ReplyInv, Current, Update, telegram, work
  <2>2. trigger[Current] \in {"wanted", "requested"}
    BY <1>2, <2>1, RowTypes DEF StatusInv
  <2>3. trigger'[Current] = "requested"
    BY <1>9, <2>1, <2>2, RowTypes DEF MarkApproved, MarkRequested
  <2> QED
    BY <1>9, <2>1, <2>3 DEF MarkApproved, GoAnswer, ReplyInv, TrueOf
<1>10. CASE Listen
  BY <1>3, <1>5, <1>6, <1>7, <1>8, <1>9, <1>10
     DEF Listen, StartListener, Poll, Begin, RequestPending, MarkPending, FinishTriggers,
         SendDetails, AnswerCallback, AnswerRefused, Exit, FinishBatch, SkipMapped, SendMessage,
         RecordMessage, FinishSends
<1>11. ASSUME NEW d \in Decisions, NEW action \in Actions, NEW known \in BOOLEAN,
              Press(d, action, known)
       PROVE  ReplyInv'
  <2>1. pressed' = Append(pressed, [decision |-> d, action |-> action, known |-> known])
    BY <1>11 DEF Press
  <2>2. pressed \in Seq([decision : Decisions, action : Actions, known : BOOLEAN])
    BY DEF PlaceInv, TypeOK
  <2>3. pc \in AtCallback => pressed'[batch[1]] = pressed[batch[1]]
    BY <2>1, <2>2, CallbackIsPressed
  <2> QED
    BY <1>4, <1>11, <2>3 DEF Press, listener
<1>12. CASE Operator
  BY <1>4, <1>11, <1>12
     DEF Operator, RecordPendingDecision, RemoveTask, RespondByCli, Expire, telegram, listener
<1> QED
  BY <1>3, <1>4, <1>10, <1>12
     DEF Next, ListenerExits, Exit, RunUnit, AdvanceRunner, ExecuteApproved, TimerElapses,
         RunnerDies, telegram, listener, vars

(* telegram_decisions.py: whatever races for a Decision and however often a  *)
(* callback is delivered, the operator is only told what is stored.          *)
THEOREM OnlyTheTruthIsTold == Spec => []AnswersAreTrue
<1>1. AnswerInv /\ [Next]_vars => AnswerInv'
  BY PlaceStep, StatusStep, ShownStep, ReplyStep, ToldStep DEF AnswerInv
<1>2. AnswerInv => AnswersAreTrue
  BY DEF AnswerInv, ToldInv, TrueOf, AnswersAreTrue
<1> QED
  BY <1>1, <1>2, AnswerInit, PTL DEF Spec
=============================================================================
