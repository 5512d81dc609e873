----------------------------- MODULE TelegramBot ------------------------------
(***************************************************************************)
(* The Telegram bot in one chat (src/bot/handlers), in front of            *)
(* POST /api/process and POST /api/resume (src/app/routers/api.py).        *)
(*                                                                         *)
(* The dispatcher runs the handler of every update in a task of its own;   *)
(* a handler is cut at the requests it awaits.  The state of the /ask      *)
(* scenario is in memory (MemoryStorage, whose calls do not suspend), as   *)
(* is pending_approvals.  The backend names the graph thread of a question *)
(* by the platform, the user, the chat and the second: in one chat, by the *)
(* second, so questions of the same second share a thread.                 *)
(***************************************************************************)
EXTENDS Naturals, FiniteSets

CONSTANTS
  Updates,
  Topics,
  KeepsApproval,     \* do need_approval and thread_id pass /api/process?
                     \* FALSE for MessageResponse, which does not declare
                     \* them; TRUE for what process_message returns
  MaxRestarts,
  MaxSeconds,        \* bound on the clock
  NoTopic, NoThread, NoUpdate

ASSUME BotConstants ==
  /\ KeepsApproval \in BOOLEAN
  /\ MaxRestarts \in Nat /\ MaxSeconds \in Nat
  /\ NoTopic \notin Topics /\ NoThread \notin Nat /\ NoUpdate \notin Updates

VARIABLES
  fsm,                \* the state of the AskFlow scenario
  topic,              \* its data
  pending_approvals,  \* of this chat: the thread waiting for a decision
  upd,
  keyboards,          \* updates whose answer has yes/no buttons on the screen
  second,             \* int(time.time()) at the backend
  restarts,
  pace,               \* history: has the user waited for every answer?
  flow,               \* history: the /ask of the scenario that is open
  chosen,             \* history: the topic its user has chosen
  asker,              \* history: the update whose answer is pending
  interrupted,        \* history: updates the agent left at an interrupt
  resumed             \* history: which tap resumed which thread, and for
                      \* which answer

scenario == <<fsm, topic, flow, chosen>>
approval == <<pending_approvals, keyboards, asker, interrupted, resumed>>
vars == <<scenario, approval, upd, second, restarts, pace>>

Threads == 0 .. MaxSeconds

Update ==
  [phase : {"new", "asking", "processing", "showing", "answering", "resuming",
            "done"},
   kind : {"none", "command", "message", "question", "tap"},
   flow : Updates \cup {NoUpdate},      \* the scenario of a question
   topic : Topics \cup {NoTopic},       \* the topic in its prompt
   thread : Threads \cup {NoThread},    \* the graph thread it runs in
   keyboard : Updates \cup {NoUpdate}]  \* the answer a tap is under

Resume == [tap : Updates, thread : Threads, answer : Updates]

TypeOK ==
  /\ fsm \in {"none", "waiting_for_topic", "waiting_for_question"}
  /\ topic \in Topics \cup {NoTopic}
  /\ pending_approvals \in Threads \cup {NoThread}
  /\ upd \in [Updates -> Update]
  /\ keyboards \subseteq Updates
  /\ second \in Threads
  /\ restarts \in 0 .. MaxRestarts
  /\ pace \in {"waits", "overlaps"}
  /\ flow \in Updates \cup {NoUpdate}
  /\ chosen \in Topics \cup {NoTopic}
  /\ asker \in Updates \cup {NoUpdate}
  /\ interrupted \subseteq Updates
  /\ resumed \subseteq Resume

Init ==
  /\ fsm = "none" /\ topic = NoTopic
  /\ pending_approvals = NoThread
  /\ upd = [u \in Updates |->
              [phase |-> "new", kind |-> "none", flow |-> NoUpdate,
               topic |-> NoTopic, thread |-> NoThread, keyboard |-> NoUpdate]]
  /\ keyboards = {} /\ second = 0 /\ restarts = 0 /\ pace = "waits"
  /\ flow = NoUpdate /\ chosen = NoTopic
  /\ asker = NoUpdate /\ interrupted = {} /\ resumed = {}

InFlight(u) ==
  upd[u].phase \in {"asking", "processing", "showing", "answering", "resuming"}

Arrives(u) ==
  /\ upd[u].phase = "new"
  /\ pace' = IF \E v \in Updates : InFlight(v) THEN "overlaps" ELSE pace

Goes(u, phase) == upd' = [upd EXCEPT ![u].phase = phase]

Handled(u) ==
  upd' = [upd EXCEPT ![u].phase = "done", ![u].kind = "command"]

(* FSMContext.clear.                                                        *)
ClearState == fsm' = "none" /\ topic' = NoTopic /\ flow' = NoUpdate /\ chosen' = NoTopic

(* Faulty variant: /ask goes on with the topic of the scenario before.      *)
CmdAskKeepsTopic(u) ==
  /\ Arrives(u)
  /\ Handled(u)
  /\ flow' = u /\ chosen' = NoTopic /\ topic' = topic
  /\ fsm' = IF topic = NoTopic THEN "waiting_for_topic" ELSE "waiting_for_question"
  /\ UNCHANGED <<approval, second, restarts>>

(* /ask sets the state; data of an earlier scenario stays.                  *)
CmdAsk(u) ==
  /\ Arrives(u)
  /\ Handled(u)
  /\ flow' = u /\ chosen' = NoTopic /\ topic' = topic
  /\ fsm' = "waiting_for_topic"
  /\ UNCHANGED <<approval, second, restarts>>

(* /cancel, /start and the button topic:cancel.                             *)
CmdCancel(u) ==
  /\ Arrives(u)
  /\ Handled(u)
  /\ ClearState
  /\ UNCHANGED <<approval, second, restarts>>

OnTopicSelected(u, t) ==
  /\ Arrives(u)
  /\ fsm = "waiting_for_topic"
  /\ Handled(u)
  /\ fsm' = "waiting_for_question" /\ topic' = t /\ chosen' = t /\ flow' = flow
  /\ UNCHANGED <<approval, second, restarts>>

(* Text in an open scenario: the question, or, before a topic is chosen,    *)
(* nothing (on_text returns).                                               *)
OnQuestionReceived(u) ==
  /\ Arrives(u)
  /\ fsm = "waiting_for_question"
  /\ upd' = [upd EXCEPT ![u].phase = "asking", ![u].kind = "question",
                        ![u].flow = flow, ![u].topic = topic]
  /\ UNCHANGED <<scenario, approval, second, restarts>>

(* on_text without a scenario; a photo, a voice message, an audio file or a *)
(* document at any time.                                                    *)
OnMessage(u) ==
  /\ Arrives(u)
  /\ upd' = [upd EXCEPT ![u].phase = "asking", ![u].kind = "message"]
  /\ UNCHANGED <<scenario, approval, second, restarts>>

(* Faulty variant: a failing request of any kind ends the scenario.         *)
EndOfAny(u) == ClearState

EndOfQuestion(u) ==
  IF upd[u].kind = "question" THEN ClearState ELSE UNCHANGED scenario

(* Does the response of /api/process tell of an interrupt?                  *)
MessageResponse(interrupt) == interrupt /\ KeepsApproval

(* The backend receives the question and names its thread.                  *)
ProcessMessage(u) ==
  /\ upd[u].phase = "asking"
  /\ upd' = [upd EXCEPT ![u].phase = "processing", ![u].thread = second]
  /\ UNCHANGED <<scenario, approval, second, restarts, pace>>

Tick ==
  /\ second < MaxSeconds
  /\ second' = second + 1
  /\ UNCHANGED <<scenario, approval, upd, restarts, pace>>

(* The answer of /api/process.  When it asks for an approval, the thread is *)
(* noted before the keyboard is sent.                                       *)
BackendAnswers(u, interrupt) ==
  /\ upd[u].phase = "processing"
  /\ interrupted' = IF interrupt THEN interrupted \cup {u} ELSE interrupted
  /\ IF MessageResponse(interrupt)
     THEN pending_approvals' = upd[u].thread /\ asker' = u /\ Goes(u, "showing")
     ELSE UNCHANGED <<pending_approvals, asker>> /\ Goes(u, "answering")
  /\ UNCHANGED <<scenario, keyboards, resumed, second, restarts, pace>>

(* The message is sent, with its buttons.                                   *)
Answered(u) ==
  /\ upd[u].phase \in {"showing", "answering"}
  /\ keyboards' = IF upd[u].phase = "showing" THEN keyboards \cup {u} ELSE keyboards
  /\ Goes(u, "done")
  /\ EndOfQuestion(u)
  /\ UNCHANGED <<pending_approvals, asker, interrupted, resumed, second, restarts, pace>>

(* The backend or Telegram fails: handle_backend_error.                     *)
Fails(u) ==
  /\ upd[u].phase \in {"asking", "processing", "showing", "answering"}
  /\ Goes(u, "done")
  /\ EndOfQuestion(u)
  /\ UNCHANGED <<approval, second, restarts, pace>>

(* Faulty variant: the thread is read here and removed after the resume.    *)
OnApprovalKeeps(u, k) ==
  /\ Arrives(u)
  /\ k \in keyboards
  /\ upd' = [upd EXCEPT ![u].kind = "tap", ![u].keyboard = k,
                        ![u].phase = IF pending_approvals = NoThread
                                     THEN "done" ELSE "resuming"]
  /\ resumed' = IF pending_approvals = NoThread THEN resumed
                ELSE resumed \cup {[tap |-> u, thread |-> pending_approvals,
                                   answer |-> asker]}
  /\ UNCHANGED <<scenario, pending_approvals, keyboards, asker, interrupted, second,
                 restarts>>

(* A tap on the buttons under the answer to k takes whatever thread is      *)
(* pending and resumes it.                                                  *)
OnApproval(u, k) ==
  /\ Arrives(u)
  /\ k \in keyboards
  /\ upd' = [upd EXCEPT ![u].kind = "tap", ![u].keyboard = k,
                        ![u].phase = IF pending_approvals = NoThread
                                     THEN "done" ELSE "resuming"]
  /\ resumed' = IF pending_approvals = NoThread THEN resumed
                ELSE resumed \cup {[tap |-> u, thread |-> pending_approvals,
                                   answer |-> asker]}
  /\ pending_approvals' = NoThread
  /\ UNCHANGED <<scenario, keyboards, asker, interrupted, second, restarts>>

(* The resume is answered and the buttons go, or it fails and they stay.    *)
Resumed(u) ==
  /\ upd[u].phase = "resuming"
  /\ Goes(u, "done")
  /\ \/ keyboards' = keyboards \ {upd[u].keyboard}
     \/ keyboards' = keyboards
  /\ UNCHANGED <<scenario, pending_approvals, asker, interrupted, resumed, second,
                 restarts, pace>>

(* What is in memory is gone; buttons on the screen are not.                *)
Restart ==
  /\ restarts < MaxRestarts
  /\ restarts' = restarts + 1
  /\ ClearState
  /\ pending_approvals' = NoThread
  /\ upd' = [u \in Updates |-> IF InFlight(u) THEN [upd[u] EXCEPT !.phase = "done"]
                               ELSE upd[u]]
  /\ UNCHANGED <<keyboards, asker, interrupted, resumed, second, pace>>

Next ==
  \/ \E u \in Updates :
       \/ CmdAsk(u) \/ CmdCancel(u) \/ OnQuestionReceived(u) \/ OnMessage(u)
       \/ \E t \in Topics : OnTopicSelected(u, t)
       \/ ProcessMessage(u)
       \/ \E interrupt \in BOOLEAN : BackendAnswers(u, interrupt)
       \/ Answered(u) \/ Fails(u) \/ Resumed(u)
       \/ \E k \in keyboards : OnApproval(u, k)
  \/ Tick \/ Restart

Spec == Init /\ [][Next]_vars

-------------------------------------------------------------------------------
(* However taps, answers and restarts overlap, an interrupted question is   *)
(* decided at most once, in the thread it was interrupted in: a thread is   *)
(* resumed again only for another question, of the same second, that was    *)
(* interrupted in it as well.                                               *)
ResumedOnce ==
  /\ \A p, q \in resumed : p.answer = q.answer => p = q
  /\ \A p \in resumed :
       p.answer \in interrupted /\ upd[p.answer].thread = p.thread
  /\ pending_approvals # NoThread =>
       /\ asker \in interrupted /\ upd[asker].thread = pending_approvals
       /\ \A p \in resumed : p.answer # asker

(* Every question of a scenario is sent with the topic its user chose in    *)
(* that scenario, never with one left over from an earlier one.             *)
QuestionHasTopic ==
  /\ fsm = "waiting_for_question" => chosen # NoTopic /\ topic = chosen
  /\ \A u \in Updates : upd[u].kind = "question" => upd[u].topic # NoTopic

(* The inductive invariant behind these two: only an answered question can  *)
(* have been interrupted, so no answer becomes pending twice; and a         *)
(* question that is being processed has a thread.                           *)
InterruptedAnswered ==
  /\ \A u \in interrupted : upd[u].phase \notin {"new", "asking", "processing"}
  /\ \A u \in Updates : upd[u].phase = "processing" => upd[u].thread # NoThread

(* A user who waits has one update handled at a time, and the scenario of a *)
(* question on its way is the one that is open.                             *)
OneUnderWay ==
  pace = "waits" =>
    /\ \A u, v \in Updates : InFlight(u) /\ InFlight(v) => u = v
    /\ \A u \in Updates :
         InFlight(u) /\ upd[u].kind = "question" => upd[u].flow = flow

BotInv ==
  /\ TypeOK /\ ResumedOnce /\ QuestionHasTopic
  /\ InterruptedAnswered /\ OneUnderWay

(* A user who waits for each answer never loses the scenario he is in: it   *)
(* is ended by its own question, by a command or by a restart.              *)
ScenarioKept ==
  [][pace = "waits" /\ flow # NoUpdate /\ flow' # flow =>
       \/ \E u \in Updates : upd[u].phase = "new" /\ upd'[u].kind = "command"
       \/ \E u \in Updates : upd[u].flow = flow /\ InFlight(u) /\ ~ InFlight(u)'
       \/ restarts' > restarts]_vars

(* The user is asked about every action the agent has stopped at: an answer *)
(* to an interrupted question is never sent without its buttons.            *)
ApprovalReachesUser == \A u \in interrupted : upd[u].phase # "answering"
===============================================================================
