--------------------------- MODULE TelegramBotProofs ---------------------------
(***************************************************************************)
(* TelegramBot keeps its promises about approvals and scenarios for any    *)
(* number of updates, topics and restarts.  One lemma per part of the      *)
(* inductive invariant BotInv; each goes through the actions of Next.      *)
(***************************************************************************)
EXTENDS TelegramBot, TLAPS

(* The invariant holds initially.                                           *)
LEMMA InitBotInv == Init => BotInv
BY BotConstants DEF Init, BotInv, TypeOK, Update, Threads, Resume, ResumedOnce, QuestionHasTopic,
   InterruptedAnswered, OneUnderWay, InFlight

(* Every step keeps the types.                                              *)
LEMMA NextKeepsType ==
  ASSUME TypeOK, ResumedOnce, Next
  PROVE  TypeOK'
<1>01. ASSUME NEW u \in Updates, NEW a \in Update, upd' = [upd EXCEPT ![u] = a]
       PROVE  upd' \in [Updates -> Update]
  BY <1>01 DEF TypeOK
<1>02. ASSUME NEW u \in Updates, NEW phase \in {"showing", "answering", "done"},
              Goes(u, phase)
       PROVE  upd' \in [Updates -> Update]
  <2> DEFINE a == [upd[u] EXCEPT !.phase = phase]
  <2>1. a \in Update
    BY DEF TypeOK, Update
  <2>2. upd' = [upd EXCEPT ![u] = a]
    BY <1>02 DEF Goes
  <2> QED
    BY <1>01, <2>1, <2>2
<1>03. ASSUME NEW u \in Updates, Arrives(u) PROVE pace' \in {"waits", "overlaps"}
  BY <1>03 DEF Arrives, TypeOK
<1>0. ASSUME NEW u \in Updates, Arrives(u), Handled(u)
      PROVE  upd' \in [Updates -> Update] /\ pace' \in {"waits", "overlaps"}
  <2> DEFINE a == [upd[u] EXCEPT !.phase = "done", !.kind = "command"]
  <2>1. a \in Update
    BY DEF TypeOK, Update
  <2>2. upd' = [upd EXCEPT ![u] = a]
    BY <1>0 DEF Handled
  <2> QED
    BY <1>0, <1>01, <1>03, <2>1, <2>2
<1>1. ASSUME NEW u \in Updates, CmdAsk(u)
      PROVE  TypeOK'
  BY <1>0, <1>1 DEF CmdAsk, TypeOK, approval
<1>2. ASSUME NEW u \in Updates, CmdCancel(u)
      PROVE  TypeOK'
  BY <1>0, <1>2 DEF CmdCancel, ClearState, TypeOK, approval
<1>3. ASSUME NEW u \in Updates, NEW t \in Topics, OnTopicSelected(u, t)
      PROVE  TypeOK'
  BY <1>0, <1>3 DEF OnTopicSelected, TypeOK, approval
<1>4. ASSUME NEW u \in Updates, OnQuestionReceived(u)
      PROVE  TypeOK'
  <2> DEFINE a == [upd[u] EXCEPT !.phase = "asking", !.kind = "question",
                                 !.flow = flow, !.topic = topic]
  <2>1. a \in Update
    BY DEF TypeOK, Update
  <2>2. upd' = [upd EXCEPT ![u] = a]
    BY <1>4 DEF OnQuestionReceived
  <2>3. upd' \in [Updates -> Update]
    BY <1>01, <2>1, <2>2
  <2>4. pace' \in {"waits", "overlaps"}
    BY <1>03, <1>4 DEF OnQuestionReceived
  <2> QED
    BY <1>4, <2>3, <2>4 DEF OnQuestionReceived, scenario, approval, TypeOK
<1>5. ASSUME NEW u \in Updates, OnMessage(u)
      PROVE  TypeOK'
  <2> DEFINE a == [upd[u] EXCEPT !.phase = "asking", !.kind = "message"]
  <2>1. a \in Update
    BY DEF TypeOK, Update
  <2>2. upd' = [upd EXCEPT ![u] = a]
    BY <1>5 DEF OnMessage
  <2>3. upd' \in [Updates -> Update]
    BY <1>01, <2>1, <2>2
  <2>4. pace' \in {"waits", "overlaps"}
    BY <1>03, <1>5 DEF OnMessage
  <2> QED
    BY <1>5, <2>3, <2>4 DEF OnMessage, scenario, approval, TypeOK
<1>6. ASSUME NEW u \in Updates, NEW i \in BOOLEAN, BackendAnswers(u, i)
      PROVE  TypeOK'
  <2>1. upd' \in [Updates -> Update]
    BY <1>02, <1>6 DEF BackendAnswers
  <2>2. upd[u].thread \in Threads \cup {NoThread}
    BY DEF TypeOK, Update
  <2> QED
    BY <1>6, <2>1, <2>2 DEF BackendAnswers, scenario, TypeOK
<1>61. ASSUME NEW u \in Updates, EndOfQuestion(u)
       PROVE  /\ fsm' \in {"none", "waiting_for_topic", "waiting_for_question"}
              /\ topic' \in Topics \cup {NoTopic} /\ chosen' \in Topics \cup {NoTopic}
              /\ flow' \in Updates \cup {NoUpdate}
  BY <1>61 DEF EndOfQuestion, ClearState, scenario, TypeOK
<1>7. ASSUME NEW u \in Updates, Answered(u)
      PROVE  TypeOK'
  <2>1. upd' \in [Updates -> Update]
    BY <1>02, <1>7 DEF Answered
  <2>2. EndOfQuestion(u)
    BY <1>7 DEF Answered
  <2> QED
    BY <1>7, <1>61, <2>1, <2>2 DEF Answered, TypeOK
<1>8. ASSUME NEW u \in Updates, Fails(u)
      PROVE  TypeOK'
  <2>1. upd' \in [Updates -> Update]
    BY <1>02, <1>8 DEF Fails
  <2>2. EndOfQuestion(u)
    BY <1>8 DEF Fails
  <2> QED
    BY <1>8, <1>61, <2>1, <2>2 DEF Fails, approval, TypeOK
<1>9. ASSUME NEW u \in Updates, Resumed(u)
      PROVE  TypeOK'
  <2>1. upd' \in [Updates -> Update]
    BY <1>02, <1>9 DEF Resumed
  <2> QED
    BY <1>9, <2>1 DEF Resumed, scenario, TypeOK
<1>10. ASSUME ResumedOnce, NEW u \in Updates, NEW k \in keyboards, OnApproval(u, k)
       PROVE  TypeOK'
  <2>1. pending_approvals # NoThread => asker \in Updates /\ pending_approvals \in Threads
    BY <1>10 DEF ResumedOnce, TypeOK
  <2>2. resumed' \subseteq Resume
    BY <1>10, <2>1 DEF OnApproval, Resume, TypeOK
  <2> DEFINE a == [upd[u] EXCEPT !.kind = "tap", !.keyboard = k,
                     !.phase = IF pending_approvals = NoThread THEN "done" ELSE "resuming"]
  <2>3. a \in Update
    BY DEF TypeOK, Update
  <2>4. upd' = [upd EXCEPT ![u] = a]
    BY <1>10 DEF OnApproval
  <2>5. upd' \in [Updates -> Update]
    BY <1>01, <2>3, <2>4
  <2>6. pace' \in {"waits", "overlaps"}
    BY <1>03, <1>10 DEF OnApproval
  <2> QED
    BY <1>10, <2>2, <2>5, <2>6 DEF OnApproval, scenario, TypeOK
<1> USE DEF TypeOK, Update, Resume
<1>11. ASSUME Restart
       PROVE  TypeOK'
  BY <1>11, BotConstants DEF Restart, ClearState, InFlight
<1>12. ASSUME NEW u \in Updates, ProcessMessage(u)
       PROVE  TypeOK'
  <2> DEFINE goes == [upd[u] EXCEPT !.phase = "processing", !.thread = second]
  <2>0. goes \in Update
    OBVIOUS
  <2>1. upd' \in [Updates -> Update]
    <3>1. upd' = [upd EXCEPT ![u] = goes]
      BY <1>12 DEF ProcessMessage
    <3> QED
      BY <2>0, <3>1
  <2> QED
    BY <1>12, <2>1 DEF ProcessMessage, scenario, approval
<1>13. ASSUME Tick
       PROVE  TypeOK'
  BY <1>13, BotConstants DEF Tick, Threads, scenario, approval
<1> QED
  BY <1>1, <1>2, <1>3, <1>4, <1>5, <1>6, <1>7, <1>8, <1>9, <1>10, <1>11, <1>12, <1>13
  DEF Next

(* Every step keeps the topics of scenarios and questions.                  *)
LEMMA NextKeepsTopics ==
  ASSUME TypeOK, QuestionHasTopic, Next
  PROVE  QuestionHasTopic'
<1> USE DEF TypeOK, Update, QuestionHasTopic
<1>1. ASSUME NEW u \in Updates, CmdAsk(u)
      PROVE  QuestionHasTopic'
  BY <1>1 DEF CmdAsk, Arrives, Handled
<1>2. ASSUME NEW u \in Updates, CmdCancel(u)
      PROVE  QuestionHasTopic'
  BY <1>2 DEF CmdCancel, Arrives, Handled, ClearState
<1>3. ASSUME NEW u \in Updates, NEW t \in Topics, OnTopicSelected(u, t)
      PROVE  QuestionHasTopic'
  BY <1>3, BotConstants DEF OnTopicSelected, Arrives, Handled
<1>4. ASSUME NEW u \in Updates, OnQuestionReceived(u)
      PROVE  QuestionHasTopic'
  BY <1>4 DEF OnQuestionReceived, Arrives, scenario
<1>5. ASSUME NEW u \in Updates, OnMessage(u)
      PROVE  QuestionHasTopic'
  BY <1>5 DEF OnMessage, Arrives, scenario
<1>6. ASSUME NEW u \in Updates, NEW i \in BOOLEAN, BackendAnswers(u, i)
      PROVE  QuestionHasTopic'
  BY <1>6 DEF BackendAnswers, Goes, scenario
<1>7. ASSUME NEW u \in Updates, Answered(u)
      PROVE  QuestionHasTopic'
  BY <1>7 DEF Answered, Goes, EndOfQuestion, ClearState, scenario
<1>8. ASSUME NEW u \in Updates, Fails(u)
      PROVE  QuestionHasTopic'
  BY <1>8 DEF Fails, Goes, EndOfQuestion, ClearState, scenario
<1>9. ASSUME NEW u \in Updates, Resumed(u)
      PROVE  QuestionHasTopic'
  BY <1>9 DEF Resumed, Goes, scenario
<1>10. ASSUME NEW u \in Updates, NEW k \in keyboards, OnApproval(u, k)
       PROVE  QuestionHasTopic'
  BY <1>10 DEF OnApproval, Arrives, scenario
<1>11. ASSUME Restart
       PROVE  QuestionHasTopic'
  BY <1>11 DEF Restart, ClearState, InFlight
<1>12. ASSUME NEW u \in Updates, ProcessMessage(u)
       PROVE  QuestionHasTopic'
  BY <1>12 DEF ProcessMessage, scenario
<1>13. ASSUME Tick
       PROVE  QuestionHasTopic'
  BY <1>13 DEF Tick, scenario
<1> QED
  BY <1>1, <1>2, <1>3, <1>4, <1>5, <1>6, <1>7, <1>8, <1>9, <1>10, <1>11, <1>12, <1>13
  DEF Next

(* Steps that leave what is pending, interrupted and resumed alone, and     *)
(* move no update back to the backend or to another thread once it has one, *)
(* keep the promises about approvals.                                       *)
ApprovalsAlone ==
  /\ UNCHANGED <<pending_approvals, asker, interrupted, resumed>>
  /\ \A v \in Updates :
       /\ upd'[v].phase \in {"new", "asking", "processing"} =>
            upd[v].phase \in {"new", "asking", "processing"}
       /\ upd'[v].phase = "processing" => upd'[v].thread # NoThread
       /\ upd[v].phase # "asking" => upd'[v].thread = upd[v].thread

(* That is so.                                                              *)
LEMMA AloneKeepsApprovals ==
  ASSUME TypeOK, ResumedOnce, InterruptedAnswered, ApprovalsAlone
  PROVE  (ResumedOnce /\ InterruptedAnswered)'
<1>1. \A v \in interrupted : upd'[v].thread = upd[v].thread
  BY DEF TypeOK, InterruptedAnswered, ApprovalsAlone
<1>2. ResumedOnce'
  BY <1>1 DEF ResumedOnce, ApprovalsAlone
<1>3. InterruptedAnswered'
  BY DEF TypeOK, InterruptedAnswered, ApprovalsAlone
<1> QED
  BY <1>2, <1>3

(* Every step keeps them: only an answer of the backend and a tap change    *)
(* what is pending.                                                         *)
LEMMA NextKeepsApprovals ==
  ASSUME TypeOK, ResumedOnce, InterruptedAnswered, Next
  PROVE  (ResumedOnce /\ InterruptedAnswered)'
<1> USE DEF TypeOK, Update
<1>0. \A v \in Updates : upd[v].phase = "processing" => upd[v].thread # NoThread
  BY DEF InterruptedAnswered
<1>1. ASSUME NEW u \in Updates, CmdAsk(u) \/ CmdCancel(u)
      PROVE  ApprovalsAlone
  BY <1>0, <1>1 DEF CmdAsk, CmdCancel, Arrives, Handled, approval, ApprovalsAlone
<1>2. ASSUME NEW u \in Updates, NEW t \in Topics, OnTopicSelected(u, t)
      PROVE  ApprovalsAlone
  BY <1>0, <1>2 DEF OnTopicSelected, Arrives, Handled, approval, ApprovalsAlone
<1>3. ASSUME NEW u \in Updates, OnQuestionReceived(u) \/ OnMessage(u)
      PROVE  ApprovalsAlone
  BY <1>0, <1>3 DEF OnQuestionReceived, OnMessage, Arrives, approval, ApprovalsAlone
<1>4. ASSUME NEW u \in Updates, Answered(u) \/ Fails(u) \/ Resumed(u)
      PROVE  ApprovalsAlone
  BY <1>0, <1>4 DEF Answered, Fails, Resumed, Goes, approval, ApprovalsAlone
<1>5. ASSUME NEW u \in Updates, ProcessMessage(u)
      PROVE  ApprovalsAlone
  BY <1>0, <1>5, BotConstants DEF ProcessMessage, Threads, approval, ApprovalsAlone
<1>6. ASSUME Tick
      PROVE  ApprovalsAlone
  BY <1>0, <1>6 DEF Tick, approval, ApprovalsAlone
<1>7. ASSUME NEW u \in Updates, NEW i \in BOOLEAN, BackendAnswers(u, i)
      PROVE  (ResumedOnce /\ InterruptedAnswered)'
  <2>1. u \notin interrupted /\ upd[u].thread # NoThread
    BY <1>0, <1>7 DEF BackendAnswers, InterruptedAnswered
  <2>2. \A p \in resumed : p.answer # u
    BY <2>1 DEF ResumedOnce
  <2>3. \A v \in Updates : upd'[v].thread = upd[v].thread
    BY <1>7 DEF BackendAnswers, Goes
  <2>4. resumed' = resumed /\ interrupted \subseteq interrupted'
    BY <1>7 DEF BackendAnswers
  <2>5. \A p \in resumed : p.answer \in Updates
    BY DEF Resume
  <2>0. InterruptedAnswered'
    BY <1>7 DEF BackendAnswers, Goes, InterruptedAnswered
  <2>6. CASE MessageResponse(i)
    <3>1. pending_approvals' = upd[u].thread /\ asker' = u /\ u \in interrupted'
      BY <1>7, <2>6 DEF BackendAnswers, MessageResponse
    <3> QED
      BY <2>2, <2>3, <2>4, <2>0, <2>5, <3>1 DEF ResumedOnce
  <2>7. CASE ~ MessageResponse(i)
    <3>1. pending_approvals' = pending_approvals /\ asker' = asker
      BY <1>7, <2>7 DEF BackendAnswers
    <3> QED
      BY <2>3, <2>4, <2>0, <2>5, <3>1 DEF ResumedOnce
  <2> QED
    BY <2>6, <2>7
<1>8. ASSUME NEW u \in Updates, NEW k \in keyboards, OnApproval(u, k)
      PROVE  (ResumedOnce /\ InterruptedAnswered)'
  <2>1. InterruptedAnswered'
    BY <1>8 DEF OnApproval, Arrives, InterruptedAnswered
  <2>2. \A v \in Updates : upd'[v].thread = upd[v].thread
    BY <1>8 DEF OnApproval
  <2>3. interrupted' = interrupted /\ pending_approvals' = NoThread
    BY <1>8 DEF OnApproval
  <2>4. CASE pending_approvals = NoThread
    BY <1>8, <2>1, <2>2, <2>3, <2>4 DEF OnApproval, ResumedOnce
  <2>5. CASE pending_approvals # NoThread
    <3> DEFINE new == [tap |-> u, thread |-> pending_approvals, answer |-> asker]
    <3>1. resumed' = resumed \cup {new}
      BY <1>8, <2>5 DEF OnApproval
    <3>2. /\ asker \in interrupted /\ upd[asker].thread = pending_approvals
          /\ \A p \in resumed : p.answer # asker
      BY <2>5 DEF ResumedOnce
    <3>3. new.answer = asker /\ new.thread = pending_approvals
      OBVIOUS
    <3> HIDE DEF new
    <3>4. \A p \in resumed' :
            p.answer \in interrupted' /\ upd'[p.answer].thread = p.thread
      BY <2>2, <2>3, <3>1, <3>2, <3>3 DEF ResumedOnce
    <3>5. \A p, q \in resumed' : p.answer = q.answer => p = q
      BY <3>1, <3>2, <3>3 DEF ResumedOnce
    <3> QED
      BY <2>1, <2>3, <3>4, <3>5 DEF ResumedOnce
  <2> QED
    BY <2>1, <2>4, <2>5
<1>9. ASSUME Restart
      PROVE  (ResumedOnce /\ InterruptedAnswered)'
  <2>1. \A v \in Updates :
          /\ upd'[v].thread = upd[v].thread
          /\ upd'[v].phase = "done" \/ upd'[v].phase = upd[v].phase
          /\ upd'[v].phase # "processing"
    BY <1>9 DEF Restart, InFlight
  <2>2. /\ pending_approvals' = NoThread
        /\ interrupted' = interrupted /\ resumed' = resumed
    BY <1>9 DEF Restart
  <2>3. ResumedOnce'
    BY <2>1, <2>2 DEF ResumedOnce
  <2>4. InterruptedAnswered'
    BY <2>1, <2>2 DEF InterruptedAnswered
  <2> QED
    BY <2>3, <2>4
<1> QED
  BY <1>1, <1>2, <1>3, <1>4, <1>5, <1>6, <1>7, <1>8, <1>9, AloneKeepsApprovals DEF Next

(* A step that takes an update on, or lets it rest, when no other is under  *)
(* way and the scenario stays open, keeps the order of a user who waits.    *)
LEMMA OneUpdateMoves ==
  ASSUME OneUnderWay, NEW u \in Updates,
         \A v \in Updates \ {u} : upd'[v] = upd[v],
         pace' = "waits" => pace = "waits",
         pace' = "waits" =>
           \/ InFlight(u)' => InFlight(u)
           \/ \A v \in Updates : ~ InFlight(v),
         pace' = "waits" => flow' = flow \/ \A v \in Updates \ {u} : ~ InFlight(v),
         pace' = "waits" /\ InFlight(u)' /\ upd'[u].kind = "question" =>
           upd'[u].flow = flow'
  PROVE  OneUnderWay'
<1>1. \A v \in Updates \ {u} : InFlight(v)' <=> InFlight(v)
  BY DEF InFlight
<1> QED
  BY <1>1 DEF OneUnderWay

(* Every step does.                                                         *)
LEMMA NextKeepsOneUnderWay ==
  ASSUME TypeOK, OneUnderWay, Next
  PROVE  OneUnderWay'
<1>1. ASSUME NEW u \in Updates, Arrives(u)
      PROVE  /\ ~ InFlight(u)
             /\ pace' = "waits" => pace = "waits" /\ \A v \in Updates : ~ InFlight(v)
  BY <1>1 DEF Arrives, InFlight
<1>2. ASSUME NEW u \in Updates,
             CmdAsk(u) \/ CmdCancel(u) \/ \E t \in Topics : OnTopicSelected(u, t)
      PROVE  OneUnderWay'
  <2>1. Arrives(u) /\ Handled(u)
    BY <1>2 DEF CmdAsk, CmdCancel, OnTopicSelected
  <2>2. ~ InFlight(u)' /\ \A v \in Updates \ {u} : upd'[v] = upd[v]
    BY <2>1 DEF Handled, InFlight, TypeOK, Update
  <2> QED
    BY <1>1, <2>1, <2>2, OneUpdateMoves
<1>3. ASSUME NEW u \in Updates, OnQuestionReceived(u) \/ OnMessage(u)
      PROVE  OneUnderWay'
  <2>1. Arrives(u) /\ flow' = flow
    BY <1>3 DEF OnQuestionReceived, OnMessage, scenario
  <2>2. /\ \A v \in Updates \ {u} : upd'[v] = upd[v]
        /\ upd'[u].kind = "question" => upd'[u].flow = flow
    BY <1>3 DEF OnQuestionReceived, OnMessage, TypeOK, Update
  <2> QED
    BY <1>1, <2>1, <2>2, OneUpdateMoves
<1>4. ASSUME NEW u \in Updates, NEW k \in keyboards, OnApproval(u, k)
      PROVE  OneUnderWay'
  <2>1. Arrives(u) /\ flow' = flow
    BY <1>4 DEF OnApproval, scenario
  <2>2. upd'[u].kind = "tap" /\ \A v \in Updates \ {u} : upd'[v] = upd[v]
    BY <1>4 DEF OnApproval, TypeOK, Update
  <2> QED
    BY <1>1, <2>1, <2>2, OneUpdateMoves
<1>5. ASSUME NEW u \in Updates, NEW i \in BOOLEAN, BackendAnswers(u, i)
      PROVE  OneUnderWay'
  <2>1. InFlight(u) /\ flow' = flow /\ pace' = pace
    BY <1>5 DEF BackendAnswers, InFlight, scenario
  <2>2. /\ \A v \in Updates \ {u} : upd'[v] = upd[v]
        /\ upd'[u].kind = upd[u].kind /\ upd'[u].flow = upd[u].flow
    BY <1>5 DEF BackendAnswers, Goes, TypeOK, Update
  <2> QED
    BY <2>1, <2>2, OneUpdateMoves DEF OneUnderWay
<1>6. ASSUME NEW u \in Updates, Answered(u) \/ Fails(u) \/ Resumed(u)
      PROVE  OneUnderWay'
  <2>1. InFlight(u) /\ pace' = pace /\ Goes(u, "done")
    BY <1>6 DEF Answered, Fails, Resumed, InFlight
  <2>2. ~ InFlight(u)' /\ \A v \in Updates \ {u} : upd'[v] = upd[v]
    BY <2>1 DEF Goes, InFlight, TypeOK, Update
  <2> QED
    BY <2>1, <2>2, OneUpdateMoves DEF OneUnderWay
<1>7. ASSUME Restart
      PROVE  OneUnderWay'
  <2>1. \A v \in Updates : ~ InFlight(v)'
    BY <1>7 DEF Restart, InFlight, TypeOK, Update
  <2> QED
    BY <2>1 DEF OneUnderWay
<1>8. ASSUME NEW u \in Updates, ProcessMessage(u)
      PROVE  OneUnderWay'
  <2>1. InFlight(u) /\ flow' = flow /\ pace' = pace
    BY <1>8 DEF ProcessMessage, InFlight, scenario
  <2>2. /\ \A v \in Updates \ {u} : upd'[v] = upd[v]
        /\ upd'[u].kind = upd[u].kind /\ upd'[u].flow = upd[u].flow
    BY <1>8 DEF ProcessMessage, TypeOK, Update
  <2> QED
    BY <2>1, <2>2, OneUpdateMoves DEF OneUnderWay
<1>9. ASSUME Tick
      PROVE  OneUnderWay'
  BY <1>9 DEF Tick, scenario, OneUnderWay, InFlight
<1> QED
  BY <1>2, <1>3, <1>4, <1>5, <1>6, <1>7, <1>8, <1>9 DEF Next

(* Steps that change nothing keep everything.                               *)
LEMMA BotStutter ==
  ASSUME BotInv, UNCHANGED vars
  PROVE  BotInv'
BY DEF BotInv, TypeOK, ResumedOnce, QuestionHasTopic, InterruptedAnswered,
   OneUnderWay, InFlight, vars, scenario, approval

(* BotInv holds in every state of the bot: the argument for all below.      *)
THEOREM BotInvariance == Spec => []BotInv
<1>1. BotInv /\ [Next]_vars => BotInv'
  <2>1. ASSUME BotInv, Next
        PROVE  BotInv'
    BY <2>1, NextKeepsType, NextKeepsTopics, NextKeepsApprovals,
       NextKeepsOneUnderWay DEF BotInv
  <2> QED
    BY <2>1, BotStutter
<1> QED
  BY <1>1, InitBotInv, PTL DEF Spec

(* The state of the bot is well typed.                                      *)
THEOREM BotTypeCorrect == Spec => []TypeOK
BY BotInvariance, PTL DEF BotInv

(* An interrupted question is decided at most once, in its own thread,      *)
(* however taps, answers and restarts overlap.                              *)
THEOREM ResumeUsedOnce == Spec => []ResumedOnce
BY BotInvariance, PTL DEF BotInv

(* A question is always sent with the topic chosen in its scenario.         *)
THEOREM TopicIsChosen == Spec => []QuestionHasTopic
BY BotInvariance, PTL DEF BotInv

(* A user who waits for his answers loses no scenario but by its question,  *)
(* by a command of his own or by a restart.                                 *)
THEOREM ScenarioStays == Spec => ScenarioKept
<1>1. BotInv /\ [Next]_vars =>
        [pace = "waits" /\ flow # NoUpdate /\ flow' # flow =>
           \/ \E u \in Updates : upd[u].phase = "new" /\ upd'[u].kind = "command"
           \/ \E u \in Updates : upd[u].flow = flow /\ InFlight(u) /\ ~ InFlight(u)'
           \/ restarts' > restarts]_vars
  <2> SUFFICES ASSUME BotInv, Next, pace = "waits", flow # NoUpdate, flow' # flow
               PROVE  \/ \E u \in Updates : upd[u].phase = "new" /\ upd'[u].kind = "command"
                      \/ \E u \in Updates :
                           upd[u].flow = flow /\ InFlight(u) /\ ~ InFlight(u)'
                      \/ restarts' > restarts
    OBVIOUS
  <2>0. TypeOK /\ OneUnderWay
    BY DEF BotInv
  <2>1. ASSUME NEW u \in Updates, CmdAsk(u) \/ CmdCancel(u)
        PROVE  upd[u].phase = "new" /\ upd'[u].kind = "command"
    BY <2>0, <2>1 DEF CmdAsk, CmdCancel, Arrives, Handled, TypeOK, Update
  <2>2. ASSUME NEW u \in Updates, Answered(u) \/ Fails(u)
        PROVE  upd[u].flow = flow /\ InFlight(u) /\ ~ InFlight(u)'
    <3>1. InFlight(u) /\ Goes(u, "done") /\ EndOfQuestion(u)
      BY <2>2 DEF Answered, Fails, InFlight
    <3>2. upd[u].kind = "question"
      BY <3>1 DEF EndOfQuestion, scenario
    <3> QED
      BY <2>0, <3>1, <3>2 DEF OneUnderWay, Goes, InFlight, TypeOK, Update
  <2>3. Restart => restarts' > restarts
    BY <2>0 DEF Restart, TypeOK
  <2> QED
    BY <2>1, <2>2, <2>3 DEF Next, OnQuestionReceived, OnMessage, OnTopicSelected,
       ProcessMessage, Tick, BackendAnswers, Resumed, OnApproval, scenario
<1> QED
  BY <1>1, BotInvariance, PTL DEF Spec, ScenarioKept
===============================================================================
