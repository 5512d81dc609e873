-------------------------- MODULE AgentServiceProofs --------------------------
(***************************************************************************)
(* Proofs about AgentService for any set of requests, threads and tools,   *)
(* any answers of the model, any limit on iterations, and every setting of *)
(* OneAtATime, Disconnects, Durable and MaxCrashes.                        *)
(***************************************************************************)
EXTENDS AgentService, WellFoundedInduction, TLAPS

USE GraphConstants, ServiceConstants, NoCallIsNoCall

-------------------------------------------------------------------------------
(* The functions on graph states.                                           *)

(* _find_first_dangerous_call finds a call whenever there is a dangerous    *)
(* one, and it is dangerous and one of the message's calls.                 *)
LEMMA FirstDangerousFound ==
  ASSUME NEW calls \in Seq(Call), HasDangerous(calls)
  PROVE  /\ FirstDangerousCall(calls) \in Call
         /\ Dangerous(FirstDangerousCall(calls))
         /\ \E i \in DOMAIN calls : FirstDangerousCall(calls) = calls[i]
<1> DEFINE T == {i \in DOMAIN calls : Dangerous(calls[i])}
<1>1. T \subseteq Nat /\ T # {}
  BY DEF HasDangerous
<1>2. PICK i \in T : \A j \in T : <<j, i>> \notin OpToRel(<, Nat)
  BY <1>1, NatLessThanWellFounded, WFMin
<1>3. \A j \in T : ~ (j < i)
  BY <1>1, <1>2 DEF OpToRel
<1>4. \E k \in DOMAIN calls : IsFirstDangerous(calls, k)
  BY <1>3 DEF IsFirstDangerous
<1>5. QED
  BY <1>4 DEF FirstDangerousCall, IsFirstDangerous

(* The calls of a model's answer are calls.                                 *)
LEMMA AIMessageType ==
  ASSUME NEW r \in Requests, NEW turn \in 1 .. MAX_ITERATIONS,
         NEW response \in Responses
  PROVE  AIMessage(r, turn, response) \in Seq(Call)
<1>1. response \in Seq(Tools)
  OBVIOUS
<1>2. \A i \in DOMAIN response : i \in Position
  BY DEF Position
<1>3. AIMessage(r, turn, response) \in [1 .. Len(response) -> Call]
  BY <1>1, <1>2 DEF AIMessage, Call
<1>4. Len(response) \in Nat
  BY <1>1
<1> QED
  BY <1>3, <1>4

(* Every node keeps a state of the graph a state of the graph.              *)
LEMMA NodesKeepType ==
  ASSUME NEW s \in PersistentAgentState
  PROVE  /\ \A clear \in BOOLEAN : Input(s, clear) \in PersistentAgentState
         /\ \A r \in Requests, response \in Responses :
              s.iteration_count < MAX_ITERATIONS
                => CallModelNode(s, r, response) \in PersistentAgentState
         /\ ExecuteToolNode(s) \in PersistentAgentState
         /\ PrepareNode(s) \in PersistentAgentState
         /\ ConfirmNode(s) \in PersistentAgentState
         /\ ForceFinishNode(s) \in PersistentAgentState
<1>1. << >> \in Seq(Call)
  OBVIOUS
<1>2. ASSUME NEW clear \in BOOLEAN
      PROVE  Input(s, clear) \in PersistentAgentState
  BY <1>1 DEF Input, PersistentAgentState, Nodes
<1>3. ASSUME NEW r \in Requests, NEW response \in Responses,
             s.iteration_count < MAX_ITERATIONS
      PROVE  CallModelNode(s, r, response) \in PersistentAgentState
  <2> DEFINE count == s.iteration_count + 1
             calls == AIMessage(r, count, response)
  <2>1. count \in 1 .. MAX_ITERATIONS
    BY <1>3 DEF PersistentAgentState
  <2>2. calls \in Seq(Call)
    BY <2>1, AIMessageType
  <2>3. RouteAfterModel(count, calls) \in Nodes
    BY DEF RouteAfterModel, Nodes
  <2>4. CallModelNode(s, r, response) =
          [next |-> RouteAfterModel(count, calls), iteration_count |-> count,
           calls |-> calls, pending_tool_call |-> s.pending_tool_call]
    BY DEF CallModelNode
  <2>5. s.pending_tool_call \in Call \cup {NoCall}
    BY DEF PersistentAgentState
  <2>6. count \in 0 .. MAX_ITERATIONS
    BY <2>1
  <2> HIDE DEF calls, count
  <2> QED
    BY <2>2, <2>3, <2>4, <2>5, <2>6 DEF PersistentAgentState
<1>4. ExecuteToolNode(s) \in PersistentAgentState
  BY <1>1 DEF ExecuteToolNode, PersistentAgentState, Nodes
<1>5. PrepareNode(s) \in PersistentAgentState
  BY FirstDangerousFound DEF PrepareNode, PersistentAgentState, Nodes
<1>6. ConfirmNode(s) \in PersistentAgentState
  BY <1>1 DEF ConfirmNode, PersistentAgentState, Nodes
<1>7. ForceFinishNode(s) \in PersistentAgentState
  BY DEF ForceFinishNode, PersistentAgentState, Nodes
<1> QED
  BY <1>2, <1>3, <1>4, <1>5, <1>6, <1>7

(* Every node, run where the graph runs it, keeps the invariant of states.  *)
LEMMA NodesKeepInv ==
  ASSUME NEW s \in PersistentAgentState, StateInv(s)
  PROVE  /\ \A clear \in BOOLEAN : StateInv(Input(s, clear))
         /\ \A r \in Requests, response \in Responses :
              s.next = "call_model" => StateInv(CallModelNode(s, r, response))
         /\ s.next = "execute_tool" => StateInv(ExecuteToolNode(s))
         /\ s.next = "prepare_dangerous_action" => StateInv(PrepareNode(s))
         /\ s.next = "confirm_and_execute" => StateInv(ConfirmNode(s))
         /\ StateInv(ForceFinishNode(s))
<1>1. ASSUME NEW clear \in BOOLEAN
      PROVE  StateInv(Input(s, clear))
  BY DEF Input, StateInv
<1>2. ASSUME NEW r \in Requests, NEW response \in Responses,
             s.next = "call_model"
      PROVE  StateInv(CallModelNode(s, r, response))
  <2> DEFINE count == s.iteration_count + 1
             calls == AIMessage(r, count, response)
  <2>1. count \in Nat
    BY DEF PersistentAgentState
  <2> HIDE DEF calls, count
  <2> QED
    BY <2>1 DEF CallModelNode, RouteAfterModel, StateInv, calls, count
<1>3. s.next = "execute_tool" => StateInv(ExecuteToolNode(s))
  BY DEF ExecuteToolNode, StateInv, PersistentAgentState
<1>4. s.next = "prepare_dangerous_action" => StateInv(PrepareNode(s))
  BY DEF PrepareNode, StateInv, PersistentAgentState
<1>5. s.next = "confirm_and_execute" => StateInv(ConfirmNode(s))
  BY DEF ConfirmNode, StateInv, PersistentAgentState
<1>6. StateInv(ForceFinishNode(s))
  BY DEF ForceFinishNode, StateInv, PersistentAgentState
<1> QED
  BY <1>1, <1>2, <1>3, <1>4, <1>5, <1>6

(* So is the state of a thread without a checkpoint.                        *)
LEMMA EmptyStateInv == EmptyState \in PersistentAgentState /\ StateInv(EmptyState)
BY DEF EmptyState, PersistentAgentState, Nodes, StateInv

-------------------------------------------------------------------------------
(* The inductive invariant.                                                 *)

(* IInv holds before the first request.                                     *)
LEMMA InitInv == Init => IInv
<1> SUFFICES ASSUME Init PROVE IInv
  OBVIOUS
<1>1. NewRequest \in Invocation
  BY EmptyStateInv DEF NewRequest, Invocation
<1>2. TypeOK
  BY <1>1, EmptyStateInv DEF Init, TypeOK
<1>3. GraphInv
  BY EmptyStateInv DEF Init, GraphInv, Active, NewRequest
<1> QED
  BY <1>2, <1>3
  DEF Init, IInv, DecisionSpent, OneActionPerDecision, ActionNeedsApproval

(* The end of a node: its update is saved, or the run finishes with it.     *)
LEMMA SaveKeepsInv ==
  ASSUME IInv, NEW r \in Requests, Active(r),
         NEW s \in PersistentAgentState, StateInv(s),
         NEW phase \in {"running", "done"}, Save(r, s, phase),
         UNCHANGED <<seen, crashes, execs>>,
         shown' = shown, cancels' \subseteq Effect
  PROVE  IInv'
<1> DEFINE q == req'[r]
<1>1. TypeOK /\ GraphInv /\ DecisionSpent /\ req[r].thread \in Threads
  BY DEF IInv, GraphInv
<1>2. /\ q.state = s /\ q.phase = phase /\ q.fresh = FALSE
      /\ q.thread = req[r].thread /\ q.role = req[r].role
      /\ q.decision = req[r].decision /\ q.meant = req[r].meant
      /\ DOMAIN req' = Requests
      /\ \A p \in Requests \ {r} : req'[p] = req[p]
  BY <1>1 DEF TypeOK, Save, Invocation
<1>3. q \in Invocation
  <2>1. req[r] \in Invocation
    BY <1>1 DEF TypeOK
  <2>2. q = [req[r] EXCEPT !.state = s, !.fresh = FALSE, !.phase = phase]
    BY <1>1 DEF Save, TypeOK
  <2> QED
    BY <2>1, <2>2 DEF Invocation
<1>4. req' \in [Requests -> Invocation]
  <2>1. \A p \in Requests : req'[p] \in Invocation
    BY <1>1, <1>2, <1>3 DEF TypeOK
  <2>2. req' = [p \in Requests |-> req'[p]]
    BY <1>1 DEF TypeOK, Save
  <2> QED
    BY <2>1, <2>2
<1>5. /\ checkpoint' \in [Threads -> PersistentAgentState]
      /\ \A t \in Threads : checkpoint'[t] = s \/ checkpoint'[t] = checkpoint[t]
  BY <1>1 DEF TypeOK, Save
<1>6. TypeOK'
  BY <1>1, <1>4, <1>5 DEF TypeOK
<1>7. GraphInv'
  BY <1>1, <1>2, <1>5 DEF GraphInv, Active, Pending
<1>8. DecisionSpent'
  BY <1>1, <1>2 DEF DecisionSpent, TypeOK, Effect
<1>9. OneActionPerDecision' /\ ActionNeedsApproval'
  BY <1>1, <1>2 DEF IInv, OneActionPerDecision, ActionNeedsApproval, TypeOK, Effect
<1> QED
  BY <1>6, <1>7, <1>8, <1>9 DEF IInv

(* An invocation that ends without an update of the graph's state.          *)
LEMMA EndKeepsInv ==
  ASSUME IInv, NEW r \in Requests, Active(r),
         NEW phase \in {"interrupted", "failed"},
         req' = [req EXCEPT ![r].phase = phase],
         UNCHANGED <<checkpoint, crashes, execs, cancels>>,
         seen' \in [Threads -> Call \cup {NoCall}],
         shown' \subseteq Call \cup {NoCall}
  PROVE  IInv'
<1>1. TypeOK /\ GraphInv /\ DecisionSpent
  BY DEF IInv
<1>2. /\ req' \in [Requests -> Invocation]
      /\ req'[r].phase = phase
      /\ \A p \in Requests :
           /\ req'[p].state = req[p].state /\ req'[p].thread = req[p].thread
           /\ req'[p].role = req[p].role /\ req'[p].decision = req[p].decision
           /\ req'[p].fresh = req[p].fresh
           /\ p # r => req'[p] = req[p]
  BY <1>1 DEF TypeOK, Invocation
<1>3. TypeOK'
  BY <1>1, <1>2 DEF TypeOK
<1>4. GraphInv'
  BY <1>1, <1>2 DEF GraphInv, Active, Pending
<1>5. DecisionSpent'
  BY <1>1, <1>2 DEF DecisionSpent, TypeOK, Effect
<1>6. OneActionPerDecision' /\ ActionNeedsApproval'
  BY <1>1, <1>2 DEF IInv, OneActionPerDecision, ActionNeedsApproval, TypeOK, Effect
<1> QED
  BY <1>3, <1>4, <1>5, <1>6 DEF IInv

(* The start of an invocation from a state of the graph.                    *)
LEMMA StartKeepsInv ==
  ASSUME IInv, NEW r \in Requests, req[r].phase = "new",
         NEW invocation \in Invocation,
         invocation.phase \in {"running", "done"},
         invocation.thread \in Threads, StateInv(invocation.state),
         req' = [req EXCEPT ![r] = invocation],
         checkpoint' \in [Threads -> PersistentAgentState],
         \A t \in Threads : StateInv(checkpoint'[t]),
         UNCHANGED <<seen, crashes, history>>
  PROVE  IInv'
<1>1. TypeOK /\ GraphInv /\ DecisionSpent
  BY DEF IInv
<1>2. /\ req' \in [Requests -> Invocation]
      /\ req'[r] = invocation
      /\ \A p \in Requests : p # r => req'[p] = req[p]
      /\ UNCHANGED <<shown, execs, cancels>>
  BY <1>1 DEF TypeOK, history
<1>3. \A e \in execs : e.req \in Requests /\ e.req # r
  BY <1>1 DEF DecisionSpent, TypeOK, Effect
<1>4. TypeOK'
  BY <1>1, <1>2 DEF TypeOK
<1>5. GraphInv'
  BY <1>1, <1>2 DEF GraphInv, Active, Pending
<1>6. DecisionSpent'
  BY <1>1, <1>2, <1>3 DEF DecisionSpent
<1>7. OneActionPerDecision' /\ ActionNeedsApproval'
  BY <1>2, <1>3 DEF IInv, OneActionPerDecision, ActionNeedsApproval
<1> QED
  BY <1>4, <1>5, <1>6, <1>7 DEF IInv

(* A request that starts keeps IInv.                                        *)
LEMMA StartInv == ASSUME IInv, NEW r \in Requests, Start(r) PROVE IInv'
<1>1. TypeOK /\ GraphInv
  BY DEF IInv
<1>2. PICK t \in Threads, role \in Roles :
        \/ \E clear \in BOOLEAN : StartChat(r, t, role, clear)
        \/ \E decision \in {"approve", "reject"}, call \in OnScreen(t) :
             StartResume(r, t, role, decision, call)
  BY DEF Start
<1>3. checkpoint[t] \in PersistentAgentState /\ StateInv(checkpoint[t])
  BY <1>1 DEF TypeOK, GraphInv
<1>4. ASSUME NEW clear \in BOOLEAN, StartChat(r, t, role, clear)
      PROVE  IInv'
  <2> DEFINE s == Input(checkpoint[t], clear)
             invocation ==
               [phase |-> "running", thread |-> t, role |-> role,
                decision |-> "none", fresh |-> TRUE, meant |-> NoCall,
                state |-> s]
  <2>1. s \in PersistentAgentState /\ StateInv(s)
    BY <1>3, NodesKeepType, NodesKeepInv
  <2>2. invocation \in Invocation
    BY <2>1 DEF Invocation
  <2>3. /\ checkpoint' \in [Threads -> PersistentAgentState]
        /\ \A p \in Threads : StateInv(checkpoint'[p])
    BY <1>1, <1>4, <2>1 DEF StartChat, TypeOK, GraphInv
  <2>4. /\ req[r].phase = "new"
        /\ req' = [req EXCEPT ![r] = invocation]
        /\ UNCHANGED <<seen, crashes, history>>
    BY <1>4 DEF StartChat, MayStart
  <2>5. /\ invocation.phase \in {"running", "done"}
        /\ invocation.thread \in Threads /\ StateInv(invocation.state)
    BY <2>1
  <2> HIDE DEF invocation
  <2> QED
    BY <2>2, <2>3, <2>4, <2>5, StartKeepsInv
<1>5. ASSUME NEW decision \in {"approve", "reject"}, NEW call \in OnScreen(t),
             StartResume(r, t, role, decision, call)
      PROVE  IInv'
  <2> DEFINE invocation ==
               [phase |-> IF checkpoint[t].next = "end" THEN "done" ELSE "running",
                thread |-> t, role |-> role, decision |-> decision,
                fresh |-> TRUE, meant |-> call, state |-> checkpoint[t]]
  <2>1. call \in Call \cup {NoCall}
    BY <1>1 DEF OnScreen, TypeOK
  <2>2. invocation \in Invocation
    BY <1>3, <2>1 DEF Invocation
  <2>3. /\ checkpoint' \in [Threads -> PersistentAgentState]
        /\ \A p \in Threads : StateInv(checkpoint'[p])
    BY <1>1, <1>5 DEF StartResume, TypeOK, GraphInv
  <2>4. /\ req[r].phase = "new"
        /\ req' = [req EXCEPT ![r] = invocation]
        /\ UNCHANGED <<seen, crashes, history>>
    BY <1>5 DEF StartResume, MayStart
  <2>5. /\ invocation.phase \in {"running", "done"}
        /\ invocation.thread \in Threads /\ StateInv(invocation.state)
    BY <1>3
  <2> HIDE DEF invocation
  <2> QED
    BY <2>2, <2>3, <2>4, <2>5, StartKeepsInv
<1> QED
  BY <1>2, <1>4, <1>5

(* Every node, saved or failing, keeps IInv.                                *)
LEMMA StepInv == ASSUME IInv, NEW r \in Requests, Step(r) PROVE IInv'
<1> DEFINE s == req[r].state
<1>1. /\ TypeOK /\ GraphInv /\ DecisionSpent
      /\ s \in PersistentAgentState /\ Pending(r) \in Call \cup {NoCall}
  BY DEF IInv, TypeOK, Invocation, PersistentAgentState, Pending
<1>2. Active(r) => StateInv(s) /\ req[r].thread \in Threads
  BY <1>1 DEF GraphInv
<1>3. CASE CallModel(r)
  <2>1. PICK response \in Responses :
          Save(r, CallModelNode(s, r, response), "running")
    BY <1>3 DEF CallModel
  <2>2. Active(r) /\ s.next = "call_model" /\ StateInv(s)
    BY <1>2, <1>3 DEF CallModel, At, Active
  <2>3. s.iteration_count < MAX_ITERATIONS
    BY <2>2 DEF StateInv
  <2>4. /\ CallModelNode(s, r, response) \in PersistentAgentState
        /\ StateInv(CallModelNode(s, r, response))
    BY <1>1, <2>2, <2>3, NodesKeepType, NodesKeepInv
  <2> QED
    BY <1>1, <1>3, <2>1, <2>2, <2>4, SaveKeepsInv DEF CallModel, history, TypeOK
<1>4. CASE ExecuteTool(r)
  <2>1. Active(r) /\ s.next = "execute_tool" /\ StateInv(s)
    BY <1>2, <1>4 DEF ExecuteTool, At, Active
  <2>2. ExecuteToolNode(s) \in PersistentAgentState /\ StateInv(ExecuteToolNode(s))
    BY <1>1, <2>1, NodesKeepType, NodesKeepInv
  <2> QED
    BY <1>1, <1>4, <2>1, <2>2, SaveKeepsInv DEF ExecuteTool, history, TypeOK
<1>5. CASE PrepareDangerousAction(r)
  <2>1. Active(r) /\ s.next = "prepare_dangerous_action" /\ StateInv(s)
    BY <1>2, <1>5 DEF PrepareDangerousAction, At, Active
  <2>2. PrepareNode(s) \in PersistentAgentState /\ StateInv(PrepareNode(s))
    BY <1>1, <2>1, NodesKeepType, NodesKeepInv
  <2> QED
    BY <1>1, <1>5, <2>1, <2>2, SaveKeepsInv
    DEF PrepareDangerousAction, history, TypeOK
<1>6. CASE Interrupt(r)
  <2>1. Active(r) /\ req[r].thread \in Threads
    BY <1>2, <1>6 DEF Interrupt, At, Active
  <2>2. /\ seen' \in [Threads -> Call \cup {NoCall}]
        /\ shown' \subseteq Call \cup {NoCall}
    BY <1>1, <1>6 DEF Interrupt, TypeOK
  <2> QED
    BY <1>6, <2>1, <2>2, EndKeepsInv DEF Interrupt
<1>7. CASE ConfirmAndExecute(r)
  <2> DEFINE new == [req |-> r, call |-> Pending(r)]
  <2>1. /\ req[r].phase = "running" /\ s.next = "confirm_and_execute"
        /\ Active(r) /\ StateInv(s) /\ Pending(r) \in Call
        /\ new \in Effect
    BY <1>1, <1>2, <1>7 DEF ConfirmAndExecute, At, Active, Effect
  <2>2. Dangerous(Pending(r))
    <3>1. s.calls \in Seq(Call) /\ HasDangerous(s.calls)
      BY <1>1, <2>1 DEF PersistentAgentState, StateInv
    <3>2. Pending(r) = FirstDangerousCall(s.calls)
      BY <2>1 DEF StateInv, Pending
    <3> QED
      BY <3>1, <3>2, FirstDangerousFound
  <2>3. /\ req' \in [Requests -> Invocation]
        /\ req'[r].phase = "executing"
        /\ \A p \in Requests :
             /\ req'[p].state = req[p].state /\ req'[p].thread = req[p].thread
             /\ req'[p].role = req[p].role /\ req'[p].decision = req[p].decision
             /\ req'[p].fresh = req[p].fresh
             /\ p # r => req'[p] = req[p]
    BY <1>1, <1>7 DEF ConfirmAndExecute, TypeOK, Invocation
  <2>4. /\ execs' = execs \cup {new}
        /\ UNCHANGED <<checkpoint, seen, crashes, shown, cancels>>
    BY <1>7 DEF ConfirmAndExecute
  <2>5. req[r].role = "full" \/ (req[r].fresh /\ req[r].decision = "approve")
    BY <1>7 DEF ConfirmAndExecute, Decision
  <2>6. TypeOK'
    BY <1>1, <2>1, <2>3, <2>4 DEF TypeOK
  <2>7. GraphInv'
    BY <1>1, <2>1, <2>3, <2>4 DEF GraphInv, Active, Pending
  <2>8. DecisionSpent'
    BY <1>1, <2>3, <2>4 DEF DecisionSpent, TypeOK, Effect
  <2>9. OneActionPerDecision'
    <3>1. \A e \in execs : e.req = r => req[r].role = "full"
      BY <1>1, <2>1, <2>5 DEF DecisionSpent
    <3>2. \A e \in execs : e.req \in Requests
      BY <1>1 DEF TypeOK, Effect
    <3> QED
      BY <2>3, <2>4, <3>1, <3>2 DEF IInv, OneActionPerDecision
  <2>10. ActionNeedsApproval'
    BY <1>1, <2>1, <2>2, <2>3, <2>4, <2>5
    DEF IInv, ActionNeedsApproval, TypeOK, Effect
  <2> QED
    BY <2>6, <2>7, <2>8, <2>9, <2>10 DEF IInv
<1>8. CASE CommitAction(r)
  <2>1. Active(r) /\ s.next = "confirm_and_execute" /\ StateInv(s)
    BY <1>1, <1>2, <1>8 DEF CommitAction, GraphInv, Active
  <2>2. ConfirmNode(s) \in PersistentAgentState /\ StateInv(ConfirmNode(s))
    BY <1>1, <2>1, NodesKeepType, NodesKeepInv
  <2> QED
    BY <1>1, <1>8, <2>1, <2>2, SaveKeepsInv DEF CommitAction, history, TypeOK
<1>9. CASE CancelAction(r)
  <2>1. Active(r) /\ s.next = "confirm_and_execute" /\ StateInv(s)
    BY <1>2, <1>9 DEF CancelAction, At, Active
  <2>2. ConfirmNode(s) \in PersistentAgentState /\ StateInv(ConfirmNode(s))
    BY <1>1, <2>1, NodesKeepType, NodesKeepInv
  <2>3. cancels' \subseteq Effect
    BY <1>1, <1>9 DEF CancelAction, TypeOK, Effect
  <2> QED
    BY <1>9, <2>1, <2>2, <2>3, SaveKeepsInv DEF CancelAction
<1>10. CASE ForceFinish(r)
  <2>1. Active(r) /\ StateInv(s)
    BY <1>2, <1>10 DEF ForceFinish, At, Active
  <2>2. ForceFinishNode(s) \in PersistentAgentState /\ StateInv(ForceFinishNode(s))
    BY <1>1, <2>1, NodesKeepType, NodesKeepInv
  <2> QED
    BY <1>1, <1>10, <2>1, <2>2, SaveKeepsInv DEF ForceFinish, history, TypeOK
<1>11. CASE NodeFails(r)
  <2>1. Active(r)
    BY <1>11 DEF NodeFails, At, Active
  <2> QED
    BY <1>1, <1>11, <2>1, EndKeepsInv DEF NodeFails, history, TypeOK
<1> QED
  BY <1>3, <1>4, <1>5, <1>6, <1>7, <1>8, <1>9, <1>10, <1>11 DEF Step

(* A restart of the process keeps IInv.                                     *)
LEMMA RestartInv == ASSUME IInv, Restart PROVE IInv'
<1>1. TypeOK /\ GraphInv /\ DecisionSpent
  BY DEF IInv
<1>2. /\ req' \in [Requests -> Invocation]
      /\ \A p \in Requests :
           /\ req'[p].role = req[p].role /\ req'[p].decision = req[p].decision
           /\ ~ (req'[p].phase = "running") /\ ~ (req'[p].phase = "executing")
           /\ req[p].phase # "new" => req'[p].phase # "new"
  <2>1. \A p \in Requests : req[p] \in Invocation
    BY <1>1 DEF TypeOK
  <2>2. \A p \in Requests : [req[p] EXCEPT !.phase = "failed"] \in Invocation
    BY <2>1 DEF Invocation
  <2> QED
    BY <2>1, <2>2 DEF Restart, Active, Invocation
<1>3. /\ checkpoint' \in [Threads -> PersistentAgentState]
      /\ \A t \in Threads : StateInv(checkpoint'[t])
  BY <1>1, EmptyStateInv DEF Restart, TypeOK, GraphInv
<1>4. crashes' \in 0 .. MaxCrashes /\ UNCHANGED <<seen, shown, execs, cancels>>
  BY <1>1 DEF Restart, TypeOK, history
<1>5. TypeOK'
  BY <1>1, <1>2, <1>3, <1>4 DEF TypeOK
<1>6. GraphInv'
  BY <1>2, <1>3 DEF GraphInv, Active
<1>7. DecisionSpent' /\ OneActionPerDecision' /\ ActionNeedsApproval'
  BY <1>1, <1>2, <1>4
  DEF IInv, DecisionSpent, OneActionPerDecision, ActionNeedsApproval, TypeOK,
      Effect
<1> QED
  BY <1>5, <1>6, <1>7 DEF IInv

(* Every step keeps IInv.                                                   *)
LEMMA NextInv == IInv /\ [Next]_vars => IInv'
<1> SUFFICES ASSUME IInv, [Next]_vars PROVE IInv'
  OBVIOUS
<1>1. ASSUME NEW r \in Requests, Disconnect(r) PROVE IInv'
  BY <1>1, EndKeepsInv DEF Disconnect, history, IInv, TypeOK
<1>2. CASE UNCHANGED vars
  BY <1>2 DEF vars, history, IInv, TypeOK, GraphInv, Active, Pending,
     DecisionSpent, OneActionPerDecision, ActionNeedsApproval
<1> QED
  BY <1>1, <1>2, StartInv, StepInv, RestartInv DEF Next

(* IInv holds in every state: the argument for the theorems below.          *)
THEOREM Invariance == Spec => []IInv
BY InitInv, NextInv, PTL DEF Spec

-------------------------------------------------------------------------------
(* The results.                                                             *)

(* Checkpoints and invocations are always well formed.                      *)
THEOREM TypeCorrect == Spec => []TypeOK
<1>1. IInv => TypeOK
  BY DEF IInv
<1> QED
  BY <1>1, Invariance, PTL

(* The confirmation node is always about the first dangerous call of the    *)
(* model's last message and the model is never asked beyond its limit,      *)
(* however invocations of a thread overlap, fail or are cut short.          *)
THEOREM GraphSafety == Spec => []GraphInv
<1>1. IInv => GraphInv
  BY DEF IInv
<1> QED
  BY <1>1, Invariance, PTL

(* No dangerous call runs without role full or an approving resume.         *)
THEOREM ApprovalSafety == Spec => []ActionNeedsApproval
<1>1. IInv => ActionNeedsApproval
  BY DEF IInv
<1> QED
  BY <1>1, Invariance, PTL

(* A decision is used for one dangerous call at most.                       *)
THEOREM DecisionUsedOnce == Spec => []OneActionPerDecision
<1>1. IInv => OneActionPerDecision
  BY DEF IInv
<1> QED
  BY <1>1, Invariance, PTL

-------------------------------------------------------------------------------
(* One request at a time: the invariant SerialInv.                          *)

(* SerialInv holds before the first request.                                *)
LEMMA SerialInit == Init => SerialInv
<1> SUFFICES ASSUME Init PROVE SerialInv
  OBVIOUS
<1>1. \A r \in Requests : req[r].phase = "new" /\ ~ Active(r)
  BY DEF Init, NewRequest, Active
<1>2. \A t \in Threads : checkpoint[t].next = "end" /\ CallsOf(t) = {}
  BY DEF Init, EmptyState, CallsOf
<1>3. Answered = {} /\ execs = {}
  BY DEF Init, Answered
<1>4. OneRunner /\ RunsOnSaved /\ AskedFirst
  BY <1>1, <1>2 DEF OneRunner, RunsOnSaved, AskedFirst
<1>5. CallsFresh
  BY <1>2, <1>3 DEF CallsFresh
<1> QED
  BY <1>3, <1>4, <1>5 DEF SerialInv, ApprovedAsMeant, ActionWasShown, SentOnce

(* What a running request works on: the checkpoint of its thread, which no  *)
(* other request is working on.                                             *)
LEMMA RunnerAlone ==
  ASSUME IInv, SerialInv, NEW r \in Requests, Active(r)
  PROVE  /\ req[r].thread \in Threads
         /\ req[r].state = checkpoint[req[r].thread]
         /\ \A q \in Requests : Runs(q, req[r].thread) => q = r
         /\ Executing(req[r].thread) <=> req[r].phase = "executing"
<1>1. req[r].thread \in Threads /\ req[r].state = checkpoint[req[r].thread]
  BY DEF IInv, GraphInv, SerialInv, RunsOnSaved
<1>2. \A q \in Requests : Runs(q, req[r].thread) => q = r
  BY DEF SerialInv, OneRunner, Runs
<1> QED
  BY <1>1, <1>2 DEF Executing, Runs

(* A run that stands before a confirmation: its pending call is one of the  *)
(* calls of its thread's last message.                                      *)
LEMMA PendingIsOfThread ==
  ASSUME IInv, SerialInv, NEW r \in Requests, Active(r),
         req[r].state.next = "confirm_and_execute"
  PROVE  Pending(r) \in Call /\ Pending(r) \in CallsOf(req[r].thread)
<1> DEFINE s == req[r].state
<1>1. /\ s \in PersistentAgentState /\ s = checkpoint[req[r].thread]
      /\ HasDangerous(s.calls) /\ Pending(r) = FirstDangerousCall(s.calls)
  BY RunnerAlone DEF IInv, TypeOK, Invocation, GraphInv, StateInv, Pending
<1>2. s.calls \in Seq(Call)
  BY <1>1 DEF PersistentAgentState
<1>3. \E i \in DOMAIN s.calls : FirstDangerousCall(s.calls) = s.calls[i]
  BY <1>1, <1>2, FirstDangerousFound
<1> QED
  BY <1>1, <1>2, <1>3, FirstDangerousFound DEF CallsOf

(* What has been answered and what is in the last messages are calls of     *)
(* requests that have started.                                              *)
LEMMA KnownCalls ==
  ASSUME SerialInv,
         NEW call \in Answered \cup UNION {CallsOf(t) : t \in Threads}
  PROVE  call.by \in Requests /\ req[call.by].phase # "new"
BY DEF SerialInv, CallsFresh, Call

(* A request that starts finds its thread at rest.                          *)
LEMMA SerialStart ==
  ASSUME Serial, IInv, SerialInv, NEW r \in Requests, Start(r)
  PROVE  SerialInv'
<1>1. TypeOK /\ DecisionSpent
  BY DEF IInv
<1>2. PICK t \in Threads, role \in Roles :
        \/ \E clear \in BOOLEAN : StartChat(r, t, role, clear)
        \/ \E decision \in {"approve", "reject"}, call \in OnScreen(t) :
             StartResume(r, t, role, decision, call)
  BY DEF Start
<1>3. /\ req[r].phase = "new" /\ ~ Active(r)
      /\ \A q \in Requests : ~ Runs(q, t)
      /\ UNCHANGED <<seen, shown, execs, cancels>>
  BY <1>2 DEF StartChat, StartResume, MayStart, Serial, Active, Runs, history
<1>4. /\ \A q \in Requests : q # r => req'[q] = req[q]
      /\ req'[r].thread = t /\ req'[r].fresh
      /\ req'[r].phase # "executing" /\ req'[r].phase # "new"
  BY <1>1, <1>2 DEF StartChat, StartResume, TypeOK
<1>5. /\ \A u \in Threads : u # t => checkpoint'[u] = checkpoint[u]
      /\ Active(r)' => req'[r].state = checkpoint'[t]
      /\ \/ checkpoint'[t] = checkpoint[t]
         \/ checkpoint'[t].next = "call_model" /\ checkpoint'[t].calls = << >>
  BY <1>1, <1>2 DEF StartChat, StartResume, TypeOK, Input, Active
<1>6. \A e \in execs : e.req \in Requests /\ e.req # r
  BY <1>1, <1>3 DEF DecisionSpent, TypeOK, Effect
<1>7. \A u \in Threads : CallsOf(u)' \subseteq CallsOf(u)
  BY <1>5 DEF CallsOf
<1>8. /\ Answered' = Answered
      /\ \A call \in Answered \cup UNION {CallsOf(u) : u \in Threads} :
           call.by \in Requests /\ call.by # r
  BY <1>3, KnownCalls DEF Answered
<1>9. \A q \in Requests, u \in Threads : Runs(q, u) => q # r /\ u # t /\ Runs(q, u)'
  BY <1>3, <1>4 DEF Runs, Active
<1>10. OneRunner'
  BY <1>3, <1>4 DEF SerialInv, OneRunner, Runs, Active
<1>11. RunsOnSaved'
  <2> SUFFICES ASSUME NEW q \in Requests, Active(q)'
               PROVE  req'[q].state = checkpoint'[req'[q].thread]
    BY DEF RunsOnSaved
  <2>1. CASE q = r
    BY <1>4, <1>5, <2>1
  <2>2. CASE q # r
    <3>1. Active(q) /\ req'[q] = req[q] /\ req[q].thread # t
      BY <1>3, <1>4, <2>2 DEF Active, Runs
    <3>2. req[q].thread \in Threads
      BY <3>1, RunnerAlone
    <3> QED
      BY <1>5, <3>1, <3>2 DEF SerialInv, RunsOnSaved
  <2> QED
    BY <2>1, <2>2
<1>12. AskedFirst'
  <2>1. ASSUME NEW u \in Threads, checkpoint'[u].next = "confirm_and_execute"
        PROVE  \/ /\ seen'[u] = checkpoint'[u].pending_tool_call
                  /\ checkpoint'[u].pending_tool_call \in shown'
               \/ \E q \in Requests : Runs(q, u)' /\ ~ req'[q].fresh
    <3>1. checkpoint'[u] = checkpoint[u]
      BY <1>5, <2>1
    <3>2. CASE \E q \in Requests : Runs(q, u) /\ ~ req[q].fresh
      BY <1>4, <1>9, <3>2
    <3>3. CASE ~ \E q \in Requests : Runs(q, u) /\ ~ req[q].fresh
      BY <1>3, <2>1, <3>1, <3>3 DEF SerialInv, AskedFirst
    <3> QED
      BY <3>2, <3>3
  <2>2. ASSUME NEW q \in Requests, Active(q)', req'[q].fresh,
               req'[q].state.next = "confirm_and_execute"
        PROVE  req'[q].meant = Pending(q)'
    <3>1. CASE q # r
      BY <1>4, <2>2, <3>1 DEF SerialInv, AskedFirst, Active, Pending
    <3>2. CASE q = r
      <4>1. checkpoint'[t].next = "confirm_and_execute"
        BY <1>5, <2>2, <3>2
      <4>2. checkpoint'[t] = checkpoint[t]
        BY <1>5, <4>1
      <4>3. seen[t] = checkpoint[t].pending_tool_call
        BY <1>3, <4>1, <4>2 DEF SerialInv, AskedFirst
      <4>4. PICK decision \in {"approve", "reject"}, call \in OnScreen(t) :
              StartResume(r, t, role, decision, call)
        BY <1>1, <1>2, <4>1 DEF StartChat, Input, TypeOK
      <4>5. req'[r].meant = call /\ call = seen[t]
        BY <1>1, <4>4 DEF StartResume, OnScreen, Serial, TypeOK
      <4> QED
        BY <1>5, <2>2, <3>2, <4>2, <4>3, <4>5 DEF Pending
    <3> QED
      BY <3>1, <3>2
  <2> QED
    BY <2>1, <2>2 DEF AskedFirst
<1>13. CallsFresh'
  <2>1. ASSUME NEW u \in Threads, NEW call \in CallsOf(u)'
        PROVE  req'[call.by].thread = u
    BY <1>4, <1>7, <1>8 DEF SerialInv, CallsFresh
  <2>2. ASSUME NEW u \in Threads
        PROVE  Executing(u)' \/ CallsOf(u)' \cap Answered' = {}
    <3>1. Executing(u) => Executing(u)'
      BY <1>4, <1>9 DEF Executing
    <3> QED
      BY <1>7, <1>8, <3>1 DEF SerialInv, CallsFresh
  <2>3. ASSUME NEW call \in Answered' \cup UNION {CallsOf(u)' : u \in Threads}
        PROVE  /\ call \in Call /\ req'[call.by].phase # "new"
               /\ Active(call.by)' => call.turn <= req'[call.by].state.iteration_count
    <3>1. call \in Answered \cup UNION {CallsOf(u) : u \in Threads}
      BY <1>7, <1>8
    <3>2. req'[call.by] = req[call.by]
      BY <1>4, <1>8, <3>1
    <3> QED
      BY <3>1, <3>2 DEF SerialInv, CallsFresh, Active
  <2> QED
    BY <2>1, <2>2, <2>3 DEF CallsFresh
<1>14. ApprovedAsMeant' /\ ActionWasShown' /\ SentOnce'
  BY <1>3, <1>4, <1>6 DEF SerialInv, ApprovedAsMeant, ActionWasShown, SentOnce
<1> QED
  BY <1>10, <1>11, <1>12, <1>13, <1>14 DEF SerialInv

(* A node that ends: its calls are gone, or those of the state it started   *)
(* from and nothing was answered, or new ones.                              *)
LEMMA SerialSave ==
  ASSUME IInv, SerialInv, NEW r \in Requests, Active(r),
         NEW s \in PersistentAgentState,
         NEW phase \in {"running", "done"}, Save(r, s, phase),
         s.next = "confirm_and_execute" => phase = "running",
         s.iteration_count >= req[r].state.iteration_count,
         \/ s.calls = << >> /\ Answered' \subseteq Answered \cup CallsOf(req[r].thread)
         \/ /\ s.calls = req[r].state.calls /\ Answered' = Answered
            /\ req[r].phase = "running"
         \/ /\ Answered' = Answered
            /\ s.iteration_count > req[r].state.iteration_count
            /\ \A i \in DOMAIN s.calls :
                 s.calls[i].by = r /\ s.calls[i].turn = s.iteration_count,
         UNCHANGED <<seen, shown, execs>>
  PROVE  SerialInv'
<1>0. PICK t \in Threads : t = req[r].thread
  BY RunnerAlone
<1>1. TypeOK /\ t = req[r].thread /\ req[r].state = checkpoint[t]
      /\ req[r].state \in PersistentAgentState
  BY <1>0, RunnerAlone DEF IInv, TypeOK, Invocation
<1>2. /\ req'[r].state = s /\ req'[r].phase = phase /\ ~ req'[r].fresh
      /\ req'[r].thread = t /\ req'[r].role = req[r].role
      /\ req'[r].meant = req[r].meant
      /\ \A q \in Requests : q # r => req'[q] = req[q]
  BY <1>1 DEF Save, TypeOK, Invocation
<1>3. /\ checkpoint'[t] = s
      /\ \A u \in Threads : u # t => checkpoint'[u] = checkpoint[u]
  BY <1>1 DEF Save, TypeOK
<1>4. /\ \A q \in Requests : Runs(q, t) => q = r
      /\ Executing(t) <=> req[r].phase = "executing"
  BY <1>0, RunnerAlone
<1>5. \A u \in Threads : u # t => CallsOf(u)' = CallsOf(u)
  BY <1>3 DEF CallsOf
<1>6. \A call \in CallsOf(t)' :
        \/ call \in CallsOf(t)
        \/ call.by = r /\ call.turn = s.iteration_count
  BY <1>1, <1>3 DEF CallsOf
<1>7. \A call \in CallsOf(t)' : call \in Call
  BY <1>3 DEF CallsOf, PersistentAgentState
<1>8. \A call \in Answered \cup UNION {CallsOf(u) : u \in Threads} :
        /\ call \in Call /\ call.by \in Requests /\ req[call.by].phase # "new"
        /\ call.by = r => call.turn <= req[r].state.iteration_count
  BY KnownCalls DEF SerialInv, CallsFresh
<1>9. OneRunner'
  BY <1>2, <1>4 DEF SerialInv, OneRunner, Active, Runs
<1>10. RunsOnSaved'
  <2> SUFFICES ASSUME NEW q \in Requests, Active(q)'
               PROVE  req'[q].state = checkpoint'[req'[q].thread]
    BY DEF RunsOnSaved
  <2>1. CASE q = r
    BY <1>2, <1>3, <2>1
  <2>2. CASE q # r
    <3>1. Active(q) /\ req'[q] = req[q]
      BY <1>2, <2>2 DEF Active
    <3>2. req[q].thread \in Threads /\ req[q].thread # t
      BY <1>4, <2>2, <3>1, RunnerAlone DEF Runs
    <3> QED
      BY <1>3, <3>1, <3>2 DEF SerialInv, RunsOnSaved
  <2> QED
    BY <2>1, <2>2
<1>11. AskedFirst'
  <2>1. ASSUME NEW u \in Threads, checkpoint'[u].next = "confirm_and_execute"
        PROVE  \/ /\ seen'[u] = checkpoint'[u].pending_tool_call
                  /\ checkpoint'[u].pending_tool_call \in shown'
               \/ \E q \in Requests : Runs(q, u)' /\ ~ req'[q].fresh
    <3>1. CASE u = t
      BY <1>2, <1>3, <2>1, <3>1 DEF Runs, Active
    <3>2. CASE u # t
      <4>1. checkpoint'[u] = checkpoint[u]
        BY <1>3, <3>2
      <4>2. \A q \in Requests : Runs(q, u) => q # r /\ Runs(q, u)'
        BY <1>1, <1>2, <3>2 DEF Runs, Active
      <4> QED
        BY <1>2, <2>1, <4>1, <4>2 DEF SerialInv, AskedFirst
    <3> QED
      BY <3>1, <3>2
  <2>2. ASSUME NEW q \in Requests, Active(q)', req'[q].fresh,
               req'[q].state.next = "confirm_and_execute"
        PROVE  req'[q].meant = Pending(q)'
    BY <1>2, <2>2 DEF SerialInv, AskedFirst, Active, Pending
  <2> QED
    BY <2>1, <2>2 DEF AskedFirst
<1>12. CallsFresh'
  <2>1. ASSUME NEW u \in Threads, NEW call \in CallsOf(u)'
        PROVE  req'[call.by].thread = u
    <3>1. CASE u = t /\ call \notin CallsOf(t)
      BY <1>2, <1>6, <3>1
    <3>2. CASE call \in CallsOf(u)
      BY <1>1, <1>2, <1>8, <3>2 DEF SerialInv, CallsFresh
    <3> QED
      BY <1>5, <1>6, <3>1, <3>2
  <2>2. ASSUME NEW u \in Threads
        PROVE  Executing(u)' \/ CallsOf(u)' \cap Answered' = {}
    <3>1. CASE u # t
      <4>1. Executing(u) => Executing(u)'
        BY <1>1, <1>2, <3>1 DEF Executing, Runs, Active
      <4>2. CallsOf(u) \cap CallsOf(t) = {}
        BY <1>1, <3>1 DEF SerialInv, CallsFresh
      <4>3. Answered' \subseteq Answered \cup CallsOf(t)
        BY <1>1
      <4> QED
        BY <1>5, <3>1, <4>1, <4>2, <4>3 DEF SerialInv, CallsFresh
    <3>2. CASE u = t
      <4>1. CASE s.calls = << >>
        BY <1>3, <3>2, <4>1 DEF CallsOf
      <4>2. CASE /\ s.calls = req[r].state.calls /\ Answered' = Answered
                 /\ req[r].phase = "running"
        <5>1. CallsOf(t)' = CallsOf(t)
          BY <1>1, <1>3, <4>2 DEF CallsOf
        <5> QED
          BY <1>1, <1>4, <3>2, <4>2, <5>1 DEF SerialInv, CallsFresh
      <4>3. CASE /\ Answered' = Answered
                 /\ s.iteration_count > req[r].state.iteration_count
                 /\ \A i \in DOMAIN s.calls :
                      s.calls[i].by = r /\ s.calls[i].turn = s.iteration_count
        <5>1. \A call \in CallsOf(t)' : call.by = r /\ call.turn = s.iteration_count
          BY <1>3, <4>3 DEF CallsOf
        <5> QED
          BY <1>1, <1>8, <3>2, <4>3, <5>1 DEF PersistentAgentState
      <4> QED
        BY <4>1, <4>2, <4>3
    <3> QED
      BY <3>1, <3>2
  <2>3. ASSUME NEW call \in Answered' \cup UNION {CallsOf(u)' : u \in Threads}
        PROVE  /\ call \in Call /\ req'[call.by].phase # "new"
               /\ Active(call.by)' => call.turn <= req'[call.by].state.iteration_count
    <3>1. CASE call \in Answered \cup UNION {CallsOf(u) : u \in Threads}
      <4>1. CASE call.by = r
        BY <1>1, <1>2, <1>8, <3>1, <4>1 DEF Call, PersistentAgentState
      <4>2. CASE call.by # r
        BY <1>2, <1>8, <3>1, <4>2 DEF SerialInv, CallsFresh, Active
      <4> QED
        BY <4>1, <4>2
    <3>2. CASE call \in CallsOf(t)' /\ call.by = r /\ call.turn = s.iteration_count
      BY <1>2, <1>7, <3>2 DEF PersistentAgentState
    <3> QED
      BY <1>1, <1>5, <1>6, <3>1, <3>2
  <2> QED
    BY <2>1, <2>2, <2>3 DEF CallsFresh
<1>13. ApprovedAsMeant' /\ ActionWasShown' /\ SentOnce'
  <2>1. \A e \in execs : /\ req'[e.req].role = req[e.req].role
                         /\ req'[e.req].meant = req[e.req].meant
    BY <1>1, <1>2 DEF TypeOK, Effect
  <2> QED
    BY <2>1 DEF SerialInv, ApprovedAsMeant, ActionWasShown, SentOnce
<1> QED
  BY <1>9, <1>10, <1>11, <1>12, <1>13 DEF SerialInv

(* An invocation that ends where it is; before a confirmation, with the     *)
(* question to its user.                                                    *)
LEMMA SerialEnd ==
  ASSUME IInv, SerialInv, NEW r \in Requests, req[r].phase = "running",
         NEW phase \in {"interrupted", "failed"},
         req' = [req EXCEPT ![r].phase = phase],
         UNCHANGED <<checkpoint, execs, cancels>>,
         \/ UNCHANGED <<seen, shown>> /\ req[r].state.next # "confirm_and_execute"
         \/ /\ seen' = [seen EXCEPT ![req[r].thread] = Pending(r)]
            /\ shown' = shown \cup {Pending(r)}
  PROVE  SerialInv'
<1>0. PICK t \in Threads : t = req[r].thread
  BY RunnerAlone DEF Active
<1>1. TypeOK /\ Active(r) /\ t = req[r].thread /\ req[r].state = checkpoint[t]
  BY <1>0, RunnerAlone DEF IInv, Active
<1>2. /\ ~ Active(r)'
      /\ \A q \in Requests :
           /\ req'[q].state = req[q].state /\ req'[q].thread = req[q].thread
           /\ req'[q].role = req[q].role /\ req'[q].meant = req[q].meant
           /\ req'[q].fresh = req[q].fresh
           /\ q # r => req'[q] = req[q]
      /\ req'[r].phase # "new"
  BY <1>1 DEF TypeOK, Invocation, Active
<1>3. \A q \in Requests : Active(q)' => Active(q) /\ q # r
  BY <1>2 DEF Active
<1>4. Answered' = Answered /\ \A u \in Threads : CallsOf(u)' = CallsOf(u)
  BY DEF Answered, CallsOf
<1>5. OneRunner' /\ RunsOnSaved'
  BY <1>2, <1>3 DEF SerialInv, OneRunner, RunsOnSaved
<1>6. AskedFirst'
  <2>1. ASSUME NEW u \in Threads, checkpoint'[u].next = "confirm_and_execute"
        PROVE  \/ /\ seen'[u] = checkpoint'[u].pending_tool_call
                  /\ checkpoint'[u].pending_tool_call \in shown'
               \/ \E q \in Requests : Runs(q, u)' /\ ~ req'[q].fresh
    <3>1. CASE u = t
      BY <1>1, <2>1, <3>1 DEF Pending, TypeOK
    <3>2. CASE u # t
      <4>1. seen'[u] = seen[u] /\ shown \subseteq shown'
        BY <1>1, <3>2 DEF TypeOK
      <4>2. \A q \in Requests : Runs(q, u) => Runs(q, u)'
        BY <1>1, <1>2, <3>2 DEF Runs, Active
      <4> QED
        BY <1>2, <2>1, <4>1, <4>2 DEF SerialInv, AskedFirst
    <3> QED
      BY <3>1, <3>2
  <2>2. ASSUME NEW q \in Requests, Active(q)', req'[q].fresh,
               req'[q].state.next = "confirm_and_execute"
        PROVE  req'[q].meant = Pending(q)'
    BY <1>2, <1>3, <2>2 DEF SerialInv, AskedFirst, Pending
  <2> QED
    BY <2>1, <2>2 DEF AskedFirst
<1>7. CallsFresh'
  <2>1. \A u \in Threads : Executing(u) => Executing(u)'
    BY <1>1, <1>2 DEF Executing, Runs, Active
  <2>2. \A call \in Answered \cup UNION {CallsOf(u) : u \in Threads} :
          /\ req'[call.by].thread = req[call.by].thread
          /\ req'[call.by].state = req[call.by].state
          /\ req'[call.by].phase # "new"
          /\ Active(call.by)' => Active(call.by)
    BY <1>2, <1>3, KnownCalls
  <2> QED
    BY <1>4, <2>1, <2>2 DEF SerialInv, CallsFresh
<1>8. ApprovedAsMeant' /\ ActionWasShown' /\ SentOnce'
  <2>1. \A e \in execs : /\ req'[e.req].role = req[e.req].role
                         /\ req'[e.req].meant = req[e.req].meant
    BY <1>1, <1>2 DEF TypeOK, Effect
  <2>2. shown \subseteq shown'
    OBVIOUS
  <2> QED
    BY <2>1, <2>2 DEF SerialInv, ApprovedAsMeant, ActionWasShown, SentOnce
<1> QED
  BY <1>5, <1>6, <1>7, <1>8 DEF SerialInv

(* The action carried out is the pending one, which its user was shown and  *)
(* meant, and which nobody has answered before.                             *)
LEMMA SerialConfirm ==
  ASSUME IInv, SerialInv, NEW r \in Requests, ConfirmAndExecute(r)
  PROVE  SerialInv'
<1> DEFINE new == [req |-> r, call |-> Pending(r)]
<1>0. PICK t \in Threads : t = req[r].thread
  BY RunnerAlone DEF ConfirmAndExecute, At, Active
<1>1. /\ TypeOK /\ Active(r) /\ t = req[r].thread /\ req[r].state = checkpoint[t]
      /\ req[r].phase = "running" /\ req[r].state.next = "confirm_and_execute"
      /\ ~ Executing(t)
  BY <1>0, RunnerAlone DEF IInv, ConfirmAndExecute, At, Active
<1>2. Pending(r) \in Call /\ Pending(r) \in CallsOf(t)
  BY <1>1, PendingIsOfThread
<1>3. Pending(r) \notin Answered
  BY <1>1, <1>2 DEF SerialInv, CallsFresh
<1>4. /\ req'[r].phase = "executing"
      /\ \A q \in Requests :
           /\ req'[q].state = req[q].state /\ req'[q].thread = req[q].thread
           /\ req'[q].role = req[q].role /\ req'[q].meant = req[q].meant
           /\ req'[q].fresh = req[q].fresh
           /\ q # r => req'[q] = req[q]
           /\ Active(q)' <=> Active(q)
           /\ Pending(q)' = Pending(q)
      /\ execs' = execs \cup {new}
      /\ UNCHANGED <<checkpoint, seen, shown, cancels>>
  BY <1>1 DEF ConfirmAndExecute, TypeOK, Invocation, Active, Pending
<1>5. /\ Answered' = Answered \cup {Pending(r)}
      /\ \A u \in Threads : CallsOf(u)' = CallsOf(u)
  <2>1. execs' \cup cancels' = (execs \cup cancels) \cup {new}
    BY <1>4
  <2>2. new.call = Pending(r)
    OBVIOUS
  <2>3. Answered' = Answered \cup {new.call}
    BY <2>1 DEF Answered
  <2> QED
    BY <1>4, <2>2, <2>3 DEF CallsOf
<1>6. OneRunner' /\ RunsOnSaved'
  BY <1>4 DEF SerialInv, OneRunner, RunsOnSaved
<1>7. AskedFirst'
  <2>1. \A q \in Requests, u \in Threads : Runs(q, u)' <=> Runs(q, u)
    BY <1>4 DEF Runs
  <2> QED
    BY <1>4, <2>1 DEF SerialInv, AskedFirst
<1>8. CallsFresh'
  <2>1. ASSUME NEW u \in Threads
        PROVE  Executing(u)' \/ CallsOf(u)' \cap Answered' = {}
    <3>1. CASE u = t
      BY <1>1, <1>4, <3>1 DEF Executing, Runs
    <3>2. CASE u # t
      <4>1. Executing(u) => Executing(u)'
        BY <1>1, <1>4 DEF Executing, Runs
      <4>2. Pending(r) \notin CallsOf(u)
        BY <1>1, <1>2, <3>2 DEF SerialInv, CallsFresh
      <4> QED
        BY <1>5, <4>1, <4>2 DEF SerialInv, CallsFresh
    <3> QED
      BY <3>1, <3>2
  <2>2. \A call \in Answered' \cup UNION {CallsOf(u)' : u \in Threads} :
          /\ call \in Answered \cup UNION {CallsOf(u) : u \in Threads}
          /\ req'[call.by].thread = req[call.by].thread
          /\ req'[call.by].state = req[call.by].state
          /\ req'[call.by].phase # "new"
          /\ Active(call.by)' <=> Active(call.by)
    BY <1>1, <1>2, <1>4, <1>5, KnownCalls
  <2> QED
    BY <1>5, <2>1, <2>2 DEF SerialInv, CallsFresh
<1>9. req[r].role # "full" =>
        req[r].meant = Pending(r) /\ Pending(r) \in shown
  <2> SUFFICES ASSUME req[r].role # "full"
               PROVE  req[r].meant = Pending(r) /\ Pending(r) \in shown
    OBVIOUS
  <2>1. req[r].fresh
    BY DEF ConfirmAndExecute, Decision
  <2>2. req[r].meant = Pending(r)
    BY <1>1, <2>1 DEF SerialInv, AskedFirst
  <2>3. Pending(r) \in shown
    BY <1>1, <2>1, RunnerAlone DEF SerialInv, AskedFirst, Pending
  <2> QED
    BY <2>2, <2>3
<1>10. \A e \in execs : /\ req'[e.req].role = req[e.req].role
                        /\ req'[e.req].meant = req[e.req].meant
                        /\ e.call \in Answered
  BY <1>1, <1>4 DEF TypeOK, Effect, Answered
<1>11. ApprovedAsMeant' /\ ActionWasShown'
  BY <1>4, <1>9, <1>10 DEF SerialInv, ApprovedAsMeant, ActionWasShown
<1>12. SentOnce'
  BY <1>3, <1>4, <1>10 DEF SerialInv, SentOnce
<1> QED
  BY <1>6, <1>7, <1>8, <1>11, <1>12 DEF SerialInv

(* Every node, saved or failing, keeps SerialInv.                           *)
LEMMA SerialStep ==
  ASSUME IInv, SerialInv, NEW r \in Requests, Step(r)
  PROVE  SerialInv'
<1> DEFINE s == req[r].state
<1>1. /\ TypeOK /\ s \in PersistentAgentState
      /\ s.iteration_count \in Nat /\ s.calls \in Seq(Call)
  BY DEF IInv, TypeOK, Invocation, PersistentAgentState
<1>2. Active(r) => StateInv(s)
  BY DEF IInv, GraphInv
<1>3. CASE CallModel(r)
  <2>1. PICK response \in Responses :
          Save(r, CallModelNode(s, r, response), "running")
    BY <1>3 DEF CallModel
  <2> DEFINE n == CallModelNode(s, r, response)
             turn == s.iteration_count + 1
  <2>2. Active(r) /\ s.next = "call_model" /\ s.iteration_count < MAX_ITERATIONS
    BY <1>2, <1>3 DEF CallModel, At, Active, StateInv
  <2>3. n \in PersistentAgentState
    BY <1>1, <2>2, NodesKeepType
  <2>4. /\ n.iteration_count = turn /\ n.next # "confirm_and_execute"
        /\ n.calls = AIMessage(r, turn, response)
    BY DEF CallModelNode, RouteAfterModel
  <2>5. \A i \in DOMAIN n.calls : n.calls[i].by = r /\ n.calls[i].turn = turn
    BY <2>4 DEF AIMessage
  <2>6. Answered' = Answered /\ UNCHANGED <<seen, shown, execs>>
    BY <1>3 DEF CallModel, history, Answered
  <2> HIDE DEF n, s
  <2> QED
    BY <1>1, <2>1, <2>2, <2>3, <2>4, <2>5, <2>6, SerialSave DEF n, s
<1>4. CASE ExecuteTool(r)
  <2>1. Active(r) /\ ExecuteToolNode(s) \in PersistentAgentState
    BY <1>1, <1>4, NodesKeepType DEF ExecuteTool, At, Active
  <2>2. /\ ExecuteToolNode(s).calls = << >>
        /\ ExecuteToolNode(s).iteration_count = s.iteration_count
        /\ ExecuteToolNode(s).next = "call_model"
    BY <1>1 DEF ExecuteToolNode, PersistentAgentState
  <2>3. Answered' = Answered /\ UNCHANGED <<seen, shown, execs>>
    BY <1>4 DEF ExecuteTool, history, Answered
  <2> QED
    BY <1>1, <1>4, <2>1, <2>2, <2>3, SerialSave DEF ExecuteTool
<1>5. CASE PrepareDangerousAction(r)
  <2>1. /\ Active(r) /\ req[r].phase = "running"
        /\ PrepareNode(s) \in PersistentAgentState
    BY <1>1, <1>5, NodesKeepType DEF PrepareDangerousAction, At, Active
  <2>2. /\ PrepareNode(s).calls = s.calls
        /\ PrepareNode(s).iteration_count = s.iteration_count
    BY <1>1 DEF PrepareNode, PersistentAgentState
  <2>3. Answered' = Answered /\ UNCHANGED <<seen, shown, execs>>
    BY <1>5 DEF PrepareDangerousAction, history, Answered
  <2> QED
    BY <1>1, <1>5, <2>1, <2>2, <2>3, SerialSave DEF PrepareDangerousAction
<1>6. CASE Interrupt(r)
  BY <1>6, SerialEnd DEF Interrupt, At
<1>7. CASE ConfirmAndExecute(r)
  BY <1>7, SerialConfirm
<1>8. CASE CommitAction(r)
  <2>1. Active(r) /\ ConfirmNode(s) \in PersistentAgentState
    BY <1>1, <1>8, NodesKeepType DEF CommitAction, Active
  <2>2. /\ ConfirmNode(s).calls = << >>
        /\ ConfirmNode(s).iteration_count = s.iteration_count
        /\ ConfirmNode(s).next = "call_model"
    BY <1>1 DEF ConfirmNode, PersistentAgentState
  <2>3. Answered' = Answered /\ UNCHANGED <<seen, shown, execs>>
    BY <1>8 DEF CommitAction, history, Answered
  <2> QED
    BY <1>1, <1>8, <2>1, <2>2, <2>3, SerialSave DEF CommitAction
<1>9. CASE CancelAction(r)
  <2>1. /\ Active(r) /\ s.next = "confirm_and_execute"
        /\ ConfirmNode(s) \in PersistentAgentState
    BY <1>1, <1>9, NodesKeepType DEF CancelAction, At, Active
  <2>2. /\ ConfirmNode(s).calls = << >>
        /\ ConfirmNode(s).iteration_count = s.iteration_count
        /\ ConfirmNode(s).next = "call_model"
    BY <1>1 DEF ConfirmNode, PersistentAgentState
  <2>3. Pending(r) \in CallsOf(req[r].thread)
    BY <2>1, PendingIsOfThread
  <2>4. Answered' \subseteq Answered \cup {Pending(r)}
    BY <1>9 DEF CancelAction, Answered
  <2> QED
    BY <1>1, <1>9, <2>1, <2>2, <2>3, <2>4, SerialSave DEF CancelAction
<1>10. CASE ForceFinish(r)
  <2>1. /\ Active(r) /\ req[r].phase = "running"
        /\ ForceFinishNode(s) \in PersistentAgentState
    BY <1>1, <1>10, NodesKeepType DEF ForceFinish, At, Active
  <2>2. /\ ForceFinishNode(s).calls = s.calls
        /\ ForceFinishNode(s).iteration_count = s.iteration_count
        /\ ForceFinishNode(s).next = "end"
    BY <1>1 DEF ForceFinishNode, PersistentAgentState
  <2>3. Answered' = Answered /\ UNCHANGED <<seen, shown, execs>>
    BY <1>10 DEF ForceFinish, history, Answered
  <2> QED
    BY <1>1, <1>10, <2>1, <2>2, <2>3, SerialSave DEF ForceFinish
<1>11. CASE NodeFails(r)
  <2>1. req[r].phase = "running" /\ req[r].state.next # "confirm_and_execute"
    BY <1>11 DEF NodeFails, At
  <2> QED
    BY <1>11, <2>1, SerialEnd DEF NodeFails, history
<1> QED
  BY <1>3, <1>4, <1>5, <1>6, <1>7, <1>8, <1>9, <1>10, <1>11 DEF Step

(* Every step keeps SerialInv: nothing is cut off, and nothing restarts.    *)
LEMMA SerialNext ==
  ASSUME Serial
  PROVE  IInv /\ SerialInv /\ [Next]_vars => SerialInv'
<1> SUFFICES ASSUME IInv, SerialInv, [Next]_vars PROVE SerialInv'
  OBVIOUS
<1>1. ASSUME NEW r \in Requests, Disconnect(r) PROVE FALSE
  BY <1>1 DEF Disconnect, Serial
<1>2. ASSUME Restart PROVE FALSE
  BY <1>2 DEF Restart, Serial, IInv, TypeOK
<1>3. CASE UNCHANGED vars
  <2> USE <1>3 DEF vars, history
  <2>1. /\ Answered' = Answered
        /\ \A t \in Threads : CallsOf(t)' = CallsOf(t)
        /\ \A t \in Threads : Executing(t)' <=> Executing(t)
        /\ \A r \in Requests : Active(r)' <=> Active(r)
    BY DEF Answered, CallsOf, Executing, Runs, Active
  <2>2. OneRunner' /\ RunsOnSaved' /\ AskedFirst'
    BY <2>1 DEF SerialInv, OneRunner, RunsOnSaved, AskedFirst, Runs, Pending
  <2>3. CallsFresh'
    <3>1. \A call \in Answered \cup UNION {CallsOf(t) : t \in Threads} :
            call.by \in Requests
      BY KnownCalls
    <3> QED
      BY <2>1, <3>1 DEF SerialInv, CallsFresh
  <2>4. ApprovedAsMeant' /\ ActionWasShown' /\ SentOnce'
    BY DEF SerialInv, ApprovedAsMeant, ActionWasShown, SentOnce
  <2> QED
    BY <2>2, <2>3, <2>4 DEF SerialInv
<1> QED
  BY <1>1, <1>2, <1>3, SerialStart, SerialStep DEF Next

(* SerialInv holds in every state when requests come one at a time.         *)
THEOREM SerialInvariance ==
  ASSUME Serial
  PROVE  Spec => [](IInv /\ SerialInv)
BY InitInv, NextInv, SerialInit, SerialNext, PTL DEF Spec

(* An approval runs the very call its sender was looking at, as long as the *)
(* requests of a thread come one at a time and none is cut off.             *)
THEOREM ApprovalIsMeant == ASSUME Serial PROVE Spec => []ApprovedAsMeant
<1>1. SerialInv => ApprovedAsMeant
  BY DEF SerialInv
<1> QED
  BY <1>1, SerialInvariance, PTL

(* Then nothing is carried out, without role full, that no user was shown.  *)
THEOREM ActionIsShown == ASSUME Serial PROVE Spec => []ActionWasShown
<1>1. SerialInv => ActionWasShown
  BY DEF SerialInv
<1> QED
  BY <1>1, SerialInvariance, PTL

(* And a confirmed action is carried out once, by one request.              *)
THEOREM ActionSentOnce == ASSUME Serial PROVE Spec => []SentOnce
<1>1. SerialInv => SentOnce
  BY DEF SerialInv
<1> QED
  BY <1>1, SerialInvariance, PTL

-------------------------------------------------------------------------------
(* The refinement of the approval protocol.                                 *)

(* Each step of a request is a step of the protocol, or shows nothing of it:*)
(* an interrupt asks, a confirmation performs, a refusal cancels, and the   *)
(* call is open until then.                                                 *)
LEMMA ApprovalStep ==
  ASSUME Serial, IInv, SerialInv, Next
  PROVE  [Approval!Next]_<<shown, {e.call : e \in execs}, {e.call : e \in cancels}>>
<1> DEFINE asked == shown
           done == {e.call : e \in execs}
           cancelled == {e.call : e \in cancels}
<1>1. TypeOK
  BY DEF IInv
<1>2. ASSUME NEW r \in Requests, req[r].phase = "running",
             req[r].state.next = "confirm_and_execute"
      PROVE  /\ Pending(r) \in Call \ (done \cup cancelled)
             /\ req[r].fresh => Pending(r) \in shown
  <2>1. Active(r) /\ ~ Executing(req[r].thread) /\ req[r].thread \in Threads
    BY <1>2, RunnerAlone DEF Active
  <2>2. Pending(r) \in Call /\ Pending(r) \notin Answered
    BY <1>2, <2>1, PendingIsOfThread DEF SerialInv, CallsFresh
  <2>3. req[r].fresh => Pending(r) \in shown
    BY <1>2, <2>1, RunnerAlone DEF SerialInv, AskedFirst, Pending
  <2> QED
    BY <2>2, <2>3 DEF Answered
<1>3. ASSUME NEW r \in Requests, Interrupt(r) PROVE Approval!Next
  <2>1. PICK call \in Call : call = Pending(r)
    BY <1>2, <1>3 DEF Interrupt, At
  <2>2. Approval!Open(call)
    BY <1>2, <1>3, <2>1 DEF Interrupt, At, Approval!Open
  <2>3. Approval!Ask(call)
    BY <1>3, <2>1, <2>2 DEF Interrupt, Approval!Ask
  <2> QED
    BY <2>3 DEF Approval!Next
<1>4. ASSUME NEW r \in Requests, ConfirmAndExecute(r) PROVE Approval!Next
  <2>1. PICK call \in Call : call = Pending(r)
    BY <1>2, <1>4 DEF ConfirmAndExecute, At
  <2>2. Approval!Open(call)
    BY <1>2, <1>4, <2>1 DEF ConfirmAndExecute, At, Approval!Open
  <2>3. call \in shown \/ "full" \in Roles
    BY <1>1, <1>2, <1>4, <2>1
    DEF ConfirmAndExecute, At, Decision, TypeOK, Invocation
  <2>4. PICK e : e = [req |-> r, call |-> call]
    OBVIOUS
  <2>5. /\ execs' = execs \cup {e} /\ e.call = call
        /\ UNCHANGED <<shown, cancels>>
    BY <1>4, <2>1, <2>4 DEF ConfirmAndExecute
  <2>6. done' = done \cup {call} /\ cancelled' = cancelled
    BY <2>5
  <2>7. Approval!Perform(call)
    BY <2>2, <2>3, <2>5, <2>6 DEF Approval!Perform
  <2> QED
    BY <2>7 DEF Approval!Next
<1>5. ASSUME NEW r \in Requests, CancelAction(r) PROVE Approval!Next
  <2>1. PICK call \in Call : call = Pending(r)
    BY <1>2, <1>5 DEF CancelAction, At
  <2>2. Approval!Open(call)
    BY <1>2, <1>5, <2>1 DEF CancelAction, At, Approval!Open
  <2>3. call \in shown
    BY <1>2, <1>5, <2>1 DEF CancelAction, At, Decision
  <2>4. PICK e : e = [req |-> r, call |-> call]
    OBVIOUS
  <2>5. /\ cancels' = cancels \cup {e} /\ e.call = call
        /\ UNCHANGED <<shown, execs>>
    BY <1>5, <2>1, <2>4 DEF CancelAction
  <2>6. cancelled' = cancelled \cup {call} /\ done' = done
    BY <2>5
  <2>7. Approval!Cancel(call)
    BY <2>2, <2>3, <2>5, <2>6 DEF Approval!Cancel
  <2> QED
    BY <2>7 DEF Approval!Next
<1>6. ASSUME NEW r \in Requests,
             \/ Start(r) \/ CallModel(r) \/ ExecuteTool(r)
             \/ PrepareDangerousAction(r) \/ CommitAction(r) \/ ForceFinish(r)
             \/ NodeFails(r) \/ Disconnect(r)
      PROVE  UNCHANGED history
  BY <1>6 DEF Start, StartChat, StartResume, CallModel, ExecuteTool,
     PrepareDangerousAction, CommitAction, ForceFinish, NodeFails, Disconnect
<1>7. Restart => UNCHANGED history
  BY DEF Restart
<1> QED
  BY <1>3, <1>4, <1>5, <1>6, <1>7 DEF Next, Step, history

(* One at a time, the requests implement the approval protocol: a cancelled *)
(* call is never carried out, one carried out is never put to a user again, *)
(* and each is put to him first.                                            *)
THEOREM ApprovalRefined == ASSUME Serial PROVE Spec => ImplementsApproval
<1>1. Init => Approval!Init
  BY DEF Init, Approval!Init
<1>2. IInv /\ SerialInv /\ [Next]_vars =>
        [Approval!Next]_<<shown, {e.call : e \in execs}, {e.call : e \in cancels}>>
  <2>1. UNCHANGED vars =>
          UNCHANGED <<shown, {e.call : e \in execs}, {e.call : e \in cancels}>>
    BY DEF vars, history
  <2> QED
    BY <2>1, ApprovalStep
<1> QED
  BY <1>1, <1>2, SerialInvariance, PTL DEF Spec, ImplementsApproval, Approval!Spec
===============================================================================
