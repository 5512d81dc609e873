----------------------------- MODULE AgentService -----------------------------
(***************************************************************************)
(* Invocations of the persistent agent graph by HTTP requests              *)
(* (src/app/routers/agent.py, process_message in                           *)
(* src/app/services/agent_persistent.py) against the checkpointer chosen   *)
(* by agent_lifespan.                                                      *)
(*                                                                         *)
(* The graph runtime (external: langgraph) loads the thread's checkpoint   *)
(* when an invocation starts, runs one node after another on its own copy  *)
(* and saves the copy after every node; it takes no lock on the thread.    *)
(* A node is one step here, except confirm_and_execute, which is cut after *)
(* the call of the tool: the effect is out before the node's update is     *)
(* saved, and anything may happen in between.                              *)
(***************************************************************************)
EXTENDS AgentGraph

CONSTANTS
  Roles,        \* "full" and "write-with-approve"
  OneAtATime,   \* do clients wait for an answer before the next request?
  Disconnects,  \* may a request be cancelled at any await?
  Durable,      \* sqlite or postgres checkpointer; FALSE: InMemorySaver
  MaxCrashes,   \* bound on restarts of the process
  NoThread

ASSUME ServiceConstants ==
  /\ Roles \subseteq {"full", "write-with-approve"}
  /\ OneAtATime \in BOOLEAN /\ Disconnects \in BOOLEAN /\ Durable \in BOOLEAN
  /\ MaxCrashes \in Nat
  /\ NoThread \notin Threads

VARIABLES
  checkpoint,  \* thread -> the saved state of the graph
  req,         \* request -> its invocation
  seen,        \* thread -> the call of the last interrupt its user was sent
  crashes,
  shown,       \* history: every call some user was asked about
  execs,       \* history: which request ran which dangerous call
  cancels      \* history: which request cancelled which dangerous call

history == <<shown, execs, cancels>>
vars == <<checkpoint, req, seen, crashes, history>>

Invocation ==
  [phase : {"new", "running", "executing", "interrupted", "done", "failed"},
   thread : Threads \cup {NoThread}, role : Roles \cup {"none"},
   decision : {"none", "approve", "reject"},
   fresh : BOOLEAN,              \* no node has completed yet
   meant : Call \cup {NoCall},   \* the call its sender was looking at
   state : PersistentAgentState]

Effect == [req : Requests, call : Call \cup {NoCall}]

TypeOK ==
  /\ checkpoint \in [Threads -> PersistentAgentState]
  /\ req \in [Requests -> Invocation]
  /\ seen \in [Threads -> Call \cup {NoCall}]
  /\ crashes \in 0 .. MaxCrashes
  /\ shown \subseteq Call \cup {NoCall}
  /\ execs \subseteq Effect
  /\ cancels \subseteq Effect

NewRequest ==
  [phase |-> "new", thread |-> NoThread, role |-> "none", decision |-> "none",
   fresh |-> TRUE, meant |-> NoCall, state |-> EmptyState]

Init ==
  /\ checkpoint = [t \in Threads |-> EmptyState]
  /\ req = [r \in Requests |-> NewRequest]
  /\ seen = [t \in Threads |-> NoCall]
  /\ crashes = 0
  /\ shown = {} /\ execs = {} /\ cancels = {}

Active(r) == req[r].phase \in {"running", "executing"}

MayStart(r, t) ==
  /\ req[r].phase = "new"
  /\ OneAtATime => \A q \in Requests : Active(q) => req[q].thread # t

(* POST /agent/chat, a start through /agent/stream (clear = FALSE) and      *)
(* process_message (clear = TRUE).                                          *)
StartChat(r, t, role, clear) ==
  LET s == Input(checkpoint[t], clear)
  IN  /\ MayStart(r, t)
      /\ checkpoint' = [checkpoint EXCEPT ![t] = s]
      /\ req' = [req EXCEPT ![r] = [phase |-> "running", thread |-> t,
                   role |-> role, decision |-> "none", fresh |-> TRUE,
                   meant |-> NoCall, state |-> s]]
      /\ UNCHANGED <<seen, crashes, history>>

(* The calls a user of thread t may be deciding about: the one on his       *)
(* screen, or, when requests overtake one another, any he was shown.        *)
OnScreen(t) ==
  IF OneAtATime THEN {seen[t]} \ {NoCall}
  ELSE {c \in shown : c # NoCall /\ req[c.by].thread = t}

(* POST /agent/resume and a resume through /agent/stream: the request names *)
(* the thread and the decision, not the call.  A finished thread has no     *)
(* task to resume and the invocation returns its last state.                *)
StartResume(r, t, role, decision, call) ==
  /\ MayStart(r, t)
  /\ call \in OnScreen(t)
  /\ req' = [req EXCEPT ![r] =
               [phase |-> IF checkpoint[t].next = "end" THEN "done" ELSE "running",
                thread |-> t, role |-> role, decision |-> decision,
                fresh |-> TRUE, meant |-> call, state |-> checkpoint[t]]]
  /\ UNCHANGED <<checkpoint, seen, crashes, history>>

At(r, node) == req[r].phase = "running" /\ req[r].state.next = node

(* A node of r's run ends with update s: it is saved as the thread's state. *)
Save(r, s, phase) ==
  /\ checkpoint' = [checkpoint EXCEPT ![req[r].thread] = s]
  /\ req' = [req EXCEPT ![r].state = s, ![r].fresh = FALSE, ![r].phase = phase]

CallModel(r) ==
  /\ At(r, "call_model")
  /\ \E response \in Responses :
       Save(r, CallModelNode(req[r].state, r, response), "running")
  /\ UNCHANGED <<seen, crashes, history>>

ExecuteTool(r) ==
  /\ At(r, "execute_tool")
  /\ Save(r, ExecuteToolNode(req[r].state), "running")
  /\ UNCHANGED <<seen, crashes, history>>

PrepareDangerousAction(r) ==
  /\ At(r, "prepare_dangerous_action")
  /\ Save(r, PrepareNode(req[r].state), "running")
  /\ UNCHANGED <<seen, crashes, history>>

Pending(r) == req[r].state.pending_tool_call

(* Faulty variant: any resume value that is there counts as a yes.          *)
DecisionTruthy(r) ==
  IF req[r].role = "full" \/ (req[r].fresh /\ req[r].decision # "none")
  THEN "approve" ELSE "none"

(* Faulty variant: the decision outlives the node it was meant for.         *)
DecisionKept(r) ==
  IF req[r].role = "full" THEN "approve" ELSE req[r].decision

(* The resume value is there for the first node after the resume only.      *)
Decision(r) ==
  IF req[r].role = "full" THEN "approve"
  ELSE IF req[r].fresh THEN req[r].decision ELSE "none"

(* Faulty variant: the preview shows the message's last call.               *)
InterruptShowsLast(r) ==
  LET calls == req[r].state.calls
  IN  /\ At(r, "confirm_and_execute")
      /\ Pending(r) # NoCall
      /\ Decision(r) = "none"
      /\ req' = [req EXCEPT ![r].phase = "interrupted"]
      /\ seen' = [seen EXCEPT ![req[r].thread] = calls[Len(calls)]]
      /\ shown' = shown \cup {calls[Len(calls)]}
      /\ UNCHANGED <<checkpoint, crashes, execs, cancels>>

(* confirm_and_execute without a decision: interrupt() ends the invocation  *)
(* and its payload reaches the user; the checkpoint still points here.      *)
Interrupt(r) ==
  /\ At(r, "confirm_and_execute")
  /\ Pending(r) # NoCall
  /\ Decision(r) = "none"
  /\ req' = [req EXCEPT ![r].phase = "interrupted"]
  /\ seen' = [seen EXCEPT ![req[r].thread] = Pending(r)]
  /\ shown' = shown \cup {Pending(r)}
  /\ UNCHANGED <<checkpoint, crashes, execs, cancels>>

(* confirm_and_execute, approved: the tool is called ...                    *)
ConfirmAndExecute(r) ==
  /\ At(r, "confirm_and_execute")
  /\ Pending(r) # NoCall
  /\ Decision(r) = "approve"
  /\ execs' = execs \cup {[req |-> r, call |-> Pending(r)]}
  /\ req' = [req EXCEPT ![r].phase = "executing"]
  /\ UNCHANGED <<checkpoint, seen, crashes, shown, cancels>>

(* Faulty variants: the update of the node is not saved before the next one.*)
Unsaved(r) ==
  /\ req' = [req EXCEPT ![r].state = ConfirmNode(req[r].state),
                        ![r].fresh = FALSE, ![r].phase = "running"]
  /\ UNCHANGED <<checkpoint, seen, crashes, shown, execs>>

CommitActionUnsaved(r) ==
  req[r].phase = "executing" /\ Unsaved(r) /\ UNCHANGED cancels

CancelActionUnsaved(r) ==
  /\ At(r, "confirm_and_execute")
  /\ Decision(r) = "reject"
  /\ Unsaved(r)
  /\ cancels' = cancels \cup {[req |-> r, call |-> Pending(r)]}

(* ... and its result, or its error, becomes the call's ToolMessage.        *)
CommitAction(r) ==
  /\ req[r].phase = "executing"
  /\ Save(r, ConfirmNode(req[r].state), "running")
  /\ UNCHANGED <<seen, crashes, history>>

(* confirm_and_execute when the user refused, or nothing is pending.        *)
CancelAction(r) ==
  /\ At(r, "confirm_and_execute")
  /\ Pending(r) = NoCall \/ Decision(r) = "reject"
  /\ Save(r, ConfirmNode(req[r].state), "running")
  /\ cancels' = cancels \cup {[req |-> r, call |-> Pending(r)]}
  /\ UNCHANGED <<seen, crashes, shown, execs>>

ForceFinish(r) ==
  /\ At(r, "force_finish")
  /\ Save(r, ForceFinishNode(req[r].state), "done")
  /\ UNCHANGED <<seen, crashes, history>>

(* The model or a harmless tool raises: the invocation ends, the checkpoint *)
(* still points at the node.                                                *)
NodeFails(r) ==
  /\ At(r, "call_model") \/ At(r, "execute_tool")
  /\ req' = [req EXCEPT ![r].phase = "failed"]
  /\ UNCHANGED <<checkpoint, seen, crashes, history>>

(* The client of a stream goes away and the invocation is cancelled.        *)
Disconnect(r) ==
  /\ Disconnects
  /\ Active(r)
  /\ req' = [req EXCEPT ![r].phase = "failed"]
  /\ UNCHANGED <<checkpoint, seen, crashes, history>>

(* The process dies and starts again with what its checkpointer kept.       *)
Restart ==
  /\ crashes < MaxCrashes
  /\ crashes' = crashes + 1
  /\ req' = [r \in Requests |->
               IF Active(r) THEN [req[r] EXCEPT !.phase = "failed"] ELSE req[r]]
  /\ checkpoint' = IF Durable THEN checkpoint ELSE [t \in Threads |-> EmptyState]
  /\ UNCHANGED <<seen, history>>

Start(r) ==
  \E t \in Threads, role \in Roles :
    \/ \E clear \in BOOLEAN : StartChat(r, t, role, clear)
    \/ \E decision \in {"approve", "reject"}, call \in OnScreen(t) :
         StartResume(r, t, role, decision, call)

Step(r) ==
  \/ CallModel(r) \/ ExecuteTool(r) \/ PrepareDangerousAction(r)
  \/ Interrupt(r) \/ ConfirmAndExecute(r) \/ CommitAction(r) \/ CancelAction(r)
  \/ ForceFinish(r) \/ NodeFails(r)

Next ==
  \/ \E r \in Requests : Start(r) \/ Step(r) \/ Disconnect(r)
  \/ Restart

Spec == Init /\ [][Next]_vars

(* The event loop runs every task that is ready, and the calls of the model *)
(* and of the tools have timeouts.                                          *)
FairSpec == Spec /\ \A r \in Requests : WF_vars(Step(r))

-------------------------------------------------------------------------------
(* Every checkpoint and every running copy of one is a state of the graph   *)
(* in which the confirmation node is about the first dangerous call of the  *)
(* model's last message and the model is within its iteration limit,        *)
(* however invocations of one thread overlap, fail or are cut short.        *)
GraphInv ==
  /\ \A t \in Threads : StateInv(checkpoint[t])
  /\ \A r \in Requests :
       Active(r) => StateInv(req[r].state) /\ req[r].thread \in Threads
  /\ \A r \in Requests :
       req[r].phase = "executing" =>
         /\ req[r].state.next = "confirm_and_execute"
         /\ [req |-> r, call |-> Pending(r)] \in execs

(* After it has run a dangerous call, a request without role full never     *)
(* stands before a confirmation with its decision still at hand.            *)
DecisionSpent ==
  \A e \in execs :
    /\ req[e.req].phase # "new"
    /\ req[e.req].role # "full" /\ req[e.req].phase = "running"
         => ~ req[e.req].fresh

(* A decision is used once: whatever a resumed run does after the confirmed *)
(* action, a request without role full never runs a second dangerous call.  *)
OneActionPerDecision ==
  \A e, f \in execs :
    e.req = f.req /\ req[e.req].role # "full" => e = f

(* No dangerous call runs without a positive decision: the request that ran *)
(* it has role full or resumed the thread with an approval; a request that  *)
(* only chats, or that rejects, runs none.                                  *)
ActionNeedsApproval ==
  \A e \in execs :
    /\ e.call \in Call /\ Dangerous(e.call)
    /\ req[e.req].role = "full" \/ req[e.req].decision = "approve"

(* The call an approval runs is the call its sender was looking at.         *)
ApprovedAsMeant ==
  \A e \in execs : req[e.req].role # "full" => req[e.req].meant = e.call

(* Nothing is carried out, without role full, that no user was asked about. *)
ActionWasShown ==
  \A e \in execs : req[e.req].role # "full" => e.call \in shown

(* A confirmed action is carried out once: no call is run by two requests.  *)
SentOnce == \A e, f \in execs : e.call = f.call => e = f

(* The inductive invariant behind the properties above.                     *)
IInv ==
  TypeOK /\ GraphInv /\ DecisionSpent /\ OneActionPerDecision
  /\ ActionNeedsApproval

(***************************************************************************)
(* The setting in which a thread serves one request at a time and every    *)
(* invocation reaches its own end: neither the client nor the process goes *)
(* away in the middle.  Then more holds, by the invariant below.           *)
(***************************************************************************)
Serial == OneAtATime /\ ~ Disconnects /\ MaxCrashes = 0

Runs(r, t) == Active(r) /\ req[r].thread = t

(* The only invocation on a thread works on what the checkpointer holds.    *)
OneRunner ==
  \A q, r \in Requests :
    Active(q) /\ Active(r) /\ req[q].thread = req[r].thread => q = r

RunsOnSaved ==
  \A r \in Requests : Active(r) => req[r].state = checkpoint[req[r].thread]

(* A thread that stands before a confirmation has asked its user about the  *)
(* pending call, unless a run has only just come there; a decision that is  *)
(* still at hand there was made about this call.                            *)
AskedFirst ==
  /\ \A t \in Threads :
       checkpoint[t].next = "confirm_and_execute" =>
         \/ /\ seen[t] = checkpoint[t].pending_tool_call
            /\ checkpoint[t].pending_tool_call \in shown
         \/ \E r \in Requests : Runs(r, t) /\ ~ req[r].fresh
  /\ \A r \in Requests :
       Active(r) /\ req[r].fresh /\ req[r].state.next = "confirm_and_execute"
         => req[r].meant = Pending(r)

Answered == {e.call : e \in execs \cup cancels}

CallsOf(t) == {checkpoint[t].calls[i] : i \in DOMAIN checkpoint[t].calls}

Executing(t) == \E r \in Requests : Runs(r, t) /\ req[r].phase = "executing"

(* The calls of a thread's last message are its own, and none of them was   *)
(* answered before but by the run that is executing it; a run's next turn   *)
(* gives its calls ids that were never used.                                *)
CallsFresh ==
  /\ \A t \in Threads : \A call \in CallsOf(t) : req[call.by].thread = t
  /\ \A t \in Threads : Executing(t) \/ CallsOf(t) \cap Answered = {}
  /\ \A call \in Answered \cup UNION {CallsOf(t) : t \in Threads} :
       /\ call \in Call /\ req[call.by].phase # "new"
       /\ Active(call.by) => call.turn <= req[call.by].state.iteration_count

SerialInv ==
  /\ OneRunner /\ RunsOnSaved /\ AskedFirst /\ CallsFresh
  /\ ApprovedAsMeant /\ ActionWasShown /\ SentOnce

(* A call the user cancelled is never carried out, one carried out is never *)
(* put to a user again, and each was put to him first: the requests         *)
(* implement the approval protocol.                                         *)
Approval == INSTANCE ApprovalProtocol
  WITH Calls <- Call, Trusted <- "full" \in Roles, asked <- shown,
       done <- {e.call : e \in execs}, cancelled <- {e.call : e \in cancels}

ImplementsApproval == Approval!Spec

(* Every invocation ends: the graph cannot keep calling the model.          *)
InvocationsEnd == \A r \in Requests : Active(r) ~> ~ Active(r)
===============================================================================
