------------------------------ MODULE AgentGraph ------------------------------
(***************************************************************************)
(* The state machine of the persistent assistant                           *)
(* (src/app/services/agent_persistent.py, build_agent): the channels a     *)
(* thread's checkpoint holds, the update each graph node returns, and the  *)
(* conditional edge after the model.  Nodes are functions from a channel   *)
(* state to a channel state; AgentService runs them.                       *)
(*                                                                         *)
(* Texts are left out.  Of the message list only its last entry matters to *)
(* the graph: "calls" is the list of tool calls of the last message when   *)
(* that is the model's, and the empty list otherwise.                      *)
(***************************************************************************)
EXTENDS Naturals, Sequences

CONSTANTS
  Requests,         \* identities of graph invocations (HTTP requests)
  Threads,          \* thread_id values
  Tools,            \* names of the tools bound to the model
  DANGEROUS_TOOLS,  \* those that need a confirmation
  Responses,        \* what the model may answer: sequences of tool names
  MAX_ITERATIONS,   \* calls of the model in one run
  NoCall            \* pending_tool_call when it is None

ASSUME GraphConstants ==
  /\ DANGEROUS_TOOLS \subseteq Tools
  /\ Responses \subseteq Seq(Tools)
  /\ MAX_ITERATIONS \in Nat \ {0}

(* A tool call: the provider gives each one a fresh id, here the request and *)
(* the turn that asked the model, and the position in the model's message.  *)
Position == UNION {DOMAIN response : response \in Responses}

Call ==
  [by : Requests, turn : 1 .. MAX_ITERATIONS, pos : Position, tool : Tools]

ASSUME NoCallIsNoCall == NoCall \notin Call

(* "end" stands for no pending task: a finished thread, or a new one.       *)
Nodes == {"call_model", "execute_tool", "prepare_dangerous_action",
          "confirm_and_execute", "force_finish", "end"}

PersistentAgentState ==
  [next : Nodes, iteration_count : 0 .. MAX_ITERATIONS,
   calls : Seq(Call), pending_tool_call : Call \cup {NoCall}]

EmptyState ==
  [next |-> "end", iteration_count |-> 0, calls |-> << >>,
   pending_tool_call |-> NoCall]

Dangerous(call) == call.tool \in DANGEROUS_TOOLS

IsFirstDangerous(calls, i) ==
  /\ Dangerous(calls[i])
  /\ \A j \in DOMAIN calls : j < i => ~ Dangerous(calls[j])

HasDangerous(calls) == \E i \in DOMAIN calls : Dangerous(calls[i])

FirstDangerousCall(calls) ==
  calls[CHOOSE i \in DOMAIN calls : IsFirstDangerous(calls, i)]

(* The tool calls of the model's answer to request r in its given turn.     *)
AIMessage(r, turn, response) ==
  [i \in DOMAIN response |->
     [by |-> r, turn |-> turn, pos |-> i, tool |-> response[i]]]

RouteAfterModel(count, calls) ==
  IF count >= MAX_ITERATIONS \/ calls = << >> THEN "force_finish"
  ELSE IF HasDangerous(calls) THEN "prepare_dangerous_action"
  ELSE "execute_tool"

(* New user input on a thread: tasks left over from an earlier run are      *)
(* dropped and the run starts at call_model.  /agent/chat leaves the        *)
(* pending call as it was, process_message clears it.                       *)
Input(s, clear) ==
  [next |-> "call_model", iteration_count |-> 0, calls |-> << >>,
   pending_tool_call |-> IF clear THEN NoCall ELSE s.pending_tool_call]

(* Faulty variant: the update forgets to count the turn.                    *)
CallModelNodeUncounted(s, r, response) ==
  LET count == s.iteration_count + 1
      calls == AIMessage(r, count, response)
  IN  [next |-> RouteAfterModel(count, calls),
       iteration_count |-> s.iteration_count,
       calls |-> calls, pending_tool_call |-> s.pending_tool_call]

CallModelNode(s, r, response) ==
  LET count == s.iteration_count + 1
      calls == AIMessage(r, count, response)
  IN  [next |-> RouteAfterModel(count, calls), iteration_count |-> count,
       calls |-> calls, pending_tool_call |-> s.pending_tool_call]

ExecuteToolNode(s) == [s EXCEPT !.next = "call_model", !.calls = << >>]

(* Faulty variant: a pending call left by an earlier run is kept.           *)
PrepareNodeStale(s) ==
  [s EXCEPT !.next = "confirm_and_execute",
            !.pending_tool_call =
              IF @ = NoCall /\ HasDangerous(s.calls)
              THEN FirstDangerousCall(s.calls) ELSE @]

PrepareNode(s) ==
  [s EXCEPT !.next = "confirm_and_execute",
            !.pending_tool_call =
              IF HasDangerous(s.calls) THEN FirstDangerousCall(s.calls) ELSE @]

ConfirmNode(s) ==
  [s EXCEPT !.next = "call_model", !.calls = << >>, !.pending_tool_call = NoCall]

ForceFinishNode(s) == [s EXCEPT !.next = "end"]

(***************************************************************************)
(* What every saved and every running state of the graph satisfies: the    *)
(* model is only asked within the iteration limit, a dangerous call never  *)
(* reaches execute_tool, and the confirmation node always finds, as the    *)
(* pending call, the first dangerous call of the model's last message.     *)
(***************************************************************************)
StateInv(s) ==
  /\ s.next \in {"call_model", "execute_tool", "prepare_dangerous_action",
                 "confirm_and_execute"} => s.iteration_count < MAX_ITERATIONS
  /\ s.next = "execute_tool" => ~ HasDangerous(s.calls)
  /\ s.next \in {"prepare_dangerous_action", "confirm_and_execute"}
       => HasDangerous(s.calls)
  /\ s.next = "confirm_and_execute"
       => s.pending_tool_call = FirstDangerousCall(s.calls)
===============================================================================
