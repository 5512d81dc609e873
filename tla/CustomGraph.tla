------------------------------ MODULE CustomGraph ------------------------------
(***************************************************************************)
(* The agent without a memory (src/app/agents/graph.py): the model is      *)
(* asked, its tools are run, and so on, until it calls none or the limit   *)
(* is reached.  A call is known by the message and the place it stands at. *)
(***************************************************************************)
EXTENDS Naturals, Sequences, FiniteSets, SequencesExt

CONSTANTS
  MaxIterations,
  MaxToolCalls    \* bound: calls in a message of the model

ASSUME CustomGraphConstants ==
  MaxIterations \in Nat \ {0} /\ MaxToolCalls \in Nat

VARIABLES
  node,           \* the node that is next
  iterationCount,
  toolCalls,      \* the names of the calls in the last message
  asked,          \* all calls in the messages, in order
  toolMessages,   \* the calls that ToolMessages answer, in order
  toolResults

graphVars == <<node, iterationCount, toolCalls, asked, toolMessages, toolResults>>

Names == {"a tool", "unknown"}
CallIds == (1 .. MaxIterations) \X (1 .. MaxToolCalls)

CustomGraphTypeOK ==
  /\ node \in {"call_model", "route", "execute_tool", "force_finish", "end", "raised"}
  /\ iterationCount \in 0 .. MaxIterations
  /\ toolCalls \in Seq(Names)
  /\ asked \in Seq(CallIds) /\ toolMessages \in Seq(CallIds)
  /\ toolResults \in Seq(CallIds)

CustomGraphInit ==
  /\ node = "call_model" /\ iterationCount = 0
  /\ toolCalls = <<>> /\ asked = <<>> /\ toolMessages = <<>> /\ toolResults = <<>>

Ids(names, n) == [i \in DOMAIN names |-> <<n, i>>]

CallModel(names) ==
  /\ node = "call_model" /\ node' = "route"
  /\ toolCalls' = names
  /\ iterationCount' = iterationCount + 1
  /\ asked' = asked \o Ids(names, iterationCount + 1)
  /\ UNCHANGED <<toolMessages, toolResults>>

(* The limit comes before the calls: the last ones are not run.             *)
RouteAfterModel ==
  /\ node = "route"
  /\ node' = IF iterationCount >= MaxIterations \/ toolCalls = <<>>
             THEN "force_finish" ELSE "execute_tool"
  /\ UNCHANGED <<iterationCount, toolCalls, asked, toolMessages, toolResults>>

(* Faulty variant: a tool nobody knows is passed over.                      *)
ExecuteKnownTool ==
  /\ node = "execute_tool" /\ node' = "call_model"
  /\ LET run == SelectSeq(Ids(toolCalls, iterationCount),
                          LAMBDA c : toolCalls[c[2]] = "a tool")
     IN  toolMessages' = toolMessages \o run /\ toolResults' = toolResults \o run
  /\ UNCHANGED <<iterationCount, toolCalls, asked>>

(* Every call is answered, one of an unknown tool with an error.            *)
ExecuteTool ==
  /\ node = "execute_tool" /\ node' = "call_model"
  /\ LET run == Ids(toolCalls, iterationCount)
     IN  toolMessages' = toolMessages \o run /\ toolResults' = toolResults \o run
  /\ UNCHANGED <<iterationCount, toolCalls, asked>>

(* The model or a tool raises, and so does the graph.                       *)
NodeRaises ==
  /\ \/ node = "call_model"
     \/ node = "execute_tool" /\ "a tool" \in {toolCalls[i] : i \in DOMAIN toolCalls}
  /\ node' = "raised"
  /\ UNCHANGED <<iterationCount, toolCalls, asked, toolMessages, toolResults>>

ForceFinish ==
  /\ node = "force_finish" /\ node' = "end"
  /\ UNCHANGED <<iterationCount, toolCalls, asked, toolMessages, toolResults>>

CustomGraphNext ==
  \/ \E n \in 0 .. MaxToolCalls : \E names \in [1 .. n -> Names] : CallModel(names)
  \/ RouteAfterModel \/ ExecuteTool \/ NodeRaises \/ ForceFinish

CustomGraphSpec == CustomGraphInit /\ [][CustomGraphNext]_graphVars

-------------------------------------------------------------------------------
(* The model is never asked with a call of its own unanswered (a provider   *)
(* refuses such messages), nor more often than the limit says; and a run    *)
(* ends with unanswered calls only when the limit has cut it short.         *)
CallsAnswered ==
  /\ iterationCount <= MaxIterations
  /\ node = "call_model" =>
       iterationCount < MaxIterations /\ toolMessages = asked
  /\ node = "end" /\ toolMessages # asked => iterationCount = MaxIterations
  /\ toolResults = toolMessages

-------------------------------------------------------------------------------
(* The inductive invariant.                                                 *)

(* The calls of the last message are those that wait for an answer.         *)
LastCallsWait ==
  node \in {"route", "execute_tool"} =>
    /\ iterationCount > 0 /\ Len(toolCalls) <= MaxToolCalls
    /\ asked = toolMessages \o Ids(toolCalls, iterationCount)
    /\ node = "execute_tool" => iterationCount < MaxIterations

(* The graph finishes when nothing waits, or at the limit.                  *)
FinishesForAReason ==
  node \in {"force_finish", "end"} =>
    iterationCount = MaxIterations \/ toolMessages = asked

CustomGraphInv ==
  CustomGraphTypeOK /\ LastCallsWait /\ FinishesForAReason /\ CallsAnswered
===============================================================================
