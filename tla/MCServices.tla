------------------------------ MODULE MCServices ------------------------------
(***************************************************************************)
(* The components of the backend and the bots that share no state with     *)
(* each other, each on its own: a behaviour is one of one component,       *)
(* chosen at the start.                                                    *)
(***************************************************************************)
EXTENDS RateLimit, AlertQueue, MessageExport, Broadcast, Lifespan, LLMService,
        Streaming, CustomGraph, RagAnswers, PromptContext, ChatRepositoryContract

(* Two texts that are one number, one that is another, and one that is none. *)
MCIntOf == ("42" :> 42) @@ ("042" :> 42) @@ ("43" :> 43) @@ ("guest" :> NotANumber)

VARIABLE component

operations == <<rateVars, alertVars, exportVars, broadcastVars>>
services == <<lifeVars, llmVars, streamVars, graphVars, ragVars>>
functions == <<promptVars, contextVars, contractVars>>

Components == {"rate limit", "alerts", "export", "broadcast", "lifespan",
               "completions", "streaming", "graph", "rag", "prompts", "context",
               "contract"}

(* The components that are not chosen have one initial state.               *)
Idle(c) == component # c

Init ==
  /\ component \in Components
  /\ RateInit
  /\ AlertInit
  /\ Idle("alerts") => status = [o \in ChatOwners |-> "no chat"]
  /\ ExportInit
  /\ BroadcastInit
  /\ Idle("broadcast") => chatOwners = <<>>
  /\ LifespanInit
  /\ Idle("lifespan") => ragEnabled = "off"
  /\ LLMInit /\ StreamInit /\ CustomGraphInit
  /\ RagInit
  /\ Idle("rag") => internal = {} /\ restricted = "no"
  /\ PromptInit
  /\ Idle("prompts") => prompts = <<>> /\ chatPrompt = "none"
  /\ ContextInit
  /\ Idle("context") => history = <<>> /\ budget = 0
  /\ ContractInit

OnlyRateLimit ==
  /\ component = "rate limit" /\ RateNext
  /\ UNCHANGED <<component, services, functions,
                 alertVars, exportVars, broadcastVars>>
OnlyAlerts ==
  /\ component = "alerts" /\ AlertNext
  /\ UNCHANGED <<component, services, functions,
                 rateVars, exportVars, broadcastVars>>
OnlyExport ==
  /\ component = "export" /\ ExportNext
  /\ UNCHANGED <<component, services, functions,
                 rateVars, alertVars, broadcastVars>>
OnlyBroadcast ==
  /\ component = "broadcast" /\ BroadcastNext
  /\ UNCHANGED <<component, services, functions,
                 rateVars, alertVars, exportVars>>
OnlyLifespan ==
  /\ component = "lifespan" /\ LifespanNext
  /\ UNCHANGED <<component, operations, functions,
                 llmVars, streamVars, graphVars, ragVars>>
OnlyCompletions ==
  /\ component = "completions" /\ LLMNext
  /\ UNCHANGED <<component, operations, functions,
                 lifeVars, streamVars, graphVars, ragVars>>
OnlyStreaming ==
  /\ component = "streaming" /\ StreamNext
  /\ UNCHANGED <<component, operations, functions,
                 lifeVars, llmVars, graphVars, ragVars>>
OnlyGraph ==
  /\ component = "graph" /\ CustomGraphNext
  /\ UNCHANGED <<component, operations, functions,
                 lifeVars, llmVars, streamVars, ragVars>>
OnlyRag ==
  /\ component = "rag" /\ RagNext
  /\ UNCHANGED <<component, operations, functions,
                 lifeVars, llmVars, streamVars, graphVars>>
OnlyPrompts ==
  /\ component = "prompts" /\ PromptNext
  /\ UNCHANGED <<component, operations, services,
                 contextVars, contractVars>>
OnlyContext ==
  /\ component = "context" /\ ContextNext
  /\ UNCHANGED <<component, operations, services,
                 promptVars, contractVars>>
OnlyContract ==
  /\ component = "contract" /\ ContractNext
  /\ UNCHANGED <<component, operations, services,
                 promptVars, contextVars>>

Next ==
  \/ OnlyRateLimit \/ OnlyAlerts \/ OnlyExport \/ OnlyBroadcast
  \/ OnlyLifespan \/ OnlyCompletions \/ OnlyStreaming \/ OnlyGraph
  \/ OnlyRag \/ OnlyPrompts \/ OnlyContext \/ OnlyContract

Spec == Init /\ [][Next]_<<component, operations, services, functions>>
===============================================================================
