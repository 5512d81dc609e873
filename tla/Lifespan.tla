------------------------------- MODULE Lifespan -------------------------------
(***************************************************************************)
(* The lifespan of the backend (src/app/main.py): what it opens in which   *)
(* order, what of it the application finds in app.state, and what it       *)
(* releases when it stops; with the eXpress bot (src/app/routers/          *)
(* express.py), whose commands go on in the background while it serves.    *)
(***************************************************************************)
EXTENDS Naturals

CONSTANTS
  RagSettings,  \* values of settings.rag_enabled
  MaxCommands   \* bound: eXpress commands in progress

ASSUME LifespanConstants ==
  RagSettings \subseteq {"on", "off"} /\ MaxCommands \in Nat

VARIABLES
  lifeStep,    \* what the lifespan does next
  ragEnabled,
  opened,      \* components that hold connections or threads
  appState,    \* components in app.state, and express_bot
  agentUses,   \* what the agent's search tool asks: "rag" or "stub"
  botAgent,    \* what init_express_bot was given: "agent" or "none"
  commands,    \* eXpress commands in progress
  startFailed, \* history: left open by a start that failed
  stopFailed   \* history: left open by a release that failed

lifeVars == <<lifeStep, ragEnabled, opened, appState, agentUses, botAgent,
              commands, startFailed, stopFailed>>

Held == {"llm", "redis", "engine", "vector_store", "ingestion", "rag",
         "agent", "express"}

Starting == {"llm", "redis", "engine", "vector_store", "ingestion", "index",
             "rag", "itilium", "agent", "express"}
Stopping == {"stop express", "stop agent", "close llm", "close redis",
             "close engine", "close vector_store", "close rag",
             "close ingestion"}
Ended == {"refused", "stopped", "aborted"}

LifespanTypeOK ==
  /\ lifeStep \in Starting \cup {"serving"} \cup Stopping \cup Ended
  /\ ragEnabled \in {"on", "off"}
  /\ opened \subseteq Held /\ appState \subseteq Held \cup {"itilium"}
  /\ agentUses \in {"rag", "stub"} /\ botAgent \in {"agent", "none"}
  /\ commands \in 0 .. MaxCommands
  /\ startFailed \subseteq Held /\ stopFailed \subseteq Held

LifespanInit ==
  /\ lifeStep = "llm" /\ ragEnabled \in RagSettings
  /\ opened = {} /\ appState = {}
  /\ agentUses = "stub" /\ botAgent = "none"
  /\ commands = 0
  /\ startFailed = {} /\ stopFailed = {}

-------------------------------------------------------------------------------
(* Starting a component: it is in app.state and holds what it opened; or it *)
(* failed with nothing open; or it failed with its client left open, which  *)
(* app.state does not know.                                                 *)
Started(c, next) ==
  /\ lifeStep' = next
  /\ opened' = opened \cup {c} /\ appState' = appState \cup {c}
  /\ UNCHANGED startFailed

NotStarted(next) ==
  lifeStep' = next /\ UNCHANGED <<opened, appState, startFailed>>

LeftOpen(c, next) ==
  /\ lifeStep' = next
  /\ opened' = opened \cup {c} /\ startFailed' = startFailed \cup {c}
  /\ UNCHANGED appState

rest == <<ragEnabled, commands, stopFailed>>

(* The client of the LLM is the only one the application cannot do without. *)
OpenLLM ==
  /\ lifeStep = "llm"
  /\ Started("llm", "redis") \/ NotStarted("refused")
  /\ UNCHANGED <<rest, agentUses, botAgent>>

ConnectRedis ==
  /\ lifeStep = "redis"
  /\ \/ Started("redis", "engine")
     \/ LeftOpen("redis", "engine")   \* the ping fails
     \/ NotStarted("engine")
  /\ UNCHANGED <<rest, agentUses, botAgent>>

CreateEngine ==
  /\ lifeStep = "engine"
  /\ Started("engine", "vector_store") \/ NotStarted("vector_store")
  /\ UNCHANGED <<rest, agentUses, botAgent>>

AfterQdrant == IF ragEnabled = "on" THEN "ingestion" ELSE "itilium"

(* The collection is created, or has the right dimension, or the start of   *)
(* the store fails after its client was made.                               *)
EnsureCollection ==
  /\ lifeStep = "vector_store"
  /\ \/ Started("vector_store", AfterQdrant)
     \/ LeftOpen("vector_store", AfterQdrant)
     \/ NotStarted(AfterQdrant)
  /\ UNCHANGED <<rest, agentUses, botAgent>>

(* The ingestion service is in app.state before anything is indexed.  It    *)
(* makes its client before it reads its docstore.                           *)
StartIngestion ==
  /\ lifeStep = "ingestion"
  /\ \/ Started("ingestion", "index")
     \/ LeftOpen("ingestion", "itilium")
     \/ NotStarted("itilium")
  /\ UNCHANGED <<rest, agentUses, botAgent>>

IngestAll ==
  /\ lifeStep = "index"
  /\ NotStarted("rag") \/ NotStarted("itilium")
  /\ UNCHANGED <<rest, agentUses, botAgent>>

(* RAGService opens two clients before build can fail.                      *)
BuildRag ==
  /\ lifeStep = "rag"
  /\ \/ Started("rag", "itilium")
     \/ LeftOpen("rag", "itilium")
     \/ NotStarted("itilium")
  /\ UNCHANGED <<rest, agentUses, botAgent>>

(* The ITILIUM client opens a connection per request and holds none.        *)
AuthenticateItilium ==
  /\ lifeStep = "itilium"
  /\ lifeStep' = "agent"
  /\ appState' = appState \/ appState' = appState \cup {"itilium"}
  /\ UNCHANGED <<rest, opened, startFailed, agentUses, botAgent>>

EnterAgentLifespan ==
  /\ lifeStep = "agent"
  /\ agentUses' = IF ragEnabled = "on" /\ "rag" \in appState THEN "rag" ELSE "stub"
  /\ Started("agent", "express") \/ NotStarted("express")
  /\ UNCHANGED <<rest, botAgent>>

(* The bot is in its variable before its startup can fail, so a startup     *)
(* that failed looks like one that succeeded; NotStarted is a bot that      *)
(* could not be made.                                                       *)
InitExpressBot ==
  /\ lifeStep = "express"
  /\ botAgent' = IF "agent" \in appState THEN "agent" ELSE "none"
  /\ Started("express", "serving") \/ NotStarted("serving")
  /\ UNCHANGED <<rest, agentUses>>

-------------------------------------------------------------------------------
(* POST /express/webhook hands the command to the bot and returns.          *)
ExpressWebhook ==
  /\ lifeStep = "serving" /\ "express" \in appState
  /\ commands < MaxCommands
  /\ commands' = commands + 1
  /\ UNCHANGED <<lifeStep, ragEnabled, opened, appState, agentUses, botAgent,
                 startFailed, stopFailed>>

CommandEnds ==
  /\ commands > 0
  /\ commands' = commands - 1
  /\ UNCHANGED <<lifeStep, ragEnabled, opened, appState, agentUses, botAgent,
                 startFailed, stopFailed>>

StopServing ==
  /\ lifeStep = "serving"
  /\ lifeStep' = "stop express"
  /\ UNCHANGED <<ragEnabled, opened, appState, agentUses, botAgent, commands,
                 startFailed, stopFailed>>

-------------------------------------------------------------------------------
(* Releasing a component of app.state: a failure is logged and leaves it    *)
(* open.                                                                    *)
Released(c) == opened' = opened \ {c} /\ UNCHANGED stopFailed
ReleaseFails(c) == stopFailed' = stopFailed \cup {c} /\ UNCHANGED opened
NothingToRelease == UNCHANGED <<opened, stopFailed>>

Close(c, step, next) ==
  /\ lifeStep = step
  /\ lifeStep' = next
  /\ IF c \in appState THEN Released(c) \/ ReleaseFails(c) ELSE NothingToRelease
  /\ UNCHANGED <<ragEnabled, appState, agentUses, botAgent, commands, startFailed>>

(* Faulty variant: the bot's shutdown waits for nothing.                    *)
ShutdownExpressBotWithoutWaiting ==
  /\ lifeStep = "stop express"
  /\ lifeStep' = "stop agent"
  /\ IF "express" \notin appState THEN NothingToRelease /\ UNCHANGED appState
     ELSE \/ Released("express") /\ appState' = appState \ {"express"}
          \/ ReleaseFails("express") /\ UNCHANGED appState
  /\ UNCHANGED <<ragEnabled, agentUses, botAgent, commands, startFailed>>

(* The bot's shutdown waits for the commands in progress.                   *)
ShutdownExpressBot ==
  /\ lifeStep = "stop express"
  /\ lifeStep' = "stop agent"
  /\ IF "express" \notin appState THEN NothingToRelease /\ UNCHANGED appState
     ELSE \/ /\ commands = 0
             /\ Released("express") /\ appState' = appState \ {"express"}
          \/ ReleaseFails("express") /\ UNCHANGED appState
  /\ UNCHANGED <<ragEnabled, agentUses, botAgent, commands, startFailed>>

(* The release of the agent is not guarded: when it fails, nothing after it *)
(* is released.                                                             *)
CloseAgentStack ==
  /\ lifeStep = "stop agent"
  /\ IF "agent" \notin appState
     THEN lifeStep' = "close llm" /\ NothingToRelease
     ELSE \/ lifeStep' = "close llm" /\ Released("agent")
          \/ lifeStep' = "aborted" /\ ReleaseFails("agent")
  /\ UNCHANGED <<ragEnabled, appState, agentUses, botAgent, commands, startFailed>>

CloseLLM == Close("llm", "close llm", "close redis")
CloseRedis == Close("redis", "close redis", "close engine")
DisposeEngine == Close("engine", "close engine", "close vector_store")
(* Faulty variant: the one after the next is closed.                        *)
CloseVectorStoreOnly == Close("vector_store", "close vector_store", "close ingestion")
CloseVectorStore == Close("vector_store", "close vector_store", "close rag")
CloseRag == Close("rag", "close rag", "close ingestion")
CloseIngestion == Close("ingestion", "close ingestion", "stopped")

StartNext ==
  \/ OpenLLM \/ ConnectRedis \/ CreateEngine \/ EnsureCollection
  \/ StartIngestion \/ IngestAll \/ BuildRag \/ AuthenticateItilium
  \/ EnterAgentLifespan \/ InitExpressBot
StopNext ==
  \/ ShutdownExpressBot \/ CloseAgentStack \/ CloseLLM \/ CloseRedis
  \/ DisposeEngine \/ CloseVectorStore \/ CloseRag \/ CloseIngestion
LifespanNext ==
  \/ StartNext \/ ExpressWebhook \/ CommandEnds \/ StopServing \/ StopNext

LifespanSpec == LifespanInit /\ [][LifespanNext]_lifeVars

-------------------------------------------------------------------------------
(* A command never works with what is already released: while one is in     *)
(* progress the agent the bot was given is open, and so is the RAG service  *)
(* the agent searches with; unless the bot could not be shut down.          *)
CommandsHaveTheirAgent ==
  commands > 0 /\ botAgent = "agent" /\ "express" \notin stopFailed =>
    /\ "agent" \in opened
    /\ agentUses = "rag" => "rag" \in opened

(* After a complete stop only what failed to start or to stop is open.      *)
OnlyFailuresLeak == lifeStep = "stopped" => opened \subseteq startFailed \cup stopFailed

-------------------------------------------------------------------------------
(* The inductive invariant.                                                 *)

(* Until the bot is shut down, what is in app.state is open.                *)
Serving == Starting \cup {"serving", "stop express"}
StateIsOpen == lifeStep \in Serving => appState \ {"itilium"} \subseteq opened

(* The bot and the agent's search tool were given what is in app.state.     *)
GivenFromState ==
  /\ botAgent = "agent" => "agent" \in appState
  /\ agentUses = "rag" => "rag" \in appState

(* A command in progress keeps the bot, and with it everything else.        *)
CommandsHoldTheBot ==
  commands > 0 /\ "express" \notin stopFailed =>
    lifeStep \in {"serving", "stop express"} /\ "express" \in appState

(* What is still to be released at a step.                                  *)
NotYetReleased ==
  CASE lifeStep = "stop agent" -> Held \ {"express"}
    [] lifeStep = "close llm" -> Held \ {"express", "agent"}
    [] lifeStep = "close redis" ->
         {"redis", "engine", "vector_store", "rag", "ingestion"}
    [] lifeStep = "close engine" -> {"engine", "vector_store", "rag", "ingestion"}
    [] lifeStep = "close vector_store" -> {"vector_store", "rag", "ingestion"}
    [] lifeStep = "close rag" -> {"rag", "ingestion"}
    [] lifeStep = "close ingestion" -> {"ingestion"}
    [] lifeStep = "stopped" -> {}
    [] OTHER -> Held

(* What is open will be released, or failed to start or to stop.            *)
OpenForAReason ==
  opened \subseteq (appState \cap NotYetReleased) \cup startFailed \cup stopFailed

LifeInv ==
  /\ LifespanTypeOK
  /\ StateIsOpen /\ GivenFromState /\ CommandsHoldTheBot /\ OpenForAReason
===============================================================================
