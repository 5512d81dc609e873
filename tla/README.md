# TLA+ models of the AI assistant (app, Telegram bot, eXpress bot)

The repository is an assistant for employees: a FastAPI application (`app/`)
with a LangGraph agent that asks for a confirmation before dangerous actions, a
chat service with two interchangeable repositories, RAG, moderation, rate limits
and operator handoff, and two bots (`bot/` for Telegram, `express_bot/` for
eXpress) that talk to it over HTTP. This directory models the parts where order,
failure and concurrency decide whether the program is right. Paths below are
relative to `src/`.

## 1. Inventory

### 1.1 Components, their state and what makes them correct

| Component | Source | State | Operations | Correct when |
|---|---|---|---|---|
| Persistent agent graph | `app/services/agent_persistent.py` | a checkpoint per thread: messages, `iteration_count`, `pending_tool_call`, the next node | `call_model`, `execute_tool`, `prepare_dangerous_action`, `confirm_and_execute`, `force_finish`, the conditional edge, `process_message` | dangerous actions run only after a decision about that action, once; the loop ends |
| Agent HTTP API | `app/routers/agent.py` | none of its own; requests run concurrently against the checkpointer | `/agent/chat`, `/agent/resume`, `/agent/stream` | an answer is about the caller's thread; a resume is about what the caller saw |
| Bot API bridge | `app/routers/api.py` | none | `/api/process`, `/api/resume` | passes the agent's answer and the user's decision through |
| Chat messages | `app/chat/service.py`, `routes.py` | none of its own; one coroutine per request | send (stream, save, announce), list, clear, feedback | what the user has read is stored; history is ordered and limited; cleared stays cleared |
| Chat repositories | `app/chat/repositories/` | a JSONL file per chat, or tables | append, list, soft delete, get or create | both keep the same contract |
| Telegram bot | `bot/handlers/` | `pending_approvals`, the FSM of `/ask` | one handler per update | a decision reaches the right thread, once; `/ask` keeps its topic |
| eXpress bot | `express_bot/` | pending threads in Redis with a time to live | text, approve | the same, with expiry |
| Alert queue | `app/services/alerter.py`, `bot/services/alert_drain.py` | rows of `alerts` | fire, fetch, send, acknowledge | every cause has its alert; an alert is sent again only for a reason |
| Moderation | `app/moderation/service.py` | none | check input, check output | blocked input is never stored or answered |
| Handoff, broadcast, admin | `app/services/handoff.py`, `broadcaster.py`, `app/admin/` | `chats.handoff_status` | pause, resume, broadcast, paged export | a paused chat waits for its operator |
| Rate limit | `app/ratelimit/` | a counter per owner, kind and minute | `increment_and_check` | never more than the limit per window, and nobody is turned away for somebody else |
| Ingestion, documents | `app/services/ingestion.py`, `app/routers/documents.py` | the corpus on disk, the collection of vectors, what the vector store remembers of it, the docstore in memory and on disk, the pipeline over it | upload, reindex, the start's indexing | every file of the corpus can be found, in its last version, once |
| RAG | `app/services/rag*.py`, `app/routers/rag.py` | the retriever over the collection | build, query, citations, log | an answer cites what was retrieved |
| LLM client | `app/services/llm.py` | a cache of completions, the semaphore of batches | complete, batch, stream | an answer is for the request that gets it; the semaphore's slots come back |
| Custom graph | `app/agents/` | none between calls | the same tool loop without persistence | every call is answered before the model is asked again; the limit holds |
| Telegram streaming | `bot/services/streaming.py` | the text so far, the draft or message it is drawn in | draft, fall back to edits, final message | the user is left with the whole answer |
| Application lifespan | `app/main.py` | what was opened so far | start, stop, the eXpress bot's commands | everything opened is closed, nothing while it is used |
| Context budget, prompt split | `app/chat/context.py`, `prompt_selection.py` | none | pure functions | the budget is kept; the split is proportional |

Configuration, schemas, health checks, scripts, migrations, PII masking, tracing
and the evaluation metrics are declarations, text processing or offline tools.
`app/routers/telegram_api.py` and `express_api.py` are not mounted.

### 1.2 How they interact

    Telegram ── update ──> bot/handlers ── POST /api/process ──> process_message ─┐
      ^  buttons              │ pending_approvals                                 v
      └── tap ───────────> on_approval ── POST /api/resume ────────────> agent graph
    web client ── /agent/chat, /agent/resume, /agent/stream ───────────>  │    ^
                                                              checkpoint per thread
    web client ── POST /chats, /chats/{id}/messages ──> ChatService ──> JSONL | tables
    moderation, handoff ── fire_alert ──> alerts ··> drain_alerts (bot, not started) ··> administrator
    admin ── /broadcast ──> broadcaster ── POST /notify ──> bot ──> every owner
    admin ── /documents ──> IngestionService (threads) ──> Qdrant, docstore file
                                                              ^ RAGService (agent's search)

Everything is asyncio: code between two awaits is atomic, and at each await any
other request may run, the client may go away, or the process may die. There are
no locks on a thread, a chat or an owner. Indexing is the exception: it runs in
threads of a pool, so two runs interleave at every call.

### 1.3 Hard behaviours

The complete list, each with its line and the properties that cover it, is
`hazards` in `PROJECT.json`. In short: overlapping resumes of one thread; a tool's
effect and its checkpoint are two steps; a decision names a thread and not a call;
streams that break, writes that fail and clients that leave between showing an
answer and storing it; clears that race with answers; select-then-insert without a
unique constraint; files with a half-written line; bot handlers that run at the
same time over one dictionary; state in memory that a restart loses while its
buttons stay on the screen; threads named by the second; a vector store that
remembers a collection somebody else has deleted; indexing runs that overlap or stop between the vectors,
the docstore and its file; alerts whose sending or acknowledgement fails; releases
that fail, or come while what they release is in use.

## 2. Modules

| Module | What it is |
|---|---|
| `AgentGraph` | the graph itself: what a checkpoint holds, the update of each node as a function, the conditional edge; `StateInv`, what every state of a thread satisfies |
| `ApprovalProtocol` | abstract specification: a call is put to a human, then carried out or cancelled, once |
| `AgentService` | invocations of the graph by HTTP requests against the checkpointer, with overlaps, disconnects and restarts; refines `ApprovalProtocol` |
| `AgentServiceProofs` | theorems about `AgentService` |
| `ChatStore` | append, list and clear of both repositories as operators on a file (a sequence of lines) and a table (a set of rows); a list is the set of what is listed and the order it is in |
| `ChatRepositoryContract` | both repositories against the contract of `tests/chat/test_repository_contract.py`, for every sequence of calls up to a bound |
| `ChatService` | messages to one chat over either repository |
| `ChatServiceProofs` | theorems about `ChatService` and `ChatRepositoryContract` |
| `ChatDirectory`, `ChatDirectoryProofs` | finding or creating the chat of an owner on an interface; the theorems about it |
| `TelegramBot` | one Telegram chat: the handlers, `/ask`, approvals |
| `TelegramBotProofs` | theorems about `TelegramBot` |
| `Ingestion`, `IngestionProofs` | uploads, reindexing, the start's indexing, stops and restarts, over the corpus, the vectors and the docstore; the theorems about it |
| `RateLimit` | the counter of an owner and minute |
| `AlertQueue` | alerts from moderation and handoff to the administrator |
| `MessageExport` | the paged export while messages are written and cleared |
| `Broadcast` | a broadcast to a list or to an interface |
| `OperationsProofs` | theorems about `RateLimit`, `AlertQueue`, `MessageExport` and `Broadcast` |
| `Lifespan` | start and stop of the application, with the eXpress bot's commands |
| `LLMService`, `LLMServiceProofs` | completions, their cache, retries and batches; the theorems about them |
| `Streaming` | an answer drawn into a Telegram chat |
| `CustomGraph` | the tool-calling graph without a memory |
| `RagAnswers` | retrieval, refusal, citations and the log |
| `ServicesProofs` | theorems about `Lifespan`, `Streaming`, `CustomGraph`, `RagAnswers` and `PromptContext` |
| `PromptContext` | the split of owners between prompts, the history cut to a budget |
| `MCServices` | the components that share no state, checked in one run: a behaviour is one of one component, chosen at the start |
| other `MC*` | values of constants for TLC |

Definitions named `...Late`, `...Stale`, `...Unsaved` and so on, with a comment
"Faulty variant", are plausible bugs of the definition after them. They are used
to make sure that each property notices one; no specification refers to them.

### 2.1 AgentGraph and AgentService

A thread's checkpoint is a record `[next, iteration_count, calls,
pending_tool_call]`: `next` is the task LangGraph would run, `calls` the tool
calls of the last message when that is the model's. The texts of messages are left
out; a tool call is identified by who asked the model, in which turn, at which
position. Each node of `build_agent` is one action (`CallModel`, `ExecuteTool`,
`PrepareDangerousAction`, `Interrupt` / `ConfirmAndExecute` + `CommitAction` /
`CancelAction` for the three ways through `confirm_and_execute`, `ForceFinish`)
on the request's own copy of the state, which `Save` writes back as the thread's
checkpoint: LangGraph takes no lock, so the last writer wins. The approved path is
two actions because the tool's effect is out before the checkpoint is written.
`fresh` models that the resume value `Command(resume=...)` is there for the first
node only. `StartChat` and `StartResume` are the endpoints, `NodeFails` a raising
model or tool, `Disconnect` a cancelled stream, `Restart` the process and its
lifespan (`InMemorySaver` when `Durable` is FALSE, sqlite or postgres otherwise).

`OneAtATime` says whether clients wait for an answer before the next request on a
thread; the endpoints do not enforce it.

### 2.2 ChatStore, ChatRepositoryContract, ChatService, ChatDirectory

`send_message` is cut at its awaits: `Accept`, `SaveQuestion`, `LoadHistory`,
`OpenStream`, `StreamToken`, `StreamStops`, `SaveAnswer`, `Announce`. A message
takes its time when it is constructed, which is before it is stored. A text is the
number of tokens in it. `Block` is whatever ends a request before its question is
stored (moderation, a failing look-up of the chat, of its prompt or its media),
`StoreFails` a write that raises, `HistoryFails` a `list_messages` that does,
`Disconnect` a generator cancelled at its await (`CancelledError` is no
`Exception`: nothing is stored). Variable `backend` chooses the repository once.

What a repository lists is modelled as a set of messages (`JsonListed`, `PgListed`)
and the order they are in (`JsonPrecedes`: the lines of the file; `PgPrecedes`: the
time of construction). `messages[-limit:]` and the reversed `LIMIT` of the statement
are the messages of the set that fewer than `limit` others follow (`LastOf`). No two
messages are equal (they have ids in the code and different times here), so set and
order are the list.

`ChatDirectory` cuts `get_or_create_chat` between the look-up and the insert. The
json repository reads one `chat.json` after another, and creates the directory
before it writes the file.

### 2.3 TelegramBot

aiogram starts a task per update, so handlers of one chat overlap. Between two
awaits of a backend request a handler is atomic: `MemoryStorage` does not suspend,
nor does the `pending_approvals` dictionary. `ProcessMessage` is the backend taking
the question up: its thread is named by platform, user, chat and
`int(time.time())`, in one chat by the second (`second`, advanced by `Tick`), so
questions of one second share a thread. `BackendAnswers` stores the thread,
`Answered` sends the message with its buttons; `OnApproval` pops the thread and
starts the resume, `Resumed` ends it. `asker` and `resumed` remember which answer the
stored thread belongs to, and which tap resumed which thread for which answer: a
thread can be resumed twice, for two questions of its second, an answer cannot.
`KeepsApproval` says whether the fields `need_approval` and `thread_id` get through
`/api/process`: TRUE is the contract of `process_message` and of the handlers, FALSE
is the response model as it is (see 3.2).

### 2.4 Ingestion

`disk` is the corpus: what stands in a file, 0 when there is none; `quarantined`
what a failing upload put aside as `.failed`. `copies` counts the vectors of each
version of a file in the collection, `raw` the files RAGService indexed itself.
A docstore maps a file to the hash of what was indexed, of which the day is a part,
as in the metadata (`file_metadata`). Every actor that can replace the service's
docstore owns one in `stores`; `docstore` and `pipeline` say whose is in use, since
`reindex_all` replaces them in two steps while another thread may be between them.
`initialized` is what the vector store (llama_index's adapter, one object for the
life of the process) believes about the collection: it looks when it is made and when
it creates one, and is not told when `reindex_all` deletes it through the client.
`saved` is the file, `Torn` between opening and writing it. The tasks run
`DeleteCollection`, `ForgetDocstore`, `BuildPipeline`, `Read`, `RunPipeline`,
`Upsert` (per document), `AddVectors`, `RecordHashes`, `OpenDocstoreFile`,
`PersistDocstore`; `Stop` may come after each of them. `Upsert` removes the vectors of
a changed document and leaves its old hash where it is until `RecordHashes`: the
docstore's `delete_ref_doc` knows no nodes under a document and returns. `TaskFails`
is an outside service that fails, with a part of the vectors added; `CollectionGone`
is what the code does by itself without its collection. `history` records whether
work overlapped, failed or was lost, for the properties that speak of undisturbed
work, and `alone` the task that has had everything to itself since it began.

llama_index is not in the repository; what `Upsert`, `AddVectors` and
`CollectionGone` say of it is what its `IngestionPipeline` and `QdrantVectorStore`
(0.14) do with the documents this code gives them.

### 2.5 AlertQueue, RateLimit, MessageExport, Broadcast

`CheckInput` and `SetHandoffStatus` are the two causes of an alert, followed by
`FireAlert` or its failure. The drain fetches up to `FetchLimit` open alerts,
oldest first, sends and acknowledges them one by one; each step may fail (a send
also when Telegram has delivered it and answered late) and the bot may restart with
what it fetched. `DrainRuns` says whether the bot starts the drain: FALSE is this
commit (`bot/__main__.py:102`, see 3.3); TRUE, as in the run, is what `alert_drain.py` does when it is
started, with a client that can fetch and acknowledge.

`IncrementAndCheck` is the one statement that raises a counter and returns it;
`CommitLost` and `DatabaseFails` are what can go wrong around it, `Tick` the next
minute. A message of the export has the time of its construction (`ConstructMessage`)
and is visible from its commit; `late` notes those committed behind the cursor. The
recipients of a broadcast are asked in turn, the outcome of each is nondeterministic.
An owner id is a text, a recipient the number `int()` makes of it (`IntOf`): two texts
may be one number, and some are none.

### 2.6 Lifespan, LLMService, Streaming, CustomGraph, RagAnswers, PromptContext

`Lifespan` has one action per step of the lifespan, with the outcomes its `try`
allows: started, not started, or failed with a client left open that `app.state`
does not know. `LLMService` has one record per call, from the queue of a batch
through the cache, the provider's attempts and the storing of the answer; an answer
is known by the payload it is for and the call it was given to. `Streaming` keeps
what was received (`buffer`), what the draft shows and what stands in the chat.
`CustomGraph` keeps the ids of the calls asked for and answered. `RagAnswers`
separates retrieval, the check of the best score, the synthesis and the log, with a
text of the model abstracted to the set of markers in it. `PromptContext` translates
the two algorithms and states what they promise independently of how they do it. A sum
is counted: a message is as many pairs as it has tokens (`Tokens`), a prompt as many as
it has percents (`Percents`), so a total is the size of a set. The candidates of a split
are a set too, the newest being the last of `prompts`.

## 3. What is checked

### 3.1 Runs that pass

| Run | Instance | Question |
|---|---|---|
| `AgentSerial` | 4 requests on 1 thread, both roles, 2 turns, clients wait | an approval runs the call it was given for (`ApprovedAsMeant`), that somebody was shown (`ActionWasShown`), once (`SentOnce`); the service implements `ApprovalProtocol` |
| `AgentOverlap` | 2 overlapping requests, 3 turns, disconnects, one restart with `InMemorySaver`, fairness | what survives every interleaving: `GraphInv`, `ActionNeedsApproval`, `OneActionPerDecision`; every invocation ends |
| `Chat` | 2 overlapping requests, window of 2 messages, 2 tokens, 2 clears, 1 failing write that may leave a line cut short, both repositories, fairness | nothing the user has read gets lost (`AnswersKept`), order (`AnswerFollowsQuestion`), a request loads its question with the history unless it was cleared or a whole window of messages came after it (`QuestionInContext`), `ClearedStaysCleared`, `HistoryGrows` for files, requests end |
| `Directory` | 4 requests for 2 keys, failing creations, both repositories | one chat per key as long as requests for it do not overlap (`IdempotentAlone`), never somebody else's (`OwnChat`), and a raced key settles on its oldest row (`OldestStays`) |
| `Bot` | 5 updates, 2 topics, 2 seconds, 1 restart | an interrupted question is decided at most once, in its own thread (`ResumedOnce`), no question goes out with a topic of an earlier scenario (`QuestionHasTopic`), a user who waits keeps his scenario (`ScenarioKept`) |
| `Ingestion` | 2 files of 2 versions, 2 tasks of every kind beside the start's, 2 days, 1 stop | vectors and docstore agree after work that neither overlapped, failed nor was cut off (`MirrorsDocstore`), nothing is then skipped that cannot be found (`SkippedIsIndexedAlone`); overlapping incremental work loses no file (`NothingVanishes`); a full reindexing on its own leaves exactly the corpus or nothing at all (`AllOrNothing`) |
| `Services`, rate limit | 4 requests of 2 owners in 2 minutes with a limit of 2 | the limit of a minute, and nobody turned away for others (`LimitKept`) |
| `Services`, alerts | 3 causes, fetched 2 at a time, 1 alert that cannot be delivered, 1 fault, the drain running | a blocked input or a handoff is announced (`Announced`), and sent again only for a reason (`SentForAReason`) |
| `Services`, export | 4 messages on pages of 2 | what an export leaves out, and in which order it comes (`ExportComplete`) |
| `Services`, broadcast | 3 chats of 4 owner ids, two of them the same number, or 3 targets | every recipient accounted for, no owner id reached twice (`BroadcastAccounts`) |
| `Services`, lifespan | RAG on and off with 2 eXpress commands | no command works with what is released (`CommandsHaveTheirAgent`), only failures leave anything open (`OnlyFailuresLeak`) |
| `Services`, completions | 3 calls over 2 payloads, 1 slot, 3 attempts, 1 expiry | `AnswerIsForTheRequest`, `SlotsAccounted` |
| `Services`, streaming | answers of 4 pieces | `AnswerShown` |
| `Services`, graph | 6 iterations of 2 calls | `CallsAnswered` |
| `Services`, RAG | 3 chunks, 2 of them used, 2 queries | `AnswersGrounded` |
| `Services`, prompts, context | 3 prompts over 4 buckets; 4 messages against every budget | `SharesKept`, `EndKept` |
| `Services`, contract | 6 calls of the repositories | `ContractKept` |

A lost line of a file (3.3) is excluded from the properties of `Chat` by
`NoLineLost`: with it none of them can hold, and everything else still does.

The bounds: four requests on a thread are enough for chat, interrupt, approval and
a repeated approval, and for an interrupt, another chat over it with an interrupt
of its own, and decisions about both. `MAX_ITERATIONS` is 2 in the code, as in
`AgentSerial`: the limit is reached with and without a tool before it.
`AgentOverlap` raises it to 3, so that one run can reach an interrupt, a decision
and a second interrupt, which is what `OneActionPerDecision` is about; its
overlaps need two actors. The endpoints only ever use the role
`write-with-approve`; `full` is what `confirm_and_execute` (line 122) accepts from
any other caller of the graph, and is modelled for that reason. A thread's
invocations touch nothing of another thread, so one thread is enough. Two messages with a window of two put
every interleaving of questions and answers at, below and above the limit; two
clears put a second marker after new messages. Five updates in two
seconds allow two interrupted questions of one second or of two with a decision and a
stale keyboard, or a scenario, its cancellation and another. (TLC reaches a state in
which one thread has been resumed twice.) Two tasks beside the start's are a full
reindexing and an upload in every interleaving; two versions and two days give
changed, unchanged and only re-dated files. Three jobs with a fetch of two make the
queue longer than a fetch with one alert that always fails in front. One slot of the
semaphore makes every leak of it visible at once, and three calls let two share an
entry while a third lets it expire. Four buckets stand for the hundred of the code
(`traffic_pct` is counted in them); holes, exact sums and sums beyond the whole all
occur.
Requests, keys, files, tasks and updates are symmetric (no specification tells them apart), and
symmetry is not used where a liveness property is checked.

Fairness: `WF_vars(Step(r))` in `AgentService` and `ChatService`. The event loop runs
every coroutine that is ready, and the calls it waits for (model, tools, streams, the
database) have client timeouts and so return or raise. Requests, disconnects, clears,
faults, restarts and what the administrator does are not fair: they need never happen.
The drain is given no fairness: nothing starts it (3.3).

### 3.2 Runs that show a disagreement

| Run | Property | What happens |
|---|---|---|
| `AgentOverlapSentTwice` | `SentOnce` | two approvals of one interrupt overlap; both load the checkpoint at `confirm_and_execute` and both call the tool (`agent_persistent.py:137`) |
| `DirectoryRace` | `Idempotent` | two overlapping first requests create two chats, which `routes.py:77` rules out |
| `BotApprovalLost` | `ApprovalReachesUser` | `MessageResponse` (`routers/api.py`) drops `need_approval` and `thread_id`: the bot shows an interrupted question as an ordinary answer |
| `IngestionSkips` | `SkippedIsIndexed` | an upload of a changed file removes the old vectors and fails while embedding: neither version has vectors, and the docstore still knows the old hash. The file is put aside; when its old content is uploaded again on the same day it is skipped as unchanged (`ingestion.py:5`, `:114`) and cannot be found |
| `IngestionFull` | `FullIsRebuilt` | `reindex_all` deletes the collection (`ingestion.py:214`) and adds to it through the vector store made at the start (`:129`, `:154`), which believes the collection is there and does not create it: the reindexing fails and leaves nothing, where `documents.py:63` and `ingestion.py:208` promise everything anew |

The two of `Ingestion` are about the service as it is written; at this commit the
lifespan never makes one (`rag_enabled`, 3.3).

### 3.3 Other observations made while modelling

* `/api/resume` (`routers/api.py:54`) awaits the synchronous `get_state` and
  passes an argument the function does not take, so every resume from a bot fails
  after `on_approval` has removed the thread. In `TelegramBot` this is the failing
  outcome of `Resumed`; no property promises that a decision arrives.
* Threads are named by whole seconds (`agent_persistent.py:260`): two questions of one
  second share a thread, and the decision about the second one goes to a thread that
  may have been resumed already. `ResumedOnce` is about answers for that reason.
* `/agent/stream` puts the client's `input` over its own defaults (`agent.py:122-128`):
  a client may start with another `iteration_count` or `pending_tool_call` than 0 and
  `None`. `StartChat` starts with the defaults, as every client in the repository does.
* Buttons carry no thread: a tap under an old message decides about the newest
  pending thread (`OnApproval(u, k)` takes whatever is pending). Nothing in the
  repository says what it should do.
* `on_question_received` clears the state of `/ask` when the backend has
  answered. A user who starts another `/ask` in the meantime loses it, which is why
  `ScenarioKept` is about users who wait.
* A question is stored before the history is loaded and the stream opened
  (`service.py:213-224`); when either fails it stays without an answer. A request that
  has loaded its history when the chat is cleared (`:217`) still sends the cleared text
  to the model (`:224`): `ClearedStaysCleared` is about what is listed and loaded.
* A client that disconnects loses the part of the answer he has read;
  `AnswersKept` excludes him.
* The table orders messages by the time of construction, so a message can appear
  before ones a client has already listed; `HistoryGrows` is stated for files only.
* `ChatService.get_or_create_chat` ignores its `system_prompt`, although its
  docstring says that it applies when a chat is created.
* A stop between a tool's effect and its checkpoint (`agent_persistent.py:137`, then
  `:151`) sends the mail again when the approval is repeated, in spite of a durable
  checkpointer; `SentOnce` is checked without crashes.
* A resume names only the thread: when a later stream of it was cut after
  `prepare_dangerous_action`, an approval meant for the older preview runs a call
  nobody was shown. `ActionWasShown` is checked for clients that wait.
* A write that fails half-way leaves a line without its newline; the next line, an
  answer announced as saved or the marker of a clear, runs together with it and is
  skipped when the file is read (`json_repo.py:97`, `:130`). Cut inside a character of
  several bytes it is not skipped: reading the file raises `UnicodeDecodeError`
  (`:107`), and so does every later request of the chat (`TornLine` leaves this out).
* `rag_enabled` is not a field of the settings, which ignore what they do not know:
  `RAG_ENABLED` in the environment (`main.py:90`, `.env.example:156`) has no effect.
  The services are modelled as they run when the field is there, which is also how
  `scripts/verify_rag.py` runs them.
* After a stop between deleting the collection and removing the docstore's file
  (`ingestion.py:214`, `:216`) the next start indexes the corpus, but on the same day
  every hash is known and every file skipped. The collection is then empty, and
  `RAGService.build` indexes the corpus itself, without metadata (`rag.py:176-182`); the
  default `rag_restrict_to_internal=False` finds such nodes. On another day the hashes
  differ, because the day is one of the metadata, and nothing is skipped.
* A stop between opening and writing the docstore's file leaves one that cannot be
  read, and every later start runs without ingestion and RAG (`StartWithoutService`)
  until it is removed by hand.
* An upload that fails puts its file aside by name: when a newer upload of the same
  name came in between, it is the newer one that is put aside. A slower, older run
  can likewise overwrite the vectors of a newer one; `NothingVanishes` promises a
  version, not the last one. A build of RAGService over an empty collection indexes
  the files put aside as well, without the metadata its own filter asks for.
* The export goes by the time of construction: it skips messages committed behind
  the cursor and those that share the time of a page's last message (`ExportComplete`
  says exactly which); a client that follows `next_after = null` starts anew.
* `alerter.py:3-5` promises at-least-once delivery, but `drain_alerts` is commented out
  (`bot/__main__.py:102`), so at this commit no alert is ever sent. Started as it is, it
  would log an `AttributeError` every ten seconds: the bot's `BackendClient` has no
  `fetch_pending_alerts` and no `ack_alert`. With those, as many undeliverable alerts as
  one fetch takes (50) would keep newer ones from being fetched. That an alert is
  delivered at last is therefore no property here; `SentForAReason` says what the drain
  does as it is written (`DrainRuns` TRUE).
* A broadcast to an interface asks for distinct owner ids, which are texts: `42` and
  `042` are two owners and one number, and that chat gets the message twice
  (`BroadcastAccounts` says no more than this can happen).
* `handoff.py:4` says the assistant does not answer in a paused chat, but
  `send_message` never looks at the status; `:7` speaks of the first chat of an
  owner, but the statement updates all of them.
* The limit is one of the clock's minutes: twice as many requests pass around the
  end of one.
* After three failures `LLMService.complete` raises tenacity's `RetryError`, never
  the `LLMRateLimitError` that `routers/chat.py:23` would turn into 429. The router
  is not mounted.
* When the agent's stack cannot be released (`main.py:192`, the only release without
  a `try`) nothing after it is released either; `OnlyFailuresLeak` is about stops
  that come to their end.
* `providers.py:30` says the session factory is None without Postgres, but creating
  an engine connects to nothing, so it never is; `/ready` on the other hand fails
  without Redis, which the rest of the application does without.
* `stream_to_chat` is used by no handler, `fit_to_budget` and `build_custom_graph`
  only by tests and scripts. When Telegram refuses the last edit, the end of an
  answer is missing and nothing says so (`refused` in `Streaming`).
* `express_bot`: nothing stores a pending thread, so `/approve` finds none; get,
  resume and delete there would be three steps.

## 4. What is proved

The proof modules hold for every value of the constants that satisfies the named
assumptions of the modules they are about (`GraphConstants`, `ServiceConstants`,
`BotConstants`, `LLMConstants`, `AlertConstants` and so on; `NoCallIsNoCall`,
`NoMessageIsNone`, `NoPromptIsNone` and `IngestionMarkers` say that values such as `None` are none of the others): any number
of requests, threads, files, tasks, alerts, chats, turns, crashes and restarts. They
say no more than the code allows: there is an owner (`ChatOwners # {}`), a database
has finitely many messages (`IsFiniteSet(Messages)`), sizes and limits are numbers.
All safety properties of the passing runs are proved.

Every proof has the same shape. The properties are seldom inductive, so an inductive
invariant stands at the end of the module it is about, as a conjunction of named parts
(`IngestionInv`, `AlertInv`, `LifeInv` ...), which TLC has checked on the instance of
that module's run before it was proved; one lemma or step per action shows that the
invariant is kept, and the theorem follows from it.

**AgentServiceProofs.** `IInv`, the conjunction of `TypeOK`, `GraphInv`,
`DecisionSpent`, `OneActionPerDecision` and `ActionNeedsApproval`, is inductive.
`GraphInv` is needed because a confirmation is about `pending_tool_call`, which
an earlier run may have left behind: only because every state at
`confirm_and_execute` holds the first dangerous call of the last message
(`StateInv`) is what runs a dangerous call at all. `DecisionSpent` is what makes
`OneActionPerDecision` inductive: after its action a request is no longer fresh,
so its decision is gone. The lemmas are one per action, over lemmas about the nodes
as functions (`StateInv` is kept by each), and `FirstDangerousCall` rests on the
existence of a least dangerous position. `TypeCorrect`, `GraphSafety`,
`ApprovalSafety` and `DecisionUsedOnce` follow.

What the run `AgentSerial` asks is proved under `Serial`: clients wait for an answer,
nothing disconnects and nothing restarts, the setting of that run (without it the
properties are false, as `AgentOverlapSentTwice` and 3.3 show). `SerialInv` then says
that the only request under way sees the thread's checkpoint, that what the checkpoint
waits for has been shown and is what the user sees, and that no call of a checkpoint
to come has been decided on yet. `ApprovalIsMeant`, `ActionIsShown` and `ActionSentOnce`
follow, and `ApprovalRefined`: every step of `AgentService` is a step of
`ApprovalProtocol` or leaves its variables as they are, action by action, with the
calls shown, carried out and cancelled as the mapping.

**TelegramBotProofs.** `BotInv` adds `InterruptedAnswered` to `TypeOK`,
`ResumedOnce` and `QuestionHasTopic`: only a question that was answered can be
among the interrupted ones, so an answer whose thread is stored as pending was neither
pending nor decided before, even when its thread was. `OneUnderWay` says of a user who waits that
one update of his is handled at a time and that a question on its way belongs to the
scenario that is open. `BotTypeCorrect`, `ResumeUsedOnce`, `TopicIsChosen` and the action
property `ScenarioStays` follow.

**LLMServiceProofs.** `LLMInv` has a part for the calls (`CallsSound`), for the cache
(`CacheSound`) and for the slots. `AnswerIsForTheRequest` is not inductive: it needs
that an entry of the cache is an answer to its own key, given to a call that was
cacheable and has begun, since only calls that have not can still change what they
ask for. `SlotsAccounted` needs that only items of batches wait for a slot. The two
common lemmas, `OneCallChanges` and `SlotsFollowCalls`, say what a step of one call
may do; each action is shown to be such a step. `AnswersAreTheirOwn` and
`SlotsNeverLost` follow.

**ChatServiceProofs.** `ChatInv` says what a request knows of its two messages at each
of its steps (`Regular`), that messages have different times, that only a request that
is beyond saving a message has it listed (`Accounted`), so that it is stored once and by
nobody else (`LinesOnce`), and that what a request has stored is listed or was cleared.
Every step either leaves what is listed as it is or is one message stored or one clear;
lemmas about `ChatStore` say what an append does to the lines after the last marker, torn
lines included. `AnswersStay`, `AnswersFollow`, `QuestionIsSent`, `ClearIsFinal` and the
action property `HistoryOnlyGrows` follow, for any number of requests, tokens, clears and
failures. `QuestionIsSent`, an action property too, is about the step that loads the
history. It needs that the history holds as many messages as were asked for when more are
listed, for a window of any size (`AsManyAsAsked`: every listed message is followed by
another number of messages, so as many as the limit are followed by fewer than the limit),
and that a listed message left out comes before every one taken (`OutsidersPrecede`). `ContractInv` says that the file
ends with one line for each message that is visible, the first of them after a marker, and
that the rows that are not deleted are those messages; `ContractIsKept` follows, for every
number of calls and every limit.

**ChatDirectoryProofs.** `DirectoryInv` says what a request knows of the stored chats at
each of its steps: a chat it found is stored under its key and was the oldest; while it
creates one, and no other request for the key ran beside it, there is none. Times are
pairwise different (`TimesDiffer`), so the oldest chat is one chat. `ChatIsOwn` and
`SameChatAlone` follow; `OldestChatStays` is the action property, from the same
invariant and its successor.

**IngestionProofs.** What an action does to the task that takes it is a lemma of its own,
on which the invariants rest. `Served`: work exists only where there is a service.
`CollectionHolds`: a collection that is missing holds nothing (`MissingIsEmpty`).
`InStep`: while one task runs at a time, none was lost and nothing failed from outside,
collection and docstore agree at every step but between deleting and forgetting, and
between the first removal of vectors and the recording of the new hashes, where it says
by what they differ; a stop at rest keeps this through the saved file. A reindexing that
fails because its collection is gone keeps it too: both sides are empty.
`CollectionMirrors` and, as an action property, `SkippedAreIndexed` follow. `KeepsFiles`
lets tasks overlap: a hash is only known of a file that has vectors or stands in the
batch that removed them (`Covered`), and a file of the corpus is covered or somebody's to
index (`Expected`); `FilesStayFound` follows. `HealsAlone` follows a run that has
everything to itself, from any state of the stores before: `FreshRun` for an indexing
from nothing, the lifespan's included, `FullRun` for what is particular to a full
reindexing, `NothingLeft` for one that its vector store refused; `ReindexingHeals`
follows.

**OperationsProofs.** `AlertInv`: an alert is on its way from the moment its cause is
committed, and what was sent is accounted for by its acknowledgement, a failure, or by
being the one in hand. `OperatorHears` and `DrainSendsForAReason` follow. The batch is a
set of alerts taken in the order of their ids, and lemmas about least elements of finite
sets say what the next one is. `ExportInv` relates the cursor to what was exported:
everything listed at or before it is in the export, shares its time with something that
is, or was committed late; `ExportIsComplete` follows for pages of any size.
`BroadcastInv` gives `BroadcastIsAccounted`, whatever numbers the owner ids are.
`RateInv` ties the counter of a minute to the requests: as many of an
owner and minute are admitted as were counted, up to `Limit`, and a request that was
turned away was counted after them. `LimitIsKept` follows for any number of requests,
owners and minutes (`LimitKept`). The cardinalities are handled by the library's
facts about finite sets.

**ServicesProofs.** `LifeInv` follows what is open through the start and the `finally`
block: until the bot is shut down everything in `app.state` is open, a command holds the
bot, and what is open after its turn to be released failed (`CommandsSupplied`,
`StopReleasesAll`). `StreamInv`, `CustomGraphInv` and `RagInv` do the same for an answer
being drawn (`WholeAnswerShown`, for answers of any length), the calls of a tool-calling
run (`EveryCallAnswered`) and the nodes an answer is made from (`AnswersAreGrounded`).

`EndOfHistoryKept` rests on the least position from which the rest fits, which exists
because the system messages alone do. For `SharesAlwaysKept` the buckets are cut into
intervals, one for each candidate, from the sum of the newer ones to its own cumulative
share: a candidate is chosen on its interval (`WithinIsChosen`) and, unless it is the
newest, nowhere else (`ChosenIsWithin`).

Model-checked only: liveness under fairness and `ENABLED`, which are out of the prover's
reach (`InvocationsEnd`, `RequestsEnd`).

## 5. What is not modelled, and the plan

Left out of the modules above: feedback and media parts in `send_message`; the text
of messages; that siblings of a confirmed call stay without a `ToolMessage`; start-up
of the bot and its typing indicator; the administrator's statistics, which only read; parsing and
chunking of files; the streaming variant of the completions; the bare-metal variant of
RAG; middleware. Not modelled at all, with the reasons in `components` of
`PROJECT.json`: the eXpress bot's own handlers (no pending thread is ever stored),
evaluation metrics, tracing and masking, single calls to outside services,
routers that are not mounted, configuration, schemas, migrations.

What is left to do, in order of importance:

1. Handoff composed with `ChatService`, once the service looks at the status.
