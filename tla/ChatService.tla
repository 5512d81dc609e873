----------------------------- MODULE ChatService ------------------------------
(***************************************************************************)
(* Messages to one chat: post_message and delete_messages                  *)
(* (src/app/chat/routes.py) and ChatService.send_message                   *)
(* (src/app/chat/service.py) over either repository of ChatStore.          *)
(*                                                                         *)
(* A request is cut at its awaits.  A message takes its time of creation   *)
(* when it is constructed, before the repository is awaited, so requests   *)
(* that overlap may store their messages in another order.  A text is      *)
(* abstracted to the number of tokens the model streamed for it.           *)
(***************************************************************************)
EXTENDS ChatStore

CONSTANTS
  Requests,        \* POST /chats/{id}/messages, each of one user message
  Backends,        \* of "json" and "postgres" (chat_repository)
  context_window,  \* messages of history sent to the model
  MaxTokens,       \* bound on the tokens of one answer
  MaxClears,       \* bound on DELETE /chats/{id}/messages
  MaxFaults,       \* bound on failing writes of the repository
  NoMessage

ASSUME ChatConstants ==
  /\ Backends \subseteq {"json", "postgres"}
  /\ context_window \in Nat \ {0}
  /\ MaxTokens \in Nat /\ MaxClears \in Nat /\ MaxFaults \in Nat

VARIABLES
  backend,  \* the repository this deployment uses; never changes
  store,    \* the chat's messages.jsonl, or its rows of chat_messages
  clock,    \* the time of the last message constructed
  req,
  cleared,  \* history: the messages that were listed when they were cleared
  clears, faults

vars == <<backend, store, clock, req, cleared, clears, faults>>

Message ==
  [at : Nat \ {0}, role : {"user", "assistant"},
   by : Requests, tokens : 0 .. MaxTokens]

ASSUME NoMessageIsNone == NoMessage \notin Message

Request ==
  [phase : {"new", "blocked", "asking", "asked", "opening", "streaming",
            "saving", "announcing", "done", "failed", "unsaved", "gone"},
   question : Message \cup {NoMessage},
   context : SUBSET Message,          \* what the model is sent, in order
   buffer : 0 .. MaxTokens,           \* tokens streamed to the client
   broken : BOOLEAN,                  \* the stream ended with an exception
   answer : Message \cup {NoMessage},
   announced : BOOLEAN]               \* message_saved was sent

Kept(m) ==
  IF backend = "json" THEN JsonAppendMessage(store, m)
  ELSE PgAppendMessage(store, m)

(* Every message GET /chats/{id}/messages can return, and their order.      *)
Listed == IF backend = "json" THEN JsonListed(store) ELSE PgListed(store)

Precedes(m, n) ==
  IF backend = "json" THEN JsonPrecedes(store, m, n) ELSE PgPrecedes(m, n)

List(limit) ==
  IF backend = "json" THEN JsonList(store, limit) ELSE PgList(store, limit)

Row == [message : Message, deleted : BOOLEAN]

StoreOK ==
  IF backend = "json" THEN store \in Seq(Line(Message))
  ELSE store \subseteq Row /\ IsFiniteSet(store)

TypeOK ==
  /\ backend \in Backends /\ StoreOK
  /\ clock \in Nat
  /\ req \in [Requests -> Request]
  /\ cleared \subseteq Message
  /\ clears \in 0 .. MaxClears /\ faults \in 0 .. MaxFaults

Init ==
  /\ backend \in Backends
  /\ store = IF backend = "json" THEN << >> ELSE {}
  /\ clock = 0
  /\ req = [r \in Requests |->
              [phase |-> "new", question |-> NoMessage, context |-> {},
               buffer |-> 0, broken |-> FALSE, answer |-> NoMessage,
               announced |-> FALSE]]
  /\ cleared = {} /\ clears = 0 /\ faults = 0

ChatMessage(r, role) ==
  [at |-> clock + 1, role |-> role, by |-> r, tokens |-> req[r].buffer]

(* Nothing is stored: moderation refuses the input before the stream starts *)
(* (403); or send_message raises first: an attachment cannot be converted,  *)
(* the chat is not found, or the prompts cannot be read.                    *)
Block(r) ==
  /\ req[r].phase = "new"
  /\ req' = [req EXCEPT ![r].phase = "blocked"]
  /\ UNCHANGED <<backend, store, clock, cleared, clears, faults>>

(* None of this fails, and the user's message is constructed.               *)
Accept(r) ==
  /\ req[r].phase = "new"
  /\ clock' = clock + 1
  /\ req' = [req EXCEPT ![r].phase = "asking",
                        ![r].question = ChatMessage(r, "user")]
  /\ UNCHANGED <<backend, store, cleared, clears, faults>>

SaveQuestion(r) ==
  /\ req[r].phase = "asking"
  /\ store' = Kept(req[r].question)
  /\ req' = [req EXCEPT ![r].phase = "asked"]
  /\ UNCHANGED <<backend, clock, cleared, clears, faults>>

(* Faulty variant: the history is read before the question is saved.        *)
LoadHistoryBeforeSaving(r) ==
  /\ req[r].phase = "asked"
  /\ req' = [req EXCEPT ![r].phase = "opening",
                        ![r].context = List(context_window) \ {req[r].question}]
  /\ UNCHANGED <<backend, store, clock, cleared, clears, faults>>

(* The newest messages of the chat are what the model is sent.              *)
LoadHistory(r) ==
  /\ req[r].phase = "asked"
  /\ req' = [req EXCEPT ![r].phase = "opening",
                        ![r].context = List(context_window)]
  /\ UNCHANGED <<backend, store, clock, cleared, clears, faults>>

(* The repository raises: the question is stored and is not answered.       *)
HistoryFails(r) ==
  /\ req[r].phase = "asked"
  /\ req' = [req EXCEPT ![r].phase = "failed"]
  /\ UNCHANGED <<backend, store, clock, cleared, clears, faults>>

(* chat.completions.create is awaited outside the try block.                *)
OpenStream(r) ==
  /\ req[r].phase = "opening"
  /\ \E phase \in {"streaming", "failed"} :
       req' = [req EXCEPT ![r].phase = phase]
  /\ UNCHANGED <<backend, store, clock, cleared, clears, faults>>

StreamToken(r) ==
  /\ req[r].phase = "streaming"
  /\ req[r].buffer < MaxTokens
  /\ req' = [req EXCEPT ![r].buffer = @ + 1]
  /\ UNCHANGED <<backend, store, clock, cleared, clears, faults>>

(* Faulty variants: what a broken stream delivered is dropped; a broken     *)
(* stream is opened again without a limit.                                  *)
StreamStopsDropping(r, broken) ==
  /\ req[r].phase = "streaming"
  /\ IF req[r].buffer = 0 \/ broken
     THEN /\ req' = [req EXCEPT ![r].phase = IF broken THEN "failed" ELSE "done"]
          /\ clock' = clock
     ELSE /\ req' = [req EXCEPT ![r].phase = "saving", ![r].broken = broken,
                                ![r].answer = ChatMessage(r, "assistant")]
          /\ clock' = clock + 1
  /\ UNCHANGED <<backend, store, cleared, clears, faults>>

StreamStopsRetrying(r, broken) ==
  /\ req[r].phase = "streaming"
  /\ IF req[r].buffer = 0 \/ broken
     THEN /\ req' = [req EXCEPT ![r].phase = IF broken THEN "opening" ELSE "done"]
          /\ clock' = clock
     ELSE /\ req' = [req EXCEPT ![r].phase = "saving", ![r].broken = broken,
                                ![r].answer = ChatMessage(r, "assistant")]
          /\ clock' = clock + 1
  /\ UNCHANGED <<backend, store, cleared, clears, faults>>

(* The stream ends, or breaks; what was streamed becomes the answer, and an *)
(* empty answer is not saved.                                               *)
StreamStops(r, broken) ==
  /\ req[r].phase = "streaming"
  /\ IF req[r].buffer = 0
     THEN /\ req' = [req EXCEPT ![r].phase = IF broken THEN "failed" ELSE "done"]
          /\ clock' = clock
     ELSE /\ req' = [req EXCEPT ![r].phase = "saving", ![r].broken = broken,
                                ![r].answer = ChatMessage(r, "assistant")]
          /\ clock' = clock + 1
  /\ UNCHANGED <<backend, store, cleared, clears, faults>>

SaveAnswer(r) ==
  /\ req[r].phase = "saving"
  /\ store' = Kept(req[r].answer)
  /\ req' = [req EXCEPT ![r].phase = "announcing"]
  /\ UNCHANGED <<backend, clock, cleared, clears, faults>>

(* message_saved, then done; after a broken stream its exception goes on.   *)
Announce(r) ==
  /\ req[r].phase = "announcing"
  /\ req' = [req EXCEPT ![r].announced = TRUE,
                        ![r].phase = IF req[r].broken THEN "failed" ELSE "done"]
  /\ UNCHANGED <<backend, store, clock, cleared, clears, faults>>

(* The repository raises; of a line in a file a part may have been written. *)
StoreFails(r) ==
  /\ req[r].phase \in {"asking", "saving"}
  /\ faults < MaxFaults
  /\ faults' = faults + 1
  /\ \/ store' = store
     \/ backend = "json" /\ store' = JsonTear(store)
  /\ req' = [req EXCEPT ![r].phase = "unsaved"]
  /\ UNCHANGED <<backend, clock, cleared, clears>>

(* The client goes away: the generator is cancelled at its await.  No       *)
(* handler catches that; a write that was under way may still happen.       *)
Disconnect(r) ==
  /\ req[r].phase \in {"asking", "asked", "opening", "streaming", "saving",
                       "announcing"}
  /\ req' = [req EXCEPT ![r].phase = "gone"]
  /\ \/ store' = store
     \/ req[r].phase = "asking" /\ store' = Kept(req[r].question)
     \/ req[r].phase = "saving" /\ store' = Kept(req[r].answer)
  /\ UNCHANGED <<backend, clock, cleared, clears, faults>>

ClearHistory ==
  /\ clears < MaxClears
  /\ clears' = clears + 1
  /\ store' = IF backend = "json" THEN JsonSoftDelete(store) ELSE PgSoftDelete(store)
  /\ cleared' = cleared \cup Listed
  /\ UNCHANGED <<backend, clock, req, faults>>

Step(r) ==
  \/ SaveQuestion(r) \/ LoadHistory(r) \/ HistoryFails(r)
  \/ OpenStream(r) \/ StreamToken(r)
  \/ \E broken \in BOOLEAN : StreamStops(r, broken)
  \/ SaveAnswer(r) \/ Announce(r)

Next ==
  \/ \E r \in Requests :
       Block(r) \/ Accept(r) \/ Step(r) \/ StoreFails(r) \/ Disconnect(r)
  \/ ClearHistory

Spec == Init /\ [][Next]_vars

(* The event loop runs every coroutine that is ready; the provider's stream *)
(* goes on or stops (the client has a timeout).                             *)
FairSpec == Spec /\ \A r \in Requests : WF_vars(Step(r))

-------------------------------------------------------------------------------
Present(m) == m \in Listed \/ m \in cleared

(* A line of the file that was cut short swallows what is appended next, be *)
(* it a message, which is announced all the same, or the marker of a clear: *)
(* what is said of lists holds while no line was lost like that.            *)
NoLineLost == backend = "json" => ~ LineLost(store)

(* Nothing the user has read gets lost: a request that ends by itself after *)
(* it streamed tokens, whether the stream ended or broke, has announced one *)
(* answer, of exactly those tokens, that stays listed until it is cleared;  *)
(* and no announcement is for anything else.                                *)
AnswersKept ==
  NoLineLost => \A r \in Requests :
    req[r].announced \/ (req[r].phase \in {"done", "failed"} /\ req[r].buffer > 0)
      => /\ req[r].announced
         /\ Present(req[r].answer)
         /\ req[r].answer.tokens = req[r].buffer

(* An answer is listed after the question it answers, or that question was  *)
(* cleared.                                                                 *)
AnswerFollowsQuestion ==
  NoLineLost => \A m \in Listed :
    m.role = "assistant" =>
      LET question == req[m.by].question
      IN  \/ question \in cleared
          \/ question \in Listed /\ Precedes(question, m)

(* The history a request loads, to send it to the model, has the question   *)
(* it is asked, unless the user cleared that meanwhile or every message of  *)
(* a whole window came after it.                                            *)
QuestionInContext ==
  [][NoLineLost => \A r \in Requests :
       req[r].phase = "asked" /\ req'[r].phase = "opening" =>
         LET question == req[r].question
             context  == req'[r].context
         IN  \/ question \in context \cup cleared
             \/ /\ Cardinality(context) = context_window
                /\ \A m \in context : Precedes(question, m)]_vars

(* What was cleared is never listed again, and so is not in the history a   *)
(* request loads afterwards.  (A request that has loaded its history before *)
(* the clear still sends it to the model when it opens its stream.)         *)
ClearedStaysCleared == NoLineLost => cleared \cap Listed = {}

(* A file's history only grows at its end, until it is cleared: no message  *)
(* slips in between two a client has already read.  (Rows are listed by the *)
(* time their message was constructed, and may.)                            *)
HistoryGrows ==
  [][backend = "json" /\ clears' = clears =>
       /\ Listed \subseteq Listed'
       /\ \A m \in Listed', n \in Listed :
            Precedes(m, n)' => m \in Listed /\ Precedes(m, n)]_vars

(* Every request that was accepted ends.                                    *)
RequestsEnd ==
  \A r \in Requests :
    req[r].phase = "asking" ~>
      req[r].phase \in {"done", "failed", "unsaved", "gone"}

-------------------------------------------------------------------------------
(* The inductive invariant behind these.                                    *)

(* The messages that were constructed.                                      *)
Said ==
  ({req[r].question : r \in Requests} \cup {req[r].answer : r \in Requests})
    \ {NoMessage}

TimesDiffer ==
  /\ \A m \in Said : m.at <= clock
  /\ \A m, n \in Said : m.at = n.at => m = n

(* What a request knows of its messages at each of its steps.               *)
QuestionRegular(r) ==
  /\ req[r].phase \in {"new", "blocked"} <=> req[r].question = NoMessage
  /\ req[r].question # NoMessage =>
       req[r].question.by = r /\ req[r].question.role = "user"

AnswerRegular(r) ==
  /\ req[r].phase \in {"asking", "asked", "opening"} => req[r].buffer = 0
  /\ req[r].phase \in {"saving", "announcing"} => req[r].answer # NoMessage
  /\ req[r].phase \in {"new", "blocked", "asking", "asked", "opening", "streaming"} =>
       req[r].answer = NoMessage /\ ~ req[r].announced
  /\ req[r].phase \in {"done", "failed"} /\ req[r].buffer > 0 => req[r].announced
  /\ req[r].announced => req[r].answer # NoMessage
  /\ req[r].answer # NoMessage =>
       /\ req[r].answer.by = r /\ req[r].answer.role = "assistant"
       /\ req[r].answer.tokens = req[r].buffer
       /\ req[r].question.at < req[r].answer.at

Regular == \A r \in Requests : QuestionRegular(r) /\ AnswerRegular(r)

(* A message is listed, or was, only if its request is beyond saving it.    *)
Accounted ==
  \A m \in Listed \cup cleared :
    IF m.role = "user"
    THEN m = req[m.by].question /\ req[m.by].phase # "asking"
    ELSE m = req[m.by].answer /\ req[m.by].phase # "saving"

LinesOnce ==
  backend = "json" =>
    \A i, j \in MessageLines(store) : store[i].message = store[j].message => i = j

(* The requests whose question, and those whose answer, has been stored.    *)
QuestionDone(r) ==
  \/ req[r].phase \in {"asked", "opening", "streaming", "saving", "announcing",
                       "done", "failed"}
  \/ req[r].answer # NoMessage

AnswerDone(r) == req[r].phase = "announcing" \/ req[r].announced

QuestionSaved ==
  NoLineLost => \A r \in Requests : QuestionDone(r) => Present(req[r].question)

AnswerSaved ==
  NoLineLost => \A r \in Requests : AnswerDone(r) => Present(req[r].answer)

ChatInv ==
  /\ TypeOK /\ TimesDiffer /\ Regular /\ Accounted /\ LinesOnce
  /\ QuestionSaved /\ AnswerSaved
  /\ AnswerFollowsQuestion /\ ClearedStaysCleared
===============================================================================
