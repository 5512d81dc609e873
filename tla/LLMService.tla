------------------------------ MODULE LLMService ------------------------------
(***************************************************************************)
(* Completions: LLMService (src/app/services/llm.py) with its cache in     *)
(* Redis and its retries, and the batches of src/app/routers/chat.py,      *)
(* whose items share one semaphore of the process.  Each call is one item  *)
(* of a batch, or a request of its own.                                    *)
(***************************************************************************)
EXTENDS Naturals, FiniteSets

CONSTANTS
  Calls,
  Payloads,   \* what is sent to the provider: model, messages, parameters
  BatchSem,   \* items of batches that may be under way together
  MaxAttempts,
  MaxExpiries, \* bound: how often an entry of the cache expires
  NoPayload, NoAnswer

ASSUME LLMConstants ==
  /\ BatchSem \in Nat \ {0} /\ MaxAttempts \in Nat \ {0}
  /\ MaxExpiries \in Nat /\ IsFiniteSet(Calls)
  /\ NoAnswer \notin [payload : Payloads, to : Calls]

VARIABLES
  call,
  slots,   \* BATCH_SEM: how many more items may be under way
  cache,   \* key -> the answer stored in Redis, or NoAnswer
  expiries

llmVars == <<call, slots, cache, expiries>>

Phases == {"new", "queued", "looking", "asking", "storing", "answered", "failed"}
Settled == {"answered", "failed"}

(* An answer is known by the payload it is for and the call it was given to.*)
Answer == [payload : Payloads, to : Calls]

Call ==
  [phase : Phases,
   payload : Payloads \cup {NoPayload},
   cacheable : {"yes", "no"},   \* temperature 0, and Redis was there at the start
   batch : {"yes", "no"},
   failures : 0 .. MaxAttempts,
   answer : Answer \cup {NoAnswer}]

LLMTypeOK ==
  /\ call \in [Calls -> Call] /\ slots \in 0 .. BatchSem
  /\ cache \in [Payloads -> Answer \cup {NoAnswer}]
  /\ expiries \in 0 .. MaxExpiries

Received(phase, payload, cacheable, batch) ==
  [phase |-> phase, payload |-> payload, cacheable |-> cacheable,
   batch |-> batch, failures |-> 0, answer |-> NoAnswer]

LLMInit ==
  /\ call = [c \in Calls |-> Received("new", NoPayload, "no", "no")]
  /\ slots = BatchSem
  /\ cache = [k \in Payloads |-> NoAnswer]
  /\ expiries = 0

(* Faulty variant: a key that does not tell payloads apart.                 *)
AnyKey(c) == CHOOSE k \in Payloads : TRUE

(* The key leaves out who asks: equal payloads share an entry.              *)
Key(c) == call[c].payload

(* complete looks into the cache only for deterministic answers.            *)
FirstPhase(cacheable) == IF cacheable = "yes" THEN "looking" ELSE "asking"

-------------------------------------------------------------------------------
(* POST /chat.                                                              *)
ChatCompletions(c, p, cacheable) ==
  /\ call[c].phase = "new"
  /\ call' = [call EXCEPT ![c] = Received(FirstPhase(cacheable), p, cacheable, "no")]
  /\ UNCHANGED <<slots, cache, expiries>>

(* POST /chat/batch: every item waits for the semaphore.                    *)
ChatBatch(items, payload, cacheable) ==
  /\ items # {} /\ \A c \in items : call[c].phase = "new"
  /\ call' = [c \in Calls |->
       IF c \in items THEN Received("queued", payload[c], cacheable[c], "yes")
       ELSE call[c]]
  /\ UNCHANGED <<slots, cache, expiries>>

Acquire(c) ==
  /\ call[c].phase = "queued" /\ slots > 0
  /\ slots' = slots - 1
  /\ call' = [call EXCEPT ![c].phase = FirstPhase(call[c].cacheable)]
  /\ UNCHANGED <<cache, expiries>>

(* Faulty variant: an item that fails keeps its slot.                       *)
ReleaseIfAnswered(c, phase) ==
  slots' = IF call[c].batch = "yes" /\ phase = "answered" THEN slots + 1 ELSE slots

(* The semaphore is released whether the item was answered or failed.       *)
Release(c, phase) ==
  slots' = IF call[c].batch = "yes" /\ phase \in Settled THEN slots + 1 ELSE slots

(* Redis fails: so does the call, even when its answer is already there.    *)
CacheFails(c) ==
  /\ call[c].phase \in {"looking", "storing"}
  /\ call' = [call EXCEPT ![c].phase = "failed"]
  /\ Release(c, "failed")
  /\ UNCHANGED <<cache, expiries>>

CacheHit(c) ==
  /\ call[c].phase = "looking" /\ cache[Key(c)] # NoAnswer
  /\ call' = [call EXCEPT ![c].phase = "answered", ![c].answer = cache[Key(c)]]
  /\ Release(c, "answered")
  /\ UNCHANGED <<cache, expiries>>

CacheMiss(c) ==
  /\ call[c].phase = "looking" /\ cache[Key(c)] = NoAnswer
  /\ call' = [call EXCEPT ![c].phase = "asking"]
  /\ UNCHANGED <<slots, cache, expiries>>

(* The provider answers; only what may be cached is stored.                 *)
AfterAnswer(c) == IF call[c].cacheable = "yes" THEN "storing" ELSE "answered"

ProviderAnswers(c) ==
  /\ call[c].phase = "asking"
  /\ call' = [call EXCEPT ![c].phase = AfterAnswer(c),
                          ![c].answer = [payload |-> call[c].payload, to |-> c]]
  /\ Release(c, AfterAnswer(c))
  /\ UNCHANGED <<cache, expiries>>

(* Every error of the provider is tried again, three times in all.          *)
AfterFailure(c) == IF call[c].failures + 1 < MaxAttempts THEN "asking" ELSE "failed"

ProviderFails(c) ==
  /\ call[c].phase = "asking"
  /\ call' = [call EXCEPT ![c].phase = AfterFailure(c),
                          ![c].failures = call[c].failures + 1]
  /\ Release(c, AfterFailure(c))
  /\ UNCHANGED <<cache, expiries>>

StoreAnswer(c) ==
  /\ call[c].phase = "storing"
  /\ cache' = [cache EXCEPT ![Key(c)] = call[c].answer]
  /\ call' = [call EXCEPT ![c].phase = "answered"]
  /\ Release(c, "answered")
  /\ UNCHANGED expiries

Expire(k) ==
  /\ cache[k] # NoAnswer /\ expiries < MaxExpiries
  /\ cache' = [cache EXCEPT ![k] = NoAnswer]
  /\ expiries' = expiries + 1
  /\ UNCHANGED <<call, slots>>

Complete(c) ==
  \/ CacheFails(c) \/ CacheHit(c) \/ CacheMiss(c)
  \/ ProviderAnswers(c) \/ ProviderFails(c) \/ StoreAnswer(c)

LLMNext ==
  \/ \E c \in Calls :
       \/ \E p \in Payloads, b \in {"yes", "no"} : ChatCompletions(c, p, b)
       \/ Acquire(c) \/ Complete(c)
  \/ \E items \in SUBSET Calls :
       \E payload \in [items -> Payloads], cacheable \in [items -> {"yes", "no"}] :
         ChatBatch(items, payload, cacheable)
  \/ \E k \in Payloads : Expire(k)

LLMSpec == LLMInit /\ [][LLMNext]_llmVars

-------------------------------------------------------------------------------
(* Whatever calls overlap, batches fail in part and entries expire: an      *)
(* answer is one the provider gave to these very messages, and when it was  *)
(* given to another call, both calls were ones whose answers may be cached. *)
AnswerIsForTheRequest ==
  \A c \in Calls :
    call[c].answer # NoAnswer =>
      LET by == call[c].answer.to
      IN /\ call[c].answer.payload = call[c].payload
         /\ by # c => call[c].cacheable = "yes" /\ call[by].cacheable = "yes"

(* No slot of the semaphore is lost, and none is used twice.                *)
Working(c) == call[c].batch = "yes" /\ call[c].phase \in {"looking", "asking", "storing"}
SlotsAccounted == slots + Cardinality({c \in Calls : Working(c)}) = BatchSem
===============================================================================
