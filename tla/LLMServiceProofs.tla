--------------------------- MODULE LLMServiceProofs ---------------------------
(***************************************************************************)
(* What the completions keep for any number of calls, payloads, slots and  *)
(* attempts.  An answer is for the call that shows it because every entry  *)
(* of the cache is an answer to its own key, given to a call that was      *)
(* cacheable and still is: a call never changes what it asks for.          *)
(***************************************************************************)
EXTENDS LLMService, FiniteSetTheorems, TLAPS

(* A call whose answer may be in the cache.                                 *)
Caches(d) == call[d].phase # "new" /\ call[d].cacheable = "yes"

(* What is known of the record r of call c.                                 *)
Sound(c, r) ==
  /\ r.phase = "new" => r.answer = NoAnswer
  /\ r.phase # "new" => r.payload \in Payloads
  /\ r.phase \in {"looking", "storing"} => r.cacheable = "yes"
  /\ r.phase = "asking" => r.failures < MaxAttempts
  /\ r.phase \in {"queued", "looking"} => r.failures = 0
  /\ r.phase = "queued" => r.batch = "yes"
  /\ r.phase = "storing" => r.answer # NoAnswer /\ r.answer.to = c
  /\ r.answer # NoAnswer =>
       /\ r.answer.payload = r.payload
       /\ r.answer.to # c => r.cacheable = "yes" /\ Caches(r.answer.to)

CallsSound == \A c \in Calls : Sound(c, call[c])

CacheSound ==
  \A k \in Payloads :
    cache[k] # NoAnswer => cache[k].payload = k /\ Caches(cache[k].to)

UnderWay == {c \in Calls : Working(c)}
HoldsSlot(r) == r.batch = "yes" /\ r.phase \in {"looking", "asking", "storing"}

LLMInv == LLMTypeOK /\ CallsSound /\ CacheSound /\ SlotsAccounted

-------------------------------------------------------------------------------
LEMMA InitSound == LLMInit => LLMInv
<1> SUFFICES ASSUME LLMInit PROVE LLMInv
  OBVIOUS
<1>1. LLMTypeOK /\ CallsSound /\ CacheSound
  BY LLMConstants DEF LLMInit, LLMTypeOK, Received, Call, Phases, CallsSound,
     CacheSound, Sound
<1>2. {c \in Calls : Working(c)} = {}
  BY DEF LLMInit, Working, Received
<1>3. SlotsAccounted
  BY <1>2, LLMConstants, FS_EmptySet DEF LLMInit, SlotsAccounted
<1> QED BY <1>1, <1>3 DEF LLMInv

(* A step that gives call c the record r, sound itself, and leaves c as     *)
(* cacheable as it was keeps the calls sound.                               *)
LEMMA OneCallChanges ==
  ASSUME LLMInv, NEW c \in Calls, NEW r \in Call,
         call' = [call EXCEPT ![c] = r],
         r.phase # "new", call[c].phase # "new" => r.cacheable = call[c].cacheable,
         Sound(c, r)
  PROVE  /\ call' \in [Calls -> Call]
         /\ \A d \in Calls : Caches(d) => Caches(d)'
         /\ CallsSound'
<1>1. call' \in [Calls -> Call]
  BY DEF LLMInv, LLMTypeOK
<1>2. \A d \in Calls : Caches(d) => Caches(d)'
  <2>1. SUFFICES ASSUME NEW d \in Calls, Caches(d) PROVE Caches(d)'
    OBVIOUS
  <2>2. CASE d = c
    BY <2>1, <2>2 DEF Caches, LLMInv, LLMTypeOK
  <2>3. CASE d # c
    BY <2>1, <2>3 DEF Caches, LLMInv, LLMTypeOK
  <2> QED BY <2>2, <2>3
<1>3. CallsSound'
  <2>1. SUFFICES ASSUME NEW d \in Calls PROVE Sound(d, call[d])'
    BY DEF CallsSound
  <2>2. Sound(d, call'[d])
    <3>1. CASE d = c
      BY <3>1 DEF LLMInv, LLMTypeOK
    <3>2. CASE d # c
      BY <3>2 DEF LLMInv, LLMTypeOK, CallsSound
    <3> QED BY <3>1, <3>2
  <2>3. call'[d] \in Call
    BY <1>1
  <2>4. call'[d].answer # NoAnswer => call'[d].answer.to \in Calls
    BY <2>3 DEF Call, Answer
  <2> QED BY <2>2, <2>4, <1>2 DEF Sound
<1> QED BY <1>1, <1>2, <1>3

(* What was cacheable stays so: the cache, unchanged, stays sound.          *)
LEMMA CacheKept ==
  ASSUME LLMInv, UNCHANGED cache, \A d \in Calls : Caches(d) => Caches(d)'
  PROVE  CacheSound'
<1>1. SUFFICES ASSUME NEW k \in Payloads, cache[k] # NoAnswer
               PROVE  cache[k].payload = k /\ Caches(cache[k].to)'
  BY DEF CacheSound, Caches
<1>2. cache[k].to \in Calls
  BY <1>1 DEF LLMInv, LLMTypeOK, Answer
<1> QED BY <1>1, <1>2 DEF LLMInv, CacheSound

(* A slot is taken by a call that begins to work and given back by one that *)
(* ends; so the slots stay accounted for.                                   *)
LEMMA SlotsFollowCalls ==
  ASSUME LLMInv, NEW c \in Calls, NEW r \in Call,
         call' = [call EXCEPT ![c] = r],
         \/ /\ HoldsSlot(r) <=> Working(c)
            /\ slots' = slots
         \/ /\ HoldsSlot(r) /\ ~ Working(c)
            /\ slots > 0 /\ slots' = slots - 1
         \/ /\ ~ HoldsSlot(r) /\ Working(c)
            /\ slots' = slots + 1
  PROVE  slots' \in 0 .. BatchSem /\ SlotsAccounted'
<1> DEFINE Others == UnderWay \ {c}
<1>1. \A d \in Calls : Working(d)' <=> IF d = c THEN HoldsSlot(r) ELSE Working(d)
  BY DEF LLMInv, LLMTypeOK, Working, HoldsSlot
<1>2. UnderWay' = IF HoldsSlot(r) THEN Others \cup {c} ELSE Others
  BY <1>1 DEF UnderWay
<1>3. UnderWay = IF Working(c) THEN Others \cup {c} ELSE Others
  BY DEF UnderWay
<1>4. IsFiniteSet(Others) /\ c \notin Others
  BY LLMConstants, FS_Subset DEF UnderWay
<1> HIDE DEF Others
<1>5. /\ Cardinality(Others) \in Nat
      /\ Cardinality(Others \cup {c}) = Cardinality(Others) + 1
  BY <1>4, FS_AddElement, FS_CardinalityType
<1>6. slots \in Nat /\ slots + Cardinality(UnderWay) = BatchSem
  BY LLMConstants DEF LLMInv, LLMTypeOK, SlotsAccounted, UnderWay
<1>7. slots' \in Nat /\ slots' + Cardinality(UnderWay') = BatchSem
  BY <1>2, <1>3, <1>5, <1>6
<1>8. Cardinality(UnderWay') \in Nat
  BY <1>2, <1>5
<1> QED
  BY <1>7, <1>8, LLMConstants DEF SlotsAccounted, UnderWay

(* Both together: the invariant after a step of one call that leaves the    *)
(* cache alone.                                                             *)
LEMMA CallStep ==
  ASSUME LLMInv, NEW c \in Calls, NEW r \in Call,
         call' = [call EXCEPT ![c] = r], UNCHANGED <<cache, expiries>>,
         r.phase # "new", call[c].phase # "new" => r.cacheable = call[c].cacheable,
         Sound(c, r),
         \/ /\ HoldsSlot(r) <=> Working(c)
            /\ slots' = slots
         \/ /\ HoldsSlot(r) /\ ~ Working(c)
            /\ slots > 0 /\ slots' = slots - 1
         \/ /\ ~ HoldsSlot(r) /\ Working(c)
            /\ slots' = slots + 1
  PROVE  LLMInv'
<1>1. /\ call' \in [Calls -> Call]
      /\ \A d \in Calls : Caches(d) => Caches(d)'
      /\ CallsSound'
  BY OneCallChanges
<1>2. CacheSound'
  BY <1>1, CacheKept
<1>3. slots' \in 0 .. BatchSem /\ SlotsAccounted'
  BY SlotsFollowCalls
<1> QED
  BY <1>1, <1>2, <1>3 DEF LLMInv, LLMTypeOK

-------------------------------------------------------------------------------
LEMMA ChatCompletionsSound ==
  ASSUME LLMInv, NEW c \in Calls, NEW p \in Payloads, NEW b \in {"yes", "no"},
         ChatCompletions(c, p, b)
  PROVE  LLMInv'
<1> DEFINE r == Received(FirstPhase(b), p, b, "no")
<1>1. /\ FirstPhase(b) \in {"looking", "asking"}
      /\ FirstPhase(b) = "looking" => b = "yes"
  BY DEF FirstPhase
<1>2. /\ r \in Call /\ Sound(c, r) /\ r.phase # "new"
      /\ ~ HoldsSlot(r)
  BY <1>1, LLMConstants DEF Received, Call, Phases, Sound, HoldsSlot
<1>3. /\ call' = [call EXCEPT ![c] = r] /\ call[c].phase = "new"
      /\ UNCHANGED <<slots, cache, expiries>>
  BY DEF ChatCompletions
<1>4. ~ Working(c)
  BY <1>3 DEF Working
<1> HIDE DEF r
<1> QED BY <1>2, <1>3, <1>4, CallStep

LEMMA ChatBatchSound ==
  ASSUME LLMInv, NEW items \in SUBSET Calls,
         NEW payload \in [items -> Payloads],
         NEW cacheable \in [items -> {"yes", "no"}],
         ChatBatch(items, payload, cacheable)
  PROVE  LLMInv'
<1> DEFINE r(c) == Received("queued", payload[c], cacheable[c], "yes")
<1>1. \A c \in items : /\ r(c) \in Call /\ Sound(c, r(c))
                       /\ r(c).phase = "queued"
  BY LLMConstants DEF Received, Call, Phases, Sound
<1>2. /\ call' = [c \in Calls |-> IF c \in items THEN r(c) ELSE call[c]]
      /\ \A c \in items : call[c].phase = "new"
      /\ UNCHANGED <<slots, cache, expiries>>
  BY DEF ChatBatch
<1> HIDE DEF r
<1>3. call' \in [Calls -> Call]
  BY <1>1, <1>2 DEF LLMInv, LLMTypeOK
<1>4. \A d \in Calls : Caches(d) => Caches(d)'
  BY <1>2 DEF Caches
<1>5. CallsSound'
  <2>1. SUFFICES ASSUME NEW d \in Calls PROVE Sound(d, call[d])'
    BY DEF CallsSound
  <2>2. Sound(d, call'[d])
    BY <1>1, <1>2 DEF LLMInv, CallsSound
  <2>3. call'[d] \in Call
    BY <1>3
  <2>4. call'[d].answer # NoAnswer => call'[d].answer.to \in Calls
    BY <2>3 DEF Call, Answer
  <2> QED BY <2>2, <2>4, <1>4 DEF Sound
<1>6. CacheSound'
  BY <1>2, <1>4, CacheKept
<1>7. \A d \in Calls : Working(d)' <=> Working(d)
  BY <1>1, <1>2 DEF Working
<1>8. SlotsAccounted'
  <2>1. {d \in Calls : Working(d)}' = {d \in Calls : Working(d)}
    BY <1>7
  <2> QED BY <2>1, <1>2 DEF LLMInv, SlotsAccounted
<1> QED
  BY <1>2, <1>3, <1>5, <1>6, <1>8 DEF LLMInv, LLMTypeOK

LEMMA AcquireSound ==
  ASSUME LLMInv, NEW c \in Calls, Acquire(c)
  PROVE  LLMInv'
<1> DEFINE r == [call[c] EXCEPT !.phase = FirstPhase(call[c].cacheable)]
<1>1. call[c] \in Call /\ Sound(c, call[c]) /\ call[c].phase = "queued"
  BY DEF LLMInv, LLMTypeOK, CallsSound, Acquire
<1>2. /\ FirstPhase(call[c].cacheable) \in {"looking", "asking"}
      /\ FirstPhase(call[c].cacheable) = "looking" => call[c].cacheable = "yes"
  BY DEF FirstPhase
<1>3. /\ r \in Call /\ Sound(c, r) /\ r.phase # "new"
      /\ r.cacheable = call[c].cacheable
      /\ HoldsSlot(r)
  BY <1>1, <1>2, LLMConstants DEF Call, Phases, Sound, HoldsSlot
<1>4. call' = [call EXCEPT ![c] = r] /\ UNCHANGED <<cache, expiries>>
  BY DEF Acquire
<1>5. ~ Working(c)
  BY <1>1 DEF Working
<1>6. slots > 0 /\ slots' = slots - 1
  BY DEF Acquire
<1> HIDE DEF r
<1> QED BY <1>3, <1>4, <1>5, <1>6, CallStep

(* A slot is given back by a batch's item that ends.                        *)
LEMMA CacheFailsSound ==
  ASSUME LLMInv, NEW c \in Calls, CacheFails(c)
  PROVE  LLMInv'
<1> DEFINE r == [call[c] EXCEPT !.phase = "failed"]
<1>1. call[c] \in Call /\ Sound(c, call[c]) /\ call[c].phase \in {"looking", "storing"}
  BY DEF LLMInv, LLMTypeOK, CallsSound, CacheFails
<1>2. /\ r \in Call /\ Sound(c, r) /\ r.phase # "new"
      /\ r.cacheable = call[c].cacheable /\ ~ HoldsSlot(r)
  BY <1>1 DEF Call, Phases, Sound, HoldsSlot
<1>3. call' = [call EXCEPT ![c] = r] /\ UNCHANGED <<cache, expiries>>
  BY DEF CacheFails
<1>4. slots' = IF Working(c) THEN slots + 1 ELSE slots
  BY <1>1 DEF CacheFails, Release, Settled, Working
<1> HIDE DEF r
<1> QED BY <1>2, <1>3, <1>4, CallStep

LEMMA CacheHitSound ==
  ASSUME LLMInv, NEW c \in Calls, CacheHit(c)
  PROVE  LLMInv'
<1> DEFINE k == call[c].payload
           r == [call[c] EXCEPT !.phase = "answered", !.answer = cache[k]]
<1>1. call[c] \in Call /\ Sound(c, call[c]) /\ call[c].phase = "looking"
  BY DEF LLMInv, LLMTypeOK, CallsSound, CacheHit
<1>2. k \in Payloads /\ call[c].cacheable = "yes"
  BY <1>1 DEF Sound
<1>3. /\ cache[k] \in Answer /\ cache[k] # NoAnswer
      /\ cache[k].payload = k /\ Caches(cache[k].to)
  BY <1>2 DEF LLMInv, LLMTypeOK, CacheSound, CacheHit, Key
<1>4. /\ r.phase = "answered" /\ r.answer = cache[k] /\ r.payload = k
      /\ r.cacheable = "yes" /\ r \in Call
  BY <1>1, <1>2, <1>3 DEF Call, Phases
<1>5. Sound(c, r) /\ ~ HoldsSlot(r)
  BY <1>2, <1>3, <1>4 DEF Sound, HoldsSlot
<1>6. call' = [call EXCEPT ![c] = r] /\ UNCHANGED <<cache, expiries>>
  BY DEF CacheHit, Key
<1>7. slots' = IF Working(c) THEN slots + 1 ELSE slots
  BY <1>1 DEF CacheHit, Release, Settled, Working
<1> HIDE DEF r
<1> QED BY <1>2, <1>4, <1>5, <1>6, <1>7, CallStep

LEMMA CacheMissSound ==
  ASSUME LLMInv, NEW c \in Calls, CacheMiss(c)
  PROVE  LLMInv'
<1> DEFINE r == [call[c] EXCEPT !.phase = "asking"]
<1>1. call[c] \in Call /\ Sound(c, call[c]) /\ call[c].phase = "looking"
  BY DEF LLMInv, LLMTypeOK, CallsSound, CacheMiss
<1>2. /\ r \in Call /\ Sound(c, r) /\ r.phase # "new"
      /\ r.cacheable = call[c].cacheable /\ (HoldsSlot(r) <=> Working(c))
  BY <1>1, LLMConstants DEF Call, Phases, Sound, HoldsSlot, Working
<1>3. call' = [call EXCEPT ![c] = r] /\ UNCHANGED <<slots, cache, expiries>>
  BY DEF CacheMiss
<1> HIDE DEF r
<1> QED BY <1>2, <1>3, CallStep

LEMMA ProviderAnswersSound ==
  ASSUME LLMInv, NEW c \in Calls, ProviderAnswers(c)
  PROVE  LLMInv'
<1> DEFINE a == [payload |-> call[c].payload, to |-> c]
           r == [call[c] EXCEPT !.phase = AfterAnswer(c), !.answer = a]
<1>1. call[c] \in Call /\ Sound(c, call[c]) /\ call[c].phase = "asking"
  BY DEF LLMInv, LLMTypeOK, CallsSound, ProviderAnswers
<1>2. call[c].payload \in Payloads
  BY <1>1 DEF Sound
<1>3. a \in Answer /\ a # NoAnswer /\ a.payload = call[c].payload /\ a.to = c
  BY <1>2, LLMConstants DEF Answer
<1>4. /\ AfterAnswer(c) \in {"storing", "answered"}
      /\ AfterAnswer(c) = "storing" => call[c].cacheable = "yes"
  BY DEF AfterAnswer
<1> HIDE DEF a
<1>5. /\ r.phase = AfterAnswer(c) /\ r.answer = a /\ r.payload = call[c].payload
      /\ r.cacheable = call[c].cacheable /\ r.batch = call[c].batch
      /\ r \in Call
  BY <1>1, <1>3, <1>4 DEF Call, Phases
<1>6. call' = [call EXCEPT ![c] = r] /\ UNCHANGED <<cache, expiries>>
  BY DEF ProviderAnswers, a
<1> HIDE DEF r
<1>7. Sound(c, r) /\ r.phase # "new"
  BY <1>2, <1>3, <1>4, <1>5 DEF Sound
<1>8. CASE AfterAnswer(c) = "storing"
  <2>1. (HoldsSlot(r) <=> Working(c)) /\ slots' = slots
    BY <1>1, <1>5, <1>8 DEF HoldsSlot, Working, ProviderAnswers, Release, Settled
  <2> QED BY <2>1, <1>5, <1>6, <1>7, CallStep
<1>9. CASE AfterAnswer(c) = "answered"
  <2>1. ~ HoldsSlot(r) /\ slots' = IF Working(c) THEN slots + 1 ELSE slots
    BY <1>1, <1>5, <1>9 DEF HoldsSlot, Working, ProviderAnswers, Release, Settled
  <2> QED BY <2>1, <1>5, <1>6, <1>7, CallStep
<1> QED BY <1>4, <1>8, <1>9

LEMMA ProviderFailsSound ==
  ASSUME LLMInv, NEW c \in Calls, ProviderFails(c)
  PROVE  LLMInv'
<1> DEFINE n == call[c].failures + 1
           r == [call[c] EXCEPT !.phase = AfterFailure(c), !.failures = n]
<1>1. call[c] \in Call /\ Sound(c, call[c]) /\ call[c].phase = "asking"
  BY DEF LLMInv, LLMTypeOK, CallsSound, ProviderFails
<1>2. n \in 0 .. MaxAttempts
  BY <1>1, LLMConstants DEF Sound, Call
<1>3. /\ AfterFailure(c) \in {"asking", "failed"}
      /\ AfterFailure(c) = "asking" => n < MaxAttempts
  BY DEF AfterFailure
<1> HIDE DEF n
<1>4. /\ r.phase = AfterFailure(c) /\ r.failures = n /\ r.payload = call[c].payload
      /\ r.cacheable = call[c].cacheable /\ r.batch = call[c].batch
      /\ r.answer = call[c].answer /\ r \in Call
  BY <1>1, <1>2, <1>3 DEF Call, Phases
<1>5. call' = [call EXCEPT ![c] = r] /\ UNCHANGED <<cache, expiries>>
  BY DEF ProviderFails, n
<1> HIDE DEF r
<1>6. Sound(c, r) /\ r.phase # "new"
  BY <1>1, <1>3, <1>4 DEF Sound
<1>7. CASE AfterFailure(c) = "asking"
  <2>1. (HoldsSlot(r) <=> Working(c)) /\ slots' = slots
    BY <1>1, <1>4, <1>7 DEF HoldsSlot, Working, ProviderFails, Release, Settled
  <2> QED BY <2>1, <1>4, <1>5, <1>6, CallStep
<1>8. CASE AfterFailure(c) = "failed"
  <2>1. ~ HoldsSlot(r) /\ slots' = IF Working(c) THEN slots + 1 ELSE slots
    BY <1>1, <1>4, <1>8 DEF HoldsSlot, Working, ProviderFails, Release, Settled
  <2> QED BY <2>1, <1>4, <1>5, <1>6, CallStep
<1> QED BY <1>3, <1>7, <1>8

(* The entry that is stored is the answer to its key, and its call cached.  *)
LEMMA StoreAnswerSound ==
  ASSUME LLMInv, NEW c \in Calls, StoreAnswer(c)
  PROVE  LLMInv'
<1> DEFINE k == call[c].payload
           r == [call[c] EXCEPT !.phase = "answered"]
<1>1. call[c] \in Call /\ Sound(c, call[c]) /\ call[c].phase = "storing"
  BY DEF LLMInv, LLMTypeOK, CallsSound, StoreAnswer
<1>2. /\ call[c].cacheable = "yes" /\ k \in Payloads
      /\ call[c].answer \in Answer /\ call[c].answer # NoAnswer
      /\ call[c].answer.to = c /\ call[c].answer.payload = k
  BY <1>1 DEF Sound, Call
<1>3. /\ r \in Call /\ Sound(c, r) /\ r.phase # "new"
      /\ r.cacheable = call[c].cacheable /\ ~ HoldsSlot(r)
  BY <1>1 DEF Call, Phases, Sound, HoldsSlot
<1>4. /\ call' = [call EXCEPT ![c] = r]
      /\ cache' = [cache EXCEPT ![k] = call[c].answer]
      /\ UNCHANGED expiries
  BY DEF StoreAnswer, Key
<1>5. slots' = IF Working(c) THEN slots + 1 ELSE slots
  BY <1>1 DEF StoreAnswer, Release, Settled, Working
<1> HIDE DEF r
<1>6. /\ call' \in [Calls -> Call]
      /\ \A d \in Calls : Caches(d) => Caches(d)'
      /\ CallsSound'
  BY <1>3, <1>4, OneCallChanges
<1>7. slots' \in 0 .. BatchSem /\ SlotsAccounted'
  BY <1>3, <1>4, <1>5, SlotsFollowCalls
<1>8. cache' \in [Payloads -> Answer \cup {NoAnswer}]
  BY <1>2, <1>4 DEF LLMInv, LLMTypeOK
<1>9. CacheSound'
  <2>1. SUFFICES ASSUME NEW j \in Payloads, cache'[j] # NoAnswer
                 PROVE  cache'[j].payload = j /\ Caches(cache[j].to)'
    BY DEF CacheSound
  <2>2. CASE j = k
    <3>1. cache'[j] = call[c].answer
      BY <1>2, <1>4, <2>2 DEF LLMInv, LLMTypeOK
    <3>2. Caches(c)
      BY <1>1, <1>2 DEF Caches
    <3> QED BY <3>1, <3>2, <1>2, <1>6, <2>2 DEF Caches
  <2>3. CASE j # k
    <3>1. cache'[j] = cache[j] /\ cache[j] # NoAnswer
      BY <1>4, <2>1, <2>3 DEF LLMInv, LLMTypeOK
    <3>2. cache[j].payload = j /\ Caches(cache[j].to) /\ cache[j].to \in Calls
      BY <3>1 DEF LLMInv, LLMTypeOK, CacheSound, Answer
    <3> QED BY <3>1, <3>2, <1>6 DEF Caches
  <2> QED BY <2>2, <2>3
<1> QED
  BY <1>4, <1>6, <1>7, <1>8, <1>9 DEF LLMInv, LLMTypeOK

LEMMA ExpireSound ==
  ASSUME LLMInv, NEW k \in Payloads, Expire(k)
  PROVE  LLMInv'
<1>1. /\ UNCHANGED <<call, slots>>
      /\ cache' = [cache EXCEPT ![k] = NoAnswer]
      /\ expiries' = expiries + 1 /\ expiries < MaxExpiries
  BY DEF Expire
<1>2. cache' \in [Payloads -> Answer \cup {NoAnswer}] /\ expiries' \in 0 .. MaxExpiries
  BY <1>1, LLMConstants DEF LLMInv, LLMTypeOK
<1>3. CacheSound'
  BY <1>1 DEF LLMInv, LLMTypeOK, CacheSound, Caches
<1> QED
  BY <1>1, <1>2, <1>3 DEF LLMInv, LLMTypeOK, CallsSound, Sound, Caches,
     SlotsAccounted, Working

LEMMA StepSound == LLMInv /\ [LLMNext]_llmVars => LLMInv'
<1> SUFFICES ASSUME LLMInv, [LLMNext]_llmVars PROVE LLMInv'
  OBVIOUS
<1>1. ASSUME NEW c \in Calls, NEW p \in Payloads, NEW b \in {"yes", "no"},
             ChatCompletions(c, p, b)
      PROVE  LLMInv'
  BY <1>1, ChatCompletionsSound
<1>2. ASSUME NEW c \in Calls, Acquire(c) PROVE LLMInv'
  BY <1>2, AcquireSound
<1>3. ASSUME NEW c \in Calls, Complete(c) PROVE LLMInv'
  BY <1>3, CacheFailsSound, CacheHitSound, CacheMissSound, ProviderAnswersSound,
     ProviderFailsSound, StoreAnswerSound DEF Complete
<1>4. ASSUME NEW items \in SUBSET Calls, NEW payload \in [items -> Payloads],
             NEW cacheable \in [items -> {"yes", "no"}],
             ChatBatch(items, payload, cacheable)
      PROVE  LLMInv'
  BY <1>4, ChatBatchSound
<1>5. ASSUME NEW k \in Payloads, Expire(k) PROVE LLMInv'
  BY <1>5, ExpireSound
<1>6. CASE UNCHANGED llmVars
  BY <1>6 DEF llmVars, LLMInv, LLMTypeOK, CallsSound, CacheSound, Sound, Caches,
     SlotsAccounted, Working
<1> QED BY <1>1, <1>2, <1>3, <1>4, <1>5, <1>6 DEF LLMNext

LEMMA LLMInvariant == LLMSpec => []LLMInv
<1> QED BY InitSound, StepSound, PTL DEF LLMSpec

-------------------------------------------------------------------------------
(* For any number of overlapping calls, batches, expiries and failures, an  *)
(* answer is the provider's to the very messages of its call, and another   *)
(* call's only when both may be cached (llm.py: complete).                  *)
THEOREM AnswersAreTheirOwn == LLMSpec => []AnswerIsForTheRequest
<1>1. LLMInv => AnswerIsForTheRequest
  BY DEF LLMInv, CallsSound, Sound, Caches, AnswerIsForTheRequest
<1> QED BY <1>1, LLMInvariant, PTL

(* For any size of the semaphore no slot is lost and none is used twice,    *)
(* however the items of the batches end (routers/chat.py: chat_batch).      *)
THEOREM SlotsNeverLost == LLMSpec => []SlotsAccounted
<1>1. LLMInv => SlotsAccounted
  BY DEF LLMInv
<1> QED BY <1>1, LLMInvariant, PTL
===============================================================================
